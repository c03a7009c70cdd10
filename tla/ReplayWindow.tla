---------------------------- MODULE ReplayWindow ----------------------------
(***************************************************************************)
(* The sliding replay window of src/pyvpn/replay.py, which the server      *)
(* keeps per session for client packets and the client for server packets. *)
(* The bitmap integer is the set of its one bits: bit o stands for         *)
(* max_seq - o. The Android port keeps the same window in a BitSet; its    *)
(* step is written out as JavaAccept and compared with this one.           *)
(***************************************************************************)
EXTENDS Integers

CONSTANTS Size,        \* bits in the window (1024 in the code)
          Seqs         \* the sequence numbers headers carry in this instance

ASSUME SizeAssumption == Size \in Nat \ {0}
ASSUME SeqsAssumption == Seqs \subseteq Nat   \* the header field is unsigned

VARIABLES max_seq,     \* ReplayWindow.max_seq
          bitmap,      \* the set of one bits of ReplayWindow.bitmap
          accepted,    \* history: every number accept() returned True for
          verdict      \* history: the last call and what it returned

vars == <<max_seq, bitmap, accepted, verdict>>

Init == /\ max_seq = 0
        /\ bitmap = {}
        /\ accepted = {}
        /\ verdict = [seq |-> 0, ok |-> FALSE]

-----------------------------------------------------------------------------
\* Faulty variants of the definitions below, for the sensitivity of each
\* property: a shift one short, an edge off by one.
ShiftMasked_short(bits, shift) == {o \in 0..(Size - 1) : o - shift + 1 \in bits}

\* bitmap << shift, then masked to the low Size bits.
ShiftMasked(bits, shift) == {o \in 0..(Size - 1) : o - shift \in bits}

Returns(seq, ok) ==
    /\ verdict' = [seq |-> seq, ok |-> ok]
    /\ accepted' = IF ok THEN accepted \union {seq} ELSE accepted

\* seq <= 0: the header decodes to an unsigned number, so this is zero.
RejectNonPositive(seq) ==
    /\ seq <= 0
    /\ Returns(seq, FALSE)
    /\ UNCHANGED <<max_seq, bitmap>>

\* The first number opens the window.
AcceptFirst(seq) ==
    /\ seq > 0
    /\ max_seq = 0
    /\ max_seq' = seq
    /\ bitmap' = {0}
    /\ Returns(seq, TRUE)

\* A newer number slides the window, or empties it when the jump is too far.
AcceptNewer(seq) ==
    /\ max_seq # 0
    /\ seq > max_seq
    /\ bitmap' = (IF seq - max_seq >= Size THEN {}
                  ELSE ShiftMasked(bitmap, seq - max_seq)) \union {0}
    /\ max_seq' = seq
    /\ Returns(seq, TRUE)

\* An older number is below the window, already marked, or marked now.
InWindow_wide(offset) == offset <= Size
InWindow(offset) == offset < Size

RejectOld(seq) ==
    /\ seq > 0
    /\ max_seq # 0
    /\ seq <= max_seq
    /\ ~InWindow(max_seq - seq) \/ max_seq - seq \in bitmap
    /\ Returns(seq, FALSE)
    /\ UNCHANGED <<max_seq, bitmap>>

AcceptLate(seq) ==
    /\ seq > 0
    /\ max_seq # 0
    /\ seq <= max_seq
    /\ InWindow(max_seq - seq)
    /\ max_seq - seq \notin bitmap
    /\ bitmap' = bitmap \union {max_seq - seq}
    /\ UNCHANGED max_seq
    /\ Returns(seq, TRUE)

\* ReplayWindow.accept(seq), its returns in the order of the code.
Accept(seq) == \/ RejectNonPositive(seq)
               \/ AcceptFirst(seq)
               \/ AcceptNewer(seq)
               \/ RejectOld(seq)
               \/ AcceptLate(seq)

Next == \E seq \in Seqs : Accept(seq)

Spec == Init /\ [][Next]_vars

-----------------------------------------------------------------------------
\* The BitSet of the Android port: the bits copied one by one into a new set
\* when the window slides, and accept() as the state it leaves and its answer.
CopyBits_wide(size, seen, shift) ==
    {b + shift : b \in {s \in seen : s + shift <= size}}
CopyBits(size, seen, shift) ==
    {b + shift : b \in {s \in seen : s + shift < size}}

JavaAccept(size, maxSequence, seen, sequence) ==
    LET shift  == sequence - maxSequence
        offset == maxSequence - sequence
        Result(m, s, ok) == [max |-> m, bits |-> s, ok |-> ok]
    IN  CASE sequence <= 0 -> Result(maxSequence, seen, FALSE)
          [] sequence > 0 /\ maxSequence = 0 ->
                 Result(sequence, seen \union {0}, TRUE)
          [] sequence > maxSequence /\ maxSequence # 0 ->
                 Result(sequence,
                        {0} \union (IF shift < size THEN CopyBits(size, seen, shift)
                                    ELSE {}),
                        TRUE)
          [] OTHER ->
                 IF offset >= size \/ offset \in seen
                 THEN Result(maxSequence, seen, FALSE)
                 ELSE Result(maxSequence, seen \union {offset}, TRUE)

-----------------------------------------------------------------------------
\* The window and the history have their types, and every marked bit fits in
\* the mask that replay.py applies after the shift.
TypeOK == /\ max_seq \in Nat
          /\ bitmap \in SUBSET (0..(Size - 1))
          /\ accepted \in SUBSET Nat
          /\ verdict \in [seq : Nat, ok : BOOLEAN]

\* The bitmap is exactly the recent history: bit o is set when max_seq - o was
\* accepted. A window that forgets a bit on a shift, or keeps one across a long
\* jump, breaks it at once, long before a number is accepted twice.
BitmapIsHistory ==
    /\ max_seq = 0 => accepted = {}
    /\ max_seq # 0 => max_seq \in accepted
    /\ \A a \in accepted : 0 < a /\ a <= max_seq
    /\ \A o \in 0..(Size - 1) : o \in bitmap <=> max_seq - o \in accepted

\* Over any order of arrivals, duplicates and jumps, accept() lets a number
\* through exactly when AntiReplay says so: never twice, and refused only when
\* it was let through before or has fallen Size behind the newest one.
Abstract == INSTANCE AntiReplay
ImplementsAntiReplay == Abstract!Spec

\* The two ports keep the same window: from every reachable state the Java
\* accept() leaves the state and gives the answer the Python accept() does.
PortsAgree ==
    [][JavaAccept(Size, max_seq, bitmap, verdict'.seq)
          = [max |-> max_seq', bits |-> bitmap', ok |-> verdict'.ok]]_vars
=============================================================================
