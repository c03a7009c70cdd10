------------------------ MODULE ReplayWindow_proofs -------------------------
(***************************************************************************)
(* The window keeps exactly the recent history (BitmapIsHistory), for      *)
(* every window size and every set of sequence numbers; that it implements *)
(* AntiReplay and that the two ports agree follow step by step from it.    *)
(***************************************************************************)
EXTENDS ReplayWindow, TLAPS

\* The inductive invariant: types, and the bitmap as the recent history.
IInv == TypeOK /\ BitmapIsHistory

-----------------------------------------------------------------------------
\* What the masked shift returns: bit o of the result is bit o - shift.
LEMMA ShiftMaskedSpec ==
  ASSUME NEW bits, NEW shift \in Nat, NEW o \in 0..(Size - 1)
  PROVE  o \in ShiftMasked(bits, shift) <=> o - shift \in bits
BY DEF ShiftMasked

\* accept() opening, sliding, refusing or marking keeps the bitmap equal to
\* the recent history.
LEMMA IInvStep ==
  ASSUME IInv, NEW seq \in Seqs, Accept(seq)
  PROVE  IInv'
<1> USE SizeAssumption
<1>0. seq \in Nat  BY SeqsAssumption
<1> USE <1>0
<1>1. CASE RejectNonPositive(seq)
  BY <1>1 DEF IInv, TypeOK, BitmapIsHistory, RejectNonPositive, Returns
<1>2. CASE AcceptFirst(seq)
  <2>1. TypeOK'
    BY <1>2 DEF IInv, TypeOK, AcceptFirst, Returns
  <2>2. accepted = {} /\ accepted' = {seq} /\ max_seq' = seq /\ bitmap' = {0}
    BY <1>2 DEF IInv, BitmapIsHistory, AcceptFirst, Returns
  <2>3. BitmapIsHistory'
    BY <1>2, <2>2 DEF BitmapIsHistory, AcceptFirst
  <2>4. QED BY <2>1, <2>3 DEF IInv
<1>3. CASE AcceptNewer(seq)
  <2> DEFINE shift == seq - max_seq
  <2>0. /\ max_seq \in Nat /\ max_seq # 0 /\ seq > max_seq
        /\ max_seq' = seq /\ accepted' = accepted \union {seq}
        /\ shift \in Nat /\ shift > 0
        /\ bitmap' = (IF shift >= Size THEN {}
                      ELSE ShiftMasked(bitmap, shift)) \union {0}
    BY <1>3 DEF IInv, TypeOK, AcceptNewer, Returns
  <2>1. TypeOK'
    BY <1>3, <2>0 DEF IInv, TypeOK, AcceptNewer, Returns, ShiftMasked
  <2>2. \A a \in accepted' : 0 < a /\ a <= max_seq'
    BY <2>0 DEF IInv, TypeOK, BitmapIsHistory
  <2>3. ASSUME NEW o \in 0..(Size - 1)
        PROVE  o \in bitmap' <=> max_seq' - o \in accepted'
    <3>1. CASE o = 0
      BY <2>0, <3>1
    <3>2. CASE o # 0 /\ o < shift
      \* Strictly between the old and the new maximum nothing was accepted.
      <4>1. max_seq' - o > max_seq /\ max_seq' - o # seq
        BY <2>0, <3>2
      <4>2. max_seq' - o \notin accepted'
        BY <2>0, <4>1 DEF IInv, TypeOK, BitmapIsHistory
      <4>3. o - shift \notin bitmap
        BY <2>0, <3>2 DEF IInv, TypeOK
      <4>4. QED BY <2>0, <3>2, <4>2, <4>3, ShiftMaskedSpec
    <3>3. CASE o >= shift
      <4>1. shift < Size /\ o - shift \in 0..(Size - 1) /\ o # 0
        BY <2>0, <3>3
      <4>2. max_seq' - o = max_seq - (o - shift) /\ max_seq' - o # seq
        BY <2>0, <3>3
      <4>3. o - shift \in bitmap <=> max_seq - (o - shift) \in accepted
        BY <4>1 DEF IInv, BitmapIsHistory
      <4>4. QED BY <2>0, <4>1, <4>2, <4>3, ShiftMaskedSpec
    <3>4. QED BY <2>0, <3>1, <3>2, <3>3
  <2>4. BitmapIsHistory'
    BY <2>0, <2>2, <2>3 DEF BitmapIsHistory
  <2>5. QED BY <2>1, <2>4 DEF IInv
<1>4. CASE RejectOld(seq)
  BY <1>4 DEF IInv, TypeOK, BitmapIsHistory, RejectOld, Returns
<1>5. CASE AcceptLate(seq)
  <2>0. /\ max_seq \in Nat /\ max_seq # 0 /\ max_seq' = max_seq
        /\ max_seq - seq \in 0..(Size - 1)
        /\ accepted' = accepted \union {seq}
        /\ bitmap' = bitmap \union {max_seq - seq}
    BY <1>5 DEF IInv, TypeOK, AcceptLate, InWindow, Returns
  <2>1. TypeOK'
    BY <1>5, <2>0 DEF IInv, TypeOK, AcceptLate, Returns
  <2>2. ASSUME NEW o \in 0..(Size - 1)
        PROVE  o \in bitmap' <=> max_seq' - o \in accepted'
    <3>1. o = max_seq - seq <=> max_seq - o = seq
      BY <2>0
    <3>2. QED BY <2>0, <3>1 DEF IInv, BitmapIsHistory
  <2>3. BitmapIsHistory'
    BY <1>5, <2>0, <2>2 DEF IInv, TypeOK, BitmapIsHistory, AcceptLate
  <2>4. QED BY <2>1, <2>3 DEF IInv
<1>6. QED BY <1>1, <1>2, <1>3, <1>4, <1>5 DEF Accept

\* The bitmap is the recent history in every reachable state: what an
\* accept() that shifts, masks or clears wrongly would lose first.
THEOREM BitmapInvariant == Spec => [](TypeOK /\ BitmapIsHistory)
<1>1. Init => IInv
  BY SizeAssumption DEF Init, IInv, TypeOK, BitmapIsHistory
<1>2. IInv /\ [Next]_vars => IInv'
  <2>1. CASE Next  BY <2>1, IInvStep DEF Next
  <2>2. CASE UNCHANGED vars
    BY <2>2 DEF vars, IInv, TypeOK, BitmapIsHistory
  <2>3. QED BY <2>1, <2>2
<1>3. QED BY <1>1, <1>2, PTL DEF Spec, IInv

-----------------------------------------------------------------------------
\* Under the invariant, "older than the window" is a fact about the history.
LEMMA StaleIsBelowWindow ==
  ASSUME IInv, NEW seq \in Nat, seq <= max_seq
  PROVE  Abstract!Stale(seq) <=> ~InWindow(max_seq - seq)
<1>1. CASE max_seq = 0
  BY <1>1, SizeAssumption
     DEF IInv, TypeOK, BitmapIsHistory, Abstract!Stale, InWindow
<1>2. CASE max_seq # 0
  BY <1>2, SizeAssumption
     DEF IInv, TypeOK, BitmapIsHistory, Abstract!Stale, InWindow
<1>3. QED BY <1>1, <1>2

\* A number above the maximum is fresh and not stale.
LEMMA NewerIsFresh ==
  ASSUME IInv, NEW seq \in Nat, seq > max_seq
  PROVE  seq \notin accepted /\ ~Abstract!Stale(seq)
BY SizeAssumption DEF IInv, TypeOK, BitmapIsHistory, Abstract!Stale

\* Each return of accept() is the abstract filter's answer.
LEMMA AcceptRefines ==
  ASSUME IInv, NEW seq \in Seqs, Accept(seq)
  PROVE  Abstract!Admit(seq) \/ Abstract!Refuse(seq)
<1>0. seq \in Nat  BY SeqsAssumption
<1> USE <1>0
<1>1. CASE RejectNonPositive(seq)
  BY <1>1 DEF RejectNonPositive, Returns, Abstract!Refuse
<1>2. CASE AcceptFirst(seq)
  BY <1>2, NewerIsFresh DEF AcceptFirst, Returns, Abstract!Admit
<1>3. CASE AcceptNewer(seq)
  <2>1. max_seq \in Nat /\ seq > max_seq /\ seq > 0
    BY <1>3 DEF AcceptNewer, IInv, TypeOK
  <2>2. QED BY <1>3, <2>1, NewerIsFresh DEF AcceptNewer, Returns, Abstract!Admit
<1>4. CASE RejectOld(seq)
  <2>1. max_seq - seq \in bitmap => seq \in accepted
    <3>1. ASSUME max_seq - seq \in bitmap  PROVE seq \in accepted
      <4>1. /\ max_seq - seq \in 0..(Size - 1)
            /\ max_seq - (max_seq - seq) = seq
        BY <3>1 DEF IInv, TypeOK
      <4>2. QED BY <3>1, <4>1 DEF IInv, BitmapIsHistory
    <3>2. QED BY <3>1
  <2>2. QED
    BY <1>4, <2>1, StaleIsBelowWindow
       DEF RejectOld, Returns, Abstract!Refuse
<1>5. CASE AcceptLate(seq)
  <2>1. seq \notin accepted
    <3>1. max_seq - seq \in 0..(Size - 1) /\ max_seq - (max_seq - seq) = seq
      BY <1>5, SizeAssumption DEF AcceptLate, InWindow, IInv, TypeOK
    <3>2. QED BY <1>5, <3>1 DEF AcceptLate, IInv, BitmapIsHistory
  <2>2. QED
    BY <1>5, <2>1, StaleIsBelowWindow
       DEF AcceptLate, Returns, Abstract!Admit
<1>6. QED BY <1>1, <1>2, <1>3, <1>4, <1>5 DEF Accept

\* The window lets a number through exactly when the abstract filter does:
\* at most once, and never refusing one that is fresh and recent.
THEOREM Refinement == Spec => ImplementsAntiReplay
<1>1. Init => Abstract!Init
  BY DEF Init, Abstract!Init
<1>2. IInv /\ [Next]_vars => [Abstract!Next]_<<accepted, verdict>>
  <2>1. CASE Next  BY <2>1, AcceptRefines DEF Next, Abstract!Next
  <2>2. CASE UNCHANGED vars  BY <2>2 DEF vars
  <2>3. QED BY <2>1, <2>2
<1>3. QED
  BY <1>1, <1>2, BitmapInvariant, PTL
     DEF Spec, IInv, ImplementsAntiReplay, Abstract!Spec

-----------------------------------------------------------------------------
\* Copying the bits one by one is the masked shift.
LEMMA CopyIsShift ==
  ASSUME NEW bits \in SUBSET (0..(Size - 1)), NEW shift \in Nat
  PROVE  CopyBits(Size, bits, shift) = ShiftMasked(bits, shift)
<1> USE SizeAssumption
<1>1. ASSUME NEW o \in CopyBits(Size, bits, shift)
      PROVE  o \in ShiftMasked(bits, shift)
  <2>1. PICK b \in bits : b + shift < Size /\ o = b + shift
    BY <1>1 DEF CopyBits
  <2>2. b \in 0..(Size - 1) /\ o \in 0..(Size - 1) /\ o - shift = b
    BY <2>1
  <2>3. QED BY <2>1, <2>2 DEF ShiftMasked
<1>2. ASSUME NEW o \in ShiftMasked(bits, shift)
      PROVE  o \in CopyBits(Size, bits, shift)
  <2>1. o \in 0..(Size - 1) /\ o - shift \in bits
    BY <1>2 DEF ShiftMasked
  <2>2. (o - shift) + shift = o /\ o < Size
    BY <2>1
  <2>3. QED BY <2>1, <2>2 DEF CopyBits
<1>3. QED BY <1>1, <1>2

\* The Java accept() leaves the state and gives the answer of the Python one.
LEMMA PortsAgreeStep ==
  ASSUME IInv, NEW seq \in Seqs, Accept(seq)
  PROVE  JavaAccept(Size, max_seq, bitmap, verdict'.seq)
           = [max |-> max_seq', bits |-> bitmap', ok |-> verdict'.ok]
<1> USE SizeAssumption
<1>0. seq \in Nat /\ max_seq \in Nat /\ bitmap \in SUBSET (0..(Size - 1))
  BY SeqsAssumption DEF IInv, TypeOK
<1> USE <1>0
<1>1. CASE RejectNonPositive(seq)
  BY <1>1 DEF RejectNonPositive, Returns, JavaAccept
<1>2. CASE AcceptFirst(seq)
  <2>1. bitmap = {}
    BY <1>2 DEF AcceptFirst, IInv, BitmapIsHistory
  <2>2. QED BY <1>2, <2>1 DEF AcceptFirst, Returns, JavaAccept
<1>3. CASE AcceptNewer(seq)
  <2>1. /\ seq > max_seq /\ max_seq # 0 /\ max_seq' = seq
        /\ verdict' = [seq |-> seq, ok |-> TRUE]
        /\ bitmap' = (IF seq - max_seq >= Size THEN {}
                      ELSE ShiftMasked(bitmap, seq - max_seq)) \union {0}
    BY <1>3 DEF AcceptNewer, Returns
  <2>2. CopyBits(Size, bitmap, seq - max_seq) = ShiftMasked(bitmap, seq - max_seq)
    BY <2>1, CopyIsShift
  <2>3. bitmap' = {0} \union (IF seq - max_seq < Size
                              THEN CopyBits(Size, bitmap, seq - max_seq) ELSE {})
    BY <2>1, <2>2
  <2>4. /\ ~(seq <= 0) /\ ~(seq > 0 /\ max_seq = 0) /\ verdict'.seq = seq
        /\ verdict'.ok = TRUE
    BY <2>1
  <2>5. JavaAccept(Size, max_seq, bitmap, seq)
          = [max |-> seq,
             bits |-> {0} \union (IF seq - max_seq < Size
                                  THEN CopyBits(Size, bitmap, seq - max_seq)
                                  ELSE {}),
             ok |-> TRUE]
    BY <2>1, <2>4 DEF JavaAccept
  <2>6. QED BY <2>1, <2>3, <2>4, <2>5
<1>4. CASE RejectOld(seq)
  BY <1>4 DEF RejectOld, InWindow, Returns, JavaAccept
<1>5. CASE AcceptLate(seq)
  BY <1>5 DEF AcceptLate, InWindow, Returns, JavaAccept
<1>6. QED BY <1>1, <1>2, <1>3, <1>4, <1>5 DEF Accept

\* The Python and the Android window answer alike in every reachable state,
\* so either end may run on either port.
THEOREM PortsAgreeAlways == Spec => PortsAgree
<1>1. IInv /\ [Next]_vars
        => [JavaAccept(Size, max_seq, bitmap, verdict'.seq)
              = [max |-> max_seq', bits |-> bitmap', ok |-> verdict'.ok]]_vars
  BY PortsAgreeStep DEF Next
<1>2. QED BY <1>1, BitmapInvariant, PTL DEF Spec, IInv, PortsAgree
=============================================================================
