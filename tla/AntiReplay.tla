----------------------------- MODULE AntiReplay -----------------------------
(***************************************************************************)
(* What a replay filter promises, stated without a bitmap: a sequence      *)
(* number is let through exactly when it is positive, was never let        *)
(* through before, and has not fallen Size or more behind the newest one.  *)
(***************************************************************************)
EXTENDS Integers

CONSTANTS Size,        \* how far behind the newest a number may still arrive
          Seqs         \* the sequence numbers a packet header can carry

VARIABLES accepted,    \* the numbers let through so far
          verdict      \* the last number offered and the answer it got

Init == /\ accepted = {}
        /\ verdict = [seq |-> 0, ok |-> FALSE]

Stale(seq) == \E a \in accepted : a - seq >= Size

Admit(seq) == /\ seq > 0
              /\ seq \notin accepted
              /\ ~Stale(seq)
              /\ accepted' = accepted \union {seq}
              /\ verdict' = [seq |-> seq, ok |-> TRUE]

Refuse(seq) == /\ seq <= 0 \/ seq \in accepted \/ Stale(seq)
               /\ verdict' = [seq |-> seq, ok |-> FALSE]
               /\ UNCHANGED accepted

Next == \E seq \in Seqs : Admit(seq) \/ Refuse(seq)

Spec == Init /\ [][Next]_<<accepted, verdict>>
=============================================================================
