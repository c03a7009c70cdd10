---------------------------- MODULE AddressLease ----------------------------
(***************************************************************************)
(* What the server promises about tunnel addresses, without connections,   *)
(* handlers or timeouts: an address has at most one holder, a client holds *)
(* at most one address, and an address goes from one holder to the next    *)
(* only after it was given back.                                           *)
(***************************************************************************)
CONSTANTS Clients,     \* who can hold an address
          Addresses,   \* the addresses of the pool
          Free         \* marks an address nobody holds

VARIABLE holder        \* the holder of each address

Init == holder = [a \in Addresses |-> Free]

\* A client that holds nothing gets an address nobody holds.
Grant(c, a) == /\ holder[a] = Free
               /\ \A b \in Addresses : holder[b] # c
               /\ holder' = [holder EXCEPT ![a] = c]

\* Some addresses are given back together (a timeout scan, the shutdown).
Release(A) == holder' = [a \in Addresses |-> IF a \in A THEN Free ELSE holder[a]]

Next == \/ \E c \in Clients, a \in Addresses : Grant(c, a)
        \/ \E A \in SUBSET Addresses : Release(A)

Spec == Init /\ [][Next]_holder
=============================================================================
