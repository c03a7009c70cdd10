--------------------------- MODULE TunnelService ----------------------------
(***************************************************************************)
(* What the tunnel promises to the IP packets in it. It may lose, delay    *)
(* and reorder them. It hands a packet over only at the other end of the   *)
(* session it was sealed in, at most once, and only when it is traffic of  *)
(* the address that session was given.                                     *)
(***************************************************************************)
EXTENDS Naturals

CONSTANTS Sessions, Vips, NoVip

VARIABLES vip,       \* the address each session was given
          sent,      \* packets sealed: [session, dir, seq, host]
          handed     \* packets written to a TUN device, and how often

vars == <<vip, sent, handed>>

Init == /\ vip = [s \in Sessions |-> NoVip]
        /\ sent = {}
        /\ handed = [p \in {} |-> 0]

Give(s, v) == /\ vip[s] = NoVip
              /\ vip' = [vip EXCEPT ![s] = v]
              /\ UNCHANGED <<sent, handed>>

Send(p) == /\ vip[p.session] # NoVip
           /\ p \notin sent
           /\ sent' = sent \union {p}
           /\ UNCHANGED <<vip, handed>>

HandOver(p) == /\ p \in sent
               /\ p.host = vip[p.session]
               /\ p \notin DOMAIN handed
               /\ handed' = [q \in DOMAIN handed \union {p} |->
                                IF q = p THEN 1 ELSE handed[q]]
               /\ UNCHANGED <<vip, sent>>

Packets == [session : Sessions, dir : {"c2s", "s2c"}, seq : Nat, host : Vips]

Next == \/ \E s \in Sessions, v \in Vips : Give(s, v)
        \/ \E p \in sent' \ sent : p \in Packets /\ Send(p)
        \/ \E p \in sent : HandOver(p)

Spec == Init /\ [][Next]_vars
=============================================================================
