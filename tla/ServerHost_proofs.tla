------------------------- MODULE ServerHost_proofs -------------------------
(***************************************************************************)
(* NatWhileServing, CleanExit, LeftoversBounded, RouterStaysRouter and     *)
(* NothingUsesClosed for any number of runs cut short and any length of    *)
(* the event loop's queue.                                                 *)
(***************************************************************************)
EXTENDS ServerHost, TLAPS

\* Where the server's own masquerade is in place, and where it has read the
\* flag it will restore.
HasNat == {"listen", "serving", "stopping", "sleep", "natBack"}
HasRead == HasNat \union {"setForward", "deleteTable", "addTable", "forwardBack",
                          "close", "exiting"}

\* The rest of the host: what the run has done of enable and cleanup.
NatInv ==
    /\ pc \in HasNat \union {"deleteTable", "addTable"} => forward = "1"
    /\ pc \in HasNat =>
          mode = tool /\ (tool = "nft" => table) /\ (tool = "iptables" => rules > 0)
    /\ pc \in {"tun", "readForward", "setForward", "deleteTable", "addTable"} =>
          mode = "none"
    /\ pc \in HasRead => before \in Flags

\* The flag that is restored is the one the host had before the first run,
\* unless a run was cut short; then it is still "1" if that one was.
FlagInv ==
    /\ home = "1" /\ pc \in HasRead => before = "1"
    /\ cuts = 0 /\ pc \in HasRead => before = home
    /\ cuts = 0 /\ pc \in {"off", "tun", "readForward", "setForward", "close", "exiting"}
       => forward = home

\* The queue: run() is in it only while it sleeps, behind everything else; the
\* reader is in it at most once, and not any more when run() is done sleeping.
QueueInv ==
    /\ ~Suspended => ready = <<>>
    /\ pc # "sleep" => \A i \in DOMAIN ready : ready[i] # "run"
    /\ pc = "sleep" => /\ ready # <<>> /\ ~udp
                       /\ \A i \in DOMAIN ready : ready[i] = "run" <=> i = Len(ready)
    /\ \A i, j \in DOMAIN ready : ready[i] = "tun" /\ ready[j] = "tun" => i = j

ReaderInv ==
    /\ Suspended => reader # "none"
    /\ pc \in {"stopping", "sleep"} => cancelled
    /\ Suspended /\ cancelled => reader # "waiting"
    /\ pc \in {"natBack", "forwardBack", "close", "exiting"} => reader = "done"
    /\ device = "closed" => pc = "exiting"

IInv == TypeOK /\ NatInv /\ FlagInv /\ LeftoversBounded /\ RouterStaysRouter
        /\ QueueInv /\ ReaderInv

\* What one more callback, and one fewer, does to the queue.
LEMMA AppendKeeps ==
    ASSUME NEW s \in Seq(Callbacks), NEW e \in Callbacks
    PROVE  /\ Append(s, e) \in Seq(Callbacks)
           /\ Len(Append(s, e)) = Len(s) + 1 /\ Len(s) \in Nat
           /\ DOMAIN s = 1..Len(s) /\ DOMAIN Append(s, e) = 1..(Len(s) + 1)
           /\ \A i \in 1..Len(s) : Append(s, e)[i] = s[i]
           /\ Append(s, e)[Len(s) + 1] = e
OBVIOUS

LEMMA TailKeeps ==
    ASSUME NEW s \in Seq(Callbacks), s # <<>>
    PROVE  /\ Tail(s) \in Seq(Callbacks)
           /\ Len(s) \in Nat \ {0} /\ Len(Tail(s)) = Len(s) - 1
           /\ DOMAIN s = 1..Len(s) /\ DOMAIN Tail(s) = 1..(Len(s) - 1)
           /\ \A i \in 1..(Len(s) - 1) : Tail(s)[i] = s[i + 1]
           /\ Head(s) = s[1]
OBVIOUS

LEMMA InitIInv == Init => IInv
<1> SUFFICES ASSUME Init PROVE IInv
    OBVIOUS
<1> USE BoundsAssumption DEF Init, Tools, Flags, Steps, Setup
<1>1. ready = <<>> /\ ready \in Seq(Callbacks) /\ DOMAIN ready = {}
    BY DEF Init
<1>2. TypeOK
  <2>1. DueIsQueued
    BY <1>1 DEF DueIsQueued
  <2>2. cuts \in 0..MaxCuts
    BY DEF Init
  <2> HIDE DEF Init
  <2> QED
    BY ONLY <1>1, <2>1, <2>2, Init DEF TypeOK, Init, Tools, Flags, Steps, Setup
<1> QED
    BY <1>1, <1>2
    DEF IInv, NatInv, FlagInv, LeftoversBounded, RouterStaysRouter,
        QueueInv, ReaderInv, HasNat, HasRead, MineIsThere, Suspended

LEMMA IInvImplies ==
    IInv => NatWhileServing /\ CleanExit /\ NothingUsesClosed
<1> SUFFICES ASSUME IInv PROVE NatWhileServing /\ CleanExit /\ NothingUsesClosed
    OBVIOUS
<1>1. NatWhileServing
    BY DEF IInv, TypeOK, NatInv, HasNat, Suspended, NatWhileServing, Tools
<1>2. CleanExit
    BY DEF IInv, TypeOK, FlagInv, LeftoversBounded, HasNat, MineIsThere, CleanExit
<1>3. NothingUsesClosed
    BY DEF IInv, QueueInv, ReaderInv, Suspended, NothingUsesClosed
<1> QED
    BY <1>1, <1>2, <1>3

\* Every step keeps it.
LEMMA StepIInv == IInv /\ [Next]_vars => IInv'
<1> SUFFICES ASSUME IInv, [Next]_vars PROVE IInv'
    OBVIOUS
<1> USE BoundsAssumption DEF IInv, TypeOK, DueIsQueued, NatInv, FlagInv, LeftoversBounded,
        RouterStaysRouter, QueueInv, ReaderInv, HasNat, HasRead, MineIsThere, Steps,
        Setup, Flags, Tools, Suspended, config, nat, manager, loop, Goto
<1>1. CASE Start
  <2>1. TypeOK'
    BY <1>1 DEF Start
  <2>2. NatInv'
    BY <1>1 DEF Start
  <2>3. FlagInv'
    BY <1>1 DEF Start
  <2>4. LeftoversBounded'
    BY <1>1 DEF Start
  <2>5. RouterStaysRouter'
    BY <1>1 DEF Start
  <2>6. QueueInv'
    BY <1>1 DEF Start
  <2>7. ReaderInv'
    BY <1>1 DEF Start
  <2> QED
    BY <2>1, <2>2, <2>3, <2>4, <2>5, <2>6, <2>7
<1>2. CASE CreateTun
  <2>1. TypeOK'
    BY <1>2 DEF CreateTun
  <2>2. NatInv'
    BY <1>2 DEF CreateTun
  <2>3. FlagInv'
    BY <1>2 DEF CreateTun
  <2>4. LeftoversBounded'
    BY <1>2 DEF CreateTun
  <2>5. RouterStaysRouter'
    BY <1>2 DEF CreateTun
  <2>6. QueueInv'
    BY <1>2 DEF CreateTun
  <2>7. ReaderInv'
    BY <1>2 DEF CreateTun
  <2> QED
    BY <2>1, <2>2, <2>3, <2>4, <2>5, <2>6, <2>7
<1>3. CASE ReadForward
  <2>1. TypeOK'
    BY <1>3 DEF ReadForward
  <2>2. NatInv'
    BY <1>3 DEF ReadForward
  <2>3. FlagInv'
    BY <1>3 DEF ReadForward
  <2>4. LeftoversBounded'
    BY <1>3 DEF ReadForward
  <2>5. RouterStaysRouter'
    BY <1>3 DEF ReadForward
  <2>6. QueueInv'
    BY <1>3 DEF ReadForward
  <2>7. ReaderInv'
    BY <1>3 DEF ReadForward
  <2> QED
    BY <2>1, <2>2, <2>3, <2>4, <2>5, <2>6, <2>7
<1>4. CASE SetForward
  <2>1. TypeOK'
    BY <1>4 DEF SetForward
  <2>2. NatInv'
    BY <1>4 DEF SetForward
  <2>3. FlagInv'
    BY <1>4 DEF SetForward
  <2>4. LeftoversBounded'
    BY <1>4 DEF SetForward
  <2>5. RouterStaysRouter'
    BY <1>4 DEF SetForward
  <2>6. QueueInv'
    BY <1>4 DEF SetForward
  <2>7. ReaderInv'
    BY <1>4 DEF SetForward
  <2> QED
    BY <2>1, <2>2, <2>3, <2>4, <2>5, <2>6, <2>7
<1>5. CASE DeleteTable
  <2>1. TypeOK'
    BY <1>5 DEF DeleteTable
  <2>2. NatInv'
    BY <1>5 DEF DeleteTable
  <2>3. FlagInv'
    BY <1>5 DEF DeleteTable
  <2>4. LeftoversBounded'
    BY <1>5 DEF DeleteTable
  <2>5. RouterStaysRouter'
    BY <1>5 DEF DeleteTable
  <2>6. QueueInv'
    BY <1>5 DEF DeleteTable
  <2>7. ReaderInv'
    BY <1>5 DEF DeleteTable
  <2> QED
    BY <2>1, <2>2, <2>3, <2>4, <2>5, <2>6, <2>7
<1>6. CASE AddTable
  <2>1. TypeOK'
    BY <1>6 DEF AddTable
  <2>2. NatInv'
    BY <1>6 DEF AddTable
  <2>3. FlagInv'
    BY <1>6 DEF AddTable
  <2>4. LeftoversBounded'
    BY <1>6 DEF AddTable
  <2>5. RouterStaysRouter'
    BY <1>6 DEF AddTable
  <2>6. QueueInv'
    BY <1>6 DEF AddTable
  <2>7. ReaderInv'
    BY <1>6 DEF AddTable
  <2> QED
    BY <2>1, <2>2, <2>3, <2>4, <2>5, <2>6, <2>7
<1>7. CASE AppendRule
  <2>1. TypeOK'
    BY <1>7 DEF AppendRule
  <2>2. NatInv'
    BY <1>7 DEF AppendRule
  <2>3. FlagInv'
    BY <1>7 DEF AppendRule
  <2>4. LeftoversBounded'
    BY <1>7 DEF AppendRule
  <2>5. RouterStaysRouter'
    BY <1>7 DEF AppendRule
  <2>6. QueueInv'
    BY <1>7 DEF AppendRule
  <2>7. ReaderInv'
    BY <1>7 DEF AppendRule
  <2> QED
    BY <2>1, <2>2, <2>3, <2>4, <2>5, <2>6, <2>7
<1>8. CASE Listen
  <2>1. ready' = <<"tun">> /\ ready' \in Seq(Callbacks) /\ DOMAIN ready' = {1}
    BY <1>8 DEF Listen, Callbacks
  <2>2. TypeOK'
    <3>1. DueIsQueued'
        BY <1>8, <2>1 DEF Listen
    <3> HIDE DEF NatInv, FlagInv, LeftoversBounded, RouterStaysRouter, QueueInv,
             ReaderInv, DueIsQueued
    <3>2. ready' \in Seq(Callbacks)
        BY <1>8, <2>1 DEF Listen
    <3>5. /\ tool' \in Tools /\ home' \in Flags /\ forward' \in Flags
          /\ table' \in BOOLEAN /\ rules' \in Nat
          /\ before' \in Flags \union {Unread} /\ mode' \in Tools \union {"none"}
          /\ cuts' \in 0..MaxCuts
        BY ONLY TypeOK, <1>8
        DEF TypeOK, Listen, config, nat, manager, loop, Goto
    <3>6. /\ pc' \in Steps
          /\ device' \in {"none", "open", "closed"} /\ udp' \in BOOLEAN
          /\ reader' \in {"none", "waiting", "due", "done"}
          /\ cancelled' \in BOOLEAN
        BY ONLY TypeOK, <1>8 DEF TypeOK, Listen, Steps, Setup, loop, Goto
    <3> QED
        BY ONLY <3>1, <3>2, <3>5, <3>6 DEF TypeOK
  <2>3. NatInv'
    BY <1>8 DEF Listen
  <2>4. FlagInv'
    BY <1>8 DEF Listen
  <2>5. LeftoversBounded'
    BY <1>8 DEF Listen
  <2>6. RouterStaysRouter'
    BY <1>8 DEF Listen
  <2>7. QueueInv'
    BY <1>8, <2>1 DEF Listen
  <2>8. ReaderInv'
    BY <1>8, <2>1 DEF Listen
  <2> QED
    BY <2>2, <2>3, <2>4, <2>5, <2>6, <2>7, <2>8
<1>9. CASE SetupFails
  <2>1. ready' = <<>> /\ ready' \in Seq(Callbacks) /\ DOMAIN ready' = {}
    BY <1>9 DEF SetupFails, Gone, Callbacks
  <2>2. TypeOK'
    <3>1. DueIsQueued'
        BY <1>9, <2>1 DEF SetupFails, Gone
    <3> HIDE DEF NatInv, FlagInv, LeftoversBounded, RouterStaysRouter, QueueInv,
             ReaderInv, DueIsQueued
    <3>2. ready' \in Seq(Callbacks)
        BY <1>9, <2>1 DEF SetupFails, Gone
    <3>3. cuts' \in 0..MaxCuts
        BY <1>9 DEF SetupFails, Gone
    <3>5. /\ tool' \in Tools /\ home' \in Flags /\ forward' \in Flags
          /\ table' \in BOOLEAN /\ rules' \in Nat
          /\ before' \in Flags \union {Unread} /\ mode' \in Tools \union {"none"}
          /\ cuts' \in 0..MaxCuts
        BY ONLY TypeOK, <3>3, <1>9
        DEF TypeOK, SetupFails, Gone, config, nat, manager, loop, Goto
    <3>6. /\ pc' \in Steps
          /\ device' \in {"none", "open", "closed"} /\ udp' \in BOOLEAN
          /\ reader' \in {"none", "waiting", "due", "done"}
          /\ cancelled' \in BOOLEAN
        BY ONLY TypeOK, <1>9 DEF TypeOK, SetupFails, Gone, Steps, Setup, loop, Goto
    <3> QED
        BY ONLY <3>1, <3>2, <3>5, <3>6 DEF TypeOK
  <2>3. NatInv'
    BY <1>9 DEF SetupFails, Gone
  <2>4. FlagInv'
    BY <1>9 DEF SetupFails, Gone
  <2>5. LeftoversBounded'
    BY <1>9 DEF SetupFails, Gone
  <2>6. RouterStaysRouter'
    BY <1>9 DEF SetupFails, Gone
  <2>7. QueueInv'
    BY <1>9, <2>1 DEF SetupFails, Gone
  <2>8. ReaderInv'
    BY <1>9, <2>1 DEF SetupFails, Gone
  <2> QED
    BY <2>2, <2>3, <2>4, <2>5, <2>6, <2>7, <2>8
<1>10. CASE Killed
  <2>1. ready' = <<>> /\ ready' \in Seq(Callbacks) /\ DOMAIN ready' = {}
    BY <1>10 DEF Killed, Gone, Callbacks
  <2>2. TypeOK'
    <3>1. DueIsQueued'
        BY <1>10, <2>1 DEF Killed, Gone
    <3> HIDE DEF NatInv, FlagInv, LeftoversBounded, RouterStaysRouter, QueueInv,
             ReaderInv, DueIsQueued
    <3>2. ready' \in Seq(Callbacks)
        BY <1>10, <2>1 DEF Killed, Gone
    <3>3. cuts' \in 0..MaxCuts
        BY <1>10 DEF Killed, Gone
    <3>5. /\ tool' \in Tools /\ home' \in Flags /\ forward' \in Flags
          /\ table' \in BOOLEAN /\ rules' \in Nat
          /\ before' \in Flags \union {Unread} /\ mode' \in Tools \union {"none"}
          /\ cuts' \in 0..MaxCuts
        BY ONLY TypeOK, <3>3, <1>10
        DEF TypeOK, Killed, Gone, config, nat, manager, loop, Goto
    <3>6. /\ pc' \in Steps
          /\ device' \in {"none", "open", "closed"} /\ udp' \in BOOLEAN
          /\ reader' \in {"none", "waiting", "due", "done"}
          /\ cancelled' \in BOOLEAN
        BY ONLY TypeOK, <1>10 DEF TypeOK, Killed, Gone, Steps, Setup, loop, Goto
    <3> QED
        BY ONLY <3>1, <3>2, <3>5, <3>6 DEF TypeOK
  <2>3. NatInv'
    BY <1>10 DEF Killed, Gone
  <2>4. FlagInv'
    BY <1>10 DEF Killed, Gone
  <2>5. LeftoversBounded'
    BY <1>10 DEF Killed, Gone
  <2>6. RouterStaysRouter'
    BY <1>10 DEF Killed, Gone
  <2>7. QueueInv'
    BY <1>10, <2>1 DEF Killed, Gone
  <2>8. ReaderInv'
    BY <1>10, <2>1 DEF Killed, Gone
  <2> QED
    BY <2>2, <2>3, <2>4, <2>5, <2>6, <2>7, <2>8
<1>11. CASE DatagramReceived
  <2>1. /\ Append(ready, "datagram") \in Seq(Callbacks)
        /\ Len(Append(ready, "datagram")) = Len(ready) + 1 /\ Len(ready) \in Nat
        /\ DOMAIN ready = 1..Len(ready)
        /\ DOMAIN Append(ready, "datagram") = 1..(Len(ready) + 1)
        /\ \A i \in 1..Len(ready) : Append(ready, "datagram")[i] = ready[i]
        /\ Append(ready, "datagram")[Len(ready) + 1] = "datagram"
    BY AppendKeeps DEF Callbacks
  <2>2. TypeOK'
    BY <1>11, <2>1 DEF DatagramReceived
  <2>3. NatInv'
    BY <1>11 DEF DatagramReceived
  <2>4. FlagInv'
    BY <1>11 DEF DatagramReceived
  <2>5. LeftoversBounded'
    BY <1>11 DEF DatagramReceived
  <2>6. RouterStaysRouter'
    BY <1>11 DEF DatagramReceived
  <2>7. QueueInv'
    BY <1>11, <2>1 DEF DatagramReceived
  <2>8. ReaderInv'
    BY <1>11, <2>1 DEF DatagramReceived
  <2> QED
    BY <2>2, <2>3, <2>4, <2>5, <2>6, <2>7, <2>8
<1>12. CASE PacketArrives
  <2>1. /\ Append(ready, "tun") \in Seq(Callbacks)
        /\ Len(Append(ready, "tun")) = Len(ready) + 1 /\ Len(ready) \in Nat
        /\ DOMAIN ready = 1..Len(ready)
        /\ DOMAIN Append(ready, "tun") = 1..(Len(ready) + 1)
        /\ \A i \in 1..Len(ready) : Append(ready, "tun")[i] = ready[i]
        /\ Append(ready, "tun")[Len(ready) + 1] = "tun"
    BY AppendKeeps DEF Callbacks
  <2>2. TypeOK'
    BY <1>12, <2>1 DEF PacketArrives
  <2>3. NatInv'
    BY <1>12 DEF PacketArrives
  <2>4. FlagInv'
    BY <1>12 DEF PacketArrives
  <2>5. LeftoversBounded'
    BY <1>12 DEF PacketArrives
  <2>6. RouterStaysRouter'
    BY <1>12 DEF PacketArrives
  <2>7. QueueInv'
    BY <1>12, <2>1 DEF PacketArrives
  <2>8. ReaderInv'
    BY <1>12, <2>1 DEF PacketArrives
  <2> QED
    BY <2>2, <2>3, <2>4, <2>5, <2>6, <2>7, <2>8
<1>13. CASE HandleDatagram
  <2>1. /\ Tail(ready) \in Seq(Callbacks)
        /\ Len(ready) \in Nat \ {0} /\ Len(Tail(ready)) = Len(ready) - 1
        /\ DOMAIN ready = 1..Len(ready) /\ DOMAIN Tail(ready) = 1..(Len(ready) - 1)
        /\ \A i \in 1..(Len(ready) - 1) : Tail(ready)[i] = ready[i + 1]
        /\ Head(ready) = ready[1]
    BY <1>13, TailKeeps DEF HandleDatagram
  <2>2. TypeOK'
    <3>1. DueIsQueued'
        <4>1. ready[1] # "tun"
            BY <1>13, <2>1 DEF HandleDatagram
        <4>2. ASSUME NEW i \in DOMAIN ready, ready[i] = "tun"
              PROVE  i - 1 \in DOMAIN Tail(ready) /\ Tail(ready)[i - 1] = "tun"
            <5>1. i \in 2..Len(ready)
                BY <4>1, <4>2, <2>1
            <5> QED
                BY <4>2, <5>1, <2>1
        <4>3. ASSUME NEW i \in DOMAIN Tail(ready), Tail(ready)[i] = "tun"
              PROVE  i + 1 \in DOMAIN ready /\ ready[i + 1] = "tun"
            BY <4>3, <2>1
        <4> QED
            BY ONLY <1>13, <4>2, <4>3, DueIsQueued DEF DueIsQueued, HandleDatagram
    <3> HIDE DEF NatInv, FlagInv, LeftoversBounded, RouterStaysRouter, QueueInv,
             ReaderInv, DueIsQueued
    <3>2. ready' \in Seq(Callbacks)
        BY <1>13, <2>1 DEF HandleDatagram
    <3>5. /\ tool' \in Tools /\ home' \in Flags /\ forward' \in Flags
          /\ table' \in BOOLEAN /\ rules' \in Nat
          /\ before' \in Flags \union {Unread} /\ mode' \in Tools \union {"none"}
          /\ cuts' \in 0..MaxCuts
        BY ONLY TypeOK, <1>13
        DEF TypeOK, HandleDatagram, config, nat, manager, loop, Goto
    <3>6. /\ pc' \in Steps
          /\ device' \in {"none", "open", "closed"} /\ udp' \in BOOLEAN
          /\ reader' \in {"none", "waiting", "due", "done"}
          /\ cancelled' \in BOOLEAN
        BY ONLY TypeOK, <1>13 DEF TypeOK, HandleDatagram, Steps, Setup, loop, Goto
    <3> QED
        BY ONLY <3>1, <3>2, <3>5, <3>6 DEF TypeOK
  <2>3. NatInv'
    BY <1>13 DEF HandleDatagram
  <2>4. FlagInv'
    BY <1>13 DEF HandleDatagram
  <2>5. LeftoversBounded'
    BY <1>13 DEF HandleDatagram
  <2>6. RouterStaysRouter'
    BY <1>13 DEF HandleDatagram
  <2>7. QueueInv'
    BY <1>13, <2>1 DEF HandleDatagram
  <2>8. ReaderInv'
    BY <1>13, <2>1 DEF HandleDatagram
  <2> QED
    BY <2>2, <2>3, <2>4, <2>5, <2>6, <2>7, <2>8
<1>14. CASE ReadTun
  <2>1. /\ Tail(ready) \in Seq(Callbacks)
        /\ Len(ready) \in Nat \ {0} /\ Len(Tail(ready)) = Len(ready) - 1
        /\ DOMAIN ready = 1..Len(ready) /\ DOMAIN Tail(ready) = 1..(Len(ready) - 1)
        /\ \A i \in 1..(Len(ready) - 1) : Tail(ready)[i] = ready[i + 1]
        /\ Head(ready) = ready[1]
    BY <1>14, TailKeeps DEF ReadTun
  <2>2. TypeOK'
    <3>1. DueIsQueued'
        BY <1>14, <2>1 DEF ReadTun
    <3> HIDE DEF NatInv, FlagInv, LeftoversBounded, RouterStaysRouter, QueueInv,
             ReaderInv, DueIsQueued
    <3>2. ready' \in Seq(Callbacks)
        BY <1>14, <2>1 DEF ReadTun
    <3>5. /\ tool' \in Tools /\ home' \in Flags /\ forward' \in Flags
          /\ table' \in BOOLEAN /\ rules' \in Nat
          /\ before' \in Flags \union {Unread} /\ mode' \in Tools \union {"none"}
          /\ cuts' \in 0..MaxCuts
        BY ONLY TypeOK, <1>14
        DEF TypeOK, ReadTun, config, nat, manager, loop, Goto
    <3>6. /\ pc' \in Steps
          /\ device' \in {"none", "open", "closed"} /\ udp' \in BOOLEAN
          /\ reader' \in {"none", "waiting", "due", "done"}
          /\ cancelled' \in BOOLEAN
        BY ONLY TypeOK, <1>14 DEF TypeOK, ReadTun, Steps, Setup, loop, Goto
    <3> QED
        BY ONLY <3>1, <3>2, <3>5, <3>6 DEF TypeOK
  <2>3. NatInv'
    BY <1>14 DEF ReadTun
  <2>4. FlagInv'
    BY <1>14 DEF ReadTun
  <2>5. LeftoversBounded'
    BY <1>14 DEF ReadTun
  <2>6. RouterStaysRouter'
    BY <1>14 DEF ReadTun
  <2>7. QueueInv'
    BY <1>14, <2>1 DEF ReadTun
  <2>8. ReaderInv'
    BY <1>14, <2>1 DEF ReadTun
  <2> QED
    BY <2>2, <2>3, <2>4, <2>5, <2>6, <2>7, <2>8
<1>15. CASE Stop
  <2>1. /\ Append(ready, "tun") \in Seq(Callbacks)
        /\ Len(Append(ready, "tun")) = Len(ready) + 1 /\ Len(ready) \in Nat
        /\ DOMAIN ready = 1..Len(ready)
        /\ DOMAIN Append(ready, "tun") = 1..(Len(ready) + 1)
        /\ \A i \in 1..Len(ready) : Append(ready, "tun")[i] = ready[i]
        /\ Append(ready, "tun")[Len(ready) + 1] = "tun"
    BY AppendKeeps DEF Callbacks
  <2>2. TypeOK'
    BY <1>15, <2>1 DEF Stop
  <2>3. NatInv'
    BY <1>15 DEF Stop
  <2>4. FlagInv'
    BY <1>15 DEF Stop
  <2>5. LeftoversBounded'
    BY <1>15 DEF Stop
  <2>6. RouterStaysRouter'
    BY <1>15 DEF Stop
  <2>7. QueueInv'
    BY <1>15, <2>1 DEF Stop
  <2>8. ReaderInv'
    BY <1>15, <2>1 DEF Stop
  <2> QED
    BY <2>2, <2>3, <2>4, <2>5, <2>6, <2>7, <2>8
<1>16. CASE CloseUdp
  <2>1. /\ Append(ready, "run") \in Seq(Callbacks)
        /\ Len(Append(ready, "run")) = Len(ready) + 1 /\ Len(ready) \in Nat
        /\ DOMAIN ready = 1..Len(ready)
        /\ DOMAIN Append(ready, "run") = 1..(Len(ready) + 1)
        /\ \A i \in 1..Len(ready) : Append(ready, "run")[i] = ready[i]
        /\ Append(ready, "run")[Len(ready) + 1] = "run"
    BY AppendKeeps DEF Callbacks
  <2>2. TypeOK'
    <3>1. DueIsQueued'
        BY <1>16, <2>1 DEF CloseUdp
    <3> HIDE DEF NatInv, FlagInv, LeftoversBounded, RouterStaysRouter, QueueInv,
             ReaderInv, DueIsQueued
    <3>2. ready' \in Seq(Callbacks)
        BY <1>16, <2>1 DEF CloseUdp
    <3>5. /\ tool' \in Tools /\ home' \in Flags /\ forward' \in Flags
          /\ table' \in BOOLEAN /\ rules' \in Nat
          /\ before' \in Flags \union {Unread} /\ mode' \in Tools \union {"none"}
          /\ cuts' \in 0..MaxCuts
        BY ONLY TypeOK, <1>16
        DEF TypeOK, CloseUdp, config, nat, manager, loop, Goto
    <3>6. /\ pc' \in Steps
          /\ device' \in {"none", "open", "closed"} /\ udp' \in BOOLEAN
          /\ reader' \in {"none", "waiting", "due", "done"}
          /\ cancelled' \in BOOLEAN
        BY ONLY TypeOK, <1>16 DEF TypeOK, CloseUdp, Steps, Setup, loop, Goto
    <3> QED
        BY ONLY <3>1, <3>2, <3>5, <3>6 DEF TypeOK
  <2>3. NatInv'
    BY <1>16 DEF CloseUdp
  <2>4. FlagInv'
    BY <1>16 DEF CloseUdp
  <2>5. LeftoversBounded'
    BY <1>16 DEF CloseUdp
  <2>6. RouterStaysRouter'
    BY <1>16 DEF CloseUdp
  <2>7. QueueInv'
    BY <1>16, <2>1 DEF CloseUdp
  <2>8. ReaderInv'
    BY <1>16, <2>1 DEF CloseUdp
  <2> QED
    BY <2>2, <2>3, <2>4, <2>5, <2>6, <2>7, <2>8
<1>17. CASE Resume
  <2>1. /\ Tail(ready) \in Seq(Callbacks)
        /\ Len(ready) \in Nat \ {0} /\ Len(Tail(ready)) = Len(ready) - 1
        /\ DOMAIN ready = 1..Len(ready) /\ DOMAIN Tail(ready) = 1..(Len(ready) - 1)
        /\ \A i \in 1..(Len(ready) - 1) : Tail(ready)[i] = ready[i + 1]
        /\ Head(ready) = ready[1]
    BY <1>17, TailKeeps DEF Resume
  <2>2. TypeOK'
    <3>1. DueIsQueued'
        BY <1>17, <2>1 DEF Resume
    <3> HIDE DEF NatInv, FlagInv, LeftoversBounded, RouterStaysRouter, QueueInv,
             ReaderInv, DueIsQueued
    <3>2. ready' \in Seq(Callbacks)
        BY <1>17, <2>1 DEF Resume
    <3>5. /\ tool' \in Tools /\ home' \in Flags /\ forward' \in Flags
          /\ table' \in BOOLEAN /\ rules' \in Nat
          /\ before' \in Flags \union {Unread} /\ mode' \in Tools \union {"none"}
          /\ cuts' \in 0..MaxCuts
        BY ONLY TypeOK, <1>17
        DEF TypeOK, Resume, config, nat, manager, loop, Goto
    <3>6. /\ pc' \in Steps
          /\ device' \in {"none", "open", "closed"} /\ udp' \in BOOLEAN
          /\ reader' \in {"none", "waiting", "due", "done"}
          /\ cancelled' \in BOOLEAN
        BY ONLY TypeOK, <1>17 DEF TypeOK, Resume, Steps, Setup, loop, Goto
    <3> QED
        BY ONLY <3>1, <3>2, <3>5, <3>6 DEF TypeOK
  <2>3. NatInv'
    BY <1>17 DEF Resume
  <2>4. FlagInv'
    BY <1>17 DEF Resume
  <2>5. LeftoversBounded'
    BY <1>17 DEF Resume
  <2>6. RouterStaysRouter'
    BY <1>17 DEF Resume
  <2>7. QueueInv'
    BY <1>17, <2>1 DEF Resume
  <2>8. ReaderInv'
    BY <1>17, <2>1 DEF Resume
  <2> QED
    BY <2>2, <2>3, <2>4, <2>5, <2>6, <2>7, <2>8
<1>18. CASE RemoveNat
  <2>1. TypeOK'
    BY <1>18 DEF RemoveNat
  <2>2. NatInv'
    BY <1>18 DEF RemoveNat
  <2>3. FlagInv'
    BY <1>18 DEF RemoveNat
  <2>4. LeftoversBounded'
    <3>1. CASE mode = "iptables"
        BY <1>18, <3>1 DEF RemoveNat
    <3>2. CASE mode = "nft"
        BY <1>18, <3>2 DEF RemoveNat
    <3> QED
        BY <1>18, <3>1, <3>2 DEF RemoveNat
  <2>5. RouterStaysRouter'
    BY <1>18 DEF RemoveNat
  <2>6. QueueInv'
    BY <1>18 DEF RemoveNat
  <2>7. ReaderInv'
    BY <1>18 DEF RemoveNat
  <2> QED
    BY <2>1, <2>2, <2>3, <2>4, <2>5, <2>6, <2>7
<1>19. CASE RestoreForward
  <2>1. TypeOK'
    BY <1>19 DEF RestoreForward
  <2>2. NatInv'
    BY <1>19 DEF RestoreForward
  <2>3. FlagInv'
    BY <1>19 DEF RestoreForward, Unread
  <2>4. LeftoversBounded'
    BY <1>19 DEF RestoreForward, Unread
  <2>5. RouterStaysRouter'
    BY <1>19 DEF RestoreForward, Unread
  <2>6. QueueInv'
    BY <1>19 DEF RestoreForward, Unread
  <2>7. ReaderInv'
    BY <1>19 DEF RestoreForward, Unread
  <2> QED
    BY <2>1, <2>2, <2>3, <2>4, <2>5, <2>6, <2>7
<1>20. CASE CloseTun
  <2>1. TypeOK'
    BY <1>20 DEF CloseTun
  <2>2. NatInv'
    BY <1>20 DEF CloseTun
  <2>3. FlagInv'
    BY <1>20 DEF CloseTun
  <2>4. LeftoversBounded'
    BY <1>20 DEF CloseTun
  <2>5. RouterStaysRouter'
    BY <1>20 DEF CloseTun
  <2>6. QueueInv'
    BY <1>20 DEF CloseTun
  <2>7. ReaderInv'
    BY <1>20 DEF CloseTun
  <2> QED
    BY <2>1, <2>2, <2>3, <2>4, <2>5, <2>6, <2>7
<1>21. CASE Exit
  <2>1. ready' = <<>> /\ ready' \in Seq(Callbacks) /\ DOMAIN ready' = {}
    BY <1>21 DEF Exit, Gone, Callbacks
  <2>2. TypeOK'
    <3>1. DueIsQueued'
        BY <1>21, <2>1 DEF Exit, Gone
    <3> HIDE DEF NatInv, FlagInv, LeftoversBounded, RouterStaysRouter, QueueInv,
             ReaderInv, DueIsQueued
    <3>2. ready' \in Seq(Callbacks)
        BY <1>21, <2>1 DEF Exit, Gone
    <3>3. cuts' \in 0..MaxCuts
        BY <1>21 DEF Exit, Gone
    <3>5. /\ tool' \in Tools /\ home' \in Flags /\ forward' \in Flags
          /\ table' \in BOOLEAN /\ rules' \in Nat
          /\ before' \in Flags \union {Unread} /\ mode' \in Tools \union {"none"}
          /\ cuts' \in 0..MaxCuts
        BY ONLY TypeOK, <3>3, <1>21
        DEF TypeOK, Exit, Gone, config, nat, manager, loop, Goto
    <3>6. /\ pc' \in Steps
          /\ device' \in {"none", "open", "closed"} /\ udp' \in BOOLEAN
          /\ reader' \in {"none", "waiting", "due", "done"}
          /\ cancelled' \in BOOLEAN
        BY ONLY TypeOK, <1>21 DEF TypeOK, Exit, Gone, Steps, Setup, loop, Goto
    <3> QED
        BY ONLY <3>1, <3>2, <3>5, <3>6 DEF TypeOK
  <2>3. NatInv'
    BY <1>21 DEF Exit, Gone
  <2>4. FlagInv'
    BY <1>21 DEF Exit, Gone
  <2>5. LeftoversBounded'
    BY <1>21 DEF Exit, Gone
  <2>6. RouterStaysRouter'
    BY <1>21 DEF Exit, Gone
  <2>7. QueueInv'
    BY <1>21, <2>1 DEF Exit, Gone
  <2>8. ReaderInv'
    BY <1>21, <2>1 DEF Exit, Gone
  <2> QED
    BY <2>2, <2>3, <2>4, <2>5, <2>6, <2>7, <2>8
<1>22. CASE UNCHANGED vars
    BY <1>22 DEF vars
<1> QED
    BY <1>1, <1>2, <1>3, <1>4, <1>5, <1>6, <1>7, <1>8, <1>9, <1>10, <1>11,
       <1>12, <1>13, <1>14, <1>15, <1>16, <1>17, <1>18, <1>19, <1>20, <1>21, <1>22
    DEF Next

LEMMA Invariance == Spec => []IInv
BY InitIInv, StepIInv, PTL DEF Spec

\* The types.
THEOREM TypesAlways == Spec => []TypeOK
<1>1. IInv => TypeOK
    BY DEF IInv
<1> QED
    BY <1>1, Invariance, PTL

\* No client is served whose packets are not forwarded and masqueraded.
THEOREM NatWhileServingAlways == Spec => []NatWhileServing
BY Invariance, IInvImplies, PTL

\* A host on which no run was cut short is as it was between two runs.
THEOREM CleanExitAlways == Spec => []CleanExit
BY Invariance, IInvImplies, PTL

\* At most one rule, or the table, for each run that was cut short.
THEOREM LeftoversBoundedAlways == Spec => []LeftoversBounded
<1>1. IInv => LeftoversBounded
    BY DEF IInv
<1> QED
    BY <1>1, Invariance, PTL

\* Forwarding that was on before the server came stays on.
THEOREM RouterStaysRouterAlways == Spec => []RouterStaysRouter
<1>1. IInv => RouterStaysRouter
    BY DEF IInv
<1> QED
    BY <1>1, Invariance, PTL

\* The descriptor is closed when nothing that is due will use it.
THEOREM NothingUsesClosedAlways == Spec => []NothingUsesClosed
BY Invariance, IInvImplies, PTL
=============================================================================
