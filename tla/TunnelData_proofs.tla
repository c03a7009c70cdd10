------------------------- MODULE TunnelData_proofs --------------------------
(***************************************************************************)
(* For every number of sessions, ids, addresses, endpoints and datagrams:  *)
(* no nonce is used twice, the server's replies go home, keepalives are    *)
(* echoed once, and the tunnel implements TunnelService. The inductive     *)
(* invariant of the first: no datagram on the net carries a number its     *)
(* sender's counter has not reached, so the next number is new. Of the     *)
(* second: datagrams stay on the net, and the endpoint comes from one that *)
(* was opened under the session's keys. The others have theirs below.      *)
(***************************************************************************)
EXTENDS TunnelData, FiniteSetTheorems, TLAPS

Counter(d) == IF d.dir = "c2s" THEN clientSeq[d.session] ELSE serverSeq[d.session]

Counted == /\ clientSeq \in [Sessions -> Nat]
           /\ serverSeq \in [Sessions -> Nat]
           /\ \A d \in net : /\ d.session \in Sessions
                             /\ d.dir \in {"c2s", "s2c"}
                             /\ d.seq \in Nat
                             /\ d.seq <= Counter(d)

NonceInv == Counted /\ NonceOnce

\* What a sender puts on the net: one datagram with the number after its counter.
Sealed(s, dir, type, seq, host, new) ==
    /\ net' = net \union {new}
    /\ new.session = s /\ new.dir = dir /\ new.type = type
    /\ new.seq = seq /\ new.host = host

LEMMA ClientSeals ==
    ASSUME NEW s, NEW type, NEW host, ClientSends(s, type, host)
    PROVE  \E new : Sealed(s, "c2s", type, clientSeq[s] + 1, host, new)
<1> DEFINE d == Datagram(s, "c2s", type, NextSeq(clientSeq[s]), host, at'[s])
<1>1. net' = net \union {d}
  BY DEF ClientSends
<1>2. /\ d.session = s /\ d.dir = "c2s" /\ d.type = type
      /\ d.seq = clientSeq[s] + 1 /\ d.host = host
  BY DEF Datagram, NextSeq
<1> HIDE DEF d
<1>. QED  BY <1>1, <1>2 DEF Sealed

LEMMA ServerSeals ==
    ASSUME NEW s, NEW type, NEW host, ServerSends(s, type, host)
    PROVE  \E new : Sealed(s, "s2c", type, serverSeq[s] + 1, host, new)
<1> DEFINE d == Datagram(s, "s2c", type, NextSeq(serverSeq[s]), host, client_addr'[s])
<1>1. net' = net \union {d}
  BY DEF ServerSends
<1>2. /\ d.session = s /\ d.dir = "s2c" /\ d.type = type
      /\ d.seq = serverSeq[s] + 1 /\ d.host = host
  BY DEF Datagram, NextSeq
<1> HIDE DEF d
<1>. QED  BY <1>1, <1>2 DEF Sealed

\* A client's datagram takes the number after its counter (client.py next_seq).
LEMMA ClientSendsKeeps ==
    ASSUME NonceInv, NEW s \in Sessions, NEW type, NEW host,
           ClientSends(s, type, host), UNCHANGED serverSeq
    PROVE  NonceInv'
<1>1. PICK new : Sealed(s, "c2s", type, clientSeq[s] + 1, host, new)
  BY ClientSeals
<1>2. /\ clientSeq' = [clientSeq EXCEPT ![s] = clientSeq[s] + 1]
      /\ serverSeq' = serverSeq
  BY DEF ClientSends, NextSeq
<1>3. \A d \in net : d.seq <= Counter(d) /\ Counter(d) <= Counter(d)'
  BY <1>2 DEF NonceInv, Counted, Counter
<1>4. Counted'
  <2>1. /\ clientSeq' \in [Sessions -> Nat] /\ serverSeq' \in [Sessions -> Nat]
    BY <1>2 DEF NonceInv, Counted
  <2>2. new.session \in Sessions /\ new.dir \in {"c2s", "s2c"} /\ new.seq \in Nat
        /\ new.seq <= Counter(new)'
    BY <1>1, <1>2 DEF NonceInv, Counted, Counter, Sealed
  <2>3. \A d \in net : /\ d.session \in Sessions /\ d.dir \in {"c2s", "s2c"}
                       /\ d.seq \in Nat /\ d.seq <= Counter(d)'
    BY <1>2, <1>3 DEF NonceInv, Counted, Counter
  <2>4. \A d \in net' : /\ d.session \in Sessions /\ d.dir \in {"c2s", "s2c"}
                        /\ d.seq \in Nat /\ d.seq <= Counter(d)'
    BY <2>2, <2>3, <1>1 DEF Sealed
  <2>. QED  BY <2>1, <2>4 DEF Counted
<1>5. NonceOnce'
  <2>1. ASSUME NEW d \in net, d.session = s, d.dir = "c2s"
        PROVE  d.seq # new.seq
    <3>1. d.seq \in Nat /\ clientSeq[s] \in Nat /\ d.seq <= clientSeq[s]
      BY <2>1 DEF NonceInv, Counted, Counter
    <3>. QED  BY <3>1, <1>1 DEF Sealed
  <2>. QED  BY <2>1, <1>1 DEF NonceInv, NonceOnce, Sealed
<1>. QED  BY <1>4, <1>5 DEF NonceInv

\* So does a datagram of the server (server.py next_seq).
LEMMA ServerSendsKeeps ==
    ASSUME NonceInv, NEW s \in Sessions, NEW type, NEW host,
           ServerSends(s, type, host), UNCHANGED clientSeq
    PROVE  NonceInv'
<1>1. PICK new : Sealed(s, "s2c", type, serverSeq[s] + 1, host, new)
  BY ServerSeals
<1>2. /\ serverSeq' = [serverSeq EXCEPT ![s] = serverSeq[s] + 1]
      /\ clientSeq' = clientSeq
  BY DEF ServerSends, NextSeq
<1>3. \A d \in net : d.seq <= Counter(d) /\ Counter(d) <= Counter(d)'
  BY <1>2 DEF NonceInv, Counted, Counter
<1>4. Counted'
  <2>1. /\ clientSeq' \in [Sessions -> Nat] /\ serverSeq' \in [Sessions -> Nat]
    BY <1>2 DEF NonceInv, Counted
  <2>2. new.session \in Sessions /\ new.dir \in {"c2s", "s2c"} /\ new.seq \in Nat
        /\ new.seq <= Counter(new)'
    BY <1>1, <1>2 DEF NonceInv, Counted, Counter, Sealed
  <2>3. \A d \in net : /\ d.session \in Sessions /\ d.dir \in {"c2s", "s2c"}
                       /\ d.seq \in Nat /\ d.seq <= Counter(d)'
    BY <1>2, <1>3 DEF NonceInv, Counted, Counter
  <2>4. \A d \in net' : /\ d.session \in Sessions /\ d.dir \in {"c2s", "s2c"}
                        /\ d.seq \in Nat /\ d.seq <= Counter(d)'
    BY <2>2, <2>3, <1>1 DEF Sealed
  <2>. QED  BY <2>1, <2>4 DEF Counted
<1>5. NonceOnce'
  <2>1. ASSUME NEW d \in net, d.session = s, d.dir = "s2c"
        PROVE  d.seq # new.seq
    <3>1. d.seq \in Nat /\ serverSeq[s] \in Nat /\ d.seq <= serverSeq[s]
      BY <2>1 DEF NonceInv, Counted, Counter
    <3>. QED  BY <3>1, <1>1 DEF Sealed
  <2>. QED  BY <2>1, <1>1 DEF NonceInv, NonceOnce, Sealed
<1>. QED  BY <1>4, <1>5 DEF NonceInv

\* A step that seals nothing leaves the invariant alone.
LEMMA SilentKeeps ==
    ASSUME NonceInv, UNCHANGED <<net, clientSeq, serverSeq>>
    PROVE  NonceInv'
BY DEF NonceInv, Counted, Counter, NonceOnce

\* Every step of the data plane keeps it.
LEMMA NonceStep ==
    ASSUME NonceInv, [Next]_vars
    PROVE  NonceInv'
<1>1. CASE UNCHANGED vars
  BY <1>1, SilentKeeps DEF vars, clientSide, serverSide
<1>2. ASSUME NEW s \in Sessions, NEW i \in Ids, NEW v \in Vips, Open(s, i, v)
      PROVE  NonceInv'
  BY <1>2, SilentKeeps DEF Open, clientSide, serverSide
<1>3. ASSUME NEW s \in Sessions, Remove(s) \/ ClientStops(s) \/ Rebind(s)
      PROVE  NonceInv'
  BY <1>3, SilentKeeps DEF Remove, ClientStops, Rebind, clientSide, serverSide
<1>4. ASSUME NEW s \in Sessions,
             ClientStarts(s) \/ ClientKeepalive(s) \/ ClientReadsTun(s)
      PROVE  NonceInv'
  BY <1>4, ClientSendsKeeps
     DEF ClientStarts, ClientKeepalive, ClientReadsTun, serverSide
<1>5. ASSUME NEW s \in Sessions, NEW d \in net, ClientReceives(s, d)
      PROVE  NonceInv'
  BY <1>5, SilentKeeps DEF ClientReceives, serverSide
<1>6. ASSUME NEW s \in Sessions, NEW d \in net, ServerReceives(s, d)
      PROVE  NonceInv'
  <2>1. UNCHANGED clientSeq
    BY <1>6 DEF ServerReceives, clientSide
  <2>2. CASE d.type = Keepalive
    BY <1>6, <2>1, <2>2, ServerSendsKeeps DEF ServerReceives
  <2>3. CASE d.type # Keepalive
    BY <1>6, <2>1, <2>3, SilentKeeps DEF ServerReceives
  <2>. QED  BY <2>2, <2>3
<1>7. ASSUME NEW s \in Sessions, ServerReadsTun(s)
      PROVE  NonceInv'
  BY <1>7, ServerSendsKeeps DEF ServerReadsTun, clientSide
<1>. QED  BY <1>1, <1>2, <1>3, <1>4, <1>5, <1>6, <1>7 DEF Next

\* No nonce is used twice, whatever is sent, lost, repeated or delayed.
THEOREM NonceOnceAlways == Spec => []NonceOnce
<1>1. Init => NonceInv
  BY DEF Init, NonceInv, Counted, NonceOnce
<1>2. NonceInv /\ [Next]_vars => NonceInv'
  BY NonceStep
<1>3. NonceInv => NonceOnce
  BY DEF NonceInv
<1>. QED  BY <1>1, <1>2, <1>3, PTL DEF Spec

-----------------------------------------------------------------------------
\* RepliesGoHome survives a step that moves no endpoint and removes no datagram.
LEMMA EndpointsStay ==
    ASSUME RepliesGoHome, UNCHANGED client_addr, net \subseteq net'
    PROVE  RepliesGoHome'
BY DEF RepliesGoHome

\* The server sends a session's traffic only to endpoints of its own client.
THEOREM RepliesGoHomeAlways == Spec => []RepliesGoHome
<1>1. Init => RepliesGoHome
  BY DEF Init, RepliesGoHome
<1>2. RepliesGoHome /\ [Next]_vars => RepliesGoHome'
  <2> SUFFICES ASSUME RepliesGoHome, [Next]_vars PROVE RepliesGoHome'
    OBVIOUS
  <2>1. CASE UNCHANGED vars
    BY <2>1, EndpointsStay DEF vars, serverSide
  <2>2. ASSUME NEW s \in Sessions, NEW i \in Ids, NEW v \in Vips, Open(s, i, v)
        PROVE  RepliesGoHome'
    BY <2>2, EndpointsStay DEF Open, serverSide
  <2>3. ASSUME NEW s \in Sessions, Remove(s) \/ ClientStops(s) \/ Rebind(s)
        PROVE  RepliesGoHome'
    BY <2>3, EndpointsStay DEF Remove, ClientStops, Rebind, serverSide
  <2>4. ASSUME NEW s \in Sessions,
               ClientStarts(s) \/ ClientKeepalive(s) \/ ClientReadsTun(s)
        PROVE  RepliesGoHome'
    BY <2>4, EndpointsStay
       DEF ClientStarts, ClientKeepalive, ClientReadsTun, ClientSends, serverSide
  <2>5. ASSUME NEW s \in Sessions, NEW d \in net, ClientReceives(s, d)
        PROVE  RepliesGoHome'
    BY <2>5, EndpointsStay DEF ClientReceives, serverSide
  <2>6. ASSUME NEW s \in Sessions, NEW d \in net, ServerReceives(s, d)
        PROVE  RepliesGoHome'
    <3>1. /\ d.dir = "c2s" /\ d.session = s
          /\ client_addr' = [client_addr EXCEPT ![s] = d.peer]
      BY <2>6 DEF ServerReceives
    <3>2. net \subseteq net'
      BY <2>6 DEF ServerReceives, ServerSends
    <3>. QED  BY <3>1, <3>2 DEF RepliesGoHome
  <2>7. ASSUME NEW s \in Sessions, ServerReadsTun(s)
        PROVE  RepliesGoHome'
    BY <2>7, EndpointsStay DEF ServerReadsTun, ServerSends
  <2>. QED  BY <2>1, <2>2, <2>3, <2>4, <2>5, <2>6, <2>7 DEF Next
<1>. QED  BY <1>1, <1>2, PTL DEF Spec
-----------------------------------------------------------------------------
(***************************************************************************)
(* The refinement of TunnelService. What keeps a packet from coming out    *)
(* twice: its number is marked in, or has fallen out of, the window it     *)
(* went through, and stays so whatever arrives later.                      *)
(***************************************************************************)
WindowOK(w) == /\ w = [max |-> w.max, bits |-> w.bits]
               /\ w.max \in Nat
               /\ w.bits \in SUBSET (0..(WindowSize - 1))
               /\ w.max = 0 => w.bits = {}

Seen(w, q) == /\ q <= w.max
              /\ w.max - q >= WindowSize \/ w.max - q \in w.bits

\* accept() in the terms of Seen: it lets through what was not seen, marks it,
\* and forgets nothing (replay.py accept, ReplayWindow.java accept).
LEMMA WindowStep ==
    ASSUME NEW w, WindowOK(w), NEW q \in Nat, Accepts(w, q)
    PROVE  /\ q > 0 /\ ~Seen(w, q)
           /\ WindowOK(After(w, q)) /\ Seen(After(w, q), q)
           /\ \A r \in Nat \ {0} : Seen(w, r) => Seen(After(w, q), r)
<1> DEFINE a == After(w, q)
<1>0. WindowSize \in Nat /\ WindowSize > 0
  BY BoundsAssumption
<1>1. q > 0
  BY DEF Accepts, Window!JavaAccept, WindowOK
<1>2. CASE w.max = 0
  <2>1. a = [max |-> q, bits |-> {0}]
    BY <1>1, <1>2 DEF After, Window!JavaAccept, WindowOK
  <2>. QED  BY <2>1, <1>0, <1>1, <1>2 DEF WindowOK, Seen
<1>3. CASE w.max # 0 /\ q > w.max
  <2>1. a.max = q /\ a = [max |-> a.max, bits |-> a.bits]
    BY <1>1, <1>3 DEF After, Window!JavaAccept, WindowOK
  <2>2. CASE q - w.max < WindowSize
    <3>1. a.bits = {0} \union {b + (q - w.max) :
                      b \in {c \in w.bits : c + (q - w.max) < WindowSize}}
      BY <1>1, <1>3, <2>2 DEF After, Window!JavaAccept, Window!CopyBits, WindowOK
    <3>2. a.bits \subseteq 0..(WindowSize - 1)
      BY <3>1, <1>0, <1>3 DEF WindowOK
    <3>3. ASSUME NEW r \in Nat \ {0}, Seen(w, r)
          PROVE  Seen(a, r)
      <4>1. r <= a.max /\ a.max - r = (w.max - r) + (q - w.max)
        BY <2>1, <1>3, <3>3 DEF Seen, WindowOK
      <4>2. CASE w.max - r >= WindowSize
        BY <4>1, <4>2, <1>0, <1>3 DEF Seen, WindowOK
      <4>3. CASE w.max - r \in w.bits
        <5>1. CASE a.max - r < WindowSize
          BY <4>1, <4>3, <5>1, <3>1 DEF Seen
        <5>2. CASE a.max - r >= WindowSize
          BY <4>1, <5>2 DEF Seen
        <5>. QED  BY <5>1, <5>2, <2>1, <1>0
      <4>. QED  BY <4>2, <4>3, <3>3 DEF Seen
    <3>. QED  BY <2>1, <3>1, <3>2, <3>3, <1>0, <1>1, <1>3 DEF WindowOK, Seen
  <2>3. CASE q - w.max >= WindowSize
    <3>1. a.bits = {0}
      BY <1>0, <1>1, <1>3, <2>3 DEF After, Window!JavaAccept, WindowOK
    <3>. QED  BY <2>1, <2>3, <3>1, <1>0, <1>1, <1>3 DEF WindowOK, Seen
  <2>. QED  BY <2>2, <2>3, <1>0, <1>3 DEF WindowOK
<1>4. CASE w.max # 0 /\ q <= w.max
  <2>1. /\ ~(w.max - q >= WindowSize \/ w.max - q \in w.bits)
        /\ a = [max |-> w.max, bits |-> w.bits \union {w.max - q}]
    BY <1>0, <1>1, <1>4 DEF Accepts, After, Window!JavaAccept, WindowOK
  <2>. QED  BY <2>1, <1>0, <1>1, <1>4 DEF WindowOK, Seen
<1>. QED  BY <1>2, <1>3, <1>4 DEF WindowOK
-----------------------------------------------------------------------------
\* The sessions of the server and of the clients.
SessionsOK ==
    /\ id \in [Sessions -> Ids \union {NoId}]
    /\ vip \in [Sessions -> Vips \union {NoVip}]
    /\ client \in [Sessions -> {"none", "running", "gone"}]
    /\ \A s \in Sessions : id[s] = NoId <=> vip[s] = NoVip
    /\ \A s \in Sessions : client[s] = "running" => vip[s] # NoVip
    /\ \A s \in members : s \in Sessions /\ vip[s] # NoVip

WindowsOK ==
    /\ clientReplay = [s \in Sessions |-> clientReplay[s]]
    /\ serverReplay = [s \in Sessions |-> serverReplay[s]]
    /\ \A s \in Sessions : WindowOK(clientReplay[s]) /\ WindowOK(serverReplay[s])

\* A data datagram carries traffic of its session's address.
DataOK == \A d \in net :
              /\ d.type \in {Keepalive, Data}
              /\ d.type = Data => d.host \in Vips /\ d.host = vip[d.session]

\* Whatever was handed over is marked in the window it went through.
WindowOf(p) == IF p.dir = "c2s" THEN serverReplay[p.session]
               ELSE clientReplay[p.session]
MarkedOK == \A p \in DOMAIN handed : /\ p.session \in Sessions
                                     /\ p.seq \in Nat \ {0}
                                     /\ Seen(WindowOf(p), p.seq)

ServiceInv == NonceInv /\ SessionsOK /\ WindowsOK /\ DataOK /\ MarkedOK

SentNow == {Packet(d) : d \in {e \in net : e.type = Data}}

LEMMA PacketFields ==
    ASSUME NEW d
    PROVE  /\ Packet(d).session = d.session /\ Packet(d).dir = d.dir
           /\ Packet(d).seq = d.seq /\ Packet(d).host = d.host
BY DEF Packet

LEMMA HandingOver ==
    ASSUME NEW d, HandOver(d)
    PROVE  DOMAIN handed' = DOMAIN handed \union {Packet(d)}
BY DEF HandOver

\* The abstract step of a datagram that is sealed: a packet is sent, or, for a
\* keepalive, nothing is.
LEMMA SealedStep ==
    ASSUME ServiceInv, NEW s \in Sessions, NEW dir \in {"c2s", "s2c"},
           NEW type \in {Keepalive, Data}, NEW seq, NEW host, NEW new,
           Sealed(s, dir, type, seq, host, new),
           seq = (IF dir = "c2s" THEN clientSeq[s] ELSE serverSeq[s]) + 1,
           type = Data => host \in Vips /\ host = vip[s],
           type = Data => vip[s] # NoVip,
           UNCHANGED <<vip, handed>>
    PROVE  [Service!Next]_(Service!vars) /\ DataOK'
<1>1. DataOK'
  BY DEF ServiceInv, DataOK, Sealed
<1>2. CASE type # Data
  <2>1. SentNow' = SentNow
    BY <1>2 DEF SentNow, Sealed
  <2>. QED  BY <1>1, <2>1 DEF Service!vars, SentNow
<1>3. CASE type = Data
  <2>1. SentNow' = SentNow \union {Packet(new)}
    BY <1>3 DEF SentNow, Sealed
  <2>2. /\ Packet(new).session = s /\ Packet(new).dir = dir
        /\ Packet(new).seq = seq /\ Packet(new).host = host
    BY PacketFields DEF Sealed
  <2>3. seq \in Nat
    BY DEF ServiceInv, NonceInv, Counted
  <2>4. Packet(new) \in Service!Packets
    <3>1. Packet(new) = [session |-> s, dir |-> dir, seq |-> seq, host |-> host]
      BY DEF Packet, Sealed
    <3>. QED  BY <3>1, <1>3, <2>3 DEF Service!Packets
  <2>5. Packet(new) \notin SentNow
    <3>1. SUFFICES ASSUME NEW d \in net, Packet(d) = Packet(new) PROVE FALSE
      BY DEF SentNow
    <3>2. d.session = s /\ d.dir = dir /\ d.seq = seq
      BY <3>1, <2>2, PacketFields
    <3>3. d.seq \in Nat /\ d.seq <= Counter(d) /\ Counter(d) = seq - 1
      BY <3>2, <2>3 DEF ServiceInv, NonceInv, Counted, Counter
    <3>. QED  BY <3>2, <3>3, <2>3
  <2>6. Service!Send(Packet(new))
    BY <1>3, <2>1, <2>2, <2>5 DEF Service!Send, SentNow
  <2>7. Packet(new) \in SentNow' \ SentNow
    BY <2>1, <2>5
  <2>8. Service!Next
    BY <2>4, <2>6, <2>7 DEF Service!Next, SentNow
  <2>. QED  BY <1>1, <2>8
<1>. QED  BY <1>2, <1>3

\* The abstract step of a data datagram that passed a window: its packet was
\* sent, was not handed over, and is now.
LEMMA HandedStep ==
    ASSUME ServiceInv, NEW d \in net, d.type = Data,
           ~Seen(WindowOf(Packet(d)), d.seq),
           HandOver(d), UNCHANGED <<vip, net>>
    PROVE  Service!Next
<1>1. Packet(d) \in SentNow /\ SentNow' = SentNow
  BY DEF SentNow
<1>2. Packet(d).host = vip[Packet(d).session]
  BY PacketFields DEF ServiceInv, DataOK
<1>3. Packet(d) \notin DOMAIN handed
  BY PacketFields DEF ServiceInv, MarkedOK
<1>4. Service!HandOver(Packet(d))
  BY <1>1, <1>2, <1>3 DEF Service!HandOver, HandOver, SentNow
<1>. QED  BY <1>1, <1>4 DEF Service!Next, SentNow

\* Nothing of the abstract state moves.
LEMMA AbstractStutter ==
    ASSUME UNCHANGED <<vip, net, handed>>
    PROVE  UNCHANGED Service!vars
BY DEF Service!vars

\* The parts of the invariant a step does not touch.
LEMMA SessionsStay ==
    ASSUME SessionsOK, UNCHANGED <<id, vip, client, members>>
    PROVE  SessionsOK'
BY DEF SessionsOK

LEMMA WindowsStay ==
    ASSUME WindowsOK, MarkedOK, UNCHANGED <<clientReplay, serverReplay, handed>>
    PROVE  WindowsOK' /\ MarkedOK'
BY DEF WindowsOK, MarkedOK, WindowOf

LEMMA DataStays ==
    ASSUME DataOK, UNCHANGED <<vip, net>>
    PROVE  DataOK'
BY DEF DataOK

\* A datagram passes a window: whatever was handed over before stays marked,
\* and so is this one, whether it is handed over or not.
LEMMA ReceivedStep ==
    ASSUME ServiceInv, NEW s \in Sessions, NEW d \in net, d.session = s,
           IF d.dir = "c2s"
           THEN /\ Accepts(serverReplay[s], d.seq)
                /\ serverReplay' = [serverReplay EXCEPT ![s] = After(@, d.seq)]
                /\ UNCHANGED clientReplay
           ELSE /\ Accepts(clientReplay[s], d.seq)
                /\ clientReplay' = [clientReplay EXCEPT ![s] = After(@, d.seq)]
                /\ UNCHANGED serverReplay,
           HandOver(d) \/ UNCHANGED handed
    PROVE  ~Seen(WindowOf(Packet(d)), d.seq) /\ WindowsOK' /\ MarkedOK'
<1> DEFINE w == WindowOf(Packet(d))
<1>1. w = IF d.dir = "c2s" THEN serverReplay[s] ELSE clientReplay[s]
  BY PacketFields DEF WindowOf
<1>2. d.seq \in Nat /\ WindowOK(w) /\ Accepts(w, d.seq)
  BY <1>1 DEF ServiceInv, NonceInv, Counted, WindowsOK
<1> HIDE DEF w
<1>3. /\ d.seq > 0 /\ ~Seen(w, d.seq)
      /\ WindowOK(After(w, d.seq)) /\ Seen(After(w, d.seq), d.seq)
      /\ \A r \in Nat \ {0} : Seen(w, r) => Seen(After(w, d.seq), r)
  BY <1>2, WindowStep
<1>4. WindowsOK'
  BY <1>1, <1>3 DEF ServiceInv, WindowsOK
<1>5. ASSUME NEW p, p.session \in Sessions, p.seq \in Nat \ {0},
             Seen(WindowOf(p), p.seq)
      PROVE  Seen(WindowOf(p)', p.seq)
  <2>1. CASE p.session = s /\ (p.dir = "c2s" <=> d.dir = "c2s")
    <3>1. WindowOf(p) = w /\ WindowOf(p)' = After(w, d.seq)
      BY <1>1, <2>1 DEF WindowOf, ServiceInv, WindowsOK
    <3>. QED  BY <3>1, <1>3, <1>5
  <2>2. CASE ~(p.session = s /\ (p.dir = "c2s" <=> d.dir = "c2s"))
    <3>1. WindowOf(p)' = WindowOf(p)
      BY <1>5, <2>2 DEF WindowOf, ServiceInv, WindowsOK
    <3>. QED  BY <3>1, <1>5
  <2>. QED  BY <2>1, <2>2
<1>6. Seen(WindowOf(Packet(d))', d.seq)
  <2>1. WindowOf(Packet(d))' = After(w, d.seq)
    BY <1>1, PacketFields DEF WindowOf, ServiceInv, WindowsOK
  <2>. QED  BY <2>1, <1>3
<1>7. MarkedOK'
  <2>1. SUFFICES ASSUME NEW p \in DOMAIN handed'
                 PROVE  /\ p.session \in Sessions /\ p.seq \in Nat \ {0}
                        /\ Seen(WindowOf(p)', p.seq)
    BY DEF MarkedOK
  <2>2. p \in DOMAIN handed \/ p = Packet(d)
    BY HandingOver
  <2>3. CASE p \in DOMAIN handed
    BY <2>3, <1>5 DEF ServiceInv, MarkedOK
  <2>4. CASE p = Packet(d)
    BY <2>4, <1>2, <1>3, <1>6, PacketFields
  <2>. QED  BY <2>2, <2>3, <2>4
<1>. QED  BY <1>3, <1>4, <1>7 DEF w

\* A client's datagram, whatever it carries.
LEMMA ClientSendsStep ==
    ASSUME ServiceInv, NEW s \in Sessions, NEW type \in {Keepalive, Data},
           NEW host, ClientSends(s, type, host), vip[s] # NoVip,
           type = Data => host \in Vips /\ host = vip[s],
           UNCHANGED <<vip, handed>>
    PROVE  [Service!Next]_(Service!vars) /\ DataOK'
<1>1. PICK new : Sealed(s, "c2s", type, clientSeq[s] + 1, host, new)
  BY ClientSeals
<1>2. clientSeq[s] + 1 = (IF "c2s" = "c2s" THEN clientSeq[s] ELSE serverSeq[s]) + 1
  OBVIOUS
<1>. QED  BY <1>1, <1>2, SealedStep

\* A datagram of the server.
LEMMA ServerSendsStep ==
    ASSUME ServiceInv, NEW s \in Sessions, NEW type \in {Keepalive, Data},
           NEW host, ServerSends(s, type, host), vip[s] # NoVip,
           type = Data => host \in Vips /\ host = vip[s],
           UNCHANGED <<vip, handed>>
    PROVE  [Service!Next]_(Service!vars) /\ DataOK'
<1>1. PICK new : Sealed(s, "s2c", type, serverSeq[s] + 1, host, new)
  BY ServerSeals
<1>2. serverSeq[s] + 1 = (IF "s2c" = "c2s" THEN clientSeq[s] ELSE serverSeq[s]) + 1
  OBVIOUS
<1>. QED  BY <1>1, <1>2, SealedStep

\* Every step keeps the invariant and is a step of the tunnel or a stutter.
LEMMA ServiceStep ==
    ASSUME ServiceInv, [Next]_vars
    PROVE  ServiceInv' /\ [Service!Next]_(Service!vars)
<1> USE DEF ServiceInv
<1>0. NonceInv'
  BY NonceStep
<1> DEFINE Goal == /\ SessionsOK' /\ WindowsOK' /\ DataOK' /\ MarkedOK'
                   /\ [Service!Next]_(Service!vars)
<1>1. CASE UNCHANGED vars
  <2>1. UNCHANGED <<tables, clientSide, serverSide, net, handed>>
    BY <1>1 DEF vars
  <2>2. SessionsOK'
    BY <2>1, SessionsStay DEF tables, clientSide
  <2>3. WindowsOK' /\ MarkedOK'
    BY <2>1, WindowsStay DEF clientSide, serverSide
  <2>4. DataOK' /\ UNCHANGED Service!vars
    BY <2>1, DataStays, AbstractStutter DEF tables
  <2>. QED  BY <1>0, <2>2, <2>3, <2>4
<1>2. ASSUME NEW s \in Sessions, NEW i \in Ids, NEW v \in Vips, Open(s, i, v)
      PROVE  Goal
  <2>1. /\ vip[s] = NoVip /\ v # NoVip /\ i # NoId
        /\ id' = [id EXCEPT ![s] = i] /\ vip' = [vip EXCEPT ![s] = v]
        /\ members' = members \union {s}
        /\ UNCHANGED <<client, clientReplay, serverReplay, net, handed>>
    BY <1>2, AbsentAssumption DEF Open, SessionsOK, clientSide, serverSide
  <2>2. SessionsOK'
    BY <2>1 DEF SessionsOK
  <2>3. DataOK'
    BY <2>1, AbsentAssumption DEF DataOK, SessionsOK, NonceInv, Counted
  <2>4. Service!Give(s, v)
    BY <2>1 DEF Service!Give
  <2>5. Service!Next
    BY <2>4 DEF Service!Next
  <2>. QED  BY <2>1, <2>2, <2>3, <2>5, WindowsStay
<1>3. ASSUME NEW s \in Sessions, Remove(s) \/ ClientStops(s) \/ Rebind(s)
      PROVE  Goal
  <2>1. UNCHANGED <<id, vip, clientReplay, serverReplay, net, handed>>
    BY <1>3 DEF Remove, ClientStops, Rebind, tables, clientSide, serverSide
  <2>2. SessionsOK'
    BY <1>3, <2>1 DEF SessionsOK, Remove, ClientStops, Rebind, tables, clientSide
  <2>. QED  BY <2>1, <2>2, WindowsStay, DataStays, AbstractStutter
<1>4. ASSUME NEW s \in Sessions, ClientStarts(s)
      PROVE  Goal
  <2>1. /\ vip[s] # NoVip /\ client' = [client EXCEPT ![s] = "running"]
        /\ UNCHANGED <<id, vip, members, clientReplay, serverReplay, handed>>
        /\ ClientSends(s, Keepalive, NoVip)
    BY <1>4 DEF ClientStarts, SessionsOK, tables, serverSide
  <2>2. SessionsOK'
    BY <2>1 DEF SessionsOK
  <2>3. Keepalive # Data
    BY DEF Keepalive, Data
  <2>. QED  BY <2>1, <2>2, <2>3, WindowsStay, ClientSendsStep
<1>5. ASSUME NEW s \in Sessions, ClientKeepalive(s)
      PROVE  Goal
  <2>1. /\ vip[s] # NoVip
        /\ UNCHANGED <<id, vip, members, client, clientReplay, serverReplay, handed>>
        /\ ClientSends(s, Keepalive, NoVip)
    BY <1>5 DEF ClientKeepalive, SessionsOK, tables, serverSide
  <2>2. Keepalive # Data
    BY DEF Keepalive, Data
  <2>. QED  BY <2>1, <2>2, SessionsStay, WindowsStay, ClientSendsStep
<1>6. ASSUME NEW s \in Sessions, ClientReadsTun(s)
      PROVE  Goal
  <2>1. /\ vip[s] # NoVip
        /\ UNCHANGED <<id, vip, members, client, clientReplay, serverReplay, handed>>
        /\ vip[s] \in Vips /\ ClientSends(s, Data, vip[s])
    BY <1>6 DEF ClientReadsTun, SessionsOK, tables, serverSide
  <2>. QED  BY <2>1, SessionsStay, WindowsStay, ClientSendsStep
<1>7. ASSUME NEW s \in Sessions, NEW d \in net, ClientReceives(s, d)
      PROVE  Goal
  <2>1. /\ d.session = s /\ d.dir # "c2s"
        /\ Accepts(clientReplay[s], d.seq)
        /\ clientReplay' = [clientReplay EXCEPT ![s] = After(@, d.seq)]
        /\ (d.type = Data /\ HandOver(d)) \/ UNCHANGED handed
        /\ UNCHANGED <<id, vip, members, client, serverReplay, net>>
    BY <1>7 DEF ClientReceives, tables, serverSide
  <2>2. ~Seen(WindowOf(Packet(d)), d.seq) /\ WindowsOK' /\ MarkedOK'
    BY <2>1, ReceivedStep
  <2>3. [Service!Next]_(Service!vars)
    <3>1. CASE d.type = Data /\ HandOver(d)
      BY <2>1, <2>2, <3>1, HandedStep
    <3>2. CASE UNCHANGED handed
      BY <2>1, <3>2, AbstractStutter
    <3>. QED  BY <2>1, <3>1, <3>2
  <2>. QED  BY <2>1, <2>2, <2>3, SessionsStay, DataStays
<1>8. ASSUME NEW s \in Sessions, NEW d \in net, ServerReceives(s, d)
      PROVE  Goal
  <2>1. /\ d.session = s /\ d.dir = "c2s" /\ vip[s] # NoVip
        /\ Accepts(serverReplay[s], d.seq)
        /\ serverReplay' = [serverReplay EXCEPT ![s] = After(@, d.seq)]
        /\ UNCHANGED <<id, vip, members, client, clientReplay>>
    BY <1>8 DEF ServerReceives, Passes, SessionsOK, tables, clientSide
  <2>2. \/ d.type = Data /\ HandOver(d) /\ UNCHANGED net
        \/ UNCHANGED <<handed, net>>
        \/ UNCHANGED handed /\ ServerSends(s, Keepalive, NoVip)
    <3>1. CASE d.type = Keepalive
      BY <1>8, <3>1 DEF ServerReceives
    <3>2. CASE d.type # Keepalive
      BY <1>8, <3>2 DEF ServerReceives, DataOK
    <3>. QED  BY <3>1, <3>2
  <2>3. ~Seen(WindowOf(Packet(d)), d.seq) /\ WindowsOK' /\ MarkedOK'
    BY <2>1, <2>2, ReceivedStep
  <2>4. [Service!Next]_(Service!vars) /\ DataOK'
    <3>1. CASE d.type = Data /\ HandOver(d) /\ UNCHANGED net
      BY <2>1, <2>3, <3>1, HandedStep, DataStays
    <3>2. CASE UNCHANGED <<handed, net>>
      BY <2>1, <3>2, AbstractStutter, DataStays
    <3>3. CASE UNCHANGED handed /\ ServerSends(s, Keepalive, NoVip)
      <4>1. Keepalive # Data
        BY DEF Keepalive, Data
      <4>. QED  BY <2>1, <3>3, <4>1, ServerSendsStep
    <3>. QED  BY <2>2, <3>1, <3>2, <3>3
  <2>. QED  BY <2>1, <2>3, <2>4, SessionsStay
<1>9. ASSUME NEW s \in Sessions, ServerReadsTun(s)
      PROVE  Goal
  <2>1. /\ UNCHANGED <<id, vip, members, client, clientReplay, serverReplay, handed>>
        /\ vip[s] # NoVip /\ vip[s] \in Vips /\ ServerSends(s, Data, vip[s])
    BY <1>9 DEF ServerReadsTun, SessionsOK, tables, clientSide
  <2>. QED  BY <2>1, SessionsStay, WindowsStay, ServerSendsStep
<1>10. Goal
  BY <1>1, <1>2, <1>3, <1>4, <1>5, <1>6, <1>7, <1>8, <1>9 DEF Next
<1>. QED  BY <1>0, <1>10

LEMMA ServiceInit == Init => ServiceInv
BY BoundsAssumption, AbsentAssumption
   DEF Init, ServiceInv, NonceInv, Counted, NonceOnce, SessionsOK, WindowsOK,
       WindowOK, NewWindow, DataOK, MarkedOK

\* For every number of sessions, addresses, endpoints and datagrams, the tunnel
\* hands no packet over twice, in another session or under another address.
THEOREM TunnelRefinement == Spec => ImplementsService
<1>1. Init => ServiceInv
  BY ServiceInit
<1>2. Init => Service!Init
  BY DEF Init, Service!Init
<1>3. ServiceInv /\ [Next]_vars => ServiceInv' /\ [Service!Next]_(Service!vars)
  BY ServiceStep
<1>. QED  BY <1>1, <1>2, <1>3, PTL DEF Spec, ImplementsService, Service!Spec

-----------------------------------------------------------------------------
(***************************************************************************)
(* EchoOnce. The server's echoes are no more than the keepalives its       *)
(* window has taken: an echo takes one that it had not, and forgets none.  *)
(***************************************************************************)
Numbers(s, dir) == {d.seq : d \in {e \in net : e.session = s /\ e.dir = dir
                                              /\ e.type = Keepalive}}
Taken(s) == {q \in Numbers(s, "c2s") : Seen(serverReplay[s], q)}

EchoInv ==
    /\ \A d \in net : d.seq # 0
    /\ \A s \in Sessions :
          /\ IsFiniteSet(Numbers(s, "c2s")) /\ IsFiniteSet(Numbers(s, "s2c"))
          /\ Cardinality(Numbers(s, "s2c")) <= Cardinality(Taken(s))

\* Two sets that grow: the smaller one by at most as much as the larger one.
LEMMA GrowTogether ==
    ASSUME NEW E, NEW T, NEW F, NEW U,
           IsFiniteSet(E), IsFiniteSet(T), IsFiniteSet(U), T \subseteq U,
           Cardinality(E) <= Cardinality(T),
           F = E \/ \E n : F = E \union {n} /\ U \ T # {}
    PROVE  IsFiniteSet(F) /\ Cardinality(F) <= Cardinality(U)
<1>1. /\ Cardinality(E) \in Nat /\ Cardinality(T) \in Nat
      /\ Cardinality(U) \in Nat /\ Cardinality(T) <= Cardinality(U)
  BY FS_CardinalityType, FS_Subset
<1>2. CASE F = E
  BY <1>1, <1>2
<1>3. ASSUME NEW n, F = E \union {n}, U \ T # {}
      PROVE  IsFiniteSet(F) /\ Cardinality(F) <= Cardinality(U)
  <2>1. IsFiniteSet(F) /\ Cardinality(F) <= Cardinality(E) + 1
    <3>1. /\ IsFiniteSet(E \union {n})
          /\ Cardinality(E \union {n}) = IF n \in E THEN Cardinality(E)
                                         ELSE Cardinality(E) + 1
      BY FS_AddElement
    <3>. QED  BY <1>1, <1>3, <3>1
  <2>2. Cardinality(T) + 1 <= Cardinality(U)
    <3>1. T # U
      BY <1>3
    <3>2. Cardinality(T) # Cardinality(U)
      BY <3>1, FS_Subset
    <3>. QED  BY <1>1, <3>2
  <2>3. Cardinality(F) \in Nat
    BY <2>1, FS_CardinalityType
  <2>. QED  BY <1>1, <2>1, <2>2, <2>3
<1>. QED  BY <1>2, <1>3

\* What one more datagram adds to the keepalives' numbers.
LEMMA NumbersGrow ==
    ASSUME NEW s \in Sessions, NEW dir, NEW type, NEW seq, NEW host, NEW new,
           Sealed(s, dir, type, seq, host, new),
           NEW t \in Sessions, NEW way
    PROVE  Numbers(t, way)' = IF t = s /\ way = dir /\ type = Keepalive
                              THEN Numbers(t, way) \union {seq} ELSE Numbers(t, way)
BY DEF Numbers, Sealed

\* A step that marks nothing: the keepalives taken stay so, and more may come.
LEMMA EchoesStay ==
    ASSUME EchoInv, \A d \in net' : d.seq # 0,
           UNCHANGED serverReplay,
           \A s \in Sessions : /\ Numbers(s, "s2c")' = Numbers(s, "s2c")
                               /\ Numbers(s, "c2s") \subseteq Numbers(s, "c2s")'
                               /\ IsFiniteSet(Numbers(s, "c2s")')
    PROVE  EchoInv'
<1> SUFFICES ASSUME NEW s \in Sessions
             PROVE  /\ IsFiniteSet(Numbers(s, "c2s")') /\ IsFiniteSet(Numbers(s, "s2c")')
                    /\ Cardinality(Numbers(s, "s2c")') <= Cardinality(Taken(s)')
  BY DEF EchoInv
<1>1. Taken(s) \subseteq Taken(s)'
  BY DEF Taken
<1>2. IsFiniteSet(Taken(s)) /\ IsFiniteSet(Taken(s)')
  <2>1. Taken(s) \in SUBSET Numbers(s, "c2s") /\ Taken(s)' \in SUBSET Numbers(s, "c2s")'
    BY DEF Taken
  <2>. QED  BY <2>1, FS_Subset DEF EchoInv
<1>3. /\ IsFiniteSet(Numbers(s, "s2c"))
      /\ Cardinality(Numbers(s, "s2c")) <= Cardinality(Taken(s))
  BY DEF EchoInv
<1>. QED  BY <1>1, <1>2, <1>3, GrowTogether

\* The client sends, whatever it carries.
LEMMA ClientSendsEcho ==
    ASSUME EchoInv, NonceInv, NEW s \in Sessions, NEW type, NEW host,
           ClientSends(s, type, host), UNCHANGED serverReplay
    PROVE  EchoInv'
<1>1. PICK new : Sealed(s, "c2s", type, clientSeq[s] + 1, host, new)
  BY ClientSeals
<1>2. clientSeq[s] + 1 # 0
  BY DEF NonceInv, Counted
<1>3. \A d \in net' : d.seq # 0
  BY <1>1, <1>2 DEF EchoInv, Sealed
<1>4. ASSUME NEW t \in Sessions
      PROVE  /\ Numbers(t, "s2c")' = Numbers(t, "s2c")
             /\ Numbers(t, "c2s") \subseteq Numbers(t, "c2s")'
             /\ IsFiniteSet(Numbers(t, "c2s")')
  <2>1. \A way : Numbers(t, way)' = IF t = s /\ way = "c2s" /\ type = Keepalive
                     THEN Numbers(t, way) \union {clientSeq[s] + 1} ELSE Numbers(t, way)
    BY <1>1, NumbersGrow
  <2>2. IsFiniteSet(Numbers(t, "c2s") \union {clientSeq[s] + 1})
    BY FS_AddElement DEF EchoInv
  <2>. QED  BY <2>1, <2>2 DEF EchoInv
<1>. QED  BY <1>3, <1>4, EchoesStay

\* The server sends data.
LEMMA ServerDataEcho ==
    ASSUME EchoInv, NonceInv, NEW s \in Sessions, NEW host,
           ServerSends(s, Data, host), UNCHANGED serverReplay
    PROVE  EchoInv'
<1>1. PICK new : Sealed(s, "s2c", Data, serverSeq[s] + 1, host, new)
  BY ServerSeals
<1>2. serverSeq[s] + 1 # 0
  BY DEF NonceInv, Counted
<1>3. \A d \in net' : d.seq # 0
  BY <1>1, <1>2 DEF EchoInv, Sealed
<1>4. Keepalive # Data
  BY DEF Keepalive, Data
<1>5. \A t \in Sessions : \A way : Numbers(t, way)' = Numbers(t, way)
  BY <1>1, <1>4, NumbersGrow
<1>. QED  BY <1>3, <1>5, EchoesStay DEF EchoInv

\* The server takes a datagram: what was taken stays so, and if it echoes this
\* one, this one was not taken before and is now.
LEMMA ServerReceivesEcho ==
    ASSUME EchoInv, ServiceInv, NEW s \in Sessions, NEW d \in net, ServerReceives(s, d)
    PROVE  EchoInv'
<1> DEFINE w == serverReplay[s]
           n == serverSeq[s] + 1
<1>1. /\ d.session = s /\ d.dir = "c2s" /\ d.seq \in Nat /\ WindowOK(w)
      /\ Accepts(w, d.seq)
      /\ serverReplay' = [serverReplay EXCEPT ![s] = After(w, d.seq)]
  BY DEF ServerReceives, Passes, ServiceInv, NonceInv, Counted, WindowsOK
<1>2. /\ ~Seen(w, d.seq) /\ Seen(After(w, d.seq), d.seq)
      /\ \A r \in Nat \ {0} : Seen(w, r) => Seen(After(w, d.seq), r)
  BY <1>1, WindowStep
<1>3. /\ serverReplay'[s] = After(w, d.seq)
      /\ \A t \in Sessions \ {s} : serverReplay'[t] = serverReplay[t]
  BY <1>1 DEF ServiceInv, WindowsOK
<1> HIDE DEF w
<1>4. \A t \in Sessions : Numbers(t, "c2s") \subseteq Nat \ {0}
  BY DEF Numbers, EchoInv, ServiceInv, NonceInv, Counted
\* What is echoed, if anything is.
<1>5. /\ \A e \in net' : e.seq # 0
      /\ \A t \in Sessions : Numbers(t, "c2s")' = Numbers(t, "c2s")
      /\ \A t \in Sessions \ {s} : Numbers(t, "s2c")' = Numbers(t, "s2c")
      /\ \/ Numbers(s, "s2c")' = Numbers(s, "s2c")
         \/ d.type = Keepalive /\ Numbers(s, "s2c")' = Numbers(s, "s2c") \union {n}
  <2>1. CASE d.type # Keepalive
    <3>1. net' = net
      BY <2>1 DEF ServerReceives
    <3>2. \A t, way : Numbers(t, way)' = Numbers(t, way)
      BY <3>1 DEF Numbers
    <3>. QED  BY <3>1, <3>2 DEF EchoInv
  <2>2. CASE d.type = Keepalive
    <3>1. PICK new : Sealed(s, "s2c", Keepalive, n, NoVip, new)
      BY <2>2, ServerSeals DEF ServerReceives
    <3>2. n # 0
      BY DEF ServiceInv, NonceInv, Counted
    <3>3. \A t \in Sessions : \A way : Numbers(t, way)' =
              IF t = s /\ way = "s2c" THEN Numbers(t, way) \union {n} ELSE Numbers(t, way)
      BY <3>1, NumbersGrow
    <3>4. \A e \in net' : e.seq # 0
      BY <3>1, <3>2 DEF EchoInv, Sealed
    <3>. QED  BY <2>2, <3>3, <3>4
  <2>. QED  BY <2>1, <2>2
<1> HIDE DEF n
<1>6. ASSUME NEW t \in Sessions
      PROVE  /\ IsFiniteSet(Numbers(t, "c2s")') /\ IsFiniteSet(Numbers(t, "s2c")')
             /\ Cardinality(Numbers(t, "s2c")') <= Cardinality(Taken(t)')
  <2>1. /\ Taken(t) = {q \in Numbers(t, "c2s") : Seen(serverReplay[t], q)}
        /\ Taken(t)' = {q \in Numbers(t, "c2s") : Seen(serverReplay'[t], q)}
    BY <1>5 DEF Taken, Seen
  <2>2. Taken(t) \subseteq Taken(t)'
    <3>1. CASE t = s
      BY <3>1, <2>1, <1>2, <1>3, <1>4 DEF w
    <3>2. CASE t # s
      BY <3>2, <2>1, <1>3
    <3>. QED  BY <3>1, <3>2
  <2>3. /\ IsFiniteSet(Numbers(t, "c2s")) /\ IsFiniteSet(Numbers(t, "s2c"))
        /\ Cardinality(Numbers(t, "s2c")) <= Cardinality(Taken(t))
    BY DEF EchoInv
  <2>4. IsFiniteSet(Taken(t)) /\ IsFiniteSet(Taken(t)')
    <3>1. /\ Taken(t) \in SUBSET Numbers(t, "c2s")
          /\ Taken(t)' \in SUBSET Numbers(t, "c2s")
      BY <2>1
    <3>. QED  BY <3>1, <2>3, FS_Subset
  <2>5. \/ Numbers(t, "s2c")' = Numbers(t, "s2c")
        \/ \E k : /\ Numbers(t, "s2c")' = Numbers(t, "s2c") \union {k}
                  /\ Taken(t)' \ Taken(t) # {}
    <3>1. CASE t = s /\ d.type = Keepalive
      <4>1. d.seq \in Numbers(s, "c2s")
        BY <3>1, <1>1 DEF Numbers
      <4>2. d.seq \in Taken(t)' /\ d.seq \notin Taken(t)
        BY <4>1, <3>1, <2>1, <1>2, <1>3 DEF w
      <4>. QED  BY <3>1, <4>2, <1>5
    <3>2. CASE ~(t = s /\ d.type = Keepalive)
      BY <3>2, <1>5
    <3>. QED  BY <3>1, <3>2
  <2>6. /\ IsFiniteSet(Numbers(t, "s2c")')
        /\ Cardinality(Numbers(t, "s2c")') <= Cardinality(Taken(t)')
    BY <2>2, <2>3, <2>4, <2>5, GrowTogether
  <2>. QED  BY <1>5, <2>3, <2>6
<1>. QED  BY <1>5, <1>6 DEF EchoInv

\* The server echoes each keepalive at most once, however often it arrives: a
\* session has no more echoes on the net than keepalives.
THEOREM EchoOnceAlways == Spec => []EchoOnce
<1>1. Init => ServiceInv /\ EchoInv
  <2> SUFFICES ASSUME Init PROVE ServiceInv /\ EchoInv
    OBVIOUS
  <2>1. \A s, dir : Numbers(s, dir) = {}
    BY DEF Init, Numbers
  <2>2. \A s : Taken(s) = {}
    BY <2>1 DEF Taken
  <2>3. IsFiniteSet({}) /\ Cardinality({}) <= Cardinality({})
    BY FS_EmptySet
  <2>4. ASSUME NEW s \in Sessions
        PROVE  /\ IsFiniteSet(Numbers(s, "c2s")) /\ IsFiniteSet(Numbers(s, "s2c"))
               /\ Cardinality(Numbers(s, "s2c")) <= Cardinality(Taken(s))
    BY <2>1, <2>2, <2>3
  <2>. QED  BY <2>4, ServiceInit DEF Init, EchoInv
<1>2. ServiceInv /\ EchoInv /\ [Next]_vars => ServiceInv' /\ EchoInv'
  <2> SUFFICES ASSUME ServiceInv, EchoInv, [Next]_vars PROVE EchoInv'
    BY ServiceStep
  <2>0. NonceInv
    BY DEF ServiceInv
  <2>1. ASSUME UNCHANGED <<net, serverReplay>> PROVE EchoInv'
    <3>1. \A s, dir : Numbers(s, dir)' = Numbers(s, dir)
      BY <2>1 DEF Numbers
    <3>. QED  BY <2>1, <3>1, EchoesStay DEF EchoInv
  <2>2. CASE UNCHANGED vars
    BY <2>1, <2>2 DEF vars, serverSide
  <2>3. ASSUME NEW s \in Sessions, NEW i \in Ids, NEW v \in Vips, Open(s, i, v)
        PROVE  EchoInv'
    BY <2>1, <2>3 DEF Open, serverSide
  <2>4. ASSUME NEW s \in Sessions, Remove(s) \/ ClientStops(s) \/ Rebind(s)
        PROVE  EchoInv'
    BY <2>1, <2>4 DEF Remove, ClientStops, Rebind, serverSide
  <2>5. ASSUME NEW s \in Sessions,
               ClientStarts(s) \/ ClientKeepalive(s) \/ ClientReadsTun(s)
        PROVE  EchoInv'
    BY <2>0, <2>5, ClientSendsEcho
       DEF ClientStarts, ClientKeepalive, ClientReadsTun, serverSide
  <2>6. ASSUME NEW s \in Sessions, NEW d \in net, ClientReceives(s, d)
        PROVE  EchoInv'
    BY <2>1, <2>6 DEF ClientReceives, serverSide
  <2>7. ASSUME NEW s \in Sessions, NEW d \in net, ServerReceives(s, d)
        PROVE  EchoInv'
    BY <2>7, ServerReceivesEcho
  <2>8. ASSUME NEW s \in Sessions, ServerReadsTun(s)
        PROVE  EchoInv'
    BY <2>0, <2>8, ServerDataEcho DEF ServerReadsTun
  <2>. QED  BY <2>2, <2>3, <2>4, <2>5, <2>6, <2>7, <2>8 DEF Next
<1>3. EchoInv => EchoOnce
  <2> SUFFICES ASSUME EchoInv, NEW s \in Sessions
               PROVE  Cardinality(Numbers(s, "s2c")) <= Cardinality(Numbers(s, "c2s"))
    BY DEF EchoOnce, Numbers
  <2>1. /\ IsFiniteSet(Numbers(s, "c2s")) /\ IsFiniteSet(Numbers(s, "s2c"))
        /\ Cardinality(Numbers(s, "s2c")) <= Cardinality(Taken(s))
    BY DEF EchoInv
  <2>2. Taken(s) \in SUBSET Numbers(s, "c2s")
    BY DEF Taken
  <2>3. IsFiniteSet(Taken(s)) /\ Cardinality(Taken(s)) <= Cardinality(Numbers(s, "c2s"))
    BY <2>1, <2>2, FS_Subset
  <2>4. /\ Cardinality(Numbers(s, "s2c")) \in Nat /\ Cardinality(Taken(s)) \in Nat
        /\ Cardinality(Numbers(s, "c2s")) \in Nat
    BY <2>1, <2>3, FS_CardinalityType
  <2>. QED  BY <2>1, <2>3, <2>4
<1>. QED  BY <1>1, <1>2, <1>3, PTL DEF Spec

-----------------------------------------------------------------------------
(***************************************************************************)
(* TypeOK, with it that every datagram is sent somewhere: a client that    *)
(* runs has an endpoint, and the server sends to one it has learned.       *)
(***************************************************************************)
Addressed == \A s \in Sessions : client[s] = "running" => at[s] \in Endpoints

TypeInv == ServiceInv /\ TypeOK /\ Addressed

\* A sealed datagram of a session that has an id, with an endpoint.
LEMMA DatagramType ==
    ASSUME NEW s \in Sessions, id[s] \in Ids, NEW dir \in {"c2s", "s2c"},
           NEW type \in {Keepalive, Data}, NEW tx \in Nat,
           NEW host \in Vips \union {NoVip}, NEW peer \in Endpoints
    PROVE  Datagram(s, dir, type, NextSeq(tx), host, peer) \in Datagrams
BY DEF Datagram, NextSeq, Datagrams

LEMMA WindowType ==
    ASSUME NEW w, WindowOK(w)
    PROVE  w \in Windows
BY DEF WindowOK, Windows

\* The types of what a client sends.
LEMMA ClientSendsType ==
    ASSUME TypeInv, NEW s \in Sessions, NEW type \in {Keepalive, Data},
           NEW host \in Vips \union {NoVip}, ClientSends(s, type, host),
           id[s] \in Ids, at'[s] \in Endpoints
    PROVE  clientSeq' \in [Sessions -> Nat] /\ \A d \in net' : d \in Datagrams
<1> DEFINE new == Datagram(s, "c2s", type, NextSeq(clientSeq[s]), host, at'[s])
<1>1. clientSeq \in [Sessions -> Nat] /\ \A d \in net : d \in Datagrams
  BY DEF TypeInv, TypeOK
<1>2. new \in Datagrams
  BY <1>1, DatagramType
<1>3. net' = net \union {new} /\ clientSeq' = [clientSeq EXCEPT ![s] = clientSeq[s] + 1]
  BY DEF ClientSends, NextSeq
<1> HIDE DEF new
<1>. QED  BY <1>1, <1>2, <1>3

\* The types of what the server sends.
LEMMA ServerSendsType ==
    ASSUME TypeInv, NEW s \in Sessions, NEW type \in {Keepalive, Data},
           NEW host \in Vips \union {NoVip}, ServerSends(s, type, host),
           id[s] \in Ids, client_addr'[s] \in Endpoints
    PROVE  serverSeq' \in [Sessions -> Nat] /\ \A d \in net' : d \in Datagrams
<1> DEFINE new == Datagram(s, "s2c", type, NextSeq(serverSeq[s]), host, client_addr'[s])
<1>1. serverSeq \in [Sessions -> Nat] /\ \A d \in net : d \in Datagrams
  BY DEF TypeInv, TypeOK
<1>2. new \in Datagrams
  BY <1>1, DatagramType
<1>3. net' = net \union {new} /\ serverSeq' = [serverSeq EXCEPT ![s] = serverSeq[s] + 1]
  BY DEF ServerSends, NextSeq
<1> HIDE DEF new
<1>. QED  BY <1>1, <1>2, <1>3

\* Every step keeps the types.
LEMMA TypeStep ==
    ASSUME TypeInv, [Next]_vars
    PROVE  TypeInv'
<1>0. ServiceInv'
  BY ServiceStep DEF TypeInv
<1>1. clientReplay' \in [Sessions -> Windows] /\ serverReplay' \in [Sessions -> Windows]
  <2>1. WindowsOK'
    BY <1>0 DEF ServiceInv
  <2>. QED  BY <2>1, WindowType DEF WindowsOK
<1>2. /\ id' \in [Sessions -> Ids \union {NoId}]
      /\ vip' \in [Sessions -> Vips \union {NoVip}]
      /\ client' \in [Sessions -> {"none", "running", "gone"}]
      /\ members' \in SUBSET Sessions
  BY <1>0 DEF ServiceInv, SessionsOK
<1>3. /\ at \in [Sessions -> Endpoints \union {NoEndpoint}]
      /\ client_addr \in [Sessions -> Endpoints \union {NoEndpoint}]
      /\ client \in [Sessions -> {"none", "running", "gone"}]
      /\ clientSeq \in [Sessions -> Nat] /\ serverSeq \in [Sessions -> Nat]
      /\ \A d \in net : d \in Datagrams
      /\ \A s \in Sessions : client[s] = "running" => at[s] \in Endpoints
  BY DEF TypeInv, TypeOK, Addressed
<1>4. \A s \in Sessions : client[s] = "running" \/ s \in members => id[s] \in Ids
  BY DEF TypeInv, ServiceInv, SessionsOK
<1> DEFINE Rest == /\ at' \in [Sessions -> Endpoints \union {NoEndpoint}]
                   /\ client_addr' \in [Sessions -> Endpoints \union {NoEndpoint}]
                   /\ clientSeq' \in [Sessions -> Nat]
                   /\ serverSeq' \in [Sessions -> Nat]
                   /\ \A d \in net' : d \in Datagrams
                   /\ \A s \in Sessions : client'[s] = "running" => at'[s] \in Endpoints
<1>5. CASE UNCHANGED vars
  <2>1. Rest
    BY <1>3, <1>5 DEF vars, clientSide, serverSide
  <2>. QED  BY <2>1, <1>0, <1>1, <1>2 DEF TypeInv, TypeOK, Addressed
<1>6. ASSUME NEW s \in Sessions,
             \/ \E i \in Ids, v \in Vips : Open(s, i, v)
             \/ Remove(s) \/ ClientStops(s)
      PROVE  Rest
  BY <1>3, <1>6 DEF Open, Remove, ClientStops, clientSide, serverSide
<1>7. ASSUME NEW s \in Sessions, Rebind(s)
      PROVE  Rest
  BY <1>3, <1>7 DEF Rebind, serverSide
<1>8. ASSUME NEW s \in Sessions, ClientStarts(s)
      PROVE  Rest
  <2>1. id[s] \in Ids
    BY <1>8 DEF ClientStarts, TypeInv, TypeOK
  <2>2. PICK e \in Endpoints : at' = [at EXCEPT ![s] = e]
    BY <1>8 DEF ClientStarts
  <2>3. ClientSends(s, Keepalive, NoVip) /\ client' = [client EXCEPT ![s] = "running"]
        /\ UNCHANGED serverSide
    BY <1>8 DEF ClientStarts
  <2>4. clientSeq' \in [Sessions -> Nat] /\ \A d \in net' : d \in Datagrams
    BY <1>3, <2>1, <2>2, <2>3, ClientSendsType
  <2>. QED  BY <1>3, <2>2, <2>3, <2>4 DEF serverSide
<1>9. ASSUME NEW s \in Sessions, ClientKeepalive(s) \/ ClientReadsTun(s)
      PROVE  Rest
  <2>1. /\ client[s] = "running" /\ UNCHANGED <<at, client, serverSide>>
        /\ \E type \in {Keepalive, Data}, host \in Vips \union {NoVip} :
              ClientSends(s, type, host)
    BY <1>9 DEF ClientKeepalive, ClientReadsTun
  <2>2. clientSeq' \in [Sessions -> Nat] /\ \A d \in net' : d \in Datagrams
    BY <1>3, <1>4, <2>1, ClientSendsType
  <2>. QED  BY <1>3, <2>1, <2>2 DEF serverSide
<1>10. ASSUME NEW s \in Sessions, NEW d \in net, ClientReceives(s, d)
       PROVE  Rest
  BY <1>3, <1>10 DEF ClientReceives, serverSide
<1>11. ASSUME NEW s \in Sessions, NEW d \in net, ServerReceives(s, d)
       PROVE  Rest
  <2>1. /\ s \in members /\ d.peer \in Endpoints
        /\ client_addr' = [client_addr EXCEPT ![s] = d.peer]
        /\ UNCHANGED clientSide
        /\ ServerSends(s, Keepalive, NoVip) \/ UNCHANGED <<serverSeq, net>>
    BY <1>3, <1>11 DEF ServerReceives, Datagrams
  <2>2. serverSeq' \in [Sessions -> Nat] /\ \A e \in net' : e \in Datagrams
    BY <1>3, <1>4, <2>1, ServerSendsType
  <2>. QED  BY <1>3, <2>1, <2>2 DEF clientSide
<1>12. ASSUME NEW s \in Sessions, ServerReadsTun(s)
       PROVE  Rest
  <2>1. /\ s \in members /\ client_addr[s] \in Endpoints
        /\ UNCHANGED <<client_addr, clientSide>>
        /\ \E host \in Vips : ServerSends(s, Data, host)
    BY <1>3, <1>12 DEF ServerReadsTun
  <2>2. serverSeq' \in [Sessions -> Nat] /\ \A e \in net' : e \in Datagrams
    BY <1>3, <1>4, <2>1, ServerSendsType
  <2>. QED  BY <1>3, <2>1, <2>2 DEF clientSide
<1>13. CASE Next
  <2>1. Rest
    BY <1>13, <1>6, <1>7, <1>8, <1>9, <1>10, <1>11, <1>12 DEF Next
  <2>. QED  BY <2>1, <1>0, <1>1, <1>2 DEF TypeInv, TypeOK, Addressed
<1>. QED  BY <1>5, <1>13

\* Every variable keeps its type, and every datagram is sent to an endpoint.
THEOREM TypesAlways == Spec => []TypeOK
<1>1. Init => TypeInv
  <2> SUFFICES ASSUME Init PROVE TypeInv
    OBVIOUS
  <2>1. ServiceInv
    BY ServiceInit
  <2>2. clientReplay \in [Sessions -> Windows] /\ serverReplay \in [Sessions -> Windows]
    BY <2>1, WindowType DEF ServiceInv, WindowsOK
  <2>. QED  BY <2>1, <2>2 DEF Init, TypeInv, TypeOK, Addressed
<1>2. TypeInv /\ [Next]_vars => TypeInv'
  BY TypeStep
<1>3. TypeInv => TypeOK
  BY DEF TypeInv
<1>. QED  BY <1>1, <1>2, <1>3, PTL DEF Spec

-----------------------------------------------------------------------------
(***************************************************************************)
(* Composition with ServerSessions. The sessions of this module, of which  *)
(* it only says that they come and go, lease their addresses, and their    *)
(* ids, as that module's handlers do: both implement AddressLease.         *)
(***************************************************************************)
NoSession == CHOOSE s : s \notin Sessions

\* The session of a table S under a key, if there is one.
HolderOf(S, keys, k) == IF \E s \in S : keys[s] = k
                        THEN CHOOSE s \in S : keys[s] = k
                        ELSE NoSession
Holders(K, S, keys) == [k \in K |-> HolderOf(S, keys, k)]

vipHolder == Holders(Vips, members, vip)
idHolder == Holders(Ids, members, id)

VipLease == INSTANCE AddressLease WITH Clients <- Sessions, Addresses <- Vips,
                                       Free <- NoSession, holder <- vipHolder
IdLease == INSTANCE AddressLease WITH Clients <- Sessions, Addresses <- Ids,
                                      Free <- NoSession, holder <- idHolder

\* A session in the tables has an id and an address, and no other one there has.
MembersInv ==
    /\ id \in [Sessions -> Ids \union {NoId}]
    /\ vip \in [Sessions -> Vips \union {NoVip}]
    /\ \A s \in members : s \in Sessions /\ id[s] # NoId /\ vip[s] # NoVip
    /\ \A s, t \in members : id[s] = id[t] \/ vip[s] = vip[t] => s = t

LEMMA NoSessionIsNone == NoSession \notin Sessions
BY NoSetContainsEverything DEF NoSession

LEMMA MembersStep ==
    ASSUME MembersInv, [Next]_vars
    PROVE  \/ UNCHANGED tables
           \/ \E s \in Sessions, i \in Ids, v \in Vips : Open(s, i, v)
           \/ \E s \in Sessions : Remove(s)
BY DEF Next, vars, ClientStarts, ClientStops, Rebind, ClientKeepalive, ClientReadsTun,
       ClientReceives, ServerReceives, ServerReadsTun, tables

LEMMA MembersKept ==
    ASSUME MembersInv, [Next]_vars
    PROVE  MembersInv'
<1>1. CASE UNCHANGED tables
  BY <1>1 DEF MembersInv, tables
<1>2. ASSUME NEW s \in Sessions, NEW i \in Ids, NEW v \in Vips, Open(s, i, v)
      PROVE  MembersInv'
  BY <1>2, AbsentAssumption DEF MembersInv, Open
<1>3. ASSUME NEW s \in Sessions, Remove(s)
      PROVE  MembersInv'
  BY <1>3 DEF MembersInv, Remove
<1>. QED  BY <1>1, <1>2, <1>3, MembersStep

\* Keys of the sessions of a table, no two of which share one.
Distinct(K, S, keys) ==
    /\ \A s \in S : s \in Sessions /\ keys[s] \in K
    /\ \A s, t \in S : keys[s] = keys[t] => s = t

LEMMA HolderIs ==
    ASSUME NEW K, NEW S, NEW keys, Distinct(K, S, keys),
           NEW k, NEW s \in S, keys[s] = k
    PROVE  HolderOf(S, keys, k) = s
BY DEF HolderOf, Distinct

LEMMA HolderIsMember ==
    ASSUME NEW S, NEW keys, NEW k, HolderOf(S, keys, k) # NoSession
    PROVE  HolderOf(S, keys, k) \in S
BY DEF HolderOf

\* A session that enters the table under a free key is granted that key.
LEMMA EntryGrants ==
    ASSUME NEW K, NEW S, NEW keys, Distinct(K, S, keys),
           NEW s \in Sessions, s \notin S,
           NEW k \in K, \A t \in S : keys[t] # k,
           NEW S2, \A t : t \in S2 <=> t \in S \/ t = s,
           NEW keys2, keys2[s] = k, \A t \in S : keys2[t] = keys[t]
    PROVE  /\ Holders(K, S, keys)[k] = NoSession
           /\ \A m \in K : Holders(K, S, keys)[m] # s
           /\ Holders(K, S2, keys2) = [Holders(K, S, keys) EXCEPT ![k] = s]
<1>1. HolderOf(S, keys, k) = NoSession
  BY DEF HolderOf
<1>2. \A m \in K : HolderOf(S, keys, m) # s
  BY NoSessionIsNone, HolderIsMember
<1>3. s \in S2 /\ S \subseteq S2
  OBVIOUS
<1>4. Distinct(K, S2, keys2)
  BY DEF Distinct
<1>5. HolderOf(S2, keys2, k) = s
  BY <1>3, <1>4, HolderIs
<1>6. ASSUME NEW m \in K \ {k}
      PROVE  HolderOf(S2, keys2, m) = HolderOf(S, keys, m)
  <2>1. CASE \E t \in S : keys[t] = m
    <3>1. PICK t \in S : keys[t] = m
      BY <2>1
    <3>2. HolderOf(S, keys, m) = t
      BY <3>1, HolderIs
    <3>3. HolderOf(S2, keys2, m) = t
      <4>1. t \in S2 /\ keys2[t] = m
        BY <3>1, <1>3
      <4>. QED  BY <4>1, <1>4, HolderIs
    <3>. QED  BY <3>2, <3>3
  <2>2. CASE ~ \E t \in S : keys[t] = m
    BY <2>2, <1>3 DEF HolderOf
  <2>. QED  BY <2>1, <2>2
<1>. QED  BY <1>1, <1>2, <1>5, <1>6 DEF Holders

\* A session that leaves the table gives its key back, and nobody loses his.
LEMMA ExitReleases ==
    ASSUME NEW K, NEW S, NEW keys, Distinct(K, S, keys), NEW s \in S
    PROVE  Holders(K, S \ {s}, keys) =
           [m \in K |-> IF m \in {keys[s]} THEN NoSession ELSE Holders(K, S, keys)[m]]
<1>1. Distinct(K, S \ {s}, keys)
  BY DEF Distinct
<1>2. HolderOf(S \ {s}, keys, keys[s]) = NoSession
  BY DEF HolderOf, Distinct
<1>3. ASSUME NEW m \in K, m # keys[s]
      PROVE  HolderOf(S \ {s}, keys, m) = HolderOf(S, keys, m)
  <2>1. CASE \E t \in S : keys[t] = m
    <3>1. PICK t \in S : keys[t] = m
      BY <2>1
    <3>2. t \in S \ {s}
      BY <1>3, <3>1
    <3>3. HolderOf(S, keys, m) = t
      BY <3>1, HolderIs
    <3>4. HolderOf(S \ {s}, keys, m) = t
      BY <3>1, <3>2, <1>1, HolderIs
    <3>. QED  BY <3>3, <3>4
  <2>2. CASE ~ \E t \in S : keys[t] = m
    BY <2>2 DEF HolderOf
  <2>. QED  BY <2>1, <2>2
<1>. QED  BY <1>2, <1>3 DEF Holders

LEMMA MembersDistinct ==
    ASSUME MembersInv
    PROVE  Distinct(Vips, members, vip) /\ Distinct(Ids, members, id)
BY DEF MembersInv, Distinct

\* A session is opened only if it has neither id nor address yet.
LEMMA LeaseStep ==
    ASSUME MembersInv, [Next]_vars
    PROVE  [VipLease!Next]_vipHolder /\ [IdLease!Next]_idHolder
<1>1. CASE UNCHANGED tables
  BY <1>1 DEF tables, vipHolder, idHolder
<1>2. ASSUME NEW s \in Sessions, NEW i \in Ids, NEW v \in Vips, Open(s, i, v)
      PROVE  VipLease!Grant(s, v) /\ IdLease!Grant(s, i)
  <2>1. /\ s \notin members /\ members' = members \union {s}
        /\ \A t \in members : id[t] # i /\ vip[t] # v
        /\ id' = [id EXCEPT ![s] = i] /\ vip' = [vip EXCEPT ![s] = v]
        /\ id \in [Sessions -> Ids \union {NoId}]
        /\ vip \in [Sessions -> Vips \union {NoVip}]
        /\ members \subseteq Sessions
    BY <1>2 DEF Open, MembersInv
  <2>2. /\ \A t : t \in members' <=> t \in members \/ t = s
        /\ id'[s] = i /\ \A t \in members : id'[t] = id[t]
        /\ vip'[s] = v /\ \A t \in members : vip'[t] = vip[t]
        /\ s \notin members
    BY <2>1
  <2>3. \A t \in members : id[t] # i /\ vip[t] # v
    BY <2>1
  <2>4. /\ Holders(Vips, members, vip)[v] = NoSession
        /\ \A m \in Vips : Holders(Vips, members, vip)[m] # s
        /\ Holders(Vips, members', vip') = [Holders(Vips, members, vip) EXCEPT ![v] = s]
    BY <2>2, <2>3, MembersDistinct, EntryGrants
  <2>5. /\ Holders(Ids, members, id)[i] = NoSession
        /\ \A m \in Ids : Holders(Ids, members, id)[m] # s
        /\ Holders(Ids, members', id') = [Holders(Ids, members, id) EXCEPT ![i] = s]
    BY <2>2, <2>3, MembersDistinct, EntryGrants
  <2>. QED
    BY <2>4, <2>5 DEF VipLease!Grant, IdLease!Grant, vipHolder, idHolder
<1>3. ASSUME NEW s \in Sessions, Remove(s)
      PROVE  VipLease!Release({vip[s]}) /\ IdLease!Release({id[s]})
  <2>1. s \in members /\ members' = members \ {s} /\ id' = id /\ vip' = vip
    BY <1>3 DEF Remove
  <2>. QED
    BY <2>1, MembersDistinct, ExitReleases
       DEF VipLease!Release, IdLease!Release, vipHolder, idHolder
<1>4. ASSUME NEW s \in Sessions, Remove(s)
      PROVE  {vip[s]} \in SUBSET Vips /\ {id[s]} \in SUBSET Ids
  BY <1>4 DEF Remove, MembersInv
<1>. QED
  BY <1>1, <1>2, <1>3, <1>4, MembersStep DEF VipLease!Next, IdLease!Next

\* The addresses of the tunnel's sessions are leased, as those of the server's
\* handlers are (ServerSessions): one session per address, one address per session,
\* and no second session under an address before the first is removed.
THEOREM AddressesAreLeased == Spec => VipLease!Spec
<1>1. Init => MembersInv /\ VipLease!Init
  BY AbsentAssumption DEF Init, MembersInv, VipLease!Init, vipHolder, Holders, HolderOf
<1>2. MembersInv /\ [Next]_vars => MembersInv' /\ [VipLease!Next]_vipHolder
  BY MembersKept, LeaseStep
<1>. QED  BY <1>1, <1>2, PTL DEF Spec, VipLease!Spec

\* So are their ids, by which the server finds the session of a datagram.
THEOREM IdsAreLeased == Spec => IdLease!Spec
<1>1. Init => MembersInv /\ IdLease!Init
  BY AbsentAssumption DEF Init, MembersInv, IdLease!Init, idHolder, Holders, HolderOf
<1>2. MembersInv /\ [Next]_vars => MembersInv' /\ [IdLease!Next]_idHolder
  BY MembersKept, LeaseStep
<1>. QED  BY <1>1, <1>2, PTL DEF Spec, IdLease!Spec
=============================================================================
