----------------------------- MODULE TunnelData -----------------------------
(***************************************************************************)
(* The data plane: the UDP handlers and TUN readers of server.py and       *)
(* client.py between a TUN device and a network that loses, duplicates,    *)
(* delays and reorders datagrams: "net" holds every datagram ever sent,    *)
(* and any of them may arrive at any time, any number of times, or never.  *)
(*                                                                         *)
(* A session is one ActiveSession of the server and the ClientSession that *)
(* was made from its accept frame; its keys are its name, so a datagram    *)
(* opens exactly under the session it was sealed in. Ids and addresses     *)
(* are used again by later sessions. A handler has no await before what it *)
(* does to this state, so each is one action; datagrams that are dropped   *)
(* change nothing and have no action.                                      *)
(***************************************************************************)
EXTENDS Integers, FiniteSets

CONSTANTS Sessions, Ids, Vips, Endpoints,
          WindowSize,           \* ReplayWindow.size
          MaxClientSeq, MaxServerSeq,   \* bounds: datagrams of each sender
          NoId, NoVip, NoEndpoint

ASSUME BoundsAssumption ==
    WindowSize \in Nat \ {0} /\ MaxClientSeq \in Nat /\ MaxServerSeq \in Nat
ASSUME AbsentAssumption ==
    NoId \notin Ids /\ NoVip \notin Vips /\ NoEndpoint \notin Endpoints

VARIABLES
    id, vip,          \* session_id and client_vip of each session made so far
    members,          \* sessions in the server's two tables
    client,           \* the client process of each session
    at,               \* the endpoint the server sees it under
    client_addr,      \* ActiveSession.client_addr
    clientSeq, serverSeq,         \* tx_seq of ClientSession, ActiveSession
    clientReplay, serverReplay,   \* their replay windows
    net,
    handed            \* packets written to a TUN device, and how often

tables == <<id, vip, members>>
clientSide == <<client, at, clientSeq, clientReplay>>
serverSide == <<client_addr, serverSeq, serverReplay>>
vars == <<tables, clientSide, serverSide, net, handed>>

\* The window step. The Python accept() and the Java one are the same function
\* (ReplayWindow: PortsAgree), which is a plain function in its Java form.
Window == INSTANCE ReplayWindow WITH
    Size <- WindowSize, Seqs <- Nat, max_seq <- 0, bitmap <- {}, accepted <- {},
    verdict <- [seq |-> 0, ok |-> FALSE]
NewWindow == [max |-> 0, bits |-> {}]
Accepts(w, seq) == Window!JavaAccept(WindowSize, w.max, w.bits, seq).ok
After(w, seq) == LET r == Window!JavaAccept(WindowSize, w.max, w.bits, seq)
                 IN  [max |-> r.max, bits |-> r.bits]

Init == /\ id = [s \in Sessions |-> NoId]
        /\ vip = [s \in Sessions |-> NoVip]
        /\ members = {}
        /\ client = [s \in Sessions |-> "none"]
        /\ at = [s \in Sessions |-> NoEndpoint]
        /\ client_addr = [s \in Sessions |-> NoEndpoint]
        /\ clientSeq = [s \in Sessions |-> 0]
        /\ serverSeq = [s \in Sessions |-> 0]
        /\ clientReplay = [s \in Sessions |-> NewWindow]
        /\ serverReplay = [s \in Sessions |-> NewWindow]
        /\ net = {}
        /\ handed = [p \in {} |-> 0]

-----------------------------------------------------------------------------
\* Sessions come and go (ServerSessions has the details).

\* A hello is accepted: an id and an address no session in the tables has.
Open(s, i, v) ==
    /\ id[s] = NoId
    /\ \A t \in members : id[t] # i /\ vip[t] # v
    /\ id' = [id EXCEPT ![s] = i]
    /\ vip' = [vip EXCEPT ![s] = v]
    /\ members' = members \union {s}
    /\ UNCHANGED <<clientSide, serverSide, net, handed>>

\* _remove_session: the client left or was silent.
Remove(s) ==
    /\ s \in members
    /\ members' = members \ {s}
    /\ UNCHANGED <<id, vip, clientSide, serverSide, net, handed>>

-----------------------------------------------------------------------------
\* Datagrams. "peer" is the client's endpoint: where it comes from, or where
\* it is sent to. "host" is the tunnel address of the IP packet in it: its
\* source on the way to the server, its destination on the way back.
Datagram(s, dir, type, seq, host, peer) ==
    [id |-> id[s], session |-> s, dir |-> dir, type |-> type, seq |-> seq,
     host |-> host, peer |-> peer]

\* The IP packet a data datagram carries, as TunnelService counts it.
Packet(d) == [session |-> d.session, dir |-> d.dir, seq |-> d.seq, host |-> d.host]

\* next_seq. The variant is a counter that saturates.
NextSeq_saturates(tx) == IF tx = 0 THEN 1 ELSE tx
NextSeq(tx) == tx + 1

\* VpnClient._send_udp.
ClientSends(s, type, host) ==
    /\ clientSeq[s] < MaxClientSeq
    /\ clientSeq' = [clientSeq EXCEPT ![s] = NextSeq(clientSeq[s])]
    /\ net' = net \union
           {Datagram(s, "c2s", type, NextSeq(clientSeq[s]), host, at'[s])}

\* VpnServer._send_udp to where client_addr points from now on.
ServerSends(s, type, host) ==
    /\ serverSeq[s] < MaxServerSeq
    /\ serverSeq' = [serverSeq EXCEPT ![s] = NextSeq(serverSeq[s])]
    /\ net' = net \union
           {Datagram(s, "s2c", type, NextSeq(serverSeq[s]), host, client_addr'[s])}

Keepalive == "keepalive"
Data == "data"

\* tun.write.
HandOver(d) ==
    LET p == Packet(d)
        before == IF p \in DOMAIN handed THEN handed[p] ELSE 0
    IN  handed' = [q \in DOMAIN handed \union {p} |->
                      IF q = p THEN before + 1 ELSE handed[q]]

-----------------------------------------------------------------------------
\* The client.

\* The tunnel comes up: the endpoint exists and the first keepalive is sent.
ClientStarts(s) ==
    /\ client[s] = "none" /\ id[s] # NoId
    /\ client' = [client EXCEPT ![s] = "running"]
    /\ \E e \in Endpoints : at' = [at EXCEPT ![s] = e]
    /\ ClientSends(s, Keepalive, NoVip)
    /\ UNCHANGED <<tables, clientReplay, serverSide, handed>>

\* cleanup() closes the UDP transport and the TUN device.
ClientStops(s) ==
    /\ client[s] = "running"
    /\ client' = [client EXCEPT ![s] = "gone"]
    /\ UNCHANGED <<tables, at, clientSeq, clientReplay, serverSide, net, handed>>

\* A NAT on the way gives the client another endpoint, perhaps one that
\* another client had.
Rebind(s) ==
    /\ client[s] = "running"
    /\ \E e \in Endpoints : at' = [at EXCEPT ![s] = e]
    /\ UNCHANGED <<tables, client, clientSeq, clientReplay, serverSide, net, handed>>

\* udp_keepalive_loop.
ClientKeepalive(s) ==
    /\ client[s] = "running"
    /\ UNCHANGED at
    /\ ClientSends(s, Keepalive, NoVip)
    /\ UNCHANGED <<tables, client, clientReplay, serverSide, handed>>

\* tun_to_udp_loop of the client: only packets of its own address go out.
ClientReadsTun(s) ==
    /\ client[s] = "running"
    /\ \E source \in Vips : source = vip[s] /\ UNCHANGED at
                            /\ ClientSends(s, Data, source)
    /\ UNCHANGED <<tables, client, clientReplay, serverSide, handed>>

\* handle_udp_datagram of the client: id, seal, window, type, destination.
ClientReceives(s, d) ==
    /\ client[s] = "running"
    /\ d.dir = "s2c" /\ d.peer = at[s]
    /\ d.id = id[s]
    /\ d.session = s
    /\ Accepts(clientReplay[s], d.seq)
    /\ clientReplay' = [clientReplay EXCEPT ![s] = After(@, d.seq)]
    /\ IF d.type = Data /\ d.host = vip[s] THEN HandOver(d) ELSE UNCHANGED handed
    /\ UNCHANGED <<tables, client, at, clientSeq, serverSide, net>>

-----------------------------------------------------------------------------
\* The server.

\* Whether the window lets a datagram through. The variants never refuse a
\* keepalive, and take the newest number once more.
Passes_keepalive(w, d) == d.type = Keepalive \/ Accepts(w, d.seq)
Passes_newest(w, d) == d.seq >= w.max \/ Accepts(w, d.seq)
Passes(w, d) == Accepts(w, d.seq)

\* The variant learns the endpoint before it has opened the datagram.
ServerReceives_learns(s, d) ==
    /\ s \in members
    /\ d.dir = "c2s" /\ d.id = id[s]
    /\ client_addr' = [client_addr EXCEPT ![s] = d.peer]
    /\ IF d.session = s /\ Passes(serverReplay[s], d)
       THEN /\ serverReplay' = [serverReplay EXCEPT ![s] = After(@, d.seq)]
            /\ IF d.type = Keepalive
               THEN ServerSends(s, Keepalive, NoVip) /\ UNCHANGED handed
               ELSE HandOver(d) /\ UNCHANGED <<serverSeq, net>>
       ELSE UNCHANGED <<serverReplay, serverSeq, net, handed>>
    /\ UNCHANGED <<tables, clientSide>>

\* handle_udp_datagram of the server: the session by its id, seal, window,
\* the endpoint, type, source.
ServerReceives(s, d) ==
    /\ s \in members
    /\ d.dir = "c2s" /\ d.id = id[s]
    /\ d.session = s
    /\ Passes(serverReplay[s], d)
    /\ serverReplay' = [serverReplay EXCEPT ![s] = After(@, d.seq)]
    /\ client_addr' = [client_addr EXCEPT ![s] = d.peer]
    /\ IF d.type = Keepalive
       THEN ServerSends(s, Keepalive, NoVip) /\ UNCHANGED handed
       ELSE /\ IF d.host = vip[s] THEN HandOver(d) ELSE UNCHANGED handed
            /\ UNCHANGED <<serverSeq, net>>
    /\ UNCHANGED <<tables, clientSide>>

\* tun_to_udp_loop of the server: to the session that has the destination now,
\* once a datagram of it has shown where it is.
ServerReadsTun(s) ==
    /\ \E destination \in Vips :
          /\ s \in members /\ vip[s] = destination
          /\ client_addr[s] # NoEndpoint
          /\ UNCHANGED client_addr
          /\ ServerSends(s, Data, destination)
    /\ UNCHANGED <<tables, clientSide, serverReplay, handed>>

Next == \E s \in Sessions :
            \/ \E i \in Ids, v \in Vips : Open(s, i, v)
            \/ Remove(s)
            \/ ClientStarts(s) \/ ClientStops(s) \/ Rebind(s)
            \/ ClientKeepalive(s) \/ ClientReadsTun(s)
            \/ \E d \in net : ClientReceives(s, d) \/ ServerReceives(s, d)
            \/ ServerReadsTun(s)

Spec == Init /\ [][Next]_vars

-----------------------------------------------------------------------------
Windows == [max : Nat, bits : SUBSET (0..(WindowSize - 1))]
Datagrams == [id : Ids, session : Sessions, dir : {"c2s", "s2c"},
              type : {Keepalive, Data}, seq : Nat,
              host : Vips \union {NoVip}, peer : Endpoints]

\* Every variable has its type; every datagram on the net is addressed.
TypeOK ==
    /\ id \in [Sessions -> Ids \union {NoId}]
    /\ vip \in [Sessions -> Vips \union {NoVip}]
    /\ members \in SUBSET Sessions
    /\ client \in [Sessions -> {"none", "running", "gone"}]
    /\ at \in [Sessions -> Endpoints \union {NoEndpoint}]
    /\ client_addr \in [Sessions -> Endpoints \union {NoEndpoint}]
    /\ clientSeq \in [Sessions -> Nat] /\ serverSeq \in [Sessions -> Nat]
    /\ clientReplay \in [Sessions -> Windows]
    /\ serverReplay \in [Sessions -> Windows]
    /\ \A d \in net : d \in Datagrams

\* No two datagrams are sealed under one key with one number: the nonce is the
\* key's salt and the number, and ChaCha20-Poly1305 does not survive a second
\* use. Keepalives, their echoes and data share the counter.
NonceOnce ==
    \A d, e \in net :
        (d.session = e.session /\ d.dir = e.dir /\ d.seq = e.seq) => d = e

\* The server sends a session's traffic only to an endpoint that session's
\* client had: datagrams of an earlier session under the same id, which may
\* still be in flight, cannot turn it elsewhere.
RepliesGoHome ==
    \A s \in Sessions : client_addr[s] # NoEndpoint =>
        \E d \in net : d.dir = "c2s" /\ d.session = s /\ d.peer = client_addr[s]

\* The server echoes each keepalive of a client at most once, however often
\* the network delivers it.
EchoOnce ==
    \A s \in Sessions :
        LET Of(dir) == {d.seq : d \in {e \in net : e.session = s /\ e.dir = dir
                                                   /\ e.type = Keepalive}}
        IN  Cardinality(Of("s2c")) <= Cardinality(Of("c2s"))

\* Through loss, duplication, reordering, roaming and the reuse of ids and
\* addresses, the tunnel is the one TunnelService describes: no packet comes
\* out twice, in another session, or under another address.
Service == INSTANCE TunnelService WITH
    sent <- {Packet(d) : d \in {e \in net : e.type = Data}}
ImplementsService == Service!Spec
=============================================================================
