--------------------------- MODULE ServerSessions ---------------------------
(***************************************************************************)
(* The control plane of the server, src/pyvpn/server.py: one asyncio       *)
(* handler per control connection, the two session tables the handlers     *)
(* share with the UDP path and the timeout scan, and the shutdown.         *)
(*                                                                         *)
(* A handler runs without interruption from one await to the next, so an   *)
(* action is what the event loop executes between two awaits. A handler    *)
(* creates at most one ActiveSession, so the session object is named by    *)
(* its connection: "is session" in the code is equality of connections.    *)
(***************************************************************************)
EXTENDS Integers, FiniteSets

CONSTANTS Conns,               \* control connections, reused once closed
          Ids,                 \* the session ids randbits can draw
          MaxClients,          \* config.max_clients
          Timeout,             \* config.session_timeout, in ticks
          WaitsForConnections, \* Server.wait_closed() waits for connections
          NoConn, NoSession    \* absent dictionary entry, session is None

ASSUME ConnsAssumption ==
    /\ IsFiniteSet(Conns)
    /\ NoConn \notin Conns
\* A 64-bit id is never exhausted by at most ten sessions.
ASSUME IdsAssumption ==
    /\ IsFiniteSet(Ids)
    /\ Cardinality(Ids) >= MaxClients
ASSUME LimitsAssumption ==
    /\ MaxClients \in Nat \ {0}
    /\ Timeout \in Nat
    /\ WaitsForConnections \in BOOLEAN
ASSUME NoSessionAssumption == NoSession \notin [id : Ids, vip : Nat]

\* What a peer can send, by what handle_control tells apart. "hello" has the
\* right version and token; any other frame sent first is refused, as a wrong
\* version or token is. "garbage" does not decode and raises ProtocolError.
Frames == {"hello", "heartbeat", "disconnect", "garbage"}

VARIABLES
    pc,             \* the await each handler is suspended at
    net,            \* "open", "closing" after writer.close(), "lost"
    sess,           \* the handler's local variable "session"
    age,            \* time since session.last_seen, up to Timeout + 1
    sessions_by_id, sessions_by_vip,
    phase,          \* where VpnServer.run() is
    toClose         \* cleanup(): the sessions whose writer is still to close

vars == <<pc, net, sess, age, sessions_by_id, sessions_by_vip,
          phase, toClose>>
tables == <<sessions_by_id, sessions_by_vip>>

Phases == {"running", "stopping", "cleanup", "exiting", "stopped"}

-----------------------------------------------------------------------------
\* build_client_pool returns exactly MaxClients addresses, in scan order.
ClientPool_short == 1..(IF MaxClients > 1 THEN MaxClients - 1 ELSE 1)
ClientPool == 1..MaxClients

Members == {c \in Conns : \E i \in Ids : sessions_by_id[i] = c}
InTable(c) == c \in Members

\* A handler between _add_session and the finally clause.
Serving == {"accept", "loop", "beat", "bye"}

\* len(self.sessions_by_id) >= self.config.max_clients
IsFull == Cardinality({i \in Ids : sessions_by_id[i] # NoConn}) >= MaxClients

FreeVips == {a \in ClientPool : sessions_by_vip[a] = NoConn}

\* _allocate_client_vip returns the first free address in pool order. The
\* variant looks at the pool and not at the table.
IsFirstFree_blind(a) == \A b \in ClientPool : a <= b
IsFirstFree(a) == /\ a \in FreeVips
                  /\ \A b \in FreeVips : a <= b

\* _new_session_id: any id that is not in the table.
FreeIds == {i \in Ids : sessions_by_id[i] = NoConn}

\* _remove_session(session) for each connection of C: an entry is dropped only
\* when it still holds that very session. The variants drop the entry by key.
RemoveFromIds_bykey(C) ==
    [i \in Ids |-> IF \E c \in C : sess[c] # NoSession /\ sess[c].id = i
                   THEN NoConn ELSE sessions_by_id[i]]
RemoveFromIds(C) ==
    [i \in Ids |-> IF sessions_by_id[i] \in C THEN NoConn ELSE sessions_by_id[i]]
RemoveFromVips_bykey(C) ==
    [a \in ClientPool |-> IF \E c \in C : sess[c] # NoSession /\ sess[c].vip = a
                          THEN NoConn ELSE sessions_by_vip[a]]
RemoveFromVips(C) ==
    [a \in ClientPool |->
        IF sessions_by_vip[a] \in C THEN NoConn ELSE sessions_by_vip[a]]

Closed(status) == IF status = "open" THEN "closing" ELSE status

-----------------------------------------------------------------------------
Init == /\ pc = [c \in Conns |-> "none"]
        /\ net = [c \in Conns |-> "lost"]
        /\ sess = [c \in Conns |-> NoSession]
        /\ age = [c \in Conns |-> 0]
        /\ sessions_by_id = [i \in Ids |-> NoConn]
        /\ sessions_by_vip = [a \in ClientPool |-> NoConn]
        /\ phase = "running"
        /\ toClose = {}

-----------------------------------------------------------------------------
\* The network and the clients.

\* start_server accepts a connection and starts its handler.
Connect(c) ==
    /\ phase = "running"
    /\ pc[c] = "none"
    /\ pc' = [pc EXCEPT ![c] = "hello"]
    /\ net' = [net EXCEPT ![c] = "open"]
    /\ sess' = [sess EXCEPT ![c] = NoSession]
    /\ age' = [age EXCEPT ![c] = 0]
    /\ UNCHANGED <<tables, phase, toClose>>

\* The peer closes or resets, or the transport finishes closing.
ConnectionLost(c) ==
    /\ net[c] # "lost"
    /\ net' = [net EXCEPT ![c] = "lost"]
    /\ UNCHANGED <<pc, sess, age, tables, phase, toClose>>

\* A fresh client packet authenticates for this session: handle_udp_datagram
\* looks it up by id and refreshes last_seen before its only await.
UdpRefresh(c) ==
    /\ phase \in {"running", "stopping", "cleanup"}
    /\ InTable(c)
    /\ age' = [age EXCEPT ![c] = 0]
    /\ UNCHANGED <<pc, net, sess, tables, phase, toClose>>

Tick ==
    /\ age' = [c \in Conns |-> IF InTable(c) /\ age[c] <= Timeout
                               THEN age[c] + 1 ELSE age[c]]
    /\ UNCHANGED <<pc, net, sess, tables, phase, toClose>>

-----------------------------------------------------------------------------
\* handle_control.

\* The finally clause up to its await: _remove_session, then writer.close().
Finally(c) ==
    /\ sessions_by_id' = IF sess[c] = NoSession THEN sessions_by_id
                         ELSE RemoveFromIds({c})
    /\ sessions_by_vip' = IF sess[c] = NoSession THEN sessions_by_vip
                          ELSE RemoveFromVips({c})
    /\ pc' = [pc EXCEPT ![c] = "closing"]
    /\ net' = [net EXCEPT ![c] = Closed(net[c])]
    /\ age' = [age EXCEPT ![c] = 0]

\* A frame f is read as it arrives; one buffered before the connection closed
\* may still be read after it.

\* The hello is valid and there is room: _add_session, then write accept.
Admit(c, f) ==
    /\ pc[c] = "hello"
    /\ f = "hello"
    /\ ~IsFull
    /\ \E i \in FreeIds, a \in ClientPool :
        /\ IsFirstFree(a)
        /\ sess' = [sess EXCEPT ![c] = [id |-> i, vip |-> a]]
        /\ sessions_by_id' = [sessions_by_id EXCEPT ![i] = c]
        /\ sessions_by_vip' = [sessions_by_vip EXCEPT ![a] = c]
    /\ age' = [age EXCEPT ![c] = 0]
    /\ pc' = [pc EXCEPT ![c] = "accept"]
    /\ UNCHANGED <<net, phase, toClose>>

\* Invalid hello, wrong token, or server full: an error frame, then return.
RefuseHello(c, f) ==
    /\ pc[c] = "hello"
    /\ f \in Frames \ {"garbage"}
    /\ f = "hello" => IsFull \/ FreeVips = {}
    /\ pc' = [pc EXCEPT ![c] = "refuse"]
    /\ UNCHANGED <<net, sess, age, tables, phase, toClose>>

\* _control_loop reads a heartbeat: refresh, then write the reply.
ReadHeartbeat(c, f) ==
    /\ pc[c] = "loop"
    /\ f = "heartbeat"
    /\ age' = [age EXCEPT ![c] = 0]
    /\ pc' = [pc EXCEPT ![c] = "beat"]
    /\ UNCHANGED <<net, sess, tables, phase, toClose>>

\* Disconnect, or a frame the loop does not know: one reply, then return.
ReadLast(c, f) ==
    /\ pc[c] = "loop"
    /\ f \in Frames \ {"heartbeat", "garbage"}
    /\ pc' = [pc EXCEPT ![c] = "bye"]
    /\ UNCHANGED <<net, sess, age, tables, phase, toClose>>

\* read_frame raises: the frame does not decode, or the connection is gone.
\* The variant of ReadFails skips the clean-up when the peer just vanished.
ReadGarbage(c, f) ==
    /\ pc[c] \in {"hello", "loop"}
    /\ f = "garbage"
    /\ Finally(c)
    /\ UNCHANGED <<sess, phase, toClose>>

ReadFails_leaks(c) ==
    /\ pc[c] \in {"hello", "loop"}
    /\ net[c] = "lost"
    /\ pc' = [pc EXCEPT ![c] = "closing"]
    /\ UNCHANGED <<net, sess, age, tables, phase, toClose>>

ReadFails(c) ==
    /\ pc[c] \in {"hello", "loop"}
    /\ net[c] = "lost"
    /\ Finally(c)
    /\ UNCHANGED <<sess, phase, toClose>>

\* drain() returns after the accept or a heartbeat reply: the loop goes on
\* while the table still holds this session, and returns otherwise.
LoopOn(c) ==
    /\ pc[c] \in {"accept", "beat"}
    /\ net[c] # "lost"
    /\ sessions_by_id[sess[c].id] = c
    /\ pc' = [pc EXCEPT ![c] = "loop"]
    /\ UNCHANGED <<net, sess, age, tables, phase, toClose>>

\* drain() returns after the last frame or after the session was evicted, or
\* it raises because the connection is lost.
Leave(c) ==
    /\ \/ pc[c] \in {"refuse", "bye"}
       \/ pc[c] \in {"accept", "beat"} /\ sessions_by_id[sess[c].id] # c
       \/ pc[c] \in {"accept", "beat"} /\ net[c] = "lost"
    /\ Finally(c)
    /\ UNCHANGED <<sess, phase, toClose>>

\* _close_writer: wait_closed() returns, or its two seconds are over.
HandlerEnds(c) ==
    /\ pc[c] = "closing"
    /\ pc' = [pc EXCEPT ![c] = "none"]
    /\ sess' = [sess EXCEPT ![c] = NoSession]
    /\ UNCHANGED <<net, age, tables, phase, toClose>>

-----------------------------------------------------------------------------
\* session_timeout_loop: one scan, with no await inside. The variants give up
\* at the first live session, or forget to close the writer.
Expired_return == LET old == {c \in Members : age[c] > Timeout}
                  IN  IF old = Members THEN old ELSE {}
Expired == {c \in Members : age[c] > Timeout}

CloseAll_none(C) == net
CloseAll(C) == [c \in Conns |-> IF c \in C THEN Closed(net[c]) ELSE net[c]]

TimeoutScan ==
    /\ phase = "running"
    /\ Expired # {}
    /\ sessions_by_id' = RemoveFromIds(Expired)
    /\ sessions_by_vip' = RemoveFromVips(Expired)
    /\ net' = CloseAll(Expired)
    /\ UNCHANGED <<pc, sess, age, phase, toClose>>

-----------------------------------------------------------------------------
\* VpnServer.run() from the end of asyncio.wait on.

\* A signal, or the TUN task failed: the loops are cancelled and the listening
\* socket is closed.
StopBegins ==
    /\ phase = "running"
    /\ phase' = "stopping"
    /\ UNCHANGED <<pc, net, sess, age, tables, toClose>>

\* control_server.wait_closed() returns, at once before Python 3.12 and once
\* every connection is gone from then on; cleanup() empties the tables.
ListenerClosed ==
    /\ phase = "stopping"
    /\ WaitsForConnections => \A c \in Conns : net[c] = "lost"
    /\ phase' = "cleanup"
    /\ toClose' = Members
    /\ sessions_by_id' = [i \in Ids |-> NoConn]
    /\ sessions_by_vip' = [a \in ClientPool |-> NoConn]
    /\ UNCHANGED <<pc, net, sess, age>>

CleanupCloses(c) ==
    /\ phase = "cleanup"
    /\ c \in toClose
    /\ net' = [net EXCEPT ![c] = Closed(net[c])]
    /\ toClose' = toClose \ {c}
    /\ UNCHANGED <<pc, sess, age, tables, phase>>

\* UDP, NAT and TUN are torn down, run() returns, asyncio.run cancels the
\* handlers that are left.
CleanupEnds ==
    /\ phase = "cleanup"
    /\ toClose = {}
    /\ phase' = "exiting"
    /\ UNCHANGED <<pc, net, sess, age, tables, toClose>>

\* CancelledError at any await: the finally clause still runs. The variant has
\* handlers that swallow the cancellation while they wait for a frame.
Cancelled_stuck(c) ==
    /\ phase = "exiting"
    /\ pc[c] \in {"refuse", "accept", "beat", "bye"}
    /\ Finally(c)
    /\ UNCHANGED <<sess, phase, toClose>>

Cancelled(c) ==
    /\ phase = "exiting"
    /\ pc[c] \notin {"none", "closing"}
    /\ Finally(c)
    /\ UNCHANGED <<sess, phase, toClose>>

ProcessExits ==
    /\ phase = "exiting"
    /\ \A c \in Conns : pc[c] = "none"
    /\ phase' = "stopped"
    /\ UNCHANGED <<pc, net, sess, age, tables, toClose>>

\* The process is gone; nothing happens any more.
Stopped == phase = "stopped" /\ UNCHANGED vars

-----------------------------------------------------------------------------
\* Once run() has returned a resumed handler finds its cancellation only.
HandlerStep(c) ==
    \/ /\ phase # "exiting"
       /\ \/ \E f \in Frames : \/ Admit(c, f) \/ RefuseHello(c, f)
                              \/ ReadHeartbeat(c, f) \/ ReadLast(c, f)
                              \/ ReadGarbage(c, f)
          \/ ReadFails(c) \/ LoopOn(c) \/ Leave(c)
    \/ HandlerEnds(c) \/ Cancelled(c)

ServerStep == \/ ListenerClosed \/ CleanupEnds \/ ProcessExits
              \/ \E c \in Conns : CleanupCloses(c)

Environment(c) == \/ Connect(c) \/ ConnectionLost(c) \/ UdpRefresh(c)

Next == \/ \E c \in Conns : HandlerStep(c) \/ Environment(c)
        \/ Tick \/ TimeoutScan \/ StopBegins \/ ServerStep \/ Stopped

Spec == Init /\ [][Next]_vars

\* A handler whose connection is lost is resumed, and so is one that waits for
\* wait_closed with its two-second limit or that is cancelled. Nothing is
\* assumed of a peer that is silent, or of drain() to one that stops reading.
Resumed(c) ==
    \/ /\ phase # "exiting"
       /\ net[c] = "lost"
       /\ ReadFails(c) \/ Leave(c)
    \/ HandlerEnds(c) \/ Cancelled(c)

\* A closing transport is lost in the end: the TLS shutdown has a time limit.
ShutdownEnds(c) == net[c] = "closing" /\ ConnectionLost(c)

ConnFairness(c) == WF_vars(Resumed(c)) /\ WF_vars(ShutdownEnds(c))
ConnsFairness == \A c \in Conns : ConnFairness(c)

\* asyncio.run gathers the handlers it has cancelled: while one is left, one goes on.
GatherStep == phase = "exiting" /\ \E c \in Conns : Resumed(c)

\* The event loop runs what is ready; the scan comes back every 5 seconds.
ServerFairness == WF_vars(TimeoutScan) /\ WF_vars(ServerStep) /\ WF_vars(GatherStep)

Fairness == ConnsFairness /\ ServerFairness

FairSpec == Spec /\ Fairness

\* Clients that behave: they say hello, read what is sent to them and go on
\* sending heartbeats, as client.py does every 15 seconds.
HealthyClients ==
    \A c \in Conns : /\ WF_vars(pc[c] = "hello" /\ HandlerStep(c))
                     /\ WF_vars(pc[c] \in {"accept", "beat", "refuse", "bye"}
                                  /\ HandlerStep(c))
                     /\ WF_vars(pc[c] = "loop" /\ HandlerStep(c))

HealthySpec == FairSpec /\ HealthyClients

-----------------------------------------------------------------------------
\* Every variable has its type, and a handler in or on its way to the control
\* loop has a session.
TypeOK ==
    /\ pc \in [Conns -> {"none", "hello", "refuse", "closing"} \union Serving]
    /\ net \in [Conns -> {"open", "closing", "lost"}]
    /\ sess \in [Conns -> [id : Ids, vip : ClientPool] \union {NoSession}]
    /\ age \in [Conns -> 0..(Timeout + 1)]
    /\ sessions_by_id \in [Ids -> Conns \union {NoConn}]
    /\ sessions_by_vip \in [ClientPool -> Conns \union {NoConn}]
    /\ phase \in Phases
    /\ toClose \in SUBSET Conns
    /\ \A c \in Conns : pc[c] \in Serving => sess[c] # NoSession

\* The two tables describe the same sessions, under the keys the session
\* carries: a packet for a tunnel address and a packet with a session id reach
\* the same client. A late _remove_session of an evicted session, after its
\* address went to someone else, is what would break it.
TablesAgree ==
    /\ \A i \in Ids : sessions_by_id[i] # NoConn =>
          LET c == sessions_by_id[i]
          IN  /\ sess[c] # NoSession
              /\ sess[c].id = i
              /\ sessions_by_vip[sess[c].vip] = c
    /\ \A a \in ClientPool : sessions_by_vip[a] # NoConn =>
          LET c == sessions_by_vip[a]
          IN  /\ sess[c] # NoSession
              /\ sess[c].vip = a
              /\ sessions_by_id[sess[c].id] = c

\* No slot leaks: a session in the table has a handler that has not reached
\* its finally clause yet, so something is left that will remove it. After the
\* process has stopped the tables are empty.
NoLeakedSession == \A c \in Members : pc[c] \in Serving

\* Below the client limit there is always an address to give: the second
\* "server is full" answer of handle_control is never sent.
AddressAvailable == ~IsFull => FreeVips # {}

\* A session leaves the table by its own handler's finally clause, by being
\* silent for longer than the timeout, or in the shutdown; never because some
\* other client's handler ended.
EvictsOnlyItself ==
    [][\A i \in Ids :
          LET c == sessions_by_id[i]
          IN  (c # NoConn /\ sessions_by_id'[i] # c)
                 => \/ pc[c] # "closing" /\ pc'[c] = "closing"
                    \/ age[c] > Timeout
                    \/ phase = "stopping" /\ phase' = "cleanup"]_vars

\* The address table is a lease table: at most one holder per address, one
\* address per client, no change of holder without a release in between.
Lease == INSTANCE AddressLease WITH Clients <- Conns, Addresses <- ClientPool,
                                    Free <- NoConn, holder <- sessions_by_vip
ImplementsAddressLease == Lease!Spec

\* A session that stays silent past the timeout loses its slot unless it is
\* heard from again.
SilentSessionsEvicted ==
    \A c \in Conns : (InTable(c) /\ age[c] > Timeout)
                        ~> (~InTable(c) \/ age[c] <= Timeout)

\* The handler of a lost connection, or of a session that was evicted, ends:
\* eviction wakes a handler that is suspended in read_frame on a dead peer.
DeadHandlersEnd ==
    \A c \in Conns : (net[c] = "lost" \/ (pc[c] \in Serving /\ ~InTable(c)))
                        ~> pc[c] = "none"

\* A stop that has begun comes to its end.
StopCompletes == phase = "stopping" ~> phase = "stopped"

AllEnded == \A c \in Conns : pc[c] = "none"

\* What is due can happen: with it weak fairness of these actions is what
\* ConnFairness and ServerFairness say in words.
ConnDue(c) ==
    /\ pc[c] # "none" /\ (pc[c] = "closing" \/ net[c] = "lost" \/ phase = "exiting")
          => ENABLED <<Resumed(c)>>_vars
    /\ net[c] = "closing" => ENABLED <<ShutdownEnds(c)>>_vars

ServerDue ==
    /\ phase = "running" /\ Expired # {} => ENABLED <<TimeoutScan>>_vars
    /\ phase = "stopping" /\ ~WaitsForConnections => ENABLED <<ServerStep>>_vars
    /\ phase = "cleanup" => ENABLED <<ServerStep>>_vars
    /\ phase = "exiting" /\ AllEnded => ENABLED <<ServerStep>>_vars
    /\ phase = "exiting" /\ ~AllEnded => ENABLED <<GatherStep>>_vars

Due == ServerDue /\ \A c \in Conns : ConnDue(c)

\* The loops of a stop are finite. cleanup() only takes from toClose, and a handler
\* that is cancelled takes two steps: with a finite set of connections this holds of
\* every behaviour of Spec.
LoopsRest == UNCHANGED toClose /\ (phase = "exiting" => UNCHANGED pc)
LoopsEnd == <>[][LoopsRest]_vars
=============================================================================
