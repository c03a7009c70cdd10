----------------------- MODULE ServerSessions_proofs ------------------------
(***************************************************************************)
(* The two session tables agree, no session outlives its handler and both  *)
(* are lease tables, for any number of connections, ids and slots. The     *)
(* inductive invariant is the conjunction of the type invariant and the    *)
(* two table properties: each needs the other, because a handler may drop  *)
(* its session only if no table still names it. Under the fairness of      *)
(* FairSpec a stop completes, a handler whose connection is dead ends, and *)
(* a session that stays silent is evicted.                                 *)
(***************************************************************************)
EXTENDS ServerSessions, FiniteSetTheorems, TLAPS

IInv == TypeOK /\ TablesAgree /\ NoLeakedSession

\* What every step does to the tables: it leaves them alone, drops the entries
\* of some connections, or adds one session under a free id and address.
Drops(C) == /\ sessions_by_id' = RemoveFromIds(C)
            /\ sessions_by_vip' = RemoveFromVips(C)

USE ConnsAssumption, LimitsAssumption, NoSessionAssumption

-----------------------------------------------------------------------------
\* A connection whose handler is outside the control loop is in neither table.
LEMMA NotServingNotInTables ==
  ASSUME IInv, NEW c \in Conns, pc[c] \notin Serving
  PROVE  /\ \A i \in Ids : sessions_by_id[i] # c
         /\ \A a \in ClientPool : sessions_by_vip[a] # c
<1>1. \A i \in Ids : sessions_by_id[i] # c
  BY DEF IInv, NoLeakedSession, Members
<1>2. ASSUME NEW a \in ClientPool, sessions_by_vip[a] = c  PROVE FALSE
  <2>1. sess[c] # NoSession /\ sessions_by_id[sess[c].id] = c
    BY <1>2 DEF IInv, TablesAgree
  <2>2. sess[c].id \in Ids
    BY <2>1 DEF IInv, TypeOK
  <2>3. QED BY <1>1, <2>1, <2>2
<1>3. QED BY <1>1, <1>2

\* So is a connection without a session.
LEMMA NoSessionNotInTables ==
  ASSUME IInv, NEW c \in Conns, sess[c] = NoSession
  PROVE  /\ \A i \in Ids : sessions_by_id[i] # c
         /\ \A a \in ClientPool : sessions_by_vip[a] # c
BY DEF IInv, TypeOK, TablesAgree

\* The finally clause drops the entries of its own connection, whether or not
\* the handler got as far as creating a session.
LEMMA FinallyDrops ==
  ASSUME IInv, NEW c \in Conns, Finally(c)
  PROVE  Drops({c})
<1>1. CASE sess[c] = NoSession
  <2>1. RemoveFromIds({c}) = sessions_by_id
    BY <1>1, NoSessionNotInTables DEF RemoveFromIds, IInv, TypeOK
  <2>2. RemoveFromVips({c}) = sessions_by_vip
    BY <1>1, NoSessionNotInTables DEF RemoveFromVips, IInv, TypeOK
  <2>3. QED BY <1>1, <2>1, <2>2 DEF Finally, Drops
<1>2. CASE sess[c] # NoSession
  BY <1>2 DEF Finally, Drops
<1>3. QED BY <1>1, <1>2

\* Dropping every entry of some connections keeps the tables in agreement,
\* adds no member and leaves none of those connections in them.
LEMMA DropsKeepsTables ==
  ASSUME IInv, NEW C \in SUBSET Conns, Drops(C), sess' = sess
  PROVE  /\ sessions_by_id' \in [Ids -> Conns \union {NoConn}]
         /\ sessions_by_vip' \in [ClientPool -> Conns \union {NoConn}]
         /\ TablesAgree'
         /\ Members' = Members \ C
<1>1. /\ \A i \in Ids : sessions_by_id'[i]
              = IF sessions_by_id[i] \in C THEN NoConn ELSE sessions_by_id[i]
      /\ \A a \in ClientPool : sessions_by_vip'[a]
              = IF sessions_by_vip[a] \in C THEN NoConn ELSE sessions_by_vip[a]
  BY DEF Drops, RemoveFromIds, RemoveFromVips
<1>2. /\ sessions_by_id' \in [Ids -> Conns \union {NoConn}]
      /\ sessions_by_vip' \in [ClientPool -> Conns \union {NoConn}]
  BY DEF Drops, RemoveFromIds, RemoveFromVips, IInv, TypeOK
<1>3. Members' = Members \ C
  BY <1>1 DEF Members
<1>4. TablesAgree'
  <2>1. ASSUME NEW i \in Ids, sessions_by_id'[i] # NoConn
        PROVE  LET c == sessions_by_id'[i]
               IN  /\ sess'[c] # NoSession /\ sess'[c].id = i
                   /\ sessions_by_vip'[sess'[c].vip] = c
    <3> DEFINE c == sessions_by_id[i]
    <3>1. c # NoConn /\ c \notin C /\ sessions_by_id'[i] = c /\ c \in Conns
      BY <1>1, <2>1 DEF IInv, TypeOK
    <3>2. sess[c] # NoSession /\ sess[c].id = i /\ sessions_by_vip[sess[c].vip] = c
      BY <3>1 DEF IInv, TablesAgree
    <3>3. sess[c].vip \in ClientPool
      BY <3>1, <3>2 DEF IInv, TypeOK
    <3>4. QED BY <1>1, <3>1, <3>2, <3>3
  <2>2. ASSUME NEW a \in ClientPool, sessions_by_vip'[a] # NoConn
        PROVE  LET c == sessions_by_vip'[a]
               IN  /\ sess'[c] # NoSession /\ sess'[c].vip = a
                   /\ sessions_by_id'[sess'[c].id] = c
    <3> DEFINE c == sessions_by_vip[a]
    <3>1. c # NoConn /\ c \notin C /\ sessions_by_vip'[a] = c /\ c \in Conns
      BY <1>1, <2>2 DEF IInv, TypeOK
    <3>2. sess[c] # NoSession /\ sess[c].vip = a /\ sessions_by_id[sess[c].id] = c
      BY <3>1 DEF IInv, TablesAgree
    <3>3. sess[c].id \in Ids
      BY <3>1, <3>2 DEF IInv, TypeOK
    <3>4. QED BY <1>1, <3>1, <3>2, <3>3
  <2>3. QED BY <2>1, <2>2 DEF TablesAgree
<1>5. QED BY <1>2, <1>3, <1>4

-----------------------------------------------------------------------------
\* Steps that leave the tables and the sessions alone and start or stop no
\* handler keep the table properties.
LEMMA QuietStep ==
  ASSUME IInv, TypeOK', UNCHANGED <<sess, tables>>,
         \A c \in Conns : pc[c] \in Serving => pc'[c] \in Serving
  PROVE  IInv'
<1>1. TablesAgree'
  BY DEF IInv, TablesAgree, tables
<1>2. NoLeakedSession'
  BY DEF IInv, NoLeakedSession, Members, tables
<1>3. QED BY <1>1, <1>2 DEF IInv

\* The finally clause, from whichever state it is entered.
LEMMA FinallyStep ==
  ASSUME IInv, NEW c \in Conns, Finally(c), UNCHANGED <<sess, phase, toClose>>
  PROVE  IInv'
<1>1. Drops({c})  BY FinallyDrops
<1>2. /\ sessions_by_id' \in [Ids -> Conns \union {NoConn}]
      /\ sessions_by_vip' \in [ClientPool -> Conns \union {NoConn}]
      /\ TablesAgree'
      /\ Members' = Members \ {c}
  BY <1>1, DropsKeepsTables
<1>3. TypeOK'
  <2>1. Closed(net[c]) \in {"open", "closing", "lost"}
    BY DEF Closed, IInv, TypeOK
  <2>2. /\ pc' \in [Conns -> {"none", "hello", "refuse", "closing"} \union Serving]
        /\ net' \in [Conns -> {"open", "closing", "lost"}]
        /\ age' \in [Conns -> 0..(Timeout + 1)]
    BY <2>1 DEF Finally, IInv, TypeOK
  <2>3. \A d \in Conns : pc'[d] \in Serving => sess'[d] # NoSession
    BY DEF Finally, IInv, TypeOK, Serving
  <2>4. QED BY <1>2, <2>2, <2>3 DEF IInv, TypeOK
<1>4. NoLeakedSession'
  BY <1>2 DEF Finally, IInv, TypeOK, NoLeakedSession, Members
<1>5. QED BY <1>2, <1>3, <1>4 DEF IInv

\* Admitting a client under a free id and a free address.
LEMMA AdmitStep ==
  ASSUME IInv, NEW c \in Conns, NEW f, Admit(c, f)
  PROVE  IInv'
<1>1. PICK i \in FreeIds, a \in ClientPool :
        /\ IsFirstFree(a)
        /\ sess' = [sess EXCEPT ![c] = [id |-> i, vip |-> a]]
        /\ sessions_by_id' = [sessions_by_id EXCEPT ![i] = c]
        /\ sessions_by_vip' = [sessions_by_vip EXCEPT ![a] = c]
  BY DEF Admit
<1>2. /\ i \in Ids /\ sessions_by_id[i] = NoConn /\ sessions_by_vip[a] = NoConn
      /\ pc[c] = "hello" /\ pc' = [pc EXCEPT ![c] = "accept"]
  BY <1>1 DEF FreeIds, IsFirstFree, FreeVips, Admit
<1>3. /\ \A j \in Ids : sessions_by_id[j] # c
      /\ \A b \in ClientPool : sessions_by_vip[b] # c
  BY <1>2, NotServingNotInTables DEF Serving
<1>4. /\ sess'[c] = [id |-> i, vip |-> a] /\ sess'[c] # NoSession
      /\ sess'[c].id = i /\ sess'[c].vip = a
      /\ \A d \in Conns \ {c} : sess'[d] = sess[d]
  BY <1>1, <1>2 DEF IInv, TypeOK, ClientPool
<1>5. TypeOK'
  BY <1>1, <1>2, <1>4 DEF Admit, IInv, TypeOK, Serving
<1>6. TablesAgree'
  <2>1. ASSUME NEW j \in Ids, sessions_by_id'[j] # NoConn
        PROVE  LET d == sessions_by_id'[j]
               IN  /\ sess'[d] # NoSession /\ sess'[d].id = j
                   /\ sessions_by_vip'[sess'[d].vip] = d
    <3>1. CASE j = i
      BY <1>1, <1>2, <1>4, <3>1 DEF IInv, TypeOK
    <3>2. CASE j # i
      <4> DEFINE d == sessions_by_id[j]
      <4>1. sessions_by_id'[j] = d /\ d # NoConn /\ d \in Conns \ {c}
        BY <1>1, <1>2, <1>3, <2>1, <3>2 DEF IInv, TypeOK
      <4>2. sess[d] # NoSession /\ sess[d].id = j /\ sessions_by_vip[sess[d].vip] = d
        BY <4>1 DEF IInv, TablesAgree
      <4>3. sess[d].vip \in ClientPool /\ sess[d].vip # a
        BY <1>2, <4>1, <4>2 DEF IInv, TypeOK
      <4>4. QED BY <1>1, <1>4, <4>1, <4>2, <4>3 DEF IInv, TypeOK
    <3>3. QED BY <3>1, <3>2
  <2>2. ASSUME NEW b \in ClientPool, sessions_by_vip'[b] # NoConn
        PROVE  LET d == sessions_by_vip'[b]
               IN  /\ sess'[d] # NoSession /\ sess'[d].vip = b
                   /\ sessions_by_id'[sess'[d].id] = d
    <3>1. CASE b = a
      BY <1>1, <1>2, <1>4, <3>1 DEF IInv, TypeOK
    <3>2. CASE b # a
      <4> DEFINE d == sessions_by_vip[b]
      <4>1. sessions_by_vip'[b] = d /\ d # NoConn /\ d \in Conns \ {c}
        BY <1>1, <1>2, <1>3, <2>2, <3>2 DEF IInv, TypeOK
      <4>2. sess[d] # NoSession /\ sess[d].vip = b /\ sessions_by_id[sess[d].id] = d
        BY <4>1 DEF IInv, TablesAgree
      <4>3. sess[d].id \in Ids /\ sess[d].id # i
        BY <1>2, <4>1, <4>2 DEF IInv, TypeOK
      <4>4. QED BY <1>1, <1>4, <4>1, <4>2, <4>3 DEF IInv, TypeOK
    <3>3. QED BY <3>1, <3>2
  <2>3. QED BY <2>1, <2>2 DEF TablesAgree
<1>7. NoLeakedSession'
  <2>1. Members' \subseteq Members \union {c}
    BY <1>1, <1>2 DEF Members, IInv, TypeOK
  <2>2. QED BY <1>2, <2>1 DEF IInv, TypeOK, NoLeakedSession, Serving
<1>8. QED BY <1>5, <1>6, <1>7 DEF IInv

\* A handler that has ended, or has yet to start, is in no table, so its local
\* variable may be forgotten.
LEMMA ForgetStep ==
  ASSUME IInv, NEW c \in Conns, pc[c] \in {"none", "closing"}, TypeOK',
         UNCHANGED tables, sess' = [sess EXCEPT ![c] = NoSession],
         \A d \in Conns \ {c} : pc'[d] = pc[d]
  PROVE  IInv'
<1>1. /\ \A i \in Ids : sessions_by_id[i] # c
      /\ \A a \in ClientPool : sessions_by_vip[a] # c
  BY NotServingNotInTables DEF Serving
<1>2. \A d \in Conns \ {c} : sess'[d] = sess[d]
  BY DEF IInv, TypeOK
<1>3. TablesAgree'
  <2>1. ASSUME NEW i \in Ids, sessions_by_id[i] # NoConn
        PROVE  sess'[sessions_by_id[i]] = sess[sessions_by_id[i]]
    BY <1>1, <1>2, <2>1 DEF IInv, TypeOK
  <2>2. ASSUME NEW a \in ClientPool, sessions_by_vip[a] # NoConn
        PROVE  sess'[sessions_by_vip[a]] = sess[sessions_by_vip[a]]
    BY <1>1, <1>2, <2>2 DEF IInv, TypeOK
  <2>3. QED BY <2>1, <2>2 DEF IInv, TablesAgree, tables
<1>4. NoLeakedSession'
  BY <1>1 DEF IInv, NoLeakedSession, Members, tables
<1>5. QED BY <1>3, <1>4 DEF IInv

-----------------------------------------------------------------------------
\* One case per action.
LEMMA IInvInductive == IInv /\ [Next]_vars => IInv'
<1> SUFFICES ASSUME IInv, [Next]_vars PROVE IInv'
  OBVIOUS
<1>1. ASSUME NEW c \in Conns, HandlerStep(c)  PROVE IInv'
  <2>1. ASSUME NEW f \in Frames, Admit(c, f)  PROVE IInv'
    BY <2>1, AdmitStep
  <2>2. ASSUME NEW f \in Frames, RefuseHello(c, f)  PROVE IInv'
    <3>1. TypeOK'  BY <2>2 DEF RefuseHello, IInv, TypeOK, Serving, tables
    <3>2. QED BY <2>2, <3>1, QuietStep DEF RefuseHello, IInv, TypeOK, Serving
  <2>3. ASSUME NEW f \in Frames, ReadHeartbeat(c, f)  PROVE IInv'
    <3>1. TypeOK'  BY <2>3 DEF ReadHeartbeat, IInv, TypeOK, Serving, tables
    <3>2. QED BY <2>3, <3>1, QuietStep DEF ReadHeartbeat, IInv, TypeOK, Serving
  <2>4. ASSUME NEW f \in Frames, ReadLast(c, f)  PROVE IInv'
    <3>1. TypeOK'  BY <2>4 DEF ReadLast, IInv, TypeOK, Serving, tables
    <3>2. QED BY <2>4, <3>1, QuietStep DEF ReadLast, IInv, TypeOK, Serving
  <2>5. ASSUME NEW f \in Frames, ReadGarbage(c, f)  PROVE IInv'
    BY <2>5, FinallyStep DEF ReadGarbage
  <2>6. CASE ReadFails(c)
    BY <2>6, FinallyStep DEF ReadFails
  <2>7. CASE LoopOn(c)
    <3>1. TypeOK'  BY <2>7 DEF LoopOn, IInv, TypeOK, Serving, tables
    <3>2. QED BY <2>7, <3>1, QuietStep DEF LoopOn, IInv, TypeOK, Serving
  <2>8. CASE Leave(c)
    BY <2>8, FinallyStep DEF Leave
  <2>9. CASE HandlerEnds(c)
    <3>1. TypeOK'  BY <2>9 DEF HandlerEnds, IInv, TypeOK, Serving, tables
    <3>2. QED BY <2>9, <3>1, ForgetStep DEF HandlerEnds, IInv, TypeOK
  <2>10. CASE Cancelled(c)
    BY <2>10, FinallyStep DEF Cancelled
  <2>11. QED
    BY <1>1, <2>1, <2>2, <2>3, <2>4, <2>5, <2>6, <2>7, <2>8, <2>9, <2>10
       DEF HandlerStep
<1>2. ASSUME NEW c \in Conns, Environment(c)  PROVE IInv'
  <2>1. CASE Connect(c)
    <3>1. TypeOK'  BY <2>1 DEF Connect, IInv, TypeOK, Serving, tables
    <3>2. QED BY <2>1, <3>1, ForgetStep DEF Connect, IInv, TypeOK
  <2>2. CASE ConnectionLost(c)
    <3>1. TypeOK'  BY <2>2 DEF ConnectionLost, IInv, TypeOK, tables
    <3>2. QED BY <2>2, <3>1, QuietStep DEF ConnectionLost
  <2>3. CASE UdpRefresh(c)
    <3>1. TypeOK'  BY <2>3 DEF UdpRefresh, IInv, TypeOK, tables
    <3>2. QED BY <2>3, <3>1, QuietStep DEF UdpRefresh
  <2>4. QED BY <1>2, <2>1, <2>2, <2>3 DEF Environment
<1>3. CASE Tick
  <2>1. TypeOK'
    BY <1>3 DEF Tick, IInv, TypeOK, tables
  <2>2. QED BY <1>3, <2>1, QuietStep DEF Tick
<1>4. CASE TimeoutScan
  <2>1. Expired \in SUBSET Conns /\ Drops(Expired) /\ sess' = sess /\ pc' = pc
    BY <1>4 DEF TimeoutScan, Expired, Members, Drops
  <2>2. /\ sessions_by_id' \in [Ids -> Conns \union {NoConn}]
        /\ sessions_by_vip' \in [ClientPool -> Conns \union {NoConn}]
        /\ TablesAgree'
        /\ Members' = Members \ Expired
    BY <2>1, DropsKeepsTables
  <2>3. TypeOK'
    BY <1>4, <2>2 DEF TimeoutScan, CloseAll, Closed, IInv, TypeOK
  <2>4. NoLeakedSession'
    BY <2>1, <2>2 DEF IInv, NoLeakedSession
  <2>5. QED BY <2>2, <2>3, <2>4 DEF IInv
<1>5. CASE StopBegins
  <2>1. TypeOK'  BY <1>5 DEF StopBegins, IInv, TypeOK, Phases, tables
  <2>2. QED BY <1>5, <2>1, QuietStep DEF StopBegins
<1>6. CASE ServerStep
  <2>1. CASE ListenerClosed
    <3>1. TypeOK'
      BY <2>1 DEF ListenerClosed, IInv, TypeOK, Phases, Members
    <3>2. TablesAgree' /\ NoLeakedSession'
      BY <2>1 DEF ListenerClosed, TablesAgree, NoLeakedSession, Members
    <3>3. QED BY <3>1, <3>2 DEF IInv
  <2>2. CASE CleanupEnds
    <3>1. TypeOK'  BY <2>2 DEF CleanupEnds, IInv, TypeOK, Phases, tables
    <3>2. QED BY <2>2, <3>1, QuietStep DEF CleanupEnds
  <2>3. CASE ProcessExits
    <3>1. TypeOK'  BY <2>3 DEF ProcessExits, IInv, TypeOK, Phases, tables
    <3>2. QED BY <2>3, <3>1, QuietStep DEF ProcessExits
  <2>4. ASSUME NEW c \in Conns, CleanupCloses(c)  PROVE IInv'
    <3>1. TypeOK'
      BY <2>4 DEF CleanupCloses, Closed, IInv, TypeOK, tables
    <3>2. QED BY <2>4, <3>1, QuietStep DEF CleanupCloses
  <2>5. QED BY <1>6, <2>1, <2>2, <2>3, <2>4 DEF ServerStep
<1>7. CASE UNCHANGED vars
  BY <1>7 DEF vars, tables, IInv, TypeOK, TablesAgree, NoLeakedSession, Members
<1>8. QED
  BY <1>1, <1>2, <1>3, <1>4, <1>5, <1>6, <1>7 DEF Next, Stopped

\* The inductive invariant holds in every reachable state.
LEMMA IInvAlways == Spec => []IInv
<1>1. Init => IInv
  BY DEF Init, IInv, TypeOK, TablesAgree, NoLeakedSession, Members, Serving,
         Phases
<1>2. QED BY <1>1, IInvInductive, PTL DEF Spec

\* The tables always describe the same sessions: what the "is session" guards
\* of _remove_session are for.
THEOREM TablesAgreeAlways == Spec => [](TypeOK /\ TablesAgree)
<1>1. IInv => TypeOK /\ TablesAgree  BY DEF IInv
<1>2. QED BY <1>1, IInvAlways, PTL

\* Every session in the table has a handler that has not run its finally
\* clause yet, so no slot of the server is lost for good.
THEOREM NoLeakedSessionAlways == Spec => []NoLeakedSession
<1>1. IInv => NoLeakedSession  BY DEF IInv
<1>2. QED BY <1>1, IInvAlways, PTL

-----------------------------------------------------------------------------
\* Full address table means full id table: the holders of the addresses carry
\* pairwise different ids.
LEMMA AddressAvailableFromIInv == IInv => AddressAvailable
<1> SUFFICES ASSUME IInv, FreeVips = {}  PROVE IsFull
  BY DEF AddressAvailable
<1> DEFINE used == {i \in Ids : sessions_by_id[i] # NoConn}
           idOf == [a \in ClientPool |-> sess[sessions_by_vip[a]].id]
<1>1. ASSUME NEW a \in ClientPool
      PROVE  LET c == sessions_by_vip[a]
             IN  /\ c # NoConn /\ c \in Conns
                 /\ idOf[a] \in used
                 /\ sessions_by_id[idOf[a]] = c
                 /\ sess[c].vip = a
  <2> DEFINE c == sessions_by_vip[a]
  <2>1. c # NoConn /\ c \in Conns
    BY DEF FreeVips, IInv, TypeOK
  <2>2. sess[c] # NoSession /\ sess[c].vip = a /\ sessions_by_id[sess[c].id] = c
    BY <2>1 DEF IInv, TablesAgree
  <2>3. sess[c].id \in Ids
    BY <2>1, <2>2 DEF IInv, TypeOK
  <2>4. QED BY <2>1, <2>2, <2>3
<1>2. idOf \in [ClientPool -> used]
  BY <1>1
<1>3. \A a, b \in ClientPool : idOf[a] = idOf[b] => a = b
  <2>1. ASSUME NEW a \in ClientPool, NEW b \in ClientPool, idOf[a] = idOf[b]
        PROVE  a = b
    <3>1. sess[sessions_by_vip[a]].vip = a /\ sess[sessions_by_vip[b]].vip = b
      BY <1>1
    <3>2. sessions_by_vip[a] = sessions_by_vip[b]
      BY <1>1, <2>1
    <3>3. QED BY <3>1, <3>2
  <2>2. QED BY <2>1
<1>4. IsFiniteSet(ClientPool) /\ Cardinality(ClientPool) = MaxClients
  BY FS_Interval DEF ClientPool
<1>5. IsFiniteSet(used)
  BY IdsAssumption, FS_Subset
<1>6. ~(Cardinality(used) < MaxClients)
  <2> HIDE DEF idOf, used
  <2>1. SUFFICES ASSUME Cardinality(used) < MaxClients PROVE FALSE
    OBVIOUS
  <2>2. \E a, b \in ClientPool : a # b /\ idOf[a] = idOf[b]
    BY <1>2, <1>4, <1>5, <2>1, FS_PigeonHole
  <2>3. QED BY <1>3, <2>2
<1>7. Cardinality(used) \in Nat
  BY <1>5, FS_CardinalityType
<1>8. QED BY <1>6, <1>7 DEF IsFull

\* While the server is below its client limit an address is free: the answer
\* "no client address is available" is never sent.
THEOREM AddressAvailableAlways == Spec => []AddressAvailable
BY IInvAlways, AddressAvailableFromIInv, PTL

-----------------------------------------------------------------------------
\* Only the finally clause, the scan and the shutdown take a session out.
LEMMA EvictionStep ==
  ASSUME IInv, [Next]_vars, NEW i \in Ids, NEW c \in Conns,
         sessions_by_id[i] = c, sessions_by_id'[i] # c
  PROVE  \/ pc[c] # "closing" /\ pc'[c] = "closing"
         \/ age[c] > Timeout
         \/ phase = "stopping" /\ phase' = "cleanup"
<1>0. pc[c] \in Serving /\ c \in Members /\ pc[c] # "closing"
  BY DEF IInv, NoLeakedSession, Members, Serving
<1>1. ASSUME NEW d \in Conns, Finally(d)
      PROVE  d = c /\ pc'[c] = "closing"
  <2>1. Drops({d})
    BY <1>1, FinallyDrops
  <2>2. d = c
    BY <2>1 DEF Drops, RemoveFromIds
  <2>3. QED BY <1>1, <2>2 DEF Finally, IInv, TypeOK
<1>2. ASSUME NEW d \in Conns, HandlerStep(d)
      PROVE  pc'[c] = "closing"
  <2>1. ASSUME NEW f \in Frames, Admit(d, f)  PROVE FALSE
    <3>1. PICK j \in FreeIds : sessions_by_id' = [sessions_by_id EXCEPT ![j] = d]
      BY <2>1 DEF Admit
    <3>2. QED BY <3>1 DEF FreeIds, IInv, TypeOK
  <2>2. ASSUME UNCHANGED tables  PROVE FALSE
    BY <2>2 DEF tables
  <2>3. QED
    BY <1>1, <1>2, <2>1, <2>2
       DEF HandlerStep, RefuseHello, ReadHeartbeat, ReadLast, ReadGarbage,
           ReadFails, LoopOn, Leave, HandlerEnds, Cancelled
<1>3. CASE TimeoutScan
  BY <1>3 DEF TimeoutScan, RemoveFromIds, Expired
<1>4. CASE ServerStep
  BY <1>4 DEF ServerStep, ListenerClosed, CleanupEnds, ProcessExits,
              CleanupCloses, tables
<1>5. ASSUME UNCHANGED tables  PROVE FALSE
  BY <1>5 DEF tables
<1>6. QED
  BY <1>0, <1>2, <1>3, <1>4, <1>5
     DEF Next, Environment, Connect, ConnectionLost, UdpRefresh, Tick,
         StopBegins, Stopped, vars, tables

\* A client is never dropped because another client's handler ended, however
\* ids and addresses were handed on in between.
THEOREM EvictsOnlyItselfAlways == Spec => EvictsOnlyItself
<1> DEFINE Step == \A i \in Ids :
          LET c == sessions_by_id[i]
          IN  (c # NoConn /\ sessions_by_id'[i] # c)
                 => \/ pc[c] # "closing" /\ pc'[c] = "closing"
                    \/ age[c] > Timeout
                    \/ phase = "stopping" /\ phase' = "cleanup"
<1>1. IInv /\ [Next]_vars => [Step]_vars
  BY EvictionStep DEF IInv, TypeOK
<1>2. QED BY <1>1, IInvAlways, PTL DEF Spec, EvictsOnlyItself

-----------------------------------------------------------------------------
\* The id table, too, as a lease table.
IdLease == INSTANCE AddressLease WITH Clients <- Conns, Addresses <- Ids,
                                      Free <- NoConn, holder <- sessions_by_id

\* Every step of the server grants one address and one id, releases some or none.
LEMMA LeaseStep ==
  ASSUME IInv, [Next]_vars
  PROVE  [Lease!Next]_sessions_by_vip /\ [IdLease!Next]_sessions_by_id
<1> DEFINE Leased == Lease!Next /\ IdLease!Next
<1>1. ASSUME NEW C \in SUBSET Conns, Drops(C)  PROVE Leased
  <2> DEFINE A == {a \in ClientPool : sessions_by_vip[a] \in C}
             I == {i \in Ids : sessions_by_id[i] \in C}
  <2>1. Lease!Release(A)
    BY <1>1 DEF Drops, RemoveFromVips, Lease!Release
  <2>2. IdLease!Release(I)
    BY <1>1 DEF Drops, RemoveFromIds, IdLease!Release
  <2>3. QED BY <2>1, <2>2 DEF Lease!Next, IdLease!Next
<1>2. ASSUME NEW c \in Conns, NEW f, Admit(c, f)  PROVE Leased
  <2>1. PICK i \in FreeIds, a \in ClientPool :
          /\ IsFirstFree(a)
          /\ sessions_by_id' = [sessions_by_id EXCEPT ![i] = c]
          /\ sessions_by_vip' = [sessions_by_vip EXCEPT ![a] = c]
    BY <1>2 DEF Admit
  <2>2. /\ \A b \in ClientPool : sessions_by_vip[b] # c
        /\ \A b \in Ids : sessions_by_id[b] # c
    BY <1>2, NotServingNotInTables DEF Admit, Serving
  <2>3. Lease!Grant(c, a)
    BY <2>1, <2>2 DEF IsFirstFree, FreeVips, Lease!Grant
  <2>4. i \in Ids /\ IdLease!Grant(c, i)
    BY <2>1, <2>2 DEF FreeIds, IdLease!Grant
  <2>5. QED BY <2>3, <2>4 DEF Lease!Next, IdLease!Next
<1>3. ASSUME NEW c \in Conns, Finally(c)  PROVE Leased
  BY <1>1, <1>3, FinallyDrops
<1>4. CASE TimeoutScan
  <2>1. Expired \in SUBSET Conns /\ Drops(Expired)
    BY <1>4 DEF TimeoutScan, Expired, Members, Drops
  <2>2. QED BY <1>1, <2>1
<1>5. CASE ListenerClosed
  <2>1. Lease!Release(ClientPool) /\ IdLease!Release(Ids)
    BY <1>5 DEF ListenerClosed, Lease!Release, IdLease!Release
  <2>2. QED BY <2>1 DEF Lease!Next, IdLease!Next
<1>6. ASSUME NEW c \in Conns, HandlerStep(c)
      PROVE  Leased \/ UNCHANGED tables
  BY <1>2, <1>3, <1>6
     DEF HandlerStep, RefuseHello, ReadHeartbeat, ReadLast, ReadGarbage,
         ReadFails, LoopOn, Leave, HandlerEnds, Cancelled
<1>7. ASSUME NEW c \in Conns, Environment(c)  PROVE UNCHANGED tables
  BY <1>7 DEF Environment, Connect, ConnectionLost, UdpRefresh
<1>8. CASE ServerStep
  <2>1. ASSUME NEW c \in Conns, CleanupCloses(c)  PROVE UNCHANGED tables
    BY <2>1 DEF CleanupCloses
  <2>2. CASE CleanupEnds \/ ProcessExits
    BY <2>2 DEF CleanupEnds, ProcessExits, tables
  <2>3. QED BY <1>5, <1>8, <2>1, <2>2 DEF ServerStep, tables
<1>9. CASE Tick \/ StopBegins \/ Stopped \/ UNCHANGED vars
  BY <1>9 DEF Tick, StopBegins, Stopped, vars, tables
<1>10. QED
  BY <1>4, <1>6, <1>7, <1>8, <1>9 DEF Next, tables

\* The server's address table is a lease table: one holder per address, one
\* address per client, a release before every change of holder.
THEOREM LeaseRefinement == Spec => ImplementsAddressLease
<1>1. Init => Lease!Init
  BY DEF Init, Lease!Init
<1>2. IInv /\ [Next]_vars => [Lease!Next]_sessions_by_vip
  BY LeaseStep
<1>3. QED
  BY <1>1, <1>2, IInvAlways, PTL DEF Spec, ImplementsAddressLease, Lease!Spec

\* So is its id table: a datagram's id finds no session but the one it was given to.
THEOREM IdLeaseRefinement == Spec => IdLease!Spec
<1>1. Init => IdLease!Init
  BY DEF Init, IdLease!Init
<1>2. IInv /\ [Next]_vars => [IdLease!Next]_sessions_by_id
  BY LeaseStep
<1>3. QED
  BY <1>1, <1>2, IInvAlways, PTL DEF Spec, IdLease!Spec

-----------------------------------------------------------------------------
\* Liveness under the fairness of FairSpec. The provers do not know what ENABLED
\* means, so that "Due", which says that what is due can happen, is a hypothesis.

\* A handler that serves a session that is in no table any more: its writer was
\* closed by whoever dropped the session, or cleanup() is about to close it.
Orphan(c) == pc[c] \in Serving /\ ~InTable(c)
EvictedInv == \A c \in Conns :
    Orphan(c) => net[c] # "open" \/ (phase = "cleanup" /\ c \in toClose)

StoppedInv == phase = "stopped" => \A c \in Conns : pc[c] = "none"

LInv == IInv /\ EvictedInv /\ StoppedInv

\* A step that keeps the members, moves no handler into the control loop and
\* opens no transport.
LEMMA NoNewOrphans ==
  ASSUME IInv, EvictedInv, Members' = Members, UNCHANGED <<phase, toClose>>,
         \A c \in Conns : /\ pc'[c] \in Serving => pc[c] \in Serving
                          /\ net'[c] = "open" => net[c] = "open" \/ pc'[c] \notin Serving
  PROVE  EvictedInv'
BY DEF EvictedInv, Orphan, InTable

\* The finally clause takes its own session out and no other.
LEMMA FinallyKeeps ==
  ASSUME IInv, EvictedInv, NEW c \in Conns, Finally(c),
         UNCHANGED <<sess, phase, toClose>>
  PROVE  EvictedInv'
<1>1. Members' = Members \ {c}
  BY FinallyDrops, DropsKeepsTables
<1>2. ASSUME NEW d \in Conns, d # c  PROVE pc'[d] = pc[d] /\ net'[d] = net[d]
  BY <1>2 DEF Finally, IInv, TypeOK
<1>3. pc'[c] = "closing"
  BY DEF Finally, IInv, TypeOK
<1>4. QED BY <1>1, <1>2, <1>3 DEF EvictedInv, Orphan, InTable, Serving

LEMMA EvictedStep == IInv /\ EvictedInv /\ [Next]_vars => EvictedInv'
<1> SUFFICES ASSUME IInv, EvictedInv, [Next]_vars PROVE EvictedInv'
  OBVIOUS
<1>0. ASSUME UNCHANGED tables  PROVE Members' = Members
  BY <1>0 DEF Members, tables
<1>1. ASSUME NEW c \in Conns, HandlerStep(c)  PROVE EvictedInv'
  <2>1. ASSUME NEW f \in Frames, Admit(c, f)  PROVE EvictedInv'
    <3>1. PICK i \in FreeIds : sessions_by_id' = [sessions_by_id EXCEPT ![i] = c]
      BY <2>1 DEF Admit
    <3>2. i \in Ids /\ sessions_by_id[i] = NoConn
      BY <3>1 DEF FreeIds
    <3>3. Members' = Members \union {c}
      BY <3>1, <3>2 DEF Members, IInv, TypeOK
    <3>4. \A d \in Conns : d # c => pc'[d] = pc[d]
      BY <2>1 DEF Admit, IInv, TypeOK
    <3>5. UNCHANGED <<net, phase, toClose>>
      BY <2>1 DEF Admit
    <3>6. QED BY <3>3, <3>4, <3>5 DEF EvictedInv, Orphan, InTable
  <2>2. ASSUME NEW f \in Frames,
               RefuseHello(c, f) \/ ReadHeartbeat(c, f) \/ ReadLast(c, f)
        PROVE  EvictedInv'
    BY <1>0, <2>2, NoNewOrphans
       DEF RefuseHello, ReadHeartbeat, ReadLast, IInv, TypeOK, Serving
  <2>3. CASE LoopOn(c) \/ HandlerEnds(c)
    BY <1>0, <2>3, NoNewOrphans DEF LoopOn, HandlerEnds, IInv, TypeOK, Serving
  <2>4. ASSUME Finally(c), UNCHANGED <<sess, phase, toClose>>  PROVE EvictedInv'
    BY <2>4, FinallyKeeps
  <2>5. QED
    BY <1>1, <2>1, <2>2, <2>3, <2>4
       DEF HandlerStep, ReadGarbage, ReadFails, Leave, Cancelled
<1>2. ASSUME NEW c \in Conns, Environment(c)  PROVE EvictedInv'
  BY <1>0, <1>2, NoNewOrphans
     DEF Environment, Connect, ConnectionLost, UdpRefresh, IInv, TypeOK, Serving
<1>3. CASE Tick
  BY <1>0, <1>3, NoNewOrphans DEF Tick
<1>4. CASE TimeoutScan
  <2>1. Expired \in SUBSET Conns /\ Drops(Expired) /\ sess' = sess /\ pc' = pc
    BY <1>4 DEF TimeoutScan, Expired, Members, Drops
  <2>2. Members' = Members \ Expired
    BY <2>1, DropsKeepsTables
  <2>3. \A c \in Conns : /\ c \in Expired => net'[c] # "open"
                         /\ c \notin Expired => net'[c] = net[c]
    BY <1>4 DEF TimeoutScan, CloseAll, Closed
  <2>4. QED BY <1>4, <2>1, <2>2, <2>3 DEF TimeoutScan, EvictedInv, Orphan, InTable
<1>5. CASE ServerStep
  <2>1. CASE ListenerClosed
    BY <2>1 DEF ListenerClosed, EvictedInv, Orphan, InTable
  <2>2. CASE CleanupEnds \/ ProcessExits
    BY <1>0, <2>2 DEF CleanupEnds, ProcessExits, EvictedInv, Orphan, InTable, tables
  <2>3. ASSUME NEW c \in Conns, CleanupCloses(c)  PROVE EvictedInv'
    <3>1. /\ net'[c] # "open"
          /\ \A d \in Conns : d # c => net'[d] = net[d]
      BY <2>3 DEF CleanupCloses, Closed, IInv, TypeOK
    <3>2. Members' = Members /\ pc' = pc /\ toClose' = toClose \ {c} /\ phase' = phase
      BY <1>0, <2>3 DEF CleanupCloses, tables
    <3>3. QED BY <3>1, <3>2 DEF EvictedInv, Orphan, InTable
  <2>4. QED BY <1>5, <2>1, <2>2, <2>3 DEF ServerStep
<1>6. CASE StopBegins \/ UNCHANGED vars
  BY <1>0, <1>6 DEF StopBegins, EvictedInv, Orphan, InTable, vars, tables
<1>7. QED
  BY <1>1, <1>2, <1>3, <1>4, <1>5, <1>6 DEF Next, Stopped

LEMMA StoppedStep == IInv /\ StoppedInv /\ [Next]_vars => StoppedInv'
<1> SUFFICES ASSUME IInv, StoppedInv, [Next]_vars, phase' = "stopped",
                    NEW c \in Conns
             PROVE  pc'[c] = "none"
  BY DEF StoppedInv
<1>1. CASE phase = "stopped"
  <2>1. \A d \in Conns : pc[d] = "none"
    BY <1>1 DEF StoppedInv
  <2>2. pc' = pc
    BY <1>1, <2>1 DEF Next, HandlerStep, Admit, RefuseHello, ReadHeartbeat, ReadLast,
       ReadGarbage, ReadFails, LoopOn, Leave, HandlerEnds, Cancelled, Environment,
       Connect, ConnectionLost, UdpRefresh, Tick, TimeoutScan, StopBegins, ServerStep,
       ListenerClosed, CleanupEnds, ProcessExits, CleanupCloses, Stopped, vars
  <2>3. QED BY <2>1, <2>2
<1>2. CASE phase # "stopped"
  <2>1. ProcessExits
    BY <1>2 DEF Next, HandlerStep, Admit, RefuseHello, ReadHeartbeat, ReadLast,
       ReadGarbage, ReadFails, LoopOn, Leave, HandlerEnds, Cancelled, Environment,
       Connect, ConnectionLost, UdpRefresh, Tick, TimeoutScan, StopBegins, ServerStep,
       ListenerClosed, CleanupEnds, CleanupCloses, Stopped, vars
  <2>2. QED BY <2>1 DEF ProcessExits
<1>3. QED BY <1>1, <1>2

LEMMA LInvAlways == Spec => []LInv
<1>1. Init => EvictedInv /\ StoppedInv
  BY DEF Init, EvictedInv, Orphan, StoppedInv, Serving
<1>2. LInv <=> IInv /\ EvictedInv /\ StoppedInv
  BY DEF LInv
<1>3. QED BY <1>1, <1>2, IInvAlways, EvictedStep, StoppedStep, PTL DEF Spec

\* How a handler and its transport move on.
LEMMA HandlerMoves ==
  ASSUME IInv, [Next]_vars, NEW c \in Conns
  PROVE  /\ pc[c] = "closing" => pc'[c] \in {"closing", "none"}
         /\ pc[c] \notin {"none", "closing"} => pc'[c] # "none"
         /\ pc[c] \in Serving => pc'[c] \in Serving \union {"closing"}
         /\ pc[c] # "none" /\ net[c] # "open" => net'[c] \in {net[c], "lost"}
         /\ InTable(c)' => InTable(c) \/ pc[c] = "hello"
<1> DEFINE Moves == /\ pc[c] = "closing" => pc'[c] \in {"closing", "none"}
                    /\ pc[c] \notin {"none", "closing"} => pc'[c] # "none"
                    /\ pc[c] \in Serving => pc'[c] \in Serving \union {"closing"}
                    /\ pc[c] # "none" /\ net[c] # "open" => net'[c] \in {net[c], "lost"}
           Keeps == InTable(c)' => InTable(c) \/ pc[c] = "hello"
<1>0. ASSUME UNCHANGED tables  PROVE Keeps
  BY <1>0 DEF InTable, Members, tables
<1>1. ASSUME NEW d \in Conns, HandlerStep(d)  PROVE Moves /\ Keeps
  <2>1. ASSUME NEW f \in Frames, Admit(d, f)  PROVE Moves /\ Keeps
    <3>1. PICK i \in FreeIds : sessions_by_id' = [sessions_by_id EXCEPT ![i] = d]
      BY <2>1 DEF Admit
    <3>2. Members' \subseteq Members \union {d}
      BY <3>1 DEF FreeIds, Members, IInv, TypeOK
    <3>3. Moves
      BY <2>1 DEF Admit, IInv, TypeOK, Serving
    <3>4. QED BY <2>1, <3>2, <3>3 DEF InTable, Admit
  <2>2. ASSUME Finally(d), sess' = sess, pc[d] \notin {"none", "closing"}
        PROVE  Moves /\ Keeps
    <3>1. Members' = Members \ {d}
      BY <2>2, FinallyDrops, DropsKeepsTables
    <3>2. Moves
      BY <2>2 DEF Finally, Closed, IInv, TypeOK, Serving
    <3>3. QED BY <3>1, <3>2 DEF InTable
  <2>3. ASSUME NEW f \in Frames,
               RefuseHello(d, f) \/ ReadHeartbeat(d, f) \/ ReadLast(d, f)
        PROVE  Moves /\ Keeps
    BY <1>0, <2>3 DEF RefuseHello, ReadHeartbeat, ReadLast, IInv, TypeOK, Serving
  <2>4. CASE LoopOn(d) \/ HandlerEnds(d)
    BY <1>0, <2>4 DEF LoopOn, HandlerEnds, IInv, TypeOK, Serving
  <2>5. QED
    BY <1>1, <2>1, <2>2, <2>3, <2>4
       DEF HandlerStep, ReadGarbage, ReadFails, Leave, Cancelled
<1>2. ASSUME NEW d \in Conns, Environment(d)  PROVE Moves /\ Keeps
  BY <1>0, <1>2 DEF Environment, Connect, ConnectionLost, UdpRefresh, IInv, TypeOK,
                    Serving
<1>3. CASE Tick \/ StopBegins \/ UNCHANGED vars
  BY <1>0, <1>3 DEF Tick, StopBegins, vars, tables
<1>4. CASE TimeoutScan
  <2>1. Members' \subseteq Members
    BY <1>4 DEF TimeoutScan, RemoveFromIds, Members
  <2>2. QED BY <1>4, <2>1 DEF TimeoutScan, CloseAll, Closed, InTable, IInv, TypeOK
<1>5. CASE ServerStep
  <2>1. CASE ListenerClosed
    BY <2>1 DEF ListenerClosed, InTable, Members
  <2>2. CASE CleanupEnds \/ ProcessExits
    BY <1>0, <2>2 DEF CleanupEnds, ProcessExits
  <2>3. ASSUME NEW d \in Conns, CleanupCloses(d)  PROVE Moves /\ Keeps
    <3>1. Keeps
      BY <1>0, <2>3 DEF CleanupCloses
    <3>2. net[c] # "open" => net'[c] = net[c]
      BY <2>3 DEF CleanupCloses, Closed, IInv, TypeOK
    <3>3. pc' = pc
      BY <2>3 DEF CleanupCloses
    <3>4. Moves
      BY <3>2, <3>3
    <3>5. QED BY <3>1, <3>4
  <2>4. QED BY <1>5, <2>1, <2>2, <2>3 DEF ServerStep
<1>6. QED
  BY <1>1, <1>2, <1>3, <1>4, <1>5 DEF Next, Stopped

-----------------------------------------------------------------------------
\* The way of a handler to its end.
ToBeClosed(c) == Orphan(c) /\ net[c] = "open"
Evicted(c) == Orphan(c) /\ net[c] = "closing"
Lost(c) == pc[c] \notin {"none", "closing"} /\ net[c] = "lost"
Closing(c) == pc[c] = "closing"
Gone(c) == pc[c] = "none"

LEMMA WayOut ==
  ASSUME NEW c \in Conns
  PROVE  LInv /\ LInv' /\ [Next]_vars =>
         /\ ToBeClosed(c) => \/ ToBeClosed(c)' \/ Evicted(c)' \/ Lost(c)' \/ Closing(c)'
         /\ Evicted(c) => Evicted(c)' \/ Lost(c)' \/ Closing(c)'
         /\ Lost(c) => Lost(c)' \/ Closing(c)'
         /\ Closing(c) => Closing(c)' \/ Gone(c)'
<1> SUFFICES ASSUME LInv, LInv', [Next]_vars
             PROVE  /\ ToBeClosed(c) => \/ ToBeClosed(c)' \/ Evicted(c)' \/ Lost(c)'
                                         \/ Closing(c)'
                    /\ Evicted(c) => Evicted(c)' \/ Lost(c)' \/ Closing(c)'
                    /\ Lost(c) => Lost(c)' \/ Closing(c)'
                    /\ Closing(c) => Closing(c)' \/ Gone(c)'
  OBVIOUS
<1>1. IInv
  BY DEF LInv
<1>2. Orphan(c) => Orphan(c)' \/ Closing(c)'
  BY <1>1, HandlerMoves DEF Orphan, Closing, Serving
<1>3. Evicted(c) => net'[c] \in {"closing", "lost"}
  BY <1>1, HandlerMoves DEF Evicted, Orphan, Serving
<1>4. Lost(c) => Lost(c)' \/ Closing(c)'
  BY <1>1, HandlerMoves DEF Lost, Closing
<1>5. Closing(c) => Closing(c)' \/ Gone(c)'
  BY <1>1, HandlerMoves DEF Closing, Gone
<1>6. net'[c] \in {"open", "closing", "lost"}
  BY DEF LInv, IInv, TypeOK
<1>7. Orphan(c)' => pc'[c] \notin {"none", "closing"}
  BY DEF Orphan, Serving
<1>8. QED BY <1>2, <1>3, <1>4, <1>5, <1>6, <1>7 DEF ToBeClosed, Evicted, Lost

\* The step that fairness promises is the one forward.
LEMMA WayOutGoesOn ==
  ASSUME NEW c \in Conns
  PROVE  LInv =>
         /\ Evicted(c) /\ <<ShutdownEnds(c)>>_vars => ~Evicted(c)'
         /\ Lost(c) /\ <<Resumed(c)>>_vars => ~Lost(c)'
         /\ Closing(c) /\ <<Resumed(c)>>_vars => ~Closing(c)'
BY DEF LInv, IInv, TypeOK, Evicted, Lost, Closing, ShutdownEnds, ConnectionLost, Resumed,
       ReadFails, Leave, HandlerEnds, Cancelled, Finally

\* A handler whose connection is lost, or whose transport was closed with its
\* session, ends; whether or not the server is stopping.
Ends(c) == Evicted(c) \/ Lost(c) \/ Closing(c) ~> Gone(c)
LEMMA HandlerEndsFair ==
  ASSUME NEW c \in Conns
  PROVE  FairSpec /\ []Due => Ends(c)
<1>1. FairSpec => WF_vars(Resumed(c)) /\ WF_vars(ShutdownEnds(c))
  <2>1. ConnsFairness => ConnFairness(c)
    BY DEF ConnsFairness
  <2>2. QED BY <2>1, PTL DEF FairSpec, Fairness, ConnFairness
<1>2. Due => /\ Evicted(c) => ENABLED <<ShutdownEnds(c)>>_vars
             /\ Lost(c) => ENABLED <<Resumed(c)>>_vars
             /\ Closing(c) => ENABLED <<Resumed(c)>>_vars
  BY DEF Due, ConnDue, Evicted, Lost, Closing
<1>3. FairSpec => [][Next]_vars /\ []LInv
  BY LInvAlways, PTL DEF FairSpec, Spec
<1>4. LInv /\ LInv' /\ [Next]_vars =>
        /\ Evicted(c) => Evicted(c)' \/ Lost(c)' \/ Closing(c)'
        /\ Lost(c) => Lost(c)' \/ Closing(c)'
        /\ Closing(c) => Closing(c)' \/ Gone(c)'
  BY WayOut
<1>5. LInv =>
        /\ Evicted(c) /\ <<ShutdownEnds(c)>>_vars => ~Evicted(c)'
        /\ Lost(c) /\ <<Resumed(c)>>_vars => ~Lost(c)'
        /\ Closing(c) /\ <<Resumed(c)>>_vars => ~Closing(c)'
  BY WayOutGoesOn
<1>6. QED BY <1>1, <1>2, <1>3, <1>4, <1>5, PTL DEF Ends

-----------------------------------------------------------------------------
\* run() goes through its phases in order.
LEMMA PhaseMoves ==
  ASSUME [Next]_vars
  PROVE  \/ phase' = phase
         \/ phase = "running" /\ phase' = "stopping"
         \/ phase = "stopping" /\ phase' = "cleanup"
         \/ phase = "cleanup" /\ phase' = "exiting"
         \/ phase = "exiting" /\ phase' = "stopped"
BY DEF Next, HandlerStep, Admit, RefuseHello, ReadHeartbeat, ReadLast,
     ReadGarbage, ReadFails, LoopOn, Leave, HandlerEnds, Cancelled, Environment,
     Connect, ConnectionLost, UdpRefresh, Tick, TimeoutScan, StopBegins, ServerStep,
     ListenerClosed, CleanupEnds, ProcessExits, CleanupCloses, Stopped, vars

Late == phase \in {"cleanup", "exiting"}
LEMMA PhasesInOrder ==
  IInv /\ [Next]_vars =>
    /\ phase = "running" => (phase = "running")' \/ (phase = "stopping")'
    /\ phase = "stopping" => (phase = "stopping")' \/ Late'
    /\ Late => Late' \/ (phase = "stopped")'
    /\ phase = "stopped" => (phase = "stopped")'
BY PhaseMoves DEF Late

\* What every suffix of a fair behaviour satisfies in which the loops of the stop
\* have come to rest.
Rests == [][Next]_vars /\ []LInv /\ ServerFairness /\ []Due /\ [][LoopsRest]_vars

\* Once run() cleans up it comes to its end: cleanup() closes the sessions that are
\* left, and asyncio.run ends the handlers.
Stopping(p, q) == phase = p ~> phase = q
LEMMA LateEnds == FairSpec /\ []Due /\ LoopsEnd => (Late ~> phase = "stopped")
<1>1. LInv /\ [Next]_vars =>
        /\ phase = "cleanup" => (phase = "cleanup")' \/ (phase = "exiting")'
        /\ phase = "exiting" => (phase = "exiting")' \/ (phase = "stopped")'
  BY PhaseMoves
<1>2. /\ phase = "cleanup" /\ <<ServerStep>>_vars /\ [LoopsRest]_vars
           => (phase = "exiting")'
      /\ phase = "exiting" /\ <<ServerStep>>_vars => (phase = "stopped")'
  BY DEF ServerStep, ListenerClosed, CleanupEnds, ProcessExits, CleanupCloses, LoopsRest,
         vars
<1>3. phase = "exiting" /\ [LoopsRest]_vars => (AllEnded <=> AllEnded')
  BY DEF LoopsRest, vars, AllEnded
<1>4. LInv /\ phase = "exiting" /\ [LoopsRest]_vars => ~<<GatherStep>>_vars
  <2>1. SUFFICES ASSUME LInv, phase = "exiting", pc' = pc, NEW c \in Conns, Resumed(c)
                 PROVE  FALSE
    BY DEF LoopsRest, vars, GatherStep
  <2>2. QED BY <2>1 DEF LInv, IInv, TypeOK, Resumed, HandlerEnds, Cancelled, Finally
<1>5. Due => /\ phase = "cleanup" => ENABLED <<ServerStep>>_vars
             /\ phase = "exiting" /\ AllEnded => ENABLED <<ServerStep>>_vars
             /\ phase = "exiting" /\ ~AllEnded => ENABLED <<GatherStep>>_vars
  BY DEF Due, ServerDue
<1>6. Rests => Stopping("cleanup", "exiting")
  BY <1>1, <1>2, <1>5, PTL DEF Rests, ServerFairness, Stopping
<1>7. Rests => Stopping("exiting", "stopped")
  BY <1>1, <1>2, <1>3, <1>4, <1>5, PTL DEF Rests, ServerFairness, Stopping
<1>8. LInv /\ [Next]_vars => (Late => Late' \/ (phase = "stopped")')
  BY PhasesInOrder DEF LInv
<1>9. Late <=> phase = "cleanup" \/ phase = "exiting"
  BY DEF Late
<1>10. QED
  BY <1>6, <1>7, <1>8, <1>9, LInvAlways, PTL
     DEF FairSpec, Spec, Fairness, ServerFairness, Rests, LoopsEnd, Stopping

\* A stop that has begun comes to its end, where the listener does not wait for the
\* connections (before Python 3.12).
THEOREM StopCompletesFair ==
  ASSUME ~WaitsForConnections
  PROVE  FairSpec /\ []Due /\ LoopsEnd => StopCompletes
<1>1. IInv /\ [Next]_vars => (phase = "stopping" => (phase = "stopping")' \/ Late')
  BY PhasesInOrder
<1>2. phase = "stopping" /\ <<ServerStep>>_vars => ~(phase = "stopping")'
  BY DEF ServerStep, ListenerClosed, CleanupEnds, ProcessExits, CleanupCloses
<1>3. Due => (phase = "stopping" => ENABLED <<ServerStep>>_vars)
  BY DEF Due, ServerDue
<1>4. LInv => IInv
  BY DEF LInv
<1>5. QED
  BY <1>1, <1>2, <1>3, <1>4, LateEnds, LInvAlways, PTL
     DEF FairSpec, Spec, Fairness, ServerFairness, StopCompletes

\* The handler of a lost connection, or of a session that was evicted, ends. A
\* session that cleanup() has yet to close waits for cleanup() to come to it.
THEOREM DeadHandlersEndFair == FairSpec /\ []Due /\ LoopsEnd => DeadHandlersEnd
<1> SUFFICES ASSUME NEW c \in Conns
             PROVE  FairSpec /\ []Due /\ LoopsEnd =>
                    ((net[c] = "lost" \/ (pc[c] \in Serving /\ ~InTable(c)))
                        ~> pc[c] = "none")
  BY DEF DeadHandlersEnd
<1>1. LInv => (net[c] = "lost" \/ (pc[c] \in Serving /\ ~InTable(c))
               => Gone(c) \/ Evicted(c) \/ Lost(c) \/ Closing(c) \/ Late)
  BY DEF LInv, IInv, TypeOK, EvictedInv, Orphan, Gone, Evicted, Lost, Closing, Late
<1>2. LInv /\ phase = "stopped" => Gone(c)
  BY DEF LInv, StoppedInv, Gone
<1>3. Gone(c) <=> pc[c] = "none"
  BY DEF Gone
<1>4. FairSpec /\ []Due => Ends(c)
  BY HandlerEndsFair
<1>5. QED
  BY <1>1, <1>2, <1>3, <1>4, LateEnds, LInvAlways, PTL DEF FairSpec, Ends

OrphansEnd ==
  \A c \in Conns : (net[c] = "lost"
                    \/ (pc[c] \in Serving /\ ~InTable(c) /\ c \notin toClose))
                      ~> pc[c] = "none"

\* Without that hypothesis: while no session waits for cleanup(), a handler on a
\* dead connection ends, also when the server never stops, and under Python 3.12.
THEOREM OrphansEndFair == FairSpec /\ []Due => OrphansEnd
<1> SUFFICES ASSUME NEW c \in Conns
             PROVE  FairSpec /\ []Due =>
                    ((net[c] = "lost"
                      \/ (pc[c] \in Serving /\ ~InTable(c) /\ c \notin toClose))
                        ~> pc[c] = "none")
  BY DEF OrphansEnd
<1>1. LInv => (net[c] = "lost"
               \/ (pc[c] \in Serving /\ ~InTable(c) /\ c \notin toClose)
               => Gone(c) \/ Evicted(c) \/ Lost(c) \/ Closing(c))
  BY DEF LInv, IInv, TypeOK, EvictedInv, Orphan, Gone, Evicted, Lost, Closing
<1>2. Gone(c) <=> pc[c] = "none"
  BY DEF Gone
<1>3. FairSpec /\ []Due => Ends(c)
  BY HandlerEndsFair
<1>4. QED
  BY <1>1, <1>2, <1>3, LInvAlways, PTL DEF FairSpec, Ends

Silent(c) == InTable(c) /\ age[c] > Timeout

\* A silent session is evicted by the scan, or else by the stop.
THEOREM SilentSessionsEvictedFair ==
  ASSUME ~WaitsForConnections
  PROVE  FairSpec /\ []Due /\ LoopsEnd => SilentSessionsEvicted
<1> SUFFICES ASSUME NEW c \in Conns
             PROVE  FairSpec /\ []Due /\ LoopsEnd =>
                    ((InTable(c) /\ age[c] > Timeout)
                        ~> (~InTable(c) \/ age[c] <= Timeout))
  BY DEF SilentSessionsEvicted
<1>1. LInv => /\ InTable(c) /\ age[c] > Timeout <=> Silent(c)
              /\ ~InTable(c) \/ age[c] <= Timeout <=> ~Silent(c)
  BY DEF LInv, IInv, TypeOK, Silent
<1>2. LInv /\ phase = "stopped" => ~Silent(c)
  BY DEF LInv, IInv, StoppedInv, NoLeakedSession, Silent, InTable, Serving
<1>3. LInv /\ Silent(c) /\ <<TimeoutScan>>_vars => ~Silent(c)'
  <2>1. SUFFICES ASSUME LInv, Silent(c), TimeoutScan  PROVE c \notin Members'
    BY DEF Silent, InTable
  <2>2. Expired \in SUBSET Conns /\ Drops(Expired) /\ sess' = sess /\ c \in Expired
    BY <2>1 DEF TimeoutScan, Expired, Members, Drops, Silent, InTable
  <2>3. Members' = Members \ Expired
    BY <2>1, <2>2, DropsKeepsTables DEF LInv
  <2>4. QED BY <2>2, <2>3
<1>4. Due => (Silent(c) /\ phase = "running" => ENABLED <<TimeoutScan>>_vars)
  <2>1. Silent(c) => Expired # {}
    BY DEF Silent, InTable, Expired
  <2>2. QED BY <2>1 DEF Due, ServerDue
<1>5. LInv => \/ phase = "running" \/ phase = "stopping" \/ Late \/ phase = "stopped"
  BY DEF LInv, IInv, TypeOK, Phases, Late
<1>6. LInv => IInv
  BY DEF LInv
<1>7. QED
  BY <1>1, <1>2, <1>3, <1>4, <1>5, <1>6, PhasesInOrder, LateEnds, StopCompletesFair,
     LInvAlways, PTL
     DEF FairSpec, Spec, Fairness, ServerFairness, StopCompletes

=============================================================================
