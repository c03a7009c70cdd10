------------------------ MODULE AndroidService_proofs ------------------------
(***************************************************************************)
(* SupersededIsStopped, StopHitsItsOwn, NothingLeftOpen and                *)
(* SettledStateShown for any number of requests; and, under the fairness   *)
(* of FairSpec, that a disconnect completes and that a worker's failure    *)
(* ends the run.                                                           *)
(***************************************************************************)
EXTENDS AndroidService, TLAPS

\* While the main thread is busy with a request, every task that waits or runs
\* is of an earlier one.
OrderInv ==
    /\ execPc = "idle" <=> execReq = None
    /\ execReq <= generation
    /\ \A i \in DOMAIN queue : queue[i] <= generation
    /\ mainPc # "idle" => /\ mainReq = generation /\ execReq < generation
                          /\ \A i \in DOMAIN queue : queue[i] < generation

\* The field holds the connection of the running task, from its assignment to
\* its finally block.
Assigned == RunSteps \union {"recheck", "ended", "publishOutcome", "clear"}
FieldInv == connection = IF execPc \in Assigned THEN execReq ELSE None

\* A superseded connection is stopped, or the main thread is about to.
StopInv ==
    Runs(execReq) /\ execReq # generation =>
        \/ execReq \in stopRequested
        \/ mainPc = "read"
        \/ mainPc = "stop" /\ active = execReq

ActiveInv == mainPc \notin {"idle", "read", "handOver"} => active \in Requests

\* What is up is in the field, and nobody is between closing it and null.
TunnelInv ==
    \A r \in tunnel : r \in slipped \/ (Runs(r) /\ r \in field /\ ~StopIsClosing(r))

IInv == TypeOK /\ OrderInv /\ FieldInv /\ StopInv /\ ActiveInv /\ StopHitsItsOwn
        /\ TunnelInv

\* What one more task, and one fewer, does to the queue.
LEMMA AppendKeeps ==
    ASSUME NEW s \in Seq(Requests), NEW e \in Requests
    PROVE  /\ Append(s, e) \in Seq(Requests)
           /\ Len(s) \in Nat /\ DOMAIN s = 1..Len(s)
           /\ DOMAIN Append(s, e) = 1..(Len(s) + 1)
           /\ \A i \in 1..Len(s) : Append(s, e)[i] = s[i]
           /\ Append(s, e)[Len(s) + 1] = e
OBVIOUS

LEMMA TailKeeps ==
    ASSUME NEW s \in Seq(Requests), s # <<>>
    PROVE  /\ Tail(s) \in Seq(Requests)
           /\ Len(s) \in Nat \ {0} /\ DOMAIN s = 1..Len(s)
           /\ DOMAIN Tail(s) = 1..(Len(s) - 1)
           /\ \A i \in 1..(Len(s) - 1) : Tail(s)[i] = s[i + 1]
           /\ Head(s) = s[1] /\ Head(s) \in Requests
OBVIOUS

LEMMA InitIInv == Init => IInv
<1> SUFFICES ASSUME Init PROVE IInv
    OBVIOUS
<1>1. queue = <<>> /\ queue \in Seq(Requests) /\ DOMAIN queue = {}
    BY DEF Init
<1>2. published \in [state : States, by : 0..MaxRequests]
    BY MaxRequestsAssumption DEF Init, Show, None
<1>3. worker \in [Requests -> {"none", "alive", "failing", "won", "readRunner",
                               "interrupt", "done"}]
    BY DEF Init
<1>4. kind \in [Requests -> {"none", "connect", "disconnect", "destroy"}]
    BY DEF Init
<1>5. /\ execPc \in RunSteps \union TaskSteps /\ mainPc \in MainSteps
      /\ 0 \in 0..MaxRequests
    BY MaxRequestsAssumption DEF Init, TaskSteps, MainSteps
<1>6. /\ stopRequested \subseteq Requests /\ running \subseteq Requests
      /\ failure \subseteq Requests /\ tunnel \subseteq Requests
      /\ field \subseteq Requests /\ closed \subseteq Requests
      /\ slipped \subseteq Requests
    BY DEF Init
<1>7. TypeOK
    BY <1>1, <1>2, <1>3, <1>4, <1>5, <1>6 DEF Init, TypeOK, None
<1>8. OrderInv
    BY <1>1 DEF Init, OrderInv, None
<1>9. FieldInv /\ StopInv /\ ActiveInv /\ StopHitsItsOwn /\ TunnelInv
    BY DEF Init, FieldInv, StopInv, ActiveInv, StopHitsItsOwn, TunnelInv, Assigned,
           Runs, RunSteps
<1> QED
    BY <1>7, <1>8, <1>9 DEF IInv

LEMMA IInvImplies ==
    IInv => TypeOK /\ SupersededIsStopped /\ StopHitsItsOwn /\ NothingLeftOpen
BY DEF IInv, StopInv, TunnelInv, SupersededIsStopped, NothingLeftOpen, IsCurrent, IsNewest

\* Every step keeps it.
LEMMA StepIInv == IInv /\ [Next]_vars => IInv'
<1> SUFFICES ASSUME IInv, [Next]_vars PROVE IInv'
    OBVIOUS
<1> USE MaxRequestsAssumption DEF IInv, OrderInv, FieldInv, StopInv, ActiveInv,
        StopHitsItsOwn, TunnelInv, Assigned, Runs, RunSteps, TaskSteps, MainSteps,
        Requests, None, shared, main, exec, inside, outside, StopIsClosing
<1>1. CASE ConnectArrives
  <2>1. TypeOK'
    BY <1>1 DEF ConnectArrives, Bump, TypeOK, States
  <2>2. OrderInv'
    BY <1>1 DEF ConnectArrives, Bump, TypeOK
  <2>3. FieldInv'
    BY <1>1 DEF ConnectArrives, Bump, TypeOK
  <2>4. StopInv'
    BY <1>1 DEF ConnectArrives, Bump, TypeOK
  <2>5. ActiveInv'
    BY <1>1 DEF ConnectArrives, Bump, TypeOK
  <2>6. StopHitsItsOwn'
    BY <1>1 DEF ConnectArrives, Bump, TypeOK
  <2>7. TunnelInv'
    BY <1>1 DEF ConnectArrives, Bump, TypeOK
  <2> QED
    BY <2>1, <2>2, <2>3, <2>4, <2>5, <2>6, <2>7
<1>2. CASE DisconnectArrives
  <2>1. TypeOK'
    <3>1. (ending' = ending \/ ending' = TRUE) /\ ending \in BOOLEAN
      BY <1>2 DEF DisconnectArrives, Revoked, TypeOK
    <3>4. ending' \in BOOLEAN
      BY <3>1, Zenon
    <3>3. lastStart' \in 0..MaxRequests
      BY <1>2 DEF DisconnectArrives, Revoked, TypeOK
    <3>2. Bump("disconnect")
      BY <1>2 DEF DisconnectArrives, Revoked
    <3> QED
      BY <3>2, <3>3, <3>4 DEF Bump, TypeOK
  <2>2. OrderInv'
    BY <1>2 DEF DisconnectArrives, Revoked, Bump, TypeOK
  <2>3. FieldInv'
    BY <1>2 DEF DisconnectArrives, Revoked, Bump, TypeOK
  <2>4. StopInv'
    BY <1>2 DEF DisconnectArrives, Revoked, Bump, TypeOK
  <2>5. ActiveInv'
    BY <1>2 DEF DisconnectArrives, Revoked, Bump, TypeOK
  <2>6. StopHitsItsOwn'
    BY <1>2 DEF DisconnectArrives, Revoked, Bump, TypeOK
  <2>7. TunnelInv'
    BY <1>2 DEF DisconnectArrives, Revoked, Bump, TypeOK
  <2> QED
    BY <2>1, <2>2, <2>3, <2>4, <2>5, <2>6, <2>7
<1>3. CASE RefuseStart
  <2>1. TypeOK'
    BY <1>3 DEF RefuseStart, NodeMissing, Show, TypeOK, States
  <2>2. OrderInv'
    BY <1>3 DEF RefuseStart, NodeMissing, Show, TypeOK
  <2>3. FieldInv'
    BY <1>3 DEF RefuseStart, NodeMissing, Show, TypeOK
  <2>4. StopInv'
    BY <1>3 DEF RefuseStart, NodeMissing, Show, TypeOK
  <2>5. ActiveInv'
    BY <1>3 DEF RefuseStart, NodeMissing, Show, TypeOK
  <2>6. StopHitsItsOwn'
    BY <1>3 DEF RefuseStart, NodeMissing, Show, TypeOK
  <2>7. TunnelInv'
    BY <1>3 DEF RefuseStart, NodeMissing, Show, TypeOK
  <2> QED
    BY <2>1, <2>2, <2>3, <2>4, <2>5, <2>6, <2>7
<1>4. CASE ReadActive
  <2>1. TypeOK'
    BY <1>4 DEF ReadActive, Show, TypeOK, States
  <2>2. OrderInv'
    BY <1>4 DEF ReadActive, Show, TypeOK
  <2>3. FieldInv'
    BY <1>4 DEF ReadActive, Show, TypeOK
  <2>4. StopInv'
    BY <1>4 DEF ReadActive, Show, TypeOK
  <2>5. ActiveInv'
    BY <1>4 DEF ReadActive, Show, TypeOK
  <2>6. StopHitsItsOwn'
    BY <1>4 DEF ReadActive, Show, TypeOK
  <2>7. TunnelInv'
    BY <1>4 DEF ReadActive, Show, TypeOK
  <2> QED
    BY <2>1, <2>2, <2>3, <2>4, <2>5, <2>6, <2>7
<1>5. CASE StopRequest
  <2>1. TypeOK'
    BY <1>5 DEF StopRequest, MainGoes, TypeOK, States
  <2>2. OrderInv'
    BY <1>5 DEF StopRequest, MainGoes, TypeOK
  <2>3. FieldInv'
    BY <1>5 DEF StopRequest, MainGoes, TypeOK
  <2>4. StopInv'
    BY <1>5 DEF StopRequest, MainGoes, TypeOK
  <2>5. ActiveInv'
    BY <1>5 DEF StopRequest, MainGoes, TypeOK
  <2>6. StopHitsItsOwn'
    BY <1>5 DEF StopRequest, MainGoes, TypeOK
  <2>7. TunnelInv'
    BY <1>5 DEF StopRequest, MainGoes, TypeOK
  <2> QED
    BY <2>1, <2>2, <2>3, <2>4, <2>5, <2>6, <2>7
<1>6. CASE StopCloses
  <2>1. TypeOK'
    BY <1>6 DEF StopCloses, MainGoes, TunnelClosed, TypeOK, States
  <2>2. OrderInv'
    BY <1>6 DEF StopCloses, MainGoes, TunnelClosed, TypeOK
  <2>3. FieldInv'
    BY <1>6 DEF StopCloses, MainGoes, TunnelClosed, TypeOK
  <2>4. StopInv'
    BY <1>6 DEF StopCloses, MainGoes, TunnelClosed, TypeOK
  <2>5. ActiveInv'
    BY <1>6 DEF StopCloses, MainGoes, TunnelClosed, TypeOK
  <2>6. StopHitsItsOwn'
    BY <1>6 DEF StopCloses, MainGoes, TunnelClosed, TypeOK
  <2>7. TunnelInv'
    BY <1>6 DEF StopCloses, MainGoes, TunnelClosed, TypeOK
  <2> QED
    BY <2>1, <2>2, <2>3, <2>4, <2>5, <2>6, <2>7
<1>7. CASE StopForgets
  <2>1. TypeOK'
    BY <1>7 DEF StopForgets, MainGoes, Forgets, TypeOK, States
  <2>2. OrderInv'
    BY <1>7 DEF StopForgets, MainGoes, Forgets, TypeOK
  <2>3. FieldInv'
    BY <1>7 DEF StopForgets, MainGoes, Forgets, TypeOK
  <2>4. StopInv'
    BY <1>7 DEF StopForgets, MainGoes, Forgets, TypeOK
  <2>5. ActiveInv'
    BY <1>7 DEF StopForgets, MainGoes, Forgets, TypeOK
  <2>6. StopHitsItsOwn'
    BY <1>7 DEF StopForgets, MainGoes, Forgets, TypeOK
  <2>7. TunnelInv'
    BY <1>7 DEF StopForgets, MainGoes, Forgets, TypeOK
  <2> QED
    BY <2>1, <2>2, <2>3, <2>4, <2>5, <2>6, <2>7
<1>8. CASE ReadRunner
  <2>1. TypeOK'
    BY <1>8 DEF ReadRunner, MainGoes, TypeOK, States
  <2>2. OrderInv'
    BY <1>8 DEF ReadRunner, MainGoes, TypeOK
  <2>3. FieldInv'
    BY <1>8 DEF ReadRunner, MainGoes, TypeOK
  <2>4. StopInv'
    BY <1>8 DEF ReadRunner, MainGoes, TypeOK
  <2>5. ActiveInv'
    BY <1>8 DEF ReadRunner, MainGoes, TypeOK
  <2>6. StopHitsItsOwn'
    BY <1>8 DEF ReadRunner, MainGoes, TypeOK
  <2>7. TunnelInv'
    BY <1>8 DEF ReadRunner, MainGoes, TypeOK
  <2> QED
    BY <2>1, <2>2, <2>3, <2>4, <2>5, <2>6, <2>7
<1>9. CASE StopInterrupts
  <2>1. TypeOK'
    BY <1>9 DEF StopInterrupts, MainGoes, TypeOK, States
  <2>2. OrderInv'
    BY <1>9 DEF StopInterrupts, MainGoes, TypeOK
  <2>3. FieldInv'
    BY <1>9 DEF StopInterrupts, MainGoes, TypeOK
  <2>4. StopInv'
    BY <1>9 DEF StopInterrupts, MainGoes, TypeOK
  <2>5. ActiveInv'
    BY <1>9 DEF StopInterrupts, MainGoes, TypeOK
  <2>6. StopHitsItsOwn'
    BY <1>9 DEF StopInterrupts, MainGoes, TypeOK
  <2>7. TunnelInv'
    BY <1>9 DEF StopInterrupts, MainGoes, TypeOK
  <2> QED
    BY <2>1, <2>2, <2>3, <2>4, <2>5, <2>6, <2>7
<1>10. CASE EnqueueConnect
  <2>1. mainReq \in Requests /\ queue' = Append(queue, mainReq)
    BY <1>10 DEF EnqueueConnect, Returns, Show, TypeOK
  <2>2. /\ queue' \in Seq(Requests)
        /\ Len(queue) \in Nat /\ DOMAIN queue = 1..Len(queue)
        /\ DOMAIN queue' = 1..(Len(queue) + 1)
        /\ \A i \in 1..Len(queue) : queue'[i] = queue[i]
        /\ queue'[Len(queue) + 1] = mainReq
    <3> HIDE DEF Requests
    <3> QED
        BY <2>1, AppendKeeps DEF TypeOK
  <2>3. TypeOK'
    BY <1>10, <2>1, <2>2 DEF EnqueueConnect, Returns, Show, TypeOK, States
  <2>4. OrderInv'
    BY <1>10, <2>1, <2>2 DEF EnqueueConnect, Returns, Show, TypeOK
  <2>5. FieldInv'
    BY <1>10 DEF EnqueueConnect, Returns, Show, TypeOK
  <2>6. StopInv'
    BY <1>10, <2>1, <2>2 DEF EnqueueConnect, Returns, Show, TypeOK
  <2>7. ActiveInv'
    BY <1>10 DEF EnqueueConnect, Returns, Show, TypeOK
  <2>8. StopHitsItsOwn'
    BY <1>10 DEF EnqueueConnect, Returns, Show, TypeOK
  <2>9. TunnelInv'
    BY <1>10 DEF EnqueueConnect, Returns, Show, TypeOK
  <2> QED
    BY <2>3, <2>4, <2>5, <2>6, <2>7, <2>8, <2>9
<1>11. CASE EnqueueDisconnect
  <2>1. mainReq \in Requests /\ queue' = Append(queue, mainReq)
    BY <1>11 DEF EnqueueDisconnect, Returns, TypeOK
  <2>2. /\ queue' \in Seq(Requests)
        /\ Len(queue) \in Nat /\ DOMAIN queue = 1..Len(queue)
        /\ DOMAIN queue' = 1..(Len(queue) + 1)
        /\ \A i \in 1..Len(queue) : queue'[i] = queue[i]
        /\ queue'[Len(queue) + 1] = mainReq
    <3> HIDE DEF Requests
    <3> QED
        BY <2>1, AppendKeeps DEF TypeOK
  <2>3. TypeOK'
    BY <1>11, <2>1, <2>2 DEF EnqueueDisconnect, Returns, TypeOK, States
  <2>4. OrderInv'
    BY <1>11, <2>1, <2>2 DEF EnqueueDisconnect, Returns, TypeOK
  <2>5. FieldInv'
    BY <1>11 DEF EnqueueDisconnect, Returns, TypeOK
  <2>6. StopInv'
    BY <1>11, <2>1, <2>2 DEF EnqueueDisconnect, Returns, TypeOK
  <2>7. ActiveInv'
    BY <1>11 DEF EnqueueDisconnect, Returns, TypeOK
  <2>8. StopHitsItsOwn'
    BY <1>11 DEF EnqueueDisconnect, Returns, TypeOK
  <2>9. TunnelInv'
    BY <1>11 DEF EnqueueDisconnect, Returns, TypeOK
  <2> QED
    BY <2>3, <2>4, <2>5, <2>6, <2>7, <2>8, <2>9
<1>12. CASE DestroyBegins
  <2>1. TypeOK'
    BY <1>12 DEF DestroyBegins, Bump, TypeOK, States
  <2>2. OrderInv'
    BY <1>12 DEF DestroyBegins, Bump, TypeOK
  <2>3. FieldInv'
    BY <1>12 DEF DestroyBegins, Bump, TypeOK
  <2>4. StopInv'
    BY <1>12 DEF DestroyBegins, Bump, TypeOK
  <2>5. ActiveInv'
    BY <1>12 DEF DestroyBegins, Bump, TypeOK
  <2>6. StopHitsItsOwn'
    BY <1>12 DEF DestroyBegins, Bump, TypeOK
  <2>7. TunnelInv'
    BY <1>12 DEF DestroyBegins, Bump, TypeOK
  <2> QED
    BY <2>1, <2>2, <2>3, <2>4, <2>5, <2>6, <2>7
<1>13. CASE ShutdownNow
  <2>1. queue' \in Seq(Requests) /\ DOMAIN queue' = {}
    BY <1>13 DEF ShutdownNow
  <2>2. TypeOK'
    BY <1>13, <2>1 DEF ShutdownNow, Returns, TypeOK, States
  <2>3. OrderInv'
    BY <1>13, <2>1 DEF ShutdownNow, Returns, TypeOK
  <2>4. FieldInv'
    BY <1>13 DEF ShutdownNow, Returns, TypeOK
  <2>5. StopInv'
    BY <1>13, <2>1 DEF ShutdownNow, Returns, TypeOK
  <2>6. ActiveInv'
    BY <1>13 DEF ShutdownNow, Returns, TypeOK
  <2>7. StopHitsItsOwn'
    BY <1>13 DEF ShutdownNow, Returns, TypeOK
  <2>8. TunnelInv'
    BY <1>13 DEF ShutdownNow, Returns, TypeOK
  <2> QED
    BY <2>2, <2>3, <2>4, <2>5, <2>6, <2>7, <2>8
<1>14. CASE TakeTask
  <2>1. /\ queue' \in Seq(Requests)
        /\ Len(queue) \in Nat \ {0} /\ DOMAIN queue = 1..Len(queue)
        /\ DOMAIN queue' = 1..(Len(queue) - 1)
        /\ \A i \in 1..(Len(queue) - 1) : queue'[i] = queue[i + 1]
        /\ Head(queue) = queue[1] /\ Head(queue) \in Requests
    <3> HIDE DEF Requests
    <3> QED
        BY <1>14, TailKeeps DEF TakeTask, TypeOK
  <2>2. TypeOK'
    BY <1>14, <2>1 DEF TakeTask, IsNewest, TypeOK, States
  <2>3. OrderInv'
    BY <1>14, <2>1 DEF TakeTask, IsNewest, TypeOK
  <2>4. FieldInv'
    BY <1>14, <2>1 DEF TakeTask, IsNewest, TypeOK
  <2>5. StopInv'
    BY <1>14, <2>1 DEF TakeTask, IsNewest, TypeOK
  <2>6. ActiveInv'
    BY <1>14, <2>1 DEF TakeTask, IsNewest, TypeOK
  <2>7. StopHitsItsOwn'
    BY <1>14, <2>1 DEF TakeTask, IsNewest, TypeOK
  <2>8. TunnelInv'
    BY <1>14, <2>1 DEF TakeTask, IsNewest, TypeOK
  <2> QED
    BY <2>2, <2>3, <2>4, <2>5, <2>6, <2>7, <2>8
<1>15. CASE Create
  <2>1. TypeOK'
    BY <1>15 DEF Create, GoTo, ExecOnly, IsCurrent, IsNewest, TypeOK, States
  <2>2. OrderInv'
    BY <1>15 DEF Create, GoTo, ExecOnly, IsCurrent, IsNewest, TypeOK
  <2>3. FieldInv'
    BY <1>15 DEF Create, GoTo, ExecOnly, IsCurrent, IsNewest, TypeOK
  <2>4. StopInv'
    BY <1>15 DEF Create, GoTo, ExecOnly, IsCurrent, IsNewest, TypeOK
  <2>5. ActiveInv'
    BY <1>15 DEF Create, GoTo, ExecOnly, IsCurrent, IsNewest, TypeOK
  <2>6. StopHitsItsOwn'
    BY <1>15 DEF Create, GoTo, ExecOnly, IsCurrent, IsNewest, TypeOK
  <2>7. TunnelInv'
    BY <1>15 DEF Create, GoTo, ExecOnly, IsCurrent, IsNewest, TypeOK
  <2> QED
    BY <2>1, <2>2, <2>3, <2>4, <2>5, <2>6, <2>7
<1>16. CASE Assign
  <2>1. TypeOK'
    BY <1>16 DEF Assign, GoTo, TypeOK, States
  <2>2. OrderInv'
    BY <1>16 DEF Assign, GoTo, TypeOK
  <2>3. FieldInv'
    BY <1>16 DEF Assign, GoTo, TypeOK
  <2>4. StopInv'
    BY <1>16 DEF Assign, GoTo, TypeOK
  <2>5. ActiveInv'
    BY <1>16 DEF Assign, GoTo, TypeOK
  <2>6. StopHitsItsOwn'
    BY <1>16 DEF Assign, GoTo, TypeOK
  <2>7. TunnelInv'
    BY <1>16 DEF Assign, GoTo, TypeOK
  <2> QED
    BY <2>1, <2>2, <2>3, <2>4, <2>5, <2>6, <2>7
<1>17. CASE Recheck
  <2>1. TypeOK'
    BY <1>17 DEF Recheck, GoTo, IsCurrent, IsNewest, TypeOK, States
  <2>2. OrderInv'
    BY <1>17 DEF Recheck, GoTo, IsCurrent, IsNewest, TypeOK
  <2>3. FieldInv'
    BY <1>17 DEF Recheck, GoTo, IsCurrent, IsNewest, TypeOK
  <2>4. StopInv'
    BY <1>17 DEF Recheck, GoTo, IsCurrent, IsNewest, TypeOK
  <2>5. ActiveInv'
    BY <1>17 DEF Recheck, GoTo, IsCurrent, IsNewest, TypeOK
  <2>6. StopHitsItsOwn'
    BY <1>17 DEF Recheck, GoTo, IsCurrent, IsNewest, TypeOK
  <2>7. TunnelInv'
    BY <1>17 DEF Recheck, GoTo, IsCurrent, IsNewest, TypeOK
  <2> QED
    BY <2>1, <2>2, <2>3, <2>4, <2>5, <2>6, <2>7
<1>18. CASE Stage
  <2>1. TypeOK'
    BY <1>18 DEF Stage, Checked, GoTo, ExecOnly, TypeOK, States
  <2>2. OrderInv'
    BY <1>18 DEF Stage, Checked, GoTo, ExecOnly, TypeOK
  <2>3. FieldInv'
    BY <1>18 DEF Stage, Checked, GoTo, ExecOnly, TypeOK
  <2>4. StopInv'
    BY <1>18 DEF Stage, Checked, GoTo, ExecOnly, TypeOK
  <2>5. ActiveInv'
    BY <1>18 DEF Stage, Checked, GoTo, ExecOnly, TypeOK
  <2>6. StopHitsItsOwn'
    BY <1>18 DEF Stage, Checked, GoTo, ExecOnly, TypeOK
  <2>7. TunnelInv'
    BY <1>18 DEF Stage, Checked, GoTo, ExecOnly, TypeOK
  <2> QED
    BY <2>1, <2>2, <2>3, <2>4, <2>5, <2>6, <2>7
<1>19. CASE PublishStage
  <2>1. TypeOK'
    BY <1>19 DEF PublishStage, Published, GoTo, Show, TypeOK, States
  <2>2. OrderInv'
    BY <1>19 DEF PublishStage, Published, GoTo, Show, TypeOK
  <2>3. FieldInv'
    BY <1>19 DEF PublishStage, Published, GoTo, Show, TypeOK
  <2>4. StopInv'
    BY <1>19 DEF PublishStage, Published, GoTo, Show, TypeOK
  <2>5. ActiveInv'
    BY <1>19 DEF PublishStage, Published, GoTo, Show, TypeOK
  <2>6. StopHitsItsOwn'
    BY <1>19 DEF PublishStage, Published, GoTo, Show, TypeOK
  <2>7. TunnelInv'
    BY <1>19 DEF PublishStage, Published, GoTo, Show, TypeOK
  <2> QED
    BY <2>1, <2>2, <2>3, <2>4, <2>5, <2>6, <2>7
<1>20. CASE Handshake
  <2>1. TypeOK'
    BY <1>20 DEF Handshake, GoTo, Ends, ExecOnly, TypeOK, States
  <2>2. OrderInv'
    BY <1>20 DEF Handshake, GoTo, Ends, ExecOnly, TypeOK
  <2>3. FieldInv'
    BY <1>20 DEF Handshake, GoTo, Ends, ExecOnly, TypeOK
  <2>4. StopInv'
    BY <1>20 DEF Handshake, GoTo, Ends, ExecOnly, TypeOK
  <2>5. ActiveInv'
    BY <1>20 DEF Handshake, GoTo, Ends, ExecOnly, TypeOK
  <2>6. StopHitsItsOwn'
    BY <1>20 DEF Handshake, GoTo, Ends, ExecOnly, TypeOK
  <2>7. TunnelInv'
    BY <1>20 DEF Handshake, GoTo, Ends, ExecOnly, TypeOK
  <2> QED
    BY <2>1, <2>2, <2>3, <2>4, <2>5, <2>6, <2>7
<1>21. CASE SetRunning
  <2>1. TypeOK'
    BY <1>21 DEF SetRunning, GoTo, TypeOK, States
  <2>2. OrderInv'
    BY <1>21 DEF SetRunning, GoTo, TypeOK
  <2>3. FieldInv'
    BY <1>21 DEF SetRunning, GoTo, TypeOK
  <2>4. StopInv'
    BY <1>21 DEF SetRunning, GoTo, TypeOK
  <2>5. ActiveInv'
    BY <1>21 DEF SetRunning, GoTo, TypeOK
  <2>6. StopHitsItsOwn'
    BY <1>21 DEF SetRunning, GoTo, TypeOK
  <2>7. TunnelInv'
    BY <1>21 DEF SetRunning, GoTo, TypeOK
  <2> QED
    BY <2>1, <2>2, <2>3, <2>4, <2>5, <2>6, <2>7
<1>22. CASE Establish
  <2>1. execReq \in Requests /\ execPc = "establish"
    BY <1>22 DEF Establish, GoTo, TypeOK
  <2>2. CASE Ends("failed") /\ ExecOnly
    <3>1. TypeOK' /\ OrderInv'
        BY <2>1, <2>2 DEF Ends, ExecOnly, TypeOK, States
    <3>2. FieldInv' /\ StopInv' /\ ActiveInv' /\ StopHitsItsOwn'
        BY <2>1, <2>2 DEF Ends, ExecOnly, TypeOK
    <3>3. TunnelInv'
        BY <2>1, <2>2 DEF Ends, ExecOnly, TypeOK
    <3> QED
        BY <3>1, <3>2, <3>3
  <2>3. CASE ~(Ends("failed") /\ ExecOnly)
    <3>1. /\ execPc' = "established" /\ UNCHANGED <<execReq, how>>
          /\ UNCHANGED <<shared, main, stopRequested, running, failure, closed,
                         worker, interrupted, outside>>
        BY <1>22, <2>3 DEF Establish, GoTo
    <3>2. /\ tunnel' = tunnel \union {execReq}
          /\ field' = field \union {execReq}
          /\ slipped' = IF StopIsClosing(execReq) THEN slipped \union {execReq}
                        ELSE slipped
        BY <1>22, <2>3 DEF Establish
    <3>3. tunnel' \subseteq Requests /\ field' \subseteq Requests
          /\ slipped' \subseteq Requests
        BY <2>1, <3>2 DEF TypeOK
    <3>4. TypeOK' /\ OrderInv'
        BY <2>1, <3>1, <3>3 DEF TypeOK, States
    <3>5. FieldInv' /\ StopInv' /\ ActiveInv' /\ StopHitsItsOwn'
        BY <2>1, <3>1 DEF TypeOK
    <3>6. TunnelInv'
      <4> SUFFICES ASSUME NEW r \in tunnel'
                   PROVE  r \in slipped' \/ (Runs(r) /\ r \in field /\ ~StopIsClosing(r))'
          BY DEF TunnelInv
      <4>1. CASE r = execReq
          BY <2>1, <3>1, <3>2, <4>1
      <4>2. CASE r # execReq
          BY <2>1, <3>1, <3>2, <4>2
      <4> QED
          BY <4>1, <4>2
    <3> QED
        BY <3>4, <3>5, <3>6
  <2> QED
    BY <2>2, <2>3
<1>23. CASE Established
  <2>1. TypeOK'
    BY <1>23 DEF Established, GoTo, Ends, ExecOnly, TypeOK, States
  <2>2. OrderInv'
    BY <1>23 DEF Established, GoTo, Ends, ExecOnly, TypeOK
  <2>3. FieldInv'
    BY <1>23 DEF Established, GoTo, Ends, ExecOnly, TypeOK
  <2>4. StopInv'
    BY <1>23 DEF Established, GoTo, Ends, ExecOnly, TypeOK
  <2>5. ActiveInv'
    BY <1>23 DEF Established, GoTo, Ends, ExecOnly, TypeOK
  <2>6. StopHitsItsOwn'
    BY <1>23 DEF Established, GoTo, Ends, ExecOnly, TypeOK
  <2>7. TunnelInv'
    BY <1>23 DEF Established, GoTo, Ends, ExecOnly, TypeOK
  <2> QED
    BY <2>1, <2>2, <2>3, <2>4, <2>5, <2>6, <2>7
<1>24. CASE Connected
  <2>1. TypeOK'
    BY <1>24 DEF Connected, Checked, GoTo, ExecOnly, TypeOK, States
  <2>2. OrderInv'
    BY <1>24 DEF Connected, Checked, GoTo, ExecOnly, TypeOK
  <2>3. FieldInv'
    BY <1>24 DEF Connected, Checked, GoTo, ExecOnly, TypeOK
  <2>4. StopInv'
    BY <1>24 DEF Connected, Checked, GoTo, ExecOnly, TypeOK
  <2>5. ActiveInv'
    BY <1>24 DEF Connected, Checked, GoTo, ExecOnly, TypeOK
  <2>6. StopHitsItsOwn'
    BY <1>24 DEF Connected, Checked, GoTo, ExecOnly, TypeOK
  <2>7. TunnelInv'
    BY <1>24 DEF Connected, Checked, GoTo, ExecOnly, TypeOK
  <2> QED
    BY <2>1, <2>2, <2>3, <2>4, <2>5, <2>6, <2>7
<1>25. CASE PublishConnected
  <2>1. TypeOK'
    BY <1>25 DEF PublishConnected, Published, GoTo, Show, TypeOK, States
  <2>2. OrderInv'
    BY <1>25 DEF PublishConnected, Published, GoTo, Show, TypeOK
  <2>3. FieldInv'
    BY <1>25 DEF PublishConnected, Published, GoTo, Show, TypeOK
  <2>4. StopInv'
    BY <1>25 DEF PublishConnected, Published, GoTo, Show, TypeOK
  <2>5. ActiveInv'
    BY <1>25 DEF PublishConnected, Published, GoTo, Show, TypeOK
  <2>6. StopHitsItsOwn'
    BY <1>25 DEF PublishConnected, Published, GoTo, Show, TypeOK
  <2>7. TunnelInv'
    BY <1>25 DEF PublishConnected, Published, GoTo, Show, TypeOK
  <2> QED
    BY <2>1, <2>2, <2>3, <2>4, <2>5, <2>6, <2>7
<1>26. CASE StartWorkers
  <2>1. TypeOK'
    BY <1>26 DEF StartWorkers, GoTo, TypeOK, States
  <2>2. OrderInv'
    BY <1>26 DEF StartWorkers, GoTo, TypeOK
  <2>3. FieldInv'
    BY <1>26 DEF StartWorkers, GoTo, TypeOK
  <2>4. StopInv'
    BY <1>26 DEF StartWorkers, GoTo, TypeOK
  <2>5. ActiveInv'
    BY <1>26 DEF StartWorkers, GoTo, TypeOK
  <2>6. StopHitsItsOwn'
    BY <1>26 DEF StartWorkers, GoTo, TypeOK
  <2>7. TunnelInv'
    BY <1>26 DEF StartWorkers, GoTo, TypeOK
  <2> QED
    BY <2>1, <2>2, <2>3, <2>4, <2>5, <2>6, <2>7
<1>27. CASE ServeEnds
  <2>1. TypeOK'
    BY <1>27 DEF ServeEnds, Ends, TypeOK, States
  <2>2. OrderInv'
    BY <1>27 DEF ServeEnds, Ends, TypeOK
  <2>3. FieldInv'
    BY <1>27 DEF ServeEnds, Ends, TypeOK
  <2>4. StopInv'
    BY <1>27 DEF ServeEnds, Ends, TypeOK
  <2>5. ActiveInv'
    BY <1>27 DEF ServeEnds, Ends, TypeOK
  <2>6. StopHitsItsOwn'
    BY <1>27 DEF ServeEnds, Ends, TypeOK
  <2>7. TunnelInv'
    BY <1>27 DEF ServeEnds, Ends, TypeOK
  <2> QED
    BY <2>1, <2>2, <2>3, <2>4, <2>5, <2>6, <2>7
<1>28. CASE CloseAtEnd
  <2>1. TypeOK'
    BY <1>28 DEF CloseAtEnd, GoTo, Forgets, TunnelClosed, TypeOK, States
  <2>2. OrderInv'
    BY <1>28 DEF CloseAtEnd, GoTo, Forgets, TunnelClosed, TypeOK
  <2>3. FieldInv'
    BY <1>28 DEF CloseAtEnd, GoTo, Forgets, TunnelClosed, TypeOK
  <2>4. StopInv'
    BY <1>28 DEF CloseAtEnd, GoTo, Forgets, TunnelClosed, TypeOK
  <2>5. ActiveInv'
    BY <1>28 DEF CloseAtEnd, GoTo, Forgets, TunnelClosed, TypeOK
  <2>6. StopHitsItsOwn'
    BY <1>28 DEF CloseAtEnd, GoTo, Forgets, TunnelClosed, TypeOK
  <2>7. TunnelInv'
    BY <1>28 DEF CloseAtEnd, GoTo, Forgets, TunnelClosed, TypeOK
  <2> QED
    BY <2>1, <2>2, <2>3, <2>4, <2>5, <2>6, <2>7
<1>29. CASE Ended
  <2>1. TypeOK'
    BY <1>29 DEF Ended, Checked, GoTo, ExecOnly, TypeOK, States
  <2>2. OrderInv'
    BY <1>29 DEF Ended, Checked, GoTo, ExecOnly, TypeOK
  <2>3. FieldInv'
    BY <1>29 DEF Ended, Checked, GoTo, ExecOnly, TypeOK
  <2>4. StopInv'
    BY <1>29 DEF Ended, Checked, GoTo, ExecOnly, TypeOK
  <2>5. ActiveInv'
    BY <1>29 DEF Ended, Checked, GoTo, ExecOnly, TypeOK
  <2>6. StopHitsItsOwn'
    BY <1>29 DEF Ended, Checked, GoTo, ExecOnly, TypeOK
  <2>7. TunnelInv'
    BY <1>29 DEF Ended, Checked, GoTo, ExecOnly, TypeOK
  <2> QED
    BY <2>1, <2>2, <2>3, <2>4, <2>5, <2>6, <2>7
<1>30. CASE PublishOutcome
  <2>1. TypeOK'
    BY <1>30 DEF PublishOutcome, Published, GoTo, Show, Outcome, TypeOK, States
  <2>2. OrderInv'
    BY <1>30 DEF PublishOutcome, Published, GoTo, Show, Outcome, TypeOK
  <2>3. FieldInv'
    BY <1>30 DEF PublishOutcome, Published, GoTo, Show, Outcome, TypeOK
  <2>4. StopInv'
    BY <1>30 DEF PublishOutcome, Published, GoTo, Show, Outcome, TypeOK
  <2>5. ActiveInv'
    BY <1>30 DEF PublishOutcome, Published, GoTo, Show, Outcome, TypeOK
  <2>6. StopHitsItsOwn'
    BY <1>30 DEF PublishOutcome, Published, GoTo, Show, Outcome, TypeOK
  <2>7. TunnelInv'
    BY <1>30 DEF PublishOutcome, Published, GoTo, Show, Outcome, TypeOK
  <2> QED
    BY <2>1, <2>2, <2>3, <2>4, <2>5, <2>6, <2>7
<1>31. CASE Clear
  <2>1. TypeOK'
    BY <1>31 DEF Clear, GoTo, TypeOK, States
  <2>2. OrderInv'
    BY <1>31 DEF Clear, GoTo, TypeOK
  <2>3. FieldInv'
    BY <1>31 DEF Clear, GoTo, TypeOK
  <2>4. StopInv'
    BY <1>31 DEF Clear, GoTo, TypeOK
  <2>5. ActiveInv'
    BY <1>31 DEF Clear, GoTo, TypeOK
  <2>6. StopHitsItsOwn'
    BY <1>31 DEF Clear, GoTo, TypeOK
  <2>7. TunnelInv'
    BY <1>31 DEF Clear, GoTo, TypeOK
  <2> QED
    BY <2>1, <2>2, <2>3, <2>4, <2>5, <2>6, <2>7
<1>32. CASE Finish
  <2>1. TypeOK'
    BY <1>32 DEF Finish, Checked, GoTo, ExecOnly, TypeOK, States
  <2>2. OrderInv'
    BY <1>32 DEF Finish, Checked, GoTo, ExecOnly, TypeOK
  <2>3. FieldInv'
    BY <1>32 DEF Finish, Checked, GoTo, ExecOnly, TypeOK
  <2>4. StopInv'
    BY <1>32 DEF Finish, Checked, GoTo, ExecOnly, TypeOK
  <2>5. ActiveInv'
    BY <1>32 DEF Finish, Checked, GoTo, ExecOnly, TypeOK
  <2>6. StopHitsItsOwn'
    BY <1>32 DEF Finish, Checked, GoTo, ExecOnly, TypeOK
  <2>7. TunnelInv'
    BY <1>32 DEF Finish, Checked, GoTo, ExecOnly, TypeOK
  <2> QED
    BY <2>1, <2>2, <2>3, <2>4, <2>5, <2>6, <2>7
<1>33. CASE StopSelfResult
  <2>1. TypeOK'
    BY <1>33 DEF StopSelfResult, GoTo, TypeOK, States
  <2>2. OrderInv'
    BY <1>33 DEF StopSelfResult, GoTo, TypeOK
  <2>3. FieldInv'
    BY <1>33 DEF StopSelfResult, GoTo, TypeOK
  <2>4. StopInv'
    BY <1>33 DEF StopSelfResult, GoTo, TypeOK
  <2>5. ActiveInv'
    BY <1>33 DEF StopSelfResult, GoTo, TypeOK
  <2>6. StopHitsItsOwn'
    BY <1>33 DEF StopSelfResult, GoTo, TypeOK
  <2>7. TunnelInv'
    BY <1>33 DEF StopSelfResult, GoTo, TypeOK
  <2> QED
    BY <2>1, <2>2, <2>3, <2>4, <2>5, <2>6, <2>7
<1>34. CASE PublishDisconnected
  <2>1. TypeOK'
    BY <1>34 DEF PublishDisconnected, Published, GoTo, Show, TypeOK, States
  <2>2. OrderInv'
    BY <1>34 DEF PublishDisconnected, Published, GoTo, Show, TypeOK
  <2>3. FieldInv'
    BY <1>34 DEF PublishDisconnected, Published, GoTo, Show, TypeOK
  <2>4. StopInv'
    BY <1>34 DEF PublishDisconnected, Published, GoTo, Show, TypeOK
  <2>5. ActiveInv'
    BY <1>34 DEF PublishDisconnected, Published, GoTo, Show, TypeOK
  <2>6. StopHitsItsOwn'
    BY <1>34 DEF PublishDisconnected, Published, GoTo, Show, TypeOK
  <2>7. TunnelInv'
    BY <1>34 DEF PublishDisconnected, Published, GoTo, Show, TypeOK
  <2> QED
    BY <2>1, <2>2, <2>3, <2>4, <2>5, <2>6, <2>7
<1>35. CASE StopService
  <2>1. TypeOK'
    BY <1>35 DEF StopService, GoTo, TypeOK, States
  <2>2. OrderInv'
    BY <1>35 DEF StopService, GoTo, TypeOK
  <2>3. FieldInv'
    BY <1>35 DEF StopService, GoTo, TypeOK
  <2>4. StopInv'
    BY <1>35 DEF StopService, GoTo, TypeOK
  <2>5. ActiveInv'
    BY <1>35 DEF StopService, GoTo, TypeOK
  <2>6. StopHitsItsOwn'
    BY <1>35 DEF StopService, GoTo, TypeOK
  <2>7. TunnelInv'
    BY <1>35 DEF StopService, GoTo, TypeOK
  <2> QED
    BY <2>1, <2>2, <2>3, <2>4, <2>5, <2>6, <2>7
<1>36. CASE ServeFails
  <2>1. TypeOK'
    BY <1>36 DEF ServeFails, Ends, ExecOnly, TypeOK, States
  <2>2. OrderInv'
    BY <1>36 DEF ServeFails, Ends, ExecOnly, TypeOK
  <2>3. FieldInv'
    BY <1>36 DEF ServeFails, Ends, ExecOnly, TypeOK
  <2>4. StopInv'
    BY <1>36 DEF ServeFails, Ends, ExecOnly, TypeOK
  <2>5. ActiveInv'
    BY <1>36 DEF ServeFails, Ends, ExecOnly, TypeOK
  <2>6. StopHitsItsOwn'
    BY <1>36 DEF ServeFails, Ends, ExecOnly, TypeOK
  <2>7. TunnelInv'
    BY <1>36 DEF ServeFails, Ends, ExecOnly, TypeOK
  <2> QED
    BY <2>1, <2>2, <2>3, <2>4, <2>5, <2>6, <2>7
<1>37. ASSUME NEW r \in Requests, WorkerFails(r) PROVE IInv'
  <2>1. TypeOK'
    BY <1>37 DEF WorkerFails, WorkerGoes, WorkerOnly, TypeOK, States
  <2>2. OrderInv'
    BY <1>37 DEF WorkerFails, WorkerGoes, WorkerOnly, TypeOK
  <2>3. FieldInv'
    BY <1>37 DEF WorkerFails, WorkerGoes, WorkerOnly, TypeOK
  <2>4. StopInv'
    BY <1>37 DEF WorkerFails, WorkerGoes, WorkerOnly, TypeOK
  <2>5. ActiveInv'
    BY <1>37 DEF WorkerFails, WorkerGoes, WorkerOnly, TypeOK
  <2>6. StopHitsItsOwn'
    BY <1>37 DEF WorkerFails, WorkerGoes, WorkerOnly, TypeOK
  <2>7. TunnelInv'
    BY <1>37 DEF WorkerFails, WorkerGoes, WorkerOnly, TypeOK
  <2> QED
    BY <2>1, <2>2, <2>3, <2>4, <2>5, <2>6, <2>7
<1>38. ASSUME NEW r \in Requests, WorkerWins(r) PROVE IInv'
  <2>1. TypeOK'
    BY <1>38 DEF WorkerWins, WorkerGoes, TypeOK, States
  <2>2. OrderInv'
    BY <1>38 DEF WorkerWins, WorkerGoes, TypeOK
  <2>3. FieldInv'
    BY <1>38 DEF WorkerWins, WorkerGoes, TypeOK
  <2>4. StopInv'
    BY <1>38 DEF WorkerWins, WorkerGoes, TypeOK
  <2>5. ActiveInv'
    BY <1>38 DEF WorkerWins, WorkerGoes, TypeOK
  <2>6. StopHitsItsOwn'
    BY <1>38 DEF WorkerWins, WorkerGoes, TypeOK
  <2>7. TunnelInv'
    BY <1>38 DEF WorkerWins, WorkerGoes, TypeOK
  <2> QED
    BY <2>1, <2>2, <2>3, <2>4, <2>5, <2>6, <2>7
<1>39. ASSUME NEW r \in Requests, WorkerCloses(r) PROVE IInv'
  <2>1. TypeOK'
    BY <1>39 DEF WorkerCloses, WorkerGoes, TunnelClosed, TypeOK, States
  <2>2. OrderInv'
    BY <1>39 DEF WorkerCloses, WorkerGoes, TunnelClosed, TypeOK
  <2>3. FieldInv'
    BY <1>39 DEF WorkerCloses, WorkerGoes, TunnelClosed, TypeOK
  <2>4. StopInv'
    BY <1>39 DEF WorkerCloses, WorkerGoes, TunnelClosed, TypeOK
  <2>5. ActiveInv'
    BY <1>39 DEF WorkerCloses, WorkerGoes, TunnelClosed, TypeOK
  <2>6. StopHitsItsOwn'
    BY <1>39 DEF WorkerCloses, WorkerGoes, TunnelClosed, TypeOK
  <2>7. TunnelInv'
    BY <1>39 DEF WorkerCloses, WorkerGoes, TunnelClosed, TypeOK
  <2> QED
    BY <2>1, <2>2, <2>3, <2>4, <2>5, <2>6, <2>7
<1>40. ASSUME NEW r \in Requests, WorkerReadsRunner(r) PROVE IInv'
  <2>1. TypeOK'
    BY <1>40 DEF WorkerReadsRunner, WorkerGoes, WorkerOnly, TypeOK, States
  <2>2. OrderInv'
    BY <1>40 DEF WorkerReadsRunner, WorkerGoes, WorkerOnly, TypeOK
  <2>3. FieldInv'
    BY <1>40 DEF WorkerReadsRunner, WorkerGoes, WorkerOnly, TypeOK
  <2>4. StopInv'
    BY <1>40 DEF WorkerReadsRunner, WorkerGoes, WorkerOnly, TypeOK
  <2>5. ActiveInv'
    BY <1>40 DEF WorkerReadsRunner, WorkerGoes, WorkerOnly, TypeOK
  <2>6. StopHitsItsOwn'
    BY <1>40 DEF WorkerReadsRunner, WorkerGoes, WorkerOnly, TypeOK
  <2>7. TunnelInv'
    BY <1>40 DEF WorkerReadsRunner, WorkerGoes, WorkerOnly, TypeOK
  <2> QED
    BY <2>1, <2>2, <2>3, <2>4, <2>5, <2>6, <2>7
<1>41. ASSUME NEW r \in Requests, WorkerInterrupts(r) PROVE IInv'
  <2>1. TypeOK'
    BY <1>41 DEF WorkerInterrupts, WorkerGoes, TypeOK, States
  <2>2. OrderInv'
    BY <1>41 DEF WorkerInterrupts, WorkerGoes, TypeOK
  <2>3. FieldInv'
    BY <1>41 DEF WorkerInterrupts, WorkerGoes, TypeOK
  <2>4. StopInv'
    BY <1>41 DEF WorkerInterrupts, WorkerGoes, TypeOK
  <2>5. ActiveInv'
    BY <1>41 DEF WorkerInterrupts, WorkerGoes, TypeOK
  <2>6. StopHitsItsOwn'
    BY <1>41 DEF WorkerInterrupts, WorkerGoes, TypeOK
  <2>7. TunnelInv'
    BY <1>41 DEF WorkerInterrupts, WorkerGoes, TypeOK
  <2> QED
    BY <2>1, <2>2, <2>3, <2>4, <2>5, <2>6, <2>7
<1>42. CASE ProcessDies
  <2>1. queue' \in Seq(Requests) /\ DOMAIN queue' = {}
    BY <1>42 DEF ProcessDies
  <2>2. worker' \in [Requests -> {"none", "alive", "failing", "won", "readRunner",
                                 "interrupt", "done"}]
    BY <1>42 DEF ProcessDies
  <2>3. TypeOK'
    <3>1. /\ UNCHANGED <<generation, mainReq, kind, lastStart, stopRequested, closed,
                         slipped, published, ending>>
          /\ mainPc' = "idle" /\ active' = None
          /\ execPc' = "idle" /\ execReq' = None /\ how' = "failed"
          /\ connection' = None
          /\ running' = {} /\ failure' = {} /\ tunnel' = {} /\ field' = {}
          /\ interrupted' = FALSE /\ destroyed' = TRUE
      BY <1>42 DEF ProcessDies, Returns
    <3>2. /\ generation \in 0..MaxRequests /\ mainReq \in 0..MaxRequests
          /\ kind \in [Requests -> {"none", "connect", "disconnect", "destroy"}]
          /\ lastStart \in 0..MaxRequests /\ 0 \in 0..MaxRequests
          /\ stopRequested \subseteq Requests /\ closed \subseteq Requests
          /\ slipped \subseteq Requests
          /\ published \in [state : States, by : 0..MaxRequests] /\ ending \in BOOLEAN
      BY DEF TypeOK
    <3>3. {} \subseteq Requests /\ "idle" \in MainSteps /\ "idle" \in TaskSteps
      OBVIOUS
    <3> HIDE DEF Requests, RunSteps, TaskSteps, MainSteps
    <3> QED
      BY <2>1, <2>2, <3>1, <3>2, <3>3 DEF TypeOK
  <2>4. OrderInv'
    BY <1>42, <2>1 DEF ProcessDies, Returns, TypeOK
  <2>5. FieldInv'
    BY <1>42 DEF ProcessDies, Returns, TypeOK
  <2>6. StopInv'
    BY <1>42 DEF ProcessDies, Returns, TypeOK
  <2>7. ActiveInv'
    BY <1>42 DEF ProcessDies, Returns, TypeOK
  <2>8. StopHitsItsOwn'
    BY <1>42 DEF ProcessDies, Returns, TypeOK
  <2>9. TunnelInv'
    BY <1>42 DEF ProcessDies, Returns, TypeOK
  <2> QED
    BY <2>3, <2>4, <2>5, <2>6, <2>7, <2>8, <2>9
<1>43. CASE UNCHANGED vars
    BY <1>43 DEF vars, TypeOK
<1> QED
    BY <1>1, <1>2, <1>3, <1>4, <1>5, <1>6, <1>7, <1>8, <1>9, <1>10, <1>11,
       <1>12, <1>13, <1>14, <1>15, <1>16, <1>17, <1>18, <1>19, <1>20, <1>21, <1>22,
       <1>23, <1>24, <1>25, <1>26, <1>27, <1>28, <1>29, <1>30, <1>31, <1>32, <1>33,
       <1>34, <1>35, <1>36, <1>37, <1>38, <1>39, <1>40, <1>41, <1>42, <1>43
    DEF Next, MainStep, ExecStep, WorkersStep, WorkerStep

LEMMA Invariance == Spec => []IInv
BY InitIInv, StepIInv, PTL DEF Spec

\* The types.
THEOREM TypesAlways == Spec => []TypeOK
BY Invariance, IInvImplies, PTL

\* No replaced connection runs on without a stop.
THEOREM SupersededIsStoppedAlways == Spec => []SupersededIsStopped
BY Invariance, IInvImplies, PTL

\* stop() interrupts no other connection than its own.
THEOREM StopHitsItsOwnAlways == Spec => []StopHitsItsOwn
BY Invariance, IInvImplies, PTL

\* No interface stays up but one that slipped through closeResources.
THEOREM NothingLeftOpenAlways == Spec => []NothingLeftOpen
BY Invariance, IInvImplies, PTL

-----------------------------------------------------------------------------
(***************************************************************************)
(* SettledStateShown. The newest request waits in the queue, or is the one *)
(* that runs, or is over, and nobody who publishes for another comes after *)
(* it: the executor is the only one that still has something to publish,   *)
(* and it runs the tasks in their order.                                   *)
(***************************************************************************)
Waits == \E i \in DOMAIN queue : queue[i] = generation

\* While an earlier task runs the newest request is still to come.
PendingInv ==
    execReq # None /\ execReq # generation /\ ~destroyed /\ mainPc = "idle" => Waits

\* Only superseded connections are stopped.
StoppedInv ==
    /\ \A r \in stopRequested : r < generation
    /\ mainPc \notin {"idle", "read", "handOver"} => active < generation
    /\ mainPc \in {"close", "closing", "readRunner", "interrupt"} =>
           active \in stopRequested

\* A connection whose "running" is false again was stopped or has a worker that
\* failed, so that the newest one ends with a failure.
EndInv ==
    /\ \A r \in Requests : worker[r] = "won" => r \in failure
    /\ execPc \in {"establish", "established", "connected", "publishConnected",
                   "startWorkers", "serve"}
          => execReq \in running \union stopRequested \union failure
    /\ execPc \in {"close", "ended", "publishOutcome"} /\ execReq = generation
          => how = "failed"

\* The task is of the kind its request asked for.
KindInv ==
    /\ execPc \in {"publishDisconnected", "stopService"} => kind[execReq] # "connect"
    /\ execPc \notin {"idle", "publishDisconnected", "stopService"}
          => kind[execReq] = "connect"

Shows(state) == published \in {Show(state, generation), NodeMissing}

\* What the newest request has published last, while it runs and when it is over.
ShownInv ==
    /\ execReq = generation =>
          /\ execPc \in {"startWorkers", "serve"} => Shows("connected")
          /\ execPc \in {"clear", "finish", "stopSelf"} => Shows("error")
          /\ execPc = "stopService" => Shows("disconnected")
    /\ (execReq # generation /\ ~Waits /\ mainPc = "idle" /\ ~destroyed) =>
          /\ kind[generation] = "connect" => Shows("error")
          /\ kind[generation] = "disconnect" => Shows("disconnected")

SettledInv == PendingInv /\ StoppedInv /\ EndInv /\ KindInv /\ ShownInv

LEMMA InitSettled == Init => SettledInv
<1> SUFFICES ASSUME Init PROVE SettledInv
    OBVIOUS
<1>1. PendingInv /\ StoppedInv /\ KindInv
    BY DEF Init, PendingInv, StoppedInv, KindInv
<1>2. EndInv
    BY DEF Init, EndInv
<1>3. ShownInv
    BY DEF Init, ShownInv, None
<1> QED
    BY <1>1, <1>2, <1>3 DEF SettledInv

LEMMA SettledImplies == IInv /\ SettledInv => SettledStateShown
<1> SUFFICES ASSUME IInv, SettledInv PROVE SettledStateShown
    OBVIOUS
<1>1. queue = <<>> => ~Waits
    BY DEF Waits
<1>2. (execPc = "idle" => execReq = None) /\ ShownInv
    BY DEF IInv, OrderInv, SettledInv
<1> QED
    BY <1>1, <1>2 DEF ShownInv, Shows, SettledStateShown, IsCurrent, IsNewest, None

\* Every step keeps it.
LEMMA StepSettled == IInv /\ SettledInv /\ [Next]_vars => SettledInv'
<1> SUFFICES ASSUME IInv, SettledInv, [Next]_vars PROVE SettledInv'
    OBVIOUS
<1>a. /\ generation \in Nat /\ execReq \in Nat /\ active \in Nat
      /\ mainReq \in 0..MaxRequests /\ execReq \in 0..MaxRequests
      /\ kind \in [Requests -> {"none", "connect", "disconnect", "destroy"}]
      /\ worker \in [Requests -> {"none", "alive", "failing", "won", "readRunner",
                                  "interrupt", "done"}]
      /\ stopRequested \subseteq Requests
      /\ MaxRequests \in Nat /\ generation \in 0..MaxRequests
    BY MaxRequestsAssumption DEF IInv, TypeOK, Requests
<1>b. /\ execPc = "idle" <=> execReq = None
      /\ execReq <= generation
      /\ \A i \in DOMAIN queue : queue[i] <= generation
      /\ mainPc # "idle" => /\ mainReq = generation /\ execReq < generation
                            /\ \A i \in DOMAIN queue : queue[i] < generation
      /\ connection = IF execPc \in Assigned THEN execReq ELSE None
    BY DEF IInv, OrderInv, FieldInv
<1>c. queue \in Seq(Requests)
    BY DEF IInv, TypeOK
<1>d. PendingInv /\ StoppedInv /\ EndInv /\ KindInv /\ ShownInv
    BY DEF SettledInv
<1> USE <1>a, <1>b, <1>d DEF Assigned, RunSteps, Requests, None, Shows, NodeMissing,
        shared, main, exec, inside, outside
<1>1. CASE ConnectArrives
  <2>1. PendingInv'
    BY <1>1 DEF ConnectArrives, Bump, PendingInv, Waits
  <2>2. StoppedInv'
    BY <1>1 DEF ConnectArrives, Bump, StoppedInv
  <2>3. EndInv'
    BY <1>1 DEF ConnectArrives, Bump, EndInv
  <2>4. KindInv'
    BY <1>1 DEF ConnectArrives, Bump, KindInv
  <2>5. ShownInv'
    BY <1>1 DEF ConnectArrives, Bump, ShownInv, Waits, Show
  <2> QED
    BY <2>1, <2>2, <2>3, <2>4, <2>5 DEF SettledInv
<1>2. CASE DisconnectArrives
  <2>1. PendingInv'
    BY <1>2 DEF DisconnectArrives, Revoked, Bump, PendingInv, Waits
  <2>2. StoppedInv'
    <3>1. Bump("disconnect")
      BY <1>2 DEF DisconnectArrives, Revoked
    <3> QED
      BY <3>1 DEF Bump, StoppedInv
  <2>3. EndInv'
    BY <1>2 DEF DisconnectArrives, Revoked, Bump, EndInv
  <2>4. KindInv'
    BY <1>2 DEF DisconnectArrives, Revoked, Bump, KindInv
  <2>5. ShownInv'
    BY <1>2 DEF DisconnectArrives, Revoked, Bump, ShownInv, Waits, Show
  <2> QED
    BY <2>1, <2>2, <2>3, <2>4, <2>5 DEF SettledInv
<1>3. CASE RefuseStart
  <2>1. PendingInv'
    BY <1>3 DEF RefuseStart, NodeMissing, Show, PendingInv, Waits
  <2>2. StoppedInv'
    BY <1>3 DEF RefuseStart, NodeMissing, Show, StoppedInv
  <2>3. EndInv'
    BY <1>3 DEF RefuseStart, NodeMissing, Show, EndInv
  <2>4. KindInv'
    BY <1>3 DEF RefuseStart, NodeMissing, Show, KindInv
  <2>5. ShownInv'
    BY <1>3 DEF RefuseStart, NodeMissing, Show, ShownInv, Waits
  <2> QED
    BY <2>1, <2>2, <2>3, <2>4, <2>5 DEF SettledInv
<1>4. CASE ReadActive
  <2>1. PendingInv'
    BY <1>4 DEF ReadActive, Show, PendingInv, Waits
  <2>2. StoppedInv'
    BY <1>4 DEF ReadActive, Show, StoppedInv
  <2>3. EndInv'
    BY <1>4 DEF ReadActive, Show, EndInv
  <2>4. KindInv'
    BY <1>4 DEF ReadActive, Show, KindInv
  <2>5. ShownInv'
    BY <1>4 DEF ReadActive, Show, ShownInv, Waits
  <2> QED
    BY <2>1, <2>2, <2>3, <2>4, <2>5 DEF SettledInv
<1>5. CASE StopRequest
  <2>1. PendingInv'
    BY <1>5 DEF StopRequest, MainGoes, PendingInv, Waits
  <2>2. StoppedInv'
    BY <1>5 DEF StopRequest, MainGoes, StoppedInv
  <2>3. EndInv'
    BY <1>5 DEF StopRequest, MainGoes, EndInv
  <2>4. KindInv'
    BY <1>5 DEF StopRequest, MainGoes, KindInv
  <2>5. ShownInv'
    BY <1>5 DEF StopRequest, MainGoes, ShownInv, Waits, Show
  <2> QED
    BY <2>1, <2>2, <2>3, <2>4, <2>5 DEF SettledInv
<1>6. CASE StopCloses
  <2>1. PendingInv'
    BY <1>6 DEF StopCloses, MainGoes, TunnelClosed, PendingInv, Waits
  <2>2. StoppedInv'
    BY <1>6 DEF StopCloses, MainGoes, TunnelClosed, StoppedInv
  <2>3. EndInv'
    BY <1>6 DEF StopCloses, MainGoes, TunnelClosed, EndInv, StoppedInv
  <2>4. KindInv'
    BY <1>6 DEF StopCloses, MainGoes, TunnelClosed, KindInv
  <2>5. ShownInv'
    BY <1>6 DEF StopCloses, MainGoes, TunnelClosed, ShownInv, Waits, Show
  <2> QED
    BY <2>1, <2>2, <2>3, <2>4, <2>5 DEF SettledInv
<1>7. CASE StopForgets
  <2>1. PendingInv'
    BY <1>7 DEF StopForgets, MainGoes, Forgets, PendingInv, Waits
  <2>2. StoppedInv'
    BY <1>7 DEF StopForgets, MainGoes, Forgets, StoppedInv
  <2>3. EndInv'
    BY <1>7 DEF StopForgets, MainGoes, Forgets, EndInv
  <2>4. KindInv'
    BY <1>7 DEF StopForgets, MainGoes, Forgets, KindInv
  <2>5. ShownInv'
    BY <1>7 DEF StopForgets, MainGoes, Forgets, ShownInv, Waits, Show
  <2> QED
    BY <2>1, <2>2, <2>3, <2>4, <2>5 DEF SettledInv
<1>8. CASE ReadRunner
  <2>1. PendingInv'
    BY <1>8 DEF ReadRunner, MainGoes, PendingInv, Waits
  <2>2. StoppedInv'
    BY <1>8 DEF ReadRunner, MainGoes, StoppedInv
  <2>3. EndInv'
    BY <1>8 DEF ReadRunner, MainGoes, EndInv
  <2>4. KindInv'
    BY <1>8 DEF ReadRunner, MainGoes, KindInv
  <2>5. ShownInv'
    BY <1>8 DEF ReadRunner, MainGoes, ShownInv, Waits, Show
  <2> QED
    BY <2>1, <2>2, <2>3, <2>4, <2>5 DEF SettledInv
<1>9. CASE StopInterrupts
  <2>1. PendingInv'
    BY <1>9 DEF StopInterrupts, MainGoes, PendingInv, Waits
  <2>2. StoppedInv'
    BY <1>9 DEF StopInterrupts, MainGoes, StoppedInv
  <2>3. EndInv'
    BY <1>9 DEF StopInterrupts, MainGoes, EndInv
  <2>4. KindInv'
    BY <1>9 DEF StopInterrupts, MainGoes, KindInv
  <2>5. ShownInv'
    BY <1>9 DEF StopInterrupts, MainGoes, ShownInv, Waits, Show
  <2> QED
    BY <2>1, <2>2, <2>3, <2>4, <2>5 DEF SettledInv
<1>10. CASE EnqueueConnect
  <2>1. mainReq \in Requests /\ queue' = Append(queue, mainReq)
    BY <1>10 DEF EnqueueConnect
  <2>2. Waits'
    <3>1. /\ Len(queue) + 1 \in DOMAIN queue' /\ queue'[Len(queue) + 1] = mainReq
      <4> HIDE DEF Requests
      <4> QED
        BY <1>c, <2>1, AppendKeeps
    <3> QED
        BY <1>10, <3>1 DEF EnqueueConnect, Waits
  <2>3. PendingInv'
    BY <1>10, <2>2 DEF EnqueueConnect, Returns, Show, PendingInv
  <2>4. StoppedInv'
    BY <1>10 DEF EnqueueConnect, Returns, Show, StoppedInv
  <2>5. EndInv'
    BY <1>10 DEF EnqueueConnect, Returns, Show, EndInv
  <2>6. KindInv'
    BY <1>10 DEF EnqueueConnect, Returns, Show, KindInv
  <2>7. ShownInv'
    BY <1>10, <2>2 DEF EnqueueConnect, Returns, Show, ShownInv
  <2> QED
    BY <2>3, <2>4, <2>5, <2>6, <2>7 DEF SettledInv
<1>11. CASE EnqueueDisconnect
  <2>1. mainReq \in Requests /\ queue' = Append(queue, mainReq)
    BY <1>11 DEF EnqueueDisconnect
  <2>2. Waits'
    <3>1. /\ Len(queue) + 1 \in DOMAIN queue' /\ queue'[Len(queue) + 1] = mainReq
      <4> HIDE DEF Requests
      <4> QED
        BY <1>c, <2>1, AppendKeeps
    <3> QED
        BY <1>11, <3>1 DEF EnqueueDisconnect, Waits
  <2>3. PendingInv'
    BY <1>11, <2>2 DEF EnqueueDisconnect, Returns, PendingInv
  <2>4. StoppedInv'
    BY <1>11 DEF EnqueueDisconnect, Returns, StoppedInv
  <2>5. EndInv'
    BY <1>11 DEF EnqueueDisconnect, Returns, EndInv
  <2>6. KindInv'
    BY <1>11 DEF EnqueueDisconnect, Returns, KindInv
  <2>7. ShownInv'
    BY <1>11, <2>2 DEF EnqueueDisconnect, Returns, ShownInv, Show
  <2> QED
    BY <2>3, <2>4, <2>5, <2>6, <2>7 DEF SettledInv
<1>12. CASE DestroyBegins
  <2>1. PendingInv'
    BY <1>12 DEF DestroyBegins, Bump, PendingInv, Waits
  <2>2. StoppedInv'
    BY <1>12 DEF DestroyBegins, Bump, StoppedInv
  <2>3. EndInv'
    BY <1>12 DEF DestroyBegins, Bump, EndInv
  <2>4. KindInv'
    BY <1>12 DEF DestroyBegins, Bump, KindInv
  <2>5. ShownInv'
    BY <1>12 DEF DestroyBegins, Bump, ShownInv, Waits, Show
  <2> QED
    BY <2>1, <2>2, <2>3, <2>4, <2>5 DEF SettledInv
<1>13. CASE ShutdownNow
  <2>1. PendingInv'
    BY <1>13 DEF ShutdownNow, Returns, PendingInv, Waits
  <2>2. StoppedInv'
    BY <1>13 DEF ShutdownNow, Returns, StoppedInv
  <2>3. EndInv'
    BY <1>13 DEF ShutdownNow, Returns, EndInv
  <2>4. KindInv'
    BY <1>13 DEF ShutdownNow, Returns, KindInv
  <2>5. ShownInv'
    BY <1>13 DEF ShutdownNow, Returns, ShownInv, Waits, Show
  <2> QED
    BY <2>1, <2>2, <2>3, <2>4, <2>5 DEF SettledInv
<1>14. CASE TakeTask
  <2>1. Head(queue) \in Requests /\ Head(queue) = queue[1]
    <3> HIDE DEF Requests
    <3> QED
        BY <1>14, <1>c, TailKeeps DEF TakeTask
  <2>2. Waits => Head(queue) = generation \/ Waits'
    <3>1. /\ Len(queue) \in Nat \ {0} /\ DOMAIN queue = 1..Len(queue)
          /\ DOMAIN queue' = 1..(Len(queue) - 1)
          /\ \A i \in 1..(Len(queue) - 1) : queue'[i] = queue[i + 1]
      <4> HIDE DEF Requests
      <4> QED
        BY <1>14, <1>c, TailKeeps DEF TakeTask
    <3>2. ASSUME NEW i \in DOMAIN queue, queue[i] = generation, i # 1
          PROVE  Waits'
      <4>1. i - 1 \in DOMAIN queue' /\ queue'[i - 1] = generation
        BY <3>1, <3>2
      <4> QED
        BY <1>14, <4>1 DEF TakeTask, Waits
    <3> QED
        BY <2>1, <3>2 DEF Waits
  <2>3. PendingInv'
    BY <1>14, <2>1, <2>2 DEF TakeTask, IsNewest, PendingInv
  <2>4. StoppedInv'
    BY <1>14, <2>1, <2>2 DEF TakeTask, IsNewest, StoppedInv
  <2>5. EndInv'
    BY <1>14, <2>1, <2>2 DEF TakeTask, IsNewest, EndInv
  <2>6. KindInv'
    BY <1>14, <2>1, <2>2 DEF TakeTask, IsNewest, KindInv
  <2>7. ShownInv'
    BY <1>14, <2>1, <2>2 DEF TakeTask, IsNewest, ShownInv, Show
  <2> QED
    BY <2>3, <2>4, <2>5, <2>6, <2>7 DEF SettledInv
<1>15. CASE Create
  <2>1. PendingInv'
    BY <1>15 DEF Create, GoTo, ExecOnly, IsCurrent, IsNewest, PendingInv, Waits
  <2>2. StoppedInv'
    BY <1>15 DEF Create, GoTo, ExecOnly, IsCurrent, IsNewest, StoppedInv
  <2>3. EndInv'
    BY <1>15 DEF Create, GoTo, ExecOnly, IsCurrent, IsNewest, EndInv
  <2>4. KindInv'
    BY <1>15 DEF Create, GoTo, ExecOnly, IsCurrent, IsNewest, KindInv
  <2>5. ShownInv'
    BY <1>15 DEF Create, GoTo, ExecOnly, IsCurrent, IsNewest, ShownInv, Waits, Show
  <2> QED
    BY <2>1, <2>2, <2>3, <2>4, <2>5 DEF SettledInv
<1>16. CASE Assign
  <2>1. PendingInv'
    BY <1>16 DEF Assign, GoTo, PendingInv, Waits
  <2>2. StoppedInv'
    BY <1>16 DEF Assign, GoTo, StoppedInv
  <2>3. EndInv'
    BY <1>16 DEF Assign, GoTo, EndInv
  <2>4. KindInv'
    BY <1>16 DEF Assign, GoTo, KindInv
  <2>5. ShownInv'
    BY <1>16 DEF Assign, GoTo, ShownInv, Waits, Show
  <2> QED
    BY <2>1, <2>2, <2>3, <2>4, <2>5 DEF SettledInv
<1>17. CASE Recheck
  <2>1. PendingInv'
    BY <1>17 DEF Recheck, GoTo, IsCurrent, IsNewest, PendingInv, Waits
  <2>2. StoppedInv'
    BY <1>17 DEF Recheck, GoTo, IsCurrent, IsNewest, StoppedInv
  <2>3. EndInv'
    BY <1>17 DEF Recheck, GoTo, IsCurrent, IsNewest, EndInv
  <2>4. KindInv'
    BY <1>17 DEF Recheck, GoTo, IsCurrent, IsNewest, KindInv
  <2>5. ShownInv'
    BY <1>17 DEF Recheck, GoTo, IsCurrent, IsNewest, ShownInv, Waits, Show
  <2> QED
    BY <2>1, <2>2, <2>3, <2>4, <2>5 DEF SettledInv
<1>18. CASE Stage
  <2>1. PendingInv'
    BY <1>18 DEF Stage, Checked, GoTo, ExecOnly, PendingInv, Waits
  <2>2. StoppedInv'
    BY <1>18 DEF Stage, Checked, GoTo, ExecOnly, StoppedInv
  <2>3. EndInv'
    BY <1>18 DEF Stage, Checked, GoTo, ExecOnly, EndInv
  <2>4. KindInv'
    BY <1>18 DEF Stage, Checked, GoTo, ExecOnly, KindInv
  <2>5. ShownInv'
    BY <1>18 DEF Stage, Checked, GoTo, ExecOnly, ShownInv, Waits, Show
  <2> QED
    BY <2>1, <2>2, <2>3, <2>4, <2>5 DEF SettledInv
<1>19. CASE PublishStage
  <2>1. PendingInv'
    BY <1>19 DEF PublishStage, Published, GoTo, Show, PendingInv, Waits
  <2>2. StoppedInv'
    BY <1>19 DEF PublishStage, Published, GoTo, Show, StoppedInv
  <2>3. EndInv'
    BY <1>19 DEF PublishStage, Published, GoTo, Show, EndInv
  <2>4. KindInv'
    BY <1>19 DEF PublishStage, Published, GoTo, Show, KindInv
  <2>5. ShownInv'
    BY <1>19 DEF PublishStage, Published, GoTo, Show, ShownInv, Waits, PendingInv
  <2> QED
    BY <2>1, <2>2, <2>3, <2>4, <2>5 DEF SettledInv
<1>20. CASE Handshake
  <2>1. PendingInv'
    BY <1>20 DEF Handshake, GoTo, Ends, ExecOnly, PendingInv, Waits
  <2>2. StoppedInv'
    BY <1>20 DEF Handshake, GoTo, Ends, ExecOnly, StoppedInv
  <2>3. EndInv'
    BY <1>20 DEF Handshake, GoTo, Ends, ExecOnly, EndInv
  <2>4. KindInv'
    BY <1>20 DEF Handshake, GoTo, Ends, ExecOnly, KindInv
  <2>5. ShownInv'
    BY <1>20 DEF Handshake, GoTo, Ends, ExecOnly, ShownInv, Waits, Show
  <2> QED
    BY <2>1, <2>2, <2>3, <2>4, <2>5 DEF SettledInv
<1>21. CASE SetRunning
  <2>1. PendingInv'
    BY <1>21 DEF SetRunning, GoTo, PendingInv, Waits
  <2>2. StoppedInv'
    BY <1>21 DEF SetRunning, GoTo, StoppedInv
  <2>3. EndInv'
    BY <1>21 DEF SetRunning, GoTo, EndInv
  <2>4. KindInv'
    BY <1>21 DEF SetRunning, GoTo, KindInv
  <2>5. ShownInv'
    BY <1>21 DEF SetRunning, GoTo, ShownInv, Waits, Show
  <2> QED
    BY <2>1, <2>2, <2>3, <2>4, <2>5 DEF SettledInv
<1>22. CASE Establish
  <2>1. PendingInv'
    BY <1>22 DEF Establish, GoTo, Ends, ExecOnly, PendingInv, Waits
  <2>2. StoppedInv'
    BY <1>22 DEF Establish, GoTo, Ends, ExecOnly, StoppedInv
  <2>3. EndInv'
    BY <1>22 DEF Establish, GoTo, Ends, ExecOnly, EndInv
  <2>4. KindInv'
    BY <1>22 DEF Establish, GoTo, Ends, ExecOnly, KindInv
  <2>5. ShownInv'
    BY <1>22 DEF Establish, GoTo, Ends, ExecOnly, ShownInv, Waits, Show
  <2> QED
    BY <2>1, <2>2, <2>3, <2>4, <2>5 DEF SettledInv
<1>23. CASE Established
  <2>1. PendingInv'
    BY <1>23 DEF Established, GoTo, Ends, ExecOnly, PendingInv, Waits
  <2>2. StoppedInv'
    BY <1>23 DEF Established, GoTo, Ends, ExecOnly, StoppedInv
  <2>3. EndInv'
    BY <1>23 DEF Established, GoTo, Ends, ExecOnly, EndInv
  <2>4. KindInv'
    BY <1>23 DEF Established, GoTo, Ends, ExecOnly, KindInv
  <2>5. ShownInv'
    BY <1>23 DEF Established, GoTo, Ends, ExecOnly, ShownInv, Waits, Show
  <2> QED
    BY <2>1, <2>2, <2>3, <2>4, <2>5 DEF SettledInv
<1>24. CASE Connected
  <2>1. PendingInv'
    BY <1>24 DEF Connected, Checked, GoTo, ExecOnly, PendingInv, Waits
  <2>2. StoppedInv'
    BY <1>24 DEF Connected, Checked, GoTo, ExecOnly, StoppedInv
  <2>3. EndInv'
    BY <1>24 DEF Connected, Checked, GoTo, ExecOnly, EndInv
  <2>4. KindInv'
    BY <1>24 DEF Connected, Checked, GoTo, ExecOnly, KindInv
  <2>5. ShownInv'
    BY <1>24 DEF Connected, Checked, GoTo, ExecOnly, ShownInv, Waits, Show,
       PendingInv, IsCurrent, IsNewest
  <2> QED
    BY <2>1, <2>2, <2>3, <2>4, <2>5 DEF SettledInv
<1>25. CASE PublishConnected
  <2>1. PendingInv'
    BY <1>25 DEF PublishConnected, Published, GoTo, Show, PendingInv, Waits
  <2>2. StoppedInv'
    BY <1>25 DEF PublishConnected, Published, GoTo, Show, StoppedInv
  <2>3. EndInv'
    BY <1>25 DEF PublishConnected, Published, GoTo, Show, EndInv
  <2>4. KindInv'
    BY <1>25 DEF PublishConnected, Published, GoTo, Show, KindInv
  <2>5. ShownInv'
    BY <1>25 DEF PublishConnected, Published, GoTo, Show, ShownInv, Waits,
       PendingInv
  <2> QED
    BY <2>1, <2>2, <2>3, <2>4, <2>5 DEF SettledInv
<1>26. CASE StartWorkers
  <2>1. PendingInv'
    BY <1>26 DEF StartWorkers, GoTo, PendingInv, Waits
  <2>2. StoppedInv'
    BY <1>26 DEF StartWorkers, GoTo, StoppedInv
  <2>3. EndInv'
    BY <1>26 DEF StartWorkers, GoTo, EndInv
  <2>4. KindInv'
    BY <1>26 DEF StartWorkers, GoTo, KindInv
  <2>5. ShownInv'
    BY <1>26 DEF StartWorkers, GoTo, ShownInv, Waits, Show
  <2> QED
    BY <2>1, <2>2, <2>3, <2>4, <2>5 DEF SettledInv
<1>27. CASE ServeEnds
  <2>1. PendingInv'
    BY <1>27 DEF ServeEnds, Ends, PendingInv, Waits
  <2>2. StoppedInv'
    BY <1>27 DEF ServeEnds, Ends, StoppedInv
  <2>3. EndInv'
    BY <1>27 DEF ServeEnds, Ends, EndInv, StoppedInv
  <2>4. KindInv'
    BY <1>27 DEF ServeEnds, Ends, KindInv
  <2>5. ShownInv'
    BY <1>27 DEF ServeEnds, Ends, ShownInv, Waits, Show
  <2> QED
    BY <2>1, <2>2, <2>3, <2>4, <2>5 DEF SettledInv
<1>28. CASE CloseAtEnd
  <2>1. PendingInv'
    BY <1>28 DEF CloseAtEnd, GoTo, Forgets, TunnelClosed, PendingInv, Waits
  <2>2. StoppedInv'
    BY <1>28 DEF CloseAtEnd, GoTo, Forgets, TunnelClosed, StoppedInv
  <2>3. EndInv'
    BY <1>28 DEF CloseAtEnd, GoTo, Forgets, TunnelClosed, EndInv
  <2>4. KindInv'
    BY <1>28 DEF CloseAtEnd, GoTo, Forgets, TunnelClosed, KindInv
  <2>5. ShownInv'
    BY <1>28 DEF CloseAtEnd, GoTo, Forgets, TunnelClosed, ShownInv, Waits, Show
  <2> QED
    BY <2>1, <2>2, <2>3, <2>4, <2>5 DEF SettledInv
<1>29. CASE Ended
  <2>1. PendingInv'
    BY <1>29 DEF Ended, Checked, GoTo, ExecOnly, PendingInv, Waits
  <2>2. StoppedInv'
    BY <1>29 DEF Ended, Checked, GoTo, ExecOnly, StoppedInv
  <2>3. EndInv'
    BY <1>29 DEF Ended, Checked, GoTo, ExecOnly, EndInv
  <2>4. KindInv'
    BY <1>29 DEF Ended, Checked, GoTo, ExecOnly, KindInv
  <2>5. ShownInv'
    BY <1>29 DEF Ended, Checked, GoTo, ExecOnly, ShownInv, Waits, Show,
       PendingInv, IsCurrent, IsNewest
  <2> QED
    BY <2>1, <2>2, <2>3, <2>4, <2>5 DEF SettledInv
<1>30. CASE PublishOutcome
  <2>1. PendingInv'
    BY <1>30 DEF PublishOutcome, Published, GoTo, Show, Outcome, PendingInv, Waits
  <2>2. StoppedInv'
    BY <1>30 DEF PublishOutcome, Published, GoTo, Show, Outcome, StoppedInv
  <2>3. EndInv'
    BY <1>30 DEF PublishOutcome, Published, GoTo, Show, Outcome, EndInv
  <2>4. KindInv'
    BY <1>30 DEF PublishOutcome, Published, GoTo, Show, Outcome, KindInv
  <2>5. ShownInv'
    BY <1>30 DEF PublishOutcome, Published, GoTo, Show, Outcome, ShownInv, Waits,
       PendingInv, EndInv
  <2> QED
    BY <2>1, <2>2, <2>3, <2>4, <2>5 DEF SettledInv
<1>31. CASE Clear
  <2>1. PendingInv'
    BY <1>31 DEF Clear, GoTo, PendingInv, Waits
  <2>2. StoppedInv'
    BY <1>31 DEF Clear, GoTo, StoppedInv
  <2>3. EndInv'
    BY <1>31 DEF Clear, GoTo, EndInv
  <2>4. KindInv'
    BY <1>31 DEF Clear, GoTo, KindInv
  <2>5. ShownInv'
    BY <1>31 DEF Clear, GoTo, ShownInv, Waits, Show
  <2> QED
    BY <2>1, <2>2, <2>3, <2>4, <2>5 DEF SettledInv
<1>32. CASE Finish
  <2>1. PendingInv'
    BY <1>32 DEF Finish, Checked, GoTo, ExecOnly, PendingInv, Waits
  <2>2. StoppedInv'
    BY <1>32 DEF Finish, Checked, GoTo, ExecOnly, StoppedInv
  <2>3. EndInv'
    BY <1>32 DEF Finish, Checked, GoTo, ExecOnly, EndInv
  <2>4. KindInv'
    BY <1>32 DEF Finish, Checked, GoTo, ExecOnly, KindInv
  <2>5. ShownInv'
    BY <1>32 DEF Finish, Checked, GoTo, ExecOnly, ShownInv, Waits, Show,
       PendingInv, IsCurrent, IsNewest
  <2> QED
    BY <2>1, <2>2, <2>3, <2>4, <2>5 DEF SettledInv
<1>33. CASE StopSelfResult
  <2>1. PendingInv'
    BY <1>33 DEF StopSelfResult, GoTo, PendingInv, Waits
  <2>2. StoppedInv'
    BY <1>33 DEF StopSelfResult, GoTo, StoppedInv
  <2>3. EndInv'
    BY <1>33 DEF StopSelfResult, GoTo, EndInv
  <2>4. KindInv'
    BY <1>33 DEF StopSelfResult, GoTo, KindInv
  <2>5. ShownInv'
    BY <1>33 DEF StopSelfResult, GoTo, ShownInv, Waits, Show, PendingInv, KindInv
  <2> QED
    BY <2>1, <2>2, <2>3, <2>4, <2>5 DEF SettledInv
<1>34. CASE PublishDisconnected
  <2>1. PendingInv'
    BY <1>34 DEF PublishDisconnected, Published, GoTo, Show, PendingInv, Waits
  <2>2. StoppedInv'
    BY <1>34 DEF PublishDisconnected, Published, GoTo, Show, StoppedInv
  <2>3. EndInv'
    BY <1>34 DEF PublishDisconnected, Published, GoTo, Show, EndInv
  <2>4. KindInv'
    BY <1>34 DEF PublishDisconnected, Published, GoTo, Show, KindInv
  <2>5. ShownInv'
    BY <1>34 DEF PublishDisconnected, Published, GoTo, Show, ShownInv, Waits,
       PendingInv
  <2> QED
    BY <2>1, <2>2, <2>3, <2>4, <2>5 DEF SettledInv
<1>35. CASE StopService
  <2>1. PendingInv'
    BY <1>35 DEF StopService, GoTo, PendingInv, Waits
  <2>2. StoppedInv'
    BY <1>35 DEF StopService, GoTo, StoppedInv
  <2>3. EndInv'
    BY <1>35 DEF StopService, GoTo, EndInv
  <2>4. KindInv'
    BY <1>35 DEF StopService, GoTo, KindInv
  <2>5. ShownInv'
    BY <1>35 DEF StopService, GoTo, ShownInv, Waits, Show, PendingInv, KindInv
  <2> QED
    BY <2>1, <2>2, <2>3, <2>4, <2>5 DEF SettledInv
<1>36. CASE ServeFails
  <2>1. PendingInv'
    BY <1>36 DEF ServeFails, Ends, ExecOnly, PendingInv, Waits
  <2>2. StoppedInv'
    BY <1>36 DEF ServeFails, Ends, ExecOnly, StoppedInv
  <2>3. EndInv'
    BY <1>36 DEF ServeFails, Ends, ExecOnly, EndInv
  <2>4. KindInv'
    BY <1>36 DEF ServeFails, Ends, ExecOnly, KindInv
  <2>5. ShownInv'
    BY <1>36 DEF ServeFails, Ends, ExecOnly, ShownInv, Waits, Show
  <2> QED
    BY <2>1, <2>2, <2>3, <2>4, <2>5 DEF SettledInv
<1>37. ASSUME NEW r \in Requests, WorkerFails(r) PROVE SettledInv'
  <2>1. PendingInv'
    BY <1>37 DEF WorkerFails, WorkerGoes, WorkerOnly, PendingInv, Waits
  <2>2. StoppedInv'
    BY <1>37 DEF WorkerFails, WorkerGoes, WorkerOnly, StoppedInv
  <2>3. EndInv'
    BY <1>37 DEF WorkerFails, WorkerGoes, WorkerOnly, EndInv
  <2>4. KindInv'
    BY <1>37 DEF WorkerFails, WorkerGoes, WorkerOnly, KindInv
  <2>5. ShownInv'
    BY <1>37 DEF WorkerFails, WorkerGoes, WorkerOnly, ShownInv, Waits, Show
  <2> QED
    BY <2>1, <2>2, <2>3, <2>4, <2>5 DEF SettledInv
<1>38. ASSUME NEW r \in Requests, WorkerWins(r) PROVE SettledInv'
  <2>1. PendingInv'
    BY <1>38 DEF WorkerWins, WorkerGoes, PendingInv, Waits
  <2>2. StoppedInv'
    BY <1>38 DEF WorkerWins, WorkerGoes, StoppedInv
  <2>3. EndInv'
    BY <1>38 DEF WorkerWins, WorkerGoes, EndInv
  <2>4. KindInv'
    BY <1>38 DEF WorkerWins, WorkerGoes, KindInv
  <2>5. ShownInv'
    BY <1>38 DEF WorkerWins, WorkerGoes, ShownInv, Waits, Show
  <2> QED
    BY <2>1, <2>2, <2>3, <2>4, <2>5 DEF SettledInv
<1>39. ASSUME NEW r \in Requests, WorkerCloses(r) PROVE SettledInv'
  <2>1. PendingInv'
    BY <1>39 DEF WorkerCloses, WorkerGoes, TunnelClosed, PendingInv, Waits
  <2>2. StoppedInv'
    BY <1>39 DEF WorkerCloses, WorkerGoes, TunnelClosed, StoppedInv
  <2>3. EndInv'
    BY <1>39 DEF WorkerCloses, WorkerGoes, TunnelClosed, EndInv
  <2>4. KindInv'
    BY <1>39 DEF WorkerCloses, WorkerGoes, TunnelClosed, KindInv
  <2>5. ShownInv'
    BY <1>39 DEF WorkerCloses, WorkerGoes, TunnelClosed, ShownInv, Waits, Show
  <2> QED
    BY <2>1, <2>2, <2>3, <2>4, <2>5 DEF SettledInv
<1>40. ASSUME NEW r \in Requests, WorkerReadsRunner(r) PROVE SettledInv'
  <2>1. PendingInv'
    BY <1>40 DEF WorkerReadsRunner, WorkerGoes, WorkerOnly, PendingInv, Waits
  <2>2. StoppedInv'
    BY <1>40 DEF WorkerReadsRunner, WorkerGoes, WorkerOnly, StoppedInv
  <2>3. EndInv'
    BY <1>40 DEF WorkerReadsRunner, WorkerGoes, WorkerOnly, EndInv
  <2>4. KindInv'
    BY <1>40 DEF WorkerReadsRunner, WorkerGoes, WorkerOnly, KindInv
  <2>5. ShownInv'
    BY <1>40 DEF WorkerReadsRunner, WorkerGoes, WorkerOnly, ShownInv, Waits, Show
  <2> QED
    BY <2>1, <2>2, <2>3, <2>4, <2>5 DEF SettledInv
<1>41. ASSUME NEW r \in Requests, WorkerInterrupts(r) PROVE SettledInv'
  <2>1. PendingInv'
    BY <1>41 DEF WorkerInterrupts, WorkerGoes, PendingInv, Waits
  <2>2. StoppedInv'
    BY <1>41 DEF WorkerInterrupts, WorkerGoes, StoppedInv
  <2>3. EndInv'
    BY <1>41 DEF WorkerInterrupts, WorkerGoes, EndInv
  <2>4. KindInv'
    BY <1>41 DEF WorkerInterrupts, WorkerGoes, KindInv
  <2>5. ShownInv'
    BY <1>41 DEF WorkerInterrupts, WorkerGoes, ShownInv, Waits, Show
  <2> QED
    BY <2>1, <2>2, <2>3, <2>4, <2>5 DEF SettledInv
<1>42. CASE ProcessDies
  <2>1. PendingInv'
    BY <1>42 DEF ProcessDies, Returns, PendingInv, Waits
  <2>2. StoppedInv'
    BY <1>42 DEF ProcessDies, Returns, StoppedInv
  <2>3. EndInv'
    BY <1>42 DEF ProcessDies, Returns, EndInv
  <2>4. KindInv'
    BY <1>42 DEF ProcessDies, Returns, KindInv
  <2>5. ShownInv'
    BY <1>42 DEF ProcessDies, Returns, ShownInv, Waits, Show
  <2> QED
    BY <2>1, <2>2, <2>3, <2>4, <2>5 DEF SettledInv
<1>43. CASE UNCHANGED vars
    BY <1>43 DEF vars, SettledInv, PendingInv, StoppedInv, EndInv, KindInv, ShownInv,
       Waits
<1> QED
    BY <1>1, <1>2, <1>3, <1>4, <1>5, <1>6, <1>7, <1>8, <1>9, <1>10, <1>11,
       <1>12, <1>13, <1>14, <1>15, <1>16, <1>17, <1>18, <1>19, <1>20, <1>21, <1>22,
       <1>23, <1>24, <1>25, <1>26, <1>27, <1>28, <1>29, <1>30, <1>31, <1>32, <1>33,
       <1>34, <1>35, <1>36, <1>37, <1>38, <1>39, <1>40, <1>41, <1>42, <1>43
    DEF Next, MainStep, ExecStep, WorkersStep, WorkerStep

\* At rest the screens show what the newest request has come to.
THEOREM SettledStateShownAlways == Spec => []SettledStateShown
<1>1. Init => IInv /\ SettledInv
    BY InitIInv, InitSettled
<1>2. IInv /\ SettledInv /\ [Next]_vars => IInv' /\ SettledInv'
    BY StepIInv, StepSettled
<1>3. IInv /\ SettledInv => SettledStateShown
    BY SettledImplies
<1> QED
    BY <1>1, <1>2, <1>3, PTL DEF Spec

-----------------------------------------------------------------------------
(***************************************************************************)
(* DisconnectCompletes and FailureEndsRun under the fairness of FairSpec.  *)
(* The provers do not know what ENABLED means and cannot do induction over *)
(* behaviours: "Due" and "RequestsEnd" are hypotheses.                     *)
(***************************************************************************)

\* Tasks wait, and are taken, in the order of their requests.
QueueInv ==
    /\ \A i, j \in DOMAIN queue : i < j => queue[i] < queue[j]
    /\ \A i \in DOMAIN queue : execReq < queue[i]

\* Workers belong to a connection that serves or is over.
Served == {"serve", "close", "ended", "publishOutcome", "clear", "finish", "stopSelf"}
WorkerInv == \A r \in Requests : worker[r] # "none" =>
    /\ r <= generation
    /\ mainPc # "idle" => r < generation
    /\ \A i \in DOMAIN queue : r < queue[i]
    /\ execReq = r => execPc \in Served

\* A worker that failed closes the connection, or has done so.
FailInv == \A r \in failure : worker[r] = "won" \/ r \in closed

\* No wakeup is lost: the sockets of a connection that was stopped are closed, or
\* the main thread is about to do that.
ClosedInv == Runs(execReq) /\ execReq \in stopRequested =>
    execReq \in closed \/ (active = execReq /\ mainPc \in {"close", "closing"})

\* The newest request has a kind, and a destroy request has destroyed the service.
NewestInv == generation # 0 =>
    /\ kind[generation] # "none"
    /\ kind[generation] = "destroy" /\ mainPc = "idle" => destroyed

RestInv == QueueInv /\ WorkerInv /\ FailInv /\ ClosedInv /\ NewestInv

LEMMA InitRest == Init => RestInv
BY DEF Init, RestInv, QueueInv, WorkerInv, FailInv, ClosedInv, NewestInv, Runs, RunSteps

\* Every step keeps it.
LEMMA StepRest == IInv /\ SettledInv /\ RestInv /\ [Next]_vars => RestInv'
<1> SUFFICES ASSUME IInv, SettledInv, RestInv, [Next]_vars PROVE RestInv'
    OBVIOUS
<1>a. /\ generation \in Nat /\ execReq \in Nat /\ active \in Nat
      /\ execReq \in 0..MaxRequests
      /\ worker \in [Requests -> {"none", "alive", "failing", "won", "readRunner",
                                  "interrupt", "done"}]
      /\ kind \in [Requests -> {"none", "connect", "disconnect", "destroy"}]
      /\ generation \in 0..MaxRequests
      /\ failure \subseteq Requests /\ closed \subseteq Requests
      /\ MaxRequests \in Nat
    BY MaxRequestsAssumption DEF IInv, TypeOK, Requests
<1>b. /\ execPc = "idle" <=> execReq = None
      /\ mainPc # "idle" => /\ mainReq = generation /\ execReq < generation
                            /\ \A i \in DOMAIN queue : queue[i] < generation
      /\ \A i \in DOMAIN queue : queue[i] <= generation
      /\ execReq <= generation
      /\ mainPc \notin {"idle", "read", "handOver"} => active \in Requests
    BY DEF IInv, OrderInv, ActiveInv
<1>c. queue \in Seq(Requests)
    BY DEF IInv, TypeOK
<1>e. \A i \in DOMAIN queue : queue[i] \in Nat /\ queue[i] > 0
    BY <1>a, <1>c DEF Requests
<1>d. QueueInv /\ WorkerInv /\ FailInv /\ ClosedInv /\ NewestInv
    BY DEF RestInv
<1> USE <1>a, <1>b, <1>d, <1>e DEF Runs, RunSteps, Requests, None, Served,
        shared, main, exec, inside, outside
<1>1. CASE ConnectArrives
    BY <1>1 DEF ConnectArrives, Bump, RestInv, QueueInv, WorkerInv, FailInv, ClosedInv,
               NewestInv
<1>2. CASE DisconnectArrives
  <2>1. Bump("disconnect")
    BY <1>2 DEF DisconnectArrives, Revoked
  <2> QED
    BY <2>1 DEF Bump, RestInv, QueueInv, WorkerInv, FailInv, ClosedInv, NewestInv
<1>3. CASE RefuseStart
    BY <1>3 DEF RefuseStart, RestInv, QueueInv, WorkerInv, FailInv, ClosedInv,
               NewestInv
<1>4. CASE ReadActive
    BY <1>4 DEF ReadActive, RestInv, QueueInv, WorkerInv, FailInv, ClosedInv,
               NewestInv
<1>5. CASE StopRequest
    BY <1>5 DEF StopRequest, MainGoes, RestInv, QueueInv, WorkerInv, FailInv, ClosedInv,
               NewestInv
<1>6. CASE StopCloses
    BY <1>6 DEF StopCloses, MainGoes, RestInv, QueueInv, WorkerInv, FailInv, ClosedInv,
               NewestInv
<1>7. CASE StopForgets
    BY <1>7 DEF StopForgets, MainGoes, Forgets, RestInv, QueueInv, WorkerInv, FailInv,
               ClosedInv,
               NewestInv
<1>8. CASE ReadRunner
    BY <1>8 DEF ReadRunner, MainGoes, RestInv, QueueInv, WorkerInv, FailInv, ClosedInv,
               NewestInv
<1>9. CASE StopInterrupts
    BY <1>9 DEF StopInterrupts, MainGoes, RestInv, QueueInv, WorkerInv, FailInv,
               ClosedInv,
               NewestInv
<1>10. CASE EnqueueConnect
    BY <1>10 DEF EnqueueConnect, Returns, RestInv, QueueInv, WorkerInv, FailInv,
               ClosedInv,
               NewestInv
<1>11. CASE EnqueueDisconnect
    BY <1>11 DEF EnqueueDisconnect, Returns, RestInv, QueueInv, WorkerInv, FailInv,
               ClosedInv,
               NewestInv
<1>12. CASE DestroyBegins
    BY <1>12 DEF DestroyBegins, Bump, RestInv, QueueInv, WorkerInv, FailInv, ClosedInv,
               NewestInv
<1>13. CASE ShutdownNow
    BY <1>13 DEF ShutdownNow, Returns, RestInv, QueueInv, WorkerInv, FailInv, ClosedInv,
               NewestInv
<1>14. CASE TakeTask
  <2>1. /\ Len(queue) \in Nat \ {0} /\ DOMAIN queue = 1..Len(queue)
        /\ DOMAIN queue' = 1..(Len(queue) - 1)
        /\ \A i \in 1..(Len(queue) - 1) : queue'[i] = queue[i + 1]
        /\ Head(queue) = queue[1]
    <3> HIDE DEF Requests
    <3> QED
        BY <1>14, <1>c, TailKeeps DEF TakeTask
  <2>2. QueueInv'
    <3>1. ASSUME NEW i \in DOMAIN queue', NEW j \in DOMAIN queue', i < j
          PROVE  queue'[i] < queue'[j]
      <4>1. /\ queue'[i] = queue[i + 1] /\ queue'[j] = queue[j + 1]
            /\ i + 1 \in DOMAIN queue /\ j + 1 \in DOMAIN queue /\ i + 1 < j + 1
        BY <2>1, <3>1
      <4> QED
        BY <4>1 DEF QueueInv
    <3>2. ASSUME NEW i \in DOMAIN queue'
          PROVE  execReq' < queue'[i]
      <4>1. /\ queue'[i] = queue[i + 1]
            /\ i + 1 \in DOMAIN queue /\ 1 \in DOMAIN queue /\ 1 < i + 1
        BY <2>1, <3>2
      <4>2. queue[1] < queue[i + 1] /\ execReq < queue[i + 1]
        BY <4>1 DEF QueueInv
      <4> QED
        BY <1>14, <2>1, <4>1, <4>2 DEF TakeTask
    <3> QED
      BY <3>1, <3>2 DEF QueueInv
  <2>3. WorkerInv'
    BY <1>14, <2>1 DEF TakeTask, IsNewest, QueueInv, WorkerInv
  <2>4. FailInv' /\ ClosedInv' /\ NewestInv'
    BY <1>14 DEF TakeTask, IsNewest, FailInv, ClosedInv, NewestInv
  <2> QED
    BY <2>2, <2>3, <2>4 DEF RestInv
<1>15. CASE Create
    BY <1>15 DEF Create, GoTo, ExecOnly, IsCurrent, IsNewest, RestInv, QueueInv,
               WorkerInv, FailInv, ClosedInv,
               NewestInv
<1>16. CASE Assign
    BY <1>16 DEF Assign, GoTo, RestInv, QueueInv, WorkerInv, FailInv, ClosedInv,
               NewestInv
<1>17. CASE Recheck
    BY <1>17 DEF Recheck, GoTo, IsCurrent, IsNewest, RestInv, QueueInv, WorkerInv,
               FailInv,
               ClosedInv, NewestInv, SettledInv, StoppedInv
<1>18. CASE Stage
    BY <1>18 DEF Stage, Checked, GoTo, ExecOnly, RestInv, QueueInv, WorkerInv, FailInv,
               ClosedInv,
               NewestInv
<1>19. CASE PublishStage
    BY <1>19 DEF PublishStage, Published, GoTo, RestInv, QueueInv, WorkerInv, FailInv,
               ClosedInv,
               NewestInv
<1>20. CASE Handshake
    BY <1>20 DEF Handshake, Ends, GoTo, ExecOnly, RestInv, QueueInv, WorkerInv, FailInv,
               ClosedInv,
               NewestInv
<1>21. CASE SetRunning
    BY <1>21 DEF SetRunning, GoTo, RestInv, QueueInv, WorkerInv, FailInv, ClosedInv,
               NewestInv
<1>22. CASE Establish
    BY <1>22 DEF Establish, Ends, GoTo, ExecOnly, RestInv, QueueInv, WorkerInv, FailInv,
               ClosedInv,
               NewestInv
<1>23. CASE Established
    BY <1>23 DEF Established, Ends, GoTo, ExecOnly, RestInv, QueueInv, WorkerInv,
               FailInv, ClosedInv,
               NewestInv
<1>24. CASE Connected
    BY <1>24 DEF Connected, Checked, GoTo, ExecOnly, RestInv, QueueInv, WorkerInv,
               FailInv, ClosedInv,
               NewestInv
<1>25. CASE PublishConnected
    BY <1>25 DEF PublishConnected, Published, GoTo, RestInv, QueueInv, WorkerInv,
               FailInv, ClosedInv,
               NewestInv
<1>26. CASE StartWorkers
    BY <1>26 DEF StartWorkers, GoTo, RestInv, QueueInv, WorkerInv, FailInv, ClosedInv,
               NewestInv
<1>27. CASE ServeEnds
    BY <1>27 DEF ServeEnds, Ends, RestInv, QueueInv, WorkerInv, FailInv, ClosedInv,
               NewestInv
<1>28. CASE ServeFails
    BY <1>28 DEF ServeFails, Ends, ExecOnly, RestInv, QueueInv, WorkerInv, FailInv,
               ClosedInv,
               NewestInv
<1>29. CASE CloseAtEnd
    BY <1>29 DEF CloseAtEnd, GoTo, Forgets, RestInv, QueueInv, WorkerInv, FailInv,
               ClosedInv,
               NewestInv
<1>30. CASE Ended
    BY <1>30 DEF Ended, Checked, GoTo, ExecOnly, RestInv, QueueInv, WorkerInv, FailInv,
               ClosedInv,
               NewestInv
<1>31. CASE PublishOutcome
    BY <1>31 DEF PublishOutcome, Published, GoTo, RestInv, QueueInv, WorkerInv, FailInv,
               ClosedInv,
               NewestInv
<1>32. CASE Clear
    BY <1>32 DEF Clear, GoTo, RestInv, QueueInv, WorkerInv, FailInv, ClosedInv,
               NewestInv
<1>33. CASE Finish
    BY <1>33 DEF Finish, Checked, GoTo, ExecOnly, RestInv, QueueInv, WorkerInv, FailInv,
               ClosedInv,
               NewestInv
<1>34. CASE StopSelfResult
    BY <1>34 DEF StopSelfResult, GoTo, RestInv, QueueInv, WorkerInv, FailInv, ClosedInv,
               NewestInv
<1>35. CASE PublishDisconnected
    BY <1>35 DEF PublishDisconnected, Published, GoTo, RestInv, QueueInv, WorkerInv,
               FailInv, ClosedInv,
               NewestInv
<1>36. CASE StopService
    BY <1>36 DEF StopService, GoTo, RestInv, QueueInv, WorkerInv, FailInv, ClosedInv,
               NewestInv
<1>37. ASSUME NEW r \in Requests, WorkerFails(r) PROVE RestInv'
    BY <1>37 DEF WorkerFails, WorkerGoes, WorkerOnly, RestInv, QueueInv, WorkerInv,
               FailInv, ClosedInv,
               NewestInv
<1>38. ASSUME NEW r \in Requests, WorkerWins(r) PROVE RestInv'
    BY <1>38 DEF WorkerWins, WorkerGoes, RestInv, QueueInv, WorkerInv, FailInv, ClosedInv,
               NewestInv
<1>39. ASSUME NEW r \in Requests, WorkerCloses(r) PROVE RestInv'
    BY <1>39 DEF WorkerCloses, WorkerGoes, RestInv, QueueInv, WorkerInv, FailInv,
               ClosedInv,
               NewestInv
<1>40. ASSUME NEW r \in Requests, WorkerReadsRunner(r) PROVE RestInv'
    BY <1>40 DEF WorkerReadsRunner, WorkerGoes, WorkerOnly, RestInv, QueueInv, WorkerInv,
               FailInv, ClosedInv,
               NewestInv
<1>41. ASSUME NEW r \in Requests, WorkerInterrupts(r) PROVE RestInv'
    BY <1>41 DEF WorkerInterrupts, WorkerGoes, RestInv, QueueInv, WorkerInv, FailInv,
               ClosedInv,
               NewestInv
<1>42. CASE ProcessDies
    BY <1>42 DEF ProcessDies, Returns, RestInv, QueueInv, WorkerInv, FailInv, ClosedInv,
               NewestInv
<1>43. CASE UNCHANGED vars
    BY <1>43 DEF vars, RestInv, QueueInv, WorkerInv, FailInv, ClosedInv,
               NewestInv
<1> QED
    BY <1>1, <1>2, <1>3, <1>4, <1>5, <1>6, <1>7, <1>8, <1>9, <1>10, <1>11, <1>12,
       <1>13, <1>14, <1>15, <1>16, <1>17, <1>18, <1>19, <1>20, <1>21, <1>22, <1>23,
       <1>24, <1>25, <1>26, <1>27, <1>28, <1>29, <1>30, <1>31, <1>32, <1>33, <1>34,
       <1>35, <1>36, <1>37, <1>38, <1>39, <1>40, <1>41, <1>42, <1>43
    DEF Next, MainStep, ExecStep, WorkersStep, WorkerStep

LInv == IInv /\ SettledInv /\ RestInv

\* What every suffix of a fair behaviour satisfies.
Goes == [][Next]_vars /\ []LInv /\ Fairness

LEMMA FairGoes == FairSpec => Goes
<1>1. Init => LInv
    BY InitIInv, InitSettled, InitRest DEF LInv
<1>2. LInv /\ [Next]_vars => LInv'
    BY StepIInv, StepSettled, StepRest DEF LInv
<1> QED
    BY <1>1, <1>2, PTL DEF FairSpec, Spec, Goes

-----------------------------------------------------------------------------
\* The main thread has at most n steps to go with its request.
MainLeft(n) ==
    \/ mainPc = "idle"
    \/ n >= 1 /\ mainPc = "handOver"
    \/ n >= 2 /\ mainPc = "interrupt"
    \/ n >= 3 /\ mainPc = "readRunner"
    \/ n >= 4 /\ mainPc = "closing"
    \/ n >= 5 /\ mainPc = "close"
    \/ n >= 6 /\ mainPc = "stop"
    \/ n >= 7 /\ mainPc = "read"

LEMMA MainAdvances ==
    ASSUME NEW m \in Nat, NEW n \in Nat, m = n + 1, LInv, [Next]_vars, [Quiet]_vars
    PROVE  /\ MainLeft(m) => MainLeft(m)'
           /\ MainLeft(n) => MainLeft(n)'
           /\ MainLeft(m) /\ <<MainStep>>_vars => MainLeft(n)'
<1>0. generation \in Nat
    BY DEF LInv, IInv, TypeOK
<1>1. CASE MainStep /\ Quiet
    BY <1>0, <1>1 DEF Quiet, MainLeft, MainStep, ReadActive, StopRequest, StopCloses,
       StopForgets, ReadRunner, StopInterrupts, EnqueueConnect, EnqueueDisconnect,
       DestroyBegins, ShutdownNow, ProcessDies, Bump, MainGoes, Returns
<1>2. ASSUME ~MainStep, Quiet, Next PROVE UNCHANGED mainPc
  <2>1. ~ConnectArrives /\ ~DisconnectArrives
    BY <1>0, <1>2 DEF Quiet, ConnectArrives, DisconnectArrives, Revoked, Bump
  <2>2. ASSUME RefuseStart PROVE UNCHANGED mainPc
    BY <2>2 DEF RefuseStart, main
  <2>3. ASSUME ExecStep \/ ServeFails PROVE UNCHANGED mainPc
    BY <2>3 DEF ExecStep, TakeTask, Create, Assign, Recheck, Stage, PublishStage,
       Handshake, SetRunning, Establish, Established, Connected, PublishConnected,
       StartWorkers, ServeEnds, ServeFails, CloseAtEnd, Ended, PublishOutcome, Clear,
       Finish, StopSelfResult, PublishDisconnected, StopService, Checked, Published,
       ExecOnly, main
  <2>4. ASSUME NEW r \in Requests, WorkerFails(r) \/ WorkerStep(r)
        PROVE  UNCHANGED mainPc
    BY <2>4 DEF WorkerFails, WorkerStep, WorkerWins, WorkerCloses, WorkerReadsRunner,
       WorkerInterrupts, WorkerOnly, main
  <2> QED
    BY <1>2, <2>1, <2>2, <2>3, <2>4 DEF Next, WorkersStep
<1>3. CASE UNCHANGED vars
    BY <1>3 DEF vars, main, MainLeft
<1> QED
    BY <1>1, <1>2, <1>3 DEF MainLeft

MainLowers(m, n) == MainLeft(m) ~> MainLeft(n)

LEMMA MainGoesOn ==
    ASSUME NEW m \in Nat, NEW n \in Nat, m = n + 1
    PROVE  Goes /\ []Due /\ [][Quiet]_vars => MainLowers(m, n)
<1>1. LInv /\ [Next]_vars /\ [Quiet]_vars =>
         /\ MainLeft(m) => MainLeft(m)'
         /\ MainLeft(n) => MainLeft(n)'
         /\ MainLeft(m) /\ <<MainStep>>_vars => MainLeft(n)'
    BY MainAdvances
<1>2. Due /\ MainLeft(m) => MainLeft(n) \/ ENABLED <<MainStep>>_vars
    BY DEF Due, MainLeft
<1> QED
    BY <1>1, <1>2, PTL DEF Goes, Fairness, MainLowers

\* When no more requests come the main thread is done in the end.
LEMMA MainRests ==
    Goes /\ []Due /\ [][Quiet]_vars => <>[](mainPc = "idle")
<1>1. Goes /\ []Due /\ [][Quiet]_vars =>
         /\ MainLowers(1, 0) /\ MainLowers(2, 1) /\ MainLowers(3, 2)
         /\ MainLowers(4, 3) /\ MainLowers(5, 4) /\ MainLowers(6, 5)
         /\ MainLowers(7, 6)
    BY MainGoesOn
<1>2. LInv => MainLeft(7)
    BY DEF LInv, IInv, TypeOK, MainSteps, MainLeft
<1>3. MainLeft(0) <=> mainPc = "idle"
    BY DEF MainLeft
<1>4. LInv /\ [Next]_vars /\ [Quiet]_vars => (MainLeft(0) => MainLeft(0)')
  <2> SUFFICES ASSUME LInv, [Next]_vars, [Quiet]_vars
               PROVE  MainLeft(0) => MainLeft(0)'
    OBVIOUS
  <2>1. 1 \in Nat /\ 0 \in Nat /\ 1 = 0 + 1
    OBVIOUS
  <2> QED
    BY <2>1, MainAdvances
<1> QED
    BY <1>1, <1>2, <1>3, <1>4, PTL DEF Goes, MainLowers

-----------------------------------------------------------------------------
\* The executor has at most n steps to go with its task.
ExecLeft(n) ==
    \/ execPc = "idle"
    \/ n >= 1 /\ execPc \in {"stopSelf", "stopService"}
    \/ n >= 2 /\ execPc \in {"finish", "publishDisconnected"}
    \/ n >= 3 /\ execPc = "clear"
    \/ n >= 4 /\ execPc = "publishOutcome"
    \/ n >= 5 /\ execPc = "ended"
    \/ n >= 6 /\ execPc = "close"
    \/ n >= 7 /\ execPc = "serve"
    \/ n >= 8 /\ execPc = "startWorkers"
    \/ n >= 9 /\ execPc = "publishConnected"
    \/ n >= 10 /\ execPc = "connected"
    \/ n >= 11 /\ execPc = "established"
    \/ n >= 12 /\ execPc = "establish"
    \/ n >= 13 /\ execPc = "setRunning"
    \/ n >= 14 /\ execPc = "handshake"
    \/ n >= 15 /\ execPc = "publishStage"
    \/ n >= 16 /\ execPc = "stage"
    \/ n >= 17 /\ execPc = "recheck"
    \/ n >= 18 /\ execPc = "assign"
    \/ n >= 19 /\ execPc = "create"

\* The other threads leave its counter alone, unless the process ends.
LEMMA OthersKeepPc ==
    ASSUME Next, ~ExecStep, ~ServeFails
    PROVE  execPc' = "idle" \/ UNCHANGED <<execPc, execReq>>
<1>1. ASSUME ConnectArrives \/ DisconnectArrives \/ RefuseStart
      PROVE  UNCHANGED <<execPc, execReq>>
    BY <1>1 DEF ConnectArrives, DisconnectArrives, Revoked, RefuseStart, Bump, exec
<1>2. ASSUME MainStep PROVE execPc' = "idle" \/ UNCHANGED <<execPc, execReq>>
    BY <1>2 DEF MainStep, ReadActive, StopRequest, StopCloses, StopForgets, ReadRunner,
       StopInterrupts, EnqueueConnect, EnqueueDisconnect, DestroyBegins, ShutdownNow,
       ProcessDies, Bump, exec
<1>3. ASSUME NEW r \in Requests, WorkerFails(r) \/ WorkerStep(r)
      PROVE  UNCHANGED <<execPc, execReq>>
    BY <1>3 DEF WorkerFails, WorkerStep, WorkerWins, WorkerCloses, WorkerReadsRunner,
       WorkerInterrupts, WorkerOnly, exec
<1> QED
    BY <1>1, <1>2, <1>3 DEF Next, WorkersStep

\* No task is taken while the queue stays as it is.
LEMMA NoneTaken ==
    ASSUME LInv, [Quiet]_vars, queue # <<>>
    PROVE  ~TakeTask
<1> SUFFICES ASSUME TakeTask PROVE FALSE
    OBVIOUS
<1>1. queue \in Seq(Requests)
    BY DEF LInv, IInv, TypeOK
<1>2. /\ queue' = Tail(queue) /\ Len(queue) \in Nat \ {0}
      /\ DOMAIN queue = 1..Len(queue)
      /\ DOMAIN queue' = 1..(Len(queue) - 1)
    BY <1>1, TailKeeps DEF TakeTask
<1>3. queue' = queue
    BY DEF Quiet, vars, shared
<1> QED
    BY <1>2, <1>3

LEMMA ExecAdvances ==
    ASSUME NEW m \in Nat, NEW n \in Nat, m = n + 1, LInv, [Next]_vars, [Quiet]_vars
    PROVE  /\ ExecLeft(m) => ExecLeft(m)'
           /\ ExecLeft(n) => ExecLeft(n)'
           /\ ExecLeft(m) /\ <<ExecStep>>_vars => ExecLeft(n)'
<1>1. ~TakeTask
    BY NoneTaken DEF TakeTask
<1>2. ASSUME ExecStep
      PROVE  (ExecLeft(m) => ExecLeft(n)') /\ (ExecLeft(n) => ExecLeft(n)')
  <2>1. CASE Create \/ Assign \/ Recheck \/ Stage \/ PublishStage \/ Handshake
    BY <2>1 DEF ExecLeft, Create, Assign, Recheck, Stage, PublishStage, Handshake,
       GoTo, Checked, Published, Ends
  <2>2. CASE SetRunning \/ Establish \/ Established \/ Connected \/ PublishConnected
             \/ StartWorkers
    BY <2>2 DEF ExecLeft, SetRunning, Establish, Established, Connected,
       PublishConnected, StartWorkers, GoTo, Checked, Published, Ends
  <2>3. CASE ServeEnds \/ CloseAtEnd \/ Ended \/ PublishOutcome \/ Clear \/ Finish
    BY <2>3 DEF ExecLeft, ServeEnds, CloseAtEnd, Ended, PublishOutcome, Clear, Finish,
       GoTo, Checked, Published, Ends
  <2>4. CASE StopSelfResult \/ PublishDisconnected \/ StopService
    BY <2>4 DEF ExecLeft, StopSelfResult, PublishDisconnected, StopService, GoTo,
       Published
  <2> QED
    BY <1>1, <1>2, <2>1, <2>2, <2>3, <2>4 DEF ExecStep
<1>3. ASSUME ServeFails
      PROVE  (ExecLeft(m) => ExecLeft(m)') /\ (ExecLeft(n) => ExecLeft(n)')
    BY <1>3 DEF ServeFails, Ends, ExecLeft
<1>4. ASSUME Next, ~ExecStep, ~ServeFails
      PROVE  (ExecLeft(m) => ExecLeft(m)') /\ (ExecLeft(n) => ExecLeft(n)')
    BY <1>4, OthersKeepPc DEF ExecLeft
<1>5. CASE UNCHANGED vars
    BY <1>5 DEF vars, exec, ExecLeft
<1>6. ExecLeft(n)' => ExecLeft(m)'
    BY DEF ExecLeft
<1> QED
    BY <1>2, <1>3, <1>4, <1>5, <1>6

\* Nobody holds the executor up: the main thread is idle, and the connection that
\* runs, if any, has lost its sockets.
Calm == mainPc = "idle" /\ (execPc \in RunSteps => execReq \in closed)

LEMMA CalmGoesOn ==
    ASSUME LInv, Due, Calm
    PROVE  /\ execPc # "idle" => ENABLED <<ExecStep>>_vars
           /\ execPc = "idle" /\ queue # <<>> => ENABLED <<ExecStep>>_vars
<1>1. execPc = "serve" => LoopEnds(execReq)
    BY DEF Calm, LoopEnds, RunSteps
<1>2. ~StopIsClosing(execReq)
    BY DEF Calm, StopIsClosing
<1> QED
    BY <1>1, <1>2 DEF Due

ExecLowers(m, n) == ExecLeft(m) ~> ExecLeft(n)

LEMMA ExecGoesOn ==
    ASSUME NEW m \in Nat, NEW n \in Nat, m = n + 1
    PROVE  Goes /\ []Due /\ [][Quiet]_vars /\ []Calm => ExecLowers(m, n)
<1>1. LInv /\ [Next]_vars /\ [Quiet]_vars =>
         /\ ExecLeft(m) => ExecLeft(m)'
         /\ ExecLeft(n) => ExecLeft(n)'
         /\ ExecLeft(m) /\ <<ExecStep>>_vars => ExecLeft(n)'
    BY ExecAdvances
<1>2. LInv /\ Due /\ Calm /\ ExecLeft(m) => ExecLeft(n) \/ ENABLED <<ExecStep>>_vars
    BY CalmGoesOn DEF ExecLeft
<1> QED
    BY <1>1, <1>2, PTL DEF Goes, Fairness, ExecLowers

\* Then it comes to the end of all its tasks.
LEMMA ExecRests ==
    Goes /\ []Due /\ [][Quiet]_vars /\ []Calm => <>(execPc = "idle" /\ queue = <<>>)
<1>1. Goes /\ []Due /\ [][Quiet]_vars /\ []Calm =>
         /\ ExecLowers(1, 0) /\ ExecLowers(2, 1) /\ ExecLowers(3, 2)
         /\ ExecLowers(4, 3) /\ ExecLowers(5, 4) /\ ExecLowers(6, 5)
         /\ ExecLowers(7, 6) /\ ExecLowers(8, 7) /\ ExecLowers(9, 8)
         /\ ExecLowers(10, 9)
    BY ExecGoesOn
<1>2. Goes /\ []Due /\ [][Quiet]_vars /\ []Calm =>
         /\ ExecLowers(11, 10) /\ ExecLowers(12, 11) /\ ExecLowers(13, 12)
         /\ ExecLowers(14, 13) /\ ExecLowers(15, 14) /\ ExecLowers(16, 15)
         /\ ExecLowers(17, 16) /\ ExecLowers(18, 17) /\ ExecLowers(19, 18)
    BY ExecGoesOn
<1>3. LInv => ExecLeft(19)
    BY DEF LInv, IInv, TypeOK, RunSteps, TaskSteps, ExecLeft
<1>4. Goes /\ []Due /\ [][Quiet]_vars /\ []Calm => <>ExecLeft(10)
    BY <1>2, <1>3, PTL DEF Goes, ExecLowers
<1>5. Goes /\ []Due /\ [][Quiet]_vars /\ []Calm => <>ExecLeft(0)
    BY <1>1, <1>4, PTL DEF Goes, ExecLowers
<1>6. ExecLeft(0) <=> execPc = "idle"
    BY DEF ExecLeft
<1>7. LInv /\ [Next]_vars /\ [Quiet]_vars =>
         /\ ExecLeft(0) => ExecLeft(0)'
         /\ execPc = "idle" /\ queue # <<>> => ~<<ExecStep>>_vars
  <2> SUFFICES ASSUME LInv, [Next]_vars, [Quiet]_vars
               PROVE  /\ ExecLeft(0) => ExecLeft(0)'
                      /\ execPc = "idle" /\ queue # <<>> => ~<<ExecStep>>_vars
    OBVIOUS
  <2>1. 1 \in Nat /\ 0 \in Nat /\ 1 = 0 + 1
    OBVIOUS
  <2>2. ExecLeft(0) => ExecLeft(0)'
    BY <2>1, ExecAdvances
  <2>3. ~TakeTask
    BY NoneTaken DEF TakeTask
  <2>4. ASSUME execPc = "idle", ExecStep PROVE FALSE
    BY <2>3, <2>4 DEF ExecStep, Create, Assign, Recheck, Stage, PublishStage, Handshake,
       SetRunning, Establish, Established, Connected, PublishConnected, StartWorkers,
       ServeEnds, CloseAtEnd, Ended, PublishOutcome, Clear, Finish, StopSelfResult,
       PublishDisconnected, StopService, GoTo, Checked, Published
  <2> QED
    BY <2>2, <2>4
<1>8. LInv /\ Due /\ Calm =>
         (execPc = "idle" /\ ~(queue = <<>>) => ENABLED <<ExecStep>>_vars)
    BY CalmGoesOn
<1>9. LInv /\ [Next]_vars /\ [Quiet]_vars =>
         (execPc = "idle" /\ ~(queue = <<>>) => ~<<ExecStep>>_vars)
    BY <1>7
<1> QED
    BY <1>5, <1>6, <1>7, <1>8, <1>9, PTL DEF Goes, Fairness

-----------------------------------------------------------------------------
\* The newest request is not a connect; nothing is left of what it ended.
NotConnect == generation # 0 /\ kind[generation] # "connect"
ConnectAgain == generation # 0 /\ kind[generation] = "connect"
Disconnected ==
    /\ tunnel \subseteq slipped /\ connection = None
    /\ \/ destroyed
       \/ published \in {Show("disconnected", generation), NodeMissing}

\* A connection that still runs then has been stopped, so that its sockets are
\* closed once the main thread is back from stop().
LEMMA StoppedIsCalm ==
    ASSUME LInv, mainPc = "idle", NotConnect
    PROVE  Calm
<1>1. execPc \in RunSteps => kind[execReq] = "connect"
    BY DEF LInv, SettledInv, KindInv, RunSteps
<1>2. SupersededIsStopped
    BY IInvImplies DEF LInv
<1>3. execPc \in RunSteps => execReq \in stopRequested
    BY <1>1, <1>2 DEF SupersededIsStopped, Runs, IsCurrent, IsNewest, NotConnect
<1> QED
    BY <1>3 DEF LInv, RestInv, ClosedInv, Runs, Calm

LEMMA RestIsDisconnected ==
    ASSUME LInv, mainPc = "idle", NotConnect, execPc = "idle", queue = <<>>
    PROVE  Disconnected
<1>1. SettledStateShown /\ NothingLeftOpen
    BY SettledImplies, IInvImplies DEF LInv
<1>2. tunnel \subseteq slipped
    BY <1>1 DEF NothingLeftOpen, Runs, RunSteps
<1>3. connection = None
    BY DEF LInv, IInv, FieldInv, Assigned, RunSteps
<1>4. kind[generation] \in {"disconnect", "destroy"}
  <2>1. generation \in Requests
    BY DEF LInv, IInv, TypeOK, NotConnect, Requests
  <2> QED
    BY <2>1 DEF LInv, IInv, TypeOK, RestInv, NewestInv, NotConnect
<1>5. destroyed \/ published \in {Show("disconnected", generation), NodeMissing}
    BY <1>1, <1>4 DEF SettledStateShown, NotConnect, LInv, RestInv, NewestInv
<1> QED
    BY <1>2, <1>3, <1>5 DEF Disconnected

\* Without further requests the newest one stays what it is.
LEMMA NewestStays ==
    ASSUME LInv, [Next]_vars, [Quiet]_vars
    PROVE  NotConnect => NotConnect'
<1>0. generation \in Nat
    BY DEF LInv, IInv, TypeOK
<1>1. ASSUME Next, Quiet PROVE UNCHANGED <<generation, kind>>
  <2>1. ~ConnectArrives /\ ~DisconnectArrives /\ ~DestroyBegins
    BY <1>0, <1>1 DEF Quiet, ConnectArrives, DisconnectArrives, Revoked, DestroyBegins,
       Bump
  <2>2. ASSUME RefuseStart PROVE UNCHANGED <<generation, kind>>
    BY <2>2 DEF RefuseStart
  <2>3. ASSUME MainStep PROVE UNCHANGED <<generation, kind>>
    BY <2>1, <2>3 DEF MainStep, ReadActive, StopRequest, StopCloses, StopForgets,
       ReadRunner, StopInterrupts, EnqueueConnect, EnqueueDisconnect, ShutdownNow,
       ProcessDies, shared
  <2>4. ASSUME ExecStep \/ ServeFails PROVE UNCHANGED <<generation, kind>>
    BY <2>4 DEF ExecStep, TakeTask, Create, Assign, Recheck, Stage, PublishStage,
       Handshake, SetRunning, Establish, Established, Connected, PublishConnected,
       StartWorkers, ServeEnds, ServeFails, CloseAtEnd, Ended, PublishOutcome, Clear,
       Finish, StopSelfResult, PublishDisconnected, StopService, Checked, Published,
       ExecOnly, shared
  <2>5. ASSUME NEW r \in Requests, WorkerFails(r) \/ WorkerStep(r)
        PROVE  UNCHANGED <<generation, kind>>
    BY <2>5 DEF WorkerFails, WorkerStep, WorkerWins, WorkerCloses, WorkerReadsRunner,
       WorkerInterrupts, WorkerOnly, shared
  <2> QED
    BY <1>1, <2>1, <2>2, <2>3, <2>4, <2>5 DEF Next, WorkersStep
<1>2. CASE UNCHANGED vars
    BY <1>2 DEF vars, shared, NotConnect
<1> QED
    BY <1>1, <1>2 DEF NotConnect

\* There is a request once there has been one.
LEMMA RequestsStay == LInv /\ [Next]_vars /\ generation # 0 => generation' # 0
<1> SUFFICES ASSUME LInv, [Next]_vars, generation # 0 PROVE generation' # 0
    OBVIOUS
<1>0. generation \in Nat
    BY DEF LInv, IInv, TypeOK
<1>1. ASSUME Next PROVE generation' \in {generation, generation + 1}
  <2>1. ASSUME ConnectArrives \/ DisconnectArrives \/ RefuseStart
        PROVE  generation' \in {generation, generation + 1}
    BY <2>1 DEF ConnectArrives, DisconnectArrives, Revoked, RefuseStart, Bump
  <2>2. ASSUME MainStep PROVE generation' \in {generation, generation + 1}
    BY <2>2 DEF MainStep, ReadActive, StopRequest, StopCloses, StopForgets, DestroyBegins,
       ReadRunner, StopInterrupts, EnqueueConnect, EnqueueDisconnect, ShutdownNow,
       ProcessDies, shared, Bump
  <2>3. ASSUME ExecStep \/ ServeFails PROVE UNCHANGED generation
    BY <2>3 DEF ExecStep, TakeTask, Create, Assign, Recheck, Stage, PublishStage,
       Handshake, SetRunning, Establish, Established, Connected, PublishConnected,
       StartWorkers, ServeEnds, ServeFails, CloseAtEnd, Ended, PublishOutcome, Clear,
       Finish, StopSelfResult, PublishDisconnected, StopService, Checked, Published,
       ExecOnly, shared
  <2>4. ASSUME NEW r \in Requests, WorkerFails(r) \/ WorkerStep(r)
        PROVE  UNCHANGED generation
    BY <2>4 DEF WorkerFails, WorkerStep, WorkerWins, WorkerCloses, WorkerReadsRunner,
       WorkerInterrupts, WorkerOnly, shared
  <2> QED
    BY <1>1, <2>1, <2>2, <2>3, <2>4 DEF Next, WorkersStep
<1> QED
    BY <1>0, <1>1 DEF vars, shared

\* A disconnect, or the destruction of the service, takes the tunnel down and says
\* so, unless the user connects again or the process ends, the tunnel with it.
THEOREM DisconnectCompletesFair ==
    FairSpec /\ []Due /\ RequestsEnd => DisconnectCompletes
<1>1. FairSpec => Goes
    BY FairGoes
<1>2. Goes /\ []Due /\ [][Quiet]_vars => <>[](mainPc = "idle")
    BY MainRests
<1>3. Goes /\ []Due /\ [][Quiet]_vars /\ []Calm => <>(execPc = "idle" /\ queue = <<>>)
    BY ExecRests
<1>4. LInv /\ mainPc = "idle" /\ NotConnect => Calm
    BY StoppedIsCalm
<1>5. LInv /\ mainPc = "idle" /\ NotConnect /\ execPc = "idle" /\ queue = <<>>
          => Disconnected
    BY RestIsDisconnected
<1>6. LInv /\ [Next]_vars /\ [Quiet]_vars => (NotConnect => NotConnect')
    BY NewestStays
<1>7. LInv /\ [Next]_vars /\ generation # 0 => (generation # 0)'
    BY RequestsStay
<1>8. generation # 0 => NotConnect \/ ConnectAgain
    BY DEF NotConnect, ConnectAgain
<1>9. NotConnect => generation # 0
    BY DEF NotConnect
<1>10. Goes /\ []Due /\ [][Quiet]_vars /\ generation # 0
          => <>(ConnectAgain \/ Disconnected)
    BY <1>2, <1>3, <1>4, <1>5, <1>6, <1>8, PTL DEF Goes, Fairness
<1>11. FairSpec /\ []Due /\ RequestsEnd => (NotConnect ~> ConnectAgain \/ Disconnected)
    BY <1>1, <1>7, <1>9, <1>10, PTL DEF Goes, Fairness, RequestsEnd
<1>12. NotConnect <=> generation # 0 /\ kind[generation] # "connect"
    BY DEF NotConnect
<1>13. ConnectAgain <=> generation # 0 /\ kind[generation] = "connect"
    BY DEF ConnectAgain
<1>14. Disconnected <=>
          /\ tunnel \subseteq slipped /\ connection = None
          /\ \/ destroyed
             \/ published \in {Show("disconnected", generation), NodeMissing}
    BY DEF Disconnected
<1> QED
    BY <1>11, <1>12, <1>13, <1>14, PTL DEF DisconnectCompletes

-----------------------------------------------------------------------------
\* A connection that still runs though one of its workers failed.
Broken == \E r \in failure : Runs(r)

LEMMA BrokenGoesOn ==
    LInv => (Broken => worker[execReq] = "won" \/ execReq \in closed)
BY DEF LInv, RestInv, FailInv, Broken, Runs

LEMMA BrokenStays ==
    ASSUME LInv, [Next]_vars, [Quiet]_vars, Broken, Broken'
    PROVE  worker[execReq] = "won" => (worker[execReq] = "won")'
<1>1. execReq' = execReq
  <2>1. execPc # "idle"
    BY DEF Broken, Runs, RunSteps
  <2>2. execPc' # "idle"
    BY DEF Broken, Runs, RunSteps
  <2>3. ~TakeTask
    BY <2>1 DEF TakeTask
  <2>4. ASSUME ExecStep \/ ServeFails PROVE execReq' = execReq
    BY <2>2, <2>3, <2>4 DEF ExecStep, Create, Assign, Recheck, Stage, PublishStage,
       Handshake, SetRunning, Establish, Established, Connected, PublishConnected,
       StartWorkers, ServeEnds, ServeFails, CloseAtEnd, Ended, PublishOutcome, Clear,
       Finish, StopSelfResult, PublishDisconnected, StopService, GoTo, Checked,
       Published, Ends
  <2> QED
    BY <2>2, <2>4, OthersKeepPc DEF vars, exec
<1>2. worker' = worker
    BY DEF Quiet, vars, inside
<1> QED
    BY <1>1, <1>2

\* A worker's failure ends the run of its connection: it closes the sockets, and the
\* executor comes to the end of run().
THEOREM FailureEndsRunFair ==
    FairSpec /\ []Due /\ RequestsEnd => FailureEndsRun
<1> DEFINE Won == worker[execReq] = "won"
<1>1. FairSpec => Goes
    BY FairGoes
<1>2. Goes /\ []Due /\ [][Quiet]_vars => <>[](mainPc = "idle")
    BY MainRests
<1>3. Goes /\ []Due /\ [][Quiet]_vars /\ []Calm => <>(execPc = "idle" /\ queue = <<>>)
    BY ExecRests
<1>4. LInv /\ Broken /\ mainPc = "idle" => Won \/ Calm
    BY BrokenGoesOn DEF Calm
<1>5. LInv /\ [Next]_vars /\ [Quiet]_vars /\ Broken /\ Broken' => (Won => Won')
    BY BrokenStays
<1>6. LInv /\ Due /\ Broken /\ mainPc = "idle" => (Won => ENABLED <<WorkersStep>>_vars)
  <2> SUFFICES ASSUME LInv, Due, Broken, mainPc = "idle", Won
               PROVE  ENABLED <<WorkersStep>>_vars
    OBVIOUS
  <2>1. execReq \in Requests /\ ~StopIsClosing(execReq)
    BY DEF LInv, IInv, TypeOK, Broken, Runs, StopIsClosing
  <2> QED
    BY <2>1 DEF Due
<1>7. LInv /\ [Quiet]_vars => ~<<WorkersStep>>_vars
  <2> SUFFICES ASSUME LInv, [Quiet]_vars, WorkersStep PROVE FALSE
    OBVIOUS
  <2>1. worker' = worker
    BY DEF Quiet, vars, inside
  <2>2. ASSUME NEW r \in Requests, WorkerStep(r) PROVE worker'[r] # worker[r]
    BY <2>2 DEF LInv, IInv, TypeOK, WorkerStep, WorkerWins, WorkerCloses,
       WorkerReadsRunner, WorkerInterrupts, WorkerGoes
  <2> QED
    BY <2>1, <2>2 DEF WorkersStep
<1>8. Broken => ~(execPc = "idle")
    BY DEF Broken, Runs, RunSteps
<1>9. Goes /\ []Due /\ [][Quiet]_vars /\ [](mainPc = "idle") /\ []Broken => []~Won
    BY <1>5, <1>6, <1>7, PTL DEF Goes, Fairness
<1>10. Goes /\ []Due /\ [][Quiet]_vars => <>~Broken
    BY <1>2, <1>3, <1>4, <1>8, <1>9, PTL DEF Goes, Fairness
<1>11. FairSpec /\ []Due /\ RequestsEnd => (Broken ~> ~Broken)
    BY <1>1, <1>10, PTL DEF Goes, Fairness, RequestsEnd
<1>12. ~Broken <=> \A r \in failure : ~Runs(r)
    BY DEF Broken
<1> QED
    BY <1>11, <1>12, PTL DEF FailureEndsRun, Broken
=============================================================================
