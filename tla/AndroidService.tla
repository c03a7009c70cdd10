--------------------------- MODULE AndroidService ---------------------------
(***************************************************************************)
(* PyVpnService of the Android client: requests arrive on the main thread, *)
(* connections run one after another on a single-thread executor, and the  *)
(* two share the generation counter, the volatile "connection" field and   *)
(* the published state. An action is one access to that shared state, so   *)
(* a check of the generation and what is done after it can be separated by *)
(* anything the other thread does.                                         *)
(*                                                                         *)
(* A request is named by the value it gave the generation counter; a       *)
(* PyVpnConnection by the request it was made for. Its workers (TUN        *)
(* reader, UDP reader, keepalive) are one: the first of them to fail.      *)
(***************************************************************************)
EXTENDS Integers, Sequences

CONSTANT MaxRequests      \* bound: requests one service instance receives

ASSUME MaxRequestsAssumption == MaxRequests \in Nat \ {0}

Requests == 1..MaxRequests
None == 0

VARIABLES
    generation,     \* the AtomicInteger
    kind,           \* what each request asked for
    lastStart,      \* the connect request that has the newest startId, if any
    connection,     \* the volatile field: the connection being run
    queue,          \* tasks handed to lifecycleExecutor
    published,      \* VpnRuntimeState: what every screen shows
    mainPc, mainReq,
    active,         \* what the main thread read in the field
    execPc, execReq,
    how,            \* how run() is ending
    interrupted,    \* the executor thread's interrupt flag
    stopRequested, running, failure,  \* connections with that field set
    tunnel,         \* connections whose VPN interface is up
    field,          \* connections whose field "tunnel" is not null
    closed,         \* connections whose sockets closeResources has closed
    worker,         \* where the worker of each connection is
    slipped,        \* history: assigned while stop() was closing
    ending,         \* stopSelf was called with effect
    destroyed       \* onDestroy has run, or the process has ended

shared == <<generation, kind, lastStart, connection, queue>>
main == <<mainPc, mainReq, active>>
exec == <<execPc, execReq, how>>
inside == <<stopRequested, running, failure, tunnel, field, closed, worker, slipped>>
outside == <<published, ending, destroyed>>
vars == <<shared, main, exec, inside, interrupted, outside>>

States == {"disconnected", "connecting", "connected", "stopping", "error"}

\* A publication and the request it was made for (the node it names is left out).
Show(state, r) == [state |-> state, by |-> r]

\* What is shown when the node of a connect request is gone.
NodeMissing == Show("error", None)

\* A new process shows what an earlier one published last, perhaps when it was
\* killed.
Init == /\ generation = 0
        /\ kind = [r \in Requests |-> "none"]
        /\ lastStart = None
        /\ connection = None
        /\ queue = <<>>
        /\ published \in {Show(state, None) : state \in States}
        /\ mainPc = "idle" /\ mainReq = None /\ active = None
        /\ execPc = "idle" /\ execReq = None /\ how = "failed"
        /\ interrupted = FALSE
        /\ stopRequested = {} /\ running = {} /\ failure = {}
        /\ tunnel = {} /\ field = {} /\ closed = {} /\ slipped = {}
        /\ worker = [r \in Requests |-> "none"]
        /\ ending = FALSE
        /\ destroyed = FALSE

-----------------------------------------------------------------------------
\* The main thread.

\* generation.incrementAndGet() of a request of this kind.
Bump(what) ==
    /\ mainPc = "idle"
    /\ ~destroyed
    /\ generation < MaxRequests
    /\ generation' = generation + 1
    /\ kind' = [kind EXCEPT ![generation + 1] = what]
    /\ mainReq' = generation + 1
    /\ mainPc' = "read"
    /\ UNCHANGED <<connection, queue, active, exec, inside, interrupted, published,
                   destroyed>>

ConnectArrives ==
    Bump("connect") /\ lastStart' = generation + 1 /\ UNCHANGED ending

\* onRevoke is no start, and ends with a stopSelf of its own (nothing looks at
\* "ending" before the request is handled).
Revoked == Bump("disconnect") /\ UNCHANGED lastStart /\ ending' = TRUE

\* requestDisconnect, from there or from the screen or the notification (a start).
DisconnectArrives ==
    Revoked \/ (Bump("disconnect") /\ lastStart' = None /\ UNCHANGED ending)

\* onDestroy, some time after stopSelf.
DestroyBegins == ending /\ Bump("destroy") /\ UNCHANGED <<lastStart, ending>>

\* A start the service refuses: another action (the first stopSelf(startId)),
\* or a connect to a node that is no longer in the store. It has no request
\* of its own, and its startId is the newest.
RefuseStart ==
    /\ generation < MaxRequests
    /\ mainPc = "idle"
    /\ ~destroyed
    /\ published' \in {published, NodeMissing}
    /\ lastStart' = None
    /\ ending' = TRUE
    /\ UNCHANGED <<generation, kind, connection, queue, main, exec, inside,
                   interrupted, destroyed>>

\* The main thread reads the volatile field; a disconnect that finds a
\* connection says so.
ReadActive ==
    /\ mainPc = "read"
    /\ active' = connection
    /\ mainPc' = IF connection = None THEN "handOver" ELSE "stop"
    /\ published' = IF kind[mainReq] = "disconnect" /\ connection # None
                    THEN Show("stopping", mainReq) ELSE published
    /\ UNCHANGED <<shared, mainReq, exec, inside, interrupted, ending, destroyed>>

\* stop() on what was read, which the executor may have left by now: the flag,
\* closeResources, then the thread that runs it is interrupted. Of those who
\* call closeResources only stop() can meet run() assigning the field: what it
\* closes is what it found there, and the null comes after that.
MainGoes(from, to) == mainPc = from /\ mainPc' = to /\ UNCHANGED <<mainReq, active>>

StopRequest ==
    /\ MainGoes("stop", "close")
    /\ stopRequested' = stopRequested \union {active}
    /\ UNCHANGED <<shared, exec, running, failure, tunnel, field, closed, worker,
                   slipped, interrupted, outside>>

\* The tunnel of r goes down if the field shows it.
TunnelClosed(r) == IF r \in field THEN tunnel \ {r} ELSE tunnel

StopCloses ==
    /\ MainGoes("close", "closing")
    /\ running' = running \ {active}
    /\ tunnel' = TunnelClosed(active)
    /\ UNCHANGED <<shared, exec, stopRequested, failure, field, closed, worker,
                   slipped, interrupted, outside>>

\* The rest of closeResources. A worker that has not failed yet only returns
\* from now on, for running is false; a connection without sockets ends at its
\* next requireNotStopped.
Forgets(r) ==
    /\ field' = field \ {r}
    /\ closed' = closed \union {r}
    /\ worker' = [worker EXCEPT ![r] = IF @ = "alive" THEN "done" ELSE @]

StopForgets ==
    /\ MainGoes("closing", "readRunner")
    /\ Forgets(active)
    /\ UNCHANGED <<shared, exec, stopRequested, running, failure, tunnel, slipped,
                   interrupted, outside>>

\* runnerThread of r is not null: the executor is between the lines that set it.
RunSteps == {"stage", "publishStage", "handshake", "setRunning", "establish",
             "established", "connected", "publishConnected", "startWorkers", "serve",
             "close"}
Runs(r) == execReq = r /\ execPc \in RunSteps

ReadRunner ==
    /\ MainGoes("readRunner", IF Runs(active) THEN "interrupt" ELSE "handOver")
    /\ UNCHANGED <<shared, exec, inside, interrupted, outside>>

StopInterrupts ==
    /\ MainGoes("interrupt", "handOver")
    /\ interrupted' = TRUE
    /\ UNCHANGED <<shared, exec, inside, outside>>

\* The main thread is done with the request.
Returns == mainPc' = "idle" /\ active' = None /\ UNCHANGED mainReq

\* startConnection: publishState(CONNECTING), execute.
EnqueueConnect ==
    /\ mainPc = "handOver" /\ kind[mainReq] = "connect"
    /\ published' = Show("connecting", mainReq)
    /\ queue' = Append(queue, mainReq)
    /\ Returns
    /\ UNCHANGED <<generation, kind, lastStart, connection, exec,
                   inside, interrupted, ending, destroyed>>

\* requestDisconnect: execute. The variant has nothing to do when no
\* connection was read.
EnqueueDisconnect_ifactive ==
    /\ mainPc = "handOver" /\ kind[mainReq] = "disconnect"
    /\ queue' = IF active = None THEN queue ELSE Append(queue, mainReq)
    /\ Returns
    /\ UNCHANGED <<generation, kind, lastStart, connection, exec,
                   inside, interrupted, outside>>
EnqueueDisconnect ==
    /\ mainPc = "handOver" /\ kind[mainReq] = "disconnect"
    /\ queue' = Append(queue, mainReq)
    /\ Returns
    /\ UNCHANGED <<generation, kind, lastStart, connection, exec,
                   inside, interrupted, outside>>

\* onDestroy: shutdownNow() drops the tasks that wait and interrupts the
\* executor.
ShutdownNow ==
    /\ mainPc = "handOver" /\ kind[mainReq] = "destroy"
    /\ queue' = <<>>
    /\ destroyed' = TRUE
    /\ interrupted' = TRUE
    /\ Returns
    /\ UNCHANGED <<generation, kind, lastStart, connection, exec,
                   inside, published, ending>>

\* closeResources talks to the server before it closes anything: the disconnect
\* frame of a connection that is running, the close of its TLS socket. Android
\* refuses that on the main thread, with a RuntimeException nobody catches (the
\* code expects an IOException), and the process ends in the middle of stop():
\* threads, tasks and tunnel go with it, the persisted state stays. Only on the
\* thread that calls onRevoke is stop() sure to go on (StopCloses, StopForgets).
ProcessDies ==
    /\ \/ mainPc = "close" /\ active \in running
       \/ mainPc = "closing" /\ active \notin closed
    /\ Returns
    /\ execPc' = "idle" /\ execReq' = None /\ how' = "failed"
    /\ connection' = None /\ queue' = <<>>
    /\ running' = {} /\ failure' = {} /\ tunnel' = {} /\ field' = {}
    /\ worker' = [r \in Requests |-> "none"]
    /\ interrupted' = FALSE
    /\ destroyed' = TRUE
    /\ UNCHANGED <<generation, kind, lastStart, stopRequested, closed, slipped,
                   published, ending>>

MainStep == \/ ReadActive \/ StopRequest \/ StopCloses \/ StopForgets
            \/ ReadRunner \/ StopInterrupts \/ EnqueueConnect \/ EnqueueDisconnect
            \/ DestroyBegins \/ ShutdownNow \/ ProcessDies

-----------------------------------------------------------------------------
\* The executor thread.

\* "request == generation.get()"; a variant that does not look.
IsNewest_any(r) == r # None
IsNewest(r) == r = generation
IsCurrent == IsNewest(execReq)

ExecOnly == UNCHANGED <<shared, main, inside, interrupted, outside>>
GoTo(from, to) ==
    /\ execPc = from /\ execPc' = to
    /\ IF to = "idle" THEN execReq' = None /\ how' = "failed"
       ELSE UNCHANGED <<execReq, how>>

\* The look at the generation before a publication: to where it publishes, or
\* past it.
Checked(from, yes, no) ==
    /\ GoTo(from, IF IsCurrent THEN yes ELSE no)
    /\ ExecOnly

Published(from, to, state) ==
    /\ GoTo(from, to)
    /\ published' = Show(state, execReq)
    /\ UNCHANGED <<shared, main, inside, interrupted, ending, destroyed>>

\* The next task starts, without an interrupt that was meant for an earlier one;
\* a superseded task returns at once.
TakeTask ==
    /\ execPc = "idle"
    /\ queue # <<>>
    /\ queue' = Tail(queue)
    /\ IF IsNewest(Head(queue))
       THEN /\ execReq' = Head(queue)
            /\ execPc' = IF kind[Head(queue)] = "connect" THEN "create"
                         ELSE "publishDisconnected"
       ELSE UNCHANGED <<execPc, execReq>>
    /\ interrupted' = FALSE
    /\ UNCHANGED <<generation, kind, lastStart, connection, main, how, inside,
                   outside>>

\* new PyVpnConnection and the second look at the generation.
Create ==
    /\ GoTo("create", IF IsCurrent THEN "assign" ELSE "idle")
    /\ ExecOnly

Assign ==
    /\ GoTo("assign", "recheck")
    /\ connection' = execReq
    /\ UNCHANGED <<generation, kind, lastStart, queue, main, inside, interrupted,
                   outside>>

\* The third look, after the field was set: whoever moved the generation on
\* before this has perhaps not seen the connection. The variant leaves it out.
Recheck_dropped ==
    /\ GoTo("recheck", "stage")
    /\ ExecOnly
Recheck ==
    /\ GoTo("recheck", IF IsCurrent THEN "stage" ELSE "idle")
    /\ connection' = IF IsCurrent THEN execReq ELSE None
    /\ stopRequested' = IF IsCurrent THEN stopRequested
                        ELSE stopRequested \union {execReq}
    /\ UNCHANGED <<generation, kind, lastStart, queue, main, running, failure,
                   tunnel, field, closed, worker, slipped, interrupted, outside>>

\* PyVpnConnection.run: report a stage (the three reports of the handshake
\* publish the same state, so one stands for them), talk to the server.
Stage == Checked("stage", "publishStage", "handshake")
PublishStage == Published("publishStage", "handshake", "connecting")

\* run() is left by an exception or, at the end of heartbeatLoop, normally.
Ends(outcome) == execPc' = "close" /\ how' = outcome /\ UNCHANGED execReq

\* The handshake fails, is cancelled by requireNotStopped, or goes on; the last
\* look at stopRequested comes before running is set. The variant looks no more.
Handshake ==
    /\ execPc = "handshake"
    /\ \/ Ends("failed")
       \/ execReq \notin stopRequested /\ GoTo("handshake", "setRunning")
    /\ ExecOnly

SetRunning ==
    /\ GoTo("setRunning", "establish")
    /\ running' = running \union {execReq}
    /\ UNCHANGED <<shared, main, stopRequested, failure, tunnel, field, closed,
                   worker, slipped, interrupted, outside>>

\* The keepalive or establish() fails, or the interface comes up. When stop() is
\* in the middle of closeResources it will set the new field to null unclosed.
Establish ==
    \/ execPc = "establish" /\ Ends("failed") /\ ExecOnly
    \/ /\ GoTo("establish", "established")
       /\ tunnel' = tunnel \union {execReq}
       /\ field' = field \union {execReq}
       /\ slipped' = IF mainPc = "closing" /\ active = execReq
                     THEN slipped \union {execReq} ELSE slipped
       /\ UNCHANGED <<shared, main, stopRequested, running, failure, closed,
                      worker, interrupted, outside>>

\* The field is read again: no tunnel if stop() has set it to null by then.
Established ==
    /\ execPc = "established"
    /\ IF execReq \in field THEN GoTo("established", "connected") ELSE Ends("failed")
    /\ ExecOnly

Connected == Checked("connected", "publishConnected", "startWorkers")
PublishConnected == Published("publishConnected", "startWorkers", "connected")

StartWorkers ==
    /\ GoTo("startWorkers", "serve")
    /\ worker' = [worker EXCEPT ![execReq] = "alive"]
    /\ UNCHANGED <<shared, main, stopRequested, running, failure, tunnel, field,
                   closed, slipped, interrupted, outside>>

\* heartbeatLoop cannot go on: running is false, the sleep is interrupted, or
\* the control socket is closed. The variant only looks at running.
LoopEnds_flag(r) == r \notin running
LoopEnds(r) == r \notin running \/ interrupted \/ r \in closed

\* How it ends then: an exception of the socket as an exception; otherwise a
\* stop is no failure, a worker's failure is, and so is an interrupt that
\* nobody asked for.
ServeEnds ==
    /\ execPc = "serve" /\ LoopEnds(execReq)
    /\ \/ execReq \in closed /\ Ends("failed") /\ UNCHANGED interrupted
       \/ /\ execReq \notin running
          /\ Ends(IF execReq \in failure \ stopRequested THEN "failed" ELSE "returned")
          /\ UNCHANGED interrupted
       \/ /\ interrupted /\ interrupted' = FALSE
          /\ Ends(IF execReq \in stopRequested THEN "returned" ELSE "failed")
    /\ UNCHANGED <<shared, main, inside, outside>>

\* The server or the network fails.
ServeFails == execPc = "serve" /\ Ends("failed") /\ ExecOnly

\* The finally block: closeResources, behind a stop() that is closing, and
\* runnerThread = null. The variant leaves the closing to whoever stopped it.
StopIsClosing(r) == mainPc = "closing" /\ active = r

CloseAtEnd_unlessStopped ==
    /\ GoTo("close", "ended")
    /\ ~StopIsClosing(execReq)
    /\ running' = running \ {execReq}
    /\ tunnel' = IF execReq \in stopRequested THEN tunnel ELSE TunnelClosed(execReq)
    /\ Forgets(execReq)
    /\ UNCHANGED <<shared, main, stopRequested, failure, slipped, interrupted, outside>>
CloseAtEnd ==
    /\ GoTo("close", "ended")
    /\ ~StopIsClosing(execReq)
    /\ running' = running \ {execReq}
    /\ tunnel' = TunnelClosed(execReq)
    /\ Forgets(execReq)
    /\ UNCHANGED <<shared, main, stopRequested, failure, slipped, interrupted, outside>>

\* After run(): its outcome is published, if the request is still the newest.
Outcome == [returned |-> "disconnected", failed |-> "error"]
Ended == Checked("ended", "publishOutcome", "clear")
PublishOutcome == Published("publishOutcome", "clear", Outcome[how])

\* The finally block of the task.
Clear ==
    /\ GoTo("clear", "finish")
    /\ connection' = IF connection = execReq THEN None ELSE connection
    /\ UNCHANGED <<generation, kind, lastStart, queue, main, inside, interrupted,
                   outside>>

Finish == Checked("finish", "stopSelf", "idle")

\* stopSelfResult(startId), which has an effect only while no newer start
\* came in.
StopSelfResult ==
    /\ GoTo("stopSelf", "idle")
    /\ ending' = (ending \/ lastStart = execReq)
    /\ UNCHANGED <<shared, main, inside, interrupted, published, destroyed>>

\* The disconnect task after its check: publish, then stopSelf,
\* which takes effect whatever came in since.
PublishDisconnected ==
    Published("publishDisconnected", "stopService", "disconnected")

StopService ==
    /\ GoTo("stopService", "idle")
    /\ ending' = TRUE
    /\ UNCHANGED <<shared, main, inside, interrupted, published, destroyed>>

-----------------------------------------------------------------------------
\* failWorker, on the worker's own thread.

WorkerGoes(r, from, to) == worker[r] = from /\ worker' = [worker EXCEPT ![r] = to]
WorkerOnly == UNCHANGED <<shared, main, exec, stopRequested, running, failure, tunnel,
                          field, closed, slipped, interrupted, outside>>

\* A loop throws; nothing to do when the connection is stopped or closed.
WorkerFails(r) ==
    /\ WorkerGoes(r, "alive", IF r \in stopRequested \/ r \notin running
                              THEN "done" ELSE "failing")
    /\ WorkerOnly

\* compareAndSet(null, failure). The variant has it the other way round.
WorkerWins_again(r) ==
    /\ WorkerGoes(r, "failing", IF r \in failure THEN "won" ELSE "done")
    /\ failure' = failure \union {r}
    /\ UNCHANGED <<shared, main, exec, stopRequested, running, tunnel, field, closed,
                   slipped, interrupted, outside>>
WorkerWins(r) ==
    /\ WorkerGoes(r, "failing", IF r \in failure THEN "done" ELSE "won")
    /\ failure' = failure \union {r}
    /\ UNCHANGED <<shared, main, exec, stopRequested, running, tunnel, field, closed,
                   slipped, interrupted, outside>>

WorkerCloses(r) ==
    /\ WorkerGoes(r, "won", "readRunner")
    /\ ~StopIsClosing(r)
    /\ running' = running \ {r}
    /\ tunnel' = TunnelClosed(r)
    /\ field' = field \ {r} /\ closed' = closed \union {r}
    /\ UNCHANGED <<shared, main, exec, stopRequested, failure, slipped, interrupted,
                   outside>>

WorkerReadsRunner(r) ==
    /\ WorkerGoes(r, "readRunner", IF Runs(r) THEN "interrupt" ELSE "done")
    /\ WorkerOnly

\* The thread may be running another connection by now.
WorkerInterrupts(r) ==
    /\ WorkerGoes(r, "interrupt", "done")
    /\ interrupted' = TRUE
    /\ UNCHANGED <<shared, main, exec, stopRequested, running, failure, tunnel,
                   field, closed, slipped, outside>>

WorkerStep(r) == WorkerWins(r) \/ WorkerCloses(r) \/ WorkerReadsRunner(r)
                 \/ WorkerInterrupts(r)

-----------------------------------------------------------------------------
WorkersStep == \E r \in Requests : WorkerStep(r)

\* Everything the executor does by itself; a serving connection may go on.
ExecStep == \/ TakeTask \/ Create \/ Assign \/ Recheck \/ Stage \/ PublishStage
            \/ Handshake \/ SetRunning \/ Establish \/ Established \/ Connected
            \/ PublishConnected \/ StartWorkers \/ ServeEnds \/ CloseAtEnd
            \/ Ended \/ PublishOutcome \/ Clear \/ Finish \/ StopSelfResult
            \/ PublishDisconnected \/ StopService

Next == \/ ConnectArrives \/ DisconnectArrives \/ RefuseStart \/ MainStep
        \/ ExecStep \/ ServeFails
        \/ (\E r \in Requests : WorkerFails(r)) \/ WorkersStep

Spec == Init /\ [][Next]_vars

\* All threads run; requests and failures need not come.
Fairness == WF_vars(MainStep) /\ WF_vars(ExecStep) /\ WF_vars(WorkersStep)

FairSpec == Spec /\ Fairness

-----------------------------------------------------------------------------

MainSteps == {"idle", "read", "stop", "close", "closing", "readRunner", "interrupt",
              "handOver"}
TaskSteps == {"idle", "create", "assign", "recheck", "ended", "publishOutcome",
              "clear", "finish", "stopSelf", "publishDisconnected", "stopService"}

\* Every variable has its type.
TypeOK ==
    /\ generation \in 0..MaxRequests
    /\ mainPc \in MainSteps /\ mainReq \in 0..MaxRequests
    /\ execPc \in RunSteps \union TaskSteps /\ execReq \in 0..MaxRequests
    /\ kind \in [Requests -> {"none", "connect", "disconnect", "destroy"}]
    /\ lastStart \in 0..MaxRequests
    /\ connection \in 0..MaxRequests
    /\ queue \in Seq(Requests)
    /\ active \in 0..MaxRequests /\ how \in {"returned", "failed"}
    /\ stopRequested \subseteq Requests /\ running \subseteq Requests
    /\ failure \subseteq Requests /\ tunnel \subseteq Requests
    /\ field \subseteq Requests /\ closed \subseteq Requests
    /\ slipped \subseteq Requests
    /\ worker \in [Requests -> {"none", "alive", "failing", "won", "readRunner",
                                "interrupt", "done"}]
    /\ interrupted \in BOOLEAN
    /\ published \in [state : States, by : 0..MaxRequests]
    /\ ending \in BOOLEAN /\ destroyed \in BOOLEAN

\* A connection that a newer request replaced is never left running without a
\* stop: whichever thread is faster, either the main thread sees it in the
\* field and stops it, or the executor sees the new generation before run().
SupersededIsStopped ==
    (mainPc = "idle" /\ Runs(execReq) /\ ~IsCurrent) => execReq \in stopRequested

\* stop() interrupts nobody but the connection it stops: by the time its
\* interrupt arrives the executor runs no other one, though the task of an older
\* request may have started. (failWorker's interrupt can hit the next one.)
StopHitsItsOwn == mainPc = "interrupt" /\ Runs(execReq) => execReq = active

\* A VPN interface is up only while its run() goes on, wherever a stop or a
\* worker's failure met it, except for one that was assigned between the two
\* lines of closeResources that close the field and set it to null.
NothingLeftOpen == \A r \in tunnel : Runs(r) \/ r \in slipped

\* The screens tell the truth once both threads are at rest: a running
\* connection of the newest request is shown as connected, one that ended by
\* itself as failed, and after a disconnect nothing is. (A refused start
\* writes over it.)
SettledStateShown ==
    (/\ mainPc = "idle" /\ queue = <<>> /\ ~destroyed /\ generation # 0
     /\ published # NodeMissing) =>
        /\ (execPc = "serve" /\ IsCurrent)
              => published = Show("connected", generation)
        /\ (execPc = "idle" /\ kind[generation] = "disconnect")
              => published = Show("disconnected", generation)
        /\ (execPc = "idle" /\ kind[generation] = "connect")
              => published = Show("error", generation)

\* A disconnect that is not followed by another request takes the tunnel down
\* and says so (a refused start writes over it); the destruction of the service
\* takes it down as well. When Android ends the process in the middle of stop()
\* the tunnel goes with it, but nobody says so: the screens keep "stopping".
DisconnectCompletes ==
    (generation # 0 /\ kind[generation] # "connect") ~>
        \/ generation # 0 /\ kind[generation] = "connect"
        \/ /\ tunnel \subseteq slipped /\ connection = None
           /\ \/ destroyed   \* by onDestroy, or with its process
              \/ published \in {Show("disconnected", generation), NodeMissing}

\* A worker's failure ends the connection it works for.
FailureEndsRun ==
    (\E r \in failure : Runs(r)) ~> (\A r \in failure : ~Runs(r))

-----------------------------------------------------------------------------
\* What is due can happen: with it weak fairness of these actions is what
\* Fairness says in words.
Due ==
    /\ mainPc # "idle" => ENABLED <<MainStep>>_vars
    /\ execPc = "idle" /\ queue # <<>> => ENABLED <<ExecStep>>_vars
    /\ execPc = "serve" /\ LoopEnds(execReq) => ENABLED <<ExecStep>>_vars
    /\ execPc \notin {"idle", "serve"} /\ ~(execPc = "close" /\ StopIsClosing(execReq))
          => ENABLED <<ExecStep>>_vars
    /\ (\E r \in Requests : worker[r] = "won" /\ ~StopIsClosing(r))
          => ENABLED <<WorkersStep>>_vars

\* No more requests, and none of their tasks and workers goes on: each request
\* makes one task at most, and a worker takes four steps. This holds of every
\* behaviour of Spec, for generation only grows, up to MaxRequests.
Quiet == UNCHANGED <<generation, queue, worker>>
RequestsEnd == <>[][Quiet]_vars

=============================================================================
