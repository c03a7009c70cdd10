-------------------------- MODULE WindowsGui_proofs --------------------------
(***************************************************************************)
(* OneWorker, NoOrphan, RunsActiveNode, ShowsConnected and                 *)
(* StopIsForThisWorker for any set of nodes and any number of workers,     *)
(* windows and failed calls; and, under the fairness of FairSpec, that a   *)
(* worker that is asked to stop ends and that a switch of nodes reconnects.*)
(***************************************************************************)
EXTENDS WindowsGui, TLAPS

\* The pid file names a living worker, and every worker has a node.
PidInv ==
    /\ pidFile # Nobody => Alive(pidFile)
    /\ \A w \in Workers : Alive(w) => started[w].node # None

\* The pid file or the window's child is every worker that is not lost.
SeenInv == \A w \in Workers : Alive(w) /\ w \notin lost => w \in {pidFile, child}

\* Unless a worker was lost, a stop file is for the one that is alive.
StopInv ==
    lost = {} /\ stopFile # Nobody => \A w \in Workers : Alive(w) => w = stopFile

\* A dialog that was opened while nobody ran, or asks for the active node, had
\* no worker before it.
DialogInv ==
    lost = {} /\ dialog # None
    /\ (\/ dialog.asks = "profile" /\ dialog.wasRunning = FALSE
        \/ dialog.asks = "delete" /\ dialog.node = active)
    => \A w \in Workers : Alive(w) => started[w].dialog = TRUE

\* Unless a worker was lost, what says "connected" is said of the one that runs.
Waiting == {"new", "connecting"}
ReadyInv == lost = {} /\ ready => \A w \in Workers : phase[w] \notin Waiting
ShowInv == lost = {} /\ state = "connected" => \A w \in Workers : phase[w] \notin Waiting

\* RunsActiveNode, as Boolean values rather than formulas.
NodeInv ==
    lost = {} /\ faults = 0 /\ stopFile = Nobody
    => \A w \in Workers : phase[w] \in {"new", "connecting", "up"}
          => started[w].node = active \/ started[w].dialog = TRUE

IInv == TypeOK /\ PidInv /\ SeenInv /\ OneWorker /\ NoOrphan /\ StopInv /\ DialogInv
        /\ NodeInv /\ ReadyInv /\ ShowInv

-----------------------------------------------------------------------------
\* What the window sees: the worker that runs, unless one is lost.

\* A count below its bound may go up by one, and is not 0 then.
LEMMA CountsOn ==
    ASSUME NEW bound \in Nat, NEW n \in 0..bound, n < bound
    PROVE  n + 1 \in 0..bound /\ n + 1 \in 1..bound /\ n + 1 # 0
OBVIOUS

LEMMA InitIInv == Init => IInv
<1> SUFFICES ASSUME Init PROVE IInv
    OBVIOUS
<1>1. started \in [Workers -> [node : Nodes \union {None}, dialog : BOOLEAN]]
    BY DEF Init, NoStart
<1>2. \A w \in Workers : ~Alive(w)
    BY DEF Init, Alive
<1>3. TypeOK
  <2>1. launched \in 0..MaxWorkers /\ restarts \in 0..MaxRestarts /\ faults \in 0..MaxFaults
      BY BoundsAssumption DEF Init
  <2>2. active \in servers \union {None} /\ servers \subseteq Nodes
      BY DEF Init
  <2>3. phase \in [Workers -> {"unborn", "new", "connecting", "up", "ending", "dead"}]
      BY DEF Init
  <2> QED
      BY <1>1, <2>1, <2>2, <2>3 DEF Init, TypeOK
<1> QED
    BY <1>2, <1>3 DEF Init, IInv, PidInv, SeenInv, OneWorker, NoOrphan, StopInv,
       DialogInv, NodeInv, ReadyInv, ShowInv, Alive

LEMMA RunningIs ==
    ASSUME IInv
    PROVE  /\ Running \in Workers \union {Nobody}
           /\ Running # Nobody => Alive(Running)
           /\ Running = Nobody => \A w \in Workers : Alive(w) => w \in lost
           /\ lost = {} => \A w \in Workers : Alive(w) => w = Running
<1> USE BoundsAssumption DEF Workers, Nobody
<1>1. /\ Running \in Workers \union {Nobody}
      /\ Running # Nobody => Alive(Running)
    BY DEF IInv, TypeOK, PidInv, Running
<1>2. ASSUME Running = Nobody, NEW w \in Workers, Alive(w) PROVE w \in lost
    BY <1>2 DEF IInv, TypeOK, PidInv, SeenInv, Running
<1>3. ASSUME lost = {}, NEW w \in Workers, Alive(w) PROVE w = Running
  <2>1. Running # Nobody
      BY <1>2, <1>3
  <2> QED
      BY <1>1, <1>3, <2>1 DEF IInv, OneWorker
<1> QED
    BY <1>1, <1>2, <1>3

\* The invariant speaks of the window's flags only in the types.
LEMMA IInvFlags ==
    ASSUME IInv, TypeOK', ReadyInv', ShowInv',
           UNCHANGED <<phase, started, pidFile, stopFile, child, active, dialog, faults,
                       lost>>,
           window' = window \/ window' = "open"
                   \/ \A w \in Workers : Alive(w) => w \in lost
    PROVE  IInv'
BY DEF IInv, PidInv, SeenInv, OneWorker, NoOrphan, StopInv, DialogInv, NodeInv, Alive

\* One worker's process goes on: nobody is alive who was not, and the worker may
\* write its pid, be lost or end.
LEMMA WorkerGoesOn ==
    ASSUME IInv, NEW w \in Workers, WorkerSteps(w)
    PROVE  IInv'
<1> USE BoundsAssumption DEF Workers, Nobody, Alive
<1>1. TypeOK'
  <2>1. CASE WorkerStarts(w)
      BY <2>1 DEF IInv, TypeOK, WorkerStarts, store, flags
  <2>2. CASE WorkerUp(w)
      BY <2>2 DEF IInv, TypeOK, WorkerUp, store, flags, bounds
  <2>3. CASE WorkerSeesStop(w)
      BY <2>3 DEF IInv, TypeOK, WorkerSeesStop, store, flags, bounds
  <2>4. CASE WorkerFails(w)
      BY <2>4 DEF IInv, TypeOK, WorkerFails, files, store, flags, bounds
  <2>5. CASE WorkerGone(w)
      BY <2>5 DEF IInv, TypeOK, WorkerGone, store, flags, bounds
  <2> QED
      BY <2>1, <2>2, <2>3, <2>4, <2>5 DEF WorkerSteps
<1>2. /\ \A v \in Workers : Alive(v)' => Alive(v)
      /\ \A v \in Workers : v # w => (Alive(v)' <=> Alive(v)) /\ phase'[v] = phase[v]
      /\ phase'[w] \in {"new", "connecting", "up"} =>
             phase[w] \in {"new", "connecting", "up"}
      /\ UNCHANGED <<started, child, active, dialog, window, faults>>
      /\ lost \subseteq lost'
      /\ \A v \in Workers : phase'[v] \in Waiting => phase[v] \in Waiting
      /\ state' = state
    BY DEF Waiting, IInv, TypeOK, WorkerSteps, WorkerStarts, WorkerUp, WorkerSeesStop,
           WorkerFails, WorkerGone, files, store, flags, bounds
<1>3. PidInv'
    BY <1>1, <1>2 DEF IInv, TypeOK, PidInv, WorkerSteps, WorkerStarts, WorkerUp,
           WorkerSeesStop, WorkerFails, WorkerGone, files
<1>4. SeenInv'
  <2>1. SUFFICES ASSUME NEW v \in Workers, Alive(v), v \notin lost'
                 PROVE  v \in {pidFile', child'} \/ ~Alive(v)'
      BY <1>2 DEF SeenInv
  <2>2. v \in {pidFile, child}
      BY <1>2, <2>1 DEF IInv, SeenInv
  <2>3. CASE WorkerStarts(w)
      BY <1>2, <2>1, <2>2, <2>3 DEF WorkerStarts
  <2>4. CASE WorkerGone(w)
    <3>1. phase'[w] = "dead"
        BY <2>4 DEF WorkerGone, IInv, TypeOK
    <3> QED
        BY <1>2, <2>2, <2>4, <3>1 DEF WorkerGone
  <2>5. CASE pidFile' = pidFile
      BY <1>2, <2>2, <2>5
  <2> QED
      BY <2>3, <2>4, <2>5 DEF WorkerSteps, WorkerUp, WorkerSeesStop, WorkerFails, files
<1>5. OneWorker'
    BY <1>2 DEF IInv, OneWorker
<1>6. NoOrphan'
    BY <1>2 DEF IInv, NoOrphan
<1>7. stopFile' = stopFile \/ stopFile' = Nobody
    BY DEF WorkerSteps, WorkerStarts, WorkerUp, WorkerSeesStop, WorkerFails,
           WorkerGone, files
<1>8. StopInv'
    BY <1>2, <1>7 DEF IInv, StopInv
<1>9. DialogInv'
    BY <1>2 DEF IInv, DialogInv
<1>10. NodeInv'
  <2>1. CASE stopFile' = stopFile
      BY <1>2, <2>1 DEF IInv, NodeInv
  <2>2. CASE WorkerSeesStop(w)
    <3>1. lost = {} => \A v \in Workers : Alive(v) => v = w
        BY <2>2 DEF WorkerSeesStop, IInv, OneWorker
    <3>2. phase'[w] = "ending"
        BY <2>2 DEF WorkerSeesStop, IInv, TypeOK
    <3> QED
        BY <1>2, <3>1, <3>2 DEF NodeInv
  <2> QED
      BY <2>1, <2>2 DEF WorkerSteps, WorkerStarts, WorkerUp, WorkerFails, WorkerGone,
         files
<1>11. ReadyInv'
  <2>1. CASE WorkerUp(w)
    <3>1. lost = {} => \A v \in Workers : Alive(v) => v = w
        BY <2>1 DEF WorkerUp, IInv, OneWorker
    <3>2. phase'[w] = "up"
        BY <2>1 DEF WorkerUp, IInv, TypeOK
    <3> QED
        BY <1>2, <3>1, <3>2 DEF ReadyInv, Waiting
  <2>2. CASE ready' = ready
      BY <1>2, <2>2 DEF IInv, ReadyInv
  <2> QED
      BY <2>1, <2>2 DEF WorkerSteps, WorkerStarts, WorkerSeesStop, WorkerFails,
         WorkerGone, files
<1>12. ShowInv'
    BY <1>2 DEF IInv, ShowInv
<1> QED
    BY <1>1, <1>3, <1>4, <1>5, <1>6, <1>8, <1>9, <1>10, <1>11, <1>12 DEF IInv

-----------------------------------------------------------------------------
\* The window starts a worker, or finds that it need not or cannot.

LEMMA ConnectKeeps ==
    ASSUME IInv, Connect, window = "open", timer' \in BOOLEAN
    PROVE  IInv'
<1> USE BoundsAssumption DEF Workers, Nobody, Alive
<1> USE DEF store, Cleared, Unready
<1>1. CASE active # None /\ Running = Nobody /\ Launch
  <2>1. PICK n \in Workers : /\ n = launched + 1
                             /\ phase' = [phase EXCEPT ![n] = "new"]
                             /\ started' = [started EXCEPT ![n] =
                                    [node |-> active, dialog |-> dialog # None]]
                             /\ child' = n
    <3>1. launched + 1 \in 1..MaxWorkers
        BY <1>1, CountsOn DEF Launch, IInv, TypeOK
    <3> QED
        BY <1>1, <3>1 DEF Launch
  <2>2. /\ stopFile' = Nobody /\ ready' = FALSE /\ expectedStop' = FALSE
        /\ state' = "connecting" /\ launched' = launched + 1
        /\ launched < MaxWorkers
        /\ UNCHANGED <<pidFile, servers, active, pendingReconnect, closeAfterStop,
                       dialog, window, restarts, faults, lost>>
      BY <1>1 DEF Connect, Launch
  <2>3. \A w \in Workers : Alive(w) => w \in lost
      BY <1>1, RunningIs
  <2>4. pidFile = Nobody
      BY <1>1 DEF Running, IInv, TypeOK
  <2>5. \A w \in Workers : w # n => phase'[w] = phase[w] /\ started'[w] = started[w]
      BY <2>1 DEF IInv, TypeOK
  <2>6. phase'[n] = "new" /\ started'[n] = [node |-> active, dialog |-> dialog # None]
      BY <2>1 DEF IInv, TypeOK
  <2>7. started' \in [Workers -> [node : Nodes \union {None}, dialog : BOOLEAN]]
    <3>1. [node |-> active, dialog |-> dialog # None]
          \in [node : Nodes \union {None}, dialog : BOOLEAN]
        BY DEF IInv, TypeOK
    <3> QED
        BY <2>1, <3>1 DEF IInv, TypeOK
  <2>8. TypeOK'
    <3>1. phase' \in [Workers -> {"unborn", "new", "connecting", "up", "ending", "dead"}]
        BY <2>1 DEF IInv, TypeOK
    <3>2. launched' \in 0..MaxWorkers
        BY <2>2, CountsOn DEF IInv, TypeOK
    <3> QED
        BY <2>1, <2>2, <2>7, <3>1, <3>2 DEF IInv, TypeOK
  <2>9. PidInv'
      BY <1>1, <2>1, <2>2, <2>4, <2>5, <2>6 DEF IInv, PidInv
  <2>10. SeenInv'
      BY <2>1, <2>2, <2>3, <2>5 DEF SeenInv
  <2>11. OneWorker'
      BY <2>2, <2>3, <2>5 DEF OneWorker
  <2>12. NoOrphan'
      BY <2>2 DEF NoOrphan
  <2>13. StopInv' /\ NodeInv' /\ DialogInv'
    <3>1. lost = {} => \A w \in Workers : Alive(w)' => w = n
        BY <2>3, <2>5
    <3>2. started'[n].node = active /\ started'[n].dialog = (dialog # None)
        BY <2>6
    <3>3. StopInv'
        BY <2>2 DEF StopInv
    <3>4. NodeInv'
        BY <2>2, <3>1, <3>2 DEF NodeInv
    <3>5. DialogInv'
        BY <2>2, <3>1, <3>2 DEF DialogInv
    <3> QED
        BY <3>3, <3>4, <3>5
  <2>14. ReadyInv' /\ ShowInv'
      BY <2>2 DEF ReadyInv, ShowInv
  <2> QED
      BY <2>8, <2>9, <2>10, <2>11, <2>12, <2>13, <2>14 DEF IInv
<1>2. CASE Running = Nobody /\ LaunchFails
  <2>1. /\ UNCHANGED <<phase, started, child, state, expectedStop, launched, pidFile,
                       servers, active, pendingReconnect, closeAfterStop, dialog,
                       window, restarts, lost>>
        /\ stopFile' = Nobody /\ ready' = FALSE /\ faults' = faults + 1
        /\ faults < MaxFaults
      BY <1>2 DEF Connect, LaunchFails, Fault, workerVars
  <2>2. TypeOK' /\ faults' # 0
    <3>1. faults' \in 0..MaxFaults /\ faults' # 0
        BY <2>1, CountsOn DEF IInv, TypeOK
    <3> QED
        BY <2>1, <3>1 DEF IInv, TypeOK
  <2> QED
      BY <2>1, <2>2 DEF IInv, PidInv, SeenInv, OneWorker, NoOrphan, StopInv, DialogInv,
                        NodeInv, ReadyInv, ShowInv
<1>3. CASE UNCHANGED <<workerVars, stopFile, ready, child, state, expectedStop, faults>>
  <2>1. UNCHANGED <<phase, started, launched, stopFile, ready, child, state,
                    expectedStop, faults, pidFile, servers, active, pendingReconnect,
                    closeAfterStop, dialog, window, restarts, lost>>
      BY <1>3 DEF Connect, workerVars
  <2>2. TypeOK' /\ ReadyInv' /\ ShowInv'
      BY <2>1 DEF IInv, TypeOK, ReadyInv, ShowInv
  <2> QED
      BY <2>1, <2>2, IInvFlags
<1> QED
    BY <1>1, <1>2, <1>3 DEF Connect

-----------------------------------------------------------------------------
\* The window asks a worker to stop.

\* Either the stop file names the running worker, or the call failed, or nobody
\* runs.
LEMMA AskStops ==
    ASSUME IInv, RequestDisconnect
    PROVE  /\ stopFile' \in Workers \union {Nobody} /\ faults' \in 0..MaxFaults
           /\ state' \in {"disconnected", "connecting", "connected", "disconnecting"}
           /\ expectedStop' \in BOOLEAN /\ state' \in {state, "disconnecting"}
           /\ \/ Running # Nobody /\ stopFile' = Running /\ faults' = faults
              \/ Running # Nobody /\ stopFile' = stopFile /\ faults' = faults + 1
                 /\ faults' # 0
              \/ Running = Nobody /\ stopFile' = stopFile /\ faults' = faults
<1>1. faults < MaxFaults => faults + 1 \in 0..MaxFaults /\ faults + 1 # 0
    BY BoundsAssumption, CountsOn DEF IInv, TypeOK
<1>2. /\ stopFile \in Workers \union {Nobody} /\ faults \in 0..MaxFaults
      /\ state \in {"disconnected", "connecting", "connected", "disconnecting"}
      /\ expectedStop \in BOOLEAN
      /\ Running \in Workers \union {Nobody}
    BY RunningIs DEF IInv, TypeOK
<1> QED
    BY <1>1, <1>2 DEF RequestDisconnect, Fault

\* Whoever asks: the worker that runs, if it can be named, is told, and the
\* active node stays or nobody had run.
LEMMA AskKeeps ==
    ASSUME IInv, RequestDisconnect, TypeOK',
           UNCHANGED <<phase, started, pidFile, child, ready, window, lost>>,
           \/ dialog' = dialog /\ dialog = None
           \/ dialog' = None
    PROVE  IInv'
<1> USE BoundsAssumption DEF Workers, Nobody, Alive
<1>1. PidInv' /\ SeenInv' /\ OneWorker' /\ NoOrphan'
    BY DEF IInv, PidInv, SeenInv, OneWorker, NoOrphan
<1>2. DialogInv'
    BY DEF DialogInv
<1>3. StopInv'
    BY AskStops, RunningIs DEF IInv, StopInv
<1>4. NodeInv'
  <2>1. SUFFICES ASSUME lost = {}, faults' = 0, stopFile' = Nobody, NEW w \in Workers,
                        Alive(w)
                 PROVE  FALSE
      BY DEF NodeInv
  <2>2. Running = w
      BY <2>1, RunningIs
  <2> QED
      BY <2>1, <2>2, AskStops
<1>5. ReadyInv' /\ ShowInv'
    BY AskStops DEF IInv, ReadyInv, ShowInv
<1> QED
    BY <1>1, <1>2, <1>3, <1>4, <1>5 DEF IInv

-----------------------------------------------------------------------------
\* Every step keeps it.

LEMMA StepIInv == IInv /\ [Next]_vars => IInv'
<1> SUFFICES ASSUME IInv, [Next]_vars PROVE IInv'
    OBVIOUS
<1> USE BoundsAssumption
<1>1. ASSUME NEW w \in Workers, WorkerSteps(w) PROVE IInv'
    BY <1>1, WorkerGoesOn
<1>2. ASSUME NEW n \in Nodes, Switch(n) PROVE IInv'
  <2>1. /\ UNCHANGED <<phase, started, launched, pidFile, ready, servers, child,
                       closeAfterStop, timer, dialog, window, restarts, lost>>
        /\ active' = n /\ n \in servers /\ dialog = None
      BY <1>2 DEF Switch, Free, workerVars
  <2>2. CASE Running # Nobody
    <3>1. RequestDisconnect /\ pendingReconnect' = TRUE
        BY <1>2, <2>2 DEF Switch, Reconnect
    <3>2. TypeOK'
        BY <2>1, <3>1, AskStops DEF IInv, TypeOK
    <3> QED
        BY <2>1, <3>1, <3>2, AskKeeps
  <2>3. CASE Running = Nobody
    <3>1. UNCHANGED <<pendingReconnect, stopFile, state, expectedStop, faults>>
        BY <1>2, <2>3 DEF Switch, Reconnect
    <3>2. TypeOK'
        BY <2>1, <3>1 DEF IInv, TypeOK
    <3>3. lost = {} => \A w \in Workers : ~Alive(w)
        BY <2>3, RunningIs
    <3> QED
        BY <2>1, <3>1, <3>2, <3>3
        DEF IInv, ReadyInv, ShowInv, PidInv, SeenInv, OneWorker, NoOrphan, StopInv,
            DialogInv, NodeInv, Alive
  <2> QED
      BY <2>2, <2>3
<1>3. ASSUME NEW n \in Nodes, OpenProfile(n) PROVE IInv'
  <2>1. /\ UNCHANGED <<phase, started, launched, pidFile, stopFile, ready, servers,
                       active, child, state, expectedStop, pendingReconnect,
                       closeAfterStop, timer, window, restarts, faults, lost>>
        /\ dialog' = [asks |-> "profile", node |-> n, wasRunning |-> Running # Nobody]
      BY <1>3 DEF OpenProfile, workerVars, files, store, flags, bounds
  <2>2. dialog'.asks = "profile" /\ dialog'.wasRunning = (Running # Nobody)
      BY <2>1
  <2>3. dialog' \in Dialogs
      BY <2>1 DEF Dialogs
  <2>4. TypeOK'
      BY <2>1, <2>3 DEF IInv, TypeOK
  <2>5. DialogInv'
      BY <2>1, <2>2, RunningIs DEF DialogInv, Alive
  <2> QED
      BY <2>1, <2>4, <2>5
      DEF IInv, ReadyInv, ShowInv, PidInv, SeenInv, OneWorker, NoOrphan, StopInv,
          NodeInv, Alive
<1>4. ASSUME NEW n \in Nodes, OpenDelete(n) PROVE IInv'
  <2>1. /\ UNCHANGED <<phase, started, launched, pidFile, stopFile, ready, servers,
                       active, child, state, expectedStop, pendingReconnect,
                       closeAfterStop, timer, window, restarts, faults, lost>>
        /\ dialog' = [asks |-> "delete", node |-> n]
        /\ Running = Nobody \/ n # active
      BY <1>4 DEF OpenDelete, workerVars, files, store, flags, bounds
  <2>2. dialog'.asks = "delete" /\ dialog'.node = n
      BY <2>1
  <2>3. dialog' \in Dialogs
      BY <2>1 DEF Dialogs
  <2>4. TypeOK'
      BY <2>1, <2>3 DEF IInv, TypeOK
  <2>5. DialogInv'
      BY <2>1, <2>2, RunningIs DEF DialogInv, Alive
  <2> QED
      BY <2>1, <2>4, <2>5
      DEF IInv, ReadyInv, ShowInv, PidInv, SeenInv, OneWorker, NoOrphan, StopInv,
          NodeInv, Alive
<1>5. ASSUME NEW makeActive \in BOOLEAN, SaveProfile(makeActive) PROVE IInv'
  <2>1. /\ UNCHANGED <<phase, started, launched, pidFile, ready, child, closeAfterStop,
                       timer, window, restarts, lost>>
        /\ dialog # None /\ dialog.asks = "profile" /\ dialog' = None
        /\ servers' = servers \union {dialog.node}
        /\ active' = IF makeActive \/ active = None THEN dialog.node ELSE active
        /\ Reconnect(makeActive /\ dialog.wasRunning /\ active # dialog.node)
      BY <1>5 DEF SaveProfile, workerVars
  <2>2. dialog.node \in Nodes /\ dialog.wasRunning \in BOOLEAN
      BY <2>1 DEF IInv, TypeOK, Dialogs
  <2>3. CASE makeActive /\ dialog.wasRunning /\ active # dialog.node
    <3>1. RequestDisconnect /\ pendingReconnect' = TRUE
        BY <2>1, <2>3 DEF Reconnect
    <3>2. TypeOK'
        BY <2>1, <2>2, <3>1, AskStops DEF IInv, TypeOK
    <3> QED
        BY <2>1, <3>1, <3>2, AskKeeps
  <2>4. CASE ~(makeActive /\ dialog.wasRunning /\ active # dialog.node)
    <3>1. UNCHANGED <<pendingReconnect, stopFile, state, expectedStop, faults>>
        BY <2>1, <2>4 DEF Reconnect
    <3>2. TypeOK'
        BY <2>1, <2>2, <3>1 DEF IInv, TypeOK
    <3>3. NodeInv'
      <4>1. SUFFICES ASSUME lost = {}, faults = 0, stopFile = Nobody, NEW w \in Workers,
                            phase[w] \in {"new", "connecting", "up"}
                     PROVE  started[w].node = active' \/ started[w].dialog = TRUE
          BY <2>1, <3>1 DEF NodeInv
      <4>2. Alive(w)
          BY <4>1 DEF Alive
      <4>3. CASE dialog.wasRunning = FALSE
          BY <2>1, <4>1, <4>2, <4>3 DEF IInv, DialogInv
      <4>4. CASE dialog.wasRunning = TRUE
        <5>1. active # None => active' = active
            BY <2>1, <2>4, <4>4
        <5>2. started[w].node # None
            BY <4>2 DEF IInv, PidInv
        <5> QED
            BY <4>1, <5>1, <5>2 DEF IInv, NodeInv
      <4> QED
          BY <2>2, <4>3, <4>4
    <3>4. DialogInv'
        BY <2>1 DEF DialogInv
    <3> QED
        BY <2>1, <3>1, <3>2, <3>3, <3>4
        DEF IInv, ReadyInv, ShowInv, PidInv, SeenInv, OneWorker, NoOrphan, StopInv,
            Alive
  <2> QED
      BY <2>3, <2>4
<1>6. CASE Toggle
  <2>1. CASE Running # Nobody
    <3>1. /\ UNCHANGED <<phase, started, launched, pidFile, ready, servers, active, child,
                         pendingReconnect, closeAfterStop, dialog, window, restarts,
                         lost, timer>>
          /\ RequestDisconnect /\ dialog = None
        BY <1>6, <2>1 DEF Toggle, Free, workerVars, store
    <3>2. TypeOK'
        BY <3>1, AskStops DEF IInv, TypeOK
    <3> QED
        BY <3>1, <3>2, AskKeeps
  <2>2. CASE Running = Nobody
    <3>1. Connect /\ timer' \in BOOLEAN
        BY <1>6, <2>2 DEF Toggle, IInv, TypeOK
    <3> QED
        BY <1>6, <3>1, ConnectKeeps DEF Toggle, Free
  <2> QED
      BY <2>1, <2>2
<1>7. CASE ReconnectDue
    BY <1>7, ConnectKeeps DEF ReconnectDue
<1>8. CASE Delete
  <2>1. /\ UNCHANGED <<phase, started, launched, pidFile, stopFile, ready, child, state,
                       expectedStop, pendingReconnect, closeAfterStop, timer, window,
                       restarts, faults, lost>>
        /\ dialog # None /\ dialog.asks = "delete" /\ dialog' = None
        /\ servers' = servers \ {dialog.node}
        /\ active' \in NextActive(dialog.node)
      BY <1>8 DEF Delete, workerVars, files, flags, bounds
  <2>2. active' \in servers' \union {None} /\ (active # dialog.node => active' = active)
      BY <2>1 DEF IInv, TypeOK, NextActive
  <2>3. TypeOK'
      BY <2>1, <2>2 DEF IInv, TypeOK
  <2>4. DialogInv'
      BY <2>1 DEF DialogInv
  <2>5. NodeInv'
    <3>1. SUFFICES ASSUME lost = {}, faults = 0, stopFile = Nobody, NEW w \in Workers,
                          phase[w] \in {"new", "connecting", "up"}
                   PROVE  started[w].node = active' \/ started[w].dialog = TRUE
        BY <2>1 DEF NodeInv
    <3>2. CASE dialog.node = active
        BY <2>1, <3>1, <3>2 DEF IInv, DialogInv, Alive
    <3>3. CASE dialog.node # active
        BY <2>2, <3>1, <3>3 DEF IInv, NodeInv
    <3> QED
        BY <3>2, <3>3
  <2> QED
      BY <2>1, <2>3, <2>4, <2>5
      DEF IInv, ReadyInv, ShowInv, PidInv, SeenInv, OneWorker, NoOrphan, StopInv, Alive
<1>9. CASE CloseClicked
  <2>1. UNCHANGED <<phase, started, launched, pidFile, stopFile, ready, servers, active,
                    child, state, expectedStop, pendingReconnect, closeAfterStop,
                    restarts, faults, lost>>
      BY <1>9 DEF CloseClicked, workerVars, files, store, flags, bounds
  <2>2. CASE Running = Nobody
    <3>1. window' = "closed" /\ dialog' = None /\ timer' = FALSE
        BY <1>9, <2>2 DEF CloseClicked, Destroy
    <3>2. TypeOK'
        BY <2>1, <3>1 DEF IInv, TypeOK
    <3>3. NoOrphan'
        BY <2>1, <2>2, RunningIs DEF NoOrphan, Alive
    <3>4. DialogInv'
        BY <3>1 DEF DialogInv
    <3> QED
        BY <2>1, <3>2, <3>3, <3>4
        DEF IInv, ReadyInv, ShowInv, PidInv, SeenInv, OneWorker, StopInv, NodeInv, Alive
  <2>3. CASE Running # Nobody
    <3>1. dialog' = [asks |-> "close"] /\ window' = window /\ timer' = timer
        BY <1>9, <2>3 DEF CloseClicked
    <3>2. dialog' \in Dialogs /\ dialog'.asks = "close"
        BY <3>1 DEF Dialogs
    <3>3. TypeOK'
        BY <2>1, <3>1, <3>2 DEF IInv, TypeOK
    <3>4. DialogInv'
        BY <3>2 DEF DialogInv
    <3> QED
        BY <2>1, <3>1, <3>3, <3>4
        DEF IInv, ReadyInv, ShowInv, PidInv, SeenInv, OneWorker, NoOrphan, StopInv,
            NodeInv, Alive
  <2> QED
      BY <2>2, <2>3
<1>10. CASE CloseConfirmed
  <2>1. /\ UNCHANGED <<phase, started, launched, pidFile, ready, servers, active, child,
                       pendingReconnect, timer, window, restarts, lost>>
        /\ RequestDisconnect /\ dialog' = None /\ closeAfterStop' = TRUE
      BY <1>10 DEF CloseConfirmed, workerVars, store
  <2>2. TypeOK'
      BY <2>1, AskStops DEF IInv, TypeOK
  <2> QED
      BY <2>1, <2>2, AskKeeps
<1>11. CASE DialogCancelled
  <2>1. /\ UNCHANGED <<phase, started, launched, pidFile, stopFile, ready, servers,
                       active, child, state, expectedStop, pendingReconnect,
                       closeAfterStop, timer, window, restarts, faults, lost>>
        /\ dialog' = None
      BY <1>11 DEF DialogCancelled, workerVars, files, store, flags, bounds
  <2>2. TypeOK'
      BY <2>1 DEF IInv, TypeOK
  <2>3. DialogInv'
      BY <2>1 DEF DialogInv
  <2> QED
      BY <2>1, <2>2, <2>3
      DEF IInv, ReadyInv, ShowInv, PidInv, SeenInv, OneWorker, NoOrphan, StopInv,
          NodeInv, Alive
<1>12. CASE Poll
  <2>1. UNCHANGED <<phase, started, launched, pidFile, stopFile, ready, servers, active,
                    child, closeAfterStop, restarts, faults, lost>>
      BY <1>12 DEF Poll, workerVars, files, store, bounds
  <2>2. TypeOK'
    <3>1. CASE PollRunning
        BY <2>1, <3>1 DEF PollRunning, IInv, TypeOK
    <3>2. CASE PollReconnects
        BY <2>1, <3>2 DEF PollReconnects, IInv, TypeOK
    <3>3. CASE PollCloses
        BY <2>1, <3>3 DEF PollCloses, Destroy, IInv, TypeOK
    <3>4. CASE PollStopped
        BY <2>1, <3>4 DEF PollStopped, IInv, TypeOK
    <3> QED
        BY <1>12, <3>1, <3>2, <3>3, <3>4 DEF Poll
  <2>3. CASE PollRunning \/ PollReconnects \/ PollStopped
    <3>1. /\ window' = window /\ dialog' = dialog
          /\ state' = "connected" => ready
        BY <2>3 DEF PollRunning, PollReconnects, PollStopped
    <3>2. ReadyInv' /\ ShowInv'
        BY <2>1, <3>1 DEF IInv, ReadyInv, ShowInv
    <3> QED
        BY <2>1, <2>2, <3>1, <3>2, IInvFlags
  <2>4. CASE PollCloses
    <3>1. dialog' = None /\ Running = Nobody
        BY <2>4 DEF PollCloses, Destroy
    <3>2. NoOrphan'
        BY <2>1, <3>1, RunningIs DEF NoOrphan, Alive
    <3>3. DialogInv'
        BY <3>1 DEF DialogInv
    <3> QED
        BY <2>1, <2>2, <2>4, <3>2, <3>3
        DEF IInv, ReadyInv, ShowInv, PidInv, SeenInv, OneWorker, StopInv, NodeInv,
            Alive, PollCloses
  <2> QED
      BY <1>12, <2>3, <2>4 DEF Poll
<1>13. CASE WindowRestarts
  <2>1. /\ UNCHANGED <<phase, started, launched, pidFile, stopFile, ready, servers,
                       active, faults>>
        /\ child' = Nobody /\ dialog' = None /\ window' = "open" /\ timer' = FALSE
        /\ state' = "disconnected" /\ expectedStop' = FALSE
        /\ pendingReconnect' = FALSE /\ closeAfterStop' = FALSE
        /\ restarts < MaxRestarts /\ restarts' = restarts + 1
        /\ lost' = lost \union {w \in Workers : Alive(w) /\ pidFile # w}
      BY <1>13 DEF WindowRestarts, workerVars, files, store
  <2>2. TypeOK'
    <3>1. restarts' \in 0..MaxRestarts
        BY <2>1, CountsOn DEF IInv, TypeOK
    <3> QED
        BY <2>1, <3>1 DEF IInv, TypeOK
  <2>3. SeenInv'
      BY <2>1 DEF SeenInv, Alive
  <2>4. NoOrphan' /\ DialogInv'
      BY <2>1 DEF NoOrphan, DialogInv
  <2>5. lost' = {} => lost = {}
      BY <2>1
  <2> QED
      BY <2>1, <2>2, <2>3, <2>4, <2>5
      DEF IInv, ReadyInv, ShowInv, PidInv, OneWorker, StopInv, NodeInv, Alive
<1>14. CASE UNCHANGED vars
  <2>1. UNCHANGED <<phase, started, launched, pidFile, stopFile, ready, servers, active,
                    child, state, expectedStop, pendingReconnect, closeAfterStop, timer,
                    dialog, window, restarts, faults, lost>>
      BY <1>14 DEF vars, workerVars, files, store, flags, bounds
  <2>2. TypeOK' /\ ReadyInv' /\ ShowInv'
      BY <2>1 DEF IInv, TypeOK, ReadyInv, ShowInv
  <2> QED
      BY <2>1, <2>2, IInvFlags
<1> QED
    BY <1>1, <1>2, <1>3, <1>4, <1>5, <1>6, <1>7, <1>8, <1>9, <1>10, <1>11, <1>12, <1>13,
       <1>14
    DEF Next

LEMMA Invariance == Spec => []IInv
BY InitIInv, StepIInv, PTL DEF Spec

-----------------------------------------------------------------------------
\* Types, and the active node is a saved one.
THEOREM TypesAlways == Spec => []TypeOK
<1>1. IInv => TypeOK
    BY DEF IInv
<1> QED
    BY <1>1, Invariance, PTL

\* No two clients run at once, unless one is out of the window's sight.
THEOREM OneWorkerAlways == Spec => []OneWorker
<1>1. IInv => OneWorker
    BY DEF IInv
<1> QED
    BY <1>1, Invariance, PTL

\* A closed window has left no VPN behind that it could have seen.
THEOREM NoOrphanAlways == Spec => []NoOrphan
<1>1. IInv => NoOrphan
    BY DEF IInv
<1> QED
    BY <1>1, Invariance, PTL

\* The worker that runs uses the node the window shows as the current one.
THEOREM RunsActiveNodeAlways == Spec => []RunsActiveNode
<1>1. IInv => RunsActiveNode
    BY DEF IInv, NodeInv, RunsActiveNode
<1> QED
    BY <1>1, Invariance, PTL

\* No worker that is still connecting is shown as connected.
THEOREM ShowsConnectedAlways == Spec => []ShowsConnected
<1>1. IInv => ShowsConnected
    BY DEF IInv, ShowInv, Waiting, ShowsConnected
<1> QED
    BY <1>1, Invariance, PTL

\* A stop file stops the worker it was written for and no later one.
THEOREM StopIsForThisWorkerAlways == Spec => StopIsForThisWorker
<1>1. IInv /\ [Next]_vars
      => [\A w \in Workers : WorkerSeesStop(w) /\ lost = {} => stopFile = w]_vars
    BY DEF IInv, StopInv, WorkerSeesStop, Alive
<1> QED
    BY <1>1, Invariance, PTL DEF Spec, StopIsForThisWorker

-----------------------------------------------------------------------------
\* Liveness: what is asked for is done, under the fairness of FairSpec. The
\* provers do not know what ENABLED means, so that "Due", which says that an event
\* that is due can happen, is a hypothesis.

\* A disconnect that is under way has left a stop file, or its worker is ending.
ExpectInv ==
    lost = {} /\ expectedStop =>
        \A w \in Workers : Alive(w) => stopFile = w \/ phase[w] = "ending"

\* Unless a worker was lost, the one that lives is the one that started last.
LatestInv == lost = {} => \A w \in Workers : Alive(w) => w = launched

\* Counters only go up, and a worker that is lost stays lost.
LEMMA CountersGrow ==
    ASSUME IInv, [Next]_vars
    PROVE  /\ launched' \in Int /\ launched' >= launched
           /\ restarts' \in Int /\ restarts' >= restarts
           /\ faults' \in Int /\ faults' >= faults
           /\ lost \subseteq lost'
<1> USE BoundsAssumption
<1>0. launched \in Int /\ restarts \in Int /\ faults \in Int
    BY DEF IInv, TypeOK
<1>1. ASSUME NEW w \in Workers, WorkerSteps(w)
      PROVE  UNCHANGED <<launched, restarts, faults>> /\ lost \subseteq lost'
    BY <1>1 DEF WorkerSteps, WorkerStarts, WorkerUp, WorkerSeesStop, WorkerFails,
                WorkerGone, bounds
<1>2. ASSUME RequestDisconnect PROVE faults' = faults \/ faults' = faults + 1
    BY <1>2 DEF RequestDisconnect, Fault
<1>3. ASSUME Connect
      PROVE  /\ launched' = launched \/ launched' = launched + 1
             /\ faults' = faults \/ faults' = faults + 1
             /\ UNCHANGED <<restarts, lost>>
    BY <1>3 DEF Connect, Launch, LaunchFails, Fault, workerVars
<1>4. CASE Toggle
  <2>1. CASE Running # Nobody
      BY <1>0, <1>2, <1>4, <2>1 DEF Toggle, workerVars
  <2>2. CASE Running = Nobody
      BY <1>0, <1>3, <1>4, <2>2 DEF Toggle
  <2> QED
      BY <2>1, <2>2
<1>5. CASE ReconnectDue
    BY <1>0, <1>3, <1>5 DEF ReconnectDue
<1>6. ASSUME NEW n \in Nodes, Switch(n) \/ OpenProfile(n) \/ OpenDelete(n)
      PROVE  /\ UNCHANGED <<launched, restarts, lost>>
             /\ faults' = faults \/ faults' = faults + 1
    BY <1>2, <1>6 DEF Switch, Reconnect, OpenProfile, OpenDelete, workerVars, bounds
<1>7. ASSUME NEW makeActive \in BOOLEAN, SaveProfile(makeActive)
      PROVE  /\ UNCHANGED <<launched, restarts, lost>>
             /\ faults' = faults \/ faults' = faults + 1
    BY <1>2, <1>7 DEF SaveProfile, Reconnect, workerVars
<1>8. CASE CloseConfirmed
    BY <1>0, <1>2, <1>8 DEF CloseConfirmed, workerVars
<1>9. CASE Delete \/ CloseClicked \/ DialogCancelled \/ Poll
    BY <1>0, <1>9 DEF Delete, CloseClicked, DialogCancelled, Poll, workerVars, bounds
<1>10. CASE WindowRestarts
    BY <1>0, <1>10 DEF WindowRestarts, workerVars
<1>11. CASE UNCHANGED vars
    BY <1>0, <1>11 DEF vars, workerVars, bounds
<1> QED
    BY <1>0, <1>1, <1>4, <1>5, <1>6, <1>7, <1>8, <1>9, <1>10, <1>11 DEF Next

\* While a worker is alive and none is lost, nobody else starts, a stop file
\* stays or is taken by this worker, and only a stop file is expected to end it.
LEMMA WhileAlive ==
    ASSUME IInv, [Next]_vars, NEW w \in Workers, Alive(w), lost' = {}
    PROVE  /\ launched' = launched
           /\ \/ /\ phase'[w] = phase[w]
                 /\ stopFile' \in {stopFile, w}
              \/ /\ <<phase[w], phase'[w]>> \in
                        {<<"new", "connecting">>, <<"connecting", "up">>,
                         <<"connecting", "ending">>, <<"up", "ending">>}
                 /\ stopFile' = stopFile \/ phase'[w] = "ending"
              \/ phase'[w] = "dead"
           /\ expectedStop' = TRUE => expectedStop = TRUE \/ stopFile' = w
           /\ \A v \in Workers : v # w => ~Alive(v) /\ ~Alive(v)'
<1> USE BoundsAssumption
<1>1. lost = {}
    BY CountersGrow
<1>2. Running = w /\ Running # Nobody
    BY <1>1, RunningIs DEF Workers, Nobody
<1>3. \A v \in Workers : Alive(v) => v = w
    BY <1>1 DEF IInv, OneWorker
<1>4. phase \in [Workers -> {"unborn", "new", "connecting", "up", "ending", "dead"}]
    BY DEF IInv, TypeOK
<1>5. \A v \in Workers : v # w => phase[v] \in {"unborn", "dead"}
    BY <1>3, <1>4 DEF Alive
<1> DEFINE Same == UNCHANGED <<launched, phase>>
           Told == stopFile' \in {stopFile, w}
                   /\ (expectedStop' = TRUE => expectedStop = TRUE \/ stopFile' = w)
<1>6. SUFFICES \/ Same /\ Told
               \/ WorkerSteps(w)
  <2>1. CASE Same /\ Told
      BY <1>5, <2>1 DEF Alive
  <2>2. CASE WorkerSteps(w)
    <3>1. /\ launched' = launched /\ expectedStop' = expectedStop
          /\ \A v \in Workers : v # w => phase'[v] = phase[v]
        BY <1>4, <2>2 DEF WorkerSteps, WorkerStarts, WorkerUp, WorkerSeesStop,
                          WorkerFails, WorkerGone, flags, files
    <3>2. \A v \in Workers : v # w => ~Alive(v) /\ ~Alive(v)'
        BY <1>5, <3>1 DEF Alive
    <3>3. \/ /\ <<phase[w], phase'[w]>> \in
                    {<<"new", "connecting">>, <<"connecting", "up">>,
                     <<"connecting", "ending">>, <<"up", "ending">>}
             /\ stopFile' = stopFile \/ phase'[w] = "ending"
          \/ phase'[w] = "dead"
        BY <1>4, <2>2 DEF WorkerSteps, WorkerStarts, WorkerUp, WorkerSeesStop,
                          WorkerFails, WorkerGone, flags, files
    <3> QED
        BY <3>1, <3>2, <3>3
  <2> QED
      BY <1>6, <2>1, <2>2
<1>7. ASSUME NEW v \in Workers, WorkerSteps(v) PROVE v = w
  <2>1. Alive(v)
      BY <1>7 DEF WorkerSteps, WorkerStarts, WorkerUp, WorkerSeesStop, WorkerFails,
                  WorkerGone, Alive
  <2> QED
      BY <1>3, <2>1
<1>8. ASSUME RequestDisconnect PROVE Told
    BY <1>2, <1>8 DEF RequestDisconnect
<1>9. ASSUME Connect PROVE Same /\ Told
    BY <1>2, <1>9 DEF Connect, workerVars
<1>10. CASE Toggle
    BY <1>2, <1>8, <1>10 DEF Toggle, workerVars
<1>11. CASE ReconnectDue
    BY <1>9, <1>11 DEF ReconnectDue
<1>12. ASSUME NEW n \in Nodes, Switch(n) \/ OpenProfile(n) \/ OpenDelete(n)
       PROVE  Same /\ Told
    BY <1>8, <1>12 DEF Switch, Reconnect, OpenProfile, OpenDelete, workerVars, files, flags
<1>13. ASSUME NEW makeActive \in BOOLEAN, SaveProfile(makeActive) PROVE Same /\ Told
    BY <1>8, <1>13 DEF SaveProfile, Reconnect, workerVars
<1>14. CASE CloseConfirmed
    BY <1>8, <1>14 DEF CloseConfirmed, workerVars
<1>15. CASE Delete \/ CloseClicked \/ DialogCancelled
    BY <1>15 DEF Delete, CloseClicked, DialogCancelled, workerVars, files, flags
<1>16. CASE Poll
    BY <1>2, <1>16 DEF Poll, PollRunning, PollReconnects, PollCloses, PollStopped,
                       workerVars, files
<1>17. CASE WindowRestarts
    BY <1>17 DEF WindowRestarts, workerVars, files
<1>18. CASE UNCHANGED vars
    BY <1>18 DEF vars, workerVars, files, flags
<1> QED
    BY <1>7, <1>10, <1>11, <1>12, <1>13, <1>14, <1>15, <1>16, <1>17, <1>18 DEF Next

\* A worker that was not alive before the step is the one just started, of which
\* nothing was asked.
LEMMA StartsUnasked ==
    ASSUME IInv, [Next]_vars, NEW w \in Workers, ~Alive(w), Alive(w)'
    PROVE  w = launched' /\ expectedStop' = FALSE
<1>1. phase \in [Workers -> {"unborn", "new", "connecting", "up", "ending", "dead"}]
    BY DEF IInv, TypeOK
<1>2. phase'[w] # phase[w] /\ phase' # phase
    BY DEF Alive
<1>3. ASSUME NEW v \in Workers, WorkerSteps(v) PROVE FALSE
  <2>1. Alive(v)
      BY <1>3 DEF WorkerSteps, WorkerStarts, WorkerUp, WorkerSeesStop, WorkerFails,
                  WorkerGone, Alive
  <2>2. v # w
      BY <2>1
  <2> QED
      BY <1>1, <1>2, <1>3, <2>2 DEF WorkerSteps, WorkerStarts, WorkerUp, WorkerSeesStop,
                  WorkerFails, WorkerGone
<1>4. ASSUME Connect PROVE w = launched' /\ expectedStop' = FALSE
    BY <1>1, <1>2, <1>4 DEF Connect, Launch, LaunchFails, workerVars
<1>5. CASE Toggle
    BY <1>2, <1>4, <1>5 DEF Toggle, workerVars
<1>6. CASE ReconnectDue
    BY <1>4, <1>6 DEF ReconnectDue
<1> QED
    BY <1>2, <1>3, <1>5, <1>6
    DEF Next, Switch, OpenProfile, OpenDelete, SaveProfile, Delete, CloseClicked,
        CloseConfirmed, DialogCancelled, Poll, WindowRestarts, vars, workerVars

LEMMA ExpectStep == IInv /\ IInv' /\ ExpectInv /\ [Next]_vars => ExpectInv'
<1> SUFFICES ASSUME IInv, IInv', ExpectInv, [Next]_vars,
                    lost' = {}, expectedStop' = TRUE,
                    NEW w \in Workers, Alive(w)'
             PROVE  stopFile' = w \/ phase'[w] = "ending"
    BY DEF ExpectInv
<1> USE BoundsAssumption
<1>1. CASE Alive(w)
  <2>1. lost = {}
      BY CountersGrow
  <2>2. expectedStop = TRUE => stopFile = w \/ phase[w] = "ending"
      BY <1>1, <2>1 DEF ExpectInv
  <2>3. CASE phase'[w] = phase[w] /\ stopFile' \in {stopFile, w}
      BY <1>1, <2>2, <2>3, WhileAlive
  <2>4. CASE phase[w] # "ending" /\ stopFile' = stopFile
      BY <1>1, <2>2, <2>4, WhileAlive
  <2>5. phase'[w] # "dead"
      BY DEF Alive
  <2> QED
      BY <1>1, <2>3, <2>4, <2>5, WhileAlive
<1>2. CASE ~Alive(w)
  <2>1. expectedStop' = FALSE
      BY <1>2, StartsUnasked
  <2> QED
      BY <2>1
<1> QED
    BY <1>1, <1>2

LEMMA LatestStep == IInv /\ LatestInv /\ [Next]_vars => LatestInv'
<1> SUFFICES ASSUME IInv, LatestInv, [Next]_vars, lost' = {},
                    NEW w \in Workers, Alive(w)'
             PROVE  w = launched'
    BY DEF LatestInv
<1>1. lost = {}
    BY CountersGrow
<1>2. CASE Alive(w)
    BY <1>1, <1>2, WhileAlive DEF LatestInv
<1>3. CASE ~Alive(w)
    BY <1>3, StartsUnasked
<1> QED
    BY <1>2, <1>3

LEMMA Invariance2 == Spec => [](IInv /\ ExpectInv /\ LatestInv)
<1>1. Init => ExpectInv /\ LatestInv
    BY DEF Init, ExpectInv, LatestInv, Alive
<1> QED
    BY <1>1, Invariance, StepIInv, ExpectStep, LatestStep, PTL DEF Spec

-----------------------------------------------------------------------------
\* A worker w that was asked to stop, and how far it is.
Asked(w, p) ==
    /\ lost = {}
    /\ phase[w] = p
    /\ stopFile = w \/ p = "ending"
Ended(w) == ~Alive(w) \/ lost # {}

\* Where a step may leave it.
LEMMA AskedStep ==
    ASSUME NEW w \in Workers
    PROVE  IInv /\ [Next]_vars =>
           /\ Asked(w, "new") => \/ Asked(w, "new")' \/ Asked(w, "connecting")'
                                 \/ Ended(w)'
           /\ Asked(w, "connecting") => \/ Asked(w, "connecting")' \/ Asked(w, "up")'
                                        \/ Asked(w, "ending")' \/ Ended(w)'
           /\ Asked(w, "up") => Asked(w, "up")' \/ Asked(w, "ending")' \/ Ended(w)'
           /\ Asked(w, "ending") => Asked(w, "ending")' \/ Ended(w)'
<1> SUFFICES ASSUME IInv, [Next]_vars, lost' = {}, ~Ended(w)',
                    NEW p \in {"new", "connecting", "up", "ending"}, Asked(w, p)
             PROVE  \/ Asked(w, p)'
                    \/ p = "new" /\ Asked(w, "connecting")'
                    \/ p = "connecting" /\ (Asked(w, "up") \/ Asked(w, "ending"))'
                    \/ p = "up" /\ Asked(w, "ending")'
    BY DEF Ended
<1>1. Alive(w) /\ phase[w] = p /\ phase'[w] # "dead"
    BY DEF Asked, Alive, Ended
<1>2. CASE phase'[w] = phase[w] /\ stopFile' \in {stopFile, w}
    BY <1>1, <1>2 DEF Asked
<1>3. CASE /\ <<phase[w], phase'[w]>> \in
                    {<<"new", "connecting">>, <<"connecting", "up">>,
                     <<"connecting", "ending">>, <<"up", "ending">>}
           /\ stopFile' = stopFile \/ phase'[w] = "ending"
    BY <1>1, <1>3 DEF Asked
<1> QED
    BY <1>1, <1>2, <1>3, WhileAlive

\* The step that fairness promises takes it on.
LEMMA AskedGoesOn ==
    ASSUME NEW w \in Workers
    PROVE  IInv =>
           /\ Asked(w, "new") /\ <<WorkerStarts(w)>>_vars => ~Asked(w, "new")'
           /\ Asked(w, "connecting") /\ <<AttemptEnds(w)>>_vars
                 => ~Asked(w, "connecting")'
           /\ Asked(w, "up") /\ <<WorkerSeesStop(w)>>_vars => ~Asked(w, "up")'
           /\ Asked(w, "ending") /\ <<CleanedUp(w)>>_vars => ~Asked(w, "ending")'
BY DEF IInv, TypeOK, Asked, WorkerStarts, AttemptEnds, WorkerUp, WorkerFails,
       WorkerSeesStop, CleanedUp, WorkerGone

\* What was asked of a worker is done, wherever in its life it is.
AskedSomewhere(w) == \E p \in {"new", "connecting", "up", "ending"} : Asked(w, p)
Obeys(w) == AskedSomewhere(w) ~> Ended(w)

LEMMA AskedEnds ==
    ASSUME NEW w \in Workers
    PROVE  FairSpec /\ []Due => Obeys(w)
<1>1. Due =>
         /\ Asked(w, "new") => ENABLED <<WorkerStarts(w)>>_vars
         /\ Asked(w, "connecting") => ENABLED <<AttemptEnds(w)>>_vars
         /\ Asked(w, "up") => ENABLED <<WorkerSeesStop(w)>>_vars
         /\ Asked(w, "ending") => ENABLED <<CleanedUp(w)>>_vars
  <2>1. Due => WorkerDue(w)
      BY DEF Due
  <2>2. Asked(w, "up") => stopFile # Nobody
      BY BoundsAssumption DEF Asked, Workers, Nobody
  <2> QED
      BY <2>1, <2>2 DEF WorkerDue, Asked
<1>2. FairSpec => /\ WF_vars(WorkerStarts(w)) /\ WF_vars(AttemptEnds(w))
                  /\ WF_vars(WorkerSeesStop(w)) /\ WF_vars(CleanedUp(w))
  <2>1. WorkersFairness => WorkerFairness(w)
      BY DEF WorkersFairness
  <2> QED
      BY <2>1, PTL DEF FairSpec, Fairness, WorkerFairness
<1>3. FairSpec => [][Next]_vars /\ []IInv
    BY Invariance, PTL DEF FairSpec, Spec
<1>4. FairSpec /\ []Due => (Asked(w, "ending") ~> Ended(w))
    BY <1>1, <1>2, <1>3, AskedStep, AskedGoesOn, PTL
<1>5. FairSpec /\ []Due => (Asked(w, "up") ~> Asked(w, "ending") \/ Ended(w))
    BY <1>1, <1>2, <1>3, AskedStep, AskedGoesOn, PTL
<1>6. FairSpec /\ []Due =>
         (Asked(w, "connecting")
          ~> Asked(w, "up") \/ Asked(w, "ending") \/ Ended(w))
    BY <1>1, <1>2, <1>3, AskedStep, AskedGoesOn, PTL
<1>7. FairSpec /\ []Due => (Asked(w, "new") ~> Asked(w, "connecting") \/ Ended(w))
    BY <1>1, <1>2, <1>3, AskedStep, AskedGoesOn, PTL
<1>8. AskedSomewhere(w) => \/ Asked(w, "new") \/ Asked(w, "connecting")
                            \/ Asked(w, "up") \/ Asked(w, "ending")
    BY DEF AskedSomewhere
<1> QED
    BY <1>4, <1>5, <1>6, <1>7, <1>8, PTL DEF Obeys

\* A disconnect that was accepted ends its worker: the stop file stays until the
\* worker takes it or is gone, whatever the window does meanwhile.
THEOREM StopsWhenAskedFair == FairSpec /\ []Due => StopsWhenAsked
<1> SUFFICES ASSUME NEW w \in Workers
             PROVE  FairSpec /\ []Due
                    => (expectedStop /\ Alive(w) ~> ~Alive(w) \/ lost # {})
    BY DEF StopsWhenAsked
<1>1. IInv /\ ExpectInv /\ LatestInv =>
         (expectedStop /\ Alive(w) => AskedSomewhere(w) \/ Ended(w))
    BY DEF ExpectInv, AskedSomewhere, Asked, Ended, Alive
<1>2. Ended(w) => ~Alive(w) \/ lost # {}
    BY DEF Ended
<1> QED
    BY <1>1, <1>2, AskedEnds, Invariance2, PTL DEF FairSpec, Obeys

-----------------------------------------------------------------------------
\* A switch under way, from the counters n, r and f on, and what it may end in.
Counts(n, r, f) == launched = n /\ restarts = r /\ faults = f
Over(n, r, f) ==
    \/ launched > n \/ window = "closed" \/ active = None
    \/ restarts > r \/ faults > f \/ lost # {}

NobodyAlive == \A w \in Workers : ~Alive(w)

\* The old worker is to end; it has, and the window is to see it; it has seen it.
Ending(n, r, f) ==
    /\ ~Over(n, r, f) /\ Counts(n, r, f)
    /\ pendingReconnect = TRUE /\ expectedStop = TRUE
    /\ Alive(n)
Unseen(n, r, f) ==
    /\ ~Over(n, r, f) /\ Counts(n, r, f)
    /\ pendingReconnect = TRUE /\ timer = FALSE
    /\ NobodyAlive
Scheduled(n, r, f) ==
    /\ ~Over(n, r, f) /\ Counts(n, r, f)
    /\ timer = TRUE
    /\ NobodyAlive

\* While a worker runs, only a new window forgets the reconnect or the stop.
LEMMA FlagsStay ==
    ASSUME IInv, [Next]_vars, Running # Nobody,
           pendingReconnect = TRUE, expectedStop = TRUE
    PROVE  \/ pendingReconnect' = TRUE /\ expectedStop' = TRUE
           \/ restarts' = restarts + 1
<1>1. ASSUME RequestDisconnect PROVE expectedStop' = TRUE
    BY <1>1 DEF RequestDisconnect
<1>2. ASSUME NEW w \in Workers, WorkerSteps(w) PROVE UNCHANGED flags
    BY <1>2 DEF WorkerSteps, WorkerStarts, WorkerUp, WorkerSeesStop, WorkerFails,
                WorkerGone
<1>3. ASSUME Connect PROVE UNCHANGED <<pendingReconnect, expectedStop>>
    BY <1>3 DEF Connect
<1>4. CASE Toggle \/ ReconnectDue
    BY <1>1, <1>3, <1>4 DEF Toggle, ReconnectDue
<1>5. ASSUME NEW n \in Nodes, Switch(n) \/ OpenProfile(n) \/ OpenDelete(n)
      PROVE  pendingReconnect' = TRUE /\ expectedStop' = TRUE
    BY <1>1, <1>5 DEF Switch, Reconnect, OpenProfile, OpenDelete, flags
<1>6. ASSUME NEW makeActive \in BOOLEAN, SaveProfile(makeActive)
      PROVE  pendingReconnect' = TRUE /\ expectedStop' = TRUE
    BY <1>1, <1>6 DEF SaveProfile, Reconnect
<1>7. CASE CloseConfirmed
    BY <1>1, <1>7 DEF CloseConfirmed
<1>8. CASE Delete \/ CloseClicked \/ DialogCancelled \/ UNCHANGED vars
    BY <1>8 DEF Delete, CloseClicked, DialogCancelled, vars, flags
<1>9. CASE Poll
    BY <1>9 DEF Poll, PollRunning, PollReconnects, PollCloses, PollStopped
<1>10. CASE WindowRestarts
    BY <1>10 DEF WindowRestarts
<1> QED
    BY <1>2, <1>4, <1>5, <1>6, <1>7, <1>8, <1>9, <1>10 DEF Next, flags

\* While nobody runs, a worker is started, a start fails, the window is a new one
\* or closed, or what is scheduled stays so.
LEMMA WhileNobody ==
    ASSUME IInv, [Next]_vars, NobodyAlive, active # None
    PROVE  \/ launched' = launched + 1 \/ faults' = faults + 1
           \/ restarts' = restarts + 1 \/ window' = "closed"
           \/ /\ phase' = phase
              /\ timer = TRUE => timer' = TRUE
              /\ pendingReconnect = TRUE => pendingReconnect' = TRUE \/ timer' = TRUE
<1>1. Running = Nobody
    BY RunningIs DEF NobodyAlive
<1> DEFINE Stays == /\ phase' = phase
                    /\ timer = TRUE => timer' = TRUE
                    /\ pendingReconnect = TRUE => pendingReconnect' = TRUE \/ timer' = TRUE
<1>2. ASSUME NEW w \in Workers, WorkerSteps(w) PROVE FALSE
    BY <1>2 DEF WorkerSteps, WorkerStarts, WorkerUp, WorkerSeesStop, WorkerFails,
                WorkerGone, Alive, NobodyAlive
<1>3. ASSUME Connect PROVE launched' = launched + 1 \/ faults' = faults + 1
    BY <1>1, <1>3 DEF Connect, Launch, LaunchFails, Fault
<1>4. CASE Toggle \/ ReconnectDue
    BY <1>1, <1>3, <1>4 DEF Toggle, ReconnectDue
<1>5. ASSUME NEW n \in Nodes, Switch(n) \/ OpenProfile(n) \/ OpenDelete(n)
      PROVE  Stays
    BY <1>1, <1>5 DEF Switch, Reconnect, OpenProfile, OpenDelete, flags, workerVars
<1>6. ASSUME NEW makeActive \in BOOLEAN, SaveProfile(makeActive)
      PROVE  Stays
    BY <1>1, <1>6 DEF SaveProfile, Reconnect, workerVars
<1>7. CASE CloseConfirmed
    BY <1>1, <1>7 DEF CloseConfirmed, workerVars
<1>8. CASE Delete \/ CloseClicked \/ DialogCancelled \/ UNCHANGED vars
    BY <1>8 DEF Delete, CloseClicked, Destroy, DialogCancelled, vars, flags, workerVars
<1>9. CASE Poll
    BY <1>1, <1>9 DEF Poll, PollRunning, PollReconnects, PollCloses, PollStopped, Destroy,
                      workerVars
<1>10. CASE WindowRestarts
    BY <1>10 DEF WindowRestarts
<1> QED
    BY <1>2, <1>4, <1>5, <1>6, <1>7, <1>8, <1>9, <1>10 DEF Next

LEMMA SwitchStep ==
    ASSUME NEW n \in 1..(MaxWorkers - 1), NEW r \in 0..MaxRestarts,
           NEW f \in 0..MaxFaults
    PROVE  IInv /\ IInv' /\ [Next]_vars =>
           /\ Ending(n, r, f)
              => \/ Ending(n, r, f)' \/ Unseen(n, r, f)' \/ Scheduled(n, r, f)'
                 \/ Over(n, r, f)'
           /\ Unseen(n, r, f)
              => Unseen(n, r, f)' \/ Scheduled(n, r, f)' \/ Over(n, r, f)'
           /\ Scheduled(n, r, f) => Scheduled(n, r, f)' \/ Over(n, r, f)'
<1> SUFFICES ASSUME IInv, IInv', [Next]_vars, ~Over(n, r, f)', ~Over(n, r, f),
                    Counts(n, r, f)
             PROVE  /\ Ending(n, r, f)
                       => \/ Ending(n, r, f)' \/ Unseen(n, r, f)'
                          \/ Scheduled(n, r, f)'
                    /\ Unseen(n, r, f) => Unseen(n, r, f)' \/ Scheduled(n, r, f)'
                    /\ Scheduled(n, r, f) => Scheduled(n, r, f)'
    BY DEF Ending, Unseen, Scheduled
<1> USE BoundsAssumption
<1>1. n \in Workers /\ n \in Int /\ r \in Int /\ f \in Int
    BY DEF Workers
<1>2. Counts(n, r, f)' /\ lost' = {} /\ lost = {} /\ active # None
      /\ window' # "closed"
  <2>1. launched' <= n /\ restarts' <= r /\ faults' <= f
      BY <1>1, CountersGrow DEF Over
  <2> QED
      BY <1>1, <2>1, CountersGrow DEF Counts, Over
<1>3. launched' # launched + 1 /\ faults' # faults + 1 /\ restarts' # restarts + 1
    BY <1>1, <1>2 DEF Counts
<1>4. timer' \in BOOLEAN
    BY DEF IInv, TypeOK
<1>5. ASSUME Ending(n, r, f)
      PROVE  Ending(n, r, f)' \/ Unseen(n, r, f)' \/ Scheduled(n, r, f)'
  <2>1. Alive(n) /\ pendingReconnect = TRUE /\ expectedStop = TRUE
      BY <1>5 DEF Ending
  <2>2. Running # Nobody
      BY <1>1, <1>2, <2>1, RunningIs DEF Workers, Nobody
  <2>3. pendingReconnect' = TRUE /\ expectedStop' = TRUE
      BY <1>3, <2>1, <2>2, FlagsStay
  <2>4. CASE Alive(n)'
      BY <1>2, <2>3, <2>4 DEF Ending
  <2>5. CASE ~Alive(n)'
    <3>1. NobodyAlive'
        BY <1>1, <1>2, <2>1, <2>5, WhileAlive DEF NobodyAlive
    <3> QED
        BY <1>2, <1>4, <2>3, <3>1 DEF Unseen, Scheduled
  <2> QED
      BY <2>4, <2>5
<1>6. ASSUME NobodyAlive
      PROVE  /\ NobodyAlive'
             /\ timer = TRUE => timer' = TRUE
             /\ pendingReconnect = TRUE => pendingReconnect' = TRUE \/ timer' = TRUE
    BY <1>2, <1>3, <1>6, WhileNobody DEF NobodyAlive, Alive
<1>7. ASSUME Unseen(n, r, f) PROVE Unseen(n, r, f)' \/ Scheduled(n, r, f)'
    BY <1>2, <1>4, <1>6, <1>7 DEF Unseen, Scheduled
<1>8. ASSUME Scheduled(n, r, f) PROVE Scheduled(n, r, f)'
    BY <1>2, <1>6, <1>8 DEF Scheduled
<1> QED
    BY <1>5, <1>7, <1>8

\* The poll that sees the old worker gone sets the timer, and the timer starts
\* the new one.
LEMMA SwitchGoesOn ==
    ASSUME NEW n \in 1..(MaxWorkers - 1), NEW r \in 0..MaxRestarts,
           NEW f \in 0..MaxFaults
    PROVE  IInv =>
           /\ Unseen(n, r, f) /\ <<Poll>>_vars => ~Unseen(n, r, f)'
           /\ Scheduled(n, r, f) /\ <<ReconnectDue>>_vars => ~Scheduled(n, r, f)'
<1> SUFFICES ASSUME IInv, NobodyAlive
             PROVE  /\ Unseen(n, r, f) /\ Poll => ~Unseen(n, r, f)'
                    /\ ReconnectDue => ~Scheduled(n, r, f)'
    BY DEF Unseen, Scheduled
<1>1. Running = Nobody
    BY RunningIs DEF NobodyAlive
<1> QED
    BY <1>1 DEF Unseen, Scheduled, Poll, PollRunning, PollReconnects, PollCloses,
                PollStopped, ReconnectDue

\* A change of node comes to its new worker, or one of the exceptions is met.
THEOREM SwitchReconnectsFair == FairSpec /\ []Due => SwitchReconnects
<1> SUFFICES ASSUME NEW n \in 1..(MaxWorkers - 1), NEW r \in 0..MaxRestarts,
                    NEW f \in 0..MaxFaults
             PROVE  FairSpec /\ []Due =>
                    (pendingReconnect /\ expectedStop
                     /\ launched = n /\ restarts = r /\ faults = f
                     ~> \/ launched > n \/ window = "closed" \/ active = None
                        \/ restarts > r \/ faults > f \/ lost # {})
    BY DEF SwitchReconnects
<1> USE BoundsAssumption
<1>1. n \in Workers
    BY DEF Workers
<1>2. FairSpec => /\ [][Next]_vars /\ [](IInv /\ ExpectInv /\ LatestInv)
                  /\ WF_vars(Poll) /\ WF_vars(ReconnectDue)
    BY Invariance2, PTL DEF FairSpec, Spec, Fairness, TimersFairness
<1>3. FairSpec /\ []Due => (Ending(n, r, f) ~> ~Alive(n) \/ Over(n, r, f))
  <2>1. IInv /\ ExpectInv /\ LatestInv =>
           (Ending(n, r, f) => AskedSomewhere(n) \/ Ended(n))
      BY <1>1 DEF ExpectInv, Ending, AskedSomewhere, Asked, Ended, Over, Alive
  <2>2. Ended(n) => ~Alive(n) \/ Over(n, r, f)
      BY DEF Ended, Over
  <2>3. FairSpec /\ []Due => Obeys(n)
      BY <1>1, AskedEnds
  <2> QED
      BY <1>2, <2>1, <2>2, <2>3, PTL DEF Obeys
<1>4. IInv /\ IInv' /\ [Next]_vars =>
           /\ Ending(n, r, f)
              => \/ Ending(n, r, f)' \/ Unseen(n, r, f)' \/ Scheduled(n, r, f)'
                 \/ Over(n, r, f)'
           /\ Unseen(n, r, f)
              => Unseen(n, r, f)' \/ Scheduled(n, r, f)' \/ Over(n, r, f)'
           /\ Scheduled(n, r, f) => Scheduled(n, r, f)' \/ Over(n, r, f)'
    BY SwitchStep
<1>5. IInv =>
           /\ Unseen(n, r, f) /\ <<Poll>>_vars => ~Unseen(n, r, f)'
           /\ Scheduled(n, r, f) /\ <<ReconnectDue>>_vars => ~Scheduled(n, r, f)'
    BY SwitchGoesOn
<1>6. Ending(n, r, f) => Alive(n)
    BY DEF Ending
<1>7. FairSpec /\ []Due =>
         (Ending(n, r, f) ~> Unseen(n, r, f) \/ Scheduled(n, r, f) \/ Over(n, r, f))
    BY <1>2, <1>3, <1>6, <1>4, PTL
<1>8. IInv /\ Due =>
         /\ Unseen(n, r, f) => ENABLED <<Poll>>_vars
         /\ Scheduled(n, r, f) => ENABLED <<ReconnectDue>>_vars
  <2> SUFFICES ASSUME IInv, Due, NobodyAlive, ~Over(n, r, f), Counts(n, r, f)
               PROVE  /\ Unseen(n, r, f) => ENABLED <<Poll>>_vars
                      /\ Scheduled(n, r, f) => ENABLED <<ReconnectDue>>_vars
      BY DEF Unseen, Scheduled
  <2>1. Running = Nobody
      BY RunningIs DEF NobodyAlive
  <2>2. window = "open" /\ launched < MaxWorkers
      BY DEF Over, Counts, IInv, TypeOK
  <2> QED
      BY <2>1, <2>2 DEF Due, TimersDue, Unseen, Scheduled
<1>9. FairSpec /\ []Due => (Unseen(n, r, f) ~> Scheduled(n, r, f) \/ Over(n, r, f))
    BY <1>2, <1>8, <1>4, <1>5, PTL
<1>10. FairSpec /\ []Due => (Scheduled(n, r, f) ~> Over(n, r, f))
    BY <1>2, <1>8, <1>4, <1>5, PTL
<1>11. IInv /\ ExpectInv /\ LatestInv =>
         (pendingReconnect /\ expectedStop
          /\ launched = n /\ restarts = r /\ faults = f
          => \/ Ending(n, r, f) \/ Unseen(n, r, f) \/ Scheduled(n, r, f)
             \/ Over(n, r, f))
  <2> SUFFICES ASSUME IInv, LatestInv, pendingReconnect, expectedStop,
                      launched = n, restarts = r, faults = f, ~Over(n, r, f)
               PROVE  Ending(n, r, f) \/ Unseen(n, r, f) \/ Scheduled(n, r, f)
      OBVIOUS
  <2>1. Counts(n, r, f) /\ lost = {} /\ timer \in BOOLEAN
        /\ pendingReconnect \in BOOLEAN /\ expectedStop \in BOOLEAN
      BY DEF Counts, Over, IInv, TypeOK
  <2>2. ~Alive(n) => NobodyAlive
      BY <2>1 DEF LatestInv, NobodyAlive
  <2> QED
      BY <2>1, <2>2 DEF Ending, Unseen, Scheduled
<1>12. Over(n, r, f) <=> \/ launched > n \/ window = "closed" \/ active = None
                         \/ restarts > r \/ faults > f \/ lost # {}
    BY DEF Over
<1> QED
    BY <1>2, <1>7, <1>9, <1>10, <1>11, <1>12, PTL

=============================================================================
