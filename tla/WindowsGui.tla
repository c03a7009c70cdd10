----------------------------- MODULE WindowsGui -----------------------------
(***************************************************************************)
(* The Windows desktop client: a window (one Tk event loop) and the worker *)
(* processes it starts, which know each other only through the pid file,   *)
(* the stop file and the ready file. Every callback of the window is one   *)
(* action; a callback that waits for a dialog is two, and timers and       *)
(* workers go on in between, the user's other clicks do not (a dialog      *)
(* grabs the input). The poll timer fires after a reconnect timer that the *)
(* previous poll set: 350 ms against 500 ms.                               *)
(*                                                                         *)
(* Workers are numbered as they are started. A pid file that names a dead  *)
(* process counts as no pid file: every reader of it deletes it. "ready"   *)
(* is the ready file or the line in the log that says the same.            *)
(***************************************************************************)
EXTENDS Integers

CONSTANTS
    Nodes,          \* server ids a profile may have
    None,           \* no node, no dialog
    MaxWorkers,     \* bound: workers ever started
    MaxRestarts,    \* bound: times the window is killed or opened again
    MaxFaults       \* bound: failed writes of the stop file, failed starts

ASSUME NoneAssumption == None \notin Nodes
ASSUME BoundsAssumption ==
    /\ MaxWorkers \in Nat \ {0}
    /\ MaxRestarts \in Nat
    /\ MaxFaults \in Nat

Workers == 1..MaxWorkers
Nobody == 0         \* no worker

VARIABLES
    launched,       \* workers started so far
    phase,          \* of each worker process
    started,        \* with what each worker was started
    pidFile, stopFile, ready,
    servers, active,            \* the profile store
    child, state, expectedStop, pendingReconnect, closeAfterStop,
    timer,          \* after(350, _connect) is due
    dialog,         \* the dialog the user is in, with what it remembers
    window,         \* "open" or "closed"
    restarts, faults,
    lost            \* workers that neither a pid file nor a window knows of

workerVars == <<launched, phase, started>>
files == <<pidFile, stopFile, ready>>
store == <<servers, active>>
flags == <<state, expectedStop, pendingReconnect, closeAfterStop>>
bounds == <<restarts, faults, lost>>
vars == <<workerVars, files, store, child, flags, timer, dialog, window, bounds>>

NoStart == [node |-> None, dialog |-> FALSE]

Init ==
    /\ launched = 0
    /\ phase = [w \in Workers |-> "unborn"]
    /\ started = [w \in Workers |-> NoStart]
    /\ pidFile = Nobody /\ stopFile = Nobody /\ ready = FALSE
    /\ servers \in SUBSET Nodes
    /\ active \in IF servers = {} THEN {None} ELSE servers
    /\ child = Nobody
    /\ state = "disconnected"
    /\ expectedStop = FALSE /\ pendingReconnect = FALSE /\ closeAfterStop = FALSE
    /\ timer = FALSE
    /\ dialog = None
    /\ window = "open"
    /\ restarts = 0 /\ faults = 0 /\ lost = {}

-----------------------------------------------------------------------------
\* The worker: _run_worker_with_logs around the client.

Alive(w) == phase[w] \in {"new", "connecting", "up", "ending"}

\* write_pid, before anything that can take long. A lost worker may be so late
\* that its pid takes the place of another's.
WorkerStarts(w) ==
    /\ phase[w] = "new"
    /\ phase' = [phase EXCEPT ![w] = "connecting"]
    /\ pidFile' = w
    /\ lost' = lost \union ({pidFile} \ {Nobody, child})
    /\ UNCHANGED <<launched, started, stopFile, ready, store, child, flags,
                   timer, dialog, window, restarts, faults>>

\* The tunnel is up: ready file and log line.
WorkerUp(w) ==
    /\ phase[w] = "connecting"
    /\ phase' = [phase EXCEPT ![w] = "up"]
    /\ ready' = TRUE
    /\ UNCHANGED <<launched, started, pidFile, stopFile, store, child, flags,
                   timer, dialog, window, bounds>>

\* stop_file_loop runs only once the tunnel is up.
WorkerSeesStop(w) ==
    /\ phase[w] = "up"
    /\ stopFile # Nobody
    /\ phase' = [phase EXCEPT ![w] = "ending"]
    /\ stopFile' = Nobody
    /\ UNCHANGED <<launched, started, pidFile, ready, store, child, flags,
                   timer, dialog, window, bounds>>

\* The connection fails or breaks; cleaning up takes its time.
WorkerFails(w) ==
    /\ phase[w] \in {"connecting", "up"}
    /\ phase' = [phase EXCEPT ![w] = "ending"]
    /\ UNCHANGED <<launched, started, files, store, child, flags, timer,
                   dialog, window, bounds>>

\* The process ends, after its cleanup or killed.
WorkerGone(w) ==
    /\ Alive(w)
    /\ phase' = [phase EXCEPT ![w] = "dead"]
    /\ pidFile' = IF pidFile = w THEN Nobody ELSE pidFile
    /\ UNCHANGED <<launched, started, stopFile, ready, store, child, flags,
                   timer, dialog, window, bounds>>

-----------------------------------------------------------------------------
\* The window. The variant trusts the child it started and reads no file.

Running_childOnly ==
    IF child # Nobody /\ Alive(child) THEN child ELSE Nobody

Running ==
    IF pidFile # Nobody THEN pidFile
    ELSE IF child # Nobody /\ Alive(child) THEN child ELSE Nobody

\* The user can click: the window is open and no dialog holds the input.
Free == window = "open" /\ dialog = None

Fault == faults < MaxFaults /\ faults' = faults + 1

\* Stale files go before a worker starts, and the log is emptied; the variants
\* leave the stop file, or what says that the last worker was connected.
Cleared_keeps(file) == file
Cleared(file) == Nobody

Unready_kept == UNCHANGED ready
Unready == ready' = FALSE

\* _connect. The store names a node, nobody is running: start a worker for it.
Launch ==
    /\ launched < MaxWorkers
    /\ launched' = launched + 1
    /\ phase' = [phase EXCEPT ![launched'] = "new"]
    /\ started' = [started EXCEPT ![launched'] =
                      [node |-> active, dialog |-> dialog # None]]
    /\ child' = launched'
    /\ stopFile' = Cleared(stopFile)
    /\ Unready
    /\ state' = "connecting"
    /\ expectedStop' = FALSE
    /\ UNCHANGED faults

LaunchFails ==
    /\ Fault
    /\ stopFile' = Cleared(stopFile)
    /\ Unready
    /\ UNCHANGED <<workerVars, child, state, expectedStop>>

Connect ==
    /\ \/ active # None /\ Running = Nobody /\ (Launch \/ LaunchFails)
       \/ /\ active = None \/ Running # Nobody
          /\ UNCHANGED <<workerVars, stopFile, ready, child, state,
                         expectedStop, faults>>
    /\ UNCHANGED <<pidFile, store, pendingReconnect, closeAfterStop, dialog,
                   window, restarts, lost>>

\* _request_disconnect. The variant notes the stop before the file is written.
RequestDisconnect_early ==
    IF Running = Nobody
    THEN UNCHANGED <<stopFile, state, expectedStop, faults>>
    ELSE /\ expectedStop' = TRUE
         /\ state' = "disconnecting"
         /\ \/ stopFile' = Running /\ UNCHANGED faults
            \/ Fault /\ UNCHANGED stopFile

RequestDisconnect ==
    IF Running = Nobody
    THEN UNCHANGED <<stopFile, state, expectedStop, faults>>
    ELSE \/ /\ stopFile' = Running
            /\ expectedStop' = TRUE
            /\ state' = "disconnecting"
            /\ UNCHANGED faults
         \/ Fault /\ UNCHANGED <<stopFile, state, expectedStop>>

\* toggle_connection, while the button is enabled.
Toggle ==
    /\ Free
    /\ state \in {"connected", "disconnected"}
    /\ servers # {}
    /\ IF Running # Nobody
       THEN /\ RequestDisconnect
            /\ UNCHANGED <<workerVars, pidFile, ready, store, child,
                           pendingReconnect, closeAfterStop, dialog, window,
                           restarts, lost>>
       ELSE Connect
    /\ UNCHANGED timer

\* The reconnect timer: whatever dialog is open.
ReconnectDue ==
    /\ window = "open"
    /\ timer
    /\ timer' = FALSE
    /\ Connect

\* What a change of the active node does to a running connection. The
\* variant leaves the connection as it is.
Reconnect_skips(changed) ==
    UNCHANGED <<pendingReconnect, stopFile, state, expectedStop, faults>>

Reconnect(changed) ==
    IF changed
    THEN pendingReconnect' = TRUE /\ RequestDisconnect
    ELSE UNCHANGED <<pendingReconnect, stopFile, state, expectedStop, faults>>

\* switch_node.
Switch(n) ==
    /\ Free
    /\ n \in servers \ {active}
    /\ active' = n
    /\ Reconnect(Running # Nobody)
    /\ UNCHANGED <<workerVars, pidFile, ready, servers, child, closeAfterStop,
                   timer, dialog, window, restarts, lost>>

\* add_node, edit_node: what they remember while the dialog is open.
OpenProfile(n) ==
    /\ Free
    /\ Running = Nobody \/ n # active
    /\ dialog' = [asks |-> "profile", node |-> n, wasRunning |-> Running # Nobody]
    /\ UNCHANGED <<workerVars, files, store, child, flags, timer, window, bounds>>

\* The rest of them, after the dialog; old_active is still the active node,
\* for nothing else can change it meanwhile.
SaveProfile(makeActive) ==
    /\ window = "open" /\ dialog # None
    /\ dialog.asks = "profile"
    /\ servers' = servers \union {dialog.node}
    /\ active' = IF makeActive \/ active = None THEN dialog.node ELSE active
    /\ Reconnect(makeActive /\ dialog.wasRunning /\ active # dialog.node)
    /\ dialog' = None
    /\ UNCHANGED <<workerVars, pidFile, ready, child, closeAfterStop, timer,
                   window, restarts, lost>>

\* delete_node asks first.
OpenDelete(n) ==
    /\ Free
    /\ n \in servers
    /\ Running = Nobody \/ n # active
    /\ dialog' = [asks |-> "delete", node |-> n]
    /\ UNCHANGED <<workerVars, files, store, child, flags, timer, window, bounds>>

\* sorted(servers)[0]: some node that is left.
NextActive(n) ==
    IF active # n THEN {active}
    ELSE IF servers = {n} THEN {None} ELSE servers \ {n}

Delete ==
    /\ window = "open" /\ dialog # None
    /\ dialog.asks = "delete"
    /\ servers' = servers \ {dialog.node}
    /\ active' \in NextActive(dialog.node)
    /\ dialog' = None
    /\ UNCHANGED <<workerVars, files, child, flags, timer, window, bounds>>

Destroy == window' = "closed" /\ dialog' = None /\ timer' = FALSE

\* _on_close. The variant does not look for a worker.
CloseClicked_always ==
    /\ Free
    /\ Destroy
    /\ UNCHANGED <<workerVars, files, store, child, flags, bounds>>

CloseClicked ==
    /\ Free
    /\ IF Running = Nobody
       THEN Destroy
       ELSE dialog' = [asks |-> "close"] /\ UNCHANGED <<window, timer>>
    /\ UNCHANGED <<workerVars, files, store, child, flags, bounds>>

CloseConfirmed ==
    /\ window = "open" /\ dialog # None
    /\ dialog.asks = "close"
    /\ closeAfterStop' = TRUE
    /\ RequestDisconnect
    /\ dialog' = None
    /\ UNCHANGED <<workerVars, pidFile, ready, store, child, pendingReconnect,
                   timer, window, restarts, lost>>

DialogCancelled ==
    /\ window = "open" /\ dialog # None
    /\ dialog' = None
    /\ UNCHANGED <<workerVars, files, store, child, flags, timer, window, bounds>>

-----------------------------------------------------------------------------
\* _poll_process. Telling the user of a failure changes nothing and is left out.

PollRunning ==
    /\ Running # Nobody
    /\ state' = IF state = "disconnecting" \/ expectedStop THEN "disconnecting"
                ELSE IF ready THEN "connected" ELSE "connecting"
    /\ UNCHANGED <<expectedStop, pendingReconnect, timer, dialog, window>>

\* The variant takes a requested stop for the end of it.
PollReconnects_unlessExpected ==
    /\ Running = Nobody
    /\ pendingReconnect
    /\ state' = "disconnected"
    /\ pendingReconnect' = FALSE /\ expectedStop' = FALSE
    /\ timer' = ~expectedStop
    /\ UNCHANGED <<dialog, window>>

PollReconnects ==
    /\ Running = Nobody
    /\ pendingReconnect
    /\ state' = "disconnected"
    /\ pendingReconnect' = FALSE /\ expectedStop' = FALSE
    /\ timer' = TRUE
    /\ UNCHANGED <<dialog, window>>

PollCloses ==
    /\ Running = Nobody
    /\ ~pendingReconnect /\ closeAfterStop
    /\ state' = "disconnected"
    /\ Destroy
    /\ UNCHANGED <<expectedStop, pendingReconnect>>

PollStopped ==
    /\ Running = Nobody
    /\ ~pendingReconnect /\ ~closeAfterStop
    /\ state' = "disconnected"
    /\ expectedStop' = FALSE
    /\ UNCHANGED <<pendingReconnect, timer, dialog, window>>

Poll ==
    /\ window = "open"
    /\ ~timer
    /\ PollRunning \/ PollReconnects \/ PollCloses \/ PollStopped
    /\ UNCHANGED <<workerVars, files, store, child, closeAfterStop, bounds>>

\* The window is killed, or was closed, and the program is started again; the
\* workers go on.
WindowRestarts ==
    /\ restarts < MaxRestarts
    /\ restarts' = restarts + 1
    /\ lost' = lost \union {w \in Workers : Alive(w) /\ pidFile # w}
    /\ child' = Nobody
    /\ state' = "disconnected"
    /\ expectedStop' = FALSE /\ pendingReconnect' = FALSE /\ closeAfterStop' = FALSE
    /\ timer' = FALSE
    /\ dialog' = None
    /\ window' = "open"
    /\ UNCHANGED <<workerVars, files, store, faults>>

WorkerSteps(w) ==
    WorkerStarts(w) \/ WorkerUp(w) \/ WorkerSeesStop(w) \/ WorkerFails(w)
    \/ WorkerGone(w)

Next ==
    \/ \E w \in Workers : WorkerSteps(w)
    \/ \E n \in Nodes : Switch(n) \/ OpenProfile(n) \/ OpenDelete(n)
    \/ \E makeActive \in BOOLEAN : SaveProfile(makeActive)
    \/ Toggle \/ ReconnectDue \/ Delete \/ CloseClicked \/ CloseConfirmed
    \/ DialogCancelled \/ Poll \/ WindowRestarts

Spec == Init /\ [][Next]_vars

\* The system runs the worker, and a connection attempt comes to an end one way
\* or the other.
AttemptEnds(w) == phase[w] = "connecting" /\ (WorkerUp(w) \/ WorkerFails(w))
CleanedUp(w) == phase[w] = "ending" /\ WorkerGone(w)

WorkerFairness(w) ==
    /\ WF_vars(WorkerStarts(w))
    /\ WF_vars(AttemptEnds(w))
    /\ WF_vars(WorkerSeesStop(w))
    /\ WF_vars(CleanedUp(w))

WorkersFairness == \A w \in Workers : WorkerFairness(w)

\* The event loop runs its timers.
TimersFairness == WF_vars(Poll) /\ WF_vars(ReconnectDue)

Fairness == TimersFairness /\ WorkersFairness

FairSpec == Spec /\ Fairness

-----------------------------------------------------------------------------

Dialogs == [asks : {"profile"}, node : Nodes, wasRunning : BOOLEAN]
           \union [asks : {"delete"}, node : Nodes] \union [asks : {"close"}]

\* Types; a pid file names a living worker and the active node is a saved one.
TypeOK ==
    /\ launched \in 0..MaxWorkers
    /\ phase \in [Workers -> {"unborn", "new", "connecting", "up", "ending", "dead"}]
    /\ started \in [Workers -> [node : Nodes \union {None}, dialog : BOOLEAN]]
    /\ pidFile \in Workers \union {Nobody}
    /\ stopFile \in Workers \union {Nobody}
    /\ child \in Workers \union {Nobody}
    /\ ready \in BOOLEAN /\ timer \in BOOLEAN
    /\ servers \subseteq Nodes
    /\ active \in servers \union {None}
    /\ state \in {"disconnected", "connecting", "connected", "disconnecting"}
    /\ expectedStop \in BOOLEAN /\ pendingReconnect \in BOOLEAN
    /\ closeAfterStop \in BOOLEAN
    /\ dialog = None \/ dialog \in Dialogs
    /\ window \in {"open", "closed"}
    /\ restarts \in 0..MaxRestarts /\ faults \in 0..MaxFaults
    /\ lost \subseteq Workers

\* A window that has closed leaves no VPN running behind it, whatever was
\* pending when it closed (_on_close, _poll_process). The one exception is a
\* worker whose own window was killed before the worker wrote its pid.
NoOrphan == window = "closed" => \A w \in Workers : Alive(w) => w \in lost

\* Two clients never fight over routes and DNS: the click, the reconnect timer
\* and a window opened again all start a worker only when none can be seen
\* (_connect), and the only one that cannot be seen is a lost one.
OneWorker ==
    \A v, w \in Workers : v # w /\ Alive(v) /\ Alive(w) => {v, w} \cap lost # {}

\* A worker that has not been asked to stop runs the node the window shows as
\* the current one: every change of the active node is followed by a reconnect
\* (switch_node, add_node, edit_node), or is refused. Excepted is a worker that
\* the reconnect timer started behind an open dialog, for the dialog goes by
\* the state it was opened in; nothing is said once a stop file could not be
\* written, nor of a window that has lost a worker, which may take any stop file.
RunsActiveNode ==
    lost = {} /\ faults = 0 /\ stopFile = Nobody
    => \A w \in Workers : phase[w] \in {"new", "connecting", "up"}
          => started[w].node = active \/ started[w].dialog

\* The window never shows "connected" for a worker whose tunnel is not up yet:
\* neither the file nor the log line by which it knows (_poll_process) can be an
\* earlier worker's, unless a lost one writes to the same files.
ShowsConnected ==
    lost = {} /\ state = "connected"
    => \A w \in Workers : phase[w] \notin {"new", "connecting"}

\* A worker that obeys a stop file is the one it was written for, never the
\* next one, which finds the file of a worker that died by itself; while there
\* is no lost worker, which may take any stop file.
StopIsForThisWorker ==
    [][\A w \in Workers : WorkerSeesStop(w) /\ lost = {} => stopFile = w]_vars

\* A disconnect that was accepted ends the worker it was meant for, also when
\* it was asked for while that worker was still connecting, and when the window
\* is killed after that; unless the worker is lost with its window.
StopsWhenAsked ==
    \A w \in Workers : expectedStop /\ Alive(w) ~> ~Alive(w) \/ lost # {}

\* A change of node under a running connection leads to a new worker, unless
\* meanwhile the window is closed or killed, the nodes are deleted or a call
\* fails; while there is no lost worker, which may take the stop file.
SwitchReconnects ==
    \A n \in 1..(MaxWorkers - 1), r \in 0..MaxRestarts, f \in 0..MaxFaults :
        pendingReconnect /\ expectedStop
        /\ launched = n /\ restarts = r /\ faults = f
        ~> \/ launched > n \/ window = "closed" \/ active = None
           \/ restarts > r \/ faults > f \/ lost # {}

\* The question of _on_close, "disconnect the VPN and exit?": once the user has
\* answered with yes, the window starts no VPN connection by itself.
ClosingStartsNothing ==
    [][ReconnectDue /\ closeAfterStop => launched' = launched]_vars

\* What is due can happen: with it weak fairness of these actions is what
\* WorkerFairness and Fairness say in words.
WorkerDue(w) ==
    /\ phase[w] = "new" => ENABLED <<WorkerStarts(w)>>_vars
    /\ phase[w] = "connecting" => ENABLED <<AttemptEnds(w)>>_vars
    /\ phase[w] = "up" /\ stopFile # Nobody => ENABLED <<WorkerSeesStop(w)>>_vars
    /\ phase[w] = "ending" => ENABLED <<CleanedUp(w)>>_vars

TimersDue ==
    window = "open" =>
        /\ timer /\ launched < MaxWorkers => ENABLED <<ReconnectDue>>_vars
        /\ ~timer /\ Running = Nobody /\ pendingReconnect => ENABLED <<Poll>>_vars

Due == TimersDue /\ \A w \in Workers : WorkerDue(w)
=============================================================================
