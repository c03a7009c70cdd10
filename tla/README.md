# A TLA+ verification of pyvpn

pyvpn is a VPN in Python, with clients for Linux, macOS and Windows and one in
Java for Android. Nothing in it is a large algorithm; what is hard is order: a
server whose handlers share two tables between their awaits, datagrams that
arrive late, twice or after their session ended, a service and its connections
on five threads, a window and a process that only share files, a store that
several processes write without a lock, and programs that change a host step by
step and may be killed between any two of them. Those are what the modules here
model, check with TLC and prove with TLAPS.

All paths below are relative to the root of the repository; `src/pyvpn/` is its
Python package. `PROJECT.json` maps every definition to its lines.

## 1. Inventory

| Component | State it keeps | Operations | Talks to |
|---|---|---|---|
| Replay window: `src/pyvpn/replay.py`, `ReplayWindow.java` | `max_seq`, a bitmap of recently seen numbers | `accept(seq)` | both UDP handlers |
| Server control plane: `src/pyvpn/server.py` | `sessions_by_id`, `sessions_by_vip`, `last_seen` of each session, the stop event | hello, heartbeat, disconnect, timeout scan, stop and cleanup | one TLS connection per client, the UDP path (shared tables) |
| Server host: `server.py` (`run`, `cleanup`), `nat.py`, `tun.py` | `ip_forward`, nft table or iptables rule, the TUN descriptor and its reader on the event loop | enable, cleanup, read, close | kernel, `nft`, `iptables`, systemd |
| Data plane: UDP handlers and TUN readers of `server.py`, `client.py` | transmit counters, replay windows, `client_addr` | seal, open, keepalive and its echo, hand a packet to TUN | UDP, TUN, the session tables |
| Client host: `client.py`, `routes.py`, `system.py` | routes, policy rule and table, DNS, `resolv.conf`, DNS state file of a Mac, TUN device; what the process remembers of them | connect, set the host up, wait for the first task to end, restore | server, kernel, systemd, `networksetup`, PowerShell, the launchers |
| Windows desktop client: `windows_gui.py` | pid, stop and ready files, the profile store, flags and timers of the window | connect, disconnect, switch, add, edit, delete, close, poll | worker processes, by files only |
| Profile store: `profiles.py` | `servers.json` | add, select, update token, remove, show | command line, starting client and window: several processes |
| Android service: `PyVpnService.java` | `generation`, `connection`, the published state, the executor's queue | start, disconnect, refused start, `onDestroy`, connect task | main thread and executor, `PyVpnConnection`, screens |
| Android connection: `PyVpnConnection.java` | sockets, tunnel, worker threads, `running`, `stopRequested`, `workerFailure` | `run`, `stop`, `failWorker`, `closeResources` | three workers, executor thread, main thread |
| Framing, authentication, formats: `framing.py`, `auth.py`, `packet.py`, `crypto.py`, `ip.py` | none | pure functions | everyone |
| Android store and screens, packet tunnel skeleton of macOS, certificate, installers, packages | files | see section 7 | |

What is hard, and where it is treated (each item has its line in `PROJECT.json`,
`hazards`):

* *Between two awaits.* A server handler is suspended in `read_frame` or
  `drain()` while the scan evicts its session, its address goes to a new
  client, and only then its `finally` clause runs. -> ServerSessions
* *Behind what is due.* The TUN descriptor is closed while datagram handlers and the
  reader are still in the event loop's queue. -> ServerHost
* *On the net.* Datagrams are lost, repeated, reordered, and delivered to a later
  session with the same id or address. -> ReplayWindow, TunnelData
* *Between check and act on several threads.* The generation is compared and the
  state is published after it; the executor assigns a field the main thread
  has read as null; a stop or a worker's failure closes a connection that is just
  assigning its tunnel, and interrupts a thread that has moved on. -> AndroidService
* *Behind a dialog.* Timers and workers go on while a callback waits for the user
  and then acts on what it read before. -> WindowsGui
* *Without a lock.* A store is read, changed and renamed into place while another
  process does the same. -> ProfileStore
* *Half-way.* Any command of the setup fails, or the process is killed, and the next
  run finds what was left, perhaps on its way to another server; Android ends a
  process in the middle of `stop()`. -> ClientHost, ServerHost, ProfileStore,
  AndroidService
* *Never.* A peer that says nothing, a stop that waits for someone who does not
  know of it, a handler nobody wakes. -> the liveness properties of ServerSessions,
  AndroidService, WindowsGui and ClientHost

## 2. Modules

| Module | What it is |
|---|---|
| `AntiReplay` | abstract: a number passes once, and only if it is not older than the window |
| `ReplayWindow` | `accept()` on the bitmap, branch by branch; the Java port as a function of the same state |
| `AddressLease` | abstract: who holds which address |
| `ServerSessions` | handlers, tables, scan and shutdown of the server |
| `ServerHost` | a Linux host and the runs of the server on it: NAT, TUN device, event loop |
| `TunnelService` | abstract: packets come out once, in their session, under its address |
| `TunnelData` | both ends of the tunnel and the network; uses the window of `ReplayWindow` |
| `AndroidService` | `PyVpnService` and the connections it runs: main thread, executor, workers |
| `WindowsGui` | window, files and worker processes |
| `ClientHost` | a Linux, macOS or Windows host and the runs of the client on it |
| `ProfileStore` | `servers.json` and the processes that use it |
| `MC...` | instances and symmetry for TLC |
| `..._proofs` | theorems about the module of that name |

Definitions with a suffix (`Recheck_dropped`) are faulty variants of the one they
precede, for the mutants in `PROJECT.json`; no specification uses them.

### ReplayWindow

`max_seq` is the field of that name and `bitmap` the set of offsets whose bit is 1;
`accepted` (every number let through) and `verdict` (the last answer) are history.
Each branch of `accept` is an action. `ShiftMasked` is the shift and mask by which
a newer number moves the window, `CopyBits` and `JavaAccept` are the loop of the
Java port. Python integers do not overflow; `BitSet` and `long` do not either for
the numbers the Java sender can produce (it stops at 2^63).

### ServerSessions

An action is what the event loop executes from one await to the next; `pc` names
the await a handler is suspended at.

| Action | Code (`server.py`) |
|---|---|
| `Connect`, `ConnectionLost` | the transport |
| `Admit`, `RefuseHello` | `handle_control` from the first frame to the next await: checks, address, id, insertion |
| `ReadHeartbeat`, `ReadLast`, `ReadGarbage`, `ReadFails`, `LoopOn` | `_control_loop` |
| `Leave`, `HandlerEnds` | the `finally` clause, `_remove_session`, `writer.wait_closed` |
| `UdpRefresh` | what `handle_udp_datagram` does to `last_seen` |
| `Tick`, `TimeoutScan` | time and `session_timeout_loop` |
| `StopBegins`, `ListenerClosed`, `CleanupCloses`, `CleanupEnds`, `Cancelled`, `ProcessExits` | `run()` from the stop event on, `cleanup()`, the end of `asyncio.run` |

A handler makes at most one `ActiveSession`, so a session object is named by its
connection and `is session` is equality of connections. A connection name is used
again once its handler has ended. Time since `last_seen` is counted up to
`Timeout + 1`, from where on nothing tells values apart. `WaitsForConnections` says
whether `Server.wait_closed()` waits for connections, as it does from Python 3.12 on.

### ServerHost

`pc` is the place in `VpnServer.run`; a command of `nat.py` is an action, and so is
what the event loop runs between two awaits. `ready` is the loop's queue of what is
due: the first step of a datagram's handler, the TUN reader's next step, and `run()`
itself behind `asyncio.sleep(0)`. `Stop` cancels the tasks, `CloseUdp` closes the
endpoint and goes behind what is due, `RemoveNat` and `RestoreForward` are
`LinuxNatManager.cleanup`, `CloseTun` ends it. `SetupFails` is any failure before the
`try`, after which nothing is cleaned up, `Killed` is SIGKILL anywhere; both count
in `cuts`. The sessions are those of ServerSessions and left out here.

### TunnelData

`net` is the set of all datagrams ever sent and any may arrive at any time, any
number of times, or never: that is loss, duplication, delay and reordering in one.
A session's keys are its name, so a datagram opens only under the session it was
sealed in; that is what ChaCha20-Poly1305 promises as long as no nonce is used
twice, which `NonceOnce` checks. Ids and addresses are used again by later
sessions, so a late datagram can find another session under its id. The handlers
have no await before they change this state and are one action each
(`ClientReceives`, `ServerReceives`, `ClientReadsTun`, `ServerReadsTun`,
`ClientKeepalive`); a dropped datagram changes nothing and has no action. The
window is `ReplayWindow!JavaAccept`, an ordinary function, which `PortsAgree` shows
to be the Python window. `Rebind` is a client whose endpoint changes.

### AndroidService

One action per access to what the threads share, so that a check of `generation`
and what follows it can be separated, and so can the lines of `closeResources`. A
request is named by the value it gave the counter, a `PyVpnConnection` by its
request.

| Thread | Actions | Code |
|---|---|---|
| main | `ConnectArrives` ... `RefuseStart`, `ReadActive`, `EnqueueConnect`, `EnqueueDisconnect`, `ShutdownNow` | `onStartCommand`, `startConnection`, `requestDisconnect`, `onDestroy` |
| main | `StopRequest`, `StopCloses`, `StopForgets`, `ReadRunner`, `StopInterrupts` | `PyVpnConnection.stop` and `closeResources`, cut between the lines that close the tunnel and set it to null |
| main | `ProcessDies` | the frame and the TLS close that `closeResources` sends from the main thread, which Android refuses |
| executor | `TakeTask` ... `Recheck`, `Clear`, `Finish`, `StopSelfResult`, `PublishDisconnected`, `StopService` | the connect and disconnect tasks |
| executor | `Stage` ... `StartWorkers`, `ServeEnds`, `ServeFails`, `CloseAtEnd` | `PyVpnConnection.run` |
| worker | `WorkerFails`, `WorkerWins`, `WorkerCloses`, `WorkerReadsRunner`, `WorkerInterrupts` | `failWorker` |

`closeLock` is there: `CloseAtEnd` and `WorkerCloses` wait for a `stop()` that is
closing (`StopIsClosing`), and only `stop()` is cut in two, because no other caller
can meet `run()` at its assignment. `interrupted` is the executor thread's flag,
which the pool clears between tasks. `Init` shows whatever an earlier, killed process
published last.

`stop()` first writes a disconnect frame to a connection that is running
(`PyVpnConnection.java:455-465`). On the main thread Android refuses that with
`NetworkOnMainThreadException`, which is no `IOException`, so nobody catches it: the
process ends with the connection's interface, its threads and its tasks, and nothing
more is published (`ProcessDies`, which sets `destroyed`). `onRevoke` is called on a
binder thread, where the write goes through, and a connection that is not running yet
has nothing to write; therefore `StopCloses` and `StopForgets` are possible as well. The
write does not wait for the heartbeat's: `heartbeatLoop` sends one small frame and then
reads the answer before it sends another.

### WindowsGui

A callback of the window is one action, one that waits for a dialog is two
(`OpenProfile` and `SaveProfile`, `OpenDelete` and `Delete`, `CloseClicked` and
`CloseConfirmed`), and only the timers and the workers go on in between, because the
dialog grabs the input. `Connect`, `RequestDisconnect` and `Reconnect` are the methods
of these names, used by the callbacks as in the code. The four `Poll...` actions are
the branches of `_poll_process`. A worker goes from `new` (no pid file yet) over
`connecting` (the stop file is not looked at) and `up` to `ending` and `dead`.
`WindowRestarts` is a window that is opened again, after it was closed or killed;
`lost` is history: the workers that, from some moment on, neither the pid file nor a
window's child names.

### ClientHost

`pc` is the place in `VpnClient.run`; an action is one command that changes the host
(`routes.py`) or one await. Each run has server addresses of its own (`targets`, chosen
with the hello's answer: server, UDP host and bypass list of `client.py:141` change with
the profile, with DNS and with the launchers). The platform and how DNS is set (`resolver`: not at all,
the link of the device, `resolv.conf`, the network service of a Mac) are chosen with
the host and never change.

| Platform | Setup | Cleanup |
|---|---|---|
| Linux | `ReadDefaults`, `FlushPolicy` or `NoPolicy`, `AddTable`, `AddRule`, `AddBypass`, `ReplaceDefault`, `SetupDns` or `WriteResolvConf` | `RestoreDns`, `RemovePolicy`, `RemoveDefault`, `RestoreDefaults`, `RemoveBypass` |
| macOS | `MacReadDefault`, `MacAddBypass`, `MacAddSplit`, `MacVerify`, `MacReadDns`, `MacWriteState`, `MacSetDns` | `MacRestoreDns`, `MacRemoveSplit`, `RemoveBypass`; `Down` is `pyvpn-client-down` |
| Windows | `WindowsReadDefault`, `WindowsAddBypass` or `WindowsAddBypassFails`, `WindowsAddSplit` | `WindowsRemoveSplit`, `RemoveBypass` |

On Windows the commands are those of two PowerShell scripts, and `bypassed` says how
far each has come. `Raises` is any checked command that fails, `Killed` is SIGKILL
anywhere, after which a PowerShell script goes on for a while (`RoutesAfterKill`).
`cutShort`, `leftovers`, `stranded` and `strayed` are history: has a run ever been cut
short, has none come up and ended since, to which addresses may such a run have left
routes, did a run not see the host's own DNS. A setup that fails with an exception is
not cut short: it cleans up. The process's own memory (`saved`, `managed`, `bypassed`,
`backup`) is lost with it. `Down` may remove the route to any one address, or none:
which one depends on what the server's name resolves to when it is called.

Assumed: a command run with `check=False` fails only when there is nothing to do, the
host has one default route and one network service, stays in one network, and has no
host routes of its own to the server's addresses.

### ProfileStore

A read of the file is one step (it is never written in place); a save is three:
`MakeTemp`, `Write` with its `fsync`, `Rename`. What is computed in between is
`AddProfile`, `SelectProfile`, `UpdateToken`, `RemoveProfile`, as functions on stores.
`show`, and the window's dialog, read twice (`FirstLoad`). `PowerLoss` loses what was
not synced. `touched` is history: what other processes have changed since a request
was made, so that the properties can say what two overlapping operations may
lose and what not.

## 3. Runs

| Run | Instance | What it shows |
|---|---|---|
| `replay_window` | window 4, numbers 0..10 | the bitmap is the history, the filter is the abstract one, both ports agree |
| `server_sessions` | 3 connections, 2 slots, 3 ids, symmetric | tables agree, no slot leaks, no client evicts another, an address is free below the limit, addresses are leased |
| `server_liveness` | 2 connections, 2 slots | silent sessions are evicted, dead handlers end, a stop completes (before Python 3.12) |
| `server_stop_python312` | 2 connections, 1 slot, healthy clients | **violated**: see 6.1 |
| `server_host` | 3 runs cut short, 3 callbacks due at once | clients are masqueraded whenever they are served, whole runs leave nothing, cut ones a bounded rest, nobody uses the closed descriptor |
| `tunnel_data` | 2 sessions, 1 id, 1 address, 2 endpoints, window 2, 2 datagrams each way, symmetric | nonces are used once, replies go home, keepalives are echoed once, the tunnel implements `TunnelService` |
| `client_host` | 2 server addresses, any of them in each run, 3 platforms, runs unbounded | no routing loop, a clean host unless a run was cut short, leftovers go with the next whole run (a route with the next one to that server), `pyvpn-client-down` restores DNS, a stop ends the run |
| `client_host_crash` | as before, Linux | **violated**: see 6.3 |
| `profile_store` | 2 processes, 2 servers, 2 tokens, unbounded, symmetric | the store is readable after any kill, what is shown or saved is what the process was asked, up to what others changed meanwhile |
| `windows_gui` | 2 nodes, 2 workers, 1 restart, 1 failed call | no worker behind a closed window, never two, it runs the node shown, "connected" is of the worker that runs, a stop file stops its own worker, an accepted disconnect ends, a change of node reconnects |
| `windows_gui_close` | 2 nodes, 2 workers, nothing fails | **violated**: see 6.2 |
| `android_service` | 3 requests | a replaced connection is stopped, the screens tell the truth at rest, `stop()` hits its own connection, no interface outlives its connection, a disconnect ends the run or, where Android ends the process, takes the tunnel down with it, a failure ends the run |

Why these bounds are enough to meet the interesting cases:

* *Window 4, numbers to 10*: jumps of 1, of Size - 1, of Size and beyond, followed by
  late numbers on both sides of the edge. The theorems hold for every size.
* *Three connections, two slots*: one session evicted, its address given to a second
  client, a third at the limit, and the first handler still to run its `finally`.
  The liveness run has one connection less, for its state graph; an eviction or a
  stop concerns one handler, and the second is there to be unaffected. There
  `Timeout = 0`: silent means not heard of since the last tick. With healthy
  clients `Timeout = 1` leaves a heartbeat time to arrive.
* *Three cuts, three callbacks*: a run starts on what several have left, of both
  kinds; a datagram's handler is due before and behind the reader when the server stops.
* *Two sessions with one id and one address*: the second has both only after the
  first, and everything the first sent may still arrive. Window 2 with two
  datagrams each way has an accepted, a repeated and a late number; keepalives
  and data share the counters.
* *Two server addresses*: the loop over them may be cut off half-way, and the next run
  may have one of them, the other one, or both. Runs of the
  client are not counted, for the host has finitely many configurations.
* *Two processes, two servers*: one request comes between any two steps of the
  other; the active server is removed while another one is left, and the last one.
* *Two nodes*: a switch, and the deletion of the active and of the last one. *Two
  workers and a restart*: a reconnect; a worker the new window finds, or cannot see,
  and the one it starts. *One fault*: one stop file not written or one worker not
  started, after which the code must get along.
* *Three requests*: one replaced while its task is at any point, the replacement
  replaced too, and a late interrupt that meets the next connection.

Every property has a mutant in `PROJECT.json`: a plausible error in one mapped
definition under which TLC finds the property violated. Deadlock is checked except
where the system may stop: `AndroidService` and `WindowsGui` rest when the bounded
requests or workers are used up, `TunnelData` when its datagrams are.

The proof modules show the invariants of the runs for every instance (section 5), and
the liveness properties too, from hypotheses that say what the provers cannot know;
for these the bounds matter.

## 4. Fairness

* **ServerSessions.** `WF(Resumed)`: asyncio runs a handler that is ready, that is,
  whose connection is lost, whose bounded wait is over, or that is cancelled. `WF` of
  the loss of a *closing* transport: its TLS shutdown has a time limit. `WF(TimeoutScan)`:
  the scan wakes every five seconds. `WF(ServerStep)`: `run()` goes on. `WF(GatherStep)`:
  `asyncio.run` gathers the handlers it has cancelled; it follows from the fairness of
  each handler, and is there because the proof counts them together.
  No peer is assumed to send anything, nor to read: a handler may sit in `drain()` for ever.
  `HealthySpec`, used only for the violation of 6.1, adds clients that behave, so that
  the stop cannot be blamed on them.
* **AndroidService.** `WF` of the main thread, of the executor thread, and of some
  worker's step, which is what the scheduler gives a thread that is not blocked.
  Requests and failures of the network need not come; a handshake ends by its
  socket's timeouts or by a stop, which closes the socket.
* **WindowsGui.** `WF` of the window's timers (Tk's loop runs; a dialog runs the loop
  too), of the worker's start and end, of the stop file's loop, and of a connection
  attempt coming up or failing. The last is an assumption: `client.py` waits for the
  accept frame without a timeout (6, remarks).
* **ClientHost.** `WF(ClientStep)`: the process runs and its commands end. The answer
  to the hello is not part of it: the server may be silent.
* In each of the four modules `Due`, at its end, spells out when these actions are
  enabled: a worker that is `ending` can clean up, a task in the queue can be taken.
* ReplayWindow, TunnelData, ServerHost and ProfileStore promise safety only: what the
  net loses is never repeated, and the others are straight sequences of commands.

## 5. What is proved

For every value of the constants under the named assumptions of each module, and
with every failure and kill its model has. Where `TypeOK` is not a property of a run
it is a part of the inductive invariant and proved with it.

* **ReplayWindow_proofs** (`SizeAssumption`: at least 1; `SeqsAssumption`: naturals).
  `TypeOK /\ BitmapIsHistory` is inductive as it stands: bit `o` is set exactly if
  `max_seq - o` was accepted. `ShiftMaskedSpec` says what the shift does to the set.
  From it, `Refinement`: a number is stale for the abstract filter exactly if it is
  below the window, so each branch is an `Admit` or a `Refuse`. `PortsAgreeAlways` from
  `CopyIsShift`, for each of the branches.
* **ServerSessions_proofs** (finite `Conns` and `Ids`, at least `MaxClients` ids,
  at least one slot). The inductive invariant is
  `TypeOK /\ TablesAgree /\ NoLeakedSession`. The three need each other: a `finally`
  clause keeps the tables equal only if the session in them under its keys is its
  own or none; that no member is past its `finally` is what rules out a connection
  that is used again while an old entry names it. `FinallyDrops` and
  `DropsKeepsTables` reduce every removal (`finally`, scan, cleanup) to taking a set of
  connections out of both tables. `AddressAvailable` then is a pigeonhole argument:
  as many addresses are taken as ids, fewer than there are in the pool.
  `EvictsOnlyItself` and the refinement of `AddressLease` follow step by step, for the
  address table and for the id table.
* **ServerHost_proofs** (any number of cut runs, any length of the queue). `NatInv`
  says where in a run the masquerade is in place and the flag is read, `FlagInv` what
  may be restored; `LeftoversBounded` is inductive with them. For the descriptor,
  `QueueInv` orders the queue: once the UDP endpoint is closed every datagram is
  before `run()`, and `ReaderInv` has the cancelled reader before it as well, so when
  `run()` goes on neither is due. `RouterStaysRouterAlways` is a theorem without a run
  property: a host that forwarded before goes on doing so, whatever is killed.
* **TunnelData_proofs**. `NonceOnce` is strengthened by: every datagram on the net has
  a number at most its sender's counter. The refinement rests on `ServiceInv`, which
  adds that a session that sends has an address and an id (`SessionsOK`), that windows
  are well formed (`WindowsOK`), that data on the net carries its session's address
  (`DataOK`), and that every packet handed over is marked in, or older than, the
  window it went through (`MarkedOK`). `WindowStep` is the one lemma on the window:
  what passes was not marked, is afterwards, and nothing marked is forgotten unless
  it is too old to pass. `RepliesGoHome` needs no strengthening. `EchoOnce`
  is a count: the echoes are no more than the keepalives the window has taken
  (`EchoInv`), since by `WindowStep` an echo takes one that it had not, and forgets
  none. `TypesAlways` adds that every datagram is sent to an endpoint.
  `AddressesAreLeased` and `IdsAreLeased` tie the module to ServerSessions: its sessions,
  which just come and go, implement the same `AddressLease`, for their addresses and
  their ids (`EntryGrants`, `ExitReleases`: what a table without shared keys gains and
  loses with one session).
* **ClientHost_proofs** (any set of addresses, infinite too, and any of them in each
  run; any of the three platforms). `IInv` has a part per question:
  `LoopInv` (the default route leads into the tunnel only while every address is
  bypassed), `PlatformInv` (which state belongs to which platform), `OwnInv` (what the
  process knows of its own host routes, policy and DNS at each step), `OwnedInv` (a
  route is the run's own or `stranded`, and a run that came up knows of all there are to
  its own addresses and, if it has a policy, of rule and table), `HomeInv` (unless a run was cut short, what is not as it was can
  be restored from what the process kept, and the step that restores it is still
  ahead), `StateInv` (the DNS state file of a Mac says what the host's own DNS was
  whenever the VPN's is set).
* **ProfileStore_proofs** (`IdsAssumption`: naturals, `NoneAssumption`). `Shared`: the
  file holds a sound store, one with an active server unless it has none, and is on
  disk; `Locals` and `Own` say the same of what each process has read, and that a temporary
  file is complete and synced before it is renamed. `ReadableAlways` follows. For
  `ShownIsCurrentAlways` and `SavesWhatWasAskedAlways`, `Kept`: what a process keeps is
  still what the file says, but for what others have touched since, which is why
  `touched` is enough to say what two overlapping operations may lose. That the
  first server of a store exists is the well-foundedness of the naturals.
* **WindowsGui_proofs** (any nodes, workers, restarts and faults; `NoneAssumption`,
  `BoundsAssumption`). `SeenInv` is the heart: every living worker that is not lost is
  the window's child or named by the pid file. With `PidInv` (the file names the
  living) `OneWorker` and `NoOrphan` follow. `StopInv`: unless a worker was lost a stop
  file is for the one that lives, since the next one deletes it before it starts.
  `DialogInv` and `NodeInv` carry the node through the dialogs, `ReadyInv` and `ShowInv`
  the ready file.
* **AndroidService_proofs** (any number of requests). `OrderInv`: while the main thread
  is busy with a request, every task that waits or runs is of an earlier one;
  `FieldInv`: the field holds the connection of the running task; `StopInv`: a
  superseded connection is stopped, or the main thread is about to stop it, which is
  the argument for the generation counter being compared after the field is
  assigned. `ActiveInv` and `TunnelInv` (what is up is in the field `tunnel`, unless
  someone is between closing and null) give `StopHitsItsOwn` and `NothingLeftOpen`.
  `SettledStateShown` has an invariant of its own on top, `SettledInv`: while an earlier
  task runs the newest request is still to come (`PendingInv`), so whatever is
  published for the wrong request is written over; only superseded connections
  are stopped (`StoppedInv`), so the newest one ends with a failure (`EndInv`).

**Liveness.** All eight liveness properties of the passing runs are theorems of the form
`FairSpec /\ hypotheses => Property`. The provers have temporal logic and the fairness
rule, but do not know what ENABLED means, and cannot do induction over behaviours or
finite sets. What they lack is stated, as a hypothesis that every behaviour of the
module satisfies:

| Hypothesis | Says | Used by |
|---|---|---|
| `Due` | when the guard of a fair action holds, the action is enabled | all |
| `LoopsEnd` (ServerSessions) | `cleanup()` and the cancellation of the handlers are finitely many steps | the three of `server_liveness` |
| `RequestsEnd` (AndroidService) | there are `MaxRequests` requests, each with one task and a worker of four steps | `DisconnectCompletes`, `FailureEndsRun` |
| `LoopsEnd` (ClientHost) | a client that never leaves the loops over the server addresses comes to a point where it adds and removes no more routes | `StopEndsRun` |

TLC finds `Due` an invariant, and `LoopsEnd` and `RequestsEnd` properties of `Spec`, on the
instances of `server_liveness`, `android_service`, `client_host` and (`Due`) `windows_gui`:
add `INVARIANT Due` or `PROPERTY LoopsEnd` to the configuration to see it. They are not
part of the runs because they are true of the model, whatever the code does.
`ASSUME ~WaitsForConnections` in `StopCompletesFair` and `SilentSessionsEvictedFair` is
Python before 3.12; with 3.12 the property is false (6.1).

* *ServerSessions.* A stop goes through its phases in one order (`PhasesInOrder`) and
  leaves each (`LateEnds`). A handler on a dead connection is woken (`HandlerEndsFair`);
  the one that needs an argument is the handler of an evicted session, whose connection
  was closed by the scan or is one that `cleanup()` is still to close (`EvictedInv`).
  `OrphansEndFair` does without `LoopsEnd`. A silent session is evicted by the scan, or by
  the stop that cancels the scan first.
* *WindowsGui.* An accepted disconnect: in each phase of the worker the stop file, or the
  end of the worker, stays until it acts, whatever window, dialogs and restarts do
  in between. A change of node: the timer and the pending flag are handed on from poll
  to poll until the new worker runs or an exception of the property is met.
* *AndroidService.* `ProcessDies` leaves both threads at rest with nothing up. Otherwise
  no wakeup is lost: once the requests have ended, a connection that
  is superseded or whose worker failed has its sockets closed or someone is about to
  (`FailInv`, `ClosedInv`), so that the executor's wait is over, it comes to the end of
  the task, and takes the next one, the newest of which is the disconnect
  (`NewestInv`, `QueueInv`).
* *ClientHost.* `Left(n)`: at most `n` steps to the end of the run. Each step of the
  client lowers it (`LevelLowers`), but in the two loops over the addresses, where
  `LoopsEnd` is needed; nothing else raises it (`StoppingGoesOn`).

## 6. What the code does otherwise

1. **A server on Python 3.12 does not stop while a client is connected**
   (`server.py:151`). `run()` leaves `async with control_server` and awaits
   `wait_closed()`, which from 3.12 on waits for the connections, before `cleanup()`
   closes them; the scan was cancelled before. A client that sends its heartbeats
   holds the stop up until systemd kills the process, and NAT is not undone. The
   offline server package requires 3.12. With an earlier Python the stop completes
   (`server_liveness`).
2. **Closing the window after a switch connects again** (`windows_gui.py:819`).
   `_poll_process` looks at `pending_reconnect` before `close_after_stop`, and `_on_close`
   clears neither it nor the timer. The user has answered "disconnect and exit?" with
   yes; a new VPN starts and the window stays.
3. **After a kill, the next run restores the VPN's own resolv.conf**
   (`routes.py:116`). `setup` takes whatever the file says for the host's. README.md
   promises to "restore local networking when disconnected", the file itself says
   "Restored on client shutdown". A default route of metric 0 is lost the same way.

In every other respect the properties hold. What their statements except are
behaviours of the code worth knowing:

* A route that a killed run left to a server stays until a run with this address among
  its own has gone all the way, for a run removes only what it added itself
  (`routes.py:238`): after a change of profile it may stay for good (`stranded` in
  `LeftoversRemoved`). So do rule and table while no run finds a source address
  (`routes.py:171`).
* On Android, ending or replacing a connection that is up from the screen or by
  `onDestroy` ends the process, because `stop()` writes to the server on the main
  thread and expects an `IOException` at most (`PyVpnConnection.java:460`). The tunnel
  goes with the process, so `DisconnectCompletes` holds, but the screens keep
  "stopping", and a connection that was to replace the old one is not made.
* A stop file or a signal is not obeyed while the client waits for the server's
  answer (`client.py:111`): the file is polled only once the tunnel is up, the signal
  only sets an event, and the read has no timeout. `StopEndsRun` excepts it.
* A worker whose window is killed before the worker has written its pid cannot be
  seen by the next window, and a pid that such a worker writes late hides the
  worker of the new window. These are `lost`, the exception of most properties
  of WindowsGui.
* A worker that the reconnect timer starts behind an open dialog may go on with a
  node that the dialog then replaces or deletes, because the dialog acts on what it
  noted when it was opened (`started[w].dialog` in `RunsActiveNode`).
* A click on "disconnect" within the poll interval after a worker has died connects
  anew, because `toggle_connection` looks at the process and not at the screen.
* `PyVpnConnection.closeResources` closes the tunnel and sets the field to null in two
  steps, `run` assigns it without the lock: an interface assigned in between
  (`PyVpnConnection.java:466`) stays up until its descriptor is finalised (`slipped` in
  `NothingLeftOpen`).
* The interrupt of `failWorker` may hit the executor thread when it already runs the
  next connection, which then fails (`StopHitsItsOwn` is about `stop()` only).
* A connect that arrives between the executor's check of the generation and its
  `stopSelf` is destroyed with the service; `onDestroy` publishes nothing for it.
* Overlapping saves of the profile store lose the earlier one's change: nothing is
  locked. `SavesWhatWasAsked` says that no more than that is lost.

## 7. Only model-checked, and not modelled

Only model-checked: the hypotheses of the liveness theorems (section 5), which are
about ENABLED and about counting down to zero, and are out of the provers' reach. Every
invariant, every action property and every refinement of a passing run is proved
for every instance without them, and every liveness property from them.

Left out of the modelled components:

* server: the content of frames beyond what `handle_control` tells apart, TLS;
  the checks of `handle_control` and the insertion are one action (`Admit`), for there
  is no await between them, so `AddressAvailable` would not see one that was added;
  `drain()` blocks or not, without a buffer; a TUN reader that never suspends
  because packets come faster than it reads them (`server.py:310`), which is a
  matter of rates;
* data plane: packet formats, the exhaustion of 2^64 numbers; a client that sends
  under another client's address, which `server.py:299` drops (those of the model send
  only under their own); TUN backpressure.
  `LinuxTunDevice.write` has two writers share one `add_writer` registration, which would
  let the second replace the first one's callback, but a Linux TUN device takes
  a packet at once and its `EAGAIN` needs a send buffer that was made small, which
  nothing here does;
* Android: the text of notifications, permission dialogs, the three workers as
  different threads; `onRevoke`, which has a binder thread of its own, comes between
  two requests of the main thread and not in the middle of one; what Android refuses on
  which thread is the platform's, and is taken as possible, not as certain;
* Windows window: latency test, messages, the content of profiles, process numbers
  that are given out again;
* clients: several networks and network services, a network that changes during
  a run, heartbeat timing, frames; Wintun rings and utun headers;
* profile store: the temporary file that a killed save leaves beside the store, the
  masking of tokens. What `show` prints when others change the active server between
  its two loads is not restricted (`touched`). In the run there is one host, so an edit
  there changes the token only; the theorem is about any number of hosts.

Not modelled:

* *Framing, authentication, packet and key formats*: pure functions with tests; their
  failures are actions of the modules that call them, and cryptography is taken
  as what it promises.
* *macOS packet tunnel*: a skeleton nothing starts.
* *Android store and screens*: one synchronized object in one process; what the
  screens send is the input of AndroidService.
* *Certificate, constants, installers, packages, workflow*: no behaviour of the
  running system, apart from the stop-and-kill sequence of the launchers, which is
  an input of ClientHost, and the Python version of 6.1.

## 8. Plan

Modelled, checked and proved: ReplayWindow, ServerSessions, ServerHost, TunnelData,
ClientHost, ProfileStore, WindowsGui, AndroidService. What would come next:

1. **VpnSystem**: ServerSessions with the client's side of the control connection:
   both ends agree on who is connected, up to the timeouts.
2. A host with two networks in ClientHost, for the routes that are put back though
   the host has moved (`routes.py:234`).
