----------------------------- MODULE ClientHost -----------------------------
(***************************************************************************)
(* One run after another of the client on one host: VpnClient.run with the *)
(* network and DNS managers of routes.py for Linux, macOS or Windows. An   *)
(* action is one command or system call that changes the host; a run may   *)
(* be killed between any two of them, and a command that is checked may    *)
(* fail without effect. Commands whose order no property can tell apart    *)
(* are one action.                                                         *)
(*                                                                         *)
(* Each run has server addresses of its own: the profile, the DNS and the  *)
(* bypass addresses may be others than last time. The host has one default *)
(* route, "home", and so one source address. The Linux kernel keeps one    *)
(* default route per metric: the client's route through the tunnel         *)
(* replaces one of metric 0 and stands beside any other. Elsewhere the     *)
(* client leaves it alone and adds the two halves of the address space.    *)
(* The TUN device, its routes and its DNS link settings go with the        *)
(* process that holds it. Commands run with check=False fail only when     *)
(* there is nothing to do. On Windows the commands are those of two        *)
(* PowerShell scripts, which outlive a killed client for a while.          *)
(***************************************************************************)
CONSTANTS ServerIps,    \* servers, UDP hosts and bypass addresses of all runs
          Platforms,    \* those the host may have
          None          \* nothing kept, no file

ASSUME PlatformsAssumption == Platforms \subseteq {"linux", "darwin", "windows"}
ASSUME NoneAssumption == None \notin {"home", "vpn", "auto", "torn"}

VARIABLES
    platform,
    metricZero,     \* the home route has metric 0
    resolver,       \* where DNS is set; "off" with --no-dns
    main,           \* default routes of the main table, or halves of one
    rule, table,    \* the management rule, the default route in its table
    bypass,         \* host routes for servers
    dns,            \* what resolv.conf or the network service says
    stateFile,      \* the DNS that macos-dns-state.json says was there
    ready, stopFile,
    pc,             \* where the client is; "off" when there is none
    targets,        \* server_ips of the client's network object, {} without one
    manager,        \* the object has a DNS manager
    saved,          \* default_routes
    managed,        \* management_src is set
    bypassed,       \* bypassed_ips; on Windows how far the script has come
    backup,         \* resolv_conf_backup, previous_dns
    stop,           \* the _stop event
    finished,       \* tasks that are done
    cutShort,       \* history: some run ended without its whole cleanup
    leftovers,      \* history: and no later run has gone all the way
    stranded,       \* history: and whose addresses none of those had
    strayed         \* history: some run did not see the host's own DNS

config == <<platform, metricZero, resolver>>
host == <<config, main, rule, table, bypass, dns, stateFile>>
signals == <<ready, stopFile, stop, finished>>
kept == <<saved, managed, bypassed, backup>>
own == <<targets, manager, kept>>
history == <<cutShort, leftovers, stranded, strayed>>
vars == <<host, signals, own, history, pc>>

Tasks == {"tunToUdp", "heartbeat", "keepalive", "stopFile", "stop"}

Init ==
    /\ platform \in Platforms
    /\ metricZero \in (IF platform = "linux" THEN BOOLEAN ELSE {FALSE})
    /\ resolver \in {"off"} \union CASE platform = "linux" -> {"link", "file"}
                                    [] platform = "darwin" -> {"service"}
                                    [] platform = "windows" -> {"link"}
    /\ main = {"home"} /\ rule = FALSE /\ table = FALSE /\ bypass = {}
    /\ dns = "home" /\ stateFile = None
    /\ ready = FALSE /\ stopFile = FALSE /\ stop = FALSE /\ finished = {}
    /\ pc = "off"
    /\ targets = {} /\ manager = FALSE
    /\ saved = {} /\ managed = FALSE /\ bypassed = {} /\ backup = None
    /\ cutShort = FALSE /\ leftovers = FALSE /\ stranded = {} /\ strayed = FALSE

Goto(from, to) == pc = from /\ pc' = to

TunRoutes == {"tun", "low", "high"}

\* What is left of the routes when the TUN device goes: it is opened without
\* TUNSETPERSIST, a utun goes with its socket.
WithoutTun(routes) == routes \ TunRoutes

-----------------------------------------------------------------------------
\* Start to session. The launcher removes an old stop file, run() an old
\* ready file.
Start ==
    /\ Goto("off", "connect")
    /\ ready' = FALSE /\ stopFile' = FALSE
    /\ UNCHANGED <<host, stop, finished, own, history>>

\* _open_control comes before the try: its failure ends the run.
OpenControl == Goto("connect", "accept") /\ UNCHANGED <<host, signals, own, history>>

\* What the process had in memory is gone.
ProcessEnds ==
    /\ targets' = {} /\ manager' = FALSE
    /\ saved' = {} /\ managed' = FALSE /\ bypassed' = {} /\ backup' = None
    /\ stop' = FALSE /\ finished' = {}

ConnectFails ==
    /\ Goto("connect", "off")
    /\ ProcessEnds
    /\ UNCHANGED <<host, ready, stopFile, history>>

\* The server answers the hello: read_frame has no timeout.
Accepted == Goto("accept", "tun") /\ UNCHANGED <<host, signals, own, history>>

\* create_tun, configure_client; the network object is made for the server, the
\* host of its UDP endpoint and the bypass addresses of this run.
OpenTun ==
    /\ Goto("tun", "routes")
    /\ targets' \in SUBSET ServerIps \ {{}}
    /\ UNCHANGED <<host, signals, manager, kept, history>>

-----------------------------------------------------------------------------
\* LinuxClientNetwork.setup

ReadDefaults ==
    /\ platform = "linux"
    /\ Goto("routes", "policy")
    /\ saved' = main
    /\ UNCHANGED <<host, signals, targets, manager, managed, bypassed,
                   backup, history>>

\* _route_get finds a way to an address.
HasRoute(ip) == main # {} \/ ip \in bypass

\* And to server_ips[0]; which of the targets that is matters no further.
ServerHasRoute == \E ip \in targets : HasRoute(ip)

\* The old rule and table go. The variant does not note that the table is ours.
FlushPolicy_unmarked ==
    /\ Goto("policy", "tableAdd")
    /\ ServerHasRoute
    /\ rule' = FALSE /\ table' = FALSE
    /\ UNCHANGED <<config, main, bypass, dns, stateFile, signals, own, history>>

FlushPolicy ==
    /\ Goto("policy", "tableAdd")
    /\ ServerHasRoute
    /\ managed' = TRUE
    /\ rule' = FALSE /\ table' = FALSE
    /\ UNCHANGED <<config, main, bypass, dns, stateFile, signals, targets,
                   manager, saved, bypassed, backup, history>>

\* The way has no source address: no policy of this run, an old one stays.
NoPolicy ==
    /\ Goto("policy", "bypass")
    /\ ServerHasRoute
    /\ UNCHANGED <<host, signals, own, history>>

AddTable ==
    /\ Goto("tableAdd", "ruleAdd")
    /\ table' = TRUE
    /\ UNCHANGED <<config, main, rule, bypass, dns, stateFile, signals, own,
                   history>>

AddRule ==
    /\ Goto("ruleAdd", "bypass")
    /\ rule' = TRUE
    /\ UNCHANGED <<config, main, table, bypass, dns, stateFile, signals, own,
                   history>>

\* One turn of the loop over server_ips: an old route is replaced.
TakeOver(ip) ==
    /\ pc = "bypass"
    /\ ip \in targets \ bypassed
    /\ bypass' = bypass \union {ip}
    /\ bypassed' = bypassed \union {ip}
    /\ UNCHANGED <<config, main, rule, table, dns, stateFile, signals,
                   targets, manager, saved, managed, backup, history, pc>>

AddBypass(ip) == platform = "linux" /\ HasRoute(ip) /\ TakeOver(ip)

\* The loop is over. The variant is content with the first address.
AllBypassed_first == bypassed # {}
AllBypassed == bypassed = targets

ReplaceDefault ==
    /\ platform = "linux"
    /\ Goto("bypass", "dns")
    /\ AllBypassed
    /\ main' = {"tun"} \union IF metricZero THEN {} ELSE main
    /\ UNCHANGED <<config, rule, table, bypass, dns, stateFile, signals, own,
                   history>>

\* The content of resolv.conf is kept before the file is written; the variant
\* keeps it when the write has succeeded.
Kept_after(written) == IF written THEN dns ELSE None
Kept(written) == dns

\* LinuxDnsManager.setup: nothing, the link's DNS, which goes with the device,
SetupDns ==
    /\ platform = "linux" /\ resolver \in {"off", "link"}
    /\ Goto("dns", "up")
    /\ manager' = TRUE
    /\ UNCHANGED <<host, signals, targets, kept, history>>

\* or resolv.conf, also when resolvectl fails.
WriteResolvConf ==
    /\ platform = "linux" /\ resolver \in {"link", "file"}
    /\ pc = "dns"
    /\ manager' = TRUE
    /\ dns' = "vpn"
    /\ pc' \in {"up", "bye"}      \* the write may fail half-way
    /\ backup' = Kept(pc' = "up")
    /\ UNCHANGED <<config, main, rule, table, bypass, stateFile, signals,
                   targets, saved, managed, bypassed, history>>

-----------------------------------------------------------------------------
\* MacClientNetwork.setup

MacReadDefault ==
    /\ platform = "darwin"
    /\ Goto("routes", "bypass")
    /\ UNCHANGED <<host, signals, own, history>>

\* "route delete", then "route add",
MacAddBypass(ip) == platform = "darwin" /\ TakeOver(ip)

\* which may fail, on Windows too, with an old route gone.
LoseRoute(ip) ==
    /\ Goto("bypass", "bye")
    /\ ip \in targets \ bypassed
    /\ bypass' = bypass \ {ip}
    /\ UNCHANGED <<config, main, rule, table, dns, stateFile, signals, own,
                   history>>

MacAddBypassFails(ip) == platform = "darwin" /\ LoseRoute(ip)

\* 0.0.0.0/1, then 128.0.0.0/1, on both systems.
AddHalf(next) ==
    /\ pc = "bypass"
    /\ AllBypassed
    /\ IF "low" \notin main
       THEN main' = main \union {"low"} /\ UNCHANGED pc
       ELSE main' = main \union {"high"} /\ pc' = next
    /\ UNCHANGED <<config, rule, table, bypass, dns, stateFile, signals, own,
                   history>>

\* Added or, when it is there, changed.
MacAddSplit == platform = "darwin" /\ AddHalf("verify")

\* _verify_split_routes asks where two addresses and the server are routed.
MacVerify ==
    /\ Goto("verify", "dns")
    /\ {"low", "high"} \subseteq main /\ targets \cap bypass # {}
    /\ UNCHANGED <<host, signals, own, history>>

\* MacDnsManager.setup: --no-dns, or no network service for the interface;
MacNoService ==
    /\ platform = "darwin"
    /\ Goto("dns", "up")
    /\ manager' = TRUE
    /\ UNCHANGED <<host, signals, targets, kept, history>>

\* or what networksetup says, or nothing if it fails, which stands for
\* automatic DNS.
MacReadDns(readable) ==
    /\ resolver = "service"
    /\ Goto("dns", "dnsState")
    /\ manager' = TRUE
    /\ backup' = IF readable THEN dns ELSE "auto"
    /\ strayed' = (strayed \/ ~readable \/ dns # "home")
    /\ UNCHANGED <<host, signals, targets, saved, managed, bypassed,
                   cutShort, leftovers, stranded>>

\* The variant has it in memory only.
MacWriteState_forgets ==
    Goto("dnsState", "dnsSet") /\ UNCHANGED <<host, signals, own, history>>

MacWriteState ==
    /\ Goto("dnsState", "dnsSet")
    /\ stateFile' = backup
    /\ UNCHANGED <<config, main, rule, table, bypass, dns, signals, own, history>>

MacSetDns ==
    /\ Goto("dnsSet", "up")
    /\ dns' = "vpn"
    /\ UNCHANGED <<config, main, rule, table, bypass, stateFile, signals, own,
                   history>>

\* The state file that a write which fails, or is cut off, leaves.
CutOff == IF pc = "dnsState" THEN {stateFile, "torn"} ELSE {stateFile}

-----------------------------------------------------------------------------
\* WindowsClientNetwork.setup: a script that stops at the first command that
\* fails. It sets the DNS of the TUN device last.

WindowsReadDefault ==
    /\ platform = "windows"
    /\ Goto("routes", "bypass")
    /\ UNCHANGED <<host, signals, own, history>>

WindowsAddBypass(ip) == platform = "windows" /\ TakeOver(ip)

WindowsAddBypassFails(ip) == platform = "windows" /\ LoseRoute(ip)

WindowsAddSplit == platform = "windows" /\ AddHalf("up")

-----------------------------------------------------------------------------

\* A checked command fails, a file cannot be read, the answer is an error.
Raises ==
    /\ pc \in {"accept", "tun", "routes", "policy", "tableAdd", "ruleAdd",
               "bypass", "verify", "dns", "dnsState", "dnsSet", "up"}
    /\ pc' = "bye"
    /\ stateFile' \in CutOff
    /\ UNCHANGED <<config, main, rule, table, bypass, dns, signals, own, history>>

\* The UDP endpoint, the first keepalive, the ready file, the tasks.
GoesUp ==
    /\ Goto("up", "running")
    /\ ready' = TRUE
    /\ UNCHANGED <<host, stopFile, stop, finished, own, history>>

-----------------------------------------------------------------------------
\* Running

\* SIGINT, SIGTERM: the handler sets the event, wherever the run is.
Signal ==
    /\ pc # "off"
    /\ stop' = TRUE
    /\ UNCHANGED <<host, ready, stopFile, finished, own, history, pc>>

\* pyvpn-client-down, or the window of the Windows client.
TouchStopFile ==
    /\ pc # "off"
    /\ stopFile' = TRUE
    /\ UNCHANGED <<host, ready, stop, finished, own, history, pc>>

StopFileTask ==
    /\ pc = "running" /\ finished = {}
    /\ stopFile
    /\ stopFile' = FALSE /\ stop' = TRUE
    /\ finished' = finished \union {"stopFile"}
    /\ UNCHANGED <<host, ready, own, history, pc>>

StopTask ==
    /\ pc = "running" /\ "stop" \notin finished
    /\ stop
    /\ finished' = finished \union {"stop"}
    /\ UNCHANGED <<host, ready, stopFile, stop, own, history, pc>>

\* The device, the control connection or the server fails.
TaskFails ==
    /\ pc = "running"
    /\ finished' \in {finished \union {t} : t \in {"tunToUdp", "heartbeat"}}
    /\ UNCHANGED <<host, ready, stopFile, stop, own, history, pc>>

\* asyncio.wait; the variant waits for all of the tasks.
WaitIsOver_all == finished = Tasks
WaitIsOver == finished # {}

RunEnds ==
    /\ Goto("running", "bye")
    /\ WaitIsOver
    /\ UNCHANGED <<host, signals, own, history>>

-----------------------------------------------------------------------------
\* The finally clauses: the disconnect frame, the network's cleanup, the
\* socket, the device, the ready file.

SayBye == Goto("bye", "dnsBack") /\ UNCHANGED <<host, signals, own, history>>

RestoreDns ==
    /\ platform = "linux"
    /\ Goto("dnsBack", "ruleBack")
    /\ dns' = IF backup = None THEN dns ELSE backup
    /\ UNCHANGED <<config, main, rule, table, bypass, stateFile, signals, own,
                   history>>

\* MacDnsManager.cleanup: the state file comes first, whoever wrote it.
HadBefore == IF stateFile \notin {None, "torn"} THEN stateFile ELSE backup

MacRestoreDns ==
    /\ platform = "darwin"
    /\ Goto("dnsBack", "defaultBack")
    /\ IF resolver = "service" /\ manager
       THEN /\ dns' = IF HadBefore = None THEN dns ELSE HadBefore
            /\ stateFile' = None
       ELSE UNCHANGED <<dns, stateFile>>
    /\ UNCHANGED <<config, main, rule, table, bypass, signals, own, history>>

CutsRunShort ==
    /\ cutShort' = TRUE /\ leftovers' = TRUE
    /\ stranded' = stranded \union targets
    /\ UNCHANGED strayed

\* resolv.conf cannot be written: the exception leaves the rest undone and
\* the process ends.
RestoreDnsFails ==
    /\ platform = "linux"
    /\ Goto("dnsBack", "off")
    /\ backup # None
    /\ main' = WithoutTun(main)
    /\ ready' = FALSE
    /\ ProcessEnds /\ CutsRunShort
    /\ UNCHANGED <<config, rule, table, bypass, dns, stateFile, stopFile>>

RemovePolicy ==
    /\ Goto("ruleBack", "defaultBack")
    /\ rule' = (rule /\ ~managed)
    /\ table' = (table /\ ~managed)
    /\ UNCHANGED <<config, main, bypass, dns, stateFile, signals, own, history>>

RemoveDefault ==
    /\ platform = "linux"
    /\ Goto("defaultBack", "restore")
    /\ main' = main \ {"tun"}
    /\ UNCHANGED <<config, rule, table, bypass, dns, stateFile, signals, own,
                   history>>

MacRemoveSplit ==
    /\ platform = "darwin"
    /\ Goto("defaultBack", "bypassBack")
    /\ main' = main \ {"low", "high"}
    /\ UNCHANGED <<config, rule, table, bypass, dns, stateFile, signals, own,
                   history>>

RestoreDefaults ==
    /\ Goto("restore", "bypassBack")
    /\ main' = main \union saved
    /\ UNCHANGED <<config, rule, table, bypass, dns, stateFile, signals, own,
                   history>>

RemoveBypass(ip) ==
    /\ pc = "bypassBack"
    /\ ip \in bypassed
    /\ bypass' = bypass \ {ip}
    /\ bypassed' = bypassed \ {ip}
    /\ UNCHANGED <<config, main, rule, table, dns, stateFile, signals,
                   targets, manager, saved, managed, backup, history, pc>>

\* The cleanup script begins; it will take the route to each target, whoever
\* added it.
WindowsRemoveSplit ==
    /\ platform = "windows"
    /\ Goto("dnsBack", "bypassBack")
    /\ main' = main \ {"low", "high"}
    /\ bypassed' = targets
    /\ UNCHANGED <<config, rule, table, bypass, dns, stateFile, signals,
                   targets, manager, saved, managed, backup, history>>

\* The end; a run that was up has gone all the way, on Linux if it had a policy.
Close ==
    /\ Goto("bypassBack", "off")
    /\ bypassed = {}
    /\ main' = WithoutTun(main)
    /\ leftovers' = (leftovers /\ ~(ready /\ (platform = "linux" => managed)))
    /\ stranded' = IF ready THEN stranded \ targets ELSE stranded
    /\ ready' = FALSE
    /\ ProcessEnds
    /\ UNCHANGED <<config, rule, table, bypass, dns, stateFile, stopFile, cutShort,
                   strayed>>

\* A route may be deleted and not yet added; the PowerShell script of a killed
\* client goes on adding, or removing, for a while.
RoutesAfterKill ==
    LET rest == targets \ bypassed
        gone == {{}} \union {{ip} : ip \in rest}
    IN  CASE platform = "darwin" /\ pc = "bypass" -> {bypass \ g : g \in gone}
          [] platform = "windows" /\ pc = "bypass" ->
                {(bypass \ g) \union more : g \in gone, more \in SUBSET rest}
          [] platform = "windows" /\ pc = "bypassBack" ->
                {bypass \ more : more \in SUBSET bypassed}
          [] OTHER -> {bypass}

\* SIGKILL, power to the process lost: from systemd or pyvpn-client-down when
\* a stop takes too long, or anything else.
Killed ==
    /\ pc # "off"
    /\ pc' = "off"
    /\ main' = WithoutTun(main)
    /\ bypass' \in RoutesAfterKill
    /\ stateFile' \in CutOff
    /\ ProcessEnds /\ CutsRunShort
    /\ UNCHANGED <<config, rule, table, dns, ready, stopFile>>

\* pyvpn-client-down on macOS, once the client is gone: the split routes, the
\* route to the server if its name can be resolved, the DNS of the state file.
Down ==
    /\ platform = "darwin" /\ pc = "off"
    /\ bypass' \in {bypass} \union {bypass \ {ip} : ip \in ServerIps}
    /\ dns' = IF stateFile \in {None, "torn"} THEN dns ELSE stateFile
    /\ stateFile' = None
    /\ stopFile' = FALSE
    /\ UNCHANGED <<config, main, rule, table, ready, stop, finished, own,
                   history, pc>>

\* What the client does by itself.
ClientStep ==
    \/ OpenControl \/ ConnectFails \/ OpenTun \/ ReadDefaults \/ FlushPolicy
    \/ NoPolicy \/ AddTable \/ AddRule \/ ReplaceDefault \/ SetupDns
    \/ WriteResolvConf \/ MacReadDefault \/ MacAddSplit \/ MacVerify
    \/ MacNoService \/ MacWriteState \/ MacSetDns \/ WindowsReadDefault
    \/ WindowsAddSplit \/ GoesUp \/ StopFileTask \/ StopTask \/ RunEnds \/ SayBye
    \/ RestoreDns \/ MacRestoreDns \/ RemovePolicy \/ RemoveDefault
    \/ MacRemoveSplit \/ RestoreDefaults \/ WindowsRemoveSplit \/ Close
    \/ \E readable \in BOOLEAN : MacReadDns(readable)
    \/ \E ip \in ServerIps :
         \/ AddBypass(ip) \/ MacAddBypass(ip) \/ MacAddBypassFails(ip)
         \/ WindowsAddBypass(ip) \/ WindowsAddBypassFails(ip) \/ RemoveBypass(ip)
    \/ pc # "accept" /\ Raises

Next ==
    \/ ClientStep
    \/ Start \/ Accepted \/ Raises \/ RestoreDnsFails \/ TaskFails
    \/ Signal \/ TouchStopFile \/ Killed \/ Down

Spec == Init /\ [][Next]_vars

\* The client is a process that runs; the server may never answer.
FairSpec == Spec /\ WF_vars(ClientStep)

-----------------------------------------------------------------------------

Steps == {"off", "connect", "accept", "tun", "routes", "policy", "tableAdd",
          "ruleAdd", "bypass", "verify", "dns", "dnsState", "dnsSet", "up",
          "running", "bye", "dnsBack", "ruleBack", "defaultBack", "restore",
          "bypassBack"}

Contents == {"home", "vpn", "auto"}

\* Types; nothing routes through a device whose process is gone.
TypeOK ==
    /\ platform \in Platforms /\ metricZero \in BOOLEAN
    /\ resolver \in {"off", "link", "file", "service"}
    /\ resolver = "service" => platform = "darwin"
    /\ main \subseteq {"home"} \union TunRoutes
    /\ saved \subseteq {"home"} \union TunRoutes
    /\ rule \in BOOLEAN /\ table \in BOOLEAN /\ managed \in BOOLEAN
    /\ bypass \subseteq ServerIps /\ targets \subseteq ServerIps
    /\ bypassed \subseteq targets /\ stranded \subseteq ServerIps
    /\ dns \in Contents /\ backup \in Contents \union {None}
    /\ stateFile \in Contents \union {None, "torn"}
    /\ ready \in BOOLEAN /\ stopFile \in BOOLEAN /\ stop \in BOOLEAN
    /\ finished \subseteq Tasks
    /\ manager \in BOOLEAN
    /\ pc \in Steps
    /\ cutShort \in BOOLEAN /\ leftovers \in BOOLEAN /\ strayed \in BOOLEAN
    /\ main \cap TunRoutes # {} => pc # "off"

\* The tunnel's own packets never go into the tunnel: whenever the default
\* route or half of it leads there, during setup, cleanup and after a failure
\* too, every server address of the run has a route around it (setup and cleanup
\* of the three networks).
NoRoutingLoop == main \cap TunRoutes # {} => targets \subseteq bypass

AtHome ==
    /\ main = {"home"} /\ ~rule /\ ~table /\ bypass = {}
    /\ stateFile = None
    /\ dns = "home" \/ strayed

\* Whatever command of the setup fails, and however the session ends, the
\* host is as it was before, if no run was ever cut short (README.md: "restore
\* local networking when disconnected"); DNS if the service's could be read.
CleanExit == pc = "off" /\ ~cutShort => AtHome

\* What a killed run left behind goes with later runs that came up and ended by
\* themselves: rule and table with the next one (that has a policy of its own,
\* if it is Linux), for setup removes old ones, and the route to an address with
\* the next one that has this address among its own; no other route stays.
LeftoversRemoved ==
    pc = "off" =>
        /\ ~leftovers => ~rule /\ ~table
        /\ bypass \subseteq stranded

\* "If a forced kill leaves DNS changed, run `sudo pyvpn-client-down` again"
\* (macos-client.md): then the DNS servers are the host's own, wherever the
\* kill came, unless another run was started first or networksetup had failed.
DownRestoresDns == [][Down /\ ~strayed => dns' = "home"]_vars

\* A stop by signal or file is obeyed once the session is accepted, also when
\* it comes in the middle of the setup.
StopEndsRun ==
    (stop \/ stopFile) /\ pc \notin {"off", "connect", "accept"} ~> pc = "off"

\* resolv.conf is "Managed by pyvpn. Restored on client shutdown.": a run that
\* came up and ended by itself leaves the host's own one, also after a run that
\* was killed.
RestoredOnShutdown == pc = "off" /\ ~leftovers => dns = "home"

-----------------------------------------------------------------------------
\* What is due can happen: with it weak fairness of ClientStep is what FairSpec
\* says in words.
Due ==
    /\ pc \notin {"off", "accept", "running"} => ENABLED <<ClientStep>>_vars
    /\ pc = "running" /\ (finished # {} \/ stop \/ stopFile)
          => ENABLED <<ClientStep>>_vars

\* The loops over the server addresses are finite: a client that stayed in one for
\* ever would come to a point where no address is left. With finitely many of them
\* this holds of every behaviour of Spec.
InLoop == pc \in {"bypass", "bypassBack"}
LoopRests == UNCHANGED bypassed
LoopsEnd == <>[]InLoop => <>[][LoopRests]_vars
=============================================================================
