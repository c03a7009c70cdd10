----------------------------- MODULE ServerHost -----------------------------
(***************************************************************************)
(* One run after another of the server on one Linux host: VpnServer.run    *)
(* with LinuxNatManager and LinuxTunDevice, from the TUN device to process *)
(* exit. An action is one command or system call that changes the host, or *)
(* what the event loop runs between two awaits. A run may be killed        *)
(* anywhere and its setup may fail at every step.                          *)
(*                                                                         *)
(* ready is the event loop's queue of callbacks that are due: the first    *)
(* step of a datagram's handler, the TUN reader's next step, and run()     *)
(* itself after asyncio.sleep(0). The commands of nat.cleanup are          *)
(* synchronous, so the loop stands still meanwhile. A table or a rule is   *)
(* the masquerade of the client subnet; nobody else changes it.            *)
(***************************************************************************)
EXTENDS Integers, Sequences

CONSTANTS
    MaxCuts,    \* bound: runs killed, or ended by a failure of the setup
    MaxReady    \* bound: callbacks due at once

ASSUME BoundsAssumption == MaxCuts \in Nat /\ MaxReady \in Nat \ {0}

VARIABLES
    tool,           \* what the host has, of "nft" and "iptables"
    home,           \* ip_forward before the first run
    forward, table, rules,
    pc,             \* where run() is; "off" when there is no server
    before,         \* _ip_forward_before
    mode,           \* _mode
    device,         \* the TUN descriptor: "none", "open" or "closed"
    udp,            \* the datagram endpoint is open
    reader,         \* tun_task: "none", "waiting", "due" or "done"
    cancelled,      \* and whether it was cancelled
    ready,
    cuts            \* history: runs that ended without their cleanup

config == <<tool, home>>
nat == <<forward, table, rules>>
manager == <<before, mode>>
loop == <<reader, cancelled, ready>>
vars == <<config, nat, pc, manager, device, udp, loop, cuts>>

Tools == {"nft", "iptables"}
Flags == {"0", "1"}
Unread == "unread"      \* None

Init ==
    /\ tool \in Tools /\ home \in Flags
    /\ forward = home /\ table = FALSE /\ rules = 0
    /\ pc = "off"
    /\ before = Unread /\ mode = "none"
    /\ device = "none" /\ udp = FALSE
    /\ reader = "none" /\ cancelled = FALSE /\ ready = <<>>
    /\ cuts = 0

Goto(from, to) == pc = from /\ pc' = to

-----------------------------------------------------------------------------
\* Setup, all of it before the try.

Start ==
    /\ Goto("off", "tun")
    /\ before' = Unread /\ mode' = "none"
    /\ UNCHANGED <<config, nat, device, udp, loop, cuts>>

\* LinuxTunDevice.create, configure_server.
CreateTun ==
    /\ Goto("tun", "readForward")
    /\ device' = "open"
    /\ UNCHANGED <<config, nat, manager, udp, loop, cuts>>

\* LinuxNatManager.enable. The variant reads the flag when it has been set.
ReadForward_late ==
    /\ Goto("readForward", "setForward")
    /\ before' = "1"
    /\ UNCHANGED <<config, nat, mode, device, udp, loop, cuts>>

ReadForward ==
    /\ Goto("readForward", "setForward")
    /\ before' = forward
    /\ UNCHANGED <<config, nat, mode, device, udp, loop, cuts>>

SetForward ==
    /\ Goto("setForward", "deleteTable")
    /\ forward' = "1"
    /\ UNCHANGED <<config, table, rules, manager, device, udp, loop, cuts>>

\* _enable_nft: the table of an earlier run goes first.
DeleteTable ==
    /\ tool = "nft"
    /\ Goto("deleteTable", "addTable")
    /\ table' = FALSE
    /\ UNCHANGED <<config, forward, rules, manager, device, udp, loop, cuts>>

\* The variant swaps the two: the deletion takes the new table as well.
AddTable_deleted ==
    /\ tool = "nft"
    /\ Goto("addTable", "listen")
    /\ table' = FALSE
    /\ mode' = "nft"
    /\ UNCHANGED <<config, forward, rules, before, device, udp, loop, cuts>>

AddTable ==
    /\ tool = "nft"
    /\ Goto("addTable", "listen")
    /\ table' = TRUE
    /\ mode' = "nft"
    /\ UNCHANGED <<config, forward, rules, before, device, udp, loop, cuts>>

\* iptables -A appends, whatever is there.
AppendRule ==
    /\ tool = "iptables"
    /\ Goto("deleteTable", "listen")
    /\ rules' = rules + 1
    /\ mode' = "iptables"
    /\ UNCHANGED <<config, forward, table, before, device, udp, loop, cuts>>

\* Both endpoints; the tasks are created, tun_task's first step is due.
Listen ==
    /\ Goto("listen", "serving")
    /\ udp' = TRUE
    /\ reader' = "due" /\ cancelled' = FALSE /\ ready' = <<"tun">>
    /\ UNCHANGED <<config, nat, manager, device, cuts>>

Setup == {"tun", "readForward", "setForward", "deleteTable", "addTable", "listen"}

\* What a process leaves when it is gone: its descriptors are closed.
Gone ==
    /\ pc' = "off"
    /\ device' = "none" /\ udp' = FALSE
    /\ reader' = "none" /\ cancelled' = FALSE /\ ready' = <<>>

\* A command fails, there is no NAT tool, a port is taken, the certificate
\* cannot be read: the exception passes no cleanup.
SetupFails ==
    /\ pc \in Setup
    /\ cuts < MaxCuts /\ cuts' = cuts + 1
    /\ Gone
    /\ UNCHANGED <<config, nat, manager>>

Killed ==
    /\ pc # "off"
    /\ cuts < MaxCuts /\ cuts' = cuts + 1
    /\ Gone
    /\ UNCHANGED <<config, nat, manager>>

-----------------------------------------------------------------------------
\* The event loop, while run() is suspended.

Suspended == pc \in {"serving", "stopping", "sleep"}

\* datagram_received: a task for the datagram.
DatagramReceived ==
    /\ Suspended /\ udp
    /\ Len(ready) < MaxReady
    /\ ready' = Append(ready, "datagram")
    /\ UNCHANGED <<config, nat, pc, manager, device, udp, reader, cancelled, cuts>>

\* The callback of add_reader wakes the reader.
PacketArrives ==
    /\ Suspended
    /\ reader = "waiting"
    /\ Len(ready) < MaxReady
    /\ reader' = "due"
    /\ ready' = Append(ready, "tun")
    /\ UNCHANGED <<config, nat, pc, manager, device, udp, cancelled, cuts>>

\* The handler's step up to its end: os.write takes the packet at once.
HandleDatagram ==
    /\ Suspended
    /\ ready # <<>> /\ Head(ready) = "datagram"
    /\ ready' = Tail(ready)
    /\ UNCHANGED <<config, nat, pc, manager, device, udp, reader, cancelled, cuts>>

\* os.read until there is nothing left, then add_reader and wait; cancelled, it
\* removes itself from the loop and ends.
ReadTun ==
    /\ Suspended
    /\ ready # <<>> /\ Head(ready) = "tun"
    /\ ready' = Tail(ready)
    /\ reader' = IF cancelled THEN "done" ELSE "waiting"
    /\ UNCHANGED <<config, nat, pc, manager, device, udp, cancelled, cuts>>

-----------------------------------------------------------------------------
\* Shutdown.

\* A signal sets the event, or the device or the scan has failed: run() leaves
\* asyncio.wait and cancels the tasks.
Stop ==
    /\ Goto("serving", "stopping")
    /\ cancelled' = TRUE
    /\ IF reader = "waiting"
       THEN reader' = "due" /\ ready' = Append(ready, "tun")
       ELSE UNCHANGED <<reader, ready>>
    /\ UNCHANGED <<config, nat, manager, device, udp, cuts>>

\* The listener and the sessions' writers are closed; udp_transport.close() and
\* sleep(0): run() goes behind what is due. The variant goes on at once.
CloseUdp_atOnce ==
    /\ Goto("stopping", "natBack")
    /\ udp' = FALSE
    /\ UNCHANGED <<config, nat, manager, device, loop, cuts>>

CloseUdp ==
    /\ Goto("stopping", "sleep")
    /\ udp' = FALSE
    /\ ready' = Append(ready, "run")
    /\ UNCHANGED <<config, nat, manager, device, reader, cancelled, cuts>>

Resume ==
    /\ Goto("sleep", "natBack")
    /\ ready # <<>> /\ Head(ready) = "run"
    /\ ready' = Tail(ready)
    /\ UNCHANGED <<config, nat, manager, device, udp, reader, cancelled, cuts>>

\* LinuxNatManager.cleanup. The variant takes forwarding that was on before
\* for a sign that the rule was there as well.
RemoveNat_ifOff ==
    /\ Goto("natBack", "forwardBack")
    /\ table' = (table /\ (mode # "nft" \/ before = "1"))
    /\ rules' = IF mode = "iptables" /\ before = "0" THEN rules - 1 ELSE rules
    /\ UNCHANGED <<config, forward, manager, device, udp, loop, cuts>>

RemoveNat ==
    /\ Goto("natBack", "forwardBack")
    /\ table' = (table /\ mode # "nft")
    /\ rules' = IF mode = "iptables" THEN rules - 1 ELSE rules
    /\ UNCHANGED <<config, forward, manager, device, udp, loop, cuts>>

RestoreForward ==
    /\ Goto("forwardBack", "close")
    /\ forward' = IF before = Unread THEN forward ELSE before
    /\ UNCHANGED <<config, table, rules, manager, device, udp, loop, cuts>>

CloseTun ==
    /\ Goto("close", "exiting")
    /\ device' = "closed"
    /\ UNCHANGED <<config, nat, manager, udp, loop, cuts>>

\* asyncio.run: what is still due is run, or cancelled; the process ends.
Exit ==
    /\ pc = "exiting"
    /\ Gone
    /\ UNCHANGED <<config, nat, manager, cuts>>

Next ==
    \/ Start \/ CreateTun \/ ReadForward \/ SetForward \/ DeleteTable
    \/ AddTable \/ AppendRule \/ Listen \/ SetupFails \/ Killed
    \/ DatagramReceived \/ PacketArrives \/ HandleDatagram \/ ReadTun
    \/ Stop \/ CloseUdp \/ Resume \/ RemoveNat
    \/ RestoreForward \/ CloseTun \/ Exit

Spec == Init /\ [][Next]_vars

-----------------------------------------------------------------------------

Steps == Setup \union {"off", "serving", "stopping", "sleep",
                       "natBack", "forwardBack", "close", "exiting"}
Callbacks == {"datagram", "tun", "run"}

DueIsQueued == reader = "due" <=> \E i \in DOMAIN ready : ready[i] = "tun"

\* Types; the reader is due while the queue holds a step of it.
TypeOK ==
    /\ tool \in Tools /\ home \in Flags
    /\ forward \in Flags /\ table \in BOOLEAN /\ rules \in Nat
    /\ pc \in Steps
    /\ before \in Flags \union {Unread} /\ mode \in Tools \union {"none"}
    /\ device \in {"none", "open", "closed"} /\ udp \in BOOLEAN
    /\ reader \in {"none", "waiting", "due", "done"} /\ cancelled \in BOOLEAN
    /\ ready \in Seq(Callbacks)
    /\ DueIsQueued
    /\ cuts \in 0..MaxCuts

\* Clients are served only while their packets are forwarded and masqueraded,
\* also by a server that starts on what a killed one left (enable, cleanup).
NatWhileServing == Suspended => forward = "1" /\ (table \/ rules > 0)

\* A host on which no run was cut short is as it was before the first one
\* whenever no server runs.
CleanExit ==
    pc = "off" /\ cuts = 0 => forward = home /\ ~table /\ rules = 0

\* Rules do not pile up with the runs: each run that was killed, or failed in
\* its setup, leaves at most one, and a whole run none of its own.
MineIsThere == {"listen", "serving", "stopping", "sleep", "natBack"}
LeftoversBounded ==
    /\ rules <= cuts + (IF mode = "iptables" /\ pc \in MineIsThere THEN 1 ELSE 0)
    /\ table => cuts > 0 \/ (mode = "nft" /\ pc \in MineIsThere)

\* A host that forwarded before the server came forwards all the time: no run,
\* whole or cut short, turns it off.
RouterStaysRouter == home = "1" => forward = "1"

\* When the TUN descriptor is closed, nothing that is due still reads or writes
\* it, and it is not registered with the loop: its number may soon be another
\* file's (cleanup waits one round of the loop after the UDP endpoint).
NothingUsesClosed ==
    device = "closed" =>
        /\ reader = "done"
        /\ \A i \in DOMAIN ready : ready[i] # "datagram"
=============================================================================
