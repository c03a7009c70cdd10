---------------------------- MODULE ProfileStore ----------------------------
(***************************************************************************)
(* servers.json, the store of saved servers (profiles.py), and the         *)
(* processes that use it: the command line, a starting client and the      *)
(* Windows window. Nobody locks the file. An operation reads it, computes, *)
(* writes a temporary file beside it and renames that over it; others read *)
(* and write in between, and any of them may be killed.                    *)
(*                                                                         *)
(* A read is one step, since the open file is never written to again. A    *)
(* server id is its place in sorted(servers). The port, the fingerprint    *)
(* and the other settings of a profile travel with its host. A rename that *)
(* was done survives a loss of power.                                      *)
(***************************************************************************)
EXTENDS Integers

CONSTANTS
    Procs,          \* processes that use the store
    Ids,            \* server ids
    Hosts, Tokens,
    None            \* no file, no id

ASSUME IdsAssumption == Ids \subseteq Nat /\ None \notin Ids

VARIABLES
    file,           \* what servers.json holds; None before it is first written
    synced,         \* its bytes have reached the disk
    temp,           \* the temporary file of each process
    pc, request,    \* of each process: where it is, what it was asked for
    mem,            \* the store it read, then the one it is to write
    touched         \* history: what others have changed since it was asked

disk == <<file, synced, temp>>
procs == <<pc, request, mem>>
vars == <<disk, procs, touched>>

-----------------------------------------------------------------------------

Profiles == [host : Hosts, token : Tokens]

Stores == UNION {[active : S \union {None}, servers : [S -> Profiles]] : S \in SUBSET Ids}

ASSUME NoneAssumption == None \notin Stores

Empty == [active |-> None, servers |-> [i \in {} |-> None]]

Torn == [error |-> "not JSON"]      \* the file was cut off as it was written

Refused == [error |-> "ProfileError"]

\* The requests of main, client.async_main and the window. An id of None is
\* the active server; in the dialog of "edit" the user types another host and
\* keeps the token.
Requests ==
    [kind : {"add"}, id : Ids, profile : Profiles, replace : BOOLEAN, use : BOOLEAN]
    \union [kind : {"use", "remove"}, id : Ids]
    \union [kind : {"token"}, id : Ids \union {None}, token : Tokens]
    \union [kind : {"select", "show"}, id : Ids \union {None}]
    \union [kind : {"edit"}, id : Ids, host : Hosts, use : BOOLEAN]

Idle == [kind |-> "none"]

\* The variant takes the first server for the active one.
Chosen_first(r, s) ==
    IF r.id # None THEN r.id
    ELSE IF s.servers = Empty.servers THEN None
    ELSE CHOOSE i \in DOMAIN s.servers : \A j \in DOMAIN s.servers : i <= j

Chosen(r, s) == IF r.id = None THEN s.active ELSE r.id

-----------------------------------------------------------------------------
\* The operations on a store that was read: the new store, or Refused.

With(s, i, p) ==
    [s EXCEPT !.servers = [j \in DOMAIN s.servers \union {i} |->
                               IF j = i THEN p ELSE s.servers[j]]]

\* The variant writes over a server that is there.
AddProfile_over(s, i, p, replace, use) ==
    [With(s, i, p) EXCEPT !.active = IF @ = None \/ use THEN i ELSE @]

AddProfile(s, i, p, replace, use) ==
    IF i \in DOMAIN s.servers /\ ~replace THEN Refused
    ELSE [With(s, i, p) EXCEPT !.active = IF @ = None \/ use THEN i ELSE @]

SelectProfile(s, i) ==
    IF i \notin DOMAIN s.servers THEN Refused ELSE [s EXCEPT !.active = i]

UpdateToken(s, i, t) ==
    IF i \notin DOMAIN s.servers THEN Refused
    ELSE With(s, i, [s.servers[i] EXCEPT !.token = t])

First(S) == IF S = {} THEN None ELSE CHOOSE i \in S : \A j \in S : i <= j

RemoveProfile(s, i) ==
    IF i \notin DOMAIN s.servers THEN Refused
    ELSE LET left == DOMAIN s.servers \ {i}
         IN  [active |-> IF s.active = i THEN First(left) ELSE s.active,
              servers |-> [j \in left |-> s.servers[j]]]

\* What a request makes of a store s; for "edit", given the profile the
\* dialog was opened with.
Changed(r, s, shown) ==
    CASE r.kind = "add"    -> AddProfile(s, r.id, r.profile, r.replace, r.use)
      [] r.kind = "use"    -> SelectProfile(s, r.id)
      [] r.kind = "token"  -> UpdateToken(s, Chosen(r, s), r.token)
      [] r.kind = "remove" -> RemoveProfile(s, r.id)
      [] r.kind = "edit"   -> AddProfile(s, r.id, [shown EXCEPT !.host = r.host],
                                         TRUE, r.use)

\* selected_profile.
Selected(r, s) ==
    IF Chosen(r, s) \in DOMAIN s.servers THEN s.servers[Chosen(r, s)] ELSE Refused

\* What "show" prints: a profile, and whether it is the active one.
Line(profile, i, s) == [profile |-> profile, active |-> i = s.active]

\* load_profile_store: no file is an empty store where that is allowed.
Loaded(r) ==
    IF file = Torn THEN Refused
    ELSE IF file # None THEN file
    ELSE IF r.kind \in {"add", "edit"} THEN Empty ELSE Refused

-----------------------------------------------------------------------------

Init ==
    /\ file = None /\ synced = TRUE
    /\ temp = [p \in Procs |-> "none"]
    /\ pc = [p \in Procs |-> "idle"]
    /\ request = [p \in Procs |-> Idle]
    /\ mem = [p \in Procs |-> None]
    /\ touched = [p \in Procs |-> {}]

\* The operation of a process is over.
Ends(p) ==
    /\ pc' = [pc EXCEPT ![p] = "idle"]
    /\ request' = [request EXCEPT ![p] = Idle]
    /\ mem' = [mem EXCEPT ![p] = None]

Goes(p, to, m) ==
    /\ pc' = [pc EXCEPT ![p] = to]
    /\ mem' = [mem EXCEPT ![p] = m]
    /\ UNCHANGED request

\* "show" and the dialog of "edit" read twice.
Ask(p, r) ==
    /\ pc[p] = "idle"
    /\ pc' = [pc EXCEPT ![p] = IF r.kind \in {"show", "edit"} THEN "first" ELSE "load"]
    /\ request' = [request EXCEPT ![p] = r]
    /\ touched' = [touched EXCEPT ![p] = {}]
    /\ UNCHANGED <<disk, mem>>

\* "show" keeps the store for its active server, "edit" the profile.
FirstLoad(p) ==
    LET r == request[p]
        s == Loaded(r)
    IN  /\ pc[p] = "first"
        /\ IF s = Refused \/ (r.kind = "edit" /\ r.id \notin DOMAIN s.servers)
           THEN Ends(p)
           ELSE Goes(p, "load", IF r.kind = "edit" THEN s.servers[r.id] ELSE s)
        /\ UNCHANGED <<disk, touched>>

\* The load of every operation; what follows it up to the save is computed.
LoadToShow(p) ==
    LET r == request[p]
        s == Loaded(r)
    IN  /\ pc[p] = "load" /\ r.kind \in {"select", "show"}
        /\ IF s = Refused \/ Selected(r, s) = Refused THEN Ends(p)
           ELSE Goes(p, "shown", Line(Selected(r, s), Chosen(r, s),
                                      IF r.kind = "show" THEN mem[p] ELSE s))
        /\ UNCHANGED <<disk, touched>>

LoadToChange(p) ==
    LET r == request[p]
        s == Loaded(r)
        new == Changed(r, s, mem[p])
    IN  /\ pc[p] = "load" /\ r.kind \notin {"select", "show"}
        /\ IF s = Refused \/ new = Refused THEN Ends(p) ELSE Goes(p, "make", new)
        /\ UNCHANGED <<disk, touched>>

Shown(p) == pc[p] = "shown" /\ Ends(p) /\ UNCHANGED <<disk, touched>>

-----------------------------------------------------------------------------
\* save_profile_store

MakeTemp(p) ==
    /\ pc[p] = "make"
    /\ IF mem[p].active \notin DOMAIN mem[p].servers \union {None}
       THEN Ends(p) /\ UNCHANGED temp
       ELSE Goes(p, "write", mem[p]) /\ temp' = [temp EXCEPT ![p] = "part"]
    /\ UNCHANGED <<file, synced, touched>>

\* dump, flush and fsync; the variant leaves out the last.
Write_unsynced(p) ==
    /\ pc[p] = "write"
    /\ Goes(p, "rename", mem[p])
    /\ UNCHANGED <<disk, touched>>

Write(p) ==
    /\ pc[p] = "write"
    /\ Goes(p, "rename", mem[p])
    /\ temp' = [temp EXCEPT ![p] = "synced"]
    /\ UNCHANGED <<file, synced, touched>>

Server(f, i) ==
    IF f # None /\ i \in DOMAIN f.servers THEN f.servers[i] ELSE None

Active(f) == IF f = None THEN None ELSE f.active

\* The ids whose profiles differ, and None if the active servers do.
Differ(f, g) ==
    {i \in Ids : Server(f, i) # Server(g, i)}
    \union {n \in {None} : Active(f) # Active(g)}

Rename(p) ==
    /\ pc[p] = "rename"
    /\ file' = mem[p]
    /\ synced' = (temp[p] = "synced")
    /\ temp' = [temp EXCEPT ![p] = "none"]
    /\ touched' = [q \in Procs |-> IF pc[q] = "idle" \/ q = p THEN {}
                                   ELSE touched[q] \union Differ(file, mem[p])]
    /\ Ends(p)

\* The disk is full, or the file is open in another process where that
\* forbids the rename: the temporary file is removed and the exception passed
\* on; the user closes the dialog; or the process is killed, and a temporary
\* file stays behind that nobody looks at again.
Fails(p) ==
    /\ pc[p] # "idle"
    /\ Ends(p)
    /\ temp' = [temp EXCEPT ![p] = "none"]
    /\ UNCHANGED <<file, synced, touched>>

\* What had not reached the disk is lost.
PowerLoss ==
    /\ file' = IF synced THEN file ELSE Torn
    /\ synced' = TRUE
    /\ temp' = [p \in Procs |-> "none"]
    /\ pc' = [p \in Procs |-> "idle"]
    /\ request' = [p \in Procs |-> Idle]
    /\ mem' = [p \in Procs |-> None]
    /\ touched' = [p \in Procs |-> {}]

Next ==
    \/ \E p \in Procs :
        \/ \E r \in Requests : Ask(p, r)
        \/ FirstLoad(p) \/ LoadToShow(p) \/ LoadToChange(p) \/ Shown(p)
        \/ MakeTemp(p) \/ Write(p) \/ Rename(p) \/ Fails(p)
    \/ PowerLoss

Spec == Init /\ [][Next]_vars

-----------------------------------------------------------------------------

Lines == [profile : Profiles, active : BOOLEAN]

\* Types; a store that is about to be saved has its active server among its
\* servers, and only a process in the middle of a save has a temporary file.
TypeOK ==
    /\ file \in Stores \union {None, Torn} /\ synced \in BOOLEAN
    /\ temp \in [Procs -> {"none", "part", "synced"}]
    /\ pc \in [Procs -> {"idle", "first", "load", "shown", "make", "write", "rename"}]
    /\ request \in [Procs -> Requests \union {Idle}]
    /\ touched \in [Procs -> SUBSET (Ids \union {None})]
    /\ \A p \in Procs :
        /\ pc[p] = "idle" <=> request[p] = Idle
        /\ pc[p] = "shown" => mem[p] \in Lines
        /\ pc[p] \in {"make", "write", "rename"} => mem[p] \in Stores
        /\ temp[p] # "none" => pc[p] \in {"write", "rename"}

\* Whatever process is killed and whenever the power is lost, the next load
\* finds a whole store, with an active server unless it has no servers
\* (save_profile_store writes aside, syncs and renames; add, remove keep the
\* active id).
Readable ==
    file # None =>
        /\ file # Torn
        /\ file.active \in DOMAIN file.servers \union {None}
        /\ file.active = None => DOMAIN file.servers = {}

\* The server a request is about, and what the request makes of it.
Meant(r) == IF r.id = None THEN Active(file) ELSE r.id

Wanted(r, old) ==
    CASE r.kind = "add" /\ (old = None \/ r.replace) -> r.profile
      [] r.kind = "remove" -> None
      [] r.kind = "edit"   -> [old EXCEPT !.host = r.host]
      [] r.kind = "token"  -> [old EXCEPT !.token = r.token]
      [] OTHER             -> old

\* Nothing is locked, so that two overlapping operations can lose one's
\* change. But that is all that can be lost: a save leaves each server that
\* nobody else has changed since the operation was asked for, be it before a
\* dialog was opened, exactly as the operation wants it, and changes the
\* active server only when it was asked to, or there is no other way.
SavesWhatWasAsked ==
    [][\A p \in Procs : Rename(p) =>
         LET r == request[p]
             known == r.id # None \/ None \notin touched[p]
         IN
         /\ \A i \in Ids \ touched[p] : known =>
              Server(file', i) = IF i = Meant(r) THEN Wanted(r, Server(file, i))
                                 ELSE Server(file, i)
         /\ None \notin touched[p] /\ Active(file') # Active(file) =>
              \/ r.kind = "use" \/ (r.kind \in {"add", "edit"} /\ r.use)
              \/ Active(file) = None
              \/ r.kind = "remove" /\ r.id = Active(file)]_vars

\* What is printed, or used to connect, is what the file says of the server
\* that was meant, unless that was changed after the request.
ShownIsCurrent ==
    \A p \in Procs : pc[p] = "shown" /\ None \notin touched[p] =>
        /\ Meant(request[p]) \notin touched[p] =>
              mem[p].profile = Server(file, Meant(request[p]))
        /\ request[p].kind = "show" =>
              (mem[p].active <=> Meant(request[p]) = Active(file))
=============================================================================
