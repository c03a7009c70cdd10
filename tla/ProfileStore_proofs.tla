------------------------- MODULE ProfileStore_proofs ------------------------
(***************************************************************************)
(* Readable, ShownIsCurrent and SavesWhatWasAsked for any number of        *)
(* processes and servers, with every kill, failure and loss of power the   *)
(* model has.                                                              *)
(***************************************************************************)
EXTENDS ProfileStore, WellFoundedInduction, TLAPS

\* A store that may be loaded: with an active server unless it has none.
Sound(s) == s \in Stores /\ (s.active = None => DOMAIN s.servers = {})

\* What is shared between the processes: servers.json is sound and on the disk.
Shared ==
    /\ file # None => Sound(file)
    /\ synced = TRUE

\* A variable of the processes has a value for each of them.
Locals ==
    /\ temp \in [Procs -> {"none", "part", "synced"}]
    /\ pc \in [Procs -> {"idle", "first", "load", "shown", "make", "write", "rename"}]
    /\ request \in [Procs -> Requests \union {Idle}]
    /\ touched \in [Procs -> SUBSET (Ids \union {None})]
    /\ mem = [p \in Procs |-> mem[p]]

\* What a process keeps between its two reads is a store or a profile, what it
\* is to write is sound, and it is on the disk before it is renamed.
Own(p) ==
    /\ pc[p] = "idle" <=> request[p] = Idle
    /\ pc[p] = "shown" => mem[p] \in Lines
    /\ temp[p] # "none" => pc[p] \in {"write", "rename"}
    /\ pc[p] \in {"make", "write", "rename"} => Sound(mem[p])
    /\ pc[p] = "rename" => temp[p] = "synced"
    /\ pc[p] = "load" /\ request[p].kind = "edit" => mem[p] \in Profiles
    /\ pc[p] = "load" /\ request[p].kind = "show" => Sound(mem[p])

IInv == Shared /\ Locals /\ \A p \in Procs : Own(p)

-----------------------------------------------------------------------------
\* The operations keep a store sound.

LEMMA StoreParts ==
    ASSUME NEW s \in Stores
    PROVE  /\ DOMAIN s.servers \subseteq Ids
           /\ s.active \in DOMAIN s.servers \union {None}
           /\ s.servers \in [DOMAIN s.servers -> Profiles]
           /\ s = [active |-> s.active, servers |-> s.servers]
BY DEF Stores

LEMMA StoreMade ==
    ASSUME NEW S \in SUBSET Ids, NEW a \in S \union {None}, NEW f \in [S -> Profiles]
    PROVE  [active |-> a, servers |-> f] \in Stores
BY DEF Stores

LEMMA EmptySound == Sound(Empty)
<1>1. [i \in {} |-> None] \in [{} -> Profiles]
    OBVIOUS
<1>2. Empty \in Stores
    BY <1>1, StoreMade DEF Empty
<1> QED
    BY <1>2 DEF Sound, Empty

\* A set of ids that is not empty has a first one.
LEMMA FirstIsIn ==
    ASSUME NEW S \in SUBSET Ids
    PROVE  /\ S # {} => First(S) \in S
           /\ S = {} => First(S) = None
<1>1. ASSUME S # {} PROVE \E i \in S : \A j \in S : i <= j
  <2>1. S \subseteq Nat
      BY IdsAssumption
  <2> DEFINE R == {ss \in Nat \X Nat : ss[1] < ss[2]}
  <2>2. IsWellFoundedOn(R, Nat)
      BY NatLessThanWellFounded DEF OpToRel
  <2>3. \A i, j \in Nat : <<j, i>> \in R <=> j < i
      OBVIOUS
  <2> HIDE DEF R
  <2>4. PICK i \in S : \A j \in S : ~(<<j, i>> \in R)
      BY <1>1, <2>1, <2>2, WFMin
  <2>5. ASSUME NEW j \in S PROVE i <= j
    <3>1. i \in Nat /\ j \in Nat /\ ~(j < i)
        BY <2>1, <2>3, <2>4
    <3> QED
        BY ONLY <3>1
  <2> QED
      BY <2>5
<1> QED
    BY <1>1 DEF First

LEMMA WithStore ==
    ASSUME NEW s \in Stores, NEW i \in Ids, NEW p \in Profiles
    PROVE  /\ With(s, i, p).active = s.active
           /\ With(s, i, p).servers \in [DOMAIN s.servers \union {i} -> Profiles]
           /\ With(s, i, p) = [active |-> s.active, servers |-> With(s, i, p).servers]
           /\ With(s, i, p) \in Stores
<1> DEFINE f == [j \in DOMAIN s.servers \union {i} |->
                    IF j = i THEN p ELSE s.servers[j]]
<1>1. f \in [DOMAIN s.servers \union {i} -> Profiles]
    BY StoreParts
<1>2. With(s, i, p) = [active |-> s.active, servers |-> f]
    BY StoreParts DEF With
<1>3. [active |-> s.active, servers |-> f] \in Stores
    BY <1>1, StoreParts, StoreMade
<1> QED
    BY <1>1, <1>2, <1>3

LEMMA AddSound ==
    ASSUME NEW s, Sound(s), NEW i \in Ids, NEW p \in Profiles,
           NEW replace \in BOOLEAN, NEW use \in BOOLEAN,
           AddProfile(s, i, p, replace, use) # Refused
    PROVE  Sound(AddProfile(s, i, p, replace, use))
<1> DEFINE w == With(s, i, p)
           a == IF w.active = None \/ use THEN i ELSE w.active
<1>1. s \in Stores
    BY DEF Sound
<1>2. w \in Stores /\ w.active = s.active /\ w = [active |-> s.active, servers |-> w.servers]
      /\ w.servers \in [DOMAIN s.servers \union {i} -> Profiles]
    BY <1>1, WithStore
<1>3. AddProfile(s, i, p, replace, use) = [active |-> a, servers |-> w.servers]
  <2> HIDE DEF w
  <2>1. AddProfile(s, i, p, replace, use) = [w EXCEPT !.active = a]
      BY DEF AddProfile, w
  <2> QED
      BY <1>2, <2>1
<1>4. a \in DOMAIN s.servers \union {i} /\ a # None
  <2> HIDE DEF w
  <2> QED
      BY <1>1, <1>2, StoreParts, IdsAssumption
<1>5. [active |-> a, servers |-> w.servers] \in Stores
  <2> HIDE DEF w, a
  <2>1. DOMAIN s.servers \union {i} \in SUBSET Ids
      BY <1>1, StoreParts
  <2> QED
      BY <1>2, <1>4, <2>1, StoreMade
<1> QED
    BY <1>3, <1>4, <1>5 DEF Sound

LEMMA SelectSound ==
    ASSUME NEW s, Sound(s), NEW i, SelectProfile(s, i) # Refused, i # None
    PROVE  Sound(SelectProfile(s, i))
<1>1. s \in Stores /\ i \in DOMAIN s.servers
    BY DEF Sound, SelectProfile
<1>2. SelectProfile(s, i) = [active |-> i, servers |-> s.servers]
    BY <1>1, StoreParts DEF SelectProfile
<1>3. [active |-> i, servers |-> s.servers] \in Stores
    BY <1>1, StoreParts, StoreMade
<1> QED
    BY <1>2, <1>3 DEF Sound

LEMMA TokenSound ==
    ASSUME NEW s, Sound(s), NEW i, NEW t \in Tokens, UpdateToken(s, i, t) # Refused
    PROVE  Sound(UpdateToken(s, i, t))
<1>1. s \in Stores /\ i \in DOMAIN s.servers
    BY DEF Sound, UpdateToken
<1>2. i \in Ids /\ s.servers[i] \in Profiles
    BY <1>1, StoreParts
<1>3. [s.servers[i] EXCEPT !.token = t] \in Profiles
    BY <1>2 DEF Profiles
<1> DEFINE p == [s.servers[i] EXCEPT !.token = t]
<1>4. UpdateToken(s, i, t) = With(s, i, p)
    BY <1>1 DEF UpdateToken
<1> HIDE DEF p
<1>5. With(s, i, p) \in Stores /\ With(s, i, p).active = s.active
    BY <1>1, <1>2, <1>3, WithStore DEF p
<1>6. s.active # None
    BY <1>1 DEF Sound
<1> QED
    BY <1>4, <1>5, <1>6 DEF Sound

LEMMA RemoveSound ==
    ASSUME NEW s, Sound(s), NEW i, RemoveProfile(s, i) # Refused
    PROVE  Sound(RemoveProfile(s, i))
<1> DEFINE left == DOMAIN s.servers \ {i}
           a == IF s.active = i THEN First(left) ELSE s.active
           f == [j \in left |-> s.servers[j]]
<1>1. s \in Stores /\ i \in DOMAIN s.servers /\ left \in SUBSET Ids
    BY StoreParts DEF Sound, RemoveProfile
<1>2. RemoveProfile(s, i) = [active |-> a, servers |-> f]
    BY <1>1 DEF RemoveProfile
<1>3. f \in [left -> Profiles]
    BY <1>1, StoreParts
<1>4. s.active # None /\ s.active \in DOMAIN s.servers
    BY <1>1, StoreParts DEF Sound
<1>5. a \in left \union {None} /\ (a = None => left = {})
  <2> HIDE DEF left
  <2>1. (left # {} => First(left) \in left) /\ (left = {} => First(left) = None)
      BY <1>1, FirstIsIn
  <2>2. None \notin left
      BY <1>1, IdsAssumption
  <2>3. CASE s.active = i
      BY <2>1, <2>2, <2>3
  <2>4. CASE s.active # i
      BY <1>4, <2>4 DEF left
  <2> QED
      BY <2>3, <2>4
<1> HIDE DEF left, a, f
<1>6. [active |-> a, servers |-> f] \in Stores
    BY <1>1, <1>3, <1>5, StoreMade
<1>7. DOMAIN f = left
    BY <1>3
<1>8. Sound([active |-> a, servers |-> f])
    BY <1>5, <1>6, <1>7 DEF Sound
<1> QED
    BY <1>2, <1>8

-----------------------------------------------------------------------------
\* What each request makes of a sound store is sound.

LEMMA RequestKinds ==
    ASSUME NEW r \in Requests
    PROVE  /\ r.kind \in {"add", "use", "remove", "token", "select", "show", "edit"}
           /\ r.kind = "add" => /\ r.id \in Ids /\ r.profile \in Profiles
                                /\ r.replace \in BOOLEAN /\ r.use \in BOOLEAN
           /\ r.kind \in {"use", "remove"} => r.id \in Ids
           /\ r.kind \in {"token", "select", "show"} => r.id \in Ids \union {None}
           /\ r.kind = "token" => r.token \in Tokens
           /\ r.kind = "edit" => r.id \in Ids /\ r.host \in Hosts /\ r.use \in BOOLEAN
BY DEF Requests

LEMMA ChangedSound ==
    ASSUME NEW r \in Requests, r.kind \notin {"select", "show"},
           NEW s, Sound(s), NEW shown, r.kind = "edit" => shown \in Profiles,
           Changed(r, s, shown) # Refused
    PROVE  Sound(Changed(r, s, shown))
<1>1. CASE r.kind = "add"
  <2>1. Changed(r, s, shown) = AddProfile(s, r.id, r.profile, r.replace, r.use)
      BY <1>1 DEF Changed
  <2> QED
      BY <1>1, <2>1, RequestKinds, AddSound
<1>2. CASE r.kind = "use"
  <2>1. Changed(r, s, shown) = SelectProfile(s, r.id)
      BY <1>2 DEF Changed
  <2> QED
      BY <1>2, <2>1, RequestKinds, SelectSound, IdsAssumption
<1>3. CASE r.kind = "token"
  <2>1. Changed(r, s, shown) = UpdateToken(s, Chosen(r, s), r.token)
      BY <1>3 DEF Changed
  <2> QED
      BY <1>3, <2>1, RequestKinds, TokenSound
<1>4. CASE r.kind = "remove"
  <2>1. Changed(r, s, shown) = RemoveProfile(s, r.id)
      BY <1>4 DEF Changed
  <2> QED
      BY <1>4, <2>1, RemoveSound
<1>5. CASE r.kind = "edit"
  <2>1. Changed(r, s, shown)
        = AddProfile(s, r.id, [shown EXCEPT !.host = r.host], TRUE, r.use)
      BY <1>5 DEF Changed
  <2>2. [shown EXCEPT !.host = r.host] \in Profiles
      BY <1>5, RequestKinds DEF Profiles
  <2> QED
      BY <1>5, <2>1, <2>2, RequestKinds, AddSound
<1> QED
    BY <1>1, <1>2, <1>3, <1>4, <1>5, RequestKinds

LEMMA LoadedSound ==
    ASSUME IInv, NEW r, Loaded(r) # Refused
    PROVE  Sound(Loaded(r))
BY EmptySound DEF IInv, Shared, Loaded

LEMMA LineMade ==
    ASSUME NEW r, NEW s, NEW t, Sound(s), Selected(r, s) # Refused
    PROVE  Line(Selected(r, s), Chosen(r, s), t) \in Lines
<1>1. Selected(r, s) \in Profiles
    BY StoreParts DEF Selected, Sound
<1> QED
    BY <1>1 DEF Line, Lines

-----------------------------------------------------------------------------

LEMMA InitIInv == Init => IInv
BY DEF Init, IInv, Shared, Locals, Own

LEMMA IInvImplies == IInv => TypeOK /\ Readable
<1> SUFFICES ASSUME IInv PROVE TypeOK /\ Readable
    OBVIOUS
<1>1. ASSUME NEW s \in Stores PROVE s # Torn
  <2>1. DOMAIN s = {"active", "servers"}
      BY StoreParts
  <2>2. DOMAIN Torn = {"error"}
      BY DEF Torn
  <2> QED
      BY <2>1, <2>2
<1>2. TypeOK
    BY DEF IInv, Shared, Locals, Own, TypeOK, Sound
<1>3. Readable
    BY <1>1, StoreParts DEF IInv, Shared, Readable, Sound
<1> QED
    BY <1>2, <1>3

\* A step that changes nothing of the other processes owes no more than this.
LEMMA OneProcess ==
    ASSUME IInv, NEW p \in Procs, Shared', Locals', Own(p)',
           \A q \in Procs \ {p} :
               pc'[q] = pc[q] /\ request'[q] = request[q] /\ mem'[q] = mem[q]
               /\ temp'[q] = temp[q]
    PROVE  IInv'
<1>1. ASSUME NEW q \in Procs, q # p PROVE Own(q)'
    BY <1>1 DEF IInv, Own
<1> QED
    BY <1>1 DEF IInv

\* Its operation ends without a change of what is shared.
LEMMA EndsKeeps ==
    ASSUME IInv, NEW p \in Procs, Ends(p), Shared', UNCHANGED touched,
           \/ temp' = [temp EXCEPT ![p] = "none"]
           \/ temp[p] = "none" /\ UNCHANGED temp
    PROVE  IInv'
<1>1. Locals'
    BY DEF IInv, Locals, Ends
<1>2. Own(p)'
    BY DEF IInv, Locals, Ends, Own
<1> QED
    BY <1>1, <1>2, OneProcess DEF IInv, Locals, Ends

LEMMA StepIInv == IInv /\ [Next]_vars => IInv'
<1> SUFFICES ASSUME IInv, [Next]_vars PROVE IInv'
    OBVIOUS
<1>1. ASSUME NEW p \in Procs, NEW r \in Requests, Ask(p, r) PROVE IInv'
  <2>1. r # Idle
      BY RequestKinds DEF Idle
  <2>2. Shared' /\ Locals'
      BY <1>1 DEF IInv, Shared, Locals, Ask, disk
  <2>3. Own(p)'
      BY <1>1, <2>1 DEF IInv, Locals, Own, Ask, disk
  <2> QED
      BY <1>1, <2>2, <2>3, OneProcess DEF IInv, Locals, Ask, disk
<1>2. ASSUME NEW p \in Procs, FirstLoad(p) PROVE IInv'
  <2> DEFINE r == request[p]
             s == Loaded(r)
             m == IF r.kind = "edit" THEN s.servers[r.id] ELSE s
  <2>1. pc[p] = "first" /\ temp[p] = "none" /\ UNCHANGED <<disk, touched>>
      BY <1>2 DEF FirstLoad, IInv, Own
  <2>2. Shared'
      BY <2>1 DEF IInv, Shared, disk
  <2>3. CASE Ends(p)
      BY <2>1, <2>2, <2>3, EndsKeeps DEF disk
  <2>4. CASE ~Ends(p)
    <3>1. s # Refused /\ (r.kind = "edit" => r.id \in DOMAIN s.servers)
          /\ Goes(p, "load", m)
        BY <1>2, <2>4 DEF FirstLoad
    <3>2. Sound(s)
        BY <3>1, LoadedSound
    <3>3. r.kind = "edit" => m \in Profiles
        BY <3>1, <3>2, StoreParts DEF Sound
    <3>4. r.kind = "show" => Sound(m)
        BY <3>2
    <3> HIDE DEF m
    <3>5. Locals'
        BY <2>1, <3>1 DEF IInv, Locals, Goes, disk
    <3>6. Own(p)'
        BY <2>1, <3>1, <3>3, <3>4 DEF IInv, Locals, Own, Goes, disk
    <3> QED
        BY <2>1, <2>2, <3>1, <3>5, <3>6, OneProcess DEF IInv, Locals, Goes, disk
  <2> QED
      BY <2>3, <2>4
<1>3. ASSUME NEW p \in Procs, LoadToShow(p) PROVE IInv'
  <2> DEFINE r == request[p]
             s == Loaded(r)
             m == Line(Selected(r, s), Chosen(r, s), IF r.kind = "show" THEN mem[p] ELSE s)
  <2>1. pc[p] = "load" /\ temp[p] = "none" /\ UNCHANGED <<disk, touched>>
      BY <1>3 DEF LoadToShow, IInv, Own
  <2>2. Shared'
      BY <2>1 DEF IInv, Shared, disk
  <2>3. CASE Ends(p)
      BY <2>1, <2>2, <2>3, EndsKeeps DEF disk
  <2>4. CASE ~Ends(p)
    <3>1. s # Refused /\ Selected(r, s) # Refused /\ Goes(p, "shown", m)
        BY <1>3, <2>4 DEF LoadToShow
    <3>2. m \in Lines
        BY <3>1, LoadedSound, LineMade
    <3> HIDE DEF m
    <3>3. Locals'
        BY <2>1, <3>1 DEF IInv, Locals, Goes, disk
    <3>4. Own(p)'
        BY <2>1, <3>1, <3>2 DEF IInv, Locals, Own, Goes, disk
    <3> QED
        BY <2>1, <2>2, <3>1, <3>3, <3>4, OneProcess DEF IInv, Locals, Goes, disk
  <2> QED
      BY <2>3, <2>4
<1>4. ASSUME NEW p \in Procs, LoadToChange(p) PROVE IInv'
  <2> DEFINE r == request[p]
             s == Loaded(r)
             m == Changed(r, s, mem[p])
  <2>1. /\ pc[p] = "load" /\ temp[p] = "none" /\ UNCHANGED <<disk, touched>>
        /\ r \in Requests /\ r.kind \notin {"select", "show"}
      BY <1>4 DEF LoadToChange, IInv, Locals, Own
  <2>2. Shared'
      BY <2>1 DEF IInv, Shared, disk
  <2>3. CASE Ends(p)
      BY <2>1, <2>2, <2>3, EndsKeeps DEF disk
  <2>4. CASE ~Ends(p)
    <3>1. s # Refused /\ m # Refused /\ Goes(p, "make", m)
        BY <1>4, <2>4 DEF LoadToChange
    <3>2. Sound(s)
        BY <3>1, LoadedSound
    <3>3. r.kind = "edit" => mem[p] \in Profiles
        BY <2>1 DEF IInv, Own
    <3>4. Sound(m)
        BY <2>1, <3>1, <3>2, <3>3, ChangedSound
    <3> HIDE DEF m
    <3>5. Locals'
        BY <2>1, <3>1 DEF IInv, Locals, Goes, disk
    <3>6. Own(p)'
        BY <2>1, <3>1, <3>4 DEF IInv, Locals, Own, Goes, disk
    <3> QED
        BY <2>1, <2>2, <3>1, <3>5, <3>6, OneProcess DEF IInv, Locals, Goes, disk
  <2> QED
      BY <2>3, <2>4
<1>5. ASSUME NEW p \in Procs, Shown(p) PROVE IInv'
  <2>1. temp[p] = "none"
      BY <1>5 DEF Shown, IInv, Own
  <2>2. Shared'
      BY <1>5 DEF Shown, IInv, Shared, disk
  <2> QED
      BY <1>5, <2>1, <2>2, EndsKeeps DEF Shown, disk
<1>6. ASSUME NEW p \in Procs, MakeTemp(p) PROVE IInv'
  <2>1. /\ pc[p] = "make" /\ temp[p] = "none" /\ Sound(mem[p])
        /\ UNCHANGED <<file, synced, touched>>
      BY <1>6 DEF MakeTemp, IInv, Own
  <2>2. Shared'
      BY <2>1 DEF IInv, Shared
  <2>3. CASE Ends(p) /\ UNCHANGED temp
      BY <2>1, <2>2, <2>3, EndsKeeps
  <2>4. CASE Goes(p, "write", mem[p]) /\ temp' = [temp EXCEPT ![p] = "part"]
    <3>1. Locals'
        BY <2>1, <2>4 DEF IInv, Locals, Goes
    <3>2. Own(p)'
        BY <2>1, <2>4 DEF IInv, Locals, Own, Goes
    <3> QED
        BY <2>2, <2>4, <3>1, <3>2, OneProcess DEF IInv, Locals, Goes
  <2> QED
      BY <1>6, <2>3, <2>4 DEF MakeTemp
<1>7. ASSUME NEW p \in Procs, Write(p) PROVE IInv'
  <2>1. Sound(mem[p])
      BY <1>7 DEF Write, IInv, Own
  <2>2. Shared'
      BY <1>7 DEF Write, IInv, Shared
  <2>3. Locals'
      BY <1>7 DEF Write, IInv, Locals, Goes
  <2>4. Own(p)'
      BY <1>7, <2>1 DEF Write, IInv, Locals, Own, Goes
  <2> QED
      BY <1>7, <2>2, <2>3, <2>4, OneProcess DEF Write, IInv, Locals, Goes
<1>8. ASSUME NEW p \in Procs, Rename(p) PROVE IInv'
  <2>1. Sound(mem[p]) /\ temp[p] = "synced"
      BY <1>8 DEF Rename, IInv, Own
  <2>2. Shared'
      BY <1>8, <2>1 DEF Rename, IInv, Shared
  <2>3. \A f, g : Differ(f, g) \in SUBSET (Ids \union {None})
      BY DEF Differ
  <2>4. Locals'
      BY <1>8, <2>3 DEF Rename, IInv, Locals, Ends
  <2>5. Own(p)'
      BY <1>8 DEF Rename, IInv, Locals, Own, Ends
  <2> QED
      BY <1>8, <2>2, <2>4, <2>5, OneProcess DEF Rename, IInv, Locals, Ends
<1>9. ASSUME NEW p \in Procs, Fails(p) PROVE IInv'
  <2>1. Shared'
      BY <1>9 DEF Fails, IInv, Shared
  <2>2. Ends(p) /\ UNCHANGED touched /\ temp' = [temp EXCEPT ![p] = "none"]
      BY <1>9 DEF Fails
  <2> QED
      BY <2>1, <2>2, EndsKeeps
<1>10. CASE PowerLoss
  <2>1. Shared'
      BY <1>10 DEF PowerLoss, IInv, Shared, Locals
  <2>2. Locals'
      BY <1>10 DEF PowerLoss, Locals
  <2>3. \A p \in Procs : Own(p)'
      BY <1>10 DEF PowerLoss, Own
  <2> QED
      BY <2>1, <2>2, <2>3 DEF IInv
<1>11. CASE UNCHANGED vars
    BY <1>11 DEF vars, disk, procs, IInv, Shared, Locals, Own
<1> QED
    BY <1>1, <1>2, <1>3, <1>4, <1>5, <1>6, <1>7, <1>8, <1>9, <1>10, <1>11
    DEF Next

LEMMA Invariance == Spec => []IInv
BY InitIInv, StepIInv, PTL DEF Spec

\* The types.
THEOREM TypesAlways == Spec => []TypeOK
BY Invariance, IInvImplies, PTL

\* Every load finds a whole store, with an active server unless it has none.
THEOREM ReadableAlways == Spec => []Readable
BY Invariance, IInvImplies, PTL

-----------------------------------------------------------------------------
\* What a process keeps is still true of the file, but for what others have
\* changed: a save loses nothing else.

\* The store g is what request r makes of the store f, but for the ids in t.
MeantIn(r, f) == IF r.id = None THEN Active(f) ELSE r.id

Asked(r, t, f, g) ==
    /\ r.id # None \/ None \notin t =>
          \A i \in Ids \ t :
              Server(g, i) = IF i = MeantIn(r, f) THEN Wanted(r, Server(f, i))
                             ELSE Server(f, i)
    /\ None \notin t /\ Active(g) # Active(f) =>
          \/ r.kind = "use" \/ (r.kind \in {"add", "edit"} /\ r.use)
          \/ Active(f) = None
          \/ r.kind = "remove" /\ r.id = Active(f)

Printed(r, t, f, m) ==
    None \notin t =>
        /\ MeantIn(r, f) \notin t => m.profile = Server(f, MeantIn(r, f))
        /\ r.kind = "show" => (m.active <=> MeantIn(r, f) = Active(f))

Kept(p) ==
    /\ pc[p] = "load" /\ request[p].kind = "edit" /\ request[p].id \notin touched[p]
       => mem[p] = Server(file, request[p].id)
    /\ pc[p] = "load" /\ request[p].kind = "show" /\ None \notin touched[p]
       => mem[p].active = Active(file)
    /\ pc[p] = "shown" => Printed(request[p], touched[p], file, mem[p])
    /\ pc[p] \in {"make", "write", "rename"}
       => Asked(request[p], touched[p], file, mem[p])

\* What another process changes is noted.
LEMMA AskedOn ==
    ASSUME NEW r, NEW t, NEW f, NEW h, NEW g, Asked(r, t, f, g)
    PROVE  Asked(r, t \union Differ(f, h), h, g)
<1>1. \A i \in Ids : i \notin Differ(f, h) => Server(f, i) = Server(h, i)
    BY DEF Differ
<1>2. None \notin Differ(f, h) => Active(f) = Active(h)
    BY DEF Differ
<1>3. r.id # None \/ None \notin Differ(f, h) => MeantIn(r, f) = MeantIn(r, h)
    BY <1>2 DEF MeantIn
<1> QED
    BY <1>1, <1>2, <1>3 DEF Asked

\* The parts of a store as Server and Active see them.
LEMMA Seen ==
    ASSUME NEW s \in Stores
    PROVE  /\ s # None /\ Active(s) = s.active
           /\ \A i : Server(s, i) = IF i \in DOMAIN s.servers THEN s.servers[i] ELSE None
BY NoneAssumption DEF Active, Server

LEMMA NotRefused ==
    ASSUME NEW s
    PROVE  /\ s \in Stores => s # Refused /\ s # Torn
           /\ s \in Profiles => s # Refused
<1>1. s \in Stores => DOMAIN s = {"active", "servers"}
    BY StoreParts
<1>2. s \in Profiles => DOMAIN s = {"host", "token"}
    BY DEF Profiles
<1>3. DOMAIN Refused = {"error"} /\ DOMAIN Torn = {"error"}
    BY DEF Refused, Torn
<1> QED
    BY <1>1, <1>2, <1>3

LEMMA WithSeen ==
    ASSUME NEW s \in Stores, NEW i \in Ids, NEW p \in Profiles
    PROVE  \A j : Server(With(s, i, p), j) = IF j = i THEN p ELSE Server(s, j)
<1> DEFINE w == With(s, i, p)
<1>1. w \in Stores /\ w.servers \in [DOMAIN s.servers \union {i} -> Profiles]
    BY WithStore
<1>2. w.servers = [j \in DOMAIN s.servers \union {i} |-> IF j = i THEN p ELSE s.servers[j]]
    BY StoreParts DEF With
<1>3. ASSUME NEW j PROVE Server(w, j) = IF j = i THEN p ELSE Server(s, j)
  <2>1. Server(w, j) = IF j \in DOMAIN w.servers THEN w.servers[j] ELSE None
      BY <1>1, Seen
  <2>2. Server(s, j) = IF j \in DOMAIN s.servers THEN s.servers[j] ELSE None
      BY Seen
  <2> HIDE DEF w
  <2> QED
      BY <1>2, <2>1, <2>2
<1> QED
    BY <1>3

LEMMA AddSeen ==
    ASSUME NEW s, Sound(s), NEW i \in Ids, NEW p \in Profiles,
           NEW replace \in BOOLEAN, NEW use \in BOOLEAN,
           AddProfile(s, i, p, replace, use) # Refused
    PROVE  LET new == AddProfile(s, i, p, replace, use)
           IN  /\ \A j : Server(new, j) = IF j = i THEN p ELSE Server(s, j)
               /\ Active(new) = IF Active(s) = None \/ use THEN i ELSE Active(s)
               /\ i \in DOMAIN s.servers => replace
<1> DEFINE w == With(s, i, p)
           new == AddProfile(s, i, p, replace, use)
           a == IF w.active = None \/ use THEN i ELSE w.active
<1>1. s \in Stores
    BY DEF Sound
<1>2. /\ w \in Stores /\ w.active = s.active
      /\ w = [active |-> s.active, servers |-> w.servers]
    BY <1>1, WithStore
<1>3. new = [w EXCEPT !.active = a] /\ (i \in DOMAIN s.servers => replace)
    BY DEF AddProfile
<1>4. new.active = a /\ new.servers = w.servers
  <2> HIDE DEF new, w, a
  <2> QED
      BY <1>2, <1>3
<1>5. new \in Stores
    BY AddSound DEF Sound
<1>6. \A j : Server(new, j) = Server(w, j)
  <2> HIDE DEF new, w
  <2> QED
      BY <1>2, <1>4, <1>5, Seen
<1>7. \A j : Server(w, j) = IF j = i THEN p ELSE Server(s, j)
    BY <1>1, WithSeen
<1>8. Active(new) = IF Active(s) = None \/ use THEN i ELSE Active(s)
  <2> HIDE DEF new, w
  <2> QED
      BY <1>1, <1>2, <1>4, <1>5, Seen
<1> HIDE DEF new, w
<1>9. \A j : Server(new, j) = IF j = i THEN p ELSE Server(s, j)
    BY <1>6, <1>7
<1> QED
    BY <1>3, <1>8, <1>9 DEF new

LEMMA SelectSeen ==
    ASSUME NEW s, Sound(s), NEW i, SelectProfile(s, i) # Refused, i # None
    PROVE  /\ \A j : Server(SelectProfile(s, i), j) = Server(s, j)
           /\ Active(SelectProfile(s, i)) = i
<1>1. s \in Stores
    BY DEF Sound
<1>2. SelectProfile(s, i) \in Stores
    BY SelectSound DEF Sound
<1>3. SelectProfile(s, i).active = i /\ SelectProfile(s, i).servers = s.servers
    BY <1>1, StoreParts DEF SelectProfile
<1> HIDE DEF SelectProfile
<1> QED
    BY <1>1, <1>2, <1>3, Seen

LEMMA TokenSeen ==
    ASSUME NEW s, Sound(s), NEW i, NEW t \in Tokens, UpdateToken(s, i, t) # Refused
    PROVE  /\ \A j : Server(UpdateToken(s, i, t), j)
                     = IF j = i THEN [Server(s, i) EXCEPT !.token = t] ELSE Server(s, j)
           /\ Active(UpdateToken(s, i, t)) = Active(s)
<1>1. s \in Stores /\ i \in DOMAIN s.servers
    BY DEF Sound, UpdateToken
<1>2. i \in Ids /\ s.servers[i] \in Profiles /\ Server(s, i) = s.servers[i]
    BY <1>1, StoreParts, Seen
<1> DEFINE p == [s.servers[i] EXCEPT !.token = t]
<1>3. p \in Profiles
    BY <1>2 DEF Profiles
<1>4. UpdateToken(s, i, t) = With(s, i, p)
    BY <1>1 DEF UpdateToken
<1>5. p = [Server(s, i) EXCEPT !.token = t]
    BY <1>2
<1> HIDE DEF p
<1>6. With(s, i, p) \in Stores /\ With(s, i, p).active = s.active
    BY <1>1, <1>2, <1>3, WithStore
<1>7. \A j : Server(With(s, i, p), j) = IF j = i THEN p ELSE Server(s, j)
    BY <1>1, <1>2, <1>3, WithSeen
<1>8. Active(With(s, i, p)) = Active(s)
    BY <1>1, <1>6, Seen
<1> QED
    BY <1>4, <1>5, <1>7, <1>8

LEMMA RemoveSeen ==
    ASSUME NEW s, Sound(s), NEW i, RemoveProfile(s, i) # Refused
    PROVE  /\ \A j : Server(RemoveProfile(s, i), j)
                     = IF j = i THEN None ELSE Server(s, j)
           /\ Active(RemoveProfile(s, i)) # Active(s) => i = Active(s)
<1> DEFINE left == DOMAIN s.servers \ {i}
           a == IF s.active = i THEN First(left) ELSE s.active
           f == [j \in left |-> s.servers[j]]
           new == RemoveProfile(s, i)
<1>1. s \in Stores /\ new \in Stores
    BY RemoveSound DEF Sound
<1>2. new = [active |-> a, servers |-> f]
    BY DEF RemoveProfile
<1>3. new.active = a /\ new.servers = f
  <2> HIDE DEF a, f, new
  <2> QED
      BY <1>2
<1>4. ASSUME NEW j
      PROVE  Server(new, j) = IF j = i THEN None ELSE Server(s, j)
  <2>1. Server(new, j) = IF j \in DOMAIN f THEN f[j] ELSE None
    <3> HIDE DEF new, f
    <3> QED
        BY <1>1, <1>3, Seen
  <2>2. Server(s, j) = IF j \in DOMAIN s.servers THEN s.servers[j] ELSE None
      BY <1>1, Seen
  <2> HIDE DEF new
  <2> QED
      BY <2>1, <2>2
<1>5. Active(new) = a /\ Active(s) = s.active
  <2> HIDE DEF new, a
  <2> QED
      BY <1>1, <1>3, Seen
<1> HIDE DEF new
<1> QED
    BY <1>4, <1>5 DEF new

\* What each request makes of the store it read is what it asks for.
LEMMA ChangedAsked ==
    ASSUME NEW r \in Requests, r.kind \notin {"select", "show"},
           NEW s, Sound(s), NEW t, NEW shown,
           r.kind = "edit" => shown \in Profiles,
           r.kind = "edit" /\ r.id \notin t => shown = Server(s, r.id),
           Changed(r, s, shown) # Refused
    PROVE  Asked(r, t, s, Changed(r, s, shown))
<1> DEFINE new == Changed(r, s, shown)
<1>0. MeantIn(r, s) = IF r.id = None THEN Active(s) ELSE r.id
    BY DEF MeantIn
<1>1. CASE r.kind = "add"
  <2>1. new = AddProfile(s, r.id, r.profile, r.replace, r.use)
      BY <1>1 DEF Changed
  <2>2. r.id \in Ids /\ r.id # None /\ r.profile \in Profiles
        /\ r.replace \in BOOLEAN /\ r.use \in BOOLEAN
      BY <1>1, RequestKinds, IdsAssumption
  <2>3. /\ \A j : Server(new, j) = IF j = r.id THEN r.profile ELSE Server(s, j)
        /\ Active(new) = IF Active(s) = None \/ r.use THEN r.id ELSE Active(s)
        /\ r.id \in DOMAIN s.servers => r.replace
      BY <2>1, <2>2, AddSeen
  <2>4. Server(s, r.id) = None \/ r.replace
      BY <2>3, Seen DEF Sound
  <2>5. Wanted(r, Server(s, r.id)) = r.profile
      BY <1>1, <2>4 DEF Wanted
  <2> HIDE DEF new
  <2>6. Asked(r, t, s, new)
      BY <1>0, <1>1, <2>2, <2>3, <2>5 DEF Asked
  <2> QED
      BY <2>6 DEF new
<1>2. CASE r.kind = "use"
  <2>1. new = SelectProfile(s, r.id) /\ r.id \in Ids /\ r.id # None
      BY <1>2, RequestKinds, IdsAssumption DEF Changed
  <2>2. \A j : Server(new, j) = Server(s, j)
      BY <2>1, SelectSeen
  <2>3. \A old : Wanted(r, old) = old
      BY <1>2 DEF Wanted
  <2> HIDE DEF new
  <2>4. Asked(r, t, s, new)
      BY <1>2, <2>2, <2>3 DEF Asked
  <2> QED
      BY <2>4 DEF new
<1>3. CASE r.kind = "token"
  <2>1. new = UpdateToken(s, Chosen(r, s), r.token) /\ r.token \in Tokens
      BY <1>3, RequestKinds DEF Changed
  <2>2. Chosen(r, s) = MeantIn(r, s)
      BY <1>0, Seen DEF Chosen, Sound
  <2>3. /\ \A j : Server(new, j) = IF j = MeantIn(r, s)
                   THEN [Server(s, MeantIn(r, s)) EXCEPT !.token = r.token]
                   ELSE Server(s, j)
        /\ Active(new) = Active(s)
      BY <2>1, <2>2, TokenSeen
  <2>4. \A old : Wanted(r, old) = [old EXCEPT !.token = r.token]
      BY <1>3 DEF Wanted
  <2> HIDE DEF new
  <2>5. Asked(r, t, s, new)
      BY <2>3, <2>4 DEF Asked
  <2> QED
      BY <2>5 DEF new
<1>4. CASE r.kind = "remove"
  <2>1. new = RemoveProfile(s, r.id) /\ r.id \in Ids /\ r.id # None
      BY <1>4, RequestKinds, IdsAssumption DEF Changed
  <2>2. /\ \A j : Server(new, j) = IF j = r.id THEN None ELSE Server(s, j)
        /\ Active(new) # Active(s) => r.id = Active(s)
      BY <2>1, RemoveSeen
  <2>3. \A old : Wanted(r, old) = None
      BY <1>4 DEF Wanted
  <2> HIDE DEF new
  <2>4. Asked(r, t, s, new)
      BY <1>0, <1>4, <2>1, <2>2, <2>3 DEF Asked
  <2> QED
      BY <2>4 DEF new
<1>5. CASE r.kind = "edit"
  <2> DEFINE p == [shown EXCEPT !.host = r.host]
  <2>1. new = AddProfile(s, r.id, p, TRUE, r.use)
      BY <1>5 DEF Changed
  <2>2. r.id \in Ids /\ r.id # None /\ r.use \in BOOLEAN /\ p \in Profiles
      BY <1>5, RequestKinds, IdsAssumption DEF Profiles
  <2>3. r.id \notin t => p = [Server(s, r.id) EXCEPT !.host = r.host]
      BY <1>5
  <2>4. \A old : Wanted(r, old) = [old EXCEPT !.host = r.host]
      BY <1>5 DEF Wanted
  <2> HIDE DEF p
  <2>5. /\ \A j : Server(new, j) = IF j = r.id THEN p ELSE Server(s, j)
        /\ Active(new) = IF Active(s) = None \/ r.use THEN r.id ELSE Active(s)
    <3>1. PICK always \in BOOLEAN : always = TRUE
        OBVIOUS
    <3>2. new = AddProfile(s, r.id, p, always, r.use) /\ new # Refused
        BY <2>1, <3>1
    <3> HIDE DEF new
    <3> QED
        BY <2>2, <3>2, AddSeen
  <2> HIDE DEF new
  <2>6. Asked(r, t, s, new)
      BY <1>0, <1>5, <2>2, <2>3, <2>4, <2>5 DEF Asked
  <2> QED
      BY <2>6 DEF new
<1> QED
    BY <1>1, <1>2, <1>3, <1>4, <1>5, RequestKinds

\* A load finds what is in the file, and an empty store where there is none.
LEMMA LoadedSeen ==
    ASSUME IInv, NEW r, Loaded(r) # Refused
    PROVE  /\ Active(Loaded(r)) = Active(file)
           /\ \A j : Server(Loaded(r), j) = Server(file, j)
           /\ r.kind \notin {"add", "edit"} => file # None /\ Loaded(r) = file
<1>1. CASE file # None
    BY <1>1 DEF IInv, Shared, Loaded
<1>2. CASE file = None
  <2>1. Loaded(r) = Empty /\ r.kind \in {"add", "edit"}
    <3>1. file # Torn \/ Loaded(r) = Refused
        BY DEF Loaded
    <3> QED
        BY <1>2, <3>1 DEF Loaded
  <2>2. Empty \in Stores /\ Empty.active = None /\ DOMAIN Empty.servers = {}
      BY EmptySound DEF Sound, Empty
  <2>3. Active(Empty) = None /\ \A j : Server(Empty, j) = None
      BY <2>2, Seen
  <2> QED
      BY <1>2, <2>1, <2>3 DEF Active, Server
<1> QED
    BY <1>1, <1>2

LEMMA AskedOfFile ==
    ASSUME IInv, NEW r, Loaded(r) # Refused, NEW t, NEW g, Asked(r, t, Loaded(r), g)
    PROVE  Asked(r, t, file, g)
BY LoadedSeen DEF Asked, MeantIn

\* What is printed was in the file.
LEMMA PrintedOfFile ==
    ASSUME IInv, NEW r \in Requests, r.kind \in {"select", "show"}, NEW t, NEW first,
           r.kind = "show" /\ None \notin t => first.active = Active(file),
           Loaded(r) # Refused, Selected(r, Loaded(r)) # Refused
    PROVE  Printed(r, t, file, Line(Selected(r, Loaded(r)), Chosen(r, Loaded(r)),
                                    IF r.kind = "show" THEN first ELSE Loaded(r)))
<1> DEFINE i == Chosen(r, file)
           f == IF r.kind = "show" THEN first ELSE file
           m == Line(Selected(r, file), i, f)
<1>1. Loaded(r) = file /\ file \in Stores
    BY LoadedSeen, LoadedSound DEF Sound
<1>2. Active(file) = file.active
    BY <1>1, Seen
<1>3. i = MeantIn(r, file)
    BY <1>2 DEF Chosen, MeantIn
<1>4. i \in DOMAIN file.servers /\ Selected(r, file) = file.servers[i]
    BY <1>1 DEF Selected
<1>5. Selected(r, file) = Server(file, i)
    BY <1>1, <1>4, Seen
<1>6. m.profile = Selected(r, file) /\ m.active = (i = f.active)
  <2> HIDE DEF i, f
  <2> QED
      BY DEF Line
<1>7. None \notin t /\ r.kind = "show" => f.active = Active(file)
    OBVIOUS
<1> HIDE DEF i, f, m
<1>8. Printed(r, t, file, m)
    BY <1>3, <1>5, <1>6, <1>7 DEF Printed
<1> QED
    BY <1>1, <1>8 DEF m, i, f

LEMMA PrintedOn ==
    ASSUME NEW r \in Requests, NEW t, NEW f, NEW h, NEW m, Printed(r, t, f, m),
           f # None => f \in Stores, h \in Stores
    PROVE  Printed(r, t \union Differ(f, h), h, m)
<1>1. None \notin Differ(f, h) => Active(f) = Active(h) /\ MeantIn(r, f) = MeantIn(r, h)
    BY DEF Differ, MeantIn
<1>2. MeantIn(r, h) \in Ids \union {None}
    BY Seen, StoreParts, RequestKinds DEF MeantIn
<1>3. Server(f, None) = None /\ Server(h, None) = None
    BY Seen, StoreParts, IdsAssumption DEF Server
<1>4. MeantIn(r, h) \notin Differ(f, h)
      => Server(f, MeantIn(r, h)) = Server(h, MeantIn(r, h))
    BY <1>2, <1>3 DEF Differ
<1> QED
    BY <1>1, <1>4 DEF Printed

LEMMA InitKept == Init => \A p \in Procs : Kept(p)
BY DEF Init, Kept

\* A step that leaves the file alone owes no more than this.
LEMMA OneKeeps ==
    ASSUME \A q \in Procs : Kept(q), NEW p \in Procs, UNCHANGED file, Kept(p)',
           \A q \in Procs \ {p} :
               pc'[q] = pc[q] /\ request'[q] = request[q] /\ mem'[q] = mem[q]
               /\ touched'[q] = touched[q]
    PROVE  (\A q \in Procs : Kept(q))'
<1>1. ASSUME NEW q \in Procs, q # p PROVE Kept(q)'
    BY <1>1 DEF Kept
<1> QED
    BY <1>1

LEMMA EndsIsKept ==
    ASSUME IInv, \A q \in Procs : Kept(q), NEW p \in Procs, Ends(p),
           UNCHANGED <<file, touched>>
    PROVE  (\A q \in Procs : Kept(q))'
<1>1. pc'[p] = "idle"
    BY DEF Ends, IInv, Locals
<1>2. Kept(p)'
    BY <1>1 DEF Kept
<1> QED
    BY <1>2, OneKeeps DEF Ends, IInv, Locals

LEMMA StepKept ==
    IInv /\ (\A p \in Procs : Kept(p)) /\ [Next]_vars => (\A p \in Procs : Kept(p))'
<1> SUFFICES ASSUME IInv, \A p \in Procs : Kept(p), [Next]_vars
             PROVE  (\A p \in Procs : Kept(p))'
    OBVIOUS
<1>1. ASSUME NEW p \in Procs, NEW r \in Requests, Ask(p, r)
      PROVE  (\A q \in Procs : Kept(q))'
  <2>1. pc'[p] = (IF r.kind \in {"show", "edit"} THEN "first" ELSE "load")
        /\ request'[p] = r
      BY <1>1 DEF Ask, IInv, Locals
  <2>2. Kept(p)'
      BY <2>1 DEF Kept
  <2> QED
      BY <1>1, <2>2, OneKeeps DEF Ask, IInv, Locals, disk
<1>2. ASSUME NEW p \in Procs, FirstLoad(p) PROVE (\A q \in Procs : Kept(q))'
  <2> DEFINE r == request[p]
             s == Loaded(r)
             m == IF r.kind = "edit" THEN s.servers[r.id] ELSE s
  <2>1. UNCHANGED <<file, touched>>
      BY <1>2 DEF FirstLoad, disk
  <2>2. CASE Ends(p)
      BY <2>1, <2>2, EndsIsKept
  <2>3. CASE ~Ends(p)
    <3>1. s # Refused /\ (r.kind = "edit" => r.id \in DOMAIN s.servers)
          /\ Goes(p, "load", m)
        BY <1>2, <2>3 DEF FirstLoad
    <3>2. s \in Stores
        BY <3>1, LoadedSound DEF Sound
    <3>3. Active(s) = Active(file) /\ s.active = Active(s)
        BY <3>1, <3>2, LoadedSeen, Seen
    <3>4. r.kind = "edit" => m = Server(file, r.id)
        BY <3>1, <3>2, LoadedSeen, Seen
    <3>5. r.kind = "show" => m.active = Active(file)
        BY <3>3
    <3> HIDE DEF m, s
    <3>6. pc'[p] = "load" /\ request'[p] = r /\ mem'[p] = m
        BY <3>1 DEF Goes, IInv, Locals
    <3>7. Kept(p)'
        BY <2>1, <3>4, <3>5, <3>6 DEF Kept
    <3> QED
        BY <2>1, <3>1, <3>7, OneKeeps DEF Goes, IInv, Locals
  <2> QED
      BY <2>2, <2>3
<1>3. ASSUME NEW p \in Procs, LoadToShow(p) PROVE (\A q \in Procs : Kept(q))'
  <2> DEFINE r == request[p]
             s == Loaded(r)
             m == Line(Selected(r, s), Chosen(r, s), IF r.kind = "show" THEN mem[p] ELSE s)
  <2>1. /\ UNCHANGED <<file, touched>> /\ pc[p] = "load"
        /\ r \in Requests /\ r.kind \in {"select", "show"}
      BY <1>3 DEF LoadToShow, disk, IInv, Locals, Own
  <2>2. CASE Ends(p)
      BY <2>1, <2>2, EndsIsKept
  <2>3. CASE ~Ends(p)
    <3>1. s # Refused /\ Selected(r, s) # Refused /\ Goes(p, "shown", m)
        BY <1>3, <2>3 DEF LoadToShow
    <3>2. r.kind = "show" /\ None \notin touched[p] => mem[p].active = Active(file)
        BY <2>1 DEF Kept
    <3>3. Printed(r, touched[p], file, m)
        BY <2>1, <3>1, <3>2, PrintedOfFile
    <3> HIDE DEF m
    <3>4. pc'[p] = "shown" /\ request'[p] = r /\ mem'[p] = m
        BY <3>1 DEF Goes, IInv, Locals
    <3>5. Kept(p)'
        BY <2>1, <3>3, <3>4 DEF Kept
    <3> QED
        BY <2>1, <3>1, <3>5, OneKeeps DEF Goes, IInv, Locals
  <2> QED
      BY <2>2, <2>3
<1>4. ASSUME NEW p \in Procs, LoadToChange(p) PROVE (\A q \in Procs : Kept(q))'
  <2> DEFINE r == request[p]
             s == Loaded(r)
             m == Changed(r, s, mem[p])
  <2>1. /\ UNCHANGED <<file, touched>> /\ pc[p] = "load"
        /\ r \in Requests /\ r.kind \notin {"select", "show"}
      BY <1>4 DEF LoadToChange, disk, IInv, Locals, Own
  <2>2. CASE Ends(p)
      BY <2>1, <2>2, EndsIsKept
  <2>3. CASE ~Ends(p)
    <3>1. s # Refused /\ m # Refused /\ Goes(p, "make", m)
        BY <1>4, <2>3 DEF LoadToChange
    <3>2. Sound(s) /\ (r.kind = "edit" => mem[p] \in Profiles)
        BY <2>1, <3>1, LoadedSound DEF IInv, Own
    <3>3. r.kind = "edit" /\ r.id \notin touched[p] => mem[p] = Server(s, r.id)
        BY <2>1, <3>1, LoadedSeen DEF Kept
    <3>4. Asked(r, touched[p], s, m)
        BY <2>1, <3>1, <3>2, <3>3, ChangedAsked
    <3>5. Asked(r, touched[p], file, m)
      <4> HIDE DEF m
      <4> QED
          BY <3>1, <3>4, AskedOfFile
    <3> HIDE DEF m
    <3>6. pc'[p] = "make" /\ request'[p] = r /\ mem'[p] = m
        BY <3>1 DEF Goes, IInv, Locals
    <3>7. Kept(p)'
        BY <2>1, <3>5, <3>6 DEF Kept
    <3> QED
        BY <2>1, <3>1, <3>7, OneKeeps DEF Goes, IInv, Locals
  <2> QED
      BY <2>2, <2>3
<1>5. ASSUME NEW p \in Procs, Shown(p) \/ Fails(p) PROVE (\A q \in Procs : Kept(q))'
    BY <1>5, EndsIsKept DEF Shown, Fails, disk
<1>6. ASSUME NEW p \in Procs, MakeTemp(p) \/ Write(p) PROVE (\A q \in Procs : Kept(q))'
  <2>1. UNCHANGED <<file, touched>> /\ pc[p] \in {"make", "write"}
      BY <1>6 DEF MakeTemp, Write
  <2>2. CASE Ends(p)
      BY <2>1, <2>2, EndsIsKept
  <2>3. ASSUME NEW to \in {"write", "rename"}, Goes(p, to, mem[p])
        PROVE  (\A q \in Procs : Kept(q))'
    <3>1. pc'[p] = to /\ request'[p] = request[p] /\ mem'[p] = mem[p]
        BY <2>3 DEF Goes, IInv, Locals
    <3>2. Kept(p)'
        BY <2>1, <3>1 DEF Kept
    <3> QED
        BY <2>1, <2>3, <3>2, OneKeeps DEF Goes, IInv, Locals
  <2> QED
      BY <1>6, <2>2, <2>3 DEF MakeTemp, Write
<1>7. ASSUME NEW p \in Procs, Rename(p) PROVE (\A q \in Procs : Kept(q))'
  <2>1. /\ mem[p] \in Stores /\ file' = mem[p] /\ pc'[p] = "idle"
        /\ file # None => file \in Stores
      BY <1>7 DEF Rename, Ends, IInv, Locals, Shared, Own, Sound
  <2>2. ASSUME NEW q \in Procs, q # p, pc[q] # "idle" PROVE Kept(q)'
    <3>1. /\ pc'[q] = pc[q] /\ request'[q] = request[q] /\ mem'[q] = mem[q]
          /\ touched'[q] = touched[q] \union Differ(file, file')
          /\ request[q] \in Requests /\ Kept(q)
        BY <1>7, <2>1, <2>2 DEF Rename, Ends, IInv, Locals, Own
    <3>2. /\ \A i \in Ids : i \notin Differ(file, file') => Server(file', i) = Server(file, i)
          /\ None \notin Differ(file, file') => Active(file') = Active(file)
        BY DEF Differ
    <3>3. pc[q] = "load" /\ request[q].kind = "edit" /\ request[q].id \notin touched'[q]
          => mem[q] = Server(file', request[q].id)
        BY <3>1, <3>2, RequestKinds DEF Kept
    <3>4. pc[q] = "load" /\ request[q].kind = "show" /\ None \notin touched'[q]
          => mem[q].active = Active(file')
        BY <3>1, <3>2 DEF Kept
    <3>5. pc[q] = "shown" => Printed(request[q], touched'[q], file', mem[q])
        BY <2>1, <3>1, PrintedOn DEF Kept
    <3>6. pc[q] \in {"make", "write", "rename"}
          => Asked(request[q], touched'[q], file', mem[q])
        BY <3>1, AskedOn DEF Kept
    <3> QED
        BY <3>1, <3>3, <3>4, <3>5, <3>6 DEF Kept
  <2>3. ASSUME NEW q \in Procs, q = p \/ pc[q] = "idle" PROVE Kept(q)'
    <3>1. pc'[q] = "idle"
        BY <1>7, <2>1, <2>3 DEF Rename, Ends, IInv, Locals
    <3> QED
        BY <3>1 DEF Kept
  <2> QED
      BY <2>2, <2>3
<1>8. CASE PowerLoss
    BY <1>8 DEF PowerLoss, Kept
<1>9. CASE UNCHANGED vars
    BY <1>9 DEF vars, disk, procs, Kept
<1> QED
    BY <1>1, <1>2, <1>3, <1>4, <1>5, <1>6, <1>7, <1>8, <1>9 DEF Next

LEMMA KeptAlways == Spec => [](IInv /\ \A p \in Procs : Kept(p))
BY InitIInv, StepIInv, InitKept, StepKept, PTL DEF Spec

\* What is printed, or used to connect, is what the file says, unless another
\* process changed it after the request.
THEOREM ShownIsCurrentAlways == Spec => []ShownIsCurrent
<1>1. IInv /\ (\A p \in Procs : Kept(p)) => ShownIsCurrent
  <2> SUFFICES ASSUME \A p \in Procs : Kept(p), NEW p \in Procs,
                      pc[p] = "shown" /\ None \notin touched[p]
               PROVE  /\ Meant(request[p]) \notin touched[p] =>
                            mem[p].profile = Server(file, Meant(request[p]))
                      /\ request[p].kind = "show" =>
                            (mem[p].active <=> Meant(request[p]) = Active(file))
      BY DEF ShownIsCurrent
  <2>1. Meant(request[p]) = MeantIn(request[p], file)
      BY DEF Meant, MeantIn
  <2> QED
      BY <2>1 DEF Kept, Printed
<1> QED
    BY <1>1, KeptAlways, PTL

\* A save loses nothing but what overlapping operations changed.
THEOREM SavesWhatWasAskedAlways == Spec => SavesWhatWasAsked
<1> DEFINE Saves(p) ==
        LET r == request[p]
            known == r.id # None \/ None \notin touched[p]
        IN
        /\ \A i \in Ids \ touched[p] : known =>
             Server(file', i) = IF i = Meant(r) THEN Wanted(r, Server(file, i))
                                ELSE Server(file, i)
        /\ None \notin touched[p] /\ Active(file') # Active(file) =>
             \/ r.kind = "use" \/ (r.kind \in {"add", "edit"} /\ r.use)
             \/ Active(file) = None
             \/ r.kind = "remove" /\ r.id = Active(file)
<1>1. ASSUME NEW p \in Procs, Kept(p), Rename(p) PROVE Saves(p)
  <2>1. file' = mem[p] /\ Asked(request[p], touched[p], file, mem[p])
      BY <1>1 DEF Rename, Kept
  <2>2. Meant(request[p]) = MeantIn(request[p], file)
      BY DEF Meant, MeantIn
  <2> QED
      BY <2>1, <2>2 DEF Asked
<1>2. (IInv /\ \A p \in Procs : Kept(p)) /\ [Next]_vars
      => [\A p \in Procs : Rename(p) => Saves(p)]_vars
    BY <1>1
<1> QED
    BY <1>2, KeptAlways, PTL DEF Spec, SavesWhatWasAsked
=============================================================================
