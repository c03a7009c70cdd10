------------------------- MODULE ClientHost_proofs --------------------------
(***************************************************************************)
(* CleanExit, NoRoutingLoop, LeftoversRemoved and DownRestoresDns for      *)
(* every set of server addresses and platforms, with every failure and     *)
(* every kill the model has; and, under the fairness of FairSpec, that a   *)
(* stop ends the run.                                                      *)
(***************************************************************************)
EXTENDS ClientHost, Integers, TLAPS

\* Where DNS is set up or taken down again.
DnsSteps == {"dns", "dnsState", "dnsSet", "up", "running", "bye", "dnsBack"}

\* Where a route may lead into the tunnel.
TunnelSteps == DnsSteps \union {"bypass", "verify", "ruleBack", "defaultBack"}

\* Where the management rule or its table may be in place.
PolicySteps == {"ruleAdd", "bypass", "dns", "up", "running", "bye", "dnsBack",
                "ruleBack"}

\* Where no host route has been added yet.
BeforeBypass == {"connect", "accept", "tun", "routes", "policy", "tableAdd",
                 "ruleAdd"}

\* Where the run has not come up yet.
BeforeUp == BeforeBypass \union {"bypass", "verify", "dns", "dnsState", "dnsSet",
                                "up"}

\* Where only Linux, or only macOS, comes.
LinuxSteps == {"policy", "tableAdd", "ruleAdd", "ruleBack", "restore"}
MacSteps == {"verify", "dnsState", "dnsSet"}

\* A route leads into the tunnel only where all the routes around it are in
\* place, and what was saved is never the tunnel's own route.
LoopInv ==
    /\ main \cap TunRoutes # {} => pc \in TunnelSteps /\ targets \subseteq bypass
    /\ main \cap TunRoutes # {} /\ pc = "bypass" => platform # "linux" /\ bypassed = targets
    /\ saved \cap TunRoutes = {}
    /\ pc # "bypassBack" => bypassed \subseteq bypass

\* Which steps, routes and DNS a platform has.
PlatformInv ==
    /\ pc \in LinuxSteps => platform = "linux"
    /\ pc \in MacSteps => platform = "darwin"
    /\ pc \in {"dnsState", "dnsSet"} => resolver = "service" /\ manager
    /\ platform = "linux" => main \cap {"low", "high"} = {}
    /\ platform # "linux" => "tun" \notin main /\ saved = {}
    /\ platform # "linux" => "home" \in main /\ ~rule /\ ~table /\ ~managed
    /\ resolver # "service" => stateFile = None
    /\ platform # "linux" /\ resolver # "service" => dns = "home" /\ backup = None

\* What the client knows of its own host routes and of its policy.
OwnInv ==
    /\ pc \in BeforeBypass => bypassed = {}
    /\ pc \in BeforeUp => ~ready
    /\ pc = "off" => targets = {}
    /\ pc \in MacSteps \union {"dns", "up", "running"} => bypassed = targets
    /\ pc \in {"tableAdd", "ruleAdd"} => managed

\* What is on the host is the run's own, and the run knows of it, or was left by
\* a run cut short; a run that came up knows of all there is for its addresses
\* and, if it has a policy, of the policy.
OwnedInv ==
    /\ bypass \subseteq stranded \union bypassed
    /\ ready /\ pc # "off" => bypass \cap targets \subseteq bypassed
    /\ ~leftovers \/ (ready /\ managed /\ pc # "off") =>
          (rule \/ table => managed /\ pc \in PolicySteps)

\* While no run was cut short, what is not as it was can be restored from what
\* the client has kept, and it is not too late to do it.
HomeInv ==
    ~cutShort =>
        /\ ~leftovers /\ stranded = {}
        /\ platform = "linux" => backup # "vpn" /\ backup # "auto" /\ ~strayed
        /\ platform = "linux" /\ dns # "home" =>
              backup = "home" /\ pc \in {"up", "running", "bye", "dnsBack"}
        /\ platform = "linux" /\ pc \in {"policy", "tableAdd", "ruleAdd", "bypass"} =>
              "home" \in saved
        /\ "home" \notin main => "home" \in saved
                                 /\ pc \in TunnelSteps \union {"restore"}
        /\ stateFile # None => manager /\ pc \in DnsSteps
        /\ platform = "darwin" /\ dns # "home" /\ ~strayed => manager /\ pc \in DnsSteps

\* While every run saw the host's own DNS, it can be told from the state file
\* or it is in place.
StateInv ==
    resolver = "service" /\ ~strayed =>
        /\ stateFile \in {"home", "torn", None}
        /\ backup \in {"home", None}
        /\ dns # "home" => stateFile = "home"
        /\ pc \in {"dnsState", "dnsSet"} => dns = "home" /\ backup = "home"
        /\ pc = "dnsSet" => stateFile = "home"

IInv == TypeOK /\ LoopInv /\ PlatformInv /\ OwnInv /\ OwnedInv /\ HomeInv /\ StateInv

\* The invariant holds at the start and says what the properties say.
LEMMA InitIInv == Init => IInv
<1> SUFFICES ASSUME Init PROVE IInv
    OBVIOUS
<1>1. resolver \in {"off", "link", "file", "service"}
      /\ (resolver = "service" => platform = "darwin")
    BY PlatformsAssumption DEF Init
<1> QED
    BY <1>1, NoneAssumption
    DEF Init, IInv, TypeOK, LoopInv, PlatformInv, OwnInv, OwnedInv, HomeInv, StateInv,
        Steps, Tasks, TunRoutes, Contents, TunnelSteps, DnsSteps, PolicySteps,
        BeforeBypass, BeforeUp, LinuxSteps, MacSteps

LEMMA IInvImplies == IInv => NoRoutingLoop /\ CleanExit /\ LeftoversRemoved
BY DEF IInv, TypeOK, LoopInv, PlatformInv, OwnInv, OwnedInv, HomeInv, NoRoutingLoop,
   CleanExit, LeftoversRemoved, AtHome, TunnelSteps, DnsSteps, PolicySteps, TunRoutes

\* Every step keeps it.
LEMMA StepIInv == IInv /\ [Next]_vars => IInv'
<1> SUFFICES ASSUME IInv, [Next]_vars PROVE IInv'
    OBVIOUS
<1> USE NoneAssumption DEF IInv, TypeOK, LoopInv, PlatformInv, OwnInv, OwnedInv,
        HomeInv, StateInv, Steps, Tasks, TunRoutes, Contents, TunnelSteps, DnsSteps,
        PolicySteps, BeforeBypass, BeforeUp, LinuxSteps, MacSteps, config, host, signals,
        kept, own, history, Goto
<1>1. CASE Start
  <2>1. TypeOK'
    <3> HIDE DEF LoopInv, PlatformInv, OwnInv, OwnedInv, HomeInv, StateInv, Tasks
    <3>1. platform' \in Platforms /\ metricZero' \in BOOLEAN
          /\ resolver' \in {"off", "link", "file", "service"}
          /\ (resolver' = "service" => platform' = "darwin")
        BY <1>1 DEF Start
    <3>2. main' \subseteq {"home"} \union TunRoutes
          /\ saved' \subseteq {"home"} \union TunRoutes
        BY <1>1 DEF Start
    <3>3. rule' \in BOOLEAN /\ table' \in BOOLEAN /\ managed' \in BOOLEAN
        BY <1>1 DEF Start
    <3>4. bypass' \subseteq ServerIps /\ targets' \subseteq ServerIps
          /\ bypassed' \subseteq targets' /\ stranded' \subseteq ServerIps
        BY <1>1 DEF Start
    <3>5. dns' \in Contents /\ backup' \in Contents \union {None}
          /\ stateFile' \in Contents \union {None, "torn"}
        BY <1>1 DEF Start
    <3>6. ready' \in BOOLEAN /\ stopFile' \in BOOLEAN /\ stop' \in BOOLEAN
        BY <1>1 DEF Start
    <3>7. finished' \subseteq Tasks
        BY <1>1 DEF Start, Tasks
    <3>8. manager' \in BOOLEAN /\ cutShort' \in BOOLEAN
          /\ leftovers' \in BOOLEAN /\ strayed' \in BOOLEAN
        BY <1>1 DEF Start
    <3>9. pc' \in Steps /\ (main' \cap TunRoutes # {} => pc' # "off")
        BY <1>1 DEF Start
    <3> QED
        BY ONLY <3>1, <3>2, <3>3, <3>4, <3>5, <3>6, <3>7, <3>8, <3>9 DEF TypeOK
  <2>2. LoopInv'
    BY <1>1 DEF Start
  <2>3. PlatformInv'
    BY <1>1 DEF Start
  <2>4. OwnInv'
    BY <1>1 DEF Start
  <2>5. OwnedInv'
    BY <1>1 DEF Start
  <2>6. HomeInv'
    BY <1>1 DEF Start
  <2>7. StateInv'
    BY <1>1 DEF Start
  <2> QED
    BY <2>1, <2>2, <2>3, <2>4, <2>5, <2>6, <2>7
<1>2. CASE OpenControl
    BY <1>2 DEF OpenControl
<1>3. CASE ConnectFails
  <2>1. TypeOK'
    <3> HIDE DEF PlatformInv, OwnInv, OwnedInv, HomeInv, StateInv, Tasks
    <3>1. platform' \in Platforms /\ metricZero' \in BOOLEAN
          /\ resolver' \in {"off", "link", "file", "service"}
          /\ (resolver' = "service" => platform' = "darwin")
        BY <1>3 DEF ConnectFails, ProcessEnds
    <3>2. main' \subseteq {"home"} \union TunRoutes
          /\ saved' \subseteq {"home"} \union TunRoutes
        BY <1>3 DEF ConnectFails, ProcessEnds
    <3>3. rule' \in BOOLEAN /\ table' \in BOOLEAN /\ managed' \in BOOLEAN
        BY <1>3 DEF ConnectFails, ProcessEnds
    <3>4. bypass' \subseteq ServerIps /\ targets' \subseteq ServerIps
          /\ bypassed' \subseteq targets' /\ stranded' \subseteq ServerIps
        BY <1>3 DEF ConnectFails, ProcessEnds
    <3>5. dns' \in Contents /\ backup' \in Contents \union {None}
          /\ stateFile' \in Contents \union {None, "torn"}
        BY <1>3 DEF ConnectFails, ProcessEnds
    <3>6. ready' \in BOOLEAN /\ stopFile' \in BOOLEAN /\ stop' \in BOOLEAN
        BY <1>3 DEF ConnectFails, ProcessEnds
    <3>7. finished' \subseteq Tasks
        BY <1>3 DEF ConnectFails, ProcessEnds, Tasks
    <3>8. manager' \in BOOLEAN /\ cutShort' \in BOOLEAN
          /\ leftovers' \in BOOLEAN /\ strayed' \in BOOLEAN
        BY <1>3 DEF ConnectFails, ProcessEnds
    <3>9. pc' \in Steps /\ (main' \cap TunRoutes # {} => pc' # "off")
        BY <1>3 DEF ConnectFails, ProcessEnds
    <3> QED
        BY ONLY <3>1, <3>2, <3>3, <3>4, <3>5, <3>6, <3>7, <3>8, <3>9 DEF TypeOK
  <2>2. LoopInv'
    BY <1>3 DEF ConnectFails, ProcessEnds
  <2>3. PlatformInv'
    BY <1>3 DEF ConnectFails, ProcessEnds
  <2>4. OwnInv'
    BY <1>3 DEF ConnectFails, ProcessEnds
  <2>5. OwnedInv'
    BY <1>3 DEF ConnectFails, ProcessEnds
  <2>6. HomeInv'
    BY <1>3 DEF ConnectFails, ProcessEnds
  <2>7. StateInv'
    BY <1>3 DEF ConnectFails, ProcessEnds
  <2> QED
    BY <2>1, <2>2, <2>3, <2>4, <2>5, <2>6, <2>7
<1>4. CASE Accepted
    BY <1>4 DEF Accepted
<1>5. CASE OpenTun
  <2>1. TypeOK'
    <3> HIDE DEF LoopInv, PlatformInv, OwnedInv, HomeInv, StateInv, Tasks
    <3>1. platform' \in Platforms /\ metricZero' \in BOOLEAN
          /\ resolver' \in {"off", "link", "file", "service"}
          /\ (resolver' = "service" => platform' = "darwin")
        BY <1>5 DEF OpenTun
    <3>2. main' \subseteq {"home"} \union TunRoutes
          /\ saved' \subseteq {"home"} \union TunRoutes
        BY <1>5 DEF OpenTun
    <3>3. rule' \in BOOLEAN /\ table' \in BOOLEAN /\ managed' \in BOOLEAN
        BY <1>5 DEF OpenTun
    <3>4. bypass' \subseteq ServerIps /\ targets' \subseteq ServerIps
          /\ bypassed' \subseteq targets' /\ stranded' \subseteq ServerIps
        BY <1>5 DEF OpenTun
    <3>5. dns' \in Contents /\ backup' \in Contents \union {None}
          /\ stateFile' \in Contents \union {None, "torn"}
        BY <1>5 DEF OpenTun
    <3>6. ready' \in BOOLEAN /\ stopFile' \in BOOLEAN /\ stop' \in BOOLEAN
        BY <1>5 DEF OpenTun
    <3>7. finished' \subseteq Tasks
        BY <1>5 DEF OpenTun, Tasks
    <3>8. manager' \in BOOLEAN /\ cutShort' \in BOOLEAN
          /\ leftovers' \in BOOLEAN /\ strayed' \in BOOLEAN
        BY <1>5 DEF OpenTun
    <3>9. pc' \in Steps /\ (main' \cap TunRoutes # {} => pc' # "off")
        BY <1>5 DEF OpenTun
    <3> QED
        BY ONLY <3>1, <3>2, <3>3, <3>4, <3>5, <3>6, <3>7, <3>8, <3>9 DEF TypeOK
  <2>2. LoopInv'
    BY <1>5 DEF OpenTun
  <2>3. PlatformInv'
    BY <1>5 DEF OpenTun
  <2>4. OwnInv'
    BY <1>5 DEF OpenTun
  <2>5. OwnedInv'
    BY <1>5 DEF OpenTun
  <2>6. HomeInv'
    BY <1>5 DEF OpenTun
  <2>7. StateInv'
    BY <1>5 DEF OpenTun
  <2> QED
    BY <2>1, <2>2, <2>3, <2>4, <2>5, <2>6, <2>7
<1>6. CASE ReadDefaults
  <2>1. TypeOK'
    BY <1>6 DEF ReadDefaults
  <2>2. LoopInv'
    BY <1>6 DEF ReadDefaults
  <2>3. PlatformInv'
    BY <1>6 DEF ReadDefaults
  <2>4. OwnInv'
    BY <1>6 DEF ReadDefaults
  <2>5. OwnedInv'
    BY <1>6 DEF ReadDefaults
  <2>6. HomeInv'
    BY <1>6 DEF ReadDefaults
  <2>7. StateInv'
    BY <1>6 DEF ReadDefaults
  <2> QED
    BY <2>1, <2>2, <2>3, <2>4, <2>5, <2>6, <2>7
<1>7. CASE FlushPolicy
  <2>1. TypeOK'
    <3> HIDE DEF LoopInv, PlatformInv, OwnInv, OwnedInv, HomeInv, StateInv, Tasks
    <3>1. platform' \in Platforms /\ metricZero' \in BOOLEAN
          /\ resolver' \in {"off", "link", "file", "service"}
          /\ (resolver' = "service" => platform' = "darwin")
        BY <1>7 DEF FlushPolicy, ServerHasRoute
    <3>2. main' \subseteq {"home"} \union TunRoutes
          /\ saved' \subseteq {"home"} \union TunRoutes
        BY <1>7 DEF FlushPolicy, ServerHasRoute
    <3>3. rule' \in BOOLEAN /\ table' \in BOOLEAN /\ managed' \in BOOLEAN
        BY <1>7 DEF FlushPolicy, ServerHasRoute
    <3>4. bypass' \subseteq ServerIps /\ targets' \subseteq ServerIps
          /\ bypassed' \subseteq targets' /\ stranded' \subseteq ServerIps
        BY <1>7 DEF FlushPolicy, ServerHasRoute
    <3>5. dns' \in Contents /\ backup' \in Contents \union {None}
          /\ stateFile' \in Contents \union {None, "torn"}
        BY <1>7 DEF FlushPolicy, ServerHasRoute
    <3>6. ready' \in BOOLEAN /\ stopFile' \in BOOLEAN /\ stop' \in BOOLEAN
        BY <1>7 DEF FlushPolicy, ServerHasRoute
    <3>7. finished' \subseteq Tasks
        BY <1>7 DEF FlushPolicy, ServerHasRoute, Tasks
    <3>8. manager' \in BOOLEAN /\ cutShort' \in BOOLEAN
          /\ leftovers' \in BOOLEAN /\ strayed' \in BOOLEAN
        BY <1>7 DEF FlushPolicy, ServerHasRoute
    <3>9. pc' \in Steps /\ (main' \cap TunRoutes # {} => pc' # "off")
        BY <1>7 DEF FlushPolicy, ServerHasRoute
    <3> QED
        BY ONLY <3>1, <3>2, <3>3, <3>4, <3>5, <3>6, <3>7, <3>8, <3>9 DEF TypeOK
  <2>2. LoopInv'
    BY <1>7 DEF FlushPolicy, ServerHasRoute
  <2>3. PlatformInv'
    BY <1>7 DEF FlushPolicy, ServerHasRoute
  <2>4. OwnInv'
    BY <1>7 DEF FlushPolicy, ServerHasRoute
  <2>5. OwnedInv'
    BY <1>7 DEF FlushPolicy, ServerHasRoute
  <2>6. HomeInv'
    BY <1>7 DEF FlushPolicy, ServerHasRoute
  <2>7. StateInv'
    BY <1>7 DEF FlushPolicy, ServerHasRoute
  <2> QED
    BY <2>1, <2>2, <2>3, <2>4, <2>5, <2>6, <2>7
<1>8. CASE NoPolicy
  <2>1. TypeOK'
    BY <1>8 DEF NoPolicy, ServerHasRoute
  <2>2. LoopInv'
    BY <1>8 DEF NoPolicy, ServerHasRoute
  <2>3. PlatformInv'
    BY <1>8 DEF NoPolicy, ServerHasRoute
  <2>4. OwnInv'
    BY <1>8 DEF NoPolicy, ServerHasRoute
  <2>5. OwnedInv'
    BY <1>8 DEF NoPolicy, ServerHasRoute
  <2>6. HomeInv'
    BY <1>8 DEF NoPolicy, ServerHasRoute
  <2>7. StateInv'
    BY <1>8 DEF NoPolicy, ServerHasRoute
  <2> QED
    BY <2>1, <2>2, <2>3, <2>4, <2>5, <2>6, <2>7
<1>9. CASE AddTable
  <2>1. TypeOK'
    BY <1>9 DEF AddTable
  <2>2. LoopInv'
    BY <1>9 DEF AddTable
  <2>3. PlatformInv'
    BY <1>9 DEF AddTable
  <2>4. OwnInv'
    BY <1>9 DEF AddTable
  <2>5. OwnedInv'
    BY <1>9 DEF AddTable
  <2>6. HomeInv'
    BY <1>9 DEF AddTable
  <2>7. StateInv'
    BY <1>9 DEF AddTable
  <2> QED
    BY <2>1, <2>2, <2>3, <2>4, <2>5, <2>6, <2>7
<1>10. CASE AddRule
  <2>1. TypeOK'
    BY <1>10 DEF AddRule
  <2>2. LoopInv'
    BY <1>10 DEF AddRule
  <2>3. PlatformInv'
    BY <1>10 DEF AddRule
  <2>4. OwnInv'
    BY <1>10 DEF AddRule
  <2>5. OwnedInv'
    BY <1>10 DEF AddRule
  <2>6. HomeInv'
    BY <1>10 DEF AddRule
  <2>7. StateInv'
    BY <1>10 DEF AddRule
  <2> QED
    BY <2>1, <2>2, <2>3, <2>4, <2>5, <2>6, <2>7
<1>11. ASSUME NEW ip \in ServerIps, AddBypass(ip) PROVE IInv'
  <2>1. TypeOK'
    BY <1>11 DEF AddBypass, TakeOver
  <2>2. LoopInv'
    BY <1>11 DEF AddBypass, TakeOver
  <2>3. PlatformInv'
    BY <1>11 DEF AddBypass, TakeOver
  <2>4. OwnInv'
    BY <1>11 DEF AddBypass, TakeOver
  <2>5. OwnedInv'
    BY <1>11 DEF AddBypass, TakeOver
  <2>6. HomeInv'
    BY <1>11 DEF AddBypass, TakeOver
  <2>7. StateInv'
    BY <1>11 DEF AddBypass, TakeOver
  <2> QED
    BY <2>1, <2>2, <2>3, <2>4, <2>5, <2>6, <2>7
<1>12. CASE ReplaceDefault
  <2>1. TypeOK'
    BY <1>12 DEF ReplaceDefault, AllBypassed
  <2>2. LoopInv'
    BY <1>12 DEF ReplaceDefault, AllBypassed
  <2>3. PlatformInv'
    BY <1>12 DEF ReplaceDefault, AllBypassed
  <2>4. OwnInv'
    BY <1>12 DEF ReplaceDefault, AllBypassed
  <2>5. OwnedInv'
    BY <1>12 DEF ReplaceDefault, AllBypassed
  <2>6. HomeInv'
    BY <1>12 DEF ReplaceDefault, AllBypassed
  <2>7. StateInv'
    BY <1>12 DEF ReplaceDefault, AllBypassed
  <2> QED
    BY <2>1, <2>2, <2>3, <2>4, <2>5, <2>6, <2>7
<1>13. CASE SetupDns
  <2>1. TypeOK'
    BY <1>13 DEF SetupDns
  <2>2. LoopInv'
    BY <1>13 DEF SetupDns
  <2>3. PlatformInv'
    BY <1>13 DEF SetupDns
  <2>4. OwnInv'
    BY <1>13 DEF SetupDns
  <2>5. OwnedInv'
    BY <1>13 DEF SetupDns
  <2>6. HomeInv'
    BY <1>13 DEF SetupDns
  <2>7. StateInv'
    BY <1>13 DEF SetupDns
  <2> QED
    BY <2>1, <2>2, <2>3, <2>4, <2>5, <2>6, <2>7
<1>14. CASE WriteResolvConf
  <2>1. TypeOK'
    BY <1>14 DEF WriteResolvConf, Kept
  <2>2. LoopInv'
    BY <1>14 DEF WriteResolvConf, Kept
  <2>3. PlatformInv'
    BY <1>14 DEF WriteResolvConf, Kept
  <2>4. OwnInv'
    BY <1>14 DEF WriteResolvConf, Kept
  <2>5. OwnedInv'
    BY <1>14 DEF WriteResolvConf, Kept
  <2>6. HomeInv'
    BY <1>14 DEF WriteResolvConf, Kept
  <2>7. StateInv'
    BY <1>14 DEF WriteResolvConf, Kept
  <2> QED
    BY <2>1, <2>2, <2>3, <2>4, <2>5, <2>6, <2>7
<1>15. CASE MacReadDefault
    BY <1>15 DEF MacReadDefault
<1>16. ASSUME NEW ip \in ServerIps, MacAddBypass(ip) PROVE IInv'
  <2>1. TypeOK'
    BY <1>16 DEF MacAddBypass, TakeOver
  <2>2. LoopInv'
    BY <1>16 DEF MacAddBypass, TakeOver
  <2>3. PlatformInv'
    BY <1>16 DEF MacAddBypass, TakeOver
  <2>4. OwnInv'
    BY <1>16 DEF MacAddBypass, TakeOver
  <2>5. OwnedInv'
    BY <1>16 DEF MacAddBypass, TakeOver
  <2>6. HomeInv'
    BY <1>16 DEF MacAddBypass, TakeOver
  <2>7. StateInv'
    BY <1>16 DEF MacAddBypass, TakeOver
  <2> QED
    BY <2>1, <2>2, <2>3, <2>4, <2>5, <2>6, <2>7
<1>17. ASSUME NEW ip \in ServerIps, MacAddBypassFails(ip) PROVE IInv'
  <2>1. TypeOK'
    BY <1>17 DEF MacAddBypassFails, LoseRoute
  <2>2. LoopInv'
    BY <1>17 DEF MacAddBypassFails, LoseRoute
  <2>3. PlatformInv'
    BY <1>17 DEF MacAddBypassFails, LoseRoute
  <2>4. OwnInv'
    BY <1>17 DEF MacAddBypassFails, LoseRoute
  <2>5. OwnedInv'
    BY <1>17 DEF MacAddBypassFails, LoseRoute
  <2>6. HomeInv'
    BY <1>17 DEF MacAddBypassFails, LoseRoute
  <2>7. StateInv'
    BY <1>17 DEF MacAddBypassFails, LoseRoute
  <2> QED
    BY <2>1, <2>2, <2>3, <2>4, <2>5, <2>6, <2>7
<1>18. CASE MacAddSplit
  <2>1. TypeOK'
    <3> HIDE DEF LoopInv, PlatformInv, OwnInv, OwnedInv, HomeInv, StateInv, Tasks
    <3>1. platform' \in Platforms /\ metricZero' \in BOOLEAN
          /\ resolver' \in {"off", "link", "file", "service"}
          /\ (resolver' = "service" => platform' = "darwin")
        BY <1>18 DEF MacAddSplit, AddHalf, AllBypassed
    <3>2. main' \subseteq {"home"} \union TunRoutes
          /\ saved' \subseteq {"home"} \union TunRoutes
        BY <1>18 DEF MacAddSplit, AddHalf, AllBypassed
    <3>3. rule' \in BOOLEAN /\ table' \in BOOLEAN /\ managed' \in BOOLEAN
        BY <1>18 DEF MacAddSplit, AddHalf, AllBypassed
    <3>4. bypass' \subseteq ServerIps /\ targets' \subseteq ServerIps
          /\ bypassed' \subseteq targets' /\ stranded' \subseteq ServerIps
        BY <1>18 DEF MacAddSplit, AddHalf, AllBypassed
    <3>5. dns' \in Contents /\ backup' \in Contents \union {None}
          /\ stateFile' \in Contents \union {None, "torn"}
        BY <1>18 DEF MacAddSplit, AddHalf, AllBypassed
    <3>6. ready' \in BOOLEAN /\ stopFile' \in BOOLEAN /\ stop' \in BOOLEAN
        BY <1>18 DEF MacAddSplit, AddHalf, AllBypassed
    <3>7. finished' \subseteq Tasks
        BY <1>18 DEF MacAddSplit, AddHalf, AllBypassed, Tasks
    <3>8. manager' \in BOOLEAN /\ cutShort' \in BOOLEAN
          /\ leftovers' \in BOOLEAN /\ strayed' \in BOOLEAN
        BY <1>18 DEF MacAddSplit, AddHalf, AllBypassed
    <3>9. pc' \in Steps /\ (main' \cap TunRoutes # {} => pc' # "off")
        BY <1>18 DEF MacAddSplit, AddHalf, AllBypassed
    <3> QED
        BY ONLY <3>1, <3>2, <3>3, <3>4, <3>5, <3>6, <3>7, <3>8, <3>9 DEF TypeOK
  <2>2. LoopInv'
    BY <1>18 DEF MacAddSplit, AddHalf, AllBypassed
  <2>3. PlatformInv'
    BY <1>18 DEF MacAddSplit, AddHalf, AllBypassed
  <2>4. OwnInv'
    BY <1>18 DEF MacAddSplit, AddHalf, AllBypassed
  <2>5. OwnedInv'
    BY <1>18 DEF MacAddSplit, AddHalf, AllBypassed
  <2>6. HomeInv'
    BY <1>18 DEF MacAddSplit, AddHalf, AllBypassed
  <2>7. StateInv'
    BY <1>18 DEF MacAddSplit, AddHalf, AllBypassed
  <2> QED
    BY <2>1, <2>2, <2>3, <2>4, <2>5, <2>6, <2>7
<1>19. CASE MacVerify
    BY <1>19 DEF MacVerify
<1>20. CASE MacNoService
  <2>1. TypeOK'
    BY <1>20 DEF MacNoService
  <2>2. LoopInv'
    BY <1>20 DEF MacNoService
  <2>3. PlatformInv'
    BY <1>20 DEF MacNoService
  <2>4. OwnInv'
    BY <1>20 DEF MacNoService
  <2>5. OwnedInv'
    BY <1>20 DEF MacNoService
  <2>6. HomeInv'
    BY <1>20 DEF MacNoService
  <2>7. StateInv'
    BY <1>20 DEF MacNoService
  <2> QED
    BY <2>1, <2>2, <2>3, <2>4, <2>5, <2>6, <2>7
<1>21. ASSUME NEW readable \in BOOLEAN, MacReadDns(readable) PROVE IInv'
  <2>1. TypeOK'
    BY <1>21 DEF MacReadDns
  <2>2. LoopInv'
    BY <1>21 DEF MacReadDns
  <2>3. PlatformInv'
    BY <1>21 DEF MacReadDns
  <2>4. OwnInv'
    BY <1>21 DEF MacReadDns
  <2>5. OwnedInv'
    BY <1>21 DEF MacReadDns
  <2>6. HomeInv'
    BY <1>21 DEF MacReadDns
  <2>7. StateInv'
    BY <1>21 DEF MacReadDns
  <2> QED
    BY <2>1, <2>2, <2>3, <2>4, <2>5, <2>6, <2>7
<1>22. CASE MacWriteState
  <2>1. TypeOK'
    BY <1>22 DEF MacWriteState
  <2>2. LoopInv'
    BY <1>22 DEF MacWriteState
  <2>3. PlatformInv'
    BY <1>22 DEF MacWriteState
  <2>4. OwnInv'
    BY <1>22 DEF MacWriteState
  <2>5. OwnedInv'
    BY <1>22 DEF MacWriteState
  <2>6. HomeInv'
    BY <1>22 DEF MacWriteState
  <2>7. StateInv'
    BY <1>22 DEF MacWriteState
  <2> QED
    BY <2>1, <2>2, <2>3, <2>4, <2>5, <2>6, <2>7
<1>23. CASE MacSetDns
  <2>1. TypeOK'
    BY <1>23 DEF MacSetDns
  <2>2. LoopInv'
    BY <1>23 DEF MacSetDns
  <2>3. PlatformInv'
    BY <1>23 DEF MacSetDns
  <2>4. OwnInv'
    BY <1>23 DEF MacSetDns
  <2>5. OwnedInv'
    BY <1>23 DEF MacSetDns
  <2>6. HomeInv'
    BY <1>23 DEF MacSetDns
  <2>7. StateInv'
    BY <1>23 DEF MacSetDns
  <2> QED
    BY <2>1, <2>2, <2>3, <2>4, <2>5, <2>6, <2>7
<1>24. CASE WindowsReadDefault
    BY <1>24 DEF WindowsReadDefault
<1>25. ASSUME NEW ip \in ServerIps, WindowsAddBypass(ip) PROVE IInv'
  <2>1. TypeOK'
    BY <1>25 DEF WindowsAddBypass, TakeOver
  <2>2. LoopInv'
    BY <1>25 DEF WindowsAddBypass, TakeOver
  <2>3. PlatformInv'
    BY <1>25 DEF WindowsAddBypass, TakeOver
  <2>4. OwnInv'
    BY <1>25 DEF WindowsAddBypass, TakeOver
  <2>5. OwnedInv'
    BY <1>25 DEF WindowsAddBypass, TakeOver
  <2>6. HomeInv'
    BY <1>25 DEF WindowsAddBypass, TakeOver
  <2>7. StateInv'
    BY <1>25 DEF WindowsAddBypass, TakeOver
  <2> QED
    BY <2>1, <2>2, <2>3, <2>4, <2>5, <2>6, <2>7
<1>26. ASSUME NEW ip \in ServerIps, WindowsAddBypassFails(ip) PROVE IInv'
  <2>1. TypeOK'
    BY <1>26 DEF WindowsAddBypassFails, LoseRoute
  <2>2. LoopInv'
    BY <1>26 DEF WindowsAddBypassFails, LoseRoute
  <2>3. PlatformInv'
    BY <1>26 DEF WindowsAddBypassFails, LoseRoute
  <2>4. OwnInv'
    BY <1>26 DEF WindowsAddBypassFails, LoseRoute
  <2>5. OwnedInv'
    BY <1>26 DEF WindowsAddBypassFails, LoseRoute
  <2>6. HomeInv'
    BY <1>26 DEF WindowsAddBypassFails, LoseRoute
  <2>7. StateInv'
    BY <1>26 DEF WindowsAddBypassFails, LoseRoute
  <2> QED
    BY <2>1, <2>2, <2>3, <2>4, <2>5, <2>6, <2>7
<1>27. CASE WindowsAddSplit
  <2>1. TypeOK'
    <3> HIDE DEF LoopInv, PlatformInv, OwnInv, OwnedInv, HomeInv, StateInv, Tasks
    <3>1. platform' \in Platforms /\ metricZero' \in BOOLEAN
          /\ resolver' \in {"off", "link", "file", "service"}
          /\ (resolver' = "service" => platform' = "darwin")
        BY <1>27 DEF WindowsAddSplit, AddHalf, AllBypassed
    <3>2. main' \subseteq {"home"} \union TunRoutes
          /\ saved' \subseteq {"home"} \union TunRoutes
        BY <1>27 DEF WindowsAddSplit, AddHalf, AllBypassed
    <3>3. rule' \in BOOLEAN /\ table' \in BOOLEAN /\ managed' \in BOOLEAN
        BY <1>27 DEF WindowsAddSplit, AddHalf, AllBypassed
    <3>4. bypass' \subseteq ServerIps /\ targets' \subseteq ServerIps
          /\ bypassed' \subseteq targets' /\ stranded' \subseteq ServerIps
        BY <1>27 DEF WindowsAddSplit, AddHalf, AllBypassed
    <3>5. dns' \in Contents /\ backup' \in Contents \union {None}
          /\ stateFile' \in Contents \union {None, "torn"}
        BY <1>27 DEF WindowsAddSplit, AddHalf, AllBypassed
    <3>6. ready' \in BOOLEAN /\ stopFile' \in BOOLEAN /\ stop' \in BOOLEAN
        BY <1>27 DEF WindowsAddSplit, AddHalf, AllBypassed
    <3>7. finished' \subseteq Tasks
        BY <1>27 DEF WindowsAddSplit, AddHalf, AllBypassed, Tasks
    <3>8. manager' \in BOOLEAN /\ cutShort' \in BOOLEAN
          /\ leftovers' \in BOOLEAN /\ strayed' \in BOOLEAN
        BY <1>27 DEF WindowsAddSplit, AddHalf, AllBypassed
    <3>9. pc' \in Steps /\ (main' \cap TunRoutes # {} => pc' # "off")
        BY <1>27 DEF WindowsAddSplit, AddHalf, AllBypassed
    <3> QED
        BY ONLY <3>1, <3>2, <3>3, <3>4, <3>5, <3>6, <3>7, <3>8, <3>9 DEF TypeOK
  <2>2. LoopInv'
    BY <1>27 DEF WindowsAddSplit, AddHalf, AllBypassed
  <2>3. PlatformInv'
    BY <1>27 DEF WindowsAddSplit, AddHalf, AllBypassed
  <2>4. OwnInv'
    BY <1>27 DEF WindowsAddSplit, AddHalf, AllBypassed
  <2>5. OwnedInv'
    BY <1>27 DEF WindowsAddSplit, AddHalf, AllBypassed
  <2>6. HomeInv'
    BY <1>27 DEF WindowsAddSplit, AddHalf, AllBypassed
  <2>7. StateInv'
    BY <1>27 DEF WindowsAddSplit, AddHalf, AllBypassed
  <2> QED
    BY <2>1, <2>2, <2>3, <2>4, <2>5, <2>6, <2>7
<1>28. CASE Raises
  <2>1. TypeOK'
    BY <1>28 DEF Raises, CutOff
  <2>2. LoopInv'
    BY <1>28 DEF Raises, CutOff
  <2>3. PlatformInv'
    BY <1>28 DEF Raises, CutOff
  <2>4. OwnInv'
    BY <1>28 DEF Raises, CutOff
  <2>5. OwnedInv'
    BY <1>28 DEF Raises, CutOff
  <2>6. HomeInv'
    BY <1>28 DEF Raises, CutOff
  <2>7. StateInv'
    BY <1>28 DEF Raises, CutOff
  <2> QED
    BY <2>1, <2>2, <2>3, <2>4, <2>5, <2>6, <2>7
<1>29. CASE GoesUp
  <2>1. TypeOK'
    BY <1>29 DEF GoesUp
  <2>2. LoopInv'
    BY <1>29 DEF GoesUp
  <2>3. PlatformInv'
    BY <1>29 DEF GoesUp
  <2>4. OwnInv'
    BY <1>29 DEF GoesUp
  <2>5. OwnedInv'
    BY <1>29 DEF GoesUp
  <2>6. HomeInv'
    BY <1>29 DEF GoesUp
  <2>7. StateInv'
    BY <1>29 DEF GoesUp
  <2> QED
    BY <2>1, <2>2, <2>3, <2>4, <2>5, <2>6, <2>7
<1>30. CASE Signal
    BY <1>30 DEF Signal
<1>31. CASE TouchStopFile
    BY <1>31 DEF TouchStopFile
<1>32. CASE StopFileTask
  <2>1. TypeOK'
    <3> HIDE DEF LoopInv, PlatformInv, OwnInv, OwnedInv, HomeInv, StateInv, Tasks
    <3>1. platform' \in Platforms /\ metricZero' \in BOOLEAN
          /\ resolver' \in {"off", "link", "file", "service"}
          /\ (resolver' = "service" => platform' = "darwin")
        BY <1>32 DEF StopFileTask
    <3>2. main' \subseteq {"home"} \union TunRoutes
          /\ saved' \subseteq {"home"} \union TunRoutes
        BY <1>32 DEF StopFileTask
    <3>3. rule' \in BOOLEAN /\ table' \in BOOLEAN /\ managed' \in BOOLEAN
        BY <1>32 DEF StopFileTask
    <3>4. bypass' \subseteq ServerIps /\ targets' \subseteq ServerIps
          /\ bypassed' \subseteq targets' /\ stranded' \subseteq ServerIps
        BY <1>32 DEF StopFileTask
    <3>5. dns' \in Contents /\ backup' \in Contents \union {None}
          /\ stateFile' \in Contents \union {None, "torn"}
        BY <1>32 DEF StopFileTask
    <3>6. ready' \in BOOLEAN /\ stopFile' \in BOOLEAN /\ stop' \in BOOLEAN
        BY <1>32 DEF StopFileTask
    <3>7. finished' \subseteq Tasks
        BY <1>32 DEF StopFileTask, Tasks
    <3>8. manager' \in BOOLEAN /\ cutShort' \in BOOLEAN
          /\ leftovers' \in BOOLEAN /\ strayed' \in BOOLEAN
        BY <1>32 DEF StopFileTask
    <3>9. pc' \in Steps /\ (main' \cap TunRoutes # {} => pc' # "off")
        BY <1>32 DEF StopFileTask
    <3> QED
        BY ONLY <3>1, <3>2, <3>3, <3>4, <3>5, <3>6, <3>7, <3>8, <3>9 DEF TypeOK
  <2>2. LoopInv'
    BY <1>32 DEF StopFileTask
  <2>3. PlatformInv'
    BY <1>32 DEF StopFileTask
  <2>4. OwnInv'
    BY <1>32 DEF StopFileTask
  <2>5. OwnedInv'
    BY <1>32 DEF StopFileTask
  <2>6. HomeInv'
    BY <1>32 DEF StopFileTask
  <2>7. StateInv'
    BY <1>32 DEF StopFileTask
  <2> QED
    BY <2>1, <2>2, <2>3, <2>4, <2>5, <2>6, <2>7
<1>33. CASE StopTask
    BY <1>33 DEF StopTask
<1>34. CASE TaskFails
  <2>1. TypeOK'
    <3> HIDE DEF LoopInv, PlatformInv, OwnInv, OwnedInv, HomeInv, StateInv, Tasks
    <3>1. platform' \in Platforms /\ metricZero' \in BOOLEAN
          /\ resolver' \in {"off", "link", "file", "service"}
          /\ (resolver' = "service" => platform' = "darwin")
        BY <1>34 DEF TaskFails
    <3>2. main' \subseteq {"home"} \union TunRoutes
          /\ saved' \subseteq {"home"} \union TunRoutes
        BY <1>34 DEF TaskFails
    <3>3. rule' \in BOOLEAN /\ table' \in BOOLEAN /\ managed' \in BOOLEAN
        BY <1>34 DEF TaskFails
    <3>4. bypass' \subseteq ServerIps /\ targets' \subseteq ServerIps
          /\ bypassed' \subseteq targets' /\ stranded' \subseteq ServerIps
        BY <1>34 DEF TaskFails
    <3>5. dns' \in Contents /\ backup' \in Contents \union {None}
          /\ stateFile' \in Contents \union {None, "torn"}
        BY <1>34 DEF TaskFails
    <3>6. ready' \in BOOLEAN /\ stopFile' \in BOOLEAN /\ stop' \in BOOLEAN
        BY <1>34 DEF TaskFails
    <3>7. finished' \subseteq Tasks
        BY <1>34 DEF TaskFails, Tasks
    <3>8. manager' \in BOOLEAN /\ cutShort' \in BOOLEAN
          /\ leftovers' \in BOOLEAN /\ strayed' \in BOOLEAN
        BY <1>34 DEF TaskFails
    <3>9. pc' \in Steps /\ (main' \cap TunRoutes # {} => pc' # "off")
        BY <1>34 DEF TaskFails
    <3> QED
        BY ONLY <3>1, <3>2, <3>3, <3>4, <3>5, <3>6, <3>7, <3>8, <3>9 DEF TypeOK
  <2>2. LoopInv'
    BY <1>34 DEF TaskFails
  <2>3. PlatformInv'
    BY <1>34 DEF TaskFails
  <2>4. OwnInv'
    BY <1>34 DEF TaskFails
  <2>5. OwnedInv'
    BY <1>34 DEF TaskFails
  <2>6. HomeInv'
    BY <1>34 DEF TaskFails
  <2>7. StateInv'
    BY <1>34 DEF TaskFails
  <2> QED
    BY <2>1, <2>2, <2>3, <2>4, <2>5, <2>6, <2>7
<1>35. CASE RunEnds
    BY <1>35 DEF RunEnds
<1>36. CASE SayBye
    BY <1>36 DEF SayBye
<1>37. CASE RestoreDns
  <2>1. TypeOK'
    BY <1>37 DEF RestoreDns
  <2>2. LoopInv'
    BY <1>37 DEF RestoreDns
  <2>3. PlatformInv'
    BY <1>37 DEF RestoreDns
  <2>4. OwnInv'
    BY <1>37 DEF RestoreDns
  <2>5. OwnedInv'
    BY <1>37 DEF RestoreDns
  <2>6. HomeInv'
    BY <1>37 DEF RestoreDns
  <2>7. StateInv'
    BY <1>37 DEF RestoreDns
  <2> QED
    BY <2>1, <2>2, <2>3, <2>4, <2>5, <2>6, <2>7
<1>38. CASE RestoreDnsFails
  <2>1. TypeOK'
    <3> HIDE DEF LoopInv, PlatformInv, OwnInv, OwnedInv, HomeInv, StateInv, Tasks
    <3>1. platform' \in Platforms /\ metricZero' \in BOOLEAN
          /\ resolver' \in {"off", "link", "file", "service"}
          /\ (resolver' = "service" => platform' = "darwin")
        BY <1>38 DEF RestoreDnsFails, WithoutTun, ProcessEnds, CutsRunShort
    <3>2. main' \subseteq {"home"} \union TunRoutes
          /\ saved' \subseteq {"home"} \union TunRoutes
        BY <1>38 DEF RestoreDnsFails, WithoutTun, ProcessEnds, CutsRunShort
    <3>3. rule' \in BOOLEAN /\ table' \in BOOLEAN /\ managed' \in BOOLEAN
        BY <1>38 DEF RestoreDnsFails, WithoutTun, ProcessEnds, CutsRunShort
    <3>4. bypass' \subseteq ServerIps /\ targets' \subseteq ServerIps
          /\ bypassed' \subseteq targets' /\ stranded' \subseteq ServerIps
        BY <1>38 DEF RestoreDnsFails, WithoutTun, ProcessEnds, CutsRunShort
    <3>5. dns' \in Contents /\ backup' \in Contents \union {None}
          /\ stateFile' \in Contents \union {None, "torn"}
        BY <1>38 DEF RestoreDnsFails, WithoutTun, ProcessEnds, CutsRunShort
    <3>6. ready' \in BOOLEAN /\ stopFile' \in BOOLEAN /\ stop' \in BOOLEAN
        BY <1>38 DEF RestoreDnsFails, WithoutTun, ProcessEnds, CutsRunShort
    <3>7. finished' \subseteq Tasks
        BY <1>38 DEF RestoreDnsFails, WithoutTun, ProcessEnds, CutsRunShort, Tasks
    <3>8. manager' \in BOOLEAN /\ cutShort' \in BOOLEAN
          /\ leftovers' \in BOOLEAN /\ strayed' \in BOOLEAN
        BY <1>38 DEF RestoreDnsFails, WithoutTun, ProcessEnds, CutsRunShort
    <3>9. pc' \in Steps /\ (main' \cap TunRoutes # {} => pc' # "off")
        BY <1>38 DEF RestoreDnsFails, WithoutTun, ProcessEnds, CutsRunShort
    <3> QED
        BY ONLY <3>1, <3>2, <3>3, <3>4, <3>5, <3>6, <3>7, <3>8, <3>9 DEF TypeOK
  <2>2. LoopInv'
    BY <1>38 DEF RestoreDnsFails, WithoutTun, ProcessEnds, CutsRunShort
  <2>3. PlatformInv'
    BY <1>38 DEF RestoreDnsFails, WithoutTun, ProcessEnds, CutsRunShort
  <2>4. OwnInv'
    BY <1>38 DEF RestoreDnsFails, WithoutTun, ProcessEnds, CutsRunShort
  <2>5. OwnedInv'
    BY <1>38 DEF RestoreDnsFails, WithoutTun, ProcessEnds, CutsRunShort
  <2>6. HomeInv'
    BY <1>38 DEF RestoreDnsFails, WithoutTun, ProcessEnds, CutsRunShort
  <2>7. StateInv'
    BY <1>38 DEF RestoreDnsFails, WithoutTun, ProcessEnds, CutsRunShort
  <2> QED
    BY <2>1, <2>2, <2>3, <2>4, <2>5, <2>6, <2>7
<1>39. CASE MacRestoreDns
  <2>1. TypeOK'
    BY <1>39 DEF MacRestoreDns, HadBefore
  <2>2. LoopInv'
    BY <1>39 DEF MacRestoreDns, HadBefore
  <2>3. PlatformInv'
    BY <1>39 DEF MacRestoreDns, HadBefore
  <2>4. OwnInv'
    BY <1>39 DEF MacRestoreDns, HadBefore
  <2>5. OwnedInv'
    BY <1>39 DEF MacRestoreDns, HadBefore
  <2>6. HomeInv'
    BY <1>39 DEF MacRestoreDns, HadBefore
  <2>7. StateInv'
    BY <1>39 DEF MacRestoreDns, HadBefore
  <2> QED
    BY <2>1, <2>2, <2>3, <2>4, <2>5, <2>6, <2>7
<1>40. CASE RemovePolicy
  <2>1. TypeOK'
    BY <1>40 DEF RemovePolicy
  <2>2. LoopInv'
    BY <1>40 DEF RemovePolicy
  <2>3. PlatformInv'
    BY <1>40 DEF RemovePolicy
  <2>4. OwnInv'
    BY <1>40 DEF RemovePolicy
  <2>5. OwnedInv'
    BY <1>40 DEF RemovePolicy
  <2>6. HomeInv'
    BY <1>40 DEF RemovePolicy
  <2>7. StateInv'
    BY <1>40 DEF RemovePolicy
  <2> QED
    BY <2>1, <2>2, <2>3, <2>4, <2>5, <2>6, <2>7
<1>41. CASE RemoveDefault
  <2>1. TypeOK'
    BY <1>41 DEF RemoveDefault
  <2>2. LoopInv'
    BY <1>41 DEF RemoveDefault
  <2>3. PlatformInv'
    BY <1>41 DEF RemoveDefault
  <2>4. OwnInv'
    BY <1>41 DEF RemoveDefault
  <2>5. OwnedInv'
    BY <1>41 DEF RemoveDefault
  <2>6. HomeInv'
    BY <1>41 DEF RemoveDefault
  <2>7. StateInv'
    BY <1>41 DEF RemoveDefault
  <2> QED
    BY <2>1, <2>2, <2>3, <2>4, <2>5, <2>6, <2>7
<1>42. CASE MacRemoveSplit
  <2>1. TypeOK'
    BY <1>42 DEF MacRemoveSplit
  <2>2. LoopInv'
    BY <1>42 DEF MacRemoveSplit
  <2>3. PlatformInv'
    BY <1>42 DEF MacRemoveSplit
  <2>4. OwnInv'
    BY <1>42 DEF MacRemoveSplit
  <2>5. OwnedInv'
    BY <1>42 DEF MacRemoveSplit
  <2>6. HomeInv'
    BY <1>42 DEF MacRemoveSplit
  <2>7. StateInv'
    BY <1>42 DEF MacRemoveSplit
  <2> QED
    BY <2>1, <2>2, <2>3, <2>4, <2>5, <2>6, <2>7
<1>43. CASE RestoreDefaults
  <2>1. TypeOK'
    BY <1>43 DEF RestoreDefaults
  <2>2. LoopInv'
    BY <1>43 DEF RestoreDefaults
  <2>3. PlatformInv'
    BY <1>43 DEF RestoreDefaults
  <2>4. OwnInv'
    BY <1>43 DEF RestoreDefaults
  <2>5. OwnedInv'
    BY <1>43 DEF RestoreDefaults
  <2>6. HomeInv'
    BY <1>43 DEF RestoreDefaults
  <2>7. StateInv'
    BY <1>43 DEF RestoreDefaults
  <2> QED
    BY <2>1, <2>2, <2>3, <2>4, <2>5, <2>6, <2>7
<1>44. ASSUME NEW ip \in ServerIps, RemoveBypass(ip) PROVE IInv'
  <2>1. TypeOK'
    BY <1>44 DEF RemoveBypass
  <2>2. LoopInv'
    BY <1>44 DEF RemoveBypass
  <2>3. PlatformInv'
    BY <1>44 DEF RemoveBypass
  <2>4. OwnInv'
    BY <1>44 DEF RemoveBypass
  <2>5. OwnedInv'
    BY <1>44 DEF RemoveBypass
  <2>6. HomeInv'
    BY <1>44 DEF RemoveBypass
  <2>7. StateInv'
    BY <1>44 DEF RemoveBypass
  <2> QED
    BY <2>1, <2>2, <2>3, <2>4, <2>5, <2>6, <2>7
<1>45. CASE WindowsRemoveSplit
  <2>1. TypeOK'
    <3> HIDE DEF LoopInv, PlatformInv, OwnInv, OwnedInv, HomeInv, StateInv, Tasks
    <3>1. platform' \in Platforms /\ metricZero' \in BOOLEAN
          /\ resolver' \in {"off", "link", "file", "service"}
          /\ (resolver' = "service" => platform' = "darwin")
        BY <1>45 DEF WindowsRemoveSplit
    <3>2. main' \subseteq {"home"} \union TunRoutes
          /\ saved' \subseteq {"home"} \union TunRoutes
        BY <1>45 DEF WindowsRemoveSplit
    <3>3. rule' \in BOOLEAN /\ table' \in BOOLEAN /\ managed' \in BOOLEAN
        BY <1>45 DEF WindowsRemoveSplit
    <3>4. bypass' \subseteq ServerIps /\ targets' \subseteq ServerIps
          /\ bypassed' \subseteq targets' /\ stranded' \subseteq ServerIps
        BY <1>45 DEF WindowsRemoveSplit
    <3>5. dns' \in Contents /\ backup' \in Contents \union {None}
          /\ stateFile' \in Contents \union {None, "torn"}
        BY <1>45 DEF WindowsRemoveSplit
    <3>6. ready' \in BOOLEAN /\ stopFile' \in BOOLEAN /\ stop' \in BOOLEAN
        BY <1>45 DEF WindowsRemoveSplit
    <3>7. finished' \subseteq Tasks
        BY <1>45 DEF WindowsRemoveSplit, Tasks
    <3>8. manager' \in BOOLEAN /\ cutShort' \in BOOLEAN
          /\ leftovers' \in BOOLEAN /\ strayed' \in BOOLEAN
        BY <1>45 DEF WindowsRemoveSplit
    <3>9. pc' \in Steps /\ (main' \cap TunRoutes # {} => pc' # "off")
        BY <1>45 DEF WindowsRemoveSplit
    <3> QED
        BY ONLY <3>1, <3>2, <3>3, <3>4, <3>5, <3>6, <3>7, <3>8, <3>9 DEF TypeOK
  <2>2. LoopInv'
    BY <1>45 DEF WindowsRemoveSplit
  <2>3. PlatformInv'
    BY <1>45 DEF WindowsRemoveSplit
  <2>4. OwnInv'
    BY <1>45 DEF WindowsRemoveSplit
  <2>5. OwnedInv'
    BY <1>45 DEF WindowsRemoveSplit
  <2>6. HomeInv'
    BY <1>45 DEF WindowsRemoveSplit
  <2>7. StateInv'
    BY <1>45 DEF WindowsRemoveSplit
  <2> QED
    BY <2>1, <2>2, <2>3, <2>4, <2>5, <2>6, <2>7
<1>46. CASE Close
  <2>1. TypeOK'
    <3> HIDE DEF LoopInv, PlatformInv, OwnInv, OwnedInv, HomeInv, StateInv, Tasks
    <3>1. platform' \in Platforms /\ metricZero' \in BOOLEAN
          /\ resolver' \in {"off", "link", "file", "service"}
          /\ (resolver' = "service" => platform' = "darwin")
        BY <1>46 DEF Close, WithoutTun, ProcessEnds
    <3>2. main' \subseteq {"home"} \union TunRoutes
          /\ saved' \subseteq {"home"} \union TunRoutes
        BY <1>46 DEF Close, WithoutTun, ProcessEnds
    <3>3. rule' \in BOOLEAN /\ table' \in BOOLEAN /\ managed' \in BOOLEAN
        BY <1>46 DEF Close, WithoutTun, ProcessEnds
    <3>4. bypass' \subseteq ServerIps /\ targets' \subseteq ServerIps
          /\ bypassed' \subseteq targets' /\ stranded' \subseteq ServerIps
        BY <1>46 DEF Close, WithoutTun, ProcessEnds
    <3>5. dns' \in Contents /\ backup' \in Contents \union {None}
          /\ stateFile' \in Contents \union {None, "torn"}
        BY <1>46 DEF Close, WithoutTun, ProcessEnds
    <3>6. ready' \in BOOLEAN /\ stopFile' \in BOOLEAN /\ stop' \in BOOLEAN
        BY <1>46 DEF Close, WithoutTun, ProcessEnds
    <3>7. finished' \subseteq Tasks
        BY <1>46 DEF Close, WithoutTun, ProcessEnds, Tasks
    <3>8. manager' \in BOOLEAN /\ cutShort' \in BOOLEAN
          /\ leftovers' \in BOOLEAN /\ strayed' \in BOOLEAN
        BY <1>46 DEF Close, WithoutTun, ProcessEnds
    <3>9. pc' \in Steps /\ (main' \cap TunRoutes # {} => pc' # "off")
        BY <1>46 DEF Close, WithoutTun, ProcessEnds
    <3> QED
        BY ONLY <3>1, <3>2, <3>3, <3>4, <3>5, <3>6, <3>7, <3>8, <3>9 DEF TypeOK
  <2>2. LoopInv'
    BY <1>46 DEF Close, WithoutTun, ProcessEnds
  <2>3. PlatformInv'
    BY <1>46 DEF Close, WithoutTun, ProcessEnds
  <2>4. OwnInv'
    BY <1>46 DEF Close, WithoutTun, ProcessEnds
  <2>5. OwnedInv'
    BY <1>46 DEF Close, WithoutTun, ProcessEnds
  <2>6. HomeInv'
    BY <1>46 DEF Close, WithoutTun, ProcessEnds
  <2>7. StateInv'
    BY <1>46 DEF Close, WithoutTun, ProcessEnds
  <2> QED
    BY <2>1, <2>2, <2>3, <2>4, <2>5, <2>6, <2>7
<1>47. CASE Killed
  <2>1. TypeOK'
    <3> HIDE DEF LoopInv, PlatformInv, OwnInv, OwnedInv, HomeInv, StateInv, Tasks
    <3>1. platform' \in Platforms /\ metricZero' \in BOOLEAN
          /\ resolver' \in {"off", "link", "file", "service"}
          /\ (resolver' = "service" => platform' = "darwin")
        BY <1>47 DEF Killed, WithoutTun, CutOff, RoutesAfterKill, ProcessEnds, CutsRunShort
    <3>2. main' \subseteq {"home"} \union TunRoutes
          /\ saved' \subseteq {"home"} \union TunRoutes
        BY <1>47 DEF Killed, WithoutTun, CutOff, RoutesAfterKill, ProcessEnds, CutsRunShort
    <3>3. rule' \in BOOLEAN /\ table' \in BOOLEAN /\ managed' \in BOOLEAN
        BY <1>47 DEF Killed, WithoutTun, CutOff, RoutesAfterKill, ProcessEnds, CutsRunShort
    <3>4. bypass' \subseteq ServerIps /\ targets' \subseteq ServerIps
          /\ bypassed' \subseteq targets' /\ stranded' \subseteq ServerIps
        BY <1>47 DEF Killed, WithoutTun, CutOff, RoutesAfterKill, ProcessEnds, CutsRunShort
    <3>5. dns' \in Contents /\ backup' \in Contents \union {None}
          /\ stateFile' \in Contents \union {None, "torn"}
        BY <1>47 DEF Killed, WithoutTun, CutOff, RoutesAfterKill, ProcessEnds, CutsRunShort
    <3>6. ready' \in BOOLEAN /\ stopFile' \in BOOLEAN /\ stop' \in BOOLEAN
        BY <1>47 DEF Killed, WithoutTun, CutOff, RoutesAfterKill, ProcessEnds, CutsRunShort
    <3>7. finished' \subseteq Tasks
        BY <1>47 DEF Killed, WithoutTun, CutOff, RoutesAfterKill, ProcessEnds, CutsRunShort, Tasks
    <3>8. manager' \in BOOLEAN /\ cutShort' \in BOOLEAN
          /\ leftovers' \in BOOLEAN /\ strayed' \in BOOLEAN
        BY <1>47 DEF Killed, WithoutTun, CutOff, RoutesAfterKill, ProcessEnds, CutsRunShort
    <3>9. pc' \in Steps /\ (main' \cap TunRoutes # {} => pc' # "off")
        BY <1>47 DEF Killed, WithoutTun, CutOff, RoutesAfterKill, ProcessEnds, CutsRunShort
    <3> QED
        BY ONLY <3>1, <3>2, <3>3, <3>4, <3>5, <3>6, <3>7, <3>8, <3>9 DEF TypeOK
  <2>2. LoopInv'
    BY <1>47 DEF Killed, WithoutTun, CutOff, RoutesAfterKill, ProcessEnds, CutsRunShort
  <2>3. PlatformInv'
    BY <1>47 DEF Killed, WithoutTun, CutOff, RoutesAfterKill, ProcessEnds, CutsRunShort
  <2>4. OwnInv'
    BY <1>47 DEF Killed, WithoutTun, CutOff, RoutesAfterKill, ProcessEnds, CutsRunShort
  <2>5. OwnedInv'
    BY <1>47 DEF Killed, WithoutTun, CutOff, RoutesAfterKill, ProcessEnds, CutsRunShort
  <2>6. HomeInv'
    BY <1>47 DEF Killed, WithoutTun, CutOff, RoutesAfterKill, ProcessEnds, CutsRunShort
  <2>7. StateInv'
    BY <1>47 DEF Killed, WithoutTun, CutOff, RoutesAfterKill, ProcessEnds, CutsRunShort
  <2> QED
    BY <2>1, <2>2, <2>3, <2>4, <2>5, <2>6, <2>7
<1>48. CASE Down
  <2>1. TypeOK'
    <3> HIDE DEF LoopInv, PlatformInv, OwnInv, OwnedInv, HomeInv, StateInv, Tasks
    <3>1. platform' \in Platforms /\ metricZero' \in BOOLEAN
          /\ resolver' \in {"off", "link", "file", "service"}
          /\ (resolver' = "service" => platform' = "darwin")
        BY <1>48 DEF Down
    <3>2. main' \subseteq {"home"} \union TunRoutes
          /\ saved' \subseteq {"home"} \union TunRoutes
        BY <1>48 DEF Down
    <3>3. rule' \in BOOLEAN /\ table' \in BOOLEAN /\ managed' \in BOOLEAN
        BY <1>48 DEF Down
    <3>4. bypass' \subseteq ServerIps /\ targets' \subseteq ServerIps
          /\ bypassed' \subseteq targets' /\ stranded' \subseteq ServerIps
        BY <1>48 DEF Down
    <3>5. dns' \in Contents /\ backup' \in Contents \union {None}
          /\ stateFile' \in Contents \union {None, "torn"}
        BY <1>48 DEF Down
    <3>6. ready' \in BOOLEAN /\ stopFile' \in BOOLEAN /\ stop' \in BOOLEAN
        BY <1>48 DEF Down
    <3>7. finished' \subseteq Tasks
        BY <1>48 DEF Down, Tasks
    <3>8. manager' \in BOOLEAN /\ cutShort' \in BOOLEAN
          /\ leftovers' \in BOOLEAN /\ strayed' \in BOOLEAN
        BY <1>48 DEF Down
    <3>9. pc' \in Steps /\ (main' \cap TunRoutes # {} => pc' # "off")
        BY <1>48 DEF Down
    <3> QED
        BY ONLY <3>1, <3>2, <3>3, <3>4, <3>5, <3>6, <3>7, <3>8, <3>9 DEF TypeOK
  <2>2. LoopInv'
    BY <1>48 DEF Down
  <2>3. PlatformInv'
    BY <1>48 DEF Down
  <2>4. OwnInv'
    BY <1>48 DEF Down
  <2>5. OwnedInv'
    BY <1>48 DEF Down
  <2>6. HomeInv'
    BY <1>48 DEF Down
  <2>7. StateInv'
    BY <1>48 DEF Down
  <2> QED
    BY <2>1, <2>2, <2>3, <2>4, <2>5, <2>6, <2>7
<1>49. CASE UNCHANGED vars
    BY <1>49 DEF vars
<1> QED
    BY <1>1, <1>2, <1>3, <1>4, <1>5, <1>6, <1>7, <1>8, <1>9, <1>10, <1>11,
       <1>12, <1>13, <1>14, <1>15, <1>16, <1>17, <1>18, <1>19, <1>20, <1>21,
       <1>22, <1>23, <1>24, <1>25, <1>26, <1>27, <1>28, <1>29, <1>30, <1>31,
       <1>32, <1>33, <1>34, <1>35, <1>36, <1>37, <1>38, <1>39, <1>40, <1>41,
       <1>42, <1>43, <1>44, <1>45, <1>46, <1>47, <1>48, <1>49
    DEF Next, ClientStep

LEMMA Invariance == Spec => []IInv
BY InitIInv, StepIInv, PTL DEF Spec

\* The types, and that no route leads through a device that is gone.
THEOREM TypesAlways == Spec => []TypeOK
<1>1. IInv => TypeOK
    BY DEF IInv
<1> QED
    BY <1>1, Invariance, PTL

\* The tunnel's own packets never go into the tunnel.
THEOREM NoRoutingLoopAlways == Spec => []NoRoutingLoop
BY Invariance, IInvImplies, PTL

\* A host none of whose runs was cut short is left as it was found.
THEOREM CleanExitAlways == Spec => []CleanExit
BY Invariance, IInvImplies, PTL

\* What a killed run leaves of rule, table and host routes goes with the whole
\* runs after it, a host route with the first that has its address.
THEOREM LeftoversRemovedAlways == Spec => []LeftoversRemoved
BY Invariance, IInvImplies, PTL

\* pyvpn-client-down gives a Mac its DNS back wherever the client was killed.
THEOREM DownRestoresDnsAlways == Spec => DownRestoresDns
<1>1. IInv /\ Down /\ ~strayed => dns' = "home"
    <2> SUFFICES ASSUME IInv, Down, ~strayed PROVE dns' = "home"
        OBVIOUS
    <2>1. CASE resolver = "service"
        BY <2>1, NoneAssumption DEF IInv, StateInv, Down
    <2>2. CASE resolver # "service"
        BY <2>2 DEF IInv, PlatformInv, Down
    <2> QED
        BY <2>1, <2>2
<1>2. IInv /\ [Next]_vars => [Down /\ ~strayed => dns' = "home"]_vars
    BY <1>1
<1> QED
    BY <1>2, Invariance, PTL DEF Spec, DownRestoresDns

-----------------------------------------------------------------------------
(***************************************************************************)
(* StopEndsRun under the fairness of FairSpec. The provers do not know     *)
(* what ENABLED means and cannot count the server addresses: "Due" and     *)
(* "LoopsEnd" are hypotheses.                                              *)
(***************************************************************************)

\* A run that has been told to stop, in a session the server has accepted.
Stopping == (stop \/ stopFile) /\ pc \notin {"off", "connect", "accept"}

\* It has at most n steps to go, turns of the loops over the addresses apart.
Left(n) ==
    \/ n >= 1 /\ pc = "bypassBack"
    \/ n >= 2 /\ pc = "restore"
    \/ n >= 3 /\ pc = "defaultBack"
    \/ n >= 4 /\ pc = "ruleBack"
    \/ n >= 5 /\ pc = "dnsBack"
    \/ n >= 6 /\ pc = "bye"
    \/ n >= 7 /\ pc = "running" /\ "stop" \in finished
    \/ n >= 8 /\ pc = "running" /\ finished # {}
    \/ n >= 9 /\ pc = "running"
    \/ n >= 10 /\ pc = "up"
    \/ n >= 11 /\ pc = "dnsSet"
    \/ n >= 12 /\ pc = "dnsState"
    \/ n >= 13 /\ pc = "dns"
    \/ n >= 14 /\ pc = "verify"
    \/ n >= 15 /\ pc = "bypass" /\ "low" \in main
    \/ n >= 16 /\ pc = "bypass"
    \/ n >= 17 /\ pc = "ruleAdd"
    \/ n >= 18 /\ pc = "tableAdd"
    \/ n >= 19 /\ pc = "policy"
    \/ n >= 20 /\ pc = "routes"
    \/ n >= 21 /\ pc = "tun"

\* Levels at which the client is in one of the loops.
LoopLevels == {1, 15, 16}

\* A step of the client brings it nearer to the end, or is a turn of a loop.
LEMMA ClientAdvances ==
    ASSUME NEW m \in Nat, NEW n \in Nat, m = n + 1, Stopping, Left(m), ClientStep
    PROVE  \/ pc' = "off"
           \/ Stopping' /\ Left(n)'
           \/ Stopping' /\ Left(m)' /\ InLoop /\ bypassed' # bypassed
<1> USE DEF Stopping, Left, InLoop, host, config, signals, own, kept, history, Goto
<1>1. CASE OpenControl \/ ConnectFails \/ OpenTun \/ ReadDefaults \/ FlushPolicy
           \/ AddTable \/ AddRule \/ ReplaceDefault
    BY <1>1 DEF OpenControl, ConnectFails, OpenTun, ReadDefaults, FlushPolicy,
       AddTable, AddRule, ReplaceDefault
<1>2. CASE SetupDns \/ WriteResolvConf \/ MacReadDefault \/ MacAddSplit
           \/ MacVerify \/ MacNoService \/ MacWriteState \/ MacSetDns
    BY <1>2 DEF SetupDns, WriteResolvConf, MacReadDefault, MacAddSplit, AddHalf,
       MacVerify, MacNoService, MacWriteState, MacSetDns
<1>3. CASE WindowsReadDefault \/ WindowsAddSplit \/ WindowsRemoveSplit \/ NoPolicy
    BY <1>3 DEF WindowsReadDefault, WindowsAddSplit, AddHalf, WindowsRemoveSplit,
       NoPolicy
<1>4. CASE GoesUp \/ StopFileTask \/ StopTask \/ RunEnds \/ SayBye
    BY <1>4 DEF GoesUp, StopFileTask, StopTask, RunEnds, SayBye, WaitIsOver
<1>5. CASE RestoreDns \/ MacRestoreDns \/ RemovePolicy \/ RemoveDefault
           \/ MacRemoveSplit \/ RestoreDefaults
    BY <1>5 DEF RestoreDns, MacRestoreDns, RemovePolicy, RemoveDefault,
       MacRemoveSplit, RestoreDefaults
<1>6. CASE Close
    BY <1>6 DEF Close
<1>7. ASSUME NEW readable \in BOOLEAN, MacReadDns(readable)
      PROVE  Stopping' /\ Left(n)'
    BY <1>7 DEF MacReadDns
<1>8. ASSUME NEW ip \in ServerIps,
             \/ AddBypass(ip) \/ MacAddBypass(ip)
             \/ WindowsAddBypass(ip) \/ RemoveBypass(ip)
      PROVE  Stopping' /\ Left(m)' /\ InLoop /\ bypassed' # bypassed
  <2>1. bypassed' # bypassed
      BY <1>8 DEF AddBypass, MacAddBypass, WindowsAddBypass, TakeOver, RemoveBypass
  <2>2. UNCHANGED <<pc, main, stop, stopFile, finished>> /\ InLoop
      BY <1>8 DEF AddBypass, MacAddBypass, WindowsAddBypass, TakeOver, RemoveBypass
  <2> QED
      BY <2>1, <2>2
<1>9. ASSUME NEW ip \in ServerIps, MacAddBypassFails(ip) \/ WindowsAddBypassFails(ip)
      PROVE  Stopping' /\ Left(n)'
    BY <1>9 DEF MacAddBypassFails, WindowsAddBypassFails, LoseRoute
<1>10. CASE Raises
    BY <1>10 DEF Raises
<1> QED
    BY <1>1, <1>2, <1>3, <1>4, <1>5, <1>6, <1>7, <1>8, <1>9, <1>10 DEF ClientStep

\* Whatever else happens does not take it back.
LEMMA StoppingGoesOn ==
    ASSUME NEW m \in Nat, NEW n \in Nat, m = n + 1, Stopping, Left(m), [Next]_vars
    PROVE  pc' = "off" \/ (Stopping' /\ Left(m)')
<1>1. CASE ClientStep
  <2>1. Left(n)' => Left(m)'
      BY DEF Left
  <2> QED
      BY <1>1, <2>1, ClientAdvances
<1>2. CASE Raises
    BY <1>2 DEF Raises, signals, Stopping, Left
<1>3. CASE RestoreDnsFails \/ Killed
    BY <1>3 DEF RestoreDnsFails, Killed, Goto
<1>4. CASE TaskFails \/ Signal \/ TouchStopFile
    BY <1>4 DEF TaskFails, Signal, TouchStopFile, host, Stopping, Left
<1>5. ~Start /\ ~Accepted /\ ~Down
    BY DEF Start, Accepted, Down, Goto, Stopping
<1>6. CASE UNCHANGED vars
    BY <1>6 DEF vars, host, signals, Stopping, Left
<1> QED
    BY <1>1, <1>2, <1>3, <1>4, <1>5, <1>6 DEF Next

Over == pc = "off"
At(n) == Stopping /\ Left(n)
Lowers(m, n) == At(m) ~> At(n) \/ Over

LEMMA LevelLowers ==
    ASSUME NEW m \in Nat, NEW n \in Nat, m = n + 1
    PROVE  FairSpec /\ []Due /\ LoopsEnd => Lowers(m, n)
<1>1. [Next]_vars => (At(m) => At(m)' \/ Over')
    BY StoppingGoesOn DEF At, Over
<1>2. <<ClientStep>>_vars /\ At(m) => At(n)' \/ Over' \/ (InLoop /\ bypassed' # bypassed)
    BY ClientAdvances DEF At, Over
<1>3. Due /\ At(m) => ENABLED <<ClientStep>>_vars
    BY DEF Due, At, Stopping
<1>4. CASE m \in LoopLevels
  <2>1. At(m) => At(n) \/ InLoop
      BY <1>4 DEF LoopLevels, At, Left, InLoop
  <2>2. <<ClientStep>>_vars /\ At(m) /\ [LoopRests]_vars => At(n)' \/ Over'
      BY <1>2 DEF LoopRests
  <2> QED
      BY <1>1, <1>3, <2>1, <2>2, PTL DEF FairSpec, Spec, LoopsEnd, Lowers
<1>5. CASE m \notin LoopLevels
  <2>1. At(m) => At(n) \/ ~InLoop
      BY <1>5 DEF LoopLevels, At, Left, InLoop
  <2>2. <<ClientStep>>_vars /\ At(m) => At(n) \/ At(n)' \/ Over'
      BY <1>2, <2>1
  <2> QED
      BY <1>1, <1>3, <2>2, PTL DEF FairSpec, Spec, Lowers
<1> QED
    BY <1>4, <1>5

\* A stop by signal or file is obeyed, wherever in the session it comes.
THEOREM StopEndsRunFair == FairSpec /\ []Due /\ LoopsEnd => StopEndsRun
<1>1. FairSpec /\ []Due /\ LoopsEnd =>
         /\ Lowers(1, 0) /\ Lowers(2, 1) /\ Lowers(3, 2) /\ Lowers(4, 3)
         /\ Lowers(5, 4) /\ Lowers(6, 5) /\ Lowers(7, 6) /\ Lowers(8, 7)
         /\ Lowers(9, 8) /\ Lowers(10, 9) /\ Lowers(11, 10)
    BY LevelLowers
<1>2. FairSpec /\ []Due /\ LoopsEnd =>
         /\ Lowers(12, 11) /\ Lowers(13, 12) /\ Lowers(14, 13) /\ Lowers(15, 14)
         /\ Lowers(16, 15) /\ Lowers(17, 16) /\ Lowers(18, 17) /\ Lowers(19, 18)
         /\ Lowers(20, 19) /\ Lowers(21, 20)
    BY LevelLowers
<1>3. ~At(0)
    BY DEF At, Left
<1>4. IInv /\ Stopping => At(21)
    BY DEF IInv, TypeOK, Steps, Stopping, At, Left
<1>5. FairSpec /\ []Due /\ LoopsEnd => (At(21) ~> At(11) \/ Over)
    BY <1>2, PTL DEF Lowers
<1>6. FairSpec /\ []Due /\ LoopsEnd => (At(11) ~> Over)
    BY <1>1, <1>3, PTL DEF Lowers
<1>7. FairSpec => []IInv
    BY Invariance, PTL DEF FairSpec
<1>8. Stopping <=> (stop \/ stopFile) /\ pc \notin {"off", "connect", "accept"}
    BY DEF Stopping
<1>9. Over <=> pc = "off"
    BY DEF Over
<1> QED
    BY <1>4, <1>5, <1>6, <1>7, <1>8, <1>9, PTL DEF StopEndsRun

=============================================================================
