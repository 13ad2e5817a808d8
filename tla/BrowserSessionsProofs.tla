------------------------- MODULE BrowserSessionsProofs -------------------------
(***************************************************************************)
(* Proofs about DevRunner and about BrowserSessions on top of it, for any  *)
(* deploys and browser requests and any number of apps, ports and slots;   *)
(* and about ChatBridge for any mentions.                                  *)
(***************************************************************************)
EXTENDS MCServices, FiniteSetTheorems, SequenceTheorems, WellFoundedInduction, TLAPS

\* The registry names launched deploys, under their own app; an app that is not
\* registered holds no port but one that a launch which raised has left it.
Registrations ==
  /\ \A a \in Apps :
       IF apps[a] = None THEN allocated[a] \in strayed \cup {NoPort}
       ELSE app[apps[a]] = a /\ pc[apps[a]] \in {"wait", "up"}
  /\ \A d \in Deploys : pc[d] # "new" => app[d] \in Apps
  /\ \A d \in alive : pc[d] \in {"wait", "up"} /\ port[d] \in Ports

\* As long as no app was deployed twice at once, each app has at most one deploy
\* under way, which finds its app as it left it, or torn down.
OneDeployEach ==
  overlap = {} =>
    /\ \A d, e \in UnderWay : app[d] = app[e] => d = e
    /\ \A d \in UnderWay : apps[app[d]] = None \/ (pc[d] = "wait" /\ apps[app[d]] = d)

\* A deploy that nothing overlaps still has the room it has checked for.
RoomIsKept ==
  ~busy =>
    /\ \A d, e \in UnderWay : d = e
    /\ \A d \in Deploys :
         pc[d] = "install" => Cardinality(Registered \ {app[d]}) < MaxApps

RunnerIInv ==
  /\ TypeOK /\ PortsAreAccountedFor /\ RegistryMatchesProcesses /\ LimitHolds
  /\ Registrations /\ OneDeployEach /\ RoomIsKept

-----------------------------------------------------------------------------
(* The runner's steps                                                      *)

\* What every step but a launch does to the tables: it takes some apps, none
\* perhaps, out of the registry, with their ports and, as long as no app was
\* deployed twice at once, with their processes.
Gone(S) ==
  /\ apps' = [a \in Apps |-> IF a \in S THEN None ELSE apps[a]]
  /\ allocated' = [a \in Apps |-> IF a \in S THEN NoPort ELSE allocated[a]]
  /\ available' = available \cup ({allocated[a] : a \in S} \ {NoPort})
  /\ alive' \subseteq alive
  /\ overlap = {} => \A a \in S : apps[a] \notin alive'
  /\ overlap' = {} => overlap = {}
  /\ UNCHANGED <<port, strayed>>

\* What it does to the deploys that were launched.
LaunchedStay(S) ==
  /\ \A d \in alive' : pc'[d] \in {"wait", "up"}
  /\ \A d \in Deploys : pc[d] # "new" => app'[d] = app[d]
  /\ \A a \in Apps \ S : apps[a] # None => pc'[apps[a]] \in {"wait", "up"}

Launches(d) == Launch(d) \/ LaunchFails(d) \/ LaunchRaises(d)

\* Terminating a registered app and taking it out of the registry.
LEMMA Terminated ==
  ASSUME TypeOK, NEW a \in Apps, NEW d \in Deploys, app[d] = a,
         Terminate(d), Unregister(a)
  PROVE  /\ apps' = [b \in Apps |-> IF b \in {a} THEN None ELSE apps[b]]
         /\ allocated' = [b \in Apps |-> IF b \in {a} THEN NoPort ELSE allocated[b]]
         /\ available' = available \cup ({allocated[b] : b \in {a}} \ {NoPort})
         /\ alive' = alive \ {d}
BY ZenonT(40) DEF TypeOK, Terminate, ReleasePort, Unregister

LEMMA RequestEnds ==
  ASSUME RunnerIInv, NEW d \in Deploys, NEW a \in Apps, Request(d, a)
  PROVE  \E S \in SUBSET Apps :
           Gone(S) /\ LaunchedStay(S) /\ S \subseteq {a} /\ (apps[a] # None => a \in S)
<1>. USE DevRunnerAssumption
<1>t. TypeOK /\ Registrations
  BY DEF RunnerIInv
<1>1. /\ overlap' = {} => overlap = {}
      /\ UNCHANGED <<port, strayed>>
      /\ app' = [app EXCEPT ![d] = a] /\ pc[d] = "new"
      /\ pc' = [pc EXCEPT ![d] = "failed"] \/ pc' = [pc EXCEPT ![d] = "install"]
  BY DEF Request, Goto
<1>2. /\ \A e \in Deploys : e # d => app'[e] = app[e] /\ pc'[e] = pc[e]
      /\ \A e \in alive : e # d
      /\ \A b \in Apps : apps[b] # None => apps[b] \in Deploys /\ apps[b] # d
  BY <1>1, <1>t DEF TypeOK, Registrations
<1>3. CASE apps[a] # None
  <2>1. /\ apps[a] \in Deploys /\ app[apps[a]] = a
        /\ Terminate(apps[a]) /\ Unregister(a)
    BY <1>3, <1>t DEF Request, Registrations, TypeOK
  <2>2. Gone({a})
    BY <1>1, <1>t, <2>1, Terminated DEF Gone
  <2>3. LaunchedStay({a})
    BY <1>1, <1>2, <1>t, <2>2 DEF LaunchedStay, Gone, Registrations, TypeOK
  <2>. QED BY <2>2, <2>3
<1>4. CASE apps[a] = None
  <2>1. UNCHANGED <<tables, alive>>
    BY <1>4 DEF Request
  <2>2. Gone({})
    BY <1>1, <1>t, <2>1 DEF Gone, tables, TypeOK
  <2>3. LaunchedStay({})
    BY <1>1, <1>2, <1>t, <2>1 DEF LaunchedStay, Registrations, TypeOK
  <2>. QED BY <1>4, <2>2, <2>3
<1>. QED BY <1>3, <1>4

LEMMA NotReadyEnds ==
  ASSUME RunnerIInv, NEW d \in Deploys, NotReady(d)
  PROVE  Gone({app[d]}) /\ LaunchedStay({app[d]}) /\ app[d] \in Apps
<1>. USE DevRunnerAssumption
<1>t. TypeOK /\ Registrations /\ OneDeployEach
  BY DEF RunnerIInv
<1>1. /\ Terminate(d) /\ Unregister(app[d])
      /\ pc[d] = "wait" /\ pc' = [pc EXCEPT ![d] = "failed"]
      /\ UNCHANGED <<app, port, strayed, overlap>>
  BY DEF NotReady, Goto, history
<1>2. app[d] \in Apps
  BY <1>1, <1>t DEF Registrations
<1>3. /\ apps' = [b \in Apps |-> IF b \in {app[d]} THEN None ELSE apps[b]]
      /\ allocated' = [b \in Apps |-> IF b \in {app[d]} THEN NoPort ELSE allocated[b]]
      /\ available' = available \cup ({allocated[b] : b \in {app[d]}} \ {NoPort})
      /\ alive' = alive \ {d}
  BY <1>1, <1>2, <1>t, Terminated
<1>4. overlap = {} => apps[app[d]] \in {d, None}
  BY <1>1, <1>t DEF OneDeployEach, UnderWay
<1>5. Gone({app[d]})
  BY <1>1, <1>3, <1>4, <1>t DEF Gone, TypeOK
<1>6. LaunchedStay({app[d]})
  BY <1>1, <1>2, <1>3, <1>t DEF LaunchedStay, Registrations, TypeOK
<1>. QED BY <1>2, <1>5, <1>6

LEMMA TeardownEnds ==
  ASSUME RunnerIInv, NEW a \in Apps, Teardown(a)
  PROVE  Gone({a}) /\ LaunchedStay({a})
<1>. USE DevRunnerAssumption
<1>t. TypeOK /\ Registrations
  BY DEF RunnerIInv
<1>1. /\ apps[a] \in Deploys /\ app[apps[a]] = a
      /\ Terminate(apps[a]) /\ Unregister(a)
      /\ UNCHANGED <<pc, app, port, strayed, overlap>>
  BY <1>t DEF Teardown, Registrations, TypeOK, history
<1>2. Gone({a})
  BY <1>1, <1>t, Terminated DEF Gone
<1>3. LaunchedStay({a})
  BY <1>1, <1>2, <1>t DEF LaunchedStay, Gone, Registrations, TypeOK
<1>. QED BY <1>2, <1>3

LEMMA CleanupEnds ==
  ASSUME RunnerIInv, Cleanup
  PROVE  \E S \in SUBSET Apps : Gone(S) /\ LaunchedStay(S)
<1>. USE DevRunnerAssumption
<1>t. TypeOK /\ Registrations
  BY DEF RunnerIInv
<1>1. PICK old \in SUBSET Apps :
        /\ alive' = alive \ {apps[a] : a \in {b \in Apps : Overdue(b, old)}}
        /\ available' = available \cup
             ({allocated[a] : a \in {b \in Apps : Overdue(b, old)}} \ {NoPort})
        /\ allocated' = [a \in Apps |->
             IF a \in {b \in Apps : Overdue(b, old)} THEN NoPort ELSE allocated[a]]
        /\ apps' = [a \in Apps |->
             IF a \in {b \in Apps : Overdue(b, old)} THEN None ELSE apps[a]]
        /\ UNCHANGED <<pc, app, port, history>>
  BY DEF Cleanup, Registered
<1>. DEFINE S == {b \in Apps : Overdue(b, old)}
<1>. HIDE DEF S
<1>2. Gone(S)
  BY <1>1 DEF Gone, history, S
<1>3. LaunchedStay(S)
  BY <1>1, <1>t DEF LaunchedStay, Registrations, TypeOK
<1>. QED BY <1>2, <1>3 DEF S

LEMMA OthersEnd ==
  ASSUME RunnerIInv,
         \/ UNCHANGED vars
         \/ \E d \in Deploys : InstallFails(d) \/ NoPortLeft(d) \/ Ready(d) \/ Exit(d)
  PROVE  Gone({}) /\ LaunchedStay({})
<1>. USE DevRunnerAssumption
<1>t. TypeOK /\ Registrations
  BY DEF RunnerIInv
<1>1. /\ UNCHANGED <<available, allocated, apps, app, port, strayed, overlap>>
      /\ alive' \subseteq alive
  BY DEF InstallFails, NoPortLeft, Ready, Exit, vars, tables, history
<1>2. \A d \in Deploys : pc[d] \in {"wait", "up"} => pc'[d] \in {"wait", "up"}
  BY <1>t DEF InstallFails, NoPortLeft, Ready, Exit, vars, Goto, TypeOK
<1>3. Gone({})
  BY <1>1, <1>t DEF Gone, TypeOK
<1>4. LaunchedStay({})
  BY <1>1, <1>2, <1>t DEF LaunchedStay, Registrations, TypeOK
<1>. QED BY <1>3, <1>4

\* Every step launches a deploy or ends some.
LEMMA Steps ==
  ASSUME RunnerIInv, [Next]_vars
  PROVE  \/ \E d \in Deploys : Launches(d)
         \/ \E S \in SUBSET Apps : Gone(S) /\ LaunchedStay(S)
BY RequestEnds, NotReadyEnds, TeardownEnds, CleanupEnds, OthersEnd DEF Next, Launches

\* The lowest port is a port.
LEMMA LowestPort ==
  ASSUME TypeOK, available # {}
  PROVE  Lowest(available) \in available /\ Lowest(available) \in Ports
<1>1. available \subseteq Nat
  BY DevRunnerAssumption DEF TypeOK
<1>. DEFINE less == {pair \in Nat \X Nat : pair[1] < pair[2]}
<1>2. IsWellFoundedOn(less, Nat)
  BY NatLessThanWellFounded DEF OpToRel
<1>. HIDE DEF less
<1>3. PICK p \in available : \A q \in available : <<q, p>> \notin less
  BY <1>1, <1>2, WFMin
<1>4. \A q \in available : p <= q
  <2>. SUFFICES ASSUME NEW q \in available, ~(p <= q) PROVE FALSE
    OBVIOUS
  <2>1. p \in Nat /\ q \in Nat
    BY <1>1
  <2>2. q < p
    BY <2>1
  <2>3. <<q, p>> \in less
    BY <2>1, <2>2 DEF less
  <2>. QED BY <1>3, <2>3
<1>5. Lowest(available) \in available
  BY <1>4 DEF Lowest
<1>. QED BY <1>5 DEF TypeOK

\* What a launch does, as it succeeds or not.
LEMMA LaunchTakes ==
  ASSUME RunnerIInv, NEW d \in Deploys, Launches(d)
  PROVE  /\ pc[d] = "install" /\ app[d] \in Apps /\ d \notin alive
         /\ \A a \in Apps : apps[a] # d
         /\ UNCHANGED <<app, overlap, busy>>
         /\ \A e \in Deploys : e # d => pc'[e] = pc[e]
         /\ \E p \in available : p \in Ports /\
              \/ /\ available' = available \ {p} /\ pc'[d] = "wait"
                 /\ allocated' = [allocated EXCEPT ![app[d]] = p]
                 /\ port' = [port EXCEPT ![d] = p]
                 /\ apps' = [apps EXCEPT ![app[d]] = d]
                 /\ alive' = alive \cup {d} /\ strayed' = strayed
              \/ /\ available' = available /\ pc'[d] = "failed"
                 /\ allocated' = [allocated EXCEPT ![app[d]] = NoPort]
                 /\ UNCHANGED <<port, apps, alive, strayed>>
              \/ /\ available' = available \ {p} /\ pc'[d] = "failed"
                 /\ allocated' = [allocated EXCEPT ![app[d]] = p]
                 /\ UNCHANGED <<port, apps, alive>>
                 /\ strayed' = strayed \cup {p}
<1>t. TypeOK /\ Registrations
  BY DEF RunnerIInv
<1>1. /\ pc[d] = "install" /\ available # {}
      /\ UNCHANGED <<app, overlap, busy>>
  BY DEF Launches, Launch, LaunchFails, LaunchRaises, history
<1>2. Lowest(available) \in available /\ Lowest(available) \in Ports
  BY <1>1, <1>t, LowestPort
<1>3. app[d] \in Apps /\ d \notin alive /\ \A a \in Apps : apps[a] # d
  BY <1>1, <1>t, DevRunnerAssumption DEF Registrations, TypeOK
<1>4. \A e \in Deploys : e # d => pc'[e] = pc[e]
  BY <1>t DEF Launches, Launch, LaunchFails, LaunchRaises, Goto, TypeOK
<1>5. CASE Launch(d)
  BY <1>1, <1>2, <1>3, <1>4, <1>5, <1>t DEF Launch, Goto, history, TypeOK
<1>6. CASE LaunchFails(d)
  BY <1>1, <1>2, <1>3, <1>4, <1>6, <1>t DEF LaunchFails, Goto, history, TypeOK
<1>7. CASE LaunchRaises(d)
  BY <1>1, <1>2, <1>3, <1>4, <1>7, <1>t DEF LaunchRaises, Goto, TypeOK
<1>. QED BY <1>5, <1>6, <1>7 DEF Launches

\* Every step keeps the types.
LEMMA RunnerTypeStep == RunnerIInv /\ [Next]_vars => TypeOK'
<1>. SUFFICES ASSUME RunnerIInv, [Next]_vars PROVE TypeOK'
  OBVIOUS
<1>t. TypeOK
  BY DEF RunnerIInv
<1>1. /\ available' \in SUBSET Ports
      /\ allocated' \in [Apps -> Ports \cup {NoPort}]
      /\ apps' \in [Apps -> Deploys \cup {None}]
      /\ alive' \in SUBSET Deploys
      /\ port' \in [Deploys -> Ports \cup {NoPort}]
      /\ strayed' \in SUBSET Ports
  <2>1. CASE \E d \in Deploys : Launches(d)
    BY <1>t, <2>1, LaunchTakes DEF TypeOK
  <2>2. CASE \E S \in SUBSET Apps : Gone(S)
    BY <1>t, <2>2 DEF Gone, TypeOK
  <2>. QED BY <2>1, <2>2, Steps
<1>2. pc' \in [Deploys -> {"new", "install", "wait", "up", "failed"}]
  BY <1>t DEF TypeOK, Next, Request, InstallFails, NoPortLeft, Launch, LaunchFails,
     LaunchRaises, Ready, NotReady, Exit, Teardown, Cleanup, Goto, vars
<1>3. app' \in [Deploys -> Apps \cup {None}]
  BY <1>t DEF TypeOK, Next, Request, InstallFails, NoPortLeft, Launch, LaunchFails,
     LaunchRaises, Ready, NotReady, Exit, Teardown, Cleanup, vars
<1>4. overlap' \in SUBSET Apps
  <2>1. CASE UNCHANGED overlap
    BY <1>t, <2>1 DEF TypeOK
  <2>2. CASE \E d \in Deploys, a \in Apps : Request(d, a)
    BY <1>t, <2>2 DEF TypeOK, Request
  <2>. QED
    BY <2>1, <2>2 DEF Next, InstallFails, NoPortLeft, Launch, LaunchFails,
       LaunchRaises, Ready, NotReady, Exit, Teardown, Cleanup, history, vars
<1>5. busy' \in BOOLEAN
  <2>1. CASE UNCHANGED busy
    BY <1>t, <2>1 DEF TypeOK
  <2>2. CASE \E d \in Deploys, a \in Apps : Request(d, a)
    BY <1>t, <2>2 DEF TypeOK, Request
  <2>. QED
    BY <2>1, <2>2 DEF Next, InstallFails, NoPortLeft, Launch, LaunchFails,
       LaunchRaises, Ready, NotReady, Exit, Teardown, Cleanup, history, vars
<1>. QED BY <1>1, <1>2, <1>3, <1>4, <1>5 DEF TypeOK

\* Every step keeps the ports accounted for.
LEMMA PortsStep == RunnerIInv /\ [Next]_vars => PortsAreAccountedFor'
<1>. SUFFICES ASSUME RunnerIInv, [Next]_vars PROVE PortsAreAccountedFor'
  OBVIOUS
<1>. USE DevRunnerAssumption DEF PortsAreAccountedFor
<1>t. TypeOK /\ PortsAreAccountedFor /\ Registrations /\ OneDeployEach
  BY DEF RunnerIInv
<1>1. ASSUME NEW d \in Deploys, Launches(d) PROVE PortsAreAccountedFor'
  <2>1. /\ app[d] \in Apps /\ overlap' = overlap
        /\ overlap = {} => allocated[app[d]] \in strayed \cup {NoPort}
    BY <1>1, <1>t, LaunchTakes DEF Registrations, OneDeployEach, UnderWay
  <2>2. PICK p \in available :
          /\ p \in Ports
          /\ \/ /\ available' = available \ {p} /\ strayed' = strayed
                /\ allocated' = [allocated EXCEPT ![app[d]] = p]
             \/ /\ available' = available /\ strayed' = strayed
                /\ allocated' = [allocated EXCEPT ![app[d]] = NoPort]
             \/ /\ available' = available \ {p} /\ strayed' = strayed \cup {p}
                /\ allocated' = [allocated EXCEPT ![app[d]] = p]
    BY <1>1, LaunchTakes
  <2>3. /\ allocated'[app[d]] \in {p, NoPort}
        /\ allocated'[app[d]] = p => p \notin available'
        /\ \A a \in Apps : a # app[d] => allocated'[a] = allocated[a]
        /\ available' \subseteq available /\ NoPort \notin available
        /\ allocated'[app[d]] # p => p \in available'
        /\ \A q \in available : q # p => q \in available'
        /\ strayed \subseteq strayed'
    BY <1>t, <2>1, <2>2, ZenonT(40) DEF TypeOK
  <2>. QED BY <1>t, <2>1, <2>3
<1>2. ASSUME NEW S \in SUBSET Apps, Gone(S) PROVE PortsAreAccountedFor'
  <2>1. /\ NoPort \notin available' /\ strayed' = strayed
        /\ overlap' = {} => overlap = {}
        /\ \A a \in Apps : allocated'[a] = IF a \in S THEN NoPort ELSE allocated[a]
    BY <1>t, <1>2 DEF Gone, TypeOK
  <2>2. \A a \in Apps : allocated'[a] \notin available'
    <3>. SUFFICES ASSUME NEW a \in Apps, allocated'[a] \in available' PROVE FALSE
      OBVIOUS
    <3>1. a \notin S /\ allocated'[a] = allocated[a] /\ allocated[a] # NoPort
      BY <2>1
    <3>2. PICK b \in S : allocated[a] = allocated[b]
      BY <1>t, <1>2, <3>1 DEF Gone
    <3>. QED BY <1>t, <3>1, <3>2
  <2>3. \A a, b \in Apps :
          a # b /\ allocated'[a] = allocated'[b] => allocated'[a] = NoPort
    BY <1>t, <2>1
  <2>4. ASSUME overlap' = {}, NEW p \in Ports
        PROVE  p \in available' \cup {allocated'[a] : a \in Apps} \cup strayed'
    <3>1. CASE p \in available \cup strayed
      BY <1>2, <3>1 DEF Gone
    <3>2. CASE \E a \in Apps : p = allocated[a]
      <4>1. PICK a \in Apps : p = allocated[a]
        BY <3>2
      <4>2. CASE a \in S
        BY <1>2, <4>1, <4>2 DEF Gone
      <4>3. CASE a \notin S
        BY <2>1, <4>1, <4>3
      <4>. QED BY <4>2, <4>3
    <3>. QED BY <1>t, <2>1, <2>4, <3>1, <3>2
  <2>. QED BY <2>2, <2>3, <2>4
<1>. QED BY <1>1, <1>2, Steps

\* Every step keeps the registry and the processes together.
LEMMA RegistryStep == RunnerIInv /\ [Next]_vars => RegistryMatchesProcesses'
<1>. SUFFICES ASSUME RunnerIInv, [Next]_vars PROVE RegistryMatchesProcesses'
  OBVIOUS
<1>. USE DevRunnerAssumption
<1>t. TypeOK /\ RegistryMatchesProcesses /\ Registrations /\ OneDeployEach
  BY DEF RunnerIInv
<1>1. ASSUME NEW d \in Deploys, Launches(d) PROVE RegistryMatchesProcesses'
  <2>. SUFFICES ASSUME overlap' = {}, NEW e \in alive'
                PROVE  apps'[app'[e]] = e /\ allocated'[app'[e]] = port'[e]
    BY DEF RegistryMatchesProcesses
  <2>1. /\ pc[d] = "install" /\ app[d] \in Apps /\ d \notin alive
        /\ app' = app /\ overlap = {} /\ apps[app[d]] = None
    BY <1>1, <1>t, LaunchTakes DEF OneDeployEach, UnderWay
  <2>2. PICK p :
          \/ /\ allocated' = [allocated EXCEPT ![app[d]] = p]
             /\ port' = [port EXCEPT ![d] = p]
             /\ apps' = [apps EXCEPT ![app[d]] = d]
             /\ alive' = alive \cup {d}
          \/ /\ allocated' = [allocated EXCEPT ![app[d]] = p]
             /\ UNCHANGED <<port, apps, alive>>
    BY <1>1, LaunchTakes
  <2>3. CASE e \in alive
    <3>1. apps[app[e]] = e /\ allocated[app[e]] = port[e] /\ app[e] # app[d]
      BY <1>t, <2>1, <2>3 DEF RegistryMatchesProcesses, TypeOK
    <3>2. e \in Deploys /\ e # d /\ app[e] \in Apps
      BY <1>t, <2>1, <2>3 DEF Registrations, TypeOK
    <3>. QED BY <1>t, <2>1, <2>2, <3>1, <3>2 DEF TypeOK
  <2>4. CASE e \notin alive
    BY <1>t, <2>1, <2>2, <2>4 DEF TypeOK
  <2>. QED BY <2>3, <2>4
<1>2. ASSUME NEW S \in SUBSET Apps, Gone(S), LaunchedStay(S)
      PROVE  RegistryMatchesProcesses'
  <2>. SUFFICES ASSUME overlap' = {}, NEW e \in alive'
                PROVE  apps'[app'[e]] = e /\ allocated'[app'[e]] = port'[e]
    BY DEF RegistryMatchesProcesses
  <2>1. /\ e \in alive /\ overlap = {} /\ port' = port
        /\ \A a \in S : apps[a] # e
    BY <1>2 DEF Gone
  <2>2. /\ app'[e] = app[e] /\ app[e] \in Apps
        /\ apps[app[e]] = e /\ allocated[app[e]] = port[e]
    BY <1>2, <1>t, <2>1
       DEF LaunchedStay, Registrations, RegistryMatchesProcesses, TypeOK
  <2>3. app[e] \notin S
    BY <2>1, <2>2
  <2>. QED BY <1>2, <2>1, <2>2, <2>3 DEF Gone
<1>. QED BY <1>1, <1>2, Steps

\* Every step keeps the registrations.
LEMMA RegistrationsStep == RunnerIInv /\ [Next]_vars => Registrations'
<1>. SUFFICES ASSUME RunnerIInv, [Next]_vars PROVE Registrations'
  OBVIOUS
<1>. USE DevRunnerAssumption
<1>t. TypeOK /\ Registrations
  BY DEF RunnerIInv
<1>1. \A d \in Deploys : pc'[d] # "new" => app'[d] \in Apps
  <2>1. CASE \E d \in Deploys, a \in Apps : Request(d, a)
    <3>1. PICK d \in Deploys, a \in Apps : Request(d, a)
      BY <2>1
    <3>2. /\ app' = [app EXCEPT ![d] = a]
          /\ \A e \in Deploys : e # d => pc'[e] = pc[e]
      BY <1>t, <3>1 DEF Request, Goto, TypeOK
    <3>. QED BY <1>t, <3>2 DEF Registrations, TypeOK
  <2>2. CASE /\ app' = app
             /\ \A d \in Deploys : pc[d] = "new" => pc'[d] = "new"
    BY <1>t, <2>2 DEF Registrations
  <2>. QED
    BY <1>t, <2>1, <2>2 DEF Next, InstallFails, NoPortLeft, Launch, LaunchFails,
       LaunchRaises, Ready, NotReady, Exit, Teardown, Cleanup, Goto, vars, TypeOK
<1>2. ASSUME NEW d \in Deploys, Launches(d) PROVE Registrations'
  <2>1. /\ pc[d] = "install" /\ app[d] \in Apps /\ d \notin alive
        /\ \A a \in Apps : apps[a] # d
        /\ app' = app
        /\ \A e \in Deploys : e # d => pc'[e] = pc[e]
    BY <1>2, LaunchTakes
  <2>2. PICK p \in Ports :
          \/ /\ pc'[d] = "wait" /\ strayed' = strayed
             /\ allocated' = [allocated EXCEPT ![app[d]] = p]
             /\ port' = [port EXCEPT ![d] = p]
             /\ apps' = [apps EXCEPT ![app[d]] = d]
             /\ alive' = alive \cup {d}
          \/ /\ allocated' = [allocated EXCEPT ![app[d]] = NoPort]
             /\ UNCHANGED <<port, apps, alive, strayed>>
          \/ /\ allocated' = [allocated EXCEPT ![app[d]] = p]
             /\ UNCHANGED <<port, apps, alive>>
             /\ strayed' = strayed \cup {p}
    BY <1>2, LaunchTakes
  <2>3. \A a \in Apps :
          IF apps'[a] = None THEN allocated'[a] \in strayed' \cup {NoPort}
          ELSE app'[apps'[a]] = a /\ pc'[apps'[a]] \in {"wait", "up"}
    BY <1>t, <2>1, <2>2 DEF Registrations, TypeOK
  <2>4. \A e \in alive' : pc'[e] \in {"wait", "up"} /\ port'[e] \in Ports
    BY <1>t, <2>1, <2>2 DEF Registrations, TypeOK
  <2>. QED BY <1>1, <2>3, <2>4 DEF Registrations
<1>3. ASSUME NEW S \in SUBSET Apps, Gone(S), LaunchedStay(S) PROVE Registrations'
  <2>1. \A a \in Apps :
          IF apps'[a] = None THEN allocated'[a] \in strayed' \cup {NoPort}
          ELSE app'[apps'[a]] = a /\ pc'[apps'[a]] \in {"wait", "up"}
    BY <1>t, <1>3 DEF Registrations, TypeOK, Gone, LaunchedStay
  <2>2. \A e \in alive' : pc'[e] \in {"wait", "up"} /\ port'[e] \in Ports
    BY <1>t, <1>3 DEF Registrations, TypeOK, Gone, LaunchedStay
  <2>. QED BY <1>1, <2>1, <2>2 DEF Registrations
<1>. QED BY <1>2, <1>3, Steps

\* How the deploys under way change: none comes but the one that is requested.
LEMMA UnderWayStep ==
  ASSUME RunnerIInv, [Next]_vars
  PROVE  \/ /\ \A d \in Deploys : pc'[d] = "install" => pc[d] = "install"
            /\ \A d \in Deploys :
                 pc'[d] = "wait" => pc[d] = "wait" \/ (pc[d] = "install" /\ Launches(d))
            /\ UNCHANGED <<app, overlap, busy>>
         \/ \E d \in Deploys, a \in Apps : Request(d, a)
<1>t. TypeOK
  BY DEF RunnerIInv
<1>1. CASE \E d \in Deploys : Launches(d)
  <2>1. PICK d \in Deploys : Launches(d)
    BY <1>1
  <2>2. /\ pc[d] = "install" /\ pc'[d] \in {"wait", "failed"}
        /\ \A e \in Deploys : e # d => pc'[e] = pc[e]
        /\ UNCHANGED <<app, overlap, busy>>
    BY <2>1, LaunchTakes
  <2>. QED BY <2>1, <2>2
<1>2. CASE UNCHANGED <<pc, app, overlap, busy>>
  BY <1>2
<1>3. ASSUME NEW d \in Deploys, InstallFails(d) \/ NoPortLeft(d) \/ NotReady(d) \/ Ready(d)
      PROVE  /\ \A e \in Deploys : pc'[e] \in {"install", "wait"} => pc'[e] = pc[e]
             /\ UNCHANGED <<app, overlap, busy>>
  BY <1>3, <1>t DEF TypeOK, InstallFails, NoPortLeft, Ready, NotReady, Goto, history
<1>. QED
  BY <1>1, <1>2, <1>3 DEF Next, Launches, Exit, Teardown, Cleanup, history, vars

\* Every step keeps each app at one deploy under way.
LEMMA OneDeployStep == RunnerIInv /\ [Next]_vars => OneDeployEach'
<1>. SUFFICES ASSUME RunnerIInv, [Next]_vars, overlap' = {}
              PROVE  /\ \A d, e \in UnderWay' : app'[d] = app'[e] => d = e
                     /\ \A d \in UnderWay' : \/ apps'[app'[d]] = None
                                             \/ pc'[d] = "wait" /\ apps'[app'[d]] = d
  BY DEF OneDeployEach
<1>. USE DevRunnerAssumption
<1>t. TypeOK /\ Registrations /\ OneDeployEach
  BY DEF RunnerIInv
<1>1. CASE \E d \in Deploys, a \in Apps : Request(d, a)
  <2>1. PICK d \in Deploys, a \in Apps : Request(d, a)
    BY <1>1
  <2>2. /\ overlap = {} /\ \A e \in UnderWay : app[e] # a
        /\ app' = [app EXCEPT ![d] = a]
        /\ \A e \in Deploys : e # d => pc'[e] = pc[e] /\ app'[e] = app[e]
        /\ pc[d] = "new" /\ pc'[d] \in {"install", "failed"} /\ app'[d] = a
    <3>1. /\ app' = [app EXCEPT ![d] = a] /\ pc[d] = "new"
          /\ Goto(d, "failed") \/ Goto(d, "install")
          /\ overlap' = overlap \cup {app[e] : e \in {e \in UnderWay : app[e] = a}}
      BY <2>1 DEF Request
    <3>2. overlap = {} /\ \A e \in UnderWay : app[e] # a
      BY <3>1
    <3>. QED BY <1>t, <3>1, <3>2 DEF Goto, TypeOK
  <2>3. PICK S \in SUBSET Apps : Gone(S) /\ (apps[a] # None => a \in S)
    BY <2>1, RequestEnds
  <2>4. \A b \in Apps : apps'[b] \in {apps[b], None} /\ apps'[a] = None
    BY <2>3 DEF Gone
  <2>5. \A e \in UnderWay' : e # d => e \in UnderWay /\ app'[e] # a /\ app[e] \in Apps
    BY <1>t, <2>2 DEF UnderWay, Registrations
  <2>6. \A e, f \in UnderWay' : app'[e] = app'[f] => e = f
    BY <1>t, <2>2, <2>5 DEF OneDeployEach, UnderWay
  <2>7. ASSUME NEW e \in UnderWay'
        PROVE  apps'[app'[e]] = None \/ (pc'[e] = "wait" /\ apps'[app'[e]] = e)
    BY <1>t, <2>2, <2>4, <2>5 DEF OneDeployEach, UnderWay
  <2>. QED BY <2>6, <2>7
<1>2. CASE /\ \A d \in Deploys : pc'[d] = "install" => pc[d] = "install"
           /\ \A d \in Deploys :
                pc'[d] = "wait" => pc[d] = "wait" \/ (pc[d] = "install" /\ Launches(d))
           /\ UNCHANGED <<app, overlap>>
  <2>1. UnderWay' \subseteq UnderWay /\ overlap = {} /\ app' = app
    BY <1>2 DEF UnderWay
  <2>2. \A d, e \in UnderWay' : app'[d] = app'[e] => d = e
    BY <1>t, <2>1 DEF OneDeployEach
  <2>3. ASSUME NEW d \in Deploys, Launches(d), NEW e \in UnderWay'
        PROVE  apps'[app[e]] = None \/ (pc'[e] = "wait" /\ apps'[app[e]] = e)
    <3>1. /\ pc[d] = "install" /\ d \in UnderWay /\ apps[app[d]] = None
          /\ \A f \in Deploys : f # d => pc'[f] = pc[f]
          /\ \/ pc'[d] = "wait" /\ apps' = [apps EXCEPT ![app[d]] = d]
             \/ pc'[d] = "failed" /\ apps' = apps
      BY <1>t, <2>1, <2>3, LaunchTakes DEF OneDeployEach, UnderWay
    <3>2. e \in UnderWay /\ app[e] \in Apps /\ e \in Deploys
      BY <1>t, <2>1 DEF UnderWay, Registrations
    <3>3. CASE e = d
      BY <1>t, <3>1, <3>2, <3>3 DEF TypeOK, UnderWay
    <3>4. CASE e # d
      <4>1. app[e] # app[d]
        BY <1>t, <2>1, <3>1, <3>2, <3>4 DEF OneDeployEach
      <4>. QED BY <1>t, <2>1, <3>1, <3>2, <3>4, <4>1 DEF TypeOK, OneDeployEach
    <3>. QED BY <3>3, <3>4
  <2>4. ASSUME NEW S \in SUBSET Apps, Gone(S), LaunchedStay(S), NEW e \in UnderWay',
               ~Launches(e)
        PROVE  apps'[app[e]] = None \/ (pc'[e] = "wait" /\ apps'[app[e]] = e)
    <3>1. e \in UnderWay /\ app[e] \in Apps /\ apps'[app[e]] \in {apps[app[e]], None}
      BY <1>t, <2>1, <2>4 DEF UnderWay, Registrations, Gone
    <3>2. pc[e] = "wait" => pc'[e] = "wait"
      BY <1>2, <2>4 DEF UnderWay
    <3>. QED BY <1>t, <2>1, <3>1, <3>2 DEF OneDeployEach
  <2>. QED BY <2>1, <2>2, <2>3, <2>4, Steps DEF UnderWay
<1>. QED BY <1>1, <1>2, UnderWayStep

\* A set of apps is finite, and an app more or less counts for one.
LEMMA AppsFinite ==
  ASSUME NEW S \in SUBSET Apps, NEW a
  PROVE  /\ IsFiniteSet(S) /\ Cardinality(S) \in Nat
         /\ Cardinality(S) <= Cardinality(S \ {a}) + 1
         /\ \A T \in SUBSET S : Cardinality(T) \in Nat /\ Cardinality(T) <= Cardinality(S)
<1>1. IsFiniteSet(S)
  BY DevRunnerAssumption, FS_Subset
<1>2. IsFiniteSet(S \ {a}) /\ Cardinality(S \ {a}) \in Nat /\ Cardinality(S) \in Nat
  BY <1>1, FS_RemoveElement, FS_CardinalityType
<1>3. Cardinality(S) <= Cardinality(S \ {a}) + 1
  BY <1>1, <1>2, FS_RemoveElement
<1>. QED BY <1>1, <1>2, <1>3, FS_Subset, FS_CardinalityType

\* Every step keeps the limit and the room a deploy has checked for.
LEMMA RoomStep == RunnerIInv /\ [Next]_vars => RoomIsKept' /\ LimitHolds'
<1>. SUFFICES ASSUME RunnerIInv, [Next]_vars, ~busy'
              PROVE  /\ \A d, e \in UnderWay' : d = e
                     /\ \A d \in Deploys : pc'[d] = "install" =>
                          Cardinality(Registered' \ {app'[d]}) < MaxApps
                     /\ Cardinality(Registered') <= MaxApps
  BY DEF RoomIsKept, LimitHolds
<1>. USE DevRunnerAssumption
<1>t. TypeOK /\ Registrations /\ RoomIsKept /\ LimitHolds /\ Registered \in SUBSET Apps
  BY DEF RunnerIInv, Registered
<1>1. CASE \E d \in Deploys, a \in Apps : Request(d, a)
  <2>1. PICK d \in Deploys, a \in Apps : Request(d, a)
    BY <1>1
  <2>2. ~busy /\ UnderWay = {}
    BY <2>1 DEF Request
  <2>3. /\ \A e \in Deploys : e # d => pc'[e] = pc[e]
        /\ app'[d] = a
        /\ pc'[d] = "install" => Cardinality(Registered \ {a}) < MaxApps
    <3>1. /\ app'[d] = a
          /\ \/ ~Full(Cardinality(Registered \ {a})) /\ Goto(d, "install")
             \/ Goto(d, "failed")
      BY <1>t, <2>1 DEF Request, TypeOK
    <3>2. Cardinality(Registered \ {a}) \in Nat
      BY <1>t, AppsFinite
    <3>. QED BY <1>t, <3>1, <3>2 DEF Goto, TypeOK, Full
  <2>4. PICK S \in SUBSET Apps : Gone(S)
    BY <2>1, RequestEnds
  <2>5. Registered' \subseteq Registered
    BY <2>4 DEF Gone, Registered
  <2>6. /\ Cardinality(Registered') \in Nat
        /\ Cardinality(Registered') <= Cardinality(Registered)
        /\ Cardinality(Registered) \in Nat
        /\ Cardinality(Registered' \ {a}) \in Nat
        /\ Cardinality(Registered' \ {a}) <= Cardinality(Registered \ {a})
        /\ Cardinality(Registered \ {a}) \in Nat
    <3>1. Registered \ {a} \in SUBSET Apps /\ Registered' \ {a} \in SUBSET (Registered \ {a})
      BY <1>t, <2>5
    <3>. QED BY <1>t, <2>5, <3>1, AppsFinite
  <2>7. \A e \in Deploys : pc'[e] = "install" => e = d
    BY <2>2, <2>3 DEF UnderWay
  <2>8. \A e, f \in UnderWay' : e = f
    BY <2>2, <2>3 DEF UnderWay
  <2>9. Cardinality(Registered') <= MaxApps
    BY <1>t, <2>2, <2>6 DEF LimitHolds
  <2>. QED BY <2>3, <2>6, <2>7, <2>8, <2>9
<1>2. CASE /\ \A d \in Deploys : pc'[d] = "install" => pc[d] = "install"
           /\ \A d \in Deploys :
                pc'[d] = "wait" => pc[d] = "wait" \/ (pc[d] = "install" /\ Launches(d))
           /\ UNCHANGED <<app, busy>>
  <2>1. UnderWay' \subseteq UnderWay /\ ~busy /\ app' = app
    BY <1>2 DEF UnderWay
  <2>2. \A d, e \in UnderWay' : d = e
    BY <1>t, <2>1 DEF RoomIsKept
  <2>3. CASE \E d \in Deploys : Launches(d)
    <3>1. PICK d \in Deploys : Launches(d)
      BY <2>3
    <3>2. /\ pc[d] = "install" /\ app[d] \in Apps
          /\ \/ pc'[d] = "wait" /\ apps' = [apps EXCEPT ![app[d]] = d]
             \/ pc'[d] = "failed" /\ apps' = apps
          /\ \A e \in Deploys : e # d => pc'[e] = pc[e]
      BY <3>1, LaunchTakes
    <3>3. Cardinality(Registered \ {app[d]}) < MaxApps
      BY <1>t, <2>1, <3>2 DEF RoomIsKept
    <3>4. Registered' \in SUBSET Apps /\ Registered' \ {app[d]} = Registered \ {app[d]}
      BY <1>t, <3>2 DEF Registered, TypeOK
    <3>5. Cardinality(Registered') <= MaxApps
      <4>1. /\ Cardinality(Registered') <= Cardinality(Registered' \ {app[d]}) + 1
            /\ Cardinality(Registered') \in Nat
            /\ Cardinality(Registered' \ {app[d]}) \in Nat
        BY <3>4, AppsFinite
      <4>2. Cardinality(Registered' \ {app[d]}) < MaxApps
        BY <3>3, <3>4
      <4>3. MaxApps \in Nat
        BY DevRunnerAssumption
      <4>. QED BY <4>1, <4>2, <4>3
    <3>6. \A e \in Deploys : pc'[e] # "install"
      BY <1>2, <1>t, <2>1, <3>2 DEF RoomIsKept, UnderWay
    <3>. QED BY <2>2, <3>5, <3>6
  <2>4. CASE \E S \in SUBSET Apps : Gone(S)
    <3>1. Registered' \subseteq Registered
      BY <2>4 DEF Gone, Registered
    <3>2. /\ Cardinality(Registered') \in Nat
          /\ Cardinality(Registered') <= Cardinality(Registered)
          /\ Cardinality(Registered) \in Nat
      BY <1>t, <3>1, AppsFinite
    <3>3. Cardinality(Registered') <= MaxApps
      BY <1>t, <2>1, <3>2 DEF LimitHolds
    <3>4. ASSUME NEW d \in Deploys, pc'[d] = "install"
          PROVE  Cardinality(Registered' \ {app'[d]}) < MaxApps
      <4>1. Cardinality(Registered \ {app[d]}) < MaxApps
        BY <1>2, <1>t, <2>1, <3>4 DEF RoomIsKept
      <4>2. /\ Registered \ {app[d]} \in SUBSET Apps
            /\ Registered' \ {app[d]} \in SUBSET (Registered \ {app[d]})
        BY <1>t, <3>1
      <4>3. /\ Cardinality(Registered' \ {app[d]}) <= Cardinality(Registered \ {app[d]})
            /\ Cardinality(Registered' \ {app[d]}) \in Nat
            /\ Cardinality(Registered \ {app[d]}) \in Nat
        BY <4>2, AppsFinite
      <4>. QED BY <2>1, <4>1, <4>3
    <3>. QED BY <2>2, <3>3, <3>4
  <2>. QED BY <2>3, <2>4, Steps
<1>. QED BY <1>1, <1>2, UnderWayStep

-----------------------------------------------------------------------------
(* The runner's theorems                                                   *)

LEMMA RunnerInit == Init => RunnerIInv
<1>. SUFFICES ASSUME Init PROVE RunnerIInv
  OBVIOUS
<1>. USE DevRunnerAssumption
<1>1. TypeOK
  BY DEF Init, TypeOK
<1>2. PortsAreAccountedFor
  BY DEF Init, PortsAreAccountedFor
<1>3. Registered = {} /\ UnderWay = {} /\ alive = {}
  BY DEF Init, Registered, UnderWay
<1>4. RegistryMatchesProcesses /\ OneDeployEach /\ Registrations
  BY <1>3 DEF Init, RegistryMatchesProcesses, OneDeployEach, Registrations
<1>5. LimitHolds /\ RoomIsKept
  BY <1>3, FS_EmptySet DEF Init, LimitHolds, RoomIsKept
<1>. QED BY <1>1, <1>2, <1>4, <1>5 DEF RunnerIInv

LEMMA RunnerStep == RunnerIInv /\ [Next]_vars => RunnerIInv'
BY RunnerTypeStep, PortsStep, RegistryStep, RegistrationsStep, OneDeployStep, RoomStep
   DEF RunnerIInv

\* The runner, whatever its requests, exits, teardowns and clean-ups: no port is
\* given twice, none is lost while no app is deployed twice at once, every
\* process can then be torn down by its app, and the limit on apps holds while
\* deploys do not overlap.
THEOREM RunnerSafety == Spec => []RunnerInv
<1>1. RunnerIInv => RunnerInv
  BY DEF RunnerIInv, RunnerInv
<1>. QED BY RunnerInit, RunnerStep, <1>1, PTL DEF Spec

-----------------------------------------------------------------------------
(* The browser sessions                                                    *)

Outside == {"new", "queue", "ended"}
Inside == {"connect", "context", "page", "goto", "work", "close page", "close browser",
           "leave"}
InSlot == {s \in Sessions : at[s] \notin Outside}

\* What a session has found and what it shows was launched.
Places ==
  /\ at \in [Sessions -> Outside \cup Inside]
  /\ \A s \in Sessions :
       /\ at[s] = "new" => page[s] = None
       /\ managed[s] # None => pc[managed[s]] \notin {"new", "install"}
       /\ page[s] # None => pc[page[s]] \notin {"new", "install"}

BrowserIInv == RunnerIInv /\ BrowserInv /\ Places

\* A slot more or less.
LEMMA SlotCounts ==
  ASSUME NEW s \in Sessions
  PROVE  /\ Cardinality(InSlot) \in Nat
         /\ s \notin InSlot => Cardinality(InSlot \cup {s}) = Cardinality(InSlot) + 1
         /\ s \in InSlot => /\ Cardinality(InSlot \ {s}) = Cardinality(InSlot) - 1
                            /\ Cardinality(InSlot) > 0
<1>1. IsFiniteSet(InSlot)
  BY BrowserSessionsAssumption, FS_Subset DEF InSlot
<1>2. s \in InSlot => Cardinality(InSlot) > 0
  BY <1>1, FS_CardinalityType, FS_EmptySet
<1>. QED BY <1>1, <1>2, FS_CardinalityType, FS_AddElement, FS_RemoveElement

\* A launched deploy is not one that has still to be launched.
LEMMA LaunchedStays ==
  ASSUME RunnerIInv, [Next]_vars, NEW d \in Deploys, pc[d] \notin {"new", "install"}
  PROVE  /\ pc'[d] \notin {"new", "install"}
         /\ d \in alive' => d \in alive
         /\ overlap' = {} => overlap = {}
<1>t. TypeOK
  BY DEF RunnerIInv
<1>1. pc'[d] \notin {"new", "install"}
  BY <1>t DEF TypeOK, Next, Request, InstallFails, NoPortLeft, Launch, LaunchFails,
     LaunchRaises, Ready, NotReady, Exit, Teardown, Cleanup, Goto, vars
<1>2. CASE \E e \in Deploys : Launches(e)
  <2>1. PICK e \in Deploys : Launches(e)
    BY <1>2
  <2>2. pc[e] = "install" /\ alive' \in {alive, alive \cup {e}} /\ overlap' = overlap
    BY <2>1, LaunchTakes
  <2>. QED BY <1>1, <2>2
<1>3. CASE \E S \in SUBSET Apps : Gone(S)
  BY <1>1, <1>3 DEF Gone
<1>. QED BY <1>2, <1>3, Steps

\* A step of the runner leaves the sessions as they are.
LEMMA RunnerKeepsSessions ==
  ASSUME BrowserIInv, [Next]_vars, UNCHANGED sessions
  PROVE  BrowserIInv'
<1>t. RunnerIInv /\ SessionsTypeOK /\ SlotsComeBack /\ PageIsOfTheApp /\ Places
  BY DEF BrowserIInv, BrowserInv
<1>1. SessionsTypeOK' /\ SlotsComeBack'
  BY <1>t DEF sessions, SessionsTypeOK, SlotsComeBack
<1>2. PageIsOfTheApp'
  <2>. SUFFICES ASSUME overlap' = {}, NEW s \in Sessions, page'[s] # None,
                       managed'[s] \in alive'
                PROVE  page'[s] = managed'[s]
    BY DEF PageIsOfTheApp
  <2>1. managed'[s] = managed[s] /\ page'[s] = page[s]
    BY DEF sessions
  <2>2. RunnerIInv'
    BY <1>t, RunnerStep
  <2>3. managed[s] \in Deploys /\ managed[s] # None
    BY <2>1, <2>2, DevRunnerAssumption DEF RunnerIInv, TypeOK
  <2>4. managed[s] \in alive /\ overlap = {}
    BY <1>t, <2>1, <2>3, LaunchedStays DEF Places
  <2>. QED BY <1>t, <2>1, <2>4 DEF PageIsOfTheApp
<1>3. Places'
  <2>1. at' = at /\ managed' = managed /\ page' = page
    BY DEF sessions
  <2>2. \A s \in Sessions : /\ managed[s] \in Deploys \cup {None}
                            /\ page[s] \in Deploys \cup {None}
    BY <1>t DEF SessionsTypeOK
  <2>. QED BY <1>t, <2>1, <2>2, LaunchedStays DEF Places
<1>. QED BY <1>t, <1>1, <1>2, <1>3, RunnerStep DEF BrowserIInv, BrowserInv

\* The step of a session, by what it does to its slot.
LEMMA SessionMoves ==
  ASSUME BrowserIInv, NEW s \in Sessions, Session(s)
  PROVE  \E p \in Outside \cup Inside :
           /\ at' = [at EXCEPT ![s] = p]
           /\ \/ /\ at[s] \in Outside /\ p \in Outside /\ UNCHANGED <<free, open>>
              \/ /\ at[s] \in Outside /\ p \in Inside /\ UNCHANGED open
                 /\ free > 0 /\ free' = free - 1
              \/ /\ at[s] \in Inside /\ p \in Inside /\ free' = free
              \/ /\ at[s] \in Inside /\ p \in Outside /\ free' = free + 1
                 /\ open' = [open EXCEPT ![s] = {}]
<1>. USE DEF Outside, Inside, Move
<1>1. ASSUME NEW a \in Apps, Find(s, a)
      PROVE  /\ at[s] = "new" /\ UNCHANGED <<free, open>>
             /\ \E p \in {"ended", "queue"} : at' = [at EXCEPT ![s] = p]
  BY <1>1 DEF Find
<1>2. CASE Connect(s) \/ OpenContext(s) \/ OpenPage(s) \/ Load(s)
  BY <1>2 DEF Connect, OpenContext, OpenPage, Load
<1>6. CASE ConnectFails(s)
  <2>1. at' = at \/ at' = [at EXCEPT ![s] = "leave"]
    BY <1>6 DEF ConnectFails
  <2>2. at[s] = "connect" /\ free' = free
    BY <1>6 DEF ConnectFails
  <2>3. at = [at EXCEPT ![s] = "connect"]
    BY <2>2 DEF BrowserIInv, Places
  <2>. QED BY <2>1, <2>2, <2>3
<1>3. CASE Work(s) \/ Raise(s) \/ ClosePage(s) \/ CloseBrowser(s)
  BY <1>3 DEF Work, Raise, Unwind, ClosePage, CloseBrowser
<1>4. CASE Enter(s)
  BY <1>4 DEF Enter
<1>5. CASE Leave(s)
  BY <1>5 DEF Leave
<1>. QED BY <1>1, <1>2, <1>3, <1>4, <1>5, <1>6 DEF Session

\* It keeps the types.
LEMMA SessionTypes ==
  ASSUME BrowserIInv, NEW s \in Sessions, Session(s)
  PROVE  SessionsTypeOK'
<1>. USE BrowserSessionsAssumption DEF SessionsTypeOK, Move, Say, Opens
<1>t. SessionsTypeOK /\ SlotsComeBack /\ TypeOK
  BY DEF BrowserIInv, BrowserInv, RunnerIInv
<1>1. ASSUME NEW a \in Apps, Find(s, a) PROVE SessionsTypeOK'
  BY <1>1, <1>t DEF Find, TypeOK
<1>2. CASE Enter(s)
  BY <1>2, <1>t DEF Enter
<1>3. CASE Connect(s)
  BY <1>3, <1>t DEF Connect
<1>4. CASE ConnectFails(s)
  <2>1. tries' \in [Sessions -> 0 .. Retries]
    <3>1. tries[s] \in 0 .. Retries /\ Retries \in Nat
      BY <1>t
    <3>2. CASE tries[s] + 1 < Retries /\ tries' = [tries EXCEPT ![s] = tries[s] + 1]
      BY <1>t, <3>1, <3>2
    <3>3. CASE tries' = [tries EXCEPT ![s] = 0]
      BY <1>t, <3>1, <3>3
    <3>. QED BY <1>4, <3>2, <3>3 DEF ConnectFails
  <2>2. answer' \in [Sessions -> {"none", "refused", "ok", "failed", "error"}]
    BY <1>4, <1>t DEF ConnectFails
  <2>. QED BY <1>4, <1>t, <2>1, <2>2 DEF ConnectFails
<1>5. CASE OpenContext(s)
  BY <1>5, <1>t DEF OpenContext
<1>6. CASE OpenPage(s)
  BY <1>6, <1>t DEF OpenPage
<1>7. CASE Load(s)
  BY <1>7, <1>t DEF Load, TypeOK
<1>8. CASE Work(s)
  BY <1>8, <1>t DEF Work
<1>9. CASE Raise(s)
  BY <1>9, <1>t DEF Raise
<1>10. CASE ClosePage(s)
  <2>1. open' \in [Sessions -> SUBSET {"browser", "context", "page"}]
    <3>1. \E o \in SUBSET {"browser", "context", "page"} : open' = [open EXCEPT ![s] = o]
      BY <1>10, <1>t DEF ClosePage
    <3>. QED BY <1>t, <3>1
  <2>2. answer' \in [Sessions -> {"none", "refused", "ok", "failed", "error"}]
    BY <1>10, <1>t DEF ClosePage
  <2>. QED BY <1>10, <1>t, <2>1, <2>2 DEF ClosePage
<1>11. CASE CloseBrowser(s)
  BY <1>11, <1>t DEF CloseBrowser
<1>12. CASE Leave(s)
  <2>1. at[s] = "leave" /\ free' = free + 1
    BY <1>12 DEF Leave
  <2>2. s \in InSlot /\ InSlot = {r \in Sessions : at[r] \notin {"new", "queue", "ended"}}
    BY <2>1 DEF InSlot, Outside
  <2>3. /\ free = Slots - Cardinality(InSlot)
        /\ Cardinality(InSlot) \in Nat /\ Cardinality(InSlot) > 0 /\ Slots \in Nat
    BY <1>t, <2>2, SlotCounts DEF SlotsComeBack
  <2>4. free' \in 0 .. Slots
    BY <1>t, <2>1, <2>3
  <2>. QED BY <1>12, <1>t, <2>4 DEF Leave
<1>. QED
  BY <1>1, <1>2, <1>3, <1>4, <1>5, <1>6, <1>7, <1>8, <1>9, <1>10, <1>11, <1>12 DEF Session

\* It gives its slot back when it goes.
LEMMA SessionSlots ==
  ASSUME BrowserIInv, NEW s \in Sessions, Session(s)
  PROVE  SlotsComeBack' /\ at' \in [Sessions -> Outside \cup Inside]
<1>t. /\ at \in [Sessions -> Outside \cup Inside]
      /\ open \in [Sessions -> SUBSET {"browser", "context", "page"}]
      /\ free \in Nat /\ Slots \in Nat
      /\ free = Slots - Cardinality(InSlot)
      /\ \A r \in Sessions : at[r] \in Outside => open[r] = {}
  BY BrowserSessionsAssumption
     DEF BrowserIInv, BrowserInv, SessionsTypeOK, Places, SlotsComeBack, InSlot, Outside
<1>1. PICK p \in Outside \cup Inside :
        /\ at' = [at EXCEPT ![s] = p]
        /\ \/ /\ at[s] \in Outside /\ p \in Outside /\ UNCHANGED <<free, open>>
           \/ /\ at[s] \in Outside /\ p \in Inside /\ UNCHANGED open
              /\ free > 0 /\ free' = free - 1
           \/ /\ at[s] \in Inside /\ p \in Inside /\ free' = free
           \/ /\ at[s] \in Inside /\ p \in Outside /\ free' = free + 1
              /\ open' = [open EXCEPT ![s] = {}]
  BY SessionMoves
<1>2. at' \in [Sessions -> Outside \cup Inside] /\ at'[s] = p
      /\ \A r \in Sessions : r # s => at'[r] = at[r]
  BY <1>1, <1>t
<1>3. Outside \cap Inside = {}
  BY DEF Outside, Inside
<1>4. \A r \in Sessions : r # s => open'[r] = open[r]
  BY <1>t DEF Session, Find, Enter, Connect, ConnectFails, OpenContext, OpenPage, Load,
     Work, Raise, ClosePage, CloseBrowser, Leave, Opens
<1>5. \A r \in Sessions : at'[r] \in Outside => open'[r] = {}
  BY <1>1, <1>2, <1>3, <1>4, <1>t
<1>6. free' = Slots - Cardinality(InSlot')
  <2>1. CASE (at[s] \in Outside /\ p \in Outside) \/ (at[s] \in Inside /\ p \in Inside)
    <3>1. InSlot' = InSlot /\ free' = free
      BY <1>1, <1>2, <1>3, <2>1 DEF InSlot
    <3>. QED BY <1>t, <3>1
  <2>2. CASE at[s] \in Outside /\ p \in Inside
    <3>1. InSlot' = InSlot \cup {s} /\ s \notin InSlot /\ free' = free - 1
      BY <1>1, <1>2, <1>3, <2>2 DEF InSlot
    <3>2. /\ Cardinality(InSlot) \in Nat
          /\ Cardinality(InSlot') = Cardinality(InSlot) + 1
      BY <3>1, SlotCounts
    <3>. QED BY <1>t, <3>1, <3>2
  <2>3. CASE at[s] \in Inside /\ p \in Outside
    <3>1. InSlot' = InSlot \ {s} /\ s \in InSlot /\ free' = free + 1
      BY <1>1, <1>2, <1>3, <2>3 DEF InSlot
    <3>2. /\ Cardinality(InSlot) \in Nat
          /\ Cardinality(InSlot') = Cardinality(InSlot) - 1
      BY <3>1, SlotCounts
    <3>. QED BY <1>t, <3>1, <3>2
  <2>. QED BY <1>1, <2>1, <2>2, <2>3
<1>. QED BY <1>2, <1>5, <1>6 DEF SlotsComeBack, InSlot, Outside

\* It shows the page of the app it has found.
LEMMA SessionPages ==
  ASSUME BrowserIInv, NEW s \in Sessions, Session(s), UNCHANGED vars
  PROVE  /\ PageIsOfTheApp'
         /\ \A r \in Sessions :
              /\ at'[r] = "new" => page'[r] = None
              /\ managed'[r] # None => pc'[managed'[r]] \notin {"new", "install"}
              /\ page'[r] # None => pc'[page'[r]] \notin {"new", "install"}
<1>. USE DevRunnerAssumption
<1>t. /\ SessionsTypeOK /\ PageIsOfTheApp /\ Places
      /\ TypeOK /\ PortsAreAccountedFor /\ RegistryMatchesProcesses /\ Registrations
  BY DEF BrowserIInv, BrowserInv, RunnerIInv
<1>1. UNCHANGED <<overlap, alive, pc, apps, port>>
  BY DEF vars, tables, history
<1>2. at'[s] # "new" /\ \A r \in Sessions : r # s => at'[r] = at[r]
  <2>1. Session(s) => at[s] # "new" \/ at'[s] \in {"ended", "queue"}
    BY <1>t DEF Session, Find, Enter, Connect, ConnectFails, OpenContext, OpenPage, Load,
       Work, Raise, ClosePage, CloseBrowser, Leave, Move, Places
  <2>2. PICK p \in Outside \cup Inside : at' = [at EXCEPT ![s] = p]
    BY SessionMoves
  <2>3. at[s] # "new" => at'[s] # "new"
    BY <1>t DEF Session, Find, Enter, Connect, ConnectFails, OpenContext, OpenPage, Load,
       Work, Raise, Unwind, ClosePage, CloseBrowser, Leave, Move, Places
  <2>. QED BY <1>t, <2>1, <2>2, <2>3 DEF Places
<1>3. CASE UNCHANGED <<managed, page>>
  BY <1>1, <1>2, <1>3, <1>t DEF PageIsOfTheApp, Places
<1>4. ASSUME NEW a \in Apps, Find(s, a)
      PROVE  \/ UNCHANGED <<managed, page>>
             \/ /\ managed' = [managed EXCEPT ![s] = apps[a]] /\ page' = page
                /\ page[s] = None
                /\ pc[apps[a]] \notin {"new", "install"}
  BY <1>4, <1>t DEF Find, Places, Registrations
<1>5. ASSUME NEW a \in Apps, page[s] = None, page' = page,
             managed' = [managed EXCEPT ![s] = apps[a]],
             pc[apps[a]] \notin {"new", "install"}
      PROVE  /\ PageIsOfTheApp'
             /\ \A r \in Sessions :
                  /\ at'[r] = "new" => page'[r] = None
                  /\ managed'[r] # None => pc'[managed'[r]] \notin {"new", "install"}
                  /\ page'[r] # None => pc'[page'[r]] \notin {"new", "install"}
  BY <1>1, <1>2, <1>5, <1>t DEF PageIsOfTheApp, Places, SessionsTypeOK
<1>6. ASSUME NEW d \in alive, port[d] = port[managed[s]], managed' = managed,
             page' = [page EXCEPT ![s] = d]
      PROVE  /\ PageIsOfTheApp'
             /\ \A r \in Sessions :
                  /\ at'[r] = "new" => page'[r] = None
                  /\ managed'[r] # None => pc'[managed'[r]] \notin {"new", "install"}
                  /\ page'[r] # None => pc'[page'[r]] \notin {"new", "install"}
  <2>1. ASSUME overlap = {}, managed[s] \in alive PROVE d = managed[s]
    <3>1. /\ d \in Deploys /\ managed[s] \in Deploys
          /\ app[d] \in Apps /\ app[managed[s]] \in Apps
          /\ port[d] # NoPort
      BY <1>6, <1>t, <2>1 DEF TypeOK, Registrations
    <3>2. /\ apps[app[d]] = d /\ allocated[app[d]] = port[d]
          /\ apps[app[managed[s]]] = managed[s]
          /\ allocated[app[managed[s]]] = port[managed[s]]
      BY <1>6, <1>t, <2>1 DEF RegistryMatchesProcesses
    <3>3. app[d] = app[managed[s]]
      BY <1>6, <1>t, <3>1, <3>2 DEF PortsAreAccountedFor
    <3>. QED BY <3>2, <3>3
  <2>2. PageIsOfTheApp'
    BY <1>1, <1>6, <1>t, <2>1 DEF PageIsOfTheApp, SessionsTypeOK
  <2>3. pc[d] \notin {"new", "install"}
    BY <1>6, <1>t DEF Registrations
  <2>. QED BY <1>1, <1>2, <1>6, <1>t, <2>2, <2>3 DEF Places, SessionsTypeOK
<1>7. CASE Leave(s)
  BY <1>1, <1>2, <1>7, <1>t DEF Leave, PageIsOfTheApp, Places, SessionsTypeOK
<1>. QED
  BY <1>3, <1>4, <1>5, <1>6, <1>7 DEF Session, Enter, Connect, ConnectFails, OpenContext,
     OpenPage, Load, Work, Raise, ClosePage, CloseBrowser

LEMMA BrowserInit == Init /\ InitSessions => BrowserIInv
<1>. SUFFICES ASSUME Init, InitSessions PROVE BrowserIInv
  OBVIOUS
<1>1. SessionsTypeOK
  BY BrowserSessionsAssumption DEF InitSessions, SessionsTypeOK
<1>2. {s \in Sessions : at[s] \notin {"new", "queue", "ended"}} = {}
  BY DEF InitSessions
<1>3. SlotsComeBack
  BY <1>2, FS_EmptySet, BrowserSessionsAssumption DEF InitSessions, SlotsComeBack
<1>4. PageIsOfTheApp /\ Places
  BY DEF InitSessions, PageIsOfTheApp, Places, Outside
<1>. QED BY <1>1, <1>3, <1>4, RunnerInit DEF BrowserIInv, BrowserInv

\* The browser endpoints, whatever fails in a session and whatever happens to
\* the apps meanwhile: a slot always comes back, nothing a session opened
\* outlives it, and what it shows is the app it found, while that one runs.
THEOREM BrowserSafety == SpecBoth => []BrowserInv
<1>1. BrowserIInv /\ [NextBoth]_<<vars, sessions>> => BrowserIInv'
  <2>. SUFFICES ASSUME BrowserIInv, [NextBoth]_<<vars, sessions>> PROVE BrowserIInv'
    OBVIOUS
  <2>1. CASE [Next]_vars /\ UNCHANGED sessions
    BY <2>1, RunnerKeepsSessions
  <2>2. ASSUME NEW s \in Sessions, Session(s), UNCHANGED vars PROVE BrowserIInv'
    <3>1. RunnerIInv'
      BY <2>2, RunnerStep DEF BrowserIInv
    <3>2. SessionsTypeOK' /\ SlotsComeBack' /\ at' \in [Sessions -> Outside \cup Inside]
      BY <2>2, SessionTypes, SessionSlots
    <3>3. PageIsOfTheApp' /\ Places'
      BY <2>2, <3>2, SessionPages DEF Places
    <3>. QED BY <3>1, <3>2, <3>3 DEF BrowserIInv, BrowserInv
  <2>. QED BY <2>1, <2>2 DEF NextBoth, NextSessions
<1>2. BrowserIInv => BrowserInv
  BY DEF BrowserIInv
<1>. QED BY BrowserInit, <1>1, <1>2, PTL DEF SpecBoth

-----------------------------------------------------------------------------
\* ChatBridge.

\* How often a mention waits in the queue.
PlacesOf(s, e) == {i \in 1 .. Len(s) : s[i] = e}
Waiting(m) == Cardinality(PlacesOf(queue, m))

\* Whether the handler has a mention before it, in one of some steps.
InHand(m, steps) == IF current = m /\ handler \in steps THEN 1 ELSE 0

\* The issues and the replies that were made of a mention or will be.
IssuesDue(m) == issues[m] + Waiting(m) + InHand(m, {"create"})
AnswersDue(m) == answers[m] + Waiting(m) + InHand(m, {"create", "wait", "reply"})

\* A mention whose turn was taken: it is marked, or no poll and not the present
\* turn will come upon it.
Findable(m) == age[m] # "old" \/ m \in found
Settled(m) == IF m \in B!Range(processed) \/ ~Findable(m) THEN 1 ELSE 0

\* Each loss of a mark gives a mention one turn more.
Turns ==
  \A m \in Mentions :
    /\ IssuesDue(m) <= forgotten[m] + Settled(m)
    /\ AnswersDue(m) <= forgotten[m] + Settled(m)

\* The types of all variables; nothing is found before it was sent.
BridgeKinds ==
  /\ B!TypeOK
  /\ processed \in Seq(Mentions) /\ queue \in Seq(Mentions)
  /\ issues \in [Mentions -> Nat] /\ answers \in [Mentions -> Nat]
  /\ forgotten \in [Mentions -> Nat]
  /\ faults \in Nat /\ restarts \in Nat
  /\ \A m \in Mentions : age[m] = "unsent" => m \notin found \cup B!Range(processed)

\* The handler has a mention while it handles one, and ends with the main thread.
Handling ==
  /\ current # B!None <=> handler \in {"create", "wait", "reply"}
  /\ handler = "dead" <=> main = "exit"

\* An entry in inflight is that of the issue that is waited for, or was left there.
Waited ==
  handler # "dead" =>
    \A e \in inflight :
      \/ e[1] \in raised
      \/ handler \in {"wait", "reply"} /\ e = <<current, issues[current]>>

BridgeIInv == BridgeKinds /\ Handling /\ Turns /\ Waited /\ B!MarkedIsAccountedFor

-----------------------------------------------------------------------------
\* The places of an element are finitely many.
LEMMA PlacesCounted ==
  ASSUME NEW S, NEW s \in Seq(S), NEW e
  PROVE  IsFiniteSet(PlacesOf(s, e)) /\ Cardinality(PlacesOf(s, e)) \in Nat
<1>1. IsFiniteSet(1 .. Len(s))
  BY LenProperties, FS_Interval
<1>. QED BY <1>1, FS_Subset, FS_CardinalityType DEF PlacesOf

\* Appending an element.
LEMMA Appended ==
  ASSUME NEW S, NEW s \in Seq(S), NEW e \in S
  PROVE  /\ Append(s, e) \in Seq(S) /\ Len(Append(s, e)) = Len(s) + 1
         /\ B!Range(Append(s, e)) = B!Range(s) \cup {e}
         /\ s # <<>> => Head(Append(s, e)) = Head(s)
         /\ \A k : Cardinality(PlacesOf(Append(s, e), k))
                     = Cardinality(PlacesOf(s, k)) + (IF k = e THEN 1 ELSE 0)
<1>. DEFINE t == Append(s, e)
<1>1. /\ t \in Seq(S) /\ Len(t) = Len(s) + 1 /\ t[Len(s) + 1] = e
      /\ \A i \in 1 .. Len(s) : t[i] = s[i]
  BY AppendProperties
<1>2. Len(s) \in Nat /\ DOMAIN s = 1 .. Len(s) /\ DOMAIN t = 1 .. Len(t)
  BY <1>1, LenProperties
<1>a. s # <<>> => Head(t) = Head(s)
  <2>. SUFFICES ASSUME s # <<>> PROVE Head(t) = Head(s)
    OBVIOUS
  <2>1. 1 \in 1 .. Len(s)
    BY <1>2, EmptySeq
  <2>2. t[1] = s[1]
    BY <1>1, <2>1
  <2>. QED BY <2>2
<1>. HIDE DEF t
<1>3. B!Range(t) = B!Range(s) \cup {e}
  <2>1. ASSUME NEW i \in 1 .. Len(t) PROVE t[i] \in B!Range(s) \cup {e}
    <3>1. i \in 1 .. Len(s) \/ i = Len(s) + 1
      BY <1>1, <1>2
    <3>. QED BY <1>1, <1>2, <3>1 DEF B!Range
  <2>2. ASSUME NEW i \in 1 .. Len(s) PROVE s[i] \in B!Range(t)
    <3>1. i \in 1 .. Len(t)
      BY <1>1, <1>2
    <3>. QED BY <1>1, <1>2, <3>1 DEF B!Range
  <2>3. e \in B!Range(t)
    <3>1. Len(s) + 1 \in 1 .. Len(t)
      BY <1>1, <1>2
    <3>. QED BY <1>1, <1>2, <3>1 DEF B!Range
  <2>. QED BY <1>2, <2>1, <2>2, <2>3 DEF B!Range
<1>4. ASSUME NEW k
      PROVE  Cardinality(PlacesOf(t, k)) = Cardinality(PlacesOf(s, k)) + (IF k = e THEN 1 ELSE 0)
  <2>1. \A i : i \in 1 .. Len(t) <=> i \in 1 .. Len(s) \/ i = Len(s) + 1
    BY <1>1, <1>2
  <2>2. Len(s) + 1 \notin PlacesOf(s, k)
    BY <1>2 DEF PlacesOf
  <2>3. CASE k = e
    <3>1. PlacesOf(t, k) = PlacesOf(s, k) \cup {Len(s) + 1}
      BY <1>1, <2>1, <2>3 DEF PlacesOf
    <3>. QED BY <2>2, <2>3, <3>1, PlacesCounted, FS_AddElement
  <2>4. CASE k # e
    <3>1. PlacesOf(t, k) = PlacesOf(s, k)
      BY <1>1, <2>1, <2>4 DEF PlacesOf
    <3>. QED BY <2>4, <3>1, PlacesCounted
  <2>. QED BY <2>3, <2>4
<1>. QED BY <1>1, <1>a, <1>3, <1>4 DEF t

\* Taking the first element.
LEMMA Removed ==
  ASSUME NEW S, NEW s \in Seq(S), s # <<>>
  PROVE  /\ Tail(s) \in Seq(S) /\ Len(Tail(s)) = Len(s) - 1 /\ Len(s) \in Nat
         /\ Head(s) \in S /\ Head(s) \in B!Range(s)
         /\ B!Range(Tail(s)) \subseteq B!Range(s)
         /\ B!Range(s) \subseteq B!Range(Tail(s)) \cup {Head(s)}
         /\ \A k : Cardinality(PlacesOf(Tail(s), k)) + (IF k = Head(s) THEN 1 ELSE 0)
                     = Cardinality(PlacesOf(s, k))
<1>. DEFINE t == Tail(s)
<1>1. /\ t \in Seq(S) /\ Len(t) = Len(s) - 1 /\ Head(s) \in S
      /\ \A i \in 1 .. Len(t) : t[i] = s[i + 1]
  BY HeadTailProperties
<1>2. Len(s) \in Nat \ {0} /\ DOMAIN s = 1 .. Len(s) /\ DOMAIN t = 1 .. Len(t)
  BY <1>1, LenProperties, EmptySeq
<1>3. Head(s) = s[1]
  OBVIOUS
<1>. HIDE DEF t
<1>4. Head(s) \in B!Range(s)
  BY <1>2, <1>3 DEF B!Range
<1>5. ASSUME NEW i \in 1 .. Len(t) PROVE i + 1 \in 1 .. Len(s) \ {1} /\ t[i] = s[i + 1]
  BY <1>1, <1>2
<1>6. ASSUME NEW i \in 1 .. Len(s), i # 1
      PROVE  i - 1 \in 1 .. Len(t) /\ t[i - 1] = s[i]
  <2>1. i - 1 \in 1 .. Len(t) /\ (i - 1) + 1 = i
    BY <1>1, <1>2, <1>6
  <2>. QED BY <1>1, <2>1
<1>7. /\ B!Range(t) \subseteq B!Range(s)
      /\ B!Range(s) \subseteq B!Range(t) \cup {Head(s)}
  <2>1. B!Range(t) \subseteq B!Range(s)
    BY <1>2, <1>5 DEF B!Range
  <2>2. ASSUME NEW i \in 1 .. Len(s) PROVE s[i] \in B!Range(t) \cup {Head(s)}
    <3>1. CASE i = 1
      BY <1>3, <3>1
    <3>2. CASE i # 1
      BY <1>2, <1>6, <3>2 DEF B!Range
    <3>. QED BY <3>1, <3>2
  <2>. QED BY <1>2, <2>1, <2>2 DEF B!Range
<1>8. ASSUME NEW k
      PROVE  Cardinality(PlacesOf(t, k)) + (IF k = Head(s) THEN 1 ELSE 0)
               = Cardinality(PlacesOf(s, k))
  <2>. DEFINE D == PlacesOf(s, k) \ {1}
              f == [i \in PlacesOf(t, k) |-> i + 1]
  <2>1. ASSUME NEW i \in PlacesOf(t, k) PROVE f[i] \in D /\ i \in Int /\ f[i] = i + 1
    BY <1>2, <1>5, <2>1 DEF PlacesOf
  <2>2. ASSUME NEW i \in D PROVE i - 1 \in PlacesOf(t, k) /\ f[i - 1] = i
    BY <1>6, <2>2 DEF PlacesOf
  <2>3. f \in [PlacesOf(t, k) -> D]
    BY <2>1
  <2>. HIDE DEF f, D
  <2>4. \A i, j \in PlacesOf(t, k) : f[i] = f[j] => i = j
    BY <2>1
  <2>5. f \in Injection(PlacesOf(t, k), D)
    BY <2>3, <2>4 DEF Injection, IsInjective
  <2>6. f \in Surjection(PlacesOf(t, k), D)
    BY <2>2, <2>3 DEF Surjection
  <2>7. Cardinality(D) = Cardinality(PlacesOf(t, k))
    BY <1>1, <2>5, <2>6, PlacesCounted, FS_Surjection
  <2>8. 1 \in PlacesOf(s, k) <=> k = Head(s)
    BY <1>2, <1>3 DEF PlacesOf
  <2>9. Cardinality(D) = IF 1 \in PlacesOf(s, k) THEN Cardinality(PlacesOf(s, k)) - 1
                                                 ELSE Cardinality(PlacesOf(s, k))
    BY PlacesCounted, FS_RemoveElement DEF D
  <2>. QED BY <2>7, <2>8, <2>9, PlacesCounted
<1>. QED BY <1>1, <1>2, <1>4, <1>7, <1>8 DEF t

\* The empty queue.
LEMMA Empty ==
  /\ B!Range(<<>>) = {} /\ Len(<<>>) = 0 /\ \A S : <<>> \in Seq(S)
  /\ \A e : Cardinality(PlacesOf(<<>>, e)) = 0
<1>1. \A e : PlacesOf(<<>>, e) = {}
  BY EmptySeq DEF PlacesOf
<1>. QED BY <1>1, EmptySeq, FS_EmptySet DEF B!Range

-----------------------------------------------------------------------------
\* What every state that satisfies the invariant knows.
LEMMA Known ==
  ASSUME B!ChatBridgeAssumption, BridgeIInv
  PROVE  /\ processed \in Seq(Mentions) /\ queue \in Seq(Mentions)
         /\ B!Range(processed) \subseteq Mentions /\ B!Range(queue) \subseteq Mentions
         /\ Len(processed) \in Nat /\ Len(queue) \in Nat
         /\ Len(processed) <= MaxDedup /\ Len(queue) <= MaxQueue
         /\ issues \in [Mentions -> Nat] /\ answers \in [Mentions -> Nat]
         /\ forgotten \in [Mentions -> Nat]
         /\ restarts \in Nat
         /\ current \in Mentions \cup {B!None} /\ B!None \notin Mentions
         /\ handler \in {"check", "get", "create", "wait", "reply", "stopped", "dead"}
         /\ main \in {"poll", "consider", "exit"}
         /\ inflight \subseteq Mentions \X Nat
         /\ raised \subseteq Mentions /\ unheard \subseteq Mentions
         /\ found \subseteq Mentions
         /\ age \in [Mentions -> {"unsent", "recent", "old"}] /\ stopped \in BOOLEAN
         /\ faults \in Nat
BY LenProperties DEF B!ChatBridgeAssumption, BridgeIInv, BridgeKinds, B!TypeOK

\* The counts are numbers.
LEMMA Counted ==
  ASSUME BridgeKinds, NEW m \in Mentions
  PROVE  /\ issues[m] \in Nat /\ answers[m] \in Nat /\ forgotten[m] \in Nat
         /\ Waiting(m) \in Nat /\ Settled(m) \in {0, 1}
         /\ IssuesDue(m) \in Nat /\ AnswersDue(m) \in Nat
<1>1. issues[m] \in Nat /\ answers[m] \in Nat /\ forgotten[m] \in Nat
  BY DEF BridgeKinds
<1>2. Waiting(m) \in Nat
  BY PlacesCounted DEF BridgeKinds, Waiting
<1>3. Settled(m) \in {0, 1} /\ \A steps : InHand(m, steps) \in {0, 1}
  BY DEF Settled, InHand
<1>. QED BY <1>1, <1>2, <1>3 DEF IssuesDue, AnswersDue

LEMMA CountedNext ==
  ASSUME BridgeKinds', NEW m \in Mentions
  PROVE  /\ issues'[m] \in Nat /\ answers'[m] \in Nat /\ forgotten'[m] \in Nat
         /\ Waiting(m)' \in Nat /\ Settled(m)' \in {0, 1}
         /\ IssuesDue(m)' \in Nat /\ AnswersDue(m)' \in Nat
<1>1. issues'[m] \in Nat /\ answers'[m] \in Nat /\ forgotten'[m] \in Nat
  BY DEF BridgeKinds
<1>2. Waiting(m)' \in Nat
  BY PlacesCounted DEF BridgeKinds, Waiting
<1>3. Settled(m)' \in {0, 1} /\ \A steps : InHand(m, steps)' \in {0, 1}
  BY DEF Settled, InHand
<1>. QED BY <1>1, <1>2, <1>3 DEF IssuesDue, AnswersDue

\* A step after which no more is due to a mention, and as many turns were taken.
LEMMA NoMoreDue ==
  ASSUME BridgeIInv, BridgeKinds', NEW m \in Mentions,
         IssuesDue(m)' <= IssuesDue(m), AnswersDue(m)' <= AnswersDue(m),
         forgotten[m] + Settled(m) <= forgotten'[m] + Settled(m)'
  PROVE  /\ IssuesDue(m)' <= forgotten'[m] + Settled(m)'
         /\ AnswersDue(m)' <= forgotten'[m] + Settled(m)'
<1>1. /\ IssuesDue(m) <= forgotten[m] + Settled(m)
      /\ AnswersDue(m) <= forgotten[m] + Settled(m)
  BY DEF BridgeIInv, Turns
<1>2. BridgeKinds
  BY DEF BridgeIInv
<1>. QED BY <1>1, <1>2, Counted, CountedNext

\* What was marked stays so, and what will not be found is not found again.
LEMMA StaysSettled ==
  ASSUME BridgeKinds, NEW m \in Mentions, forgotten'[m] = forgotten[m],
         m \in B!Range(processed) => m \in B!Range(processed'),
         Findable(m)' => Findable(m)
  PROVE  forgotten[m] + Settled(m) <= forgotten'[m] + Settled(m)'
<1>1. forgotten[m] \in Nat /\ Settled(m) \in {0, 1}
  BY Counted
<1>2. Settled(m)' \in {0, 1} /\ (Settled(m) = 1 => Settled(m)' = 1)
  BY DEF Settled
<1>. QED BY <1>1, <1>2

\* The handler has less before it, or as much.
LEMMA LessInHand ==
  ASSUME BridgeKinds, NEW m \in Mentions, UNCHANGED <<queue, issues, answers>>,
         \A steps \in {{"create"}, {"create", "wait", "reply"}} :
           InHand(m, steps)' <= InHand(m, steps)
  PROVE  IssuesDue(m)' <= IssuesDue(m) /\ AnswersDue(m)' <= AnswersDue(m)
<1>1. Waiting(m)' = Waiting(m)
  BY DEF Waiting
<1>2. \A steps : InHand(m, steps) \in Nat /\ InHand(m, steps)' \in Nat
  BY DEF InHand
<1>3. issues[m] \in Nat /\ answers[m] \in Nat /\ Waiting(m) \in Nat
  BY Counted
<1>. QED BY <1>1, <1>2, <1>3 DEF IssuesDue, AnswersDue

LEMMA IdleTurns ==
  ASSUME BridgeIInv, BridgeKinds',
         UNCHANGED <<age, found, processed, forgotten, queue, issues, answers>>,
         \A m \in Mentions : \A steps \in {{"create"}, {"create", "wait", "reply"}} :
           InHand(m, steps)' <= InHand(m, steps)
  PROVE  Turns'
<1>. SUFFICES ASSUME NEW m \in Mentions
              PROVE  /\ IssuesDue(m)' <= forgotten'[m] + Settled(m)'
                     /\ AnswersDue(m)' <= forgotten'[m] + Settled(m)'
  BY DEF Turns
<1>1. IssuesDue(m)' <= IssuesDue(m) /\ AnswersDue(m)' <= AnswersDue(m)
  BY LessInHand DEF BridgeIInv
<1>2. Findable(m)' => Findable(m)
  BY DEF Findable
<1>. QED BY <1>1, <1>2, StaysSettled, NoMoreDue DEF BridgeIInv

\* Nothing is due to a mention of which no table and no count knows.
LEMMA NothingDue ==
  ASSUME BridgeKinds, queue = <<>>, current = B!None, B!None \notin Mentions,
         \A m \in Mentions : issues[m] = 0 /\ answers[m] = 0
  PROVE  Turns
<1>. SUFFICES ASSUME NEW m \in Mentions
              PROVE  /\ IssuesDue(m) <= forgotten[m] + Settled(m)
                     /\ AnswersDue(m) <= forgotten[m] + Settled(m)
  BY DEF Turns
<1>1. Waiting(m) = 0 /\ \A steps : InHand(m, steps) = 0
  BY Empty DEF Waiting, InHand
<1>. QED BY <1>1, Counted DEF IssuesDue, AnswersDue

\* A step that leaves the tables, the handler and the counts alone.
LEMMA Beside ==
  ASSUME B!ChatBridgeAssumption, BridgeIInv,
         UNCHANGED <<processed, queue, B!handlerVars, issues, B!replies, raised, forgotten,
                     restarts>>,
         age' \in [Mentions -> {"unsent", "recent", "old"}], found' \subseteq Mentions,
         main' \in {"poll", "consider", "exit"}, stopped' \in BOOLEAN, faults' \in Nat,
         main' = "exit" <=> main = "exit",
         \A m \in Mentions :
           /\ age'[m] = "unsent" => age[m] = "unsent" /\ m \notin found'
           /\ Findable(m)' => Findable(m)
  PROVE  BridgeIInv'
<1>. USE DEF B!handlerVars, B!replies
<1>1. BridgeKinds'
  BY DEF BridgeIInv, BridgeKinds, B!TypeOK
<1>2. Handling' /\ Waited' /\ B!MarkedIsAccountedFor'
  BY DEF BridgeIInv, Handling, Waited, B!MarkedIsAccountedFor
<1>3. Turns'
  <2>. SUFFICES ASSUME NEW m \in Mentions
                PROVE  /\ IssuesDue(m)' <= forgotten'[m] + Settled(m)'
                       /\ AnswersDue(m)' <= forgotten'[m] + Settled(m)'
    BY DEF Turns
  <2>1. \A steps : InHand(m, steps)' = InHand(m, steps) /\ InHand(m, steps) \in Nat
    BY DEF InHand
  <2>2. IssuesDue(m)' <= IssuesDue(m) /\ AnswersDue(m)' <= AnswersDue(m)
    BY <2>1, LessInHand DEF BridgeIInv
  <2>. QED BY <1>1, <2>2, StaysSettled, NoMoreDue DEF BridgeIInv
<1>. QED BY <1>1, <1>2, <1>3 DEF BridgeIInv

\* The handler has its mention no longer: it was answered, or the answer was
\* refused, or its handling raised.
LEMMA Left ==
  ASSUME B!ChatBridgeAssumption, BridgeIInv, handler \in {"create", "wait", "reply"},
         handler' = "check", current' = B!None,
         UNCHANGED <<B!rest, queue>>, faults' \in Nat,
         \/ issues' = issues
         \/ handler = "create" /\ issues' = [issues EXCEPT ![current] = @ + 1],
         \/ B!Delivered(current) /\ raised' = raised
         \/ B!Refused(current) /\ raised' = raised
         \/ UNCHANGED B!replies /\ raised' = raised \cup {current},
         \/ inflight' = inflight \ {<<current, issues[current]>>}
         \/ inflight' = inflight /\ (handler = "create" \/ current \in raised')
  PROVE  BridgeIInv'
<1>0. current \in Mentions /\ current # B!None /\ main # "exit" /\ handler # "dead"
  BY Known DEF BridgeIInv, Handling
<1>. USE DEF B!rest, B!mainVars, B!replies, B!Delivered, B!Refused
<1>a. issues[current] + 1 \in Nat /\ answers[current] + 1 \in Nat
      /\ answers[current] + 1 > 0
  BY <1>0, Known
<1>b. /\ answers' = answers \/ answers' = [answers EXCEPT ![current] = @ + 1]
      /\ raised \subseteq raised' /\ raised' \subseteq raised \cup {current}
      /\ unheard \subseteq unheard' /\ unheard' \subseteq unheard \cup {current}
      /\ current \in unheard' \cup raised' \/ answers' = [answers EXCEPT ![current] = @ + 1]
  OBVIOUS
<1>1. issues' \in [Mentions -> Nat] /\ answers' \in [Mentions -> Nat]
  <2>1. issues \in [Mentions -> Nat] /\ answers \in [Mentions -> Nat]
    BY Known
  <2>2. issues' \in [Mentions -> Nat]
    <3>1. issues' = issues \/ issues' = [issues EXCEPT ![current] = issues[current] + 1]
      OBVIOUS
    <3>. QED BY <1>a, <2>1, <3>1
  <2>3. answers' \in [Mentions -> Nat]
    <3>1. answers' = answers \/ answers' = [answers EXCEPT ![current] = answers[current] + 1]
      BY <1>b
    <3>. QED BY <1>a, <2>1, <3>1
  <2>. QED BY <2>2, <2>3
<1>2. BridgeKinds'
  BY <1>0, <1>b, <1>1, Known DEF BridgeIInv, BridgeKinds, B!TypeOK
<1>3. Handling'
  BY <1>0, Known DEF BridgeIInv, Handling
<1>4. Waited'
  BY <1>0, <1>b DEF BridgeIInv, Waited
<1>5. B!MarkedIsAccountedFor'
  <2>1. current \in unheard' \cup raised' \/ answers'[current] > 0
    BY <1>0, <1>a, <1>b, Known
  <2>2. \A m \in Mentions : m # current => answers'[m] = answers[m]
    BY <1>0, <1>b, Known
  <2>. QED BY <1>0, <1>b, <2>1, <2>2, Known DEF BridgeIInv, B!MarkedIsAccountedFor
<1>6. Turns'
  <2>. SUFFICES ASSUME NEW m \in Mentions
                PROVE  /\ IssuesDue(m)' <= forgotten'[m] + Settled(m)'
                       /\ AnswersDue(m)' <= forgotten'[m] + Settled(m)'
    BY DEF Turns
  <2>1. Waiting(m)' = Waiting(m) /\ Waiting(m) \in Nat /\ issues[m] \in Nat /\ answers[m] \in Nat
    BY Counted DEF BridgeIInv, Waiting
  <2>2. /\ issues'[m] = issues[m] \/ (issues'[m] = issues[m] + 1 /\ InHand(m, {"create"}) = 1)
        /\ answers'[m] = answers[m]
           \/ (answers'[m] = answers[m] + 1 /\ InHand(m, {"create", "wait", "reply"}) = 1)
    BY <1>0, <1>b, Known DEF InHand
  <2>3. \A steps : InHand(m, steps)' = 0 /\ InHand(m, steps) \in {0, 1}
    BY <1>0, Known DEF InHand
  <2>4. IssuesDue(m)' <= IssuesDue(m) /\ AnswersDue(m)' <= AnswersDue(m)
    BY <2>1, <2>2, <2>3 DEF IssuesDue, AnswersDue
  <2>5. Findable(m)' => Findable(m)
    BY DEF Findable
  <2>. QED BY <1>2, <2>4, <2>5, StaysSettled, NoMoreDue DEF BridgeIInv
<1>. QED BY <1>2, <1>3, <1>4, <1>5, <1>6 DEF BridgeIInv

-----------------------------------------------------------------------------
\* A mention is marked; with the table full the oldest mark goes, and counts as
\* forgotten when its mention can still be found.
LEMMA Remembered ==
  ASSUME B!ChatBridgeAssumption, BridgeIInv, UNCHANGED age,
         NEW m \in found \ B!Range(processed), B!Mark(m), found' = found \ {m}
  PROVE  /\ processed' \in Seq(Mentions) /\ Len(processed') <= MaxDedup
         /\ B!Range(processed') \subseteq B!Range(processed) \cup {m}
         /\ forgotten' \in [Mentions -> Nat]
         /\ forgotten'[m] = forgotten[m] /\ m \in B!Range(processed')
         /\ \A k \in Mentions : k # m => forgotten[k] + Settled(k) <= forgotten'[k] + Settled(k)'
<1>. DEFINE p == Append(processed, m)
<1>. PICK h : h = Head(p)
  OBVIOUS
<1>0. m \in Mentions /\ BridgeKinds
  BY Known DEF BridgeIInv
<1>1. /\ p \in Seq(Mentions) /\ Len(p) = Len(processed) + 1
      /\ B!Range(p) = B!Range(processed) \cup {m}
      /\ processed # <<>> => h = Head(processed)
  <2>1. processed \in Seq(Mentions)
    BY Known
  <2>. QED BY <1>0, <2>1, Appended
<1>2. IF Len(p) > MaxDedup
      THEN /\ processed' = Tail(p)
           /\ forgotten' = IF age[h] = "recent" \/ h \in found'
                           THEN [forgotten EXCEPT ![h] = @ + 1] ELSE forgotten
      ELSE processed' = p /\ forgotten' = forgotten
  BY DEF B!Mark
<1>3. \A k \in Mentions : Findable(k)' => Findable(k)
  BY DEF Findable
<1>. HIDE DEF p
<1>4. CASE Len(p) <= MaxDedup
  <2>1. processed' = p /\ forgotten' = forgotten
    BY <1>1, <1>2, <1>4, Known DEF B!ChatBridgeAssumption
  <2>. QED BY <1>0, <1>1, <1>3, <1>4, <2>1, Known, StaysSettled
<1>5. CASE Len(p) > MaxDedup
  <2>1. /\ processed' = Tail(p)
        /\ forgotten' = IF age[h] = "recent" \/ h \in found'
                        THEN [forgotten EXCEPT ![h] = @ + 1] ELSE forgotten
    BY <1>2, <1>5
  <2>2. Len(processed) = MaxDedup /\ processed # <<>> /\ p # <<>> /\ MaxDedup \in Nat \ {0}
    BY <1>1, <1>5, Known, EmptySeq DEF B!ChatBridgeAssumption
  <2>3. h = Head(processed) /\ h \in B!Range(processed) /\ h \in Mentions /\ h # m
    <3>1. processed \in Seq(Mentions) /\ B!Range(processed) \subseteq Mentions
      BY Known
    <3>2. Head(processed) \in B!Range(processed)
      BY <2>2, <3>1, Removed
    <3>. QED BY <1>1, <2>2, <3>1, <3>2, Zenon
  <2>4. /\ processed' \in Seq(Mentions) /\ Len(processed') = Len(p) - 1
        /\ B!Range(processed') \subseteq B!Range(p)
        /\ B!Range(p) \subseteq B!Range(processed') \cup {h}
    BY <1>1, <2>1, <2>2, Removed
  <2>5. Len(processed') <= MaxDedup
    BY <1>1, <2>2, <2>4
  <2>6. /\ forgotten' \in [Mentions -> Nat] /\ forgotten[h] \in Nat
        /\ \A k \in Mentions : k # h => forgotten'[k] = forgotten[k]
        /\ forgotten'[h] = IF age[h] = "recent" \/ h \in found'
                           THEN forgotten[h] + 1 ELSE forgotten[h]
    <3>1. h \in Mentions /\ forgotten \in [Mentions -> Nat]
      BY <2>3, Known
    <3>2. forgotten[h] + 1 \in Nat /\ forgotten[h] \in Nat
      BY <3>1
    <3>3. CASE age[h] = "recent" \/ h \in found'
      BY <2>1, <3>1, <3>2, <3>3
    <3>4. CASE ~(age[h] = "recent" \/ h \in found')
      BY <2>1, <3>1, <3>2, <3>4
    <3>. QED BY <3>3, <3>4
  <2>7. forgotten[h] + Settled(h) <= forgotten'[h] + Settled(h)'
    <3>1. Settled(h) = 1 /\ Settled(h)' \in {0, 1}
      BY <2>3 DEF Settled
    <3>2. age[h] # "unsent" /\ age'[h] = age[h]
      BY <1>0, <2>3 DEF BridgeKinds
    <3>a. age[h] \in {"unsent", "recent", "old"}
      BY <2>3, Known
    <3>3. Findable(h)' => age[h] = "recent" \/ h \in found'
      BY <3>2, <3>a DEF Findable
    <3>4. ~Findable(h)' => Settled(h)' = 1
      BY DEF Settled
    <3>. QED BY <2>6, <3>1, <3>3, <3>4
  <2>8. ASSUME NEW k \in Mentions, k # h
        PROVE  forgotten[k] + Settled(k) <= forgotten'[k] + Settled(k)'
    <3>1. k \in B!Range(processed) => k \in B!Range(processed')
      BY <1>1, <2>4, <2>8
    <3>. QED BY <1>0, <1>3, <2>6, <2>8, <3>1, StaysSettled
  <2>9. B!Range(processed') \subseteq B!Range(processed) \cup {m} /\ m \in B!Range(processed')
    BY <1>1, <2>3, <2>4
  <2>10. forgotten'[m] = forgotten[m]
    BY <1>0, <2>3, <2>6
  <2>11. \A k \in Mentions : forgotten[k] + Settled(k) <= forgotten'[k] + Settled(k)'
    BY <2>7, <2>8
  <2>. QED BY <2>4, <2>5, <2>6, <2>9, <2>10, <2>11
<1>6. Len(p) \in Nat /\ MaxDedup \in Nat
  BY <1>1, Known DEF B!ChatBridgeAssumption
<1>. QED BY <1>4, <1>5, <1>6

\* The main thread takes up a mention it has not marked.
LEMMA Considered ==
  ASSUME B!ChatBridgeAssumption, BridgeIInv, NEW m \in Mentions, B!Consider(m)
  PROVE  BridgeIInv'
<1>0. /\ m \in found \ B!Range(processed) /\ found' = found \ {m}
      /\ main = "consider" /\ main' = main
      /\ UNCHANGED <<age, stopped, B!handlerVars, issues, raised, restarts>>
  BY DEF B!Consider
<1>. USE DEF B!handlerVars
<1>1. /\ processed' \in Seq(Mentions) /\ Len(processed') <= MaxDedup
      /\ B!Range(processed') \subseteq B!Range(processed) \cup {m}
      /\ forgotten' \in [Mentions -> Nat]
      /\ forgotten'[m] = forgotten[m] /\ m \in B!Range(processed')
      /\ \A k \in Mentions : k # m => forgotten[k] + Settled(k) <= forgotten'[k] + Settled(k)'
  BY <1>0, Remembered DEF B!Consider
<1>2. \/ queue' = queue /\ UNCHANGED B!replies /\ m \in Short
      \/ queue' = Append(queue, m) /\ UNCHANGED B!replies /\ Len(queue) < MaxQueue
      \/ queue' = queue /\ answers' = [answers EXCEPT ![m] = @ + 1] /\ unheard' = unheard
      \/ queue' = queue /\ answers' = answers /\ unheard' = unheard \cup {m}
  BY DEF B!Consider, B!Answer, B!Delivered, B!Refused
<1>. USE DEF B!replies
<1>3. /\ queue' \in Seq(Mentions) /\ Len(queue') <= MaxQueue
      /\ B!Range(queue) \subseteq B!Range(queue')
      /\ B!Range(queue') \subseteq B!Range(queue) \cup {m}
      /\ \A k \in Mentions :
           Waiting(k)' = Waiting(k) + (IF k = m /\ queue' # queue THEN 1 ELSE 0)
      /\ queue' # queue => UNCHANGED B!replies /\ m \in B!Range(queue')
  <2>1. CASE queue' = queue
    <3>1. \A k \in Mentions : Waiting(k)' = Waiting(k) /\ Waiting(k) \in Nat
      BY <2>1, Counted DEF BridgeIInv, Waiting
    <3>. QED BY <2>1, <3>1, Known
  <2>2. CASE queue' # queue
    <3>1. queue' = Append(queue, m) /\ UNCHANGED B!replies /\ Len(queue) < MaxQueue
      BY <1>2, <2>2
    <3>2. /\ queue' \in Seq(Mentions) /\ B!Range(queue') = B!Range(queue) \cup {m}
          /\ Len(queue') = Len(queue) + 1
          /\ \A k : Cardinality(PlacesOf(queue', k))
                      = Cardinality(PlacesOf(queue, k)) + (IF k = m THEN 1 ELSE 0)
      BY <3>1, Known, Appended
    <3>3. Len(queue') <= MaxQueue
      BY <3>1, <3>2, Known DEF B!ChatBridgeAssumption
    <3>. QED BY <2>2, <3>1, <3>2, <3>3 DEF Waiting
  <2>. QED BY <2>1, <2>2
<1>4. /\ answers' \in [Mentions -> Nat] /\ unheard' \subseteq Mentions /\ faults' \in Nat
      /\ unheard \subseteq unheard'
      /\ \A k \in Mentions : k # m => answers'[k] = answers[k]
      /\ answers'[m] = answers[m] \/ (answers'[m] = answers[m] + 1 /\ queue' = queue)
      /\ m \in Short \cup B!Range(queue') \cup unheard' \/ answers'[m] > 0
  <2>1. answers[m] + 1 \in Nat /\ answers[m] + 1 > 0
    BY Known
  <2>2. faults' \in Nat
    BY Known DEF B!Consider, B!Answer
  <2>3. queue' = Append(queue, m) => m \in B!Range(queue')
    BY Known, Appended
  <2>. QED BY <1>2, <2>1, <2>2, <2>3, Known
<1>5. BridgeKinds'
  <2>1. found' \subseteq Mentions
    BY <1>0, Known
  <2>2. B!Range(queue') \subseteq Mentions /\ B!Range(processed') \subseteq Mentions
    BY <1>1, <1>3, Known
  <2>3. \A k \in Mentions : age'[k] = "unsent" => k \notin found' \cup B!Range(processed')
    BY <1>0, <1>1 DEF BridgeIInv, BridgeKinds
  <2>. QED BY <1>0, <1>1, <1>3, <1>4, <2>1, <2>2, <2>3, Known DEF BridgeKinds, B!TypeOK
<1>6. Handling' /\ Waited'
  BY <1>0 DEF BridgeIInv, Handling, Waited
<1>7. B!MarkedIsAccountedFor'
  BY <1>0, <1>1, <1>3, <1>4, Known DEF BridgeIInv, B!MarkedIsAccountedFor
<1>8. Turns'
  <2>. SUFFICES ASSUME NEW k \in Mentions
                PROVE  /\ IssuesDue(k)' <= forgotten'[k] + Settled(k)'
                       /\ AnswersDue(k)' <= forgotten'[k] + Settled(k)'
    BY DEF Turns
  <2>1. \A steps : InHand(k, steps)' = InHand(k, steps) /\ InHand(k, steps) \in {0, 1}
    BY <1>0 DEF InHand
  <2>2. /\ Waiting(k) \in Nat /\ issues[k] \in Nat /\ answers[k] \in Nat /\ forgotten[k] \in Nat
        /\ issues'[k] = issues[k]
    BY <1>0, Counted DEF BridgeIInv
  <2>3. CASE k = m
    <3>1. Settled(m) = 0 /\ Settled(m)' = 1
      BY <1>0, <1>1 DEF Settled, Findable
    <3>2. IssuesDue(m) <= forgotten[m] /\ AnswersDue(m) <= forgotten[m]
      BY <2>2, <2>3, <3>1 DEF BridgeIInv, Turns
    <3>3. IssuesDue(m)' <= IssuesDue(m) + 1 /\ AnswersDue(m)' <= AnswersDue(m) + 1
      <4>1. \/ Waiting(m)' = Waiting(m) /\ answers'[m] \in {answers[m], answers[m] + 1}
            \/ Waiting(m)' = Waiting(m) + 1 /\ answers'[m] = answers[m]
        BY <1>3, <1>4, <2>2, <2>3
      <4>. QED BY <2>1, <2>2, <2>3, <4>1 DEF IssuesDue, AnswersDue
    <3>4. IssuesDue(m) \in Nat /\ AnswersDue(m) \in Nat
      BY Counted DEF BridgeIInv
    <3>5. IssuesDue(m)' \in Nat /\ AnswersDue(m)' \in Nat
      BY <1>5, CountedNext
    <3>6. forgotten'[m] + Settled(m)' = forgotten[m] + 1 /\ forgotten[m] \in Nat
      BY <1>1, <2>2, <2>3, <3>1
    <3>7. IssuesDue(m)' <= forgotten[m] + 1 /\ AnswersDue(m)' <= forgotten[m] + 1
      BY <3>2, <3>3, <3>4, <3>5, <3>6
    <3>. QED BY <2>3, <3>6, <3>7
  <2>4. CASE k # m
    <3>1. Waiting(k)' = Waiting(k) /\ answers'[k] = answers[k]
      BY <1>3, <1>4, <2>2, <2>4
    <3>2. IssuesDue(k)' <= IssuesDue(k) /\ AnswersDue(k)' <= AnswersDue(k)
      BY <2>1, <2>2, <3>1 DEF IssuesDue, AnswersDue
    <3>3. forgotten[k] + Settled(k) <= forgotten'[k] + Settled(k)'
      BY <1>1, <2>4
    <3>. QED BY <1>5, <3>2, <3>3, NoMoreDue
  <2>. QED BY <2>3, <2>4
<1>. QED BY <1>5, <1>6, <1>7, <1>8 DEF BridgeIInv

\* The handler takes a mention, or none.
LEMMA Got == ASSUME B!ChatBridgeAssumption, BridgeIInv, B!Get PROVE BridgeIInv'
<1>0. /\ current = B!None /\ handler = "get" /\ main # "exit"
      /\ UNCHANGED <<age, processed, found, main, stopped, forgotten, restarts, answers, unheard,
                     inflight, issues, raised, faults>>
  BY Known DEF B!Get, BridgeIInv, Handling, B!rest, B!mainVars, B!replies
<1>1. CASE queue = <<>>
  <2>1. handler' = "check" /\ UNCHANGED <<queue, current>>
    BY <1>1 DEF B!Get, B!Step
  <2>2. BridgeKinds'
    BY <1>0, <2>1 DEF BridgeIInv, BridgeKinds, B!TypeOK
  <2>3. Handling' /\ Waited' /\ B!MarkedIsAccountedFor'
    BY <1>0, <2>1 DEF BridgeIInv, Handling, Waited, B!MarkedIsAccountedFor
  <2>4. Turns'
    <3>1. \A m \in Mentions : \A steps : InHand(m, steps)' = 0 /\ InHand(m, steps) = 0
      BY <1>0, <2>1, Known DEF InHand
    <3>. QED BY <1>0, <2>1, <2>2, <3>1, IdleTurns
  <2>. QED BY <2>2, <2>3, <2>4 DEF BridgeIInv
<1>2. CASE queue # <<>>
  <2>1. handler' = "create" /\ current' = Head(queue) /\ queue' = Tail(queue)
    BY <1>2 DEF B!Get, B!Step
  <2>2. /\ queue' \in Seq(Mentions) /\ Len(queue') = Len(queue) - 1
        /\ current' \in Mentions /\ current' # B!None
        /\ B!Range(queue') \subseteq B!Range(queue)
        /\ B!Range(queue) \subseteq B!Range(queue') \cup {current'}
        /\ \A k : Cardinality(PlacesOf(queue', k)) + (IF k = current' THEN 1 ELSE 0)
                    = Cardinality(PlacesOf(queue, k))
    BY <1>2, <2>1, Known, Removed
  <2>3. B!Range(queue') \subseteq Mentions /\ Len(queue') <= MaxQueue
    <3>1. MaxQueue \in Nat
      BY DEF B!ChatBridgeAssumption
    <3>2. B!Range(queue) \subseteq Mentions /\ Len(queue) \in Nat /\ Len(queue) <= MaxQueue
      BY Known
    <3>3. B!Range(queue') \subseteq Mentions
      BY <2>2, <3>2
    <3>. QED BY <2>2, <3>1, <3>2, <3>3
  <2>4. BridgeKinds'
    BY <1>0, <2>1, <2>2, <2>3, Known DEF BridgeIInv, BridgeKinds, B!TypeOK
  <2>5. Handling' /\ Waited'
    BY <1>0, <2>1, <2>2 DEF BridgeIInv, Handling, Waited
  <2>6. B!MarkedIsAccountedFor'
    BY <1>0, <2>2, Known DEF BridgeIInv, B!MarkedIsAccountedFor
  <2>7. Turns'
    <3>. SUFFICES ASSUME NEW m \in Mentions
                  PROVE  /\ IssuesDue(m)' <= forgotten'[m] + Settled(m)'
                         /\ AnswersDue(m)' <= forgotten'[m] + Settled(m)'
      BY DEF Turns
    <3>1. Waiting(m)' + (IF m = current' THEN 1 ELSE 0) = Waiting(m)
          /\ Waiting(m) \in Nat /\ issues[m] \in Nat /\ answers[m] \in Nat
      BY <2>2, Counted DEF BridgeIInv, Waiting
    <3>2. Waiting(m)' \in Nat
      BY <2>4, CountedNext
    <3>3. \A steps : InHand(m, steps) = 0 /\ InHand(m, steps)' <= (IF m = current' THEN 1 ELSE 0)
                     /\ InHand(m, steps)' \in Nat
      BY <1>0, Known DEF InHand
    <3>4. IssuesDue(m)' <= IssuesDue(m) /\ AnswersDue(m)' <= AnswersDue(m)
      BY <1>0, <3>1, <3>2, <3>3 DEF IssuesDue, AnswersDue
    <3>5. (Findable(m)' => Findable(m)) /\ processed' = processed
      BY <1>0 DEF Findable
    <3>. QED BY <1>0, <2>4, <3>4, <3>5, StaysSettled, NoMoreDue DEF BridgeIInv
  <2>. QED BY <2>4, <2>5, <2>6, <2>7 DEF BridgeIInv
<1>. QED BY <1>1, <1>2

\* The issue of a mention is made, and waited for.
LEMMA Made == ASSUME B!ChatBridgeAssumption, BridgeIInv, B!Create PROVE BridgeIInv'
<1>0. /\ handler = "create" /\ handler' = "wait" /\ main # "exit"
      /\ current \in Mentions /\ current # B!None
      /\ issues' = [issues EXCEPT ![current] = @ + 1]
      /\ inflight' = inflight \cup {<<current, issues[current] + 1>>}
      /\ UNCHANGED <<age, processed, found, main, stopped, forgotten, restarts, answers, unheard,
                     queue, current, raised, faults>>
  BY Known DEF B!Create, B!Step, BridgeIInv, Handling, B!rest, B!mainVars, B!replies
<1>a. issues[current] + 1 \in Nat /\ issues'[current] = issues[current] + 1
  BY <1>0, Known
<1>1. issues' \in [Mentions -> Nat] /\ inflight' \subseteq Mentions \X Nat
  BY <1>0, <1>a, Known
<1>2. BridgeKinds'
  BY <1>0, <1>1, Known DEF BridgeIInv, BridgeKinds, B!TypeOK
<1>3. Handling' /\ B!MarkedIsAccountedFor'
  BY <1>0 DEF BridgeIInv, Handling, B!MarkedIsAccountedFor
<1>4. Waited'
  BY <1>0, <1>a DEF BridgeIInv, Waited
<1>5. Turns'
  <2>. SUFFICES ASSUME NEW m \in Mentions
                PROVE  /\ IssuesDue(m)' <= forgotten'[m] + Settled(m)'
                       /\ AnswersDue(m)' <= forgotten'[m] + Settled(m)'
    BY DEF Turns
  <2>1. Waiting(m)' = Waiting(m) /\ Waiting(m) \in Nat /\ issues[m] \in Nat /\ answers[m] \in Nat
        /\ answers'[m] = answers[m]
    BY <1>0, Counted DEF BridgeIInv, Waiting
  <2>2. /\ issues'[m] + InHand(m, {"create"})' = issues[m] + InHand(m, {"create"})
        /\ InHand(m, {"create"})' \in Nat /\ InHand(m, {"create"}) \in Nat /\ issues'[m] \in Nat
    BY <1>0, <1>1, <1>a, <2>1, Known DEF InHand
  <2>3. /\ InHand(m, {"create", "wait", "reply"})' = InHand(m, {"create", "wait", "reply"})
        /\ InHand(m, {"create", "wait", "reply"}) \in Nat
    BY <1>0 DEF InHand
  <2>4. IssuesDue(m)' <= IssuesDue(m) /\ AnswersDue(m)' <= AnswersDue(m)
    BY <2>1, <2>2, <2>3 DEF IssuesDue, AnswersDue
  <2>5. (Findable(m)' => Findable(m)) /\ processed' = processed
    BY <1>0 DEF Findable
  <2>. QED BY <1>0, <1>2, <2>4, <2>5, StaysSettled, NoMoreDue DEF BridgeIInv
<1>. QED BY <1>2, <1>3, <1>4, <1>5 DEF BridgeIInv

-----------------------------------------------------------------------------
\* No mention was sent yet.
LEMMA BridgeInitially == ASSUME B!ChatBridgeAssumption PROVE B!Init => BridgeIInv
<1>. SUFFICES ASSUME B!Init PROVE BridgeIInv
  OBVIOUS
<1>. USE DEF B!ChatBridgeAssumption, B!Init
<1>1. BridgeKinds
  <2>1. B!TypeOK
    <3>1. B!Range(processed) \subseteq Mentions /\ Len(processed) <= MaxDedup
          /\ B!Range(queue) \subseteq Mentions /\ Len(queue) <= MaxQueue
      BY Empty
    <3>. QED BY <3>1 DEF B!TypeOK
  <2>. QED BY <2>1, Empty DEF BridgeKinds
<1>2. Handling /\ Waited /\ B!MarkedIsAccountedFor
  BY Empty DEF Handling, Waited, B!MarkedIsAccountedFor
<1>3. Turns
  BY <1>1, NothingDue, Empty
<1>. QED BY <1>1, <1>2, <1>3 DEF BridgeIInv

\* The invariant of the bridge is inductive.
LEMMA BridgeStep == ASSUME B!ChatBridgeAssumption PROVE BridgeIInv /\ [B!Next]_B!vars => BridgeIInv'
<1>. SUFFICES ASSUME BridgeIInv, [B!Next]_B!vars PROVE BridgeIInv'
  OBVIOUS
<1>1. CASE B!Poll \/ B!PollEnds \/ B!Stop
  <2>1. /\ faults' \in Nat /\ found' \subseteq B!Recent \cup found
        /\ main' \in {"poll", "consider", "exit"} /\ (main' = "exit" <=> main = "exit")
        /\ stopped' \in BOOLEAN
        /\ UNCHANGED <<age, processed, queue, B!handlerVars, issues, B!replies, raised, forgotten,
                       restarts>>
    <3>1. /\ faults' \in {faults, faults + 1}
          /\ found' \in {found, {}, B!Recent}
          /\ main' = main \/ (main # "exit" /\ main' \in {"poll", "consider"})
          /\ stopped' = stopped \/ stopped' = TRUE
          /\ UNCHANGED <<age, processed, queue, B!handlerVars, issues, B!replies, raised,
                         forgotten, restarts>>
      BY <1>1 DEF B!Poll, B!PollEnds, B!Stop, B!bounds
    <3>2. /\ main \in {"poll", "consider", "exit"} /\ stopped \in BOOLEAN /\ faults \in Nat
      BY Known
    <3>3. faults' \in Nat
      BY <3>1, <3>2
    <3>4. stopped' \in BOOLEAN
      BY <3>1, <3>2, Zenon
    <3>5. found' \subseteq B!Recent \cup found
      BY <3>1
    <3>6. main' \in {"poll", "consider", "exit"} /\ (main' = "exit" <=> main = "exit")
      BY <3>1, <3>2
    <3>. QED BY <3>1, <3>3, <3>4, <3>5, <3>6
  <2>2. ASSUME NEW m \in Mentions
        PROVE  (m \in found' => age[m] = "recent" \/ m \in found)
               /\ (age[m] = "unsent" => m \notin found) /\ age' = age
    BY <2>1 DEF B!Recent, BridgeIInv, BridgeKinds
  <2>3. \A m \in Mentions :
          /\ age'[m] = "unsent" => age[m] = "unsent" /\ m \notin found'
          /\ Findable(m)' => Findable(m)
    BY <2>2 DEF Findable
  <2>4. found' \subseteq Mentions
    BY <2>1, Known DEF B!Recent
  <2>. QED BY <2>1, <2>3, <2>4, Known, Beside
<1>2. ASSUME NEW m \in Mentions, B!SkipProcessed(m) \/ B!Send(m) \/ B!GrowOld(m)
      PROVE  BridgeIInv'
  <2>1. /\ found' \subseteq found /\ UNCHANGED <<main, stopped, faults>>
        /\ UNCHANGED <<processed, queue, B!handlerVars, issues, B!replies, raised, forgotten,
                       restarts>>
        /\ \/ age' = age
           \/ age[m] = "unsent" /\ age' = [age EXCEPT ![m] = "recent"]
           \/ age' = [age EXCEPT ![m] = "old"]
    BY <1>2 DEF B!SkipProcessed, B!Send, B!GrowOld, B!bounds, B!mainVars
  <2>2. /\ age' \in [Mentions -> {"unsent", "recent", "old"}]
        /\ \A k \in Mentions : /\ age'[k] = "unsent" => age[k] = "unsent"
                               /\ age'[k] # "old" => age[k] # "old"
    BY <2>1, Known
  <2>3. \A k \in Mentions :
          /\ age'[k] = "unsent" => age[k] = "unsent" /\ k \notin found'
          /\ Findable(k)' => Findable(k)
    BY <2>1, <2>2 DEF Findable, BridgeIInv, BridgeKinds
  <2>4. found' \subseteq Mentions /\ main' \in {"poll", "consider", "exit"}
        /\ stopped' \in BOOLEAN /\ faults' \in Nat /\ (main' = "exit" <=> main = "exit")
    BY <2>1, Known
  <2>. QED BY <2>1, <2>2, <2>3, <2>4, Beside
<1>3. CASE B!Quit
  <2>1. /\ main' = "exit" /\ handler' = "dead" /\ current' = B!None
        /\ UNCHANGED <<age, answers, unheard, processed, found, stopped, forgotten, queue, inflight,
                       issues, raised, faults, restarts>>
    BY <1>3 DEF B!Quit, B!bounds, B!replies
  <2>2. BridgeKinds'
    BY <2>1 DEF BridgeIInv, BridgeKinds, B!TypeOK
  <2>3. Handling' /\ Waited' /\ B!MarkedIsAccountedFor'
    BY <2>1, Known DEF BridgeIInv, Handling, Waited, B!MarkedIsAccountedFor
  <2>4. ASSUME NEW m \in Mentions, NEW steps
        PROVE  InHand(m, steps)' = 0 /\ InHand(m, steps) \in {0, 1}
    BY <2>1, Known DEF InHand
  <2>5. Turns'
    BY <2>1, <2>2, <2>4, IdleTurns
  <2>. QED BY <2>2, <2>3, <2>5 DEF BridgeIInv
<1>4. CASE B!Check \/ B!Wait
  <2>1. /\ \/ handler = "check" /\ handler' \in {"get", "stopped"}
           \/ handler = "wait" /\ handler' = "reply"
        /\ UNCHANGED <<age, processed, found, main, stopped, forgotten, restarts, answers, unheard,
                       queue, current, inflight, issues, raised, faults>>
    BY <1>4 DEF B!Check, B!Wait, B!Step, B!rest, B!mainVars, B!replies
  <2>2. BridgeKinds'
    BY <2>1 DEF BridgeIInv, BridgeKinds, B!TypeOK
  <2>3. Handling' /\ Waited' /\ B!MarkedIsAccountedFor'
    BY <2>1 DEF BridgeIInv, Handling, Waited, B!MarkedIsAccountedFor
  <2>4. ASSUME NEW m \in Mentions, NEW steps \in {{"create"}, {"create", "wait", "reply"}}
        PROVE  InHand(m, steps)' = InHand(m, steps) /\ InHand(m, steps) \in {0, 1}
    BY <2>1 DEF InHand
  <2>5. Turns'
    BY <2>1, <2>2, <2>4, IdleTurns
  <2>. QED BY <2>2, <2>3, <2>5 DEF BridgeIInv
<1>5. CASE B!CreateFails \/ B!Raise \/ B!Reply
  <2>1. faults' \in Nat
    BY <1>5, Known DEF B!CreateFails, B!Raise, B!Reply, B!Answer
  <2>2. CASE B!CreateFails
    BY <2>1, <2>2, Left DEF B!CreateFails, B!Leave, B!Step, B!Delivered, B!Refused
  <2>3. CASE B!Raise
    BY <2>1, <2>3, Left DEF B!Raise, B!Leave, B!Step
  <2>4. CASE B!Reply
    BY <2>1, <2>4, Left DEF B!Reply, B!Answer, B!Leave, B!Step
  <2>. QED BY <1>5, <2>2, <2>3, <2>4
<1>6. CASE B!Restart
  <2>1. /\ restarts' = restarts + 1 /\ processed' = <<>> /\ queue' = <<>> /\ found' = {}
        /\ main' = "poll" /\ stopped' = FALSE /\ handler' = "check" /\ current' = B!None
        /\ issues' = [m \in Mentions |-> 0] /\ answers' = [m \in Mentions |-> 0]
        /\ forgotten' = [m \in Mentions |-> 0] /\ unheard' = {} /\ raised' = {}
        /\ inflight' = {} /\ UNCHANGED <<age, faults>>
    BY <1>6 DEF B!Restart
  <2>2. B!Range(processed') = {} /\ B!Range(queue') = {} /\ Len(processed') = 0 /\ Len(queue') = 0
        /\ processed' \in Seq(Mentions) /\ queue' \in Seq(Mentions)
    BY <2>1, Empty
  <2>3. BridgeKinds'
    <3>1. Len(processed') <= MaxDedup /\ Len(queue') <= MaxQueue /\ restarts' \in Nat
      BY <2>1, <2>2, Known DEF B!ChatBridgeAssumption
    <3>. QED BY <2>1, <2>2, <3>1, Known DEF BridgeKinds, B!TypeOK
  <2>4. Handling' /\ Waited' /\ B!MarkedIsAccountedFor'
    BY <2>1, <2>2 DEF Handling, Waited, B!MarkedIsAccountedFor
  <2>5. Turns'
    <3>. SUFFICES ASSUME NEW m \in Mentions
                  PROVE  /\ IssuesDue(m)' <= forgotten'[m] + Settled(m)'
                         /\ AnswersDue(m)' <= forgotten'[m] + Settled(m)'
      BY DEF Turns
    <3>1. Waiting(m)' = 0
      BY <2>1, Empty DEF Waiting
    <3>2. \A steps : InHand(m, steps)' = 0
      BY <2>1, Known DEF InHand
    <3>3. issues'[m] = 0 /\ answers'[m] = 0 /\ forgotten'[m] = 0
      BY <2>1
    <3>4. Settled(m)' \in {0, 1}
      BY DEF Settled
    <3>. QED BY <3>1, <3>2, <3>3, <3>4 DEF IssuesDue, AnswersDue
  <2>. QED BY <2>3, <2>4, <2>5 DEF BridgeIInv
<1>7. CASE UNCHANGED B!vars
  <2>1. UNCHANGED <<age, found, main, stopped, faults, processed, queue, B!handlerVars, issues,
                    B!replies, raised, forgotten, restarts>>
    BY <1>7 DEF B!vars, B!mainVars, B!bounds
  <2>2. \A m \in Mentions :
          /\ age'[m] = "unsent" => age[m] = "unsent" /\ m \notin found'
          /\ Findable(m)' => Findable(m)
    BY <2>1 DEF Findable, BridgeIInv, BridgeKinds
  <2>. QED BY <2>1, <2>2, Known, Beside
<1>. QED
  BY <1>1, <1>2, <1>3, <1>4, <1>5, <1>6, <1>7, Considered, Got, Made DEF B!Next,
     B!MainThread, B!HandlerThread

LEMMA BridgeSound == ASSUME B!ChatBridgeAssumption PROVE BridgeIInv => B!BridgeInv
<1>. SUFFICES ASSUME BridgeIInv PROVE B!BridgeInv
  OBVIOUS
<1>1. B!AnsweredOnce
  <2>. SUFFICES ASSUME NEW m \in Mentions
                PROVE  issues[m] <= 1 + forgotten[m] /\ answers[m] <= 1 + forgotten[m]
    BY DEF B!AnsweredOnce
  <2>1. /\ IssuesDue(m) <= forgotten[m] + Settled(m)
        /\ AnswersDue(m) <= forgotten[m] + Settled(m)
    BY DEF BridgeIInv, Turns
  <2>2. \A steps : InHand(m, steps) \in {0, 1}
    BY DEF InHand
  <2>3. /\ issues[m] \in Nat /\ answers[m] \in Nat /\ forgotten[m] \in Nat
        /\ Waiting(m) \in Nat /\ Settled(m) \in {0, 1}
    BY Counted DEF BridgeIInv
  <2>4. issues[m] <= IssuesDue(m) /\ answers[m] <= AnswersDue(m)
        /\ IssuesDue(m) \in Nat /\ AnswersDue(m) \in Nat
    BY <2>2, <2>3 DEF IssuesDue, AnswersDue
  <2>. QED BY <2>1, <2>3, <2>4
<1>2. B!InflightIsBeingHandled
  BY DEF BridgeIInv, Waited, Handling, B!InflightIsBeingHandled
<1>. QED BY <1>1, <1>2 DEF B!BridgeInv, BridgeIInv, BridgeKinds

\* A step beside the chat bridge leaves it alone.
LEMMA BridgeFrame == [MCNext]_all => [B!Next]_B!vars
BY DEF MCNext, all, bridge, B!vars, B!mainVars, B!handlerVars, B!replies, B!bounds

\* In one life of the daemon no mention is answered or made an issue of more often
\* than once and once more for each time the full table let go of its mark too
\* early; and none that is marked is lost but by a stop, an error or a reply that
\* the chat server refuses: for any mentions, room in the queue and in the table,
\* failures and restarts.
THEOREM BridgeSafety == ASSUME B!ChatBridgeAssumption PROVE MCSpec => []BridgeInv
<1>1. MCInit => B!Init
  BY DEF MCInit
<1>. QED BY <1>1, BridgeInitially, BridgeStep, BridgeSound, BridgeFrame, PTL DEF MCSpec,
     BridgeInv

=============================================================================
