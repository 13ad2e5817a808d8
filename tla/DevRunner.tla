------------------------------- MODULE DevRunner -------------------------------
(***************************************************************************)
(* dev-runner/main.py: staging apps are deployed, watched and torn down by *)
(* one asyncio server.  A handler runs without interruption up to its next *)
(* await; a deploy has two, the install command and the wait for its port, *)
(* and everything else may happen there.  An action is the code between    *)
(* two awaits.  (A deploy with no install command is a Request directly    *)
(* followed by its Launch.)                                                *)
(***************************************************************************)
EXTENDS Naturals, FiniteSets

CONSTANTS
  Deploys, \* deploy requests; each starts at most one process, named after it
  Apps,    \* app ids
  Ports,   \* PORT_RANGE_START..PORT_RANGE_END
  MaxApps  \* MAX_CONCURRENT_APPS

None == "none"
NoPort == 0

ASSUME DevRunnerAssumption ==
  /\ Ports \subseteq Nat \ {NoPort}
  /\ None \notin Deploys \cup Apps
  /\ IsFiniteSet(Ports) /\ IsFiniteSet(Apps)
  /\ MaxApps \in Nat

VARIABLES
  available, \* _available_ports
  allocated, \* _allocated_ports: app id -> port, NoPort when absent
  apps,      \* _apps: app id -> deploy that registered it, None when absent
  alive,     \* deploys whose process runs
  pc,        \* where each deploy request stands
  app,       \* its app_id
  port,      \* its local port
  strayed,   \* history: ports left allocated by a launch that raised
  overlap,   \* history: apps that two deploys were under way for at once
  busy       \* history: two deploys were under way at once

tables == <<available, allocated, apps>>
history == <<strayed, overlap, busy>>
vars == <<tables, alive, pc, app, port, history>>

Init ==
  /\ available = Ports
  /\ allocated = [a \in Apps |-> NoPort]
  /\ apps = [a \in Apps |-> None]
  /\ alive = {}
  /\ pc = [d \in Deploys |-> "new"]
  /\ app = [d \in Deploys |-> None]
  /\ port = [d \in Deploys |-> NoPort]
  /\ strayed = {} /\ overlap = {} /\ busy = FALSE

Registered == {a \in Apps : apps[a] # None}
UnderWay == {d \in Deploys : pc[d] \in {"install", "wait"}}

Goto(d, p) == pc' = [pc EXCEPT ![d] = p]

-----------------------------------------------------------------------------
(* Helpers                                                                 *)

\* Mutant: only a running process gives its port back.
ReleasePortOfRunning(a) ==
  /\ available' = available \cup (IF apps[a] \in alive THEN {allocated[a]} ELSE {})
  /\ allocated' = [allocated EXCEPT ![a] = NoPort]

\* _release_port goes by the app id, not by the process.
ReleasePort(a) ==
  /\ available' = available \cup ({allocated[a]} \ {NoPort})
  /\ allocated' = [allocated EXCEPT ![a] = NoPort]

\* _terminate_app: the process is gone when it returns.
Terminate(d) ==
  /\ alive' = alive \ {d}
  /\ ReleasePort(app[d])

Unregister(a) == apps' = [apps EXCEPT ![a] = None]

-----------------------------------------------------------------------------
(* deploy                                                                  *)

Full(n) == n >= MaxApps

\* Up to the install command: the previous instance is terminated before the
\* limit is checked and the request validated.
Request(d, a) ==
  /\ pc[d] = "new"
  /\ app' = [app EXCEPT ![d] = a]
  /\ IF apps[a] # None
     THEN Terminate(apps[a]) /\ Unregister(a)
     ELSE UNCHANGED <<tables, alive>>
  /\ \/ Full(Cardinality(Registered \ {a})) /\ Goto(d, "failed")
     \/ ~Full(Cardinality(Registered \ {a})) /\ Goto(d, "install")
     \/ Goto(d, "failed")
  /\ overlap' = overlap \cup {app[e] : e \in {e \in UnderWay : app[e] = a}}
  /\ busy' = (busy \/ UnderWay # {})
  /\ UNCHANGED <<port, strayed>>

InstallFails(d) ==
  /\ pc[d] = "install"
  /\ Goto(d, "failed")
  /\ UNCHANGED <<tables, alive, app, port, history>>

NoPortLeft(d) ==
  /\ pc[d] = "install"
  /\ available = {}
  /\ Goto(d, "failed")
  /\ UNCHANGED <<tables, alive, app, port, history>>

Lowest(s) == CHOOSE p \in s : \A q \in s : p <= q

\* The lowest port is allocated to the app id, the process started and
\* registered under it; whatever was there before is overwritten.
Launch(d) ==
  /\ pc[d] = "install"
  /\ available # {}
  /\ LET p == Lowest(available) IN
       /\ available' = available \ {p}
       /\ allocated' = [allocated EXCEPT ![app[d]] = p]
       /\ port' = [port EXCEPT ![d] = p]
  /\ apps' = [apps EXCEPT ![app[d]] = d]
  /\ alive' = alive \cup {d}
  /\ Goto(d, "wait")
  /\ UNCHANGED <<app, history>>

\* The runtime cannot be resolved or the process not be started: the port just
\* allocated is released, by the app id.
LaunchFails(d) ==
  /\ pc[d] = "install"
  /\ available # {}
  /\ allocated' = [allocated EXCEPT ![app[d]] = NoPort]
  /\ Goto(d, "failed")
  /\ UNCHANGED <<available, apps, alive, app, port, history>>

\* An error neither handler catches, as of splitting the command into words or
\* of a directory that is a file: the port stays allocated to the app id.
LaunchRaises(d) ==
  /\ pc[d] = "install"
  /\ available # {}
  /\ LET p == Lowest(available) IN
       /\ available' = available \ {p}
       /\ allocated' = [allocated EXCEPT ![app[d]] = p]
       /\ strayed' = strayed \cup {p}
  /\ Goto(d, "failed")
  /\ UNCHANGED <<apps, alive, app, port, overlap, busy>>

\* Somebody listens on the port: this process, or another one started on it.
Ready(d) ==
  /\ pc[d] = "wait"
  /\ \E e \in alive : port[e] = port[d]
  /\ Goto(d, "up")
  /\ UNCHANGED <<tables, alive, app, port, history>>

\* 30 s have passed.
NotReady(d) ==
  /\ pc[d] = "wait"
  /\ Terminate(d)
  /\ Unregister(app[d])
  /\ Goto(d, "failed")
  /\ UNCHANGED <<app, port, history>>

-----------------------------------------------------------------------------
(* teardown, the cleanup loop, and processes that exit                     *)

Teardown(a) ==
  /\ apps[a] # None
  /\ Terminate(apps[a])
  /\ Unregister(a)
  /\ UNCHANGED <<pc, app, port, history>>

Exit(d) ==
  /\ d \in alive
  /\ alive' = alive \ {d}
  /\ UNCHANGED <<tables, pc, app, port, history>>

\* Mutant: only the lifetime is looked at.
OverdueOnly(a, old) == apps[a] # None /\ a \in old

\* Registered apps whose process has exited, or has outlived its lifetime.
Overdue(a, old) == apps[a] # None /\ (apps[a] \notin alive \/ a \in old)

\* _cleanup_loop, every 30 s: all of them in one go.  An app still waiting for
\* its port is far from its lifetime.
Cleanup ==
  \E old \in SUBSET {a \in Registered : pc[apps[a]] = "up"} :
    LET gone == {a \in Apps : Overdue(a, old)} IN
      /\ gone # {}
      /\ alive' = alive \ {apps[a] : a \in gone}
      /\ available' = available \cup ({allocated[a] : a \in gone} \ {NoPort})
      /\ allocated' = [a \in Apps |-> IF a \in gone THEN NoPort ELSE allocated[a]]
      /\ apps' = [a \in Apps |-> IF a \in gone THEN None ELSE apps[a]]
      /\ UNCHANGED <<pc, app, port, history>>

-----------------------------------------------------------------------------

Next ==
  \/ \E d \in Deploys :
       \/ \E a \in Apps : Request(d, a)
       \/ InstallFails(d) \/ NoPortLeft(d) \/ Launch(d) \/ LaunchFails(d)
       \/ LaunchRaises(d) \/ Ready(d) \/ NotReady(d) \/ Exit(d)
  \/ \E a \in Apps : Teardown(a)
  \/ Cleanup

\* The cleanup task runs for as long as the server does.
Fairness == WF_vars(Cleanup)

Spec == Init /\ [][Next]_vars /\ Fairness

-----------------------------------------------------------------------------
(* Properties                                                              *)

\* The type invariant.
TypeOK ==
  /\ available \in SUBSET Ports
  /\ allocated \in [Apps -> Ports \cup {NoPort}]
  /\ apps \in [Apps -> Deploys \cup {None}]
  /\ alive \in SUBSET Deploys
  /\ pc \in [Deploys -> {"new", "install", "wait", "up", "failed"}]
  /\ app \in [Deploys -> Apps \cup {None}]
  /\ port \in [Deploys -> Ports \cup {NoPort}]
  /\ strayed \in SUBSET Ports
  /\ overlap \in SUBSET Apps
  /\ busy \in BOOLEAN

\* No port is allocated twice or handed out while allocated; and as long as no
\* app was deployed twice at once, none is lost, whatever exits, is torn down
\* or is cleaned up while a deploy waits, except by a launch that raised.
PortsAreAccountedFor ==
  /\ \A a \in Apps : allocated[a] \notin available
  /\ \A a, b \in Apps : a # b /\ allocated[a] = allocated[b] => allocated[a] = NoPort
  /\ overlap = {} =>
       Ports \subseteq available \cup {allocated[a] : a \in Apps} \cup strayed

\* As long as no app was deployed twice at once, every running process is the
\* registered one of its app, on the port allocated to it: it can be torn down,
\* and no other app is given its port.
RegistryMatchesProcesses ==
  overlap = {} =>
    \A d \in alive : apps[app[d]] = d /\ allocated[app[d]] = port[d]

\* The limit on concurrent apps holds when deploys do not overlap: it is checked
\* before the install command and not again after it.
LimitHolds == ~busy => Cardinality(Registered) <= MaxApps

\* An app whose process has exited leaves the registry, or is replaced there.
IsReaped(a, d) == (apps[a] = d /\ d \notin alive) ~> apps[a] # d

\* What every state of the runner satisfies.
RunnerInv == TypeOK /\ PortsAreAccountedFor /\ RegistryMatchesProcesses /\ LimitHolds

=============================================================================
