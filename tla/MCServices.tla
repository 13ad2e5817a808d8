----------------------------- MODULE MCServices -----------------------------
(***************************************************************************)
(* The services that run next to the agents, in one instance: the dev      *)
(* runner, with three deploy requests for two apps, two ports and a limit  *)
(* of one app; the dev runner with two deploy requests and two browser     *)
(* requests for one slot; and the chat bridge, with three mentions, one of *)
(* them without a request, and room for one in the queue.  subject says    *)
(* which of the three a behaviour is about; the rest stays as it is.       *)
(***************************************************************************)
EXTENDS BrowserSessions, TLC

CONSTANTS d1, d2, d3, web, api, s1, s2,
          Mentions, Short, MaxQueue, MaxDedup, MaxTrouble, m1, m2, m3

VARIABLES subject,
          age, processed, queue, found, main, stopped, handler, current,
          inflight, issues, answers, unheard, raised, forgotten, faults, restarts

bridge == <<age, processed, queue, found, main, stopped, handler, current,
            inflight, issues, answers, unheard, raised, forgotten, faults, restarts>>
all == <<subject, vars, sessions, bridge>>

B == INSTANCE ChatBridge

ASSUME B!ChatBridgeAssumption

MCDeploys == {d1, d2, d3}
MCApps == {web, api}
MCPorts == 1..2
MCSessions == {s1, s2}
MCKindOf == (s1 :> "test" @@ s2 :> "screenshot")

OnRunner == subject = "runner"
OnBrowser == subject = "browser"
OnBridge == subject = "bridge"

MCInit ==
  /\ Init /\ InitSessions /\ B!Init
  /\ subject \in {"runner", "browser", "bridge"}
\* Bound: two deploys, the first of web; neither apps nor deploys differ.
FewDeploys ==
  /\ pc'[d3] = "new" /\ (pc'[d1] = "new" => pc'[d2] = "new")
  /\ app'[d1] # api
MCNext ==
  \/ OnRunner /\ Next /\ UNCHANGED <<subject, sessions, bridge>>
  \/ OnBrowser /\ Next /\ FewDeploys /\ UNCHANGED <<subject, sessions, bridge>>
  \/ OnBrowser /\ NextSessions /\ UNCHANGED <<subject, bridge>>
  \/ OnBridge /\ B!Next /\ UNCHANGED <<subject, vars, sessions>>
\* Fairness of each module, while it is the subject.
MCFairness ==
  /\ WF_all(OnRunner /\ Cleanup /\ UNCHANGED <<subject, sessions, bridge>>)
  /\ WF_all(OnBridge /\ B!MainThread /\ UNCHANGED <<subject, vars, sessions>>)
  /\ WF_all(OnBridge /\ B!HandlerThread /\ UNCHANGED <<subject, vars, sessions>>)
MCSpec == MCInit /\ [][MCNext]_all /\ MCFairness

\* See ChatBridge.
BridgeInv == B!BridgeInv

\* IsReaped and IsAnswered: no action prefers an app, a deploy or
\* a mention with a request to another, so one of each stands for all.
ADeadAppIsReaped == OnRunner => IsReaped(web, d1)
AQueuedMentionIsAnswered == B!IsAnswered(m1)
=============================================================================
