--------------------------- MODULE BrowserSessions ---------------------------
(***************************************************************************)
(* The browser endpoints of dev-runner/main.py (/browse, /screenshot and   *)
(* /browser-test) next to the apps they look at.  A handler finds the      *)
(* running app, waits for one of the few browser slots, connects, loads    *)
(* the app's port, does its work and closes what it opened.  Between two   *)
(* of its awaits anything may happen to the app: it may exit, be torn down *)
(* or be replaced, and its port be given to another.                       *)
(***************************************************************************)
EXTENDS DevRunner

\* Lightpanda serves browse and test, a local Chromium the screenshots.
Kinds == {"browse", "screenshot", "test"}

CONSTANTS
  Sessions, \* browser requests
  KindOf,   \* the endpoint of each
  Slots,    \* _browser_semaphore: browser sessions at the same time
  Retries   \* CDP_CONNECT_RETRIES

ASSUME BrowserSessionsAssumption ==
  /\ IsFiniteSet(Sessions)
  /\ KindOf \in [Sessions -> Kinds]
  /\ {Slots, Retries} \subseteq Nat \ {0}

VARIABLES
  at,      \* where each request stands
  managed, \* the app object it found: the deploy that registered it
  tries,   \* connections that failed
  open,    \* what it has open: of "browser", "context", "page"
  free,    \* _browser_semaphore._value
  page,    \* the deploy whose process served its page
  answer   \* the response

sessions == <<at, managed, tries, open, free, page, answer>>

InitSessions ==
  /\ at = [s \in Sessions |-> "new"]
  /\ managed = [s \in Sessions |-> None]
  /\ tries = [s \in Sessions |-> 0]
  /\ open = [s \in Sessions |-> {}]
  /\ free = Slots
  /\ page = [s \in Sessions |-> None]
  /\ answer = [s \in Sessions |-> "none"]

Move(s, place) == at' = [at EXCEPT ![s] = place]
Say(s, what) == answer' = [answer EXCEPT ![s] = what]
Opens(s, what) == open' = [open EXCEPT ![s] = @ \cup {what}]

\* Where an exception leads: to the innermost finally clause.
Unwind(s) ==
  Move(s, IF "page" \in open[s] THEN "close page"
          ELSE IF "browser" \in open[s] THEN "close browser" ELSE "leave")

\* _get_managed_app: 404 for an app that is not registered and 409 for one that
\* does not run; a test with an unusable selector is refused too.
Find(s, a) ==
  /\ at[s] = "new"
  /\ \/ /\ apps[a] = None \/ apps[a] \notin alive \/ KindOf[s] = "test"
        /\ Move(s, "ended") /\ Say(s, "refused")
        /\ UNCHANGED managed
     \/ /\ apps[a] # None /\ apps[a] \in alive
        /\ managed' = [managed EXCEPT ![s] = apps[a]]
        /\ Move(s, "queue")
        /\ UNCHANGED answer
  /\ UNCHANGED <<tries, open, free, page>>

\* The semaphore, which queues.
Enter(s) ==
  /\ at[s] = "queue" /\ free > 0
  /\ free' = free - 1
  /\ Move(s, "connect")
  /\ UNCHANGED <<managed, tries, open, page, answer>>

Connect(s) ==
  /\ at[s] = "connect"
  /\ Opens(s, "browser")
  /\ tries' = [tries EXCEPT ![s] = 0]
  /\ Move(s, "context")
  /\ UNCHANGED <<managed, free, page, answer>>

\* _connect_cdp_with_retry tries again, keeping its slot; Chromium is launched
\* once.
ConnectFails(s) ==
  /\ at[s] = "connect"
  /\ IF KindOf[s] # "screenshot" /\ tries[s] + 1 < Retries
     THEN tries' = [tries EXCEPT ![s] = @ + 1] /\ UNCHANGED <<at, answer>>
     ELSE tries' = [tries EXCEPT ![s] = 0] /\ Move(s, "leave") /\ Say(s, "error")
  /\ UNCHANGED <<managed, open, free, page>>

OpenContext(s) ==
  /\ at[s] = "context"
  /\ Opens(s, "context")
  /\ Move(s, "page")
  /\ UNCHANGED <<managed, tries, free, page, answer>>

OpenPage(s) ==
  /\ at[s] = "page"
  /\ Opens(s, "page")
  /\ Move(s, "goto")
  /\ UNCHANGED <<managed, tries, free, page, answer>>

\* page.goto: the process that listens on the port the app object has.
Load(s) ==
  /\ at[s] = "goto"
  /\ \E d \in alive : port[d] = port[managed[s]] /\ page' = [page EXCEPT ![s] = d]
  /\ Move(s, "work")
  /\ UNCHANGED <<managed, tries, open, free, answer>>

\* The callback comes to its end; a test that fails is an answer like another.
Work(s) ==
  /\ at[s] = "work"
  /\ \/ Say(s, "ok")
     \/ KindOf[s] = "test" /\ Say(s, "failed")
  /\ Move(s, "close page")
  /\ UNCHANGED <<managed, tries, open, free, page>>

\* Anything may raise, or time out: 502 or 504.
Raise(s) ==
  /\ at[s] \in {"context", "page", "goto", "work"}
  /\ Say(s, "error")
  /\ Unwind(s)
  /\ UNCHANGED <<managed, tries, open, free, page>>

\* The inner finally clause.  Closing the page, or the context, may raise; what
\* is still open is then left to the browser.
ClosePage(s) ==
  /\ at[s] = "close page"
  /\ \/ /\ open' = [open EXCEPT ![s] = {"browser"}]
        /\ UNCHANGED answer
     \/ /\ \E closed \in SUBSET {"page"} : open' = [open EXCEPT ![s] = @ \ closed]
        /\ Say(s, "error")
  /\ Move(s, "close browser")
  /\ UNCHANGED <<managed, tries, free, page>>

\* The outer finally clause: what the browser had open goes with it, unless
\* closing it raises.
CloseBrowser(s) ==
  /\ at[s] = "close browser"
  /\ \/ open' = [open EXCEPT ![s] = {}] /\ UNCHANGED answer
     \/ UNCHANGED open /\ Say(s, "error")
  /\ Move(s, "leave")
  /\ UNCHANGED <<managed, tries, free, page>>

\* Mutant: the slot is given back only when nothing went wrong.
LeaveWhenFine(s) ==
  /\ at[s] = "leave"
  /\ open' = [open EXCEPT ![s] = {}]
  /\ free' = IF answer[s] = "ok" THEN free + 1 ELSE free
  /\ managed' = [managed EXCEPT ![s] = None]
  /\ page' = [page EXCEPT ![s] = None]
  /\ Move(s, "ended")
  /\ UNCHANGED <<tries, answer>>

\* The driver stops, with every browser it still has, the slot is free, and the
\* handler's variables are gone.
Leave(s) ==
  /\ at[s] = "leave"
  /\ open' = [open EXCEPT ![s] = {}]
  /\ free' = free + 1
  /\ managed' = [managed EXCEPT ![s] = None]
  /\ page' = [page EXCEPT ![s] = None]
  /\ Move(s, "ended")
  /\ UNCHANGED <<tries, answer>>

Session(s) ==
  \/ \E a \in Apps : Find(s, a)
  \/ Enter(s) \/ Connect(s) \/ ConnectFails(s) \/ OpenContext(s) \/ OpenPage(s)
  \/ Load(s) \/ Work(s) \/ Raise(s) \/ ClosePage(s) \/ CloseBrowser(s) \/ Leave(s)

NextSessions == \E s \in Sessions : Session(s) /\ UNCHANGED vars

\* The runner and its browser endpoints.
NextBoth == (Next /\ UNCHANGED sessions) \/ NextSessions

SpecBoth == Init /\ InitSessions /\ [][NextBoth]_<<vars, sessions>>

-----------------------------------------------------------------------------
(* Properties                                                              *)

\* The type invariant.
SessionsTypeOK ==
  /\ managed \in [Sessions -> Deploys \cup {None}]
  /\ tries \in [Sessions -> 0 .. Retries]
  /\ open \in [Sessions -> SUBSET {"browser", "context", "page"}]
  /\ free \in 0 .. Slots
  /\ page \in [Sessions -> Deploys \cup {None}]
  /\ answer \in [Sessions ->
       {"none", "refused", "ok", "failed", "error"}]

\* Whatever step of a session fails, its slot comes back, and nothing it opened
\* outlives it: the endpoints are not worn down by pages that do not load.
SlotsComeBack ==
  /\ free = Slots - Cardinality({s \in Sessions :
                      at[s] \notin {"new", "queue", "ended"}})
  /\ \A s \in Sessions : at[s] \in {"new", "queue", "ended"} => open[s] = {}

\* The page a session answers with is the page of the app it found, as long as
\* that app still runs and no app was deployed twice at once.  (Of an app that
\* is gone by then it may show the one that got its port.)
PageIsOfTheApp ==
  overlap = {} =>
    \A s \in Sessions :
      page[s] # None /\ managed[s] \in alive => page[s] = managed[s]

\* What every state of the endpoints satisfies.
BrowserInv == SessionsTypeOK /\ SlotsComeBack /\ PageIsOfTheApp

=============================================================================
