# Vibe-Stack: a TLA+ verification project

Vibe-Stack runs a small organisation of LLM agents against a task board, the Paperclip
server.  This directory models the parts of it whose correctness depends on the order of
events: heartbeats that race for issues, an orchestrator that fans work out over the
board and dies half-way, a scheduler that is signalled inside its tick, threads behind
circuit breakers, and the files, tables and containers that the processes of one host
share.  The modules are checked with TLC; every safety invariant and every action
property that the passing runs check is also proved with TLAPS, for every value of the
constants; two of them under hypotheses that section 5 names.  Liveness is
model-checked only.

`PROJECT.json` lists components, runs, mutants, hazards, findings and theorems, and
maps each definition to the source lines it stands for.  Paths below are those of
the repository.

1. [Inventory](#1-inventory)
2. [Modules](#2-modules), and how their state and actions correspond to the code
3. [Runs](#3-runs): bounds, and what each shows
4. [Liveness and fairness](#4-liveness-and-fairness)
5. [Proofs](#5-proofs)
6. [Findings](#6-findings)
7. [Not modelled](#7-not-modelled)
8. [Plan](#8-plan)

## 1. Inventory

### The system

| Part | Source (under `agents/` unless said) | State it keeps | Operations | Talks to |
|---|---|---|---|---|
| Agent heartbeat | `heartbeat.py`, `heartbeat_context.py`, `heartbeat_signals.py` | nothing between two runs; within one the ranked candidates, the checkout, the cancellation token | rank, check out, mark, build context, run the workflow, post, release | Paperclip over HTTP, the workflow, the spending tracker |
| Orchestrator | `orchestrator.py`, `orchestrator_helpers.py` | nothing: parent, children and comments on the board are its state | decompose, poll, retry, aggregate | Paperclip; the heartbeats of other agents, through the board only |
| Cancellation | `cancellation.py`, `ws_client.py` | a token, a polling thread, a subscription | poll, push, reconnect, check between nodes | Paperclip's API and event stream, the engine |
| Paperclip client | `paperclip_client.py` | none | one HTTP request with retries | Paperclip |
| Scheduler | `scheduler.py`, `orchestrator_main.py` | queue, backoff, subprocess table, memory pressure | tick (reap, time out, poll, enqueue, spawn), stop on SIGTERM | Paperclip, heartbeat processes |
| Spending tracker | `spending_tracker.py`, `heartbeat_spending.py` | events and a breaker row for each agent, in SQL | gate, record, evaluate, trip, lock | the heartbeats of all agents |
| Chat daemon | `daemon.py`, `messenger_client.py` | queue of mentions, processed table, issues in flight | poll, queue, handle, answer, shut down | chat servers, Paperclip |
| Workflow | `graph.py`, `graph_engine.py`, `decision_functions.py`, `graph_nodes.py`, the node modules | one state dictionary per run | nodes, edges, gates, step budget, time-outs | the nodes, the caches, the memory |
| Sub-tasks | `parallel_subtasks.py`, `specialist_nodes.py`, `tools/` | a copy of the state per thread, shared tools | write, call tools, judge, collect, merge | models and tools |
| Backend pool | `backend_pool.py` | a breaker and a load counter per backend, a round-robin index | generate, by several threads | LLM servers |
| LLM call | `llm_retry.py`, `vibe/backends/` | a conversation, two retry counters | cut, post, classify the error, wait, post again | one LLM server |
| Stores | `message_store.py`, `memory_store.py`, `artifact_store.py` | SQL tables shared by the processes of a host | insert, look up, expire, count, evict | `storage/` |
| Storage | `storage/` | keys with leases and lifetimes; pooled connections | acquire and release, set and incr, transactions | Redis, Postgres, SQLite |
| Skills | `skill_registry*.py`, `skill_generator.py`, `skill_loader.py`, `skill_cleanup.py`, `skill_remote.py` | directories in three tiers, one index file | find, generate, download, use, promote, evict, sweep | the file system |
| Skill A/B | `skill_ab.py`, `skill_outcome_store.py` | `__v2` directories, outcomes | draft, record, pick, archive, rename | the file system |
| Self-upgrade | `self_upgrade*`, `prompt_library/` | signal file, branches, candidates | collect signals, dispatch, build, push, load | git, the skills |
| Sandboxes | `sandbox/client.py` | a queue of warm containers, a list of all | acquire, release, maintain, start, stop | the container server |
| API keys | `api_key_manager.py` | a key file, caches | look up, ask, poll, validate, save, delete | the messenger and a person |
| Resource allocator | `resource_allocator.py` | one plan at start-up | plan, configure, override | the machine's profile |
| Dev runner | `dev-runner/main.py` | ports, the registry of apps, processes, browser slots | deploy, teardown, cleanup loop, browse | operating system processes, browsers |

Parts meet in five ways: calls to the Paperclip server, which several processes make
on the same issues with no transaction over two calls; threads within one process;
`await` points in the dev runner; signals and kills; and the files and tables of one
host, which every heartbeat process reads and writes with no more than a statement or
a file lock at a time.

### What is hard, and what makes each part correct

* **Heartbeat.** Runs of one agent may overlap; every call can fail or have its
  answer lost; the process can be killed anywhere.  Correct: one run per issue, nobody
  but the holder of the checkout changes an issue, nothing is left checked out or
  `in_progress` without a reason, a question waits for its answer, a todo issue is
  taken up.
* **Orchestrator.** It decides on snapshots, and its bookkeeping (retry markers, plan,
  result) is spread over separate calls.  Correct: retries are bounded, a child is given
  up only after them, finished work is not redone, one result is posted and it is
  complete, the parent settles.
* **Requests.** A request that timed out may still be executed, after the one that
  replaced it.  Correct: a repeat is never of something answered, a conflict has a
  reason, the checkout comes back, the last word stands.
* **Cancellation.** The poller gives up after errors, the socket drops events, the token
  is looked at between nodes only.  Correct: a cancellation is noticed, and at most
  one node still starts.
* **Scheduler.** SIGTERM runs its handler inside a tick.  Correct: slots hold, a role has
  one process, todo work gets one, a stop halts.
* **Spending.** The tracker's lock orders threads, the rows are shared by processes.
  Correct: a runaway trips, a permanent lock holds, a breaker reopens.
* **Chat daemon.** A mention is seen by many polls; what was done about it is in memory.
  Correct: answered at most once per life of the process, never forgotten, answered in
  the end, unless the chat server refuses the reply, which the daemon only logs.
* **Workflow.** Six ways to the end of the graph, three thresholds on one score, loops
  bounded by counters.  Correct: the step budget is never used up by a legal run, every
  judged end is cleaned up and remembered once, questions are not presented as results,
  only settled sub-tasks are aggregated.  Its sub-tasks share tools and may be late.
* **Backend pool and LLM call.** Availability is asked twice and used later, answers
  arrive late; two layers of retries have their own idea of what is transient.  Correct:
  breaker and counter agree, load is given back, circuits recover; what is sent fits the
  window, an answered or refused request is not posted again.
* **Stores.** Each statement is a transaction and nothing spans two.  Correct: bounds hold
  up to the processes that have still to evict, no memory twice from one process, no
  embedding without its message, flat threads.
* **Storage.** A lease runs out under its holder; a commit's answer is lost; a connection
  dies in the pool.  Correct: mutual exclusion within the lease, all or nothing,
  connections come back (but for a fetch over which the server restarts), both caches
  answer alike.
* **Skills.** Every process saves the whole index it loaded.  Correct: index, files and
  hashes agree, what is promoted stays, no orphan outlives a sweep, a version of a skill
  survives every crash.
* **Self-upgrade.** Marking a signal as filed is a second step, and a pull request is six.
  Correct: nothing is filed twice by a process that could mark it, a candidate is not
  overwritten, a pull request has its override.
* **Sandboxes, keys.** Maintenance drains the queue workers take from; a key message is
  exposed while its deletion fails.  Correct: a sandbox is in one place, nobody's is
  killed under him, none is forgotten that the client was told of; stored keys fit, an exposed key is warned about.
* **Resource plan.** Thresholds of memory, threads and GPUs.  Correct: the plan fits.
* **Dev runner.** Two `await`s in a deploy, more in a browser request.  Correct: ports,
  registry, processes and slots agree, the limit holds, dead apps are reaped.

The full list of hazards, each at its line with the properties that would catch it,
is in `PROJECT.json`.

## 2. Modules

| Module | Models | One action is | Run |
|---|---|---|---|
| `Orchestrator` | one parent issue, its children, the orchestrator's heartbeat, workers, people | a server call | `orchestrator` |
| `Heartbeat` | all issues of one agent, overlapping heartbeats, people | a server call | `heartbeat`, `gate` |
| `IssueLifecycle` | what heartbeats promise about an issue: taken, marked, concluded, left | an abstract step | `heartbeat` |
| `HeartbeatLifecycle` | the refinement of `IssueLifecycle` by `Heartbeat` | | `heartbeat` |
| `Requests` | the client's retries under a heartbeat's calls, and the network | sending, executing, giving up | `platform` |
| `SpendingBreaker` | heartbeats of several agents on one ledger | an SQL statement | `gate` |
| `Cancellation` | token, poller, subscription, node boundaries | a look, a poll, an event | `calls` |
| `BackendPool` | all callers of one pool | a critical section or a call boundary | `calls` |
| `LLMCall` | one call through both layers of retries | an attempt, a post | `calls` |
| `Workflow` | a workflow on a shared cache, and its delivery | a node | `workflow` |
| `SubTasks` | the threads of a decomposed request, their tools, the time-out | a model or tool call | `tools` |
| `Scheduler` | one scheduler, its subprocesses, SIGTERM | a part of a tick | `scheduler` |
| `DevRunner` | the server, its deploys, processes | the code between two awaits | `services` |
| `BrowserSessions` | `DevRunner` with the browser endpoints beside it | the code between two awaits | `services` |
| `ChatBridge` | the main and the handler thread, restarts | what a thread does between two looks at shared state | `services` |
| `SkillLibrary` | heartbeats on one index and three tiers | a directory operation or a save | `skills` |
| `SkillVersions` | the versions of one skill | a directory or index operation | `skills` |
| `MessageStore` | agents posting, replying, reading, evicting | an SQL statement | `stores` |
| `MemoryStore` | threads of processes storing and recalling | an SQL statement | `workflow` |
| `ArtifactCache` | processes looking up and storing results | an SQL statement | `workflow` |
| `SandboxPool` | workers, maintenance, owner | a queue or list operation, a server call | `tools` |
| `KeyPrompt` | processes that need keys, a person, a conversation | a file or messenger operation | `tools` |
| `DistributedLock` | threads on Redis or local locks | a Redis command, a tick of the lease | `platform` |
| `KeyCache` | the in-memory cache beside Redis, given the same calls | a call | `platform` |
| `SqlStorage` | transactions on a connection pool or on SQLite | a driver call | `platform` |
| `ResourcePlan` | start-up: plan, configuration, environment | a function call | `platform` |
| `SelfUpgrade` | processes with signals, builders, git | a file, git or API operation | `platform` |
| `OrchestratorProofs`, `HeartbeatProofs`, `SchedulerProofs`, `BackendPoolProofs`, `BrowserSessionsProofs`, `SandboxPoolProofs`, `WorkflowProofs`, `PlatformProofs` | theorems | section 5 | |
| `MC*` | values of the constants for TLC, and which modules stand side by side | | |

### How the modules compose

* `HeartbeatLifecycle` instantiates `IssueLifecycle` with a refinement mapping: the
  worker of an issue is the run that holds its checkout and has it as its issue.
* `BrowserSessions` extends `DevRunner`: its sessions act on the deploys, ports and
  processes of the one and are disturbed by them.
* In `Heartbeat` the workflow is one step with a verdict; `Workflow` is that step in
  detail, and its `Deliver` is the heartbeat's steps 8 and 9.  In `Workflow` the
  sub-tasks are taken one at a time with their verdicts; `SubTasks` is the threads.
  The cache `Workflow` reads is `ArtifactCache`'s, and the memory its nodes recall from
  and write to is `MemoryStore`'s, without the other processes; both stand beside it in
  the run `workflow`.
* In `Orchestrator` a worker is two steps, claim and finish; `Heartbeat` is that
  worker in detail.  Its calls, and `Heartbeat`'s, succeed, fail or lose their answer in
  one step; `Requests` is what can happen inside such a call.
* `BackendPool` takes a backend's answer as an outcome; `LLMCall` is one call in detail.

**Side by side.**  Parts that share no state are checked in one run: a module `MCX`
extends or instantiates each of them over variables of its own (renaming, such as `pc <-
turn`, where two would share a name), and has a variable `subject` (`topic` in
`MCSkills`) that says which of them a behaviour is about.  The rest stays as it was
initialised.  This is a disjoint sum of the state spaces, so each invariant is checked
in each of the parts' own states, and a liveness property `OnP => ...` speaks about P's
behaviours under P's fairness.

### How state and actions correspond to the code

**Calls to the board.** `Call(out)` and `Applied(out)`, in `Orchestrator` and `Heartbeat`,
are a request of `PaperclipClient._request`: `"ok"`, `"fail"` (not done, an error is
raised) or `"lost"` (done, and an error is raised all the same).  An action is one call
with the code that follows it up to the next call; where an error is only logged the
action goes on, where it returns the run ends (`EndRun`, `Forget`).

**Orchestrator.** `parent`, `child` and `marker` are issue statuses and the largest
`<!-- retry:n -->` comment.  `pc`, `snap`, `left`, `failed`, `gathered` are the locals
of `_poll_children_once` and of the aggregation; `seen` is `issue.status` as fetched.
`Phase` is `_detect_phase`.  `JudgeBlocked`, `ResetChild` and `MarkRetry` are
`_maybe_retry_child` cut at its three calls.  The wait loop (`Wake`) evaluates children
as the poll does and shares its actions.  The order in which children are looked at is
left open, a superset of the server's order.

**Heartbeat.** `holder` is the server's checkout.  `Checkout` is one turn of the
fallthrough loop.  The server's answer is external: it certainly refuses an issue that
is held and certainly grants a free one in `todo` or `blocked`; for a free
`in_progress` one both are possible, since the client's `expectedStatuses` lists
`todo`, `backlog` and `blocked` and the code does not show what the server makes of it.
`WorkflowEnds` chooses the outcome (a score high enough or not, questions, an error,
exhausted billing, cancelled).  `Release` is the `finally` clause.

**Requests.** `flight` holds the requests on the wire, each with the attempt that sent it.
`Executed` and `ExecutedUnlearned` are the server's work with and without an answer
that arrives; the second may come after the client gave up, or after a newer request.
The calls are a heartbeat's, in order: register, checkout, start, add a record, finish, release.

**Cancellation.** `events` are pushed and not yet read, `socket` says whether the client
is connected.  `Watch`, `Check` and `StartNode` are the workflow thread at a node
boundary: between the check and the node, the token may fire.  `polls` is the history
of the last polls' outcomes.

**Scheduler.** `pc` is where the tick is; `Stop`, the SIGTERM handler, may run at any of
those places and sets `running`, clears the pool and lets the tick go on, as the code
does.  `cut` remembers where it fell.  `overdue` stands for a heartbeat older than its
time-out, `cooling` for one in backoff.

**SpendingBreaker.** `row[a]` is an agent's breaker row; `until` is `none`, a time, or
for good.  `seen[p]` is the state a heartbeat read before it decided.  The window is a
suffix of the ledger, moved on by `EventLeavesWindow`.

**ChatBridge.** `processed`, `queue`, `inflight` are the daemon's; `age` says whether a
mention can still be found by a search of the last minute.  `Answer` is `_send_response`:
the reply is `Delivered`, or `Refused` by the chat server, which the bridge logs and
treats alike.  The histories are those of one life and begin anew with `Restart`: `issues`
and `answers` count, `unheard` are mentions a reply to which was refused, `forgotten`
counts the marks that the full table dropped while a poll could still come upon the
mention.

**Workflow.** `state` keeps the keys routing, delivery and cache depend on.  The scores 55, 65, 80 and 90 fall on
different sides of the thresholds: 60 (nothing is refined below it), 70 (the cache), 75
(the standard tier) and 85 (the full tier and the heartbeat).  No score tells the fast
tier's 70 from 75, so two tiers stand for the three.  `Abort` is every exception that
ends `invoke`; with no step left it is `WorkflowRecursionError`.

**SubTasks.** `pc[i]` is the thread of a sub-task; `round` counts its tool rounds,
`attempt` its refinements, `lookups` the count in the shared tool.  `TimeOut` is the
time-out of `as_completed`, after which the pool is still waited for.

**BackendPool.** `Cooled` stands for "`recovery_timeout` has passed": `CoolDown` sets it,
a failure clears it.  `_rr_index` is kept modulo `Period`, a common multiple of the
lengths it is reduced by.  Choosing an entry and starting its call are two steps, since
the lock is not held between them.

**LLMCall.** `tokens` are the sizes of the messages, `sent` those that vLLM's cut keeps,
`room` what is left for the answer.  `replies` are the provider's answers in order;
`Raised` is what each backend makes of a reply, and `Transient` what `llm_retry` tries
again.

**DevRunner, BrowserSessions.** A process is named after the deploy that started it.
`ReleasePort` goes by the app id as `_release_port` does, which is why overlapping
deploys confuse it.  A session remembers the port it read before it waited for its slot.

**Stores.** `pc` is the statement that comes next (`turn` in `MCStores`).  In
`MessageStore` a row has its parent and who has read it; `readers[a]` is the list an
agent read before it writes it back.  In `MemoryStore` `holder` is the process's lock
and `writer` the SQLite write lock that a transaction takes, which Postgres does not
have.  In `ArtifactCache` `older` orders the rows as `last_accessed_at` does: the pairs
of keys of which the first was used before the second.  The store catches every
exception of a call: `LookupFails` is a lookup of which the SELECT, the DELETE of a lapsed
row or the UPDATE of the use counts fails, a miss with the row left standing; `StoreFails`
and `MaintenanceFails` are the same for the others.  Histories: `since[p]` are keys
stored by others since p's miss, `blind` the processes whose lookup failed, `unpaid` the
faults that kept a store from evicting after its insert.

**Storage.** `DistributedLock`: `object[t]` is the lock object thread t uses, `ttl` what
is left of the key, `lease[t]` (history) what t may count on.  `KeyCache` applies each
call to both implementations; `lapsed` are keys that were incremented after they
expired, where they differ (see section 6).  `SqlStorage`: `rows[t]` are the committed
statements of t's call, `pending[t]` those on its open connection.  A connection is `open`, `broken` (the server
closed it and the client does not know) or `closed` (the client knows); `idle` counts the
open and the broken ones in the pool.  `PutConnection` is psycopg2's `putconn` under
`_putconn`: a connection with a transaction under way is rolled back first, and if it is
broken this raises (`PutRaises`) before the pool forgets it.  `lost` are calls whose
connection the pool therefore counts as used for good, `exposed` (history) the fetches done
when the server restarted.  Psycopg2 is not in the repository: these definitions are
external in the map.

**Skills.** `disk` is the directories with their contents, `file` the index on disk
(`index` in `MCSkills`), `mem[p]` the copy a heartbeat loaded and saves as a whole
(`copy[p]` there).  `spoiled` (history) says that heartbeats overlapped or one was
killed.  In `SkillVersions` a name is its number of `__v2` suffixes; `Archive`,
`Unregister`, `Rename`, `Forget` and `RegisterWinner` are one call of
`maybe_promote_winners`.

**SelfUpgrade.** Signals are numbered in the order they are found; `lines` is the signal
file, `memory[p]` what a process holds of it; `head`, `commits`, `files` and `pushed`
are the shared checkout, `prs` the open pull requests.  `MarkRead` and `MarkWrite` are
the two halves of `mark_artifact_ref`; `MarkFails` is its ways out before it updates its
memory: no file, or an error in reading or writing, which may leave the file cut short.
`filings[p]` (history) are the signals p has filed since it started, less those it then
failed to mark.

**SandboxPool.** `pool` is the queue, `fresh` and `expired` the locals of the
maintenance, `handles` the list `stop` kills from, `alive` what runs on the server.
`Created` is a creation that succeeds, is refused, or outlasts the client's time-out: the
client then takes it for refused, and the container, one of `late` (history), runs in no
list until its time to live ends.  A `Kill` may fail, which is swallowed too.

**KeyPrompt.** `file` is the pairs in the key file, `torn` a file cut short, `chat` the
conversation, `shown` the messages whose value is still readable, `warned` those the
person was told about.

**ResourcePlan.** `profile` is any machine; memory is in MiB and a fraction in percent.
The three strategies are operators that return a plan; which of several equal GPUs vLLM
gets is left open.

**History variables** (`resets`, `posts`, `stale`, `leaked`, `overlap`, `tried`, `lease`,
`polls`, ...) are read by properties only, never by a guard.

## 3. Runs

| Run | Bounds | Shows |
|---|---|---|
| `orchestrator` | 2 sub-tasks, 1 retry, 1 fault, 1 crash, 1 intervention | the retry budget, no early surrender, one result per opening (`OrchestratorInv`), and that it is complete; finished work is not redone; the parent settles |
| `heartbeat` | 2 overlapping runs, 2 issues, 1 fault, 1 kill, 1 intervention | exclusive work, checkouts and statuses accounted for (`HeartbeatInv`); every step is one of `IssueLifecycle`'s |
| `gate` | heartbeats one after the other: 2 issues, 1 fault, 1 kill, 3 interventions; breaker: 2 processes of 1 or 2 agents, budget 3, streak 2, 3 events kept, 1 fault | questions wait, todo work is taken up; a runaway trips, locks hold, a breaker reopens |
| `workflow` | 2 workflow runs, 2 tiers, 5 sub-tasks, 3 iterations, 50 steps, 4 scores; memory: 3 threads of 2 processes, 2 keys, 2 memories kept, 4 calls, SQLite and Postgres; results: 2 heartbeats, 3 cached keys, 2 scores, 1 row kept and 2 by the maintenance, 3 heartbeats in all, 2 failed statements or kills | the budget suffices, every judged end is cleaned up and remembered once, questions are not results, only settled work is aggregated (`WorkflowInv`); no memory twice, capacity (`MemoryInv`); capacity, and what keeps a result out (`ArtifactInv`) |
| `calls` | pool: 2 threads, 2 backends, 3 strategies, threshold 2, 4 errors; watch: 2 nodes, 3 poll errors, 1 retry, 2 status changes, 1 dropped connection; call: 3 kinds of backend, window 6, 4 messages, 1 outer and 2 inner tries | breakers, load, order (`PoolInv`), recovery; a cancellation is noticed and stops at the next boundary (`WatchInv`); cut and retries (`CallInv`) |
| `services` | 3 deploys, 2 apps, 2 ports, limit 1; 2 browser requests for 1 slot beside 2 deploys; 3 mentions, a queue of 1, a table of 2, 1 failed call, refused reply, crowded poll or restart | ports, registry, limit, reaping (`RunnerInv`); slots and pages (`BrowserInv`); each mention answered once, and in the end (`BridgeInv`) |
| `scheduler` | 2 roles of different urgency, 1 slot, backoff after 2 failures, 2 issues, 1 rise of memory pressure, 1 fault | slots, queue, a stop that leaves nothing (`SchedulerInv`); todo work is served; a stop halts |
| `skills` | 2 heartbeats, 1 generated and 1 remote skill, 2 contents, 3 sessions, 1 crash; versions: 2 drafts, 4 scores, 1 crash | index, files and hashes agree; a version survives (`LibraryInv`); what is local is permanent; no orphan outlives a sweep |
| `stores` | 2 agents with 2 messages kept and 3 written, or 3 agents with 1 message | bounds, embeddings, threads, and how often a message is given to an agent again (`MessagesInv`) |
| `tools` | 2 workers, pool 1 of 2, 2 calls, 2 starts; 2 sub-tasks, 2 tool rounds, 2 attempts, 1 lookup; 2 processes, 2 keys, 2 messages, 2 prompts, 1 fault | one place for a sandbox, no disturbance, none forgotten (`SandboxInv`); lookups, calls, settled merge (`SubTasksInv`), the node ends; keys (`PromptInv`) |
| `platform` | 6 calls with 2 retries, 3 faults, 1 rival; 3 threads, lease of 2 ticks, 1 kill; 2 keys, 4 ticks; 3 users of a pool of 1 to 2, 1 restart of its server; 0 to 3 GPUs and memory at every threshold; 2 processes, 3 signals, 2 overrides, 1 kill | requests (`RequestInv`), storage (`StorageInv`), plan (`PlanInv`), upgrade (`UpgradeInv`), a candidate is kept |
| `orchestrator_loss` | as `orchestrator` | the code loses a sub-task where `README.md:39` promises zero data loss (section 6) |

Every property of a passing run has a mutant: the definition named in `PROJECT.json` is
replaced by the one beside it, which makes a mistake a programmer might make (a limit
one too late, a reset only on success, a lock not kept while a row is written), and TLC
finds the property violated under the run's own bounds.

**Why the bounds are enough.**

* One fault, one crash and one intervention may fall between any two steps and combine
  with each other; the faults the code does not survive need one of them.
* *Orchestrator*: two sub-tasks are the fewest for which "some" and "all" differ; with one
  retry a child goes through retry, exhaustion and partial aggregation.
* *Heartbeat*: two runs and two issues give every overlap of ranking, checkout and
  fallthrough.  `gate` has one run, since its properties are about runs that do not
  overlap, and three interventions: asked, answered, reopened.
* *Spending*: two processes make every race of two statements; the runs of one agent and
  of two agents are both initial states.  Keeping three events leaves one older than
  the streak.
* *Pool*: four errors open both circuits of threshold two, or open one and fail two probes.
  *LLM call*: four messages are the fewest with two in the middle to choose from.
* *Services*: three deploys let two overlap while a third waits for the limit or the
  port.  Two requests on one slot let one wait while the app is replaced.  A queue of one
  and three mentions fill it while one is handled; a table of two drops the mark of the
  first when the third comes, which is early if a poll can still find it.
* *Scheduler*: two roles on one slot let one wait for the other; two failures start a
  backoff.
* *Workflow*: the limits are those of the code.  Two workflow runs are the fewest for one to
  read what another stored.
* *Skills, memory, results*: two processes make every race of two saves or statements, three
  threads one race within a process as well; a limit of one or two rows is overrun by the
  next insert.  Two failed statements let a lookup fail and then the store, or
  two stores in a row leave their row.
* *Messages*: two agents are enough for every race of two statements, and three messages
  overrun the limit of two.  A message is given to an agent again when others overwrite its
  mark, and two others can do that more than twice as often as one: hence the
  crowd of three on one message, where an agent is given it four times and no
  more.  That the limit `2 ^ (n - 1)` is exact was counted for up to five agents.
* *Platform*: a lease of two ticks has a middle.  Three threads let a late one release
  while a second holds and a third waits.  Three faults use up two
  retries and hit the call after them.  The machines lie on both sides of each threshold; the theorem `PlanFits` covers all others.

**Deadlock** is not checked in any run: every bounded history ends, and where it ends
TLC would call it a deadlock.  A system that is stuck before its end shows as a
violated liveness property instead: the parent that does not settle, the node that
does not end, the mention not answered, the stop that does not halt.

## 4. Liveness and fairness

Fairness is weak, and stated in each module beside its `Spec`.  Where modules stand side
by side, the run restates it for the part a behaviour is about.

| Property | Says | Fairness, and why the code justifies it |
|---|---|---|
| `ParentSettles` (`Orchestrator`) | an open parent gets done, blocked or cancelled, if no child is stranded | the heartbeat goes on and is started again while the parent is open (Paperclip wakes agents for their issues, and `orchestrator.py` asks for it with `retry_after_seconds`); each worker goes on (calls and workflows have time-outs). It is on the whole heartbeat, not on single choices |
| `ATodoIsTakenUp` (`Heartbeat`) | a todo issue is taken up, if the tracker is not locked | each run advances, and the server frees the checkouts of dead runs |
| `ABreakerReopens` (`SpendingBreaker`) | a tripped agent works again, unless locked for good | heartbeats are started again and again; cooldowns end |
| `CircuitRecovers` (`BackendPool`) | an open circuit closes in the end | calls end, clocks run, threads keep asking. Stated for the first backend, or all under round-robin: under failover a spare nobody asks may stay open, which is what the code does. Errors are bounded: the backends get well |
| `CancelIsNoticed` (`Cancellation`) | an issue that stays cancelled stops the workflow, unless the poller has given up | the polling thread runs and its requests end; nothing of the WebSocket |
| `ADeadAppIsReaped` (`DevRunner`) | a dead app leaves the registry | the cleanup task only |
| `AQueuedMentionIsAnswered` (`ChatBridge`) | a queued mention is answered, unless the chat server refuses the reply, or the bridge is stopped or restarted or raises | both threads run; a deadline ends every wait |
| `TodoIsServed` (`Scheduler`) | a todo issue gets its role a process, unless more urgent work keeps coming back | the main thread runs, clocks run, memory is freed in the end |
| `StopHalts` (`Scheduler`) | a SIGTERM ends the loop, unless it falls before `run()` has set its flag | the same |
| `NodeEnds` (`SubTasks`) | the node of the parallel sub-tasks ends | model and tool calls come back, each has a time-out |

`ParentSettles` excludes children that are cancelled, or `in_progress` without a worker:
for such children the code waits for ever, and the hazards say so.  The local
`scheduler.py` polls `todo` issues only, so its fairness stands for Paperclip's
scheduling and not for the local one.  Where no action prefers one issue, app, agent
or mention to another, the property is stated of one of them.

## 5. Proofs

TLC checks instances; the proof modules prove properties for every value of the
constants, with only the named assumptions of the modules (numbers are numbers, sets of threads and
roles are finite, `None` is none of what it stands beside).  Two theorems assume more, and
say so: `QuestionsWait` one heartbeat at a time, `UpgradeSafety` one publisher.

Where a run checks several modules side by side, the theorem is one of the run's own
specification: a lemma ending in `Frame` shows that a step beside the module leaves it
alone.

**`HeartbeatProofs`.**  The inductive invariant `IInv` is the type invariant and
`Holding`: a run past its checkout has an issue and holds that issue's checkout, and a
run before it has none.  `OneRunPerIssue` is not inductive without the types and the
second half: a run that starts with an issue of an earlier heartbeat would violate it.
`CheckoutsAreReturned` is inductive relative to `IInv`.  `NoIssueLeftInProgress` needs
one invariant more, `Firing`: a cancellation token fires only while the workflow runs,
and only on an issue that has left in_progress and does not return to it while it is
held; since only a fired token makes a heartbeat leave without a status of its own, the
issue it leaves behind is not in progress.  Each has a step lemma that goes through
the actions touching `holder` or `status`.  `Safety` puts them together: it is
`HeartbeatInv`, which the run checks.

`Implementation` proves the refinement: `Spec => ImplementsLifecycle`.  Under the mapping of
`HeartbeatLifecycle`, `Init` implies the abstract `Init`, and each step of a heartbeat,
of the server and of people is a `Take`, `Mark`, `Conclude`, `Leave` or `Intervene`, or
leaves the mapped variables as they are; `Holding` is what makes the worker of an issue
unique and the stage well defined.

`QuestionsWait` is the action property `QuestionsAreAwaited`, under the assumption of its
name: a blocked issue that a heartbeat has ranked is the one a reply woke it for
(`RankedAsSeen`), and with `OneAtATime` nobody blocks an issue between its ranking and its
checkout.

`LibrarySafety` is `LibraryInv`, of the library and of a skill's versions.  The
library's part holds as long as nothing is `spoiled`, and is carried by two facts about
who runs: `OneByOne` says that nobody does and every skill is intact (on the index, in
its file, with its hash), or that the one that runs is alone and all skills are intact
but the one in its hands; `AloneKnowsAll` that a heartbeat that is alone has in memory
every entry of the index file until it evicts some, the local ones always, and, once it
has swept, those of `temp/`.  `TiersAreKept` is what `LocalStays` (`LocalIsPermanent`)
and `NothingIsOrphaned` (`SweepLeavesNoOrphans`) need of the directories.  For the
versions, `WinnerSurvives` follows a promotion through its five operations, with a crash
between any two: the winner's directory or its renamed one is there until its entry is
registered, so `AVersionSurvives`; and the two ends of the ranking are each one version
(`OneScore`), so that what is archived is not what is promoted.

`RunawaysAreStopped` is `SpendingInv`, and `LocksLast` is `LocksHold`.  That too many
heartbeats in a row trip the breaker is carried by whoever recorded the last of them: it is
still recording (lemma `RunawayStep` follows it from statement to statement), or it has
written its row, or its evaluation was cut short and is remembered in `unheard`.  Nothing closes a row that is not closed
(`Probing`: whoever is about to half-open one has read it open).  The permanent lock of an
agent with one heartbeat holds because that heartbeat, once it has locked the row, has
no write left that it decided on before (`LoneLock`); with a second heartbeat it need not
hold, and `LocksHold` says which writes undo it.

**`WorkflowProofs`.**  `Safety` is `WorkflowInv`, for every step budget with `EnoughSteps`:
five steps for each iteration and nine more, and two for each iteration of each sub-task
and eleven more.  With the limits of the code, three and five, that is 41 of the 50 steps;
with one step less TLC finds a run that the budget cuts off.  `WithinBudget` says how many
steps the way from a node to the end still takes: those of the node's loop, counted by the iterations (`Counted`) or by
the rounds the sub-tasks may still make (`RoundsLeft`), and those of the closing nodes.
`InTurn` says of the sub-task loop that those before the index are settled, that at the
index is not, and those after it are untouched, which makes `RoundsLeft` fall with every
round and leaves only settled sub-tasks to the aggregator.  `Remembered` fixes for each
closing node which of them have run, `Undecided` that none has before, and `Asked` that a
question goes past the ones that present.  `CompletedBound` and `OneMoreCompleted`
relate the counter to the cardinality it stands for.

`MemorySafety` is `MemoryInv` of `MemoryStore`.  That no process has a memory twice is carried by
its lock from the lookup to the insert: whoever has looked up in vain holds it
(`LocksAreHeld`), so nobody else of its process inserts, and what it is to insert is not
there from its own process (`InsertsAreNew`).  For the capacity, a SQLite store evicts in
the transaction that inserts, behind the one writer's lock; a Postgres store has one row more for
each thread that is to count or evict, and a thread goes on to evict only if it has counted
a surplus (`EvictionsAreOwed`).  `IdsSuffice` bounds the row ids by the calls.

`ResultsSafety` is `ArtifactInv` of `ArtifactCache`.  `CapacityHolds` is not inductive: a
heartbeat that counted no surplus goes through its eviction and removes nothing.
`RowsAreOwed` therefore charges a row only to those that are still to count or have counted
a surplus (`Owing`), and to each store that failed or died before its eviction (`unpaid`);
a step either removes rows, or a heartbeat that owes one pays or leaves its debt in `unpaid`, or an insert adds
a row and a debtor.  A later eviction settles the debts from before its count:
`EvictionsSuffice` says that what it is about to remove, what the others owe and what
failed since (`FailedSince`) is all that is too much.  What one evicts is a set of the least recently used
rows, of which `Dropped` and `Used` say that their order stays a total one.
`OnlyNewsRejects` is inductive with the types.

**`OrchestratorProofs`.**  `IInv` strengthens the checked invariants with three facts:

* `OneRetry`: at most one child is between its reset and its marker, and only at the
  program counters of the retry, with a marker below the limit and not given up;
* `EveryResetCounted`: resets of a child equal its marker, plus those that lost the
  marker, plus one while the marker is being written.  `RetryBudget` follows from this and
  from `OneRetry`; neither is inductive alone;
* `OpenMeansUnposted`: while the parent is not done, or a heartbeat runs, no more results
  were posted than the parent was reopened.  A heartbeat starts on an open parent only
  and ends with its post, so each opening is used once.  `OneResultPerOpening` follows.

The step lemmas are split by the kind of variable they preserve (`IssuesStep`,
`LocalStep`, `HistoryStep` for types; `OneRetryStep`, `CountedStep`, `GivesUpStep`,
`PostingStep` for the rest), each with one case per action.  `Safety` is
`OrchestratorInv`.

`Tracing` is a second invariant, relative to the first, for the two properties that tie
an old snapshot to the present board.  `WorkIsTraced` says that what is done was produced
by a worker or touched by a person.  `BlockedStaysBlocked` says that a child the heartbeat
is still to look at, or is resetting, and that its snapshot shows blocked, is blocked still unless a
person touched it; so what it resets is not done (`NotRedone` is
`DoneWorkIsNotRedone`).  `CollectsWhatIsMade` says what an aggregation has gathered
and has still to gather, and `CreatesWhatIsAbsent` that no child appears once a full
result was written; both together give `ResultIsComplete`, which is
`CombinedResultIsComplete`.

**`SchedulerProofs`.**  `Safety` is `SchedulerInv`, with a signal between any two steps of
a tick.  `SlotsRespected` needs `SlotsCounted`: the count of free slots the
spawn loop took before its first spawn stays true, since only `Register` adds a process and
whatever goes frees more.  `QueuedAreIdleAndReady` needs that what was popped and is not
registered yet has left the queue (`PoppedHasLeft`), and `StopAsleepLeavesNothing` that
a stop during the sleep leaves no step that spawns (`StoppedAsleep`).  The lemmas
`Enqueued` and `RemovedAt` say what enqueueing in the order of the agent map and popping
do to the queue: nothing is queued twice.

`MessagesSafety` is `MessagesInv` of `MessageStore`, for any number of agents and
messages, of `MessageStore`'s own specification; the run restricts who moves and so
checks a part of it.  A draft is known to nobody but its sender (`DraftsAreNew`), a
reply on its way answers a root (`RepliesAnswerRoots`), so threads stay flat; and an
eviction under way suffices for what came and went since its count (`EvictionsSuffice`),
so the table is bounded.  The hard part is `RereadIsBounded`: marking as read writes
back a list that was read before, so marks of others are lost and a message is given to
its reader again.  It is given to one of n agents at most 2^(n-1) times.
`RereadsAreCounted` charges each time to a set of agents that includes the reader: the
sets still to come are those of which no member is marked in the row, or none in what a
member about to write has read.  Each mark takes at least one away for good, by an
injection that maps a set to itself or adds the agent that writes; and the sets with a
given agent number 2^(n-1) (`SetsDouble`).  A lower bound, n, was what the model stated
first: the attempt to prove it failed, and TLC found it violated by three agents.

**`BackendPoolProofs`.**  `BreakerMatchesCount` and `InflightIsCallsUnderWay` are inductive
with the types, the second through a lemma that counts the callers of a backend.
`RaisesOnlyAfterAll` and `FailoverKeepsPriority` need the plan of each thread
(`Plan`): its survey sorts the entries it has looked at into those to try and those passed
over; after it each backend is still to be tried, tried, passed over or at hand; and
under failover what is to be tried comes later in the configuration than what is at hand.
That the three strategies rearrange the entries and lose none is the lemma `Arranged`, by
`PermutedOrder`, `RotatedPermutes` (round-robin) and `LoadPermutes` (least load).

`WatchSafety` is `WatchInv` of `Cancellation`.  `OneAfter` adds to the bound on late nodes
that the one that was late has had its check, and that no other check has passed since the
token fired.  `Counted` says that the polls at the end of the window are as many failures
as the poller counts, so that the count reaching its limit means a window of failures;
`NotedLast` is what noting a poll does to the window.

`CallSafety` is `CallInv` of `LLMCall`: an algorithm and a protocol.  What vLLM's cut
keeps of a conversation is a fold from its end; the theorem says that it fits the window
together with the answer if the reserved messages do (`KeptFits`), and that wherever another choice that fits
differs, the newest message in which they do is one that the cut keeps (`KeptWins`).  A
fold admits no induction here, so the proof goes around it: `KeepRecentWalks` says that
a run of the fold is a *greedy* set of positions, each taken if and only if it fits
behind those taken after it; `GreedyIsOne` that there is only one such set, by the
greatest position in which two would differ, and `GreedyExists` that there is one, by
the smallest set of positions that would have none (`SmallestSet`).  Sums of sizes are
cardinalities of sets of pairs (`TotalCounts`), which the library's theorems on finite
sets can add up.  `LoopsWentOn` and `PostsAreCounted` tie the number of posts to the two
loops' counters.

**`BrowserSessionsProofs`.**  `RunnerSafety` is `RunnerInv` of `DevRunner`, and
`BrowserSafety` is `BrowserInv` of both together.  The runner's invariant adds
`Registrations` (the registry names launched deploys under their own app; an
unregistered app has no port but one that a launch which raised has left it),
`OneDeployEach` (as long as no app was deployed twice at once, a deploy finds its app
as it left it or torn down) and `RoomIsKept` (what a deploy has checked for stays free
while nothing overlaps it).  Every step but a launch takes a set of apps out of the
tables (`Gone`, lemma `Steps`), so that each part is proved for two kinds of step.  The sessions
need only what they have found to have been launched, which the runner's steps preserve.

`BridgeSafety` is `BridgeInv` of `ChatBridge`, for a table of any size and replies that may be
refused.  `AnsweredOnce` is a matter of counting.  The issues that were made of a mention or
will be (`IssuesDue`: those made, one for each place it has in the queue, one if the
handler is about to make it) and likewise its replies (`AnswersDue`) number no more than
the marks it lost early, and one more once it is `Settled`, that is marked, or
too old for any poll to come upon (`Turns`).  A mention is queued only when it is neither marked
nor too old, and is marked in the same step; the table drops the mark of another either
when that one can no longer be found, which leaves it settled, or early, which `forgotten`
counts.  `Appended` and `Removed` are what the queue's two operations do to the number of
places (`PlacesOf`).  `Handling` and `Waited` tell by the handler's step which mention it has
and which issue it waits for; `MarkedIsAccountedFor` is inductive with these.

**`SandboxPoolProofs`.**  `Safety` is `SandboxInv`.  `Places` says where each thread is
and what it holds there, and `Apart` restates `InOnePlace` by places instead of
cardinalities (`ApartIsOnePlace`).  `KeptAlive` extends `UseIsUndisturbed` to the containers
in the queue and in the maintenance's hands, without which the next acquire would
break it; `Expiry` keeps what maintenance replaces among the containers whose time to live is over.
`Remembered` names who is about to list a container that is not listed yet; those
created after the client had given up (`late`) are in no list, and it excepts them by
name.
`Appended`, `Taken` and `Joined` are what the queue operations do to members and repetitions.

`TasksSafety` is `SubTasksInv`.  The lookup limit holds because every lookup that was counted
under the lock is made or under way (`LookupsAreSearches`, a cardinality that each search
takes one from); the merge, because a result that is no failure is that of a thread which
has ended with it (`ResultsAreFinal`).  `WithinBounds` keeps rounds and attempts in their types.

`KeysSafety` is `PromptInv`.  `Exposed` counts failures along the way of one message: not
deleted is one, not warned about another, so with one failure at most it is deleted
or warned about.  `Saved` is why a saved key stays: as long as no two saves overlap, only one
process rewrites the file, and it has read all that was saved.

**`PlatformProofs`.**  `PlanFits` is `PlanInv` for every machine and every environment.
`EveryPlan` shows the three parts for the plans of all strategies, from the bounds of
the pool (`PoolBounds`), its memory (`MemoryOfPlan`: the share of vLLM is floored, so 70,
40 or 35 percent and the sandboxes stay below the whole from 5 GB on) and the choice of
GPUs (`SomeGpuForVllm`).  The inductive invariant remembers that the plan is one of the
machine's strategy's and the configuration one of the plan's.

`LockIsExclusive` is `LockInv` for any number of threads,
objects, kills and any lease.  `LeaseIsHeld` is what carries `Exclusion` for Redis: a
thread within its lease has the key with at least its lease left, so a second one would have to
have its token there too.  For the local lock `MutexIsHeld` has to be added: who is in
has its object's mutex locked.

`CachesAgree` is `CacheInv`: for every key that was not incremented after its end, the row in
Redis is the dictionary's entry, or is over while the dictionary has cleaned its own up
(`Agree`).  `SqlSafety` is `SqlInv`: `Progress` ties the statements pending on a
connection to the step the call is at, `Over` says what a call that is over has left, `Pool`
counts the connections, `Connected` says that a call has one exactly between getting
and returning it, and `Losing` that the connection a `putconn` is about to lose is that of
a fetch which was done when the server restarted, each lost by a call of its own.  `StorageHolds` puts the three together as the run's `StorageInv`.

`RequestSafety` is `RequestInv`.  `Traced` tells how the issue came to be as it is by the
executions and the results the client saw; `Walked` that calls ahead have no result and
that the last one is made unless the checkout was not.  `UpgradeSafety` is `UpgradeInv`:
`Recorded` (nobody holds a signal that was not recorded), `Remembered` (what a process
dispatches is open in its own memory, and what it has filed is marked there or is about to
be, unless marking it failed) and `Published`
(from step to step the override is on the branch checked out, committed, pushed).  With two
publishers on one working tree `Published` fails, which is the hypothesis.  `CandidateStays`
is the action property `CandidateIsKept`, for any number of publishers.

**Only model-checked.**  Every liveness property (section 4), since fairness and ENABLED
are beyond the prover.  No safety property of a passing run is left to TLC alone.

## 6. Findings

`orchestrator_loss` is a run whose counterexample TLC finds: `README.md:39` says "killed
containers retry with zero data loss", but a heartbeat killed between two
`create_subtask` calls loses the rest of its plan; the next one sees children, never
decomposes again, and posts the result as complete.

The other disagreements are listed under "findings" in `PROJECT.json` with the
statement quoted.  They came up while the code was modelled; the models do what the code
does, and where a property would be refuted by one, its statement says what is left out.
The ones that weigh most:

* `heartbeat.py`: step 5b sets the issue `in_progress` before the test for a resumed
  issue asks for `blocked`, so a reply is not injected.
* `graph_nodes.py`, `heartbeat.py`: what the gate approves at 70 or 75 the heartbeat
  compares with 85; and what is stored in the cache is everything from 70 on, rejected
  outputs and questions included.
* `spending_tracker.py`: the permanent lock halts one agent where "all agents" are said to
  halt; nothing closes a half-open row.
* `skill_registry_index.py`: the file lock orders the saves, but each saves the whole
  index its process loaded.
* `skill_ab.py`: outcomes are deduplicated to two per skill, so a quota above that is
  never met and no winner is promoted.
* `backend_pool.py`: a half-open circuit lets every thread probe, not one.
* `dev-runner/main.py`: two deploys of one app that overlap at the install command leave a
  process in no table; a browser request may load another app's port.
* `storage/`: two local locks of one name do not exclude each other; an in-memory counter
  that expired keeps its old deadline.
* `llm_retry.py`: `Retry-After` is never found on the backends' errors.
* `self_upgrade_trigger.py`: marking signals rewrites the file from what was read before,
  under a lock of one process.
* `graph_nodes.py:37`: the dispatcher is built without builders, and nowhere else.  In
  production only the behaviours of `SelfUpgrade` with `wired = FALSE` occur: every
  dispatch is rejected and no signal is ever marked.  The others (`wired = TRUE`) are those
  of a dispatcher that is handed its builders, as the constructor allows and the tests do.
* `storage/postgres.py`: a fetch over which the server restarts costs the pool a
  connection for good, since returning it raises.
* `sandbox/client.py`: `stop` is said to kill all containers; one whose creation outlasts the
  client's time-out is in no list and runs until its time to live ends.

## 7. Not modelled

* **Stranded children** are in `Orchestrator`, but `ParentSettles` excludes them by
  hypothesis: a child that is cancelled, or `in_progress` without a worker, keeps its
  parent waiting for ever.  No property would catch this hazard, since the code has no way out
  of it; `HeartbeatInv` says which issues a heartbeat may leave in progress.
* **Directories that cannot be removed** (`rmtree` with errors ignored) in
  `SkillLibrary`, and **an eviction statement that fails** in `MessageStore`: there every removal
  that is reached is done.
* **Text**: prompts, comments, formatting, plan and result wording, except where a
  comment is a record (retry markers).  Parsing of model output is its verdict.
* **Which agent** gets a child, and rebalancing; ranking of search results by similarity:
  no status depends on them.
* **A node that goes on in its thread** after `NodeTimeoutError`: what it does to the state
  after the engine has left depends on the node, and on references the engine no longer has.
* **Lost updates on `total_inflight`**, which the pool changes without a lock: it weighs
  backends only.
* **What nothing calls or nothing is handed**: lessons (the heartbeat builds its request
  without a lesson store), the canonical harvester (it gets an empty registry), the
  Tier 2 pipeline, the methods that invalidate the cache or close a breaker by hand.
* **The tools themselves** (search, databases, git, static analysis, images): I/O on
  external services.  Their shared counters and the containers they run in are modelled.
* **Configuration, metrics, doctor, command line**, scripts: no state that two actors
  share and no protocol of their own.
* **External systems** (Paperclip, messengers, model providers, git, databases, the
  container server) are modelled as the code uses them; their definitions are marked
  external in the map.

## 8. Plan

The modules of the plan are written, and what they state of safety is proved.  What
could still be added:

1. The step a timed-out node goes on with in its thread (`graph_engine.py:199`), once its node
   functions say which keys of the state they change: a hazard without a property.
2. The invariants that the liveness arguments rest on (what is enabled whenever a
   property is owed), as theorems of their own: the part of liveness within the prover's reach.
