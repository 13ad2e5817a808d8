------------------------------- MODULE MCCalls -------------------------------
(***************************************************************************)
(* What a heartbeat does while it works, in one instance: two threads call *)
(* the models of a primary and a spare backend, or the workflow is watched *)
(* for a cancellation, or one backend is called with its retries.  subject *)
(* says which of the three a behaviour is about; the others stay as they   *)
(* are.                                                                    *)
(***************************************************************************)
EXTENDS BackendPool, TLC

CONSTANTS t1, t2, primary, spare,
          MaxPollErrors, MaxRetries, MaxNodes, MaxChanges, MaxDrops,
          MaxLLMRetries, InnerRetries, Window, MinOutput, MaxMessages, MaxTokens

VARIABLES subject,
          status, pushing, socket, events, subscribed, phase, nodes, token,
          poller, attempt, answer, pollErrors, stopped, cancelledOnce, late,
          polls, changes, drops,
          kind, system, tokens, maxTokens, retry, inner, llmPc, sent, room, replies

watch == <<status, pushing, socket, events, subscribed, phase, nodes, token,
           poller, attempt, answer, pollErrors, stopped, cancelledOnce, late,
           polls, changes, drops>>
llm == <<kind, system, tokens, maxTokens, retry, inner, llmPc, sent, room, replies>>
all == <<subject, vars, watch, llm>>

L == INSTANCE LLMCall WITH MaxRetries <- MaxLLMRetries, attempt <- retry, pc <- llmPc
W == INSTANCE Cancellation WITH errors <- pollErrors, MaxErrors <- MaxPollErrors

ASSUME W!CancellationAssumption /\ L!LLMCallAssumption

MCThreads == {t1, t2}
MCBackends == {primary, spare}
MCEntries == <<primary, spare>>
MCStrategies == {"failover", "round_robin", "least_loaded"}

OnPool == subject = "pool"
OnWatch == subject = "watch"
OnLLM == subject = "llm"

MCInit ==
  /\ Init /\ W!Init /\ L!Init
  /\ \/ OnPool /\ ~pushing /\ kind = "openai"
     \/ OnWatch /\ strategy = "failover" /\ kind = "openai"
     \/ OnLLM /\ strategy = "failover" /\ ~pushing
MCNext ==
  \/ OnPool /\ Next /\ UNCHANGED <<subject, watch, llm>>
  \/ OnWatch /\ W!Next /\ UNCHANGED <<subject, vars, llm>>
  \/ OnLLM /\ L!Next /\ UNCHANGED <<subject, vars, watch>>
\* Fairness of BackendPool and of Cancellation, each while it is the subject.
MCFairness ==
  /\ \A b \in Backends : WF_all(OnPool /\ CoolDown(b) /\ UNCHANGED <<subject, watch, llm>>)
  /\ \A t \in Threads :
       /\ WF_all(OnPool /\ Begin(t) /\ UNCHANGED <<subject, watch, llm>>)
       /\ WF_all(OnPool /\ Advance(t) /\ UNCHANGED <<subject, watch, llm>>)
  /\ WF_all(OnWatch /\ W!Poll /\ UNCHANGED <<subject, vars, llm>>)
  /\ WF_all(OnWatch /\ (W!Watch \/ W!Check \/ W!StartNode) /\ UNCHANGED <<subject, vars, llm>>)
  /\ WF_all(OnWatch /\ W!Stop /\ UNCHANGED <<subject, vars, llm>>)
MCSpec == MCInit /\ [][MCNext]_all /\ MCFairness

\* See LLMCall.
CallInv == L!CallInv

\* See Cancellation.
WatchInv == W!WatchInv
CancelIsNoticed == OnWatch => W!CancelIsNoticed
=============================================================================
