------------------------------- MODULE LLMCall -------------------------------
(***************************************************************************)
(* One call of a language model by a workflow node: the retries of         *)
(* agents/llm_retry.py around one backend of vibe/backends, and what the   *)
(* backend itself does with a request: vllm.py cuts the conversation to    *)
(* the context window and posts once; openai_backend.py and                *)
(* anthropic_backend.py post again on their own.  The provider is external *)
(* and answers each post as it likes.                                      *)
(***************************************************************************)
EXTENDS Integers, Sequences, FiniteSets, SequencesExt, FiniteSetsExt

CONSTANTS
    MaxRetries,    \* llm_max_retries
    InnerRetries,  \* _MAX_RETRIES of the two hosted backends
    Window,        \* _MAX_MODEL_LEN
    MinOutput,     \* _MIN_OUTPUT_TOKENS
    MaxMessages,   \* bound: messages of the conversation
    MaxTokens      \* bound: tokens of a message

LLMCallAssumption ==
    /\ {MaxRetries, MaxMessages, MaxTokens} \subseteq Nat
    /\ {InnerRetries, MinOutput} \subseteq Nat \ {0}
    /\ Window \in Nat /\ Window > MinOutput

Kinds == {"vllm", "openai", "anthropic"}

\* The replies to a post: an answer, an answer without text, one that is no
\* JSON, none in time, no connection, and the refusals by status; "credit" is a
\* 429 whose body names credit, billing or quota.
Replies == {"ok", "empty", "garbled", "timeout", "unreachable",
            "429", "credit", "402", "5xx", "4xx"}

\* The errors the backends raise, as far as the retry loop tells them apart:
\* TimeoutError, BillingExhaustedError, and RuntimeErrors by their cause.
Transient == {"TimeoutError", "429", "5xx", "unreachable"}

VARIABLES
    kind,       \* the backend
    system,     \* whether the conversation begins with a system message
    tokens,     \* the estimated tokens of each message
    maxTokens,  \* max_tokens of the call
    attempt, inner,  \* of the two loops
    pc,         \* "attempt", "post", "ok", "raised", "exhausted"
    sent,       \* indices of the messages of the last post
    room,       \* the max_tokens of the last post
    replies     \* what the provider has answered so far

request == <<kind, system, tokens, maxTokens>>
vars == <<request, attempt, inner, pc, sent, room, replies>>

-----------------------------------------------------------------------------
(* The context window                                                      *)

Total(ts, I) == MapThenSumSet(LAMBDA i : ts[i], I)

\* max_tokens and the budget of the input, when the two together overflow.
Room(ts, m) ==
    LET total == Total(ts, DOMAIN ts)
    IN  IF Window - m < MinOutput THEN Max({MinOutput, Window - total}) ELSE m

\* Mutant: from the oldest message up.
KeepOldest(ts, middle, budget) ==
    LET Step(kept, i) ==
            IF i \in middle /\ budget - Total(ts, kept) >= ts[i] THEN kept \cup {i} ELSE kept
    IN  FoldLeft(Step, {}, [i \in DOMAIN ts |-> i])

\* From the newest message down, each one that still fits.
KeepRecent(ts, middle, budget) ==
    LET Step(kept, i) ==
            IF i \in middle /\ budget - Total(ts, kept) >= ts[i] THEN kept \cup {i} ELSE kept
    IN  FoldLeft(Step, {}, Reverse([i \in DOMAIN ts |-> i]))

Overflows(ts, m) == Total(ts, DOMAIN ts) + m > Window

\* The system message, what is kept of the middle, and the latest message.
Reserved(ts, sys) == {Len(ts)} \cup (IF sys THEN {1} ELSE {})

Truncated(ts, sys, m) ==
    LET fixed == Reserved(ts, sys)
        budget == Window - Room(ts, m) - Total(ts, fixed)
    IN  IF ~Overflows(ts, m) \/ Len(ts) <= 2
        THEN DOMAIN ts
        ELSE fixed \cup KeepRecent(ts, DOMAIN ts \ fixed, budget)

-----------------------------------------------------------------------------
(* The errors                                                              *)

\* What each backend raises for a reply it does not post again for; "none" is
\* a result.  vLLM's statuses stay in the text of its RuntimeError.
VLLMRaises(r) ==
    CASE r = "ok" -> "none"
      [] r = "timeout" -> "TimeoutError"
      [] r = "credit" -> "429"
      [] OTHER -> r

\* A rate limit that outlasts the backend's own loop is a TimeoutError.
OpenAIRaises(r) ==
    CASE r = "ok" -> "none"
      [] r \in {"timeout", "429", "credit"} -> "TimeoutError"
      [] OTHER -> r

AnthropicRaises(r) ==
    CASE r = "ok" -> "none"
      [] r \in {"timeout", "429"} -> "TimeoutError"
      [] r \in {"402", "credit"} -> "BillingExhaustedError"
      [] OTHER -> r

Raised(k, r) ==
    CASE k = "vllm" -> VLLMRaises(r)
      [] k = "openai" -> OpenAIRaises(r)
      [] k = "anthropic" -> AnthropicRaises(r)

\* The replies after which a hosted backend goes round its own loop: a rate
\* limit, and every error of the requests library, whatever the status.
PostsAgain(k, r) ==
    /\ k # "vllm"
    /\ r \in {"429", "credit", "garbled", "unreachable", "402", "5xx", "4xx"}
    /\ Raised(k, r) # "BillingExhaustedError"

\* The loop of a hosted backend has a post left.
PostsLeft(i) == i < InnerRetries - 1

-----------------------------------------------------------------------------
Init ==
    /\ kind \in Kinds
    /\ tokens \in UNION {[1 .. n -> 0 .. MaxTokens] : n \in 1 .. MaxMessages}
    /\ system \in BOOLEAN
    /\ maxTokens \in 1 .. Window
    /\ kind # "vllm" => tokens = <<1>> /\ maxTokens = 1 /\ ~system
    /\ attempt = 0 /\ inner = 0 /\ pc = "attempt"
    /\ sent = {} /\ room = 0 /\ replies = << >>

\* generate_chat of the backend is entered; the conversation it is given is
\* the same every time.
Attempt ==
    /\ pc = "attempt"
    /\ inner' = 0
    /\ pc' = "post"
    /\ IF kind = "vllm"
       THEN /\ sent' = Truncated(tokens, system, maxTokens)
            /\ room' = IF Overflows(tokens, maxTokens) THEN Room(tokens, maxTokens) ELSE maxTokens
       ELSE sent' = DOMAIN tokens /\ room' = maxTokens
    /\ UNCHANGED <<request, attempt, replies>>

\* One post.  The hosted backend's last one raises instead of going round.
Post ==
    /\ pc = "post"
    /\ \E r \in Replies :
         LET again == PostsAgain(kind, r) /\ PostsLeft(inner)
             error == Raised(kind, r)
         IN  /\ replies' = Append(replies, r)
             /\ inner' = IF again THEN inner + 1 ELSE inner
             /\ attempt' = IF again \/ error \notin Transient THEN attempt ELSE attempt + 1
             /\ pc' = IF again THEN "post"
                      ELSE IF error = "none" THEN "ok"
                      ELSE IF error \notin Transient THEN "raised"
                      ELSE IF attempt >= MaxRetries THEN "exhausted" ELSE "attempt"
    /\ UNCHANGED <<request, sent, room>>

Next == Attempt \/ Post

Spec == Init /\ [][Next]_vars

-----------------------------------------------------------------------------
(* Properties                                                              *)

\* The type invariant.
TypeOK ==
    /\ kind \in Kinds /\ system \in BOOLEAN
    /\ attempt \in 0 .. MaxRetries + 1 /\ inner \in 0 .. InnerRetries - 1
    /\ pc \in {"attempt", "post", "ok", "raised", "exhausted"}
    /\ sent \subseteq DOMAIN tokens /\ room \in 0 .. Window
    /\ replies \in Seq(Replies)

\* What vLLM is sent fits its context window together with the answer, unless
\* the conversation has two messages, or its first and last alone do not fit.
WindowHolds ==
    (kind = "vllm" /\ sent # {} /\ Len(tokens) > 2) =>
      \/ Total(tokens, sent) + room <= Window
      \/ Total(tokens, Reserved(tokens, system)) + room > Window

\* Of all the choices of middle messages that fit, the one that is sent wins at
\* the newest message on which it and another differ: a recent message is never
\* given up for older ones.
NewestWin ==
    (kind = "vllm" /\ sent # {} /\ Overflows(tokens, maxTokens) /\ Len(tokens) > 2) =>
      LET fixed == Reserved(tokens, system)
          fits(S) == Total(tokens, fixed \cup S) + room <= Window
      IN  \A S \in SUBSET (DOMAIN tokens \ fixed) :
            fits(S) /\ S # sent \ fixed =>
              Max(SymDiff(S, sent \ fixed)) \in sent

\* Credit that has run out is not asked for again within the call: the refusal
\* is the last thing the provider hears (Anthropic, the one that tells).
BillingStopsTheCall ==
    kind = "anthropic" =>
      \A i \in DOMAIN replies : replies[i] \in {"402", "credit"} => i = Len(replies)

\* An answer ends the call, and vLLM's refusal of the request does: neither is
\* posted a second time.
NothingAnsweredIsPostedAgain ==
    \A i \in DOMAIN replies :
      \/ i = Len(replies)
      \/ replies[i] \notin {"ok", "empty"}
         /\ (kind = "vllm" => replies[i] \in {"timeout", "unreachable", "429", "credit", "5xx"})

\* The call gives up after its retries and no sooner: each attempt of the outer
\* loop ends in a transient error, of which a hosted backend's own loop may
\* make several posts.
ExhaustedMeansTried ==
    pc = "exhausted" =>
      /\ Len(replies) \in MaxRetries + 1 .. (MaxRetries + 1) * InnerRetries
      /\ Raised(kind, Last(replies)) \in Transient

\* What every state of a call satisfies.
CallInv ==
    /\ TypeOK /\ WindowHolds /\ NewestWin
    /\ BillingStopsTheCall /\ NothingAnsweredIsPostedAgain /\ ExhaustedMeansTried
=============================================================================
