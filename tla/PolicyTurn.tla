----------------------------- MODULE PolicyTurn -----------------------------
(***************************************************************************)
(* The conversation the policy keeps with the model: harness/agent/        *)
(* policy.py (ClaudePolicy), policy_openai.py (OpenAIPolicy) and the       *)
(* retrieval of pattern cards behind both (retrieval.py).                  *)
(*                                                                         *)
(* A turn builds the next request from the committed transcript, the       *)
(* result of the step before and, in arms A1 and A2, the cards retrieved   *)
(* for the latest hypothesis; sends it, again after a transient failure;   *)
(* and commits question and answer together.  The loop then dispatches the *)
(* call and records the step (module AgentLoop); of a step only the call   *)
(* it answers and the hypothesis it records are kept here.                 *)
(***************************************************************************)
EXTENDS Integers, Sequences, FiniteSets, Functions, SequencesExt

CONSTANTS
  Providers,     \* which of the two policies: a subset of {"claude", "openai"}
  PolicyArms,    \* a subset of {"A0", "A1", "A2"}
  Hypotheses,    \* hypothesis texts
  NoText,        \* the query while there is no hypothesis: the empty text
  Cards,         \* the card library the policy is built with
  Retrieved(_),  \* the cards for a text, best first (module Retrieval defines it)
  RetryCount,    \* cfg.api_retry_count
  MaxTurns       \* bound on the steps of an attempt (cfg.max_steps)

ASSUME PolicyAssumption ==
  /\ Providers \subseteq {"claude", "openai"}
  /\ PolicyArms \subseteq {"A0", "A1", "A2"}
  /\ \A text \in Hypotheses \cup {NoText} : Retrieved(text) \in Seq(Cards)
  /\ RetryCount \in Nat
  /\ MaxTurns \in Nat

VARIABLES
  provider, arm, \* fixed when the policy is built
  steps,         \* state.steps: the call each answers and its retrieval event
  ledger,        \* state.hypothesis_ledger
  messages,      \* self.messages, the committed transcript
  pending,       \* self._pending_id
  injected,      \* {self._last_injected_ids}, and {} while that is None
  active,        \* state.active_retrieval
  request,       \* the messages of the request last sent
  failures,      \* attempts on it that failed
  call,          \* the ToolCall handed to the loop
  phase          \* "loop", "calling", "dispatching" or "ended"

policyVars == <<provider, arm, steps, ledger, messages, pending, injected,
                active, request, failures, call, phase>>

-----------------------------------------------------------------------------
NoCall == 0              \* no tool call; the model's calls are numbered from 1
NoStep == -1

Calls == 1 .. MaxTurns
CardIds == Seq(Cards)

Message == [role : {"user", "tool", "assistant"}, answers : Calls \cup {NoCall},
            result : Nat \cup {NoStep}, cards : CardIds,
            calls : Seq(Calls), mark : BOOLEAN]

Event == [hyp : Nat \cup {NoStep}, ids : CardIds, injected : BOOLEAN]

TypeOK ==
  /\ provider \in Providers /\ arm \in PolicyArms
  /\ steps \in Seq([call : Calls \cup {NoCall}, event : Event])
  /\ ledger \in Seq([step : Nat, text : Hypotheses])
  /\ messages \in Seq(Message) /\ request \in Seq(Message)
  /\ pending \in Calls \cup {NoCall} /\ call \in Calls \cup {NoCall}
  /\ \A ids \in injected : ids \in CardIds /\ injected = {ids}
  /\ active \in Event
  /\ failures \in 0 .. RetryCount
  /\ phase \in {"loop", "calling", "dispatching", "ended"}

-----------------------------------------------------------------------------
(* What the turn retrieves, for the latest hypothesis (_retrieve_for_step). *)

HypothesisStep == IF ledger = <<>> THEN NoStep ELSE Last(ledger).step
Query == IF ledger = <<>> THEN NoText ELSE Last(ledger).text

\* Cards are for arms A1 and A2, and only if there are any.
WithCards == arm \in {"A1", "A2"} /\ Cards # {}

Ids == IF WithCards THEN Retrieved(Query) ELSE <<>>

Injects == WithCards /\ Ids # <<>> /\ Ids \notin injected

\* Slip: a retrieval that finds nothing leaves the marker on the old cards.
MarkerOnHitsOnly == IF WithCards /\ Ids # <<>> THEN {Ids} ELSE injected

\* The marker moves with every retrieval, one that finds nothing included.
Marker == IF WithCards THEN {Ids} ELSE injected

EventNow == [hyp |-> HypothesisStep, ids |-> Ids, injected |-> Injects]

-----------------------------------------------------------------------------
(* The next request, built beside the transcript. *)

Blank == [role |-> "user", answers |-> NoCall, result |-> NoStep, cards |-> <<>>,
          calls |-> <<>>, mark |-> FALSE]

Block == IF Injects THEN Ids ELSE <<>>

Started == messages # <<>>

\* Slip: one step too early.
AnswerOffByOne == [Blank EXCEPT !.answers = pending, !.result = Len(steps) - 2]

Answer == [Blank EXCEPT !.answers = pending, !.result = Len(steps) - 1]

\* The task text at first; then the result of the last step, with the cards in the
\* same message (Claude) or in one after it (OpenAI).
Question ==
  IF ~Started THEN <<[Blank EXCEPT !.cards = Block]>>
  ELSE IF provider = "claude" THEN <<[Answer EXCEPT !.cards = Block]>>
  ELSE IF Block = <<>> THEN <<[Answer EXCEPT !.role = "tool"]>>
  ELSE <<[Answer EXCEPT !.role = "tool"], [Blank EXCEPT !.cards = Block]>>

Unmarked(ms) == [i \in DOMAIN ms |-> [ms[i] EXCEPT !.mark = FALSE]]

\* _mark_cache_breakpoint: the one on the last message, all others taken away.  The
\* messages are shared with the transcript, so those of the transcript lose theirs.
WithBreakpoint(ms) ==
  IF provider = "openai" THEN ms ELSE [Unmarked(ms) EXCEPT ![Len(ms)].mark = TRUE]

Ask ==
  /\ phase = "loop" /\ Len(steps) < MaxTurns
  /\ active' = EventNow
  /\ injected' = Marker
  /\ request' = WithBreakpoint(messages \o Question)
  /\ messages' = SubSeq(request', 1, Len(messages))
  /\ failures' = 0
  /\ phase' = "calling"
  /\ UNCHANGED <<provider, arm, steps, ledger, pending, call>>

-----------------------------------------------------------------------------
(* The call to the model. *)

\* A transient failure: the same request is sent again, after a pause.
Fails ==
  /\ phase = "calling" /\ failures < RetryCount
  /\ failures' = failures + 1
  /\ UNCHANGED <<provider, arm, steps, ledger, messages, pending, injected,
                 active, request, call, phase>>

\* Slip: it starts over instead.
StartsOver ==
  /\ phase = "calling" /\ failures = RetryCount /\ RetryCount > 0
  /\ failures' = 0
  /\ UNCHANGED <<provider, arm, steps, ledger, messages, pending, injected,
                 active, request, call, phase>>

\* The last attempt fails: the exception reaches the loop, which ends the attempt.
GivesUp ==
  /\ phase = "calling" /\ failures = RetryCount
  /\ phase' = "ended"
  /\ UNCHANGED <<provider, arm, steps, ledger, messages, pending, injected,
                 active, request, failures, call>>

Reply(ids) == [Blank EXCEPT !.role = "assistant", !.calls = ids]

\* Slip: the answer alone is kept.
CommitAnswer(ids) == messages' = Append(messages, Reply(ids))

\* Question and answer become part of the transcript together.
Commit(ids) == messages' = Append(request, Reply(ids))

\* The model calls one tool.  Both providers are asked for exactly one call a turn.
CallsTool ==
  /\ phase = "calling"
  /\ LET id == Len(steps) + 1
     IN Commit(<<id>>) /\ pending' = id /\ call' = id
  /\ phase' = "dispatching"
  /\ UNCHANGED <<provider, arm, steps, ledger, injected, active, request, failures>>

\* No tool call, or arguments that are no JSON (OpenAI): taken for a quit.
Quits(ids) ==
  /\ phase = "calling"
  /\ Commit(ids) /\ pending' = NoCall /\ call' = NoCall
  /\ phase' = "dispatching"
  /\ UNCHANGED <<provider, arm, steps, ledger, injected, active, request, failures>>

CallsNothing == Quits(<<>>)
CallsGarbled == provider = "openai" /\ Quits(<<Len(steps) + 1>>)

-----------------------------------------------------------------------------
(* The loop: it dispatches the call and records the step. *)

\* Slip: the event is computed anew when the step is recorded.
EventAfterDispatch == [hyp |-> IF ledger' = <<>> THEN NoStep ELSE Last(ledger').step,
                       ids |-> active.ids, injected |-> active.injected]

RecordedEvent == active

RecordStep ==
  steps' = Append(steps, [call |-> call, event |-> RecordedEvent])

\* A step after which the loop goes on: the call may have recorded a hypothesis.
GoesOn ==
  /\ phase = "dispatching" /\ call # NoCall
  /\ \/ UNCHANGED ledger
     \/ \E text \in Hypotheses : ledger' = Append(ledger, [step |-> Len(steps), text |-> text])
  /\ RecordStep
  /\ phase' = "loop"
  /\ UNCHANGED <<provider, arm, messages, pending, injected, active, request, failures, call>>

\* A quit, a scored submission or a tool that raised ends the attempt.
LastStep ==
  /\ phase = "dispatching"
  /\ UNCHANGED ledger
  /\ RecordStep
  /\ phase' = "ended"
  /\ UNCHANGED <<provider, arm, messages, pending, injected, active, request, failures, call>>

\* The loop is out of steps or of tokens.
StopsOnBudget ==
  /\ phase = "loop"
  /\ phase' = "ended"
  /\ UNCHANGED <<provider, arm, steps, ledger, messages, pending, injected,
                 active, request, failures, call>>

PolicyInit ==
  /\ provider \in Providers /\ arm \in PolicyArms
  /\ steps = <<>> /\ ledger = <<>> /\ messages = <<>> /\ request = <<>>
  /\ pending = NoCall /\ call = NoCall
  /\ injected = {}
  /\ active = [hyp |-> NoStep, ids |-> <<>>, injected |-> FALSE]
  /\ failures = 0
  /\ phase = "loop"

PolicyNext ==
  \/ Ask \/ Fails \/ GivesUp
  \/ CallsTool \/ CallsNothing \/ CallsGarbled
  \/ GoesOn \/ LastStep \/ StopsOnBudget

PolicySpec == PolicyInit /\ [][PolicyNext]_policyVars

\* One sequential program; the client's own time-out ends a call that hangs.
FairPolicySpec == PolicySpec /\ WF_policyVars(PolicyNext)

-----------------------------------------------------------------------------
(* Properties *)

Calling == phase = "calling"

\* In every request that goes out, each tool call of the model is answered by the
\* very next message, with the result of the step that was made for that call, and
\* nothing else is an answer: else the API refuses the request, or the model reads
\* one step's output as another's (policy.py, propose_action and _create_with_retry:
\* the transcript is committed only after success).
EveryCallAnsweredOnce ==
  Calling =>
    /\ \A i \in DOMAIN request : request[i].role = "assistant" =>
         /\ i < Len(request) /\ Len(request[i].calls) = 1
         /\ request[i + 1].answers = request[i].calls[1]
         /\ request[i + 1].result + 1 \in DOMAIN steps
         /\ steps[request[i + 1].result + 1].call = request[i].calls[1]
    /\ \A i \in DOMAIN request : request[i].answers # NoCall =>
         i > 1 /\ request[i - 1].role = "assistant"

\* The turn a message of the request belongs to, and what was retrieved in it.
TurnOf(i) == 1 + Cardinality({j \in 1 .. i - 1 : request[j].role = "assistant"})
IdsOf(turn) == IF turn <= Len(steps) THEN steps[turn].event.ids ELSE active.ids

Blocks == {i \in DOMAIN request : request[i].cards # <<>>}
Latest(S) == CHOOSE i \in S : \A j \in S : j <= i

\* When cards are retrieved for the current hypothesis, the last block of cards the
\* model has before it lists exactly those, and went out since they were last
\* retrieved anew: it is not left over from before a time when they were not
\* (policy.py:229-237; the gap X, nothing, X of test_policy_cache).
CardsInForce ==
  Calling /\ active.ids # <<>> =>
    /\ Blocks # {}
    /\ request[Latest(Blocks)].cards = active.ids
    /\ \A turn \in TurnOf(Latest(Blocks)) .. Len(steps) : IdsOf(turn) = active.ids

\* The same block is not sent twice while the retrieval stays the same, and arm A0
\* is never sent one (policy.py, _retrieve_for_step).
BlockSentOnce ==
  Calling =>
    /\ \A i, j \in Blocks : i < j =>
         \E turn \in TurnOf(i) + 1 .. TurnOf(j) : IdsOf(turn) # IdsOf(turn - 1)
    /\ arm = "A0" => Blocks = {}

\* A request to Claude carries one cache breakpoint among its messages, on the last;
\* to OpenAI none.  The messages outlive the request, marks included (policy.py,
\* _mark_cache_breakpoint).
OneBreakpoint ==
  Calling => {i \in DOMAIN request : request[i].mark}
               = IF provider = "claude" THEN {Len(request)} ELSE {}

\* Each request repeats the one before it word for word and adds to it: the prefix
\* the provider has cached stays valid, and a retry changes nothing.
RequestsOnlyGrow ==
  [][request' # request => IsPrefix(Unmarked(request), Unmarked(request'))]_policyVars

\* The retrieval event in a step's record is keyed on the hypothesis that was the
\* latest before that step, never on one the step itself recorded.
EventKeyedOnEarlierHypothesis ==
  \A t \in DOMAIN steps :
    LET earlier == {h.step : h \in {g \in Range(ledger) : g.step < t - 1}}
    IN steps[t].event.hyp = IF earlier = {} THEN NoStep ELSE Latest(earlier)

\* A turn comes to an end, in an answer or in an error, whatever the API does.
TurnEnds == Calling ~> ~Calling
=============================================================================
