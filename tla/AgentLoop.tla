----------------------------- MODULE AgentLoop ------------------------------
(***************************************************************************)
(* One attempt: the loop of harness/agent/loop.py driving the policy, the  *)
(* tool registry, the submission controller and, in arm A2, the gate.      *)
(*                                                                         *)
(* An iteration of the loop is one step here: nothing runs beside it.  The *)
(* policy may propose any call at all, with any token cost; what the loop  *)
(* reports back to it is kept in `told`.                                   *)
(***************************************************************************)
EXTENDS SubmissionGate

CONSTANTS
  Arms,        \* the arms to run: a subset of {"A0", "A1", "A2"}
  Accepts,     \* the values the target accepts
  Costs,       \* budget_tokens one model call may cost
  MaxTokens,   \* cfg.max_total_tokens
  NoAnswer

ASSUME LoopAssumption ==
  /\ Arms \subseteq {"A0", "A1", "A2"}
  /\ Accepts \subseteq Values
  /\ Costs \subseteq Nat
  /\ MaxTokens \in Nat \ {0}
  /\ NoAnswer \notin Values

VARIABLES
  arm,         \* cfg.arm
  tokens,      \* state.tokens.budget_tokens
  reason,      \* state.termination_reason, "none" while the loop runs
  told,        \* the kinds of result the policy has been shown
  persisted    \* the trace has been written out

loopVars == <<arm, tokens, reason, told, persisted>>
vars == <<gateVars, loopVars>>

-----------------------------------------------------------------------------
Reasons == {"solved", "submitted_wrong", "max_steps", "max_tokens", "agent_quit", "error"}

Feedback == {"output", "recorded", "blocked", "verdict", "ok"}

LoopTypeOK ==
  /\ TypeOK
  /\ arm \in Arms
  /\ tokens \in Nat
  /\ reason \in Reasons \cup {"none"}
  /\ told \in SUBSET Feedback
  /\ persisted \in BOOLEAN

LoopInit ==
  /\ Init
  /\ arm \in Arms
  /\ tokens = 0
  /\ reason = "none"
  /\ told = {}
  /\ persisted = FALSE

-----------------------------------------------------------------------------
(* The budget hooks at the head of the loop, and the call to the policy. *)

StopOnSteps ==
  /\ reason = "none"
  /\ Len(steps) >= MaxSteps
  /\ reason' = "max_steps"
  /\ UNCHANGED <<gateVars, arm, tokens, told, persisted>>

\* Slip: the token ceiling looked at without regard to the steps.
StopOnTokensFirst ==
  /\ reason = "none"
  /\ tokens >= MaxTokens
  /\ reason' = "max_tokens"
  /\ UNCHANGED <<gateVars, arm, tokens, told, persisted>>

StopOnTokens ==
  /\ reason = "none"
  /\ Len(steps) < MaxSteps
  /\ tokens >= MaxTokens
  /\ reason' = "max_tokens"
  /\ UNCHANGED <<gateVars, arm, tokens, told, persisted>>

\* Slip: the token ceiling is not looked at.
WithinSteps == reason = "none" /\ Len(steps) < MaxSteps

WithinBudget == reason = "none" /\ Len(steps) < MaxSteps /\ tokens < MaxTokens

\* _format_step_result: what the policy is told of the last recorded step, i - 1.
ResultOf(i) ==
  IF steps[i].tool = "shell" THEN "output"
  ELSE IF \E s \in Range(submissions) : s.step = i - 1 THEN "verdict"
  ELSE IF \E b \in Range(blocked) : b.step = i - 1 THEN "blocked"
  ELSE IF steps[i].tool \in {"record_validation", "record_hypothesis"} THEN "recorded"
  ELSE "ok"

Report == IF steps = <<>> THEN {} ELSE {ResultOf(Len(steps))}

\* propose_action raises, its own retries included: the attempt ends, nothing is recorded.
PolicyFails ==
  /\ WithinBudget
  /\ told' \in {told, told \cup Report}
  /\ reason' = "error"
  /\ UNCHANGED <<gateVars, arm, tokens, persisted>>

\* propose_action returns a call: the previous result went out with the request.
Propose ==
  /\ WithinBudget
  /\ told' = told \cup Report
  /\ \E cost \in Costs : tokens' = tokens + cost
  /\ UNCHANGED <<arm, persisted>>

Goes(on) == reason' = on

-----------------------------------------------------------------------------
(* The dispatched call, record_step and the stop conditions after it. *)

CallShell(seen) == Propose /\ Analyse(seen) /\ Goes("none")

CallHypothesis(text) == Propose /\ RecordHypothesis(text) /\ Goes("none")

CallValidation(type, c, source, text) ==
  Propose /\ RecordValidation(type, c, source, text) /\ Goes("none")

\* Slip: the baseline arm gets the gate too.
GatedBaseline == arm \in {"A1", "A2"}

Gated == arm = "A2"

\* A submission the gate sends back: a step is spent, the loop goes on.
CallBlockedSubmit(c) == Propose /\ Gated /\ BlockSubmission(c) /\ Goes("none")

\* Slip: the oracle accepts what it could not check.
VerdictsOnTrust(c) == BOOLEAN

\* What the oracle says: a target that could not be run, or not in time, scores FALSE.
Verdicts(c) == IF c \in Accepts THEN {TRUE, FALSE} ELSE {FALSE}

\* Slip: a wrong answer leaves the loop running.
ScoredKeepsGoing(accepted) == IF accepted THEN "solved" ELSE "none"

Scored(accepted) == IF accepted THEN "solved" ELSE "submitted_wrong"

\* A submission that reaches the oracle.  It is terminal, right or wrong.
CallSubmit(c, accepted) ==
  /\ Propose
  /\ IF Gated THEN AdmitSubmission(c, accepted)
     ELSE RecordSubmission(c, accepted, NoEntry, NoEntry)
  /\ Goes(Scored(accepted))

CallQuit ==
  /\ Propose
  /\ RecordStep("quit", {})
  /\ UNCHANGED <<hypotheses, ledger, blocked, submissions>>
  /\ Goes("agent_quit")

\* dispatch raises: an unknown tool, missing or stray arguments, an oracle that fails.
\* The step is recorded with the call but without a result.
CallFails(tool) ==
  /\ Propose
  /\ RecordStep(tool, {})
  /\ UNCHANGED <<hypotheses, ledger, blocked, submissions>>
  /\ Goes("error")

\* Slip: an attempt that ended in an error is not written out.
PersistUnlessError ==
  /\ reason \notin {"none", "error"}
  /\ ~persisted
  /\ persisted' = TRUE
  /\ UNCHANGED <<gateVars, arm, tokens, reason, told>>

Persist ==
  /\ reason # "none"
  /\ ~persisted
  /\ persisted' = TRUE
  /\ UNCHANGED <<gateVars, arm, tokens, reason, told>>

LoopNext ==
  \/ StopOnSteps
  \/ StopOnTokens
  \/ PolicyFails
  \/ \E seen \in Outputs : CallShell(seen)
  \/ \E text \in Reasoning : CallHypothesis(text)
  \/ \E type \in ActionTypes, c \in Values, source \in CitedSteps, text \in Texts :
        CallValidation(type, c, source, text)
  \/ \E c \in Values : CallBlockedSubmit(c)
  \/ \E c \in Values : \E accepted \in Verdicts(c) : CallSubmit(c, accepted)
  \/ CallQuit
  \/ \E tool \in Tools \ {"quit"} : CallFails(tool)
  \/ Persist

LoopSpec == LoopInit /\ [][LoopNext]_vars

\* The loop is one sequential program: unless it is killed, it takes its next step.
\* Every call it waits for returns or is cut off: a tool by its timeout, the model by
\* the client's own.
FairLoopSpec == LoopSpec /\ WF_vars(LoopNext)

-----------------------------------------------------------------------------
(* Properties *)

Accepted == {s \in Range(submissions) : s.accepted}

LastTool == steps[Len(steps)].tool

\* The reason in the trace's meta line and the steps below it tell one story: the
\* metrics read the outcome from either.  Only a submission scores, an attempt that
\* ran out of steps or tokens holds no submission, and a quit is the last call
\* (loop.py, the stop conditions; analysis/compute_metrics.py reads both).
ReasonMatchesTrace ==
  /\ reason = "solved" <=> Accepted # {}
  /\ reason = "submitted_wrong" <=> submissions # <<>> /\ Accepted = {}
  /\ reason = "max_steps" => Len(steps) = MaxSteps
  /\ reason = "max_tokens" => Len(steps) < MaxSteps /\ tokens >= MaxTokens
  /\ (reason # "error" /\ steps # <<>> /\ LastTool = "quit") <=> reason = "agent_quit"

\* The policy never learns what the oracle said: no result of a submission that was
\* scored is ever part of a later request (loop.py:101-106, one-shot and terminal).
VerdictNeverTold == "verdict" \notin told

\* The token ceiling is passed by less than the cost of one model call, and no
\* recorded step was paid for after the ceiling had been reached.
TokensOvershootOnce ==
  \A most \in Costs : (\A cost \in Costs : cost <= most) => tokens < MaxTokens + most

\* In arm A2 whatever was scored is named by a ledger entry that cites earlier work
\* and passes the levels, and was not lifted; in A0 and A1 nothing is ever blocked.
ArmsDifferOnlyByTheGate ==
  /\ arm = "A2" => /\ AuditNamesEarlierWork
                   /\ \A s \in Range(submissions) : Admissible(s.value)
  /\ arm # "A2" => blocked = <<>>

Outcome ==
  CASE reason = "none" -> "open"
    [] reason = "solved" -> "solved"
    [] reason = "submitted_wrong" -> "wrong"
    [] OTHER -> "unanswered"

AnswerOf == IF submissions = <<>> THEN NoAnswer ELSE submissions[1].value

Abstract == INSTANCE OneShotAttempt WITH outcome <- Outcome, answer <- AnswerOf

\* An attempt, with its blocks, its errors and its budgets, is a one-shot attempt.
ImplementsOneShot == Abstract!Spec

\* Whatever the policy proposes, the attempt ends and its trace is written.
TraceIsWritten == <>persisted
=============================================================================
