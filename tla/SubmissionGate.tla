--------------------------- MODULE SubmissionGate ---------------------------
(***************************************************************************)
(* The A2 submission gate (harness/agent/scaffold.py) with the part of the *)
(* attempt state it reads and writes: the steps recorded so far, the two   *)
(* append-only ledgers, the blocked submissions and the submissions.       *)
(*                                                                         *)
(* The gate never executes the target and never learns whether a candidate *)
(* is right.  It asks where the candidate came from: not from the text of  *)
(* the artifact, and through a ledger entry that cites earlier work and    *)
(* passes two levels of semantic checks over what the agent had observed   *)
(* when it wrote the entry.                                                *)
(*                                                                         *)
(* The two level checks (harness/agent/derivation_check.py) are constants  *)
(* here: what is said of the gate holds whatever they compute, as long as  *)
(* they compute it from the entry and from the view of the earlier steps.  *)
(* Module DerivationCheck defines them and the MC modules plug them in.    *)
(***************************************************************************)
EXTENDS Integers, Sequences, FiniteSets, Functions

CONSTANTS
  Values,             \* strings the agent may put forward as a candidate
  Empty,              \* the empty string
  Short,              \* values of fewer than MIN_CANDIDATE_LEN bytes
  InArtifact,         \* values whose bytes occur verbatim in the artifact
  HasArtifact,        \* FALSE: the gate was built with artifact=None
  ActionTypes,        \* action_type strings the agent may write
  KnownActionTypes,   \* the ones of ValidationActionType
  CitedSteps,         \* source_step_idx values it may write; -1 stands for None too
  Texts,              \* what an entry may say, as far as the levels see it
  Reasoning,          \* what a hypothesis may say, as far as the levels would see it
  Outputs,            \* what one tool output may show: each a set of observations
  MaxSteps,           \* cfg.max_steps
  MaxBlocks,          \* max_blocks_per_reason
  RequireDerivation, RequireLedger, RequireTerminality, RequireReachability,
  ConsumerObserved(_, _, _),  \* level 1: entry text, cited output, view
  GuardsAccounted(_, _, _)    \* level 2: entry text, reasoning counted with it, view

Shown == Outputs \cup {{}}                    \* what one step may add to the view
Views == {UNION S : S \in SUBSET Outputs}     \* what the agent may have seen so far

ASSUME GateAssumption ==
  /\ Short \subseteq Values
  /\ InArtifact \subseteq Values
  /\ KnownActionTypes \subseteq ActionTypes
  /\ CitedSteps \subseteq Int
  /\ MaxSteps \in Nat \ {0}
  /\ MaxBlocks \in Nat
  /\ {HasArtifact, RequireDerivation, RequireLedger,
      RequireTerminality, RequireReachability} \subseteq BOOLEAN
  /\ \A t \in Texts, o \in Shown, w \in Views : ConsumerObserved(t, o, w) \in BOOLEAN
  /\ \A t \in Texts, r \in SUBSET Reasoning, w \in Views : GuardsAccounted(t, r, w) \in BOOLEAN

VARIABLES
  steps,        \* state.steps: the tool of every recorded step and what its output shows
  hypotheses,   \* state.hypothesis_ledger
  ledger,       \* state.validation_ledger
  blocked,      \* state.blocked_submissions, with the audit's reason code
  submissions   \* state.submissions

gateVars == <<steps, hypotheses, ledger, blocked, submissions>>

-----------------------------------------------------------------------------
(* A definition under the heading "Slip" is a mistake the code could plausibly *)
(* make in place of the definition after it.  No specification uses it: it is  *)
(* there to see that a property would notice.                                  *)

\* The tool a step records; "unknown" is any name the registry does not have.
Tools == {"shell", "record_hypothesis", "record_validation", "submit_candidate", "quit", "unknown"}

LevelCodes == {"no_consumer_observed", "guard_not_accounted_for"}

BlockCodes == LevelCodes \cup
  {"empty_candidate", "lifted_candidate", "no_validation_for_candidate",
   "malformed_validation", "abstained_on_block_budget"}

NoEntry == -1     \* an audit that names no ledger entry

Step == [tool : Tools, seen : Shown]
HypothesisRec == [step : Nat, text : Reasoning]
Entry == [step : Nat, candidate : Values, source : Int, qualifies : BOOLEAN, text : Texts]
Block == [step : Nat, value : Values, code : BlockCodes]
SubmissionRec == [step : Nat, value : Values, accepted : BOOLEAN, entry : Int, source : Int]

TypeOK ==
  /\ steps \in Seq(Step)
  /\ hypotheses \in Seq(HypothesisRec)
  /\ ledger \in Seq(Entry)
  /\ blocked \in Seq(Block)
  /\ submissions \in Seq(SubmissionRec)

\* Slip: the step counted as recorded before its handler runs.
StepIdxBehind == Len(steps) - 1

\* state.step_idx: the loop numbers a step by the steps recorded before it.
StepIdx == Len(steps)

-----------------------------------------------------------------------------
(* Requirement 1: where the candidate came from. *)

\* ArtifactIndex.contains: a verbatim occurrence counts from MIN_CANDIDATE_LEN on.
Contains(c) == c \in InArtifact /\ c \notin Short

Provenance(c) ==
  IF c = Empty \/ ~HasArtifact \/ c \in Short THEN "undetermined"
  ELSE IF Contains(c) THEN "lifted" ELSE "derived"

-----------------------------------------------------------------------------
(* Requirement 2: an entry that is complete and cites a real, earlier step. *)

Qualifies(type, c, source) == type \in KnownActionTypes /\ c # Empty /\ source >= 0

\* Slip: entries of every candidate.
MineOfAny(c) == Range(ledger)

Mine(c) == {v \in Range(ledger) : v.candidate = c}

\* Slip: the cited step exists, but need not come before the entry.
WellFormedAtGateTime(v) == v.qualifies /\ v.source \in 0 .. Len(steps) - 1

WellFormed(v) ==
  /\ v.qualifies
  /\ v.source < v.step
  /\ v.source \in 0 .. Len(steps) - 1

Good(c) == {v \in Mine(c) : WellFormed(v)}

-----------------------------------------------------------------------------
(* Levels 1 and 2, over what the agent had seen when it wrote the entry. *)

SeenAt(i) == IF i \in 0 .. Len(steps) - 1 THEN steps[i + 1].seen ELSE {}

\* Slip: everything seen until now instead of until the entry was written.
ViewAtGateTime(v) == UNION {SeenAt(i) : i \in 0 .. Len(steps) - 1}

View(v) == UNION {SeenAt(i) : i \in {j \in 0 .. Len(steps) - 1 : j < v.step}}

\* The recorded hypotheses that count as reasoning for an entry.  The check asks
\* the state for an attribute `hypotheses`; an AgentState has none (its field is
\* hypothesis_ledger), so the default of the getattr, no hypothesis, is what it gets.
CountedReasoning(v) == {}

ConsumerMissing(v) ==
  RequireTerminality /\ ~ConsumerObserved(v.text, SeenAt(v.source), View(v))

GuardMissing(v) ==
  RequireReachability /\ ~GuardsAccounted(v.text, CountedReasoning(v), View(v))

PassesLevels(v) == ~ConsumerMissing(v) /\ ~GuardMissing(v)

Newest(S) == CHOOSE v \in S : \A w \in S : w.step <= v.step

\* Slip: the newest entry alone, without the search for one that passes.
JudgedNewest(c) == Newest(Good(c))

\* The entry that is judged: the newest, or the newest that passes when that one does not.
Judged(c) ==
  LET passing == {v \in Good(c) : PassesLevels(v)}
  IN IF PassesLevels(Newest(Good(c))) \/ passing = {}
     THEN Newest(Good(c)) ELSE Newest(passing)

-----------------------------------------------------------------------------
(* The block budget and the decision. *)

PriorBlocks(c, code) == {i \in DOMAIN blocked : blocked[i].value = c /\ blocked[i].code = code}

BlocksSoFar(c, code) == Cardinality(PriorBlocks(c, code))

\* Slips: let through on the budget, every block counted alike.
ObjectionLetsThrough(c, code) == IF BlocksSoFar(c, code) >= MaxBlocks THEN "ok" ELSE code
ObjectionAnyReason(c, code) ==
  IF Cardinality({i \in DOMAIN blocked : blocked[i].value = c}) >= MaxBlocks
  THEN "abstained_on_block_budget" ELSE code

\* The objection of a level, or abstention once it has been repeated often enough.
Objection(c, code) ==
  IF BlocksSoFar(c, code) >= MaxBlocks THEN "abstained_on_block_budget" ELSE code

LevelDecision(c) ==
  LET v == Judged(c)
  IN IF ConsumerMissing(v) THEN Objection(c, "no_consumer_observed")
     ELSE IF GuardMissing(v) THEN Objection(c, "guard_not_accounted_for")
     ELSE "ok"

LedgerDecision(c) ==
  IF Mine(c) = {} THEN "no_validation_for_candidate"
  ELSE IF Good(c) = {} THEN "malformed_validation"
  ELSE LevelDecision(c)

\* LedgerScaffold.validate: the reason code, in the order of the early returns.
Decision(c) ==
  IF c = Empty THEN "empty_candidate"
  ELSE IF RequireDerivation /\ Provenance(c) = "lifted" THEN "lifted_candidate"
  ELSE IF RequireLedger THEN LedgerDecision(c)
  ELSE "ok"

Allowed(c) == Decision(c) = "ok"

\* citing_validation_step_idx and cited_source_step_idx of the audit.
AuditEntry(c) == IF RequireLedger THEN Judged(c).step ELSE NoEntry
AuditSource(c) == IF RequireLedger THEN Judged(c).source ELSE NoEntry

-----------------------------------------------------------------------------
(* The tool calls.  Each ends with record_step, which appends the step.     *)

RecordStep(tool, seen) == steps' = Append(steps, [tool |-> tool, seen |-> seen])

\* A shell family: its output, whatever it shows, becomes part of the trace.
Analyse(seen) ==
  /\ RecordStep("shell", seen)
  /\ UNCHANGED <<hypotheses, ledger, blocked, submissions>>

RecordHypothesis(text) ==
  /\ hypotheses' = Append(hypotheses, [step |-> StepIdx, text |-> text])
  /\ RecordStep("record_hypothesis", {})
  /\ UNCHANGED <<ledger, blocked, submissions>>

RecordValidation(type, c, source, text) ==
  /\ ledger' = Append(ledger, [step |-> StepIdx, candidate |-> c, source |-> source,
                               qualifies |-> Qualifies(type, c, source), text |-> text])
  /\ RecordStep("record_validation", {})
  /\ UNCHANGED <<hypotheses, blocked, submissions>>

\* A gated submission that the scaffold sends back.
BlockSubmission(c) ==
  /\ ~Allowed(c)
  /\ blocked' = Append(blocked, [step |-> StepIdx, value |-> c, code |-> Decision(c)])
  /\ RecordStep("submit_candidate", {})
  /\ UNCHANGED <<hypotheses, ledger, submissions>>

\* A submission that reaches the oracle, which accepts or rejects it.
RecordSubmission(c, accepted, entry, source) ==
  /\ submissions' = Append(submissions, [step |-> StepIdx, value |-> c, accepted |-> accepted,
                                         entry |-> entry, source |-> source])
  /\ RecordStep("submit_candidate", {})
  /\ UNCHANGED <<hypotheses, ledger, blocked>>

\* A submission the gate lets through, with the audit of the entry it rests on.
AdmitSubmission(c, accepted) ==
  /\ Allowed(c)
  /\ RecordSubmission(c, accepted, AuditEntry(c), AuditSource(c))

-----------------------------------------------------------------------------
Init ==
  /\ steps = <<>>
  /\ hypotheses = <<>>
  /\ ledger = <<>>
  /\ blocked = <<>>
  /\ submissions = <<>>

\* The loop hands the gate no call after a submission went through or the steps ran out.
Running == submissions = <<>> /\ Len(steps) < MaxSteps

Dispatch ==
  \/ \E seen \in Outputs : Analyse(seen)
  \/ \E text \in Reasoning : RecordHypothesis(text)
  \/ \E type \in ActionTypes, c \in Values, source \in CitedSteps, text \in Texts :
        RecordValidation(type, c, source, text)
  \/ \E c \in Values : BlockSubmission(c)
  \/ \E c \in Values, accepted \in BOOLEAN : AdmitSubmission(c, accepted)

Next == Running /\ Dispatch

Spec == Init /\ [][Next]_gateVars

-----------------------------------------------------------------------------
(* Properties *)

\* What the gate asks, said without its order of evaluation: some entry for this
\* very candidate is well formed and passes both levels, and the candidate is
\* neither empty nor lifted from the artifact.
Admissible(c) ==
  /\ c # Empty
  /\ RequireDerivation => Provenance(c) # "lifted"
  /\ RequireLedger => \E v \in Range(ledger) :
                         v.candidate = c /\ WellFormed(v) /\ PassesLevels(v)

\* The newest-entry-then-fall-back search and the block budget of validate() admit
\* exactly the admissible candidates: no good entry is missed because a poorer one
\* was written later, and repetition alone never admits (scaffold.py, validate).
MeritDecides == \A c \in Values : Allowed(c) <=> Admissible(c)

\* Once a candidate would be admitted it stays so, whatever the agent records or
\* submits afterwards: entries are judged on the steps before them, and the
\* ledger only grows (scaffold.py, _levels and validate).
AdmissionIsPermanent == [][\A c \in Values : Allowed(c) => Allowed(c)']_gateVars

\* An objection is lifted only by a new ledger entry for that very candidate, never
\* by asking again, by more disassembly or by a stated hypothesis.
OnlyEvidenceLiftsABlock ==
  [][\A c \in Values : ~Allowed(c) /\ Allowed(c)' =>
        \E v \in Range(ledger') \ Range(ledger) : v.candidate = c]_gateVars

\* The same objection is raised to the same candidate at most max_blocks_per_reason
\* times (scaffold.py, _blocks_so_far).
BlockBudgetHolds == \A c \in Values, code \in LevelCodes : BlocksSoFar(c, code) <= MaxBlocks

\* The gate abstains on a candidate only after it has put one and the same objection
\* to that candidate as often as the budget allows; what was said of another
\* candidate, or under another objection, is not held against it.
AbstentionIsEarned ==
  \A i \in DOMAIN blocked : blocked[i].code = "abstained_on_block_budget" =>
     \E code \in LevelCodes :
        Cardinality({j \in PriorBlocks(blocked[i].value, code) : j < i}) = MaxBlocks

\* The audit of an admitted submission names a ledger entry for that candidate which
\* was written before the submission, cites a recorded step before itself and
\* passes the levels; so the chain source, entry, submission is in order.
AuditNamesEarlierWork ==
  RequireLedger => \A s \in Range(submissions) :
    \E v \in Range(ledger) :
       /\ v.candidate = s.value /\ v.step = s.entry /\ v.source = s.source
       /\ 0 <= s.source /\ s.source < s.entry /\ s.entry < s.step
       /\ PassesLevels(v)

-----------------------------------------------------------------------------
(* What the documentation says and the code does not do *)

\* derivation_check.py:31-35: the branch is accounted for when "the agent's own
\* recorded text" references it; a hypothesis recorded before the entry is such text.
RecordedReasoningCounts ==
  \A v \in Range(ledger) :
     GuardsAccounted(v.text, {h.text : h \in {g \in Range(hypotheses) : g.step <= v.step}}, View(v))
        => ~GuardMissing(v)
=============================================================================
