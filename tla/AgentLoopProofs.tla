-------------------------- MODULE AgentLoopProofs ---------------------------
(***************************************************************************)
(* Theorems about AgentLoop, and about what Metrics counts of its traces:  *)
(* any arms, candidates, costs, ceilings and level checks, and any calls   *)
(* the policy may propose.                                                 *)
(***************************************************************************)
EXTENDS Metrics, SubmissionGateProofs

-----------------------------------------------------------------------------
(* The inductive invariant *)

\* An attempt holds no scored submission, or one, and then ended as it says.
Submitted ==
  \/ submissions = <<>> /\ reason \notin {"solved", "submitted_wrong"}
  \/ \E s \in SubmissionRec : submissions = <<s>> /\ reason = Scored(s.accepted)

\* How the reason given for the end agrees with steps and tokens.
Ended ==
  /\ Len(steps) <= MaxSteps
  /\ reason = "max_steps" => Len(steps) = MaxSteps
  /\ reason = "max_tokens" => Len(steps) < MaxSteps /\ tokens >= MaxTokens
  /\ (reason # "error" /\ steps # <<>> /\ LastTool = "quit") <=> reason = "agent_quit"

\* A scored submission of arm A2 went through the gate; nothing is blocked elsewhere.
ArmInv ==
  /\ arm = "A2" => Audited /\ \A s \in Range(submissions) : Admissible(s.value)
  /\ arm # "A2" => blocked = <<>>

LoopInv == GateInv /\ LoopTypeOK /\ Submitted /\ Ended /\ ArmInv

-----------------------------------------------------------------------------
(* What an iteration of the loop does to the state of the gate *)

\* A call that is recorded and leaves nothing else behind: a quit, or one that failed.
Stepped(tool) ==
  /\ RecordStep(tool, {})
  /\ UNCHANGED <<hypotheses, ledger, blocked, submissions>>

\* A submission in an arm without the gate.
Ungated(c, accepted) == RecordSubmission(c, accepted, NoEntry, NoEntry)

Called ==
  \/ Dispatch
  \/ \E tool \in Tools : Stepped(tool)
  \/ arm # "A2" /\ \E c \in Values, accepted \in BOOLEAN : Ungated(c, accepted)

LEMMA IterationShape ==
  ASSUME LoopNext
  PROVE  /\ arm' = arm
         /\ \/ UNCHANGED gateVars
            \/ Propose /\ Called
<1>1. CASE StopOnSteps \/ StopOnTokens \/ PolicyFails \/ Persist
  BY <1>1 DEF StopOnSteps, StopOnTokens, PolicyFails, Persist
<1>2. ASSUME NEW seen \in Outputs, CallShell(seen)  PROVE Propose /\ Called
  BY <1>2 DEF CallShell, Called, Dispatch
<1>3. ASSUME NEW text \in Reasoning, CallHypothesis(text)  PROVE Propose /\ Called
  BY <1>3 DEF CallHypothesis, Called, Dispatch
<1>4. ASSUME NEW type \in ActionTypes, NEW c \in Values, NEW source \in CitedSteps,
             NEW text \in Texts, CallValidation(type, c, source, text)
      PROVE  Propose /\ Called
  BY <1>4 DEF CallValidation, Called, Dispatch
<1>5. ASSUME NEW c \in Values, CallBlockedSubmit(c)  PROVE Propose /\ Called
  BY <1>5 DEF CallBlockedSubmit, Called, Dispatch
<1>6. ASSUME NEW c \in Values, NEW accepted \in Verdicts(c), CallSubmit(c, accepted)
      PROVE  Propose /\ Called
  <2>1. accepted \in BOOLEAN
    BY DEF Verdicts
  <2>2. CASE Gated
    BY <1>6, <2>1, <2>2 DEF CallSubmit, Called, Dispatch
  <2>3. CASE ~Gated
    BY <1>6, <2>1, <2>3 DEF CallSubmit, Called, Ungated, Gated
  <2>. QED  BY <2>2, <2>3
<1>7. ASSUME CallQuit  PROVE Propose /\ Called
  BY <1>7 DEF CallQuit, Called, Stepped, Tools
<1>8. ASSUME NEW tool \in Tools \ {"quit"}, CallFails(tool)  PROVE Propose /\ Called
  BY <1>8 DEF CallFails, Called, Stepped
<1>. QED
  BY <1>1, <1>2, <1>3, <1>4, <1>5, <1>6, <1>7, <1>8 DEF LoopNext, Propose

LEMMA CallRecorded ==
  ASSUME GateInv, Called
  PROVE  StepRecorded /\ TypeOK'
<1>. USE DEF GateInv, TypeOK
<1>1. CASE Dispatch
  BY <1>1, StepAppended, TypeOKStep DEF GateInv
<1>2. ASSUME NEW tool \in Tools, RecordStep(tool, {})
      PROVE  steps' \in Seq(Step) /\ \E st \in Step : steps' = Append(steps, st)
  <2>1. [tool |-> tool, seen |-> {}] \in Step
    BY DEF Step, Shown
  <2>. QED  BY <1>2, <2>1, AppendProperties DEF RecordStep
<1>3. ASSUME NEW tool \in Tools, Stepped(tool)  PROVE StepRecorded /\ TypeOK'
  BY <1>2, <1>3 DEF Stepped, StepRecorded
<1>4. ASSUME NEW c \in Values, NEW accepted \in BOOLEAN, Ungated(c, accepted)
      PROVE  StepRecorded /\ TypeOK'
  <2>. DEFINE s == [step |-> Len(steps), value |-> c, accepted |-> accepted,
                    entry |-> NoEntry, source |-> NoEntry]
  <2>1. s \in SubmissionRec /\ submissions' = Append(submissions, s)
    BY <1>4 DEF Ungated, RecordSubmission, StepIdx, SubmissionRec, NoEntry
  <2>2. submissions' \in Seq(SubmissionRec)
    <3>. HIDE DEF s
    <3>. QED  BY <2>1, AppendProperties
  <2>3. "submit_candidate" \in Tools
    BY DEF Tools
  <2>4. UNCHANGED <<hypotheses, ledger, blocked>> /\ RecordStep("submit_candidate", {})
    BY <1>4 DEF Ungated, RecordSubmission
  <2>. QED  BY <1>2, <2>2, <2>3, <2>4 DEF StepRecorded
<1>. QED
  BY <1>1, <1>3, <1>4 DEF Called

LEMMA IterationKeepsGate ==
  ASSUME GateInv, LoopNext
  PROVE  GateInv'
<1>1. CASE UNCHANGED gateVars
  BY <1>1 DEF gateVars, GateInv, TypeOK, LedgerInPast
<1>2. CASE Called
  BY <1>2, CallRecorded, LedgerInPastStep DEF GateInv
<1>. QED
  BY <1>1, <1>2, IterationShape

-----------------------------------------------------------------------------
(* The conjuncts of the invariant, one by one *)

LEMMA LoopInvInit == LoopInit => LoopInv
<1>. SUFFICES ASSUME LoopInit  PROVE LoopInv
  OBVIOUS
<1>1. GateInv
  BY TypeOKInit DEF LoopInit
<1>2. LoopTypeOK
  BY <1>1 DEF GateInv, LoopTypeOK, LoopInit
<1>3. Submitted /\ Ended
  BY GateAssumption DEF LoopInit, Init, Submitted, Ended
<1>4. ArmInv
  BY DEF LoopInit, Init, ArmInv, Audited, Range
<1>. QED
  BY <1>1, <1>2, <1>3, <1>4 DEF LoopInv

\* While the loop runs nothing has been submitted, so no result told is a verdict.
LEMMA ReportType ==
  ASSUME LoopInv, reason = "none"
  PROVE  submissions = <<>> /\ Report \subseteq Feedback \ {"verdict"}
<1>1. submissions = <<>>
  BY DEF LoopInv, Submitted, Scored
<1>2. Range(submissions) = {}
  BY <1>1 DEF Range
<1>. QED
  BY <1>1, <1>2 DEF Report, ResultOf, Feedback

LEMMA LoopTypeStep ==
  ASSUME LoopInv, LoopNext
  PROVE  LoopTypeOK'
<1>1. TypeOK'
  BY IterationKeepsGate DEF LoopInv, GateInv
<1>2. arm' \in Arms
  BY IterationShape DEF LoopInv, LoopTypeOK
<1>3. tokens' \in Nat
  <2>1. CASE Propose
    BY <2>1, LoopAssumption DEF Propose, LoopInv, LoopTypeOK
  <2>. QED
    BY <2>1 DEF LoopInv, LoopTypeOK, LoopNext, StopOnSteps, StopOnTokens, PolicyFails, Persist,
                CallShell, CallHypothesis, CallValidation, CallBlockedSubmit, CallSubmit, CallQuit,
                CallFails
<1>4. reason' \in Reasons \cup {"none"}
  BY DEF LoopInv, LoopTypeOK, LoopNext, StopOnSteps, StopOnTokens, PolicyFails, Persist,
         CallShell, CallHypothesis, CallValidation, CallBlockedSubmit, CallSubmit, CallQuit,
         CallFails, Goes, Scored, Reasons
<1>5. told' \in SUBSET Feedback
  <2>1. CASE Propose \/ PolicyFails
    BY <2>1, ReportType DEF Propose, PolicyFails, WithinBudget, LoopInv, LoopTypeOK
  <2>. QED
    BY <2>1 DEF LoopInv, LoopTypeOK, LoopNext, StopOnSteps, StopOnTokens, Persist,
                CallShell, CallHypothesis, CallValidation, CallBlockedSubmit, CallSubmit, CallQuit,
                CallFails
<1>6. persisted' \in BOOLEAN
  BY DEF LoopInv, LoopTypeOK, LoopNext, StopOnSteps, StopOnTokens, PolicyFails, Persist,
         CallShell, CallHypothesis, CallValidation, CallBlockedSubmit, CallSubmit, CallQuit,
         CallFails, Propose
<1>. QED
  BY <1>1, <1>2, <1>3, <1>4, <1>5, <1>6 DEF LoopTypeOK

\* The submission that goes out is the first and only one.
LEMMA SubmitRecorded ==
  ASSUME LoopInv, NEW c \in Values, NEW accepted \in Verdicts(c), CallSubmit(c, accepted)
  PROVE  \E s \in SubmissionRec :
            /\ s.value = c /\ (s.accepted <=> accepted)
            /\ submissions' = <<s>>
            /\ reason' = Scored(accepted)
<1>1. reason = "none" /\ submissions = <<>> /\ accepted \in BOOLEAN /\ reason' = Scored(accepted)
  BY ReportType DEF CallSubmit, Propose, WithinBudget, Goes, Verdicts
<1>2. PICK e \in Int, source \in Int : RecordSubmission(c, accepted, e, source)
  <2>1. CASE Gated
    BY <2>1, AuditType DEF CallSubmit, AdmitSubmission, LoopInv
  <2>2. CASE ~Gated
    BY <2>2 DEF CallSubmit, NoEntry
  <2>. QED  BY <2>1, <2>2
<1>. DEFINE s == [step |-> Len(steps), value |-> c, accepted |-> accepted,
                  entry |-> e, source |-> source]
<1>3. s \in SubmissionRec
  BY <1>1 DEF SubmissionRec, LoopInv, GateInv, TypeOK
<1>4. submissions' = <<s>>
  BY <1>1, <1>2 DEF RecordSubmission, StepIdx
<1>. QED
  BY <1>1, <1>3, <1>4

LEMMA SubmittedStep ==
  ASSUME LoopInv, LoopNext
  PROVE  Submitted'
<1>1. ASSUME NEW c \in Values, NEW accepted \in Verdicts(c), CallSubmit(c, accepted)
      PROVE  Submitted'
  <2>1. PICK s \in SubmissionRec : /\ (s.accepted <=> accepted)
                                   /\ submissions' = <<s>> /\ reason' = Scored(accepted)
    BY <1>1, SubmitRecorded
  <2>. QED  BY <2>1 DEF Submitted, Scored
<1>2. CASE Persist
  BY <1>2 DEF Persist, LoopInv, Submitted, gateVars
<1>3. CASE /\ reason = "none" /\ submissions' = submissions
           /\ reason' \notin {"solved", "submitted_wrong"}
  BY <1>3, ReportType DEF Submitted
<1>. QED
  BY <1>1, <1>2, <1>3
  DEF LoopNext, StopOnSteps, StopOnTokens, PolicyFails, CallShell, CallHypothesis, CallValidation,
      CallBlockedSubmit, CallQuit, CallFails, Propose, WithinBudget, Goes, Analyse,
      RecordHypothesis, RecordValidation, BlockSubmission, gateVars

\* What a call leaves as the last step.
LEMMA LastToolStep ==
  ASSUME GateInv, NEW tool, NEW seen, RecordStep(tool, seen)
  PROVE  steps' # <<>> /\ Len(steps') = Len(steps) + 1 /\ LastTool' = tool
<1>. DEFINE st == [tool |-> tool, seen |-> seen]
<1>1. steps' = Append(steps, st) /\ steps \in Seq(Step) /\ Len(steps) \in Nat
  BY DEF RecordStep, GateInv, TypeOK
<1>2. Len(steps') = Len(steps) + 1 /\ steps'[Len(steps) + 1] = st
  BY <1>1
<1>. QED
  BY <1>1, <1>2 DEF LastTool

LEMMA EndedStep ==
  ASSUME LoopInv, LoopNext
  PROVE  Ended'
<1>0. Len(steps) \in Nat /\ MaxSteps \in Nat /\ Ended /\ GateInv
  BY GateAssumption DEF LoopInv, GateInv, TypeOK
<1>1. CASE StopOnSteps \/ StopOnTokens \/ Persist
  BY <1>0, <1>1 DEF StopOnSteps, StopOnTokens, Persist, Ended, LastTool, gateVars
<1>2. CASE PolicyFails
  BY <1>0, <1>2 DEF PolicyFails, WithinBudget, Ended, gateVars
<1>3. ASSUME NEW tool \in Tools, NEW seen, Propose, RecordStep(tool, seen),
             tool = "quit" <=> reason' = "agent_quit",
             reason' \notin {"max_steps", "max_tokens"},
             reason' = "error" => tool # "quit"
      PROVE  Ended'
  <2>1. steps' # <<>> /\ Len(steps') = Len(steps) + 1 /\ LastTool' = tool
    BY <1>0, <1>3, LastToolStep
  <2>2. Len(steps') <= MaxSteps
    BY <1>0, <1>3, <2>1 DEF Propose, WithinBudget
  <2>. QED  BY <1>3, <2>1, <2>2 DEF Ended
<1>4. ASSUME NEW seen \in Outputs, CallShell(seen)  PROVE Ended'
  BY <1>3, <1>4 DEF CallShell, Analyse, Goes, Tools
<1>5. ASSUME NEW text \in Reasoning, CallHypothesis(text)  PROVE Ended'
  BY <1>3, <1>5 DEF CallHypothesis, RecordHypothesis, Goes, Tools
<1>6. ASSUME NEW type \in ActionTypes, NEW c \in Values, NEW source \in CitedSteps,
             NEW text \in Texts, CallValidation(type, c, source, text)
      PROVE  Ended'
  BY <1>3, <1>6 DEF CallValidation, RecordValidation, Goes, Tools
<1>7. ASSUME NEW c \in Values, CallBlockedSubmit(c)  PROVE Ended'
  BY <1>3, <1>7 DEF CallBlockedSubmit, BlockSubmission, Goes, Tools
<1>8. ASSUME NEW c \in Values, NEW accepted \in Verdicts(c), CallSubmit(c, accepted)  PROVE Ended'
  <2>1. RecordStep("submit_candidate", {}) /\ Propose /\ reason' = Scored(accepted)
    BY <1>8 DEF CallSubmit, AdmitSubmission, RecordSubmission, Goes
  <2>. QED  BY <1>3, <2>1 DEF Scored, Tools
<1>9. CASE CallQuit
  BY <1>3, <1>9 DEF CallQuit, Goes, Tools
<1>10. ASSUME NEW tool \in Tools \ {"quit"}, CallFails(tool)  PROVE Ended'
  BY <1>3, <1>10 DEF CallFails, Goes
<1>. QED
  BY <1>1, <1>2, <1>4, <1>5, <1>6, <1>7, <1>8, <1>9, <1>10 DEF LoopNext

\* What the audit says of a submission stays true of it.
LEMMA GroundsStay ==
  ASSUME GateInv, StepRecorded, NEW s, NEW v \in Range(ledger), Grounds(s, v)
  PROVE  v \in Range(ledger') /\ Grounds(s, v)'
BY EntryStable DEF Grounds

\* Where the gate's state is as it was, so is what it would say.
LEMMA SameJudgement ==
  ASSUME UNCHANGED gateVars
  PROVE  /\ \A c : Admissible(c)' <=> Admissible(c)
         /\ Audited' <=> Audited
<1>1. \A i : SeenAt(i)' = SeenAt(i)
  BY DEF gateVars, SeenAt
<1>2. \A v : View(v)' = View(v)
  BY <1>1 DEF gateVars, View
<1>3. \A v : (WellFormed(v)' <=> WellFormed(v)) /\ (PassesLevels(v)' <=> PassesLevels(v))
  BY <1>1, <1>2
  DEF gateVars, WellFormed, PassesLevels, ConsumerMissing, GuardMissing, CountedReasoning
<1>. QED
  BY <1>3 DEF gateVars, Admissible, Provenance, Contains, Audited, Grounds

LEMMA ArmStep ==
  ASSUME LoopInv, LoopNext
  PROVE  ArmInv'
<1>1. CASE UNCHANGED gateVars
  <2>. QED  BY <1>1, SameJudgement, IterationShape DEF LoopInv, ArmInv, gateVars
<1>2. CASE Propose /\ Called
  <2>1. StepRecorded /\ GateInv /\ GateInv' /\ arm' = arm
    BY <1>2, CallRecorded, IterationKeepsGate, IterationShape DEF LoopInv
  <2>2. CASE arm # "A2"
    <3>1. blocked' = blocked
      BY <2>2 DEF LoopNext, StopOnSteps, StopOnTokens, PolicyFails, Persist, CallShell,
         CallHypothesis, CallValidation, CallBlockedSubmit, CallSubmit, CallQuit, CallFails, Gated,
         Analyse, RecordHypothesis, RecordValidation, RecordSubmission, gateVars
    <3>. QED  BY <2>1, <2>2, <3>1 DEF LoopInv, ArmInv
  <2>3. ASSUME arm = "A2", submissions' = submissions  PROVE ArmInv'
    <3>1. Audited'
      <4>. SUFFICES ASSUME RequireLedger, NEW s \in Range(submissions)
                    PROVE  \E v \in Range(ledger') : Grounds(s, v)'
        BY <2>3 DEF Audited
      <4>1. PICK v \in Range(ledger) : Grounds(s, v)
        BY <2>3 DEF LoopInv, ArmInv, Audited
      <4>. QED  BY <2>1, <4>1, GroundsStay
    <3>2. \A s \in Range(submissions) : Admissible(s.value)'
      BY <2>1, <2>3, AdmissibleStays DEF LoopInv, ArmInv
    <3>. QED  BY <2>1, <2>3, <3>1, <3>2 DEF ArmInv
  <2>4. ASSUME arm = "A2", NEW c \in Values, NEW accepted \in Verdicts(c), CallSubmit(c, accepted)
        PROVE  ArmInv'
    <3>1. AdmitSubmission(c, accepted) /\ accepted \in BOOLEAN
      BY <2>4 DEF CallSubmit, Gated, Verdicts
    <3>2. Audited'
      BY <2>1, <2>4, <3>1, AuditedStep DEF Dispatch, LoopInv, ArmInv
    <3>3. PICK s \in SubmissionRec : s.value = c /\ submissions' = <<s>>
      BY <2>4, SubmitRecorded
    <3>4. Admissible(c)
      BY <2>1, <3>1, MeritFact DEF AdmitSubmission, MeritDecides
    <3>5. Admissible(c)'
      BY <2>1, <3>4, AdmissibleStays
    <3>6. Range(submissions') = {s}
      BY <3>3 DEF Range
    <3>. QED  BY <2>1, <2>4, <3>2, <3>3, <3>5, <3>6 DEF ArmInv
  <2>. QED
    BY <2>2, <2>3, <2>4
    DEF LoopNext, StopOnSteps, StopOnTokens, PolicyFails, Persist, CallShell, CallHypothesis,
        CallValidation, CallBlockedSubmit, CallQuit, CallFails, Analyse, RecordHypothesis,
        RecordValidation, BlockSubmission, gateVars
<1>. QED
  BY <1>1, <1>2, IterationShape

LEMMA LoopInvStep == LoopInv /\ [LoopNext]_vars => LoopInv'
<1>. SUFFICES ASSUME LoopInv, [LoopNext]_vars  PROVE LoopInv'
  OBVIOUS
<1>1. CASE LoopNext
  BY <1>1, IterationKeepsGate, LoopTypeStep, SubmittedStep, EndedStep, ArmStep DEF LoopInv
<1>2. CASE UNCHANGED vars
  <2>1. UNCHANGED gateVars /\ UNCHANGED loopVars
    BY <1>2 DEF vars
  <2>2. GateInv' /\ LoopTypeOK'
    BY <2>1 DEF gateVars, loopVars, LoopInv, GateInv, LedgerInPast, LoopTypeOK, TypeOK
  <2>3. Submitted' /\ Ended'
    BY <2>1 DEF gateVars, loopVars, LoopInv, Submitted, Ended, LastTool
  <2>4. ArmInv'
    BY <2>1, SameJudgement DEF gateVars, loopVars, LoopInv, ArmInv
  <2>. QED  BY <2>2, <2>3, <2>4 DEF LoopInv
<1>. QED
  BY <1>1, <1>2

LEMMA LoopInvHolds == LoopSpec => []LoopInv
BY LoopInvInit, LoopInvStep, PTL DEF LoopSpec

-----------------------------------------------------------------------------
(* The loop *)

\* An attempt keeps its type, whatever the policy proposes.
THEOREM LoopTypeCorrect == LoopSpec => []LoopTypeOK
BY LoopInvHolds, PTL DEF LoopInv

\* The reason of the meta line and the steps of the trace tell one story.
THEOREM ReasonIsTheTraces == LoopSpec => []ReasonMatchesTrace
<1>1. ASSUME LoopInv  PROVE ReasonMatchesTrace
  <2>1. CASE submissions = <<>>
    <3>1. Accepted = {} /\ reason \notin {"solved", "submitted_wrong"}
      BY <1>1, <2>1 DEF LoopInv, Submitted, Scored, Accepted, Range
    <3>. QED  BY <1>1, <2>1, <3>1 DEF LoopInv, Ended, ReasonMatchesTrace
  <2>2. ASSUME NEW s \in SubmissionRec, submissions = <<s>>, reason = Scored(s.accepted)
        PROVE  ReasonMatchesTrace
    <3>1. Range(submissions) = {s} /\ submissions # <<>> /\ s.accepted \in BOOLEAN
      BY <2>2 DEF Range, SubmissionRec
    <3>2. Accepted = (IF s.accepted THEN {s} ELSE {})
      BY <3>1 DEF Accepted
    <3>. QED  BY <1>1, <2>2, <3>1, <3>2 DEF LoopInv, Ended, ReasonMatchesTrace, Scored
  <2>. QED  BY <1>1, <2>1, <2>2 DEF LoopInv, Submitted
<1>. QED  BY <1>1, LoopInvHolds, PTL

\* No result the policy is shown carries the verdict of the oracle.
THEOREM VerdictStaysHidden == LoopSpec => []VerdictNeverTold
<1>1. LoopInit => VerdictNeverTold
  BY DEF LoopInit, VerdictNeverTold
<1>2. ASSUME LoopInv, VerdictNeverTold, [LoopNext]_vars  PROVE VerdictNeverTold'
  <2>1. CASE Propose \/ PolicyFails
    BY <1>2, <2>1, ReportType DEF Propose, PolicyFails, WithinBudget, VerdictNeverTold
  <2>2. CASE told' = told
    BY <1>2, <2>2 DEF VerdictNeverTold
  <2>. QED
    BY <1>2, <2>1, <2>2 DEF LoopNext, StopOnSteps, StopOnTokens, Persist, CallShell,
       CallHypothesis, CallValidation, CallBlockedSubmit, CallSubmit, CallQuit, CallFails,
       vars, loopVars
<1>. QED  BY <1>1, <1>2, LoopInvHolds, PTL DEF LoopSpec

\* The token ceiling is passed by less than the price of one model call.
THEOREM TokensBounded == LoopSpec => []TokensOvershootOnce
<1>1. LoopInit => TokensOvershootOnce
  BY LoopAssumption DEF LoopInit, TokensOvershootOnce
<1>2. ASSUME LoopInv, TokensOvershootOnce, [LoopNext]_vars  PROVE TokensOvershootOnce'
  <2>1. CASE Propose
    BY <1>2, <2>1, LoopAssumption
    DEF Propose, WithinBudget, TokensOvershootOnce, LoopInv, LoopTypeOK
  <2>2. CASE tokens' = tokens
    BY <1>2, <2>2 DEF TokensOvershootOnce
  <2>. QED
    BY <1>2, <2>1, <2>2 DEF LoopNext, StopOnSteps, StopOnTokens, PolicyFails, Persist, CallShell,
       CallHypothesis, CallValidation, CallBlockedSubmit, CallSubmit, CallQuit, CallFails,
       vars, loopVars
<1>. QED  BY <1>1, <1>2, LoopInvHolds, PTL DEF LoopSpec

\* Arm A2 scores nothing but what its gate admits, with the evidence named by the audit;
\* A0 and A1 never see a block.
THEOREM OnlyTheGateDiffers == LoopSpec => []ArmsDifferOnlyByTheGate
<1>1. LoopInv => ArmsDifferOnlyByTheGate
  BY DEF LoopInv, ArmInv, Audited, ArmsDifferOnlyByTheGate, AuditNamesEarlierWork, Grounds
<1>. QED  BY <1>1, LoopInvHolds, PTL

\* The attempt, with everything it records, is one of the attempts OneShotAttempt allows:
\* one answer at most, solved only if the target accepts it.
THEOREM LoopImplementsOneShot == LoopSpec => ImplementsOneShot
<1>1. LoopInit => Abstract!Init
  BY DEF LoopInit, Init, Abstract!Init, Outcome, AnswerOf
<1>2. ASSUME LoopInv, [LoopNext]_vars  PROVE [Abstract!Next]_<<Outcome, AnswerOf>>
  <2>1. ASSUME submissions' = submissions,
               reason = "none" \/ reason' = reason,
               reason' \notin {"solved", "submitted_wrong"} \/ reason' = reason
        PROVE  [Abstract!Next]_<<Outcome, AnswerOf>>
    <3>1. AnswerOf' = AnswerOf
      BY <2>1 DEF AnswerOf
    <3>2. CASE reason' = reason
      BY <3>1, <3>2 DEF Outcome
    <3>3. CASE reason' # reason
      <4>1. Outcome = "open" /\ Outcome' = "unanswered"
        BY <2>1, <3>3 DEF Outcome
      <4>. QED  BY <3>1, <4>1 DEF Abstract!Next, Abstract!GiveUp
    <3>. QED  BY <3>2, <3>3
  <2>2. ASSUME NEW c \in Values, NEW accepted \in Verdicts(c), CallSubmit(c, accepted)
        PROVE  Abstract!Next
    <3>1. PICK s \in SubmissionRec : /\ s.value = c /\ submissions' = <<s>>
                                     /\ reason' = Scored(accepted)
      BY <1>2, <2>2, SubmitRecorded
    <3>2. reason = "none"
      BY <2>2 DEF CallSubmit, Propose, WithinBudget
    <3>3. Outcome = "open" /\ AnswerOf' = c
      BY <3>1, <3>2 DEF Outcome, AnswerOf
    <3>4. Outcome' = IF accepted THEN "solved" ELSE "wrong"
      BY <3>1 DEF Outcome, Scored, Verdicts
    <3>5. accepted => c \in Accepts
      BY DEF Verdicts
    <3>6. Abstract!Answer(c)
      BY <3>3, <3>4, <3>5 DEF Abstract!Answer, Verdicts
    <3>. QED  BY <3>6 DEF Abstract!Next
  <2>. QED
    BY <1>2, <2>1, <2>2
    DEF LoopNext, StopOnSteps, StopOnTokens, PolicyFails, CallShell, CallHypothesis, CallValidation,
        CallBlockedSubmit, CallQuit, CallFails, Persist, Propose, WithinBudget, Goes, Analyse,
        RecordHypothesis, RecordValidation, BlockSubmission, gateVars, loopVars, vars
<1>. QED
  BY <1>1, <1>2, LoopInvHolds, PTL DEF LoopSpec, ImplementsOneShot, Abstract!Spec

-----------------------------------------------------------------------------
(* What the metrics count *)

\* Every block has a step line of its own, and a value that was blocked is still not
\* admissible if nothing was written for it since.
BlockInv ==
  /\ \A b \in Range(blocked) : b.step \in 0 .. Len(steps) - 1
  /\ IsFiniteSet(BlockEvents) /\ Cardinality(BlockEvents) = Len(blocked)
  /\ \A b \in Range(blocked) :
        (\A v \in Range(ledger) : v.candidate = b.value => v.step <= b.step)
           => ~Admissible(b.value)

LEMMA BlockInvInit == LoopInit => BlockInv
<1>. SUFFICES ASSUME LoopInit  PROVE BlockInv
  OBVIOUS
<1>1. blocked = <<>> /\ Range(blocked) = {}
  BY DEF LoopInit, Init, Range
<1>2. BlockEvents = {}
  BY <1>1 DEF BlockEvents
<1>. QED
  BY <1>1, <1>2, FS_EmptySet DEF BlockInv

\* What holds of an earlier block whatever is recorded after it.
LEMMA BlockStaysJust ==
  ASSUME GateInv, StepRecorded, NEW b, b.step \in 0 .. Len(steps),
         (\A v \in Range(ledger) : v.candidate = b.value => v.step <= b.step)
            => ~Admissible(b.value),
         b.step < Len(steps) \/ ledger' = ledger,
         \A v \in Range(ledger') : v.candidate = b.value => v.step <= b.step
  PROVE  ~Admissible(b.value)'
<1>. SUFFICES ASSUME Admissible(b.value)'  PROVE FALSE
  OBVIOUS
<1>1. ~Admissible(b.value)
  BY EntryStable
<1>2. RequireLedger
  BY <1>1 DEF Admissible, Provenance, Contains
<1>3. PICK v \in Range(ledger') : v.candidate = b.value /\ WellFormed(v)' /\ PassesLevels(v)'
  BY <1>2 DEF Admissible
<1>4. v \in Range(ledger)
  <2>1. ASSUME NEW e \in Entry, e.step = Len(steps), ledger' = Append(ledger, e), v = e
        PROVE  FALSE
    <3>1. v.step <= b.step /\ Len(steps) \in Nat
      BY <1>3 DEF GateInv, TypeOK
    <3>2. b.step < Len(steps)
      <4>1. Len(ledger') = Len(ledger) + 1 /\ Len(ledger) \in Nat
        BY <2>1, AppendProperties DEF GateInv, TypeOK
      <4>. QED  BY <4>1
    <3>. QED  BY <2>1, <3>1, <3>2
  <2>2. ASSUME NEW e \in Entry, ledger' = Append(ledger, e)
        PROVE  Range(ledger') = Range(ledger) \cup {e}
    BY <2>2, RangeOfAppend DEF GateInv, TypeOK
  <2>. QED  BY <1>3, <2>1, <2>2 DEF StepRecorded
<1>5. WellFormed(v) /\ PassesLevels(v)
  BY <1>3, <1>4, EntryStable
<1>. QED
  BY <1>1, <1>2, <1>3, <1>4, <1>5 DEF Admissible, Provenance, Contains

\* A call adds the block it ends in, if it ends in one.
LEMMA CallBlocks ==
  ASSUME GateInv, Called
  PROVE  \/ blocked' = blocked
         \/ \E c \in Values : /\ ~Allowed(c) /\ ledger' = ledger
                              /\ blocked' = Append(blocked, [step |-> Len(steps), value |-> c,
                                                             code |-> Decision(c)])
BY DEF Called, Stepped, Ungated, Dispatch, Analyse, RecordHypothesis, RecordValidation,
       BlockSubmission, AdmitSubmission, RecordSubmission, StepIdx

LEMMA BlockInvStep ==
  ASSUME LoopInv, BlockInv, [LoopNext]_vars
  PROVE  BlockInv'
<1>1. CASE UNCHANGED gateVars
  BY <1>1, SameJudgement DEF gateVars, BlockInv, BlockEvents
<1>2. CASE Called
  <2>1. StepRecorded /\ GateInv
    BY <1>2, CallRecorded DEF LoopInv
  <2>2. /\ Len(steps) \in Nat /\ Len(steps') = Len(steps) + 1
        /\ DOMAIN steps = 1 .. Len(steps) /\ DOMAIN steps' = 1 .. Len(steps) + 1
    <3>1. PICK st \in Step : steps' = Append(steps, st)
      BY <2>1 DEF StepRecorded
    <3>. QED  BY <2>1, <3>1, AppendProperties, LenProperties DEF GateInv, TypeOK
  <2>3. CASE blocked' = blocked
    <3>1. BlockEvents' = BlockEvents
      BY <2>2, <2>3 DEF BlockInv, BlockEvents
    <3>2. ASSUME NEW b \in Range(blocked),
                 \A v \in Range(ledger') : v.candidate = b.value => v.step <= b.step
          PROVE  ~Admissible(b.value)'
      <4>1. b.step \in 0 .. Len(steps) /\ b.step < Len(steps)
        BY <2>2 DEF BlockInv
      <4>. QED  BY <2>1, <3>2, <4>1, BlockStaysJust DEF BlockInv
    <3>3. \A b \in Range(blocked) : b.step \in 0 .. Len(steps') - 1
      BY <2>2 DEF BlockInv
    <3>. QED  BY <2>3, <3>1, <3>2, <3>3 DEF BlockInv
  <2>4. ASSUME NEW c \in Values, ~Allowed(c), ledger' = ledger,
               blocked' = Append(blocked, [step |-> Len(steps), value |-> c, code |-> Decision(c)])
        PROVE  BlockInv'
    <3>. DEFINE d == [step |-> Len(steps), value |-> c, code |-> Decision(c)]
    <3>1. d \in Block /\ d.step = Len(steps) /\ d.value = c
      BY <2>2, <2>4, DecisionType DEF Block
    <3>2. /\ Range(blocked') = Range(blocked) \cup {d}
          /\ Len(blocked') = Len(blocked) + 1 /\ Len(blocked) \in Nat
      <4>1. blocked' = Append(blocked, d) /\ blocked \in Seq(Block)
        BY <2>1, <2>4 DEF GateInv, TypeOK
      <4>. HIDE DEF d
      <4>. QED  BY <3>1, <4>1, RangeOfAppend, AppendProperties
    <3>. HIDE DEF d
    <3>3. BlockEvents' = BlockEvents \cup {Len(steps) + 1} /\ Len(steps) + 1 \notin BlockEvents
      <4>1. BlockEvents \subseteq 1 .. Len(steps)
        BY <2>2 DEF BlockEvents
      <4>2. \A i \in 1 .. Len(steps) + 1 :
               (\E b \in Range(blocked') : b.step = i - 1)
                 <=> (i = Len(steps) + 1 \/ \E b \in Range(blocked) : b.step = i - 1)
        BY <2>2, <3>1, <3>2
      <4>. QED  BY <2>2, <4>1, <4>2 DEF BlockEvents, BlockInv
    <3>4. IsFiniteSet(BlockEvents') /\ Cardinality(BlockEvents') = Len(blocked')
      BY <3>2, <3>3, FS_AddElement DEF BlockInv
    <3>5. \A b \in Range(blocked') : b.step \in 0 .. Len(steps') - 1
      BY <2>2, <3>1, <3>2 DEF BlockInv
    <3>6. ASSUME NEW b \in Range(blocked'),
                 \A v \in Range(ledger') : v.candidate = b.value => v.step <= b.step
          PROVE  ~Admissible(b.value)'
      <4>1. CASE b \in Range(blocked)
        BY <2>1, <2>2, <2>4, <3>6, <4>1, BlockStaysJust DEF BlockInv
      <4>2. CASE b = d
        <5>1. ~Admissible(b.value)
          BY <2>1, <2>4, <3>1, <4>2, MeritFact DEF MeritDecides
        <5>. QED  BY <2>1, <2>2, <2>4, <3>1, <3>6, <4>2, <5>1, BlockStaysJust
      <4>. QED  BY <3>2, <4>1, <4>2
    <3>. QED  BY <3>4, <3>5, <3>6 DEF BlockInv
  <2>. QED  BY <2>1, <2>3, <2>4, <1>2, CallBlocks
<1>. QED
  BY <1>1, <1>2, IterationShape DEF vars

LEMMA BlockInvHolds == LoopSpec => []BlockInv
BY BlockInvInit, BlockInvStep, LoopInvHolds, PTL DEF LoopSpec

\* The two scripts count the same outcomes, one by the steps and one by the meta line.
THEOREM CountsAgree == LoopSpec => []ScriptsAgree
<1>1. ASSUME LoopInv, BlockInv, ReasonMatchesTrace  PROVE ScriptsAgree
  <2>1. /\ SolvedByMetrics <=> Printed = "solved"
        /\ (\E s \in Range(submissions) : ~s.accepted) <=> Printed = "wrong"
    <3>1. CASE submissions = <<>>
      <4>1. Range(submissions) = {} /\ reason \notin {"solved", "submitted_wrong"}
        BY <1>1, <3>1 DEF LoopInv, Submitted, Scored, Range
      <4>. QED  BY <4>1 DEF SolvedByMetrics, Printed
    <3>2. ASSUME NEW s \in SubmissionRec, submissions = <<s>>, reason = Scored(s.accepted)
          PROVE  /\ SolvedByMetrics <=> Printed = "solved"
                 /\ (\E r \in Range(submissions) : ~r.accepted) <=> Printed = "wrong"
      <4>1. Range(submissions) = {s} /\ s.accepted \in BOOLEAN
        BY <3>2 DEF Range, SubmissionRec
      <4>. QED  BY <3>2, <4>1 DEF SolvedByMetrics, Printed, Scored
    <3>. QED  BY <1>1, <3>1, <3>2 DEF LoopInv, Submitted
  <2>2. ASSUME Dropped  PROVE submissions = <<>> /\ blocked = <<>> /\ ledger = <<>>
    <3>1. Len(steps) = 0 /\ reason = "error"
      BY <2>2 DEF Dropped
    <3>2. submissions = <<>>
      BY <1>1, <3>1 DEF LoopInv, Submitted, Scored
    <3>3. Range(ledger) = {} /\ Range(blocked) = {}
      BY <1>1, <3>1 DEF LoopInv, GateInv, LedgerInPast, BlockInv
    <3>4. ledger \in Seq(Entry) /\ blocked \in Seq(Block)
      BY <1>1 DEF LoopInv, GateInv, TypeOK
    <3>5. \A S : \A q \in Seq(S) : Range(q) = {} => q = <<>>
      <4>. SUFFICES ASSUME NEW S, NEW q \in Seq(S), q # <<>>  PROVE Range(q) # {}
        OBVIOUS
      <4>1. 1 \in DOMAIN q
        BY EmptySeq, LenProperties
      <4>. QED  BY <4>1 DEF Range
    <3>. QED  BY <3>2, <3>3, <3>4, <3>5
  <2>. QED  BY <1>1, <2>1, <2>2 DEF ScriptsAgree, BlockInv
<1>. QED  BY <1>1, LoopInvHolds, BlockInvHolds, ReasonIsTheTraces, PTL

\* In arm A2 everything that was scored has a qualifying entry of its own.
THEOREM GateCompletesTheLedger == LoopSpec => []GatedLedgerIsComplete
<1>1. ASSUME LoopInv  PROVE GatedLedgerIsComplete
  BY <1>1 DEF LoopInv, ArmInv, Audited, Grounds, WellFormed, GatedLedgerIsComplete, LedgerComplete,
              Backed
<1>. QED  BY <1>1, LoopInvHolds, PTL

\* A run counted as one that came back to a blocked value wrote an entry for it after the
\* last of those blocks.
THEOREM ComesBackWithEvidence == LoopSpec => []CameBackWithEvidence
<1>1. ASSUME LoopInv, BlockInv  PROVE CameBackWithEvidence
  <2>. SUFFICES ASSUME CameBack
                PROVE  LET value == submissions[Len(submissions)].value
                       IN \E v \in Range(ledger) :
                            v.candidate = value
                              /\ \A b \in Range(blocked) : b.value = value => b.step < v.step
    BY DEF CameBackWithEvidence
  <2>1. PICK s \in SubmissionRec : submissions = <<s>>
    BY <1>1 DEF CameBack, LoopInv, Submitted
  <2>2. submissions[Len(submissions)] = s /\ Range(submissions) = {s}
    BY <2>1 DEF Range
  <2>3. Admissible(s.value)
    BY <1>1, <2>2 DEF CameBack, LoopInv, ArmInv
  <2>4. \A b \in Range(blocked) : b.value = s.value =>
           \E v \in Mine(s.value) : ~(v.step <= b.step)
    BY <1>1, <2>3 DEF BlockInv, Mine
  <2>5. Mine(s.value) # {} /\ Mine(s.value) \subseteq Range(ledger)
    BY <2>2, <2>4 DEF CameBack, Mine
  <2>6. /\ Newest(Mine(s.value)) \in Mine(s.value)
        /\ \A w \in Mine(s.value) : w.step <= Newest(Mine(s.value)).step
    BY <1>1, <2>5, NewestExists DEF LoopInv, GateInv
  <2>7. PICK v \in Mine(s.value) : \A w \in Mine(s.value) : w.step <= v.step
    BY <2>6
  <2>8. \A w \in Mine(s.value) : w.step \in Nat
    BY <1>1, <2>5 DEF LoopInv, GateInv, LedgerInPast
  <2>9. ASSUME NEW b \in Range(blocked), b.value = s.value  PROVE b.step < v.step
    <3>1. PICK w \in Mine(s.value) : ~(w.step <= b.step)
      BY <2>4, <2>9
    <3>2. b.step \in Nat /\ w.step \in Nat /\ v.step \in Nat /\ w.step <= v.step
      BY <1>1, <2>7, <2>8 DEF BlockInv
    <3>. QED  BY <3>1, <3>2
  <2>. QED  BY <2>2, <2>7, <2>9 DEF Mine
<1>. QED  BY <1>1, LoopInvHolds, BlockInvHolds, PTL
=============================================================================
