------------------------ MODULE SubmissionGateProofs ------------------------
(***************************************************************************)
(* Theorems about SubmissionGate for every value of its constants: any     *)
(* number of candidates and steps, any block budget, any combination of    *)
(* the ablation switches and any level checks; and about the two replays   *)
(* of finished traces, which judge the entries of a candidate again.       *)
(***************************************************************************)
EXTENDS Replay, SequenceTheorems, FiniteSetTheorems, TLAPS

-----------------------------------------------------------------------------
(* Facts about the entries of a ledger *)

\* What the proofs need of the order in which the ledger was written: an entry
\* was written at a step that has been recorded since.
LedgerInPast == \A v \in Range(ledger) : v.step \in 0 .. Len(steps) - 1

LEMMA RangeOfAppend ==
  ASSUME NEW S, NEW s \in Seq(S), NEW e \in S
  PROVE  Range(Append(s, e)) = Range(s) \cup {e}
<1>1. /\ Len(Append(s, e)) = Len(s) + 1
      /\ DOMAIN s = 1 .. Len(s)
      /\ DOMAIN Append(s, e) = 1 .. Len(s) + 1
      /\ \A i \in 1 .. Len(s) : Append(s, e)[i] = s[i]
      /\ Append(s, e)[Len(s) + 1] = e
      /\ Len(s) \in Nat
  BY AppendProperties, LenProperties
<1>. QED
  BY <1>1 DEF Range

LEMMA RangeType ==
  ASSUME NEW S, NEW s \in Seq(S)
  PROVE  Range(s) \subseteq S
BY LenProperties DEF Range

\* A nonempty set of entries made at the first n steps has a newest one.
LEMMA NewestOf ==
  ASSUME NEW n \in Nat, NEW S, S # {}, \A v \in S : v.step \in 0 .. n - 1
  PROVE  /\ Newest(S) \in S
         /\ \A w \in S : w.step <= Newest(S).step
<1>. DEFINE T == {n - v.step : v \in S}
<1>1. \A v \in S : v.step \in Nat /\ n - v.step \in Nat
  OBVIOUS
<1>2. T \subseteq Nat /\ T # {}
  BY <1>1
<1>3. PICK m \in T : \A k \in T : ~(<<k, m>> \in OpToRel(<, Nat))
  <2>. HIDE DEF T
  <2>. QED  BY <1>2, NatLessThanWellFounded, WFMin, Zenon
<1>4. \A k \in T : m <= k
  <2>. SUFFICES ASSUME NEW k \in T, ~(m <= k)  PROVE FALSE
    OBVIOUS
  <2>1. k \in Nat /\ m \in Nat /\ k < m
    <3>. HIDE DEF T
    <3>. QED  BY <1>2
  <2>2. <<k, m>> \in OpToRel(<, Nat)
    BY <2>1 DEF OpToRel
  <2>. QED  BY <2>2, <1>3
<1>5. PICK v \in S : m = n - v.step
  OBVIOUS
<1>6. \A w \in S : w.step <= v.step
  <2>. SUFFICES ASSUME NEW w \in S  PROVE w.step <= v.step
    OBVIOUS
  <2>1. m <= n - w.step
    BY <1>4
  <2>. QED  BY <1>1, <1>5, <2>1
<1>. QED
  BY <1>6, Zenon DEF Newest

\* A nonempty set of ledger entries has a newest one.
LEMMA NewestExists ==
  ASSUME TypeOK, LedgerInPast, NEW S, S \subseteq Range(ledger), S # {}
  PROVE  /\ Newest(S) \in S
         /\ \A w \in S : w.step <= Newest(S).step
<1>1. Len(steps) \in Nat /\ \A v \in S : v.step \in 0 .. Len(steps) - 1
  BY DEF TypeOK, LedgerInPast
<1>. QED
  BY <1>1, NewestOf

\* The entry that is judged is a well-formed one of that candidate, and passes the
\* levels exactly if some such entry does.
LEMMA JudgedIsGood ==
  ASSUME TypeOK, LedgerInPast, NEW c, Good(c) # {}
  PROVE  /\ Judged(c) \in Good(c)
         /\ PassesLevels(Judged(c)) <=> \E v \in Good(c) : PassesLevels(v)
<1>. DEFINE passing == {v \in Good(c) : PassesLevels(v)}
<1>1. Good(c) \subseteq Range(ledger) /\ passing \subseteq Good(c)
  BY DEF Good, Mine
<1>2. Newest(Good(c)) \in Good(c)
  BY <1>1, NewestExists
<1>3. passing # {} => Newest(passing) \in passing
  <2>. HIDE DEF passing
  <2>. QED  BY <1>1, NewestExists
<1>4. Judged(c) = IF PassesLevels(Newest(Good(c))) \/ passing = {}
                  THEN Newest(Good(c)) ELSE Newest(passing)
  BY DEF Judged
<1>. QED
  BY <1>2, <1>3, <1>4

-----------------------------------------------------------------------------
(* Type correctness *)

\* The types, with the one fact about the ledger that the audit fields need.
GateInv == TypeOK /\ LedgerInPast

LEMMA DecisionType ==
  ASSUME NEW c, ~Allowed(c)
  PROVE  Decision(c) \in BlockCodes
BY DEF Allowed, Decision, LedgerDecision, LevelDecision, Objection, BlockCodes, LevelCodes

\* An admitted candidate rests on a well-formed entry that passes the levels.
LEMMA AllowedNeedsEntry ==
  ASSUME GateInv, NEW c, RequireLedger, Allowed(c)
  PROVE  Judged(c) \in Good(c) /\ PassesLevels(Judged(c))
<1>1. LedgerDecision(c) = "ok"
  BY DEF Allowed, Decision
<1>2. Good(c) # {} /\ LevelDecision(c) = "ok"
  BY <1>1 DEF LedgerDecision
<1>3. PassesLevels(Judged(c))
  BY <1>2 DEF LevelDecision, Objection, PassesLevels
<1>. QED
  BY <1>2, <1>3, JudgedIsGood DEF GateInv

LEMMA AuditType ==
  ASSUME GateInv, NEW c, Allowed(c)
  PROVE  AuditEntry(c) \in Int /\ AuditSource(c) \in Int
<1>1. CASE RequireLedger
  <2>1. Judged(c) \in Range(ledger)
    BY <1>1, AllowedNeedsEntry DEF Good, Mine
  <2>2. Judged(c) \in Entry
    BY <2>1, RangeType DEF GateInv, TypeOK
  <2>. QED  BY <1>1, <2>2 DEF AuditEntry, AuditSource, Entry
<1>2. CASE ~RequireLedger
  BY <1>2 DEF AuditEntry, AuditSource, NoEntry
<1>. QED  BY <1>1, <1>2

\* One step is recorded, and the ledger grows by at most one entry, made at that step.
\* It is all that the facts about entries below need of a call, the gate's or another.
StepRecorded ==
  /\ \E st \in Step : steps' = Append(steps, st)
  /\ \/ ledger' = ledger
     \/ \E e \in Entry : e.step = Len(steps) /\ ledger' = Append(ledger, e)

LEMMA StepAppended ==
  ASSUME GateInv, Dispatch
  PROVE  StepRecorded
<1>. USE DEF StepRecorded, Step, Tools, Shown, StepIdx
<1>. DEFINE Goal == StepRecorded
<1>0. Len(steps) \in Nat
  BY DEF GateInv, TypeOK
<1>1. ASSUME NEW seen \in Outputs, Analyse(seen)  PROVE Goal
  BY <1>1 DEF Analyse, RecordStep
<1>2. ASSUME NEW text \in Reasoning, RecordHypothesis(text)  PROVE Goal
  BY <1>2 DEF RecordHypothesis, RecordStep
<1>3. ASSUME NEW type \in ActionTypes, NEW c \in Values, NEW source \in CitedSteps,
             NEW text \in Texts, RecordValidation(type, c, source, text)
      PROVE  Goal
  <2>. DEFINE e == [step |-> StepIdx, candidate |-> c, source |-> source,
                    qualifies |-> Qualifies(type, c, source), text |-> text]
  <2>1. e \in Entry
    BY <1>0, GateAssumption DEF Entry, Qualifies
  <2>2. e.step = Len(steps) /\ ledger' = Append(ledger, e)
    BY <1>3 DEF RecordValidation
  <2>3. \E st \in Step : steps' = Append(steps, st)
    BY <1>3 DEF RecordValidation, RecordStep
  <2>. QED  BY <2>1, <2>2, <2>3
<1>4. ASSUME NEW c \in Values, BlockSubmission(c)  PROVE Goal
  BY <1>4 DEF BlockSubmission, RecordStep
<1>5. ASSUME NEW c \in Values, NEW accepted \in BOOLEAN, AdmitSubmission(c, accepted)
      PROVE  Goal
  BY <1>5 DEF AdmitSubmission, RecordSubmission, RecordStep
<1>. QED
  BY <1>1, <1>2, <1>3, <1>4, <1>5 DEF Dispatch

LEMMA TypeOKInit == Init => GateInv
BY DEF Init, GateInv, TypeOK, LedgerInPast, Range

\* The ledger stays in the past: an entry is written at the step being recorded.
LEMMA LedgerInPastStep ==
  ASSUME GateInv, StepRecorded
  PROVE  LedgerInPast'
<1>1. PICK st \in Step : steps' = Append(steps, st)
  BY DEF StepRecorded
<1>2. Len(steps) \in Nat /\ Len(steps') = Len(steps) + 1
  BY <1>1, AppendProperties DEF GateInv, TypeOK
<1>3. \A v \in Range(ledger) : v.step \in 0 .. Len(steps') - 1
  BY <1>2 DEF GateInv, LedgerInPast
<1>4. CASE ledger' = ledger
  BY <1>3, <1>4 DEF LedgerInPast
<1>5. ASSUME NEW e \in Entry, e.step = Len(steps), ledger' = Append(ledger, e)
      PROVE  LedgerInPast'
  <2>1. Range(ledger') = Range(ledger) \cup {e}
    BY <1>5, RangeOfAppend DEF GateInv, TypeOK
  <2>. QED  BY <2>1, <1>2, <1>3, <1>5 DEF LedgerInPast
<1>. QED
  BY <1>4, <1>5 DEF StepRecorded

LEMMA TypeOKStep ==
  ASSUME GateInv, Dispatch
  PROVE  TypeOK'
<1>. USE DEF GateInv, TypeOK
<1>0. Len(steps) \in Nat
  OBVIOUS
<1>1. steps' \in Seq(Step)
  <2>1. PICK st \in Step : steps' = Append(steps, st)
    BY StepAppended DEF StepRecorded
  <2>. QED  BY <2>1, AppendProperties
<1>2. ledger' \in Seq(Entry)
  <2>1. ASSUME NEW e \in Entry, ledger' = Append(ledger, e)  PROVE ledger' \in Seq(Entry)
    BY <2>1, AppendProperties
  <2>. QED  BY <2>1, StepAppended DEF StepRecorded
<1>3. hypotheses' \in Seq(HypothesisRec)
  <2>1. ASSUME NEW text \in Reasoning, RecordHypothesis(text)  PROVE hypotheses' \in Seq(HypothesisRec)
    <3>1. [step |-> StepIdx, text |-> text] \in HypothesisRec
      BY <1>0 DEF HypothesisRec, StepIdx
    <3>. QED  BY <2>1, <3>1, AppendProperties DEF RecordHypothesis
  <2>. QED
    BY <2>1 DEF Dispatch, Analyse, RecordValidation, BlockSubmission, AdmitSubmission, RecordSubmission
<1>4. blocked' \in Seq(Block)
  <2>1. ASSUME NEW c \in Values, BlockSubmission(c)  PROVE blocked' \in Seq(Block)
    <3>1. [step |-> StepIdx, value |-> c, code |-> Decision(c)] \in Block
      BY <1>0, <2>1, DecisionType DEF Block, StepIdx, BlockSubmission
    <3>. QED  BY <2>1, <3>1, AppendProperties DEF BlockSubmission
  <2>. QED
    BY <2>1 DEF Dispatch, Analyse, RecordHypothesis, RecordValidation, AdmitSubmission, RecordSubmission
<1>5. submissions' \in Seq(SubmissionRec)
  <2>1. ASSUME NEW c \in Values, NEW accepted \in BOOLEAN, AdmitSubmission(c, accepted)
        PROVE  submissions' \in Seq(SubmissionRec)
    <3>. DEFINE s == [step |-> StepIdx, value |-> c, accepted |-> accepted,
                      entry |-> AuditEntry(c), source |-> AuditSource(c)]
    <3>1. s \in SubmissionRec
      BY <1>0, <2>1, AuditType DEF SubmissionRec, StepIdx, AdmitSubmission
    <3>2. submissions' = Append(submissions, s)
      BY <2>1 DEF AdmitSubmission, RecordSubmission
    <3>. HIDE DEF s
    <3>. QED  BY <3>1, <3>2, AppendProperties
  <2>. QED
    BY <2>1 DEF Dispatch, Analyse, RecordHypothesis, RecordValidation, BlockSubmission
<1>. QED
  BY <1>1, <1>2, <1>3, <1>4, <1>5

LEMMA GateInvStep == GateInv /\ [Next]_gateVars => GateInv'
<1>. SUFFICES ASSUME GateInv, [Next]_gateVars  PROVE GateInv'
  OBVIOUS
<1>1. CASE Dispatch
  BY <1>1, StepAppended, LedgerInPastStep, TypeOKStep DEF GateInv
<1>2. CASE UNCHANGED gateVars
  BY <1>2 DEF gateVars, GateInv, TypeOK, LedgerInPast
<1>. QED
  BY <1>1, <1>2 DEF Next

LEMMA GateInvariant == Spec => []GateInv
BY TypeOKInit, GateInvStep, PTL DEF Spec

\* Every state of the gate is well typed, whatever calls the agent makes.
THEOREM TypeCorrect == Spec => []TypeOK
BY GateInvariant, PTL DEF GateInv

-----------------------------------------------------------------------------
(* The decision is the merit of the candidate *)

LEMMA MeritFact == GateInv => MeritDecides
<1>. SUFFICES ASSUME GateInv, NEW c \in Values  PROVE Allowed(c) <=> Admissible(c)
  BY DEF MeritDecides
<1>1. ASSUME Allowed(c)  PROVE Admissible(c)
  <2>1. c # Empty /\ (RequireDerivation => Provenance(c) # "lifted")
    BY <1>1 DEF Allowed, Decision
  <2>2. RequireLedger => Judged(c) \in Good(c) /\ PassesLevels(Judged(c))
    BY <1>1, AllowedNeedsEntry
  <2>. QED  BY <2>1, <2>2 DEF Admissible, Good, Mine
<1>2. ASSUME Admissible(c)  PROVE Allowed(c)
  <2>1. CASE ~RequireLedger
    BY <1>2, <2>1 DEF Admissible, Allowed, Decision
  <2>2. CASE RequireLedger
    <3>1. PICK v \in Good(c) : PassesLevels(v)
      BY <1>2, <2>2 DEF Admissible, Good, Mine
    <3>2. Good(c) # {} /\ Mine(c) # {}
      BY <3>1 DEF Good
    <3>3. PassesLevels(Judged(c))
      BY <3>1, JudgedIsGood DEF GateInv
    <3>4. LevelDecision(c) = "ok"
      BY <3>3 DEF LevelDecision, PassesLevels
    <3>. QED  BY <1>2, <2>2, <3>2, <3>4 DEF Admissible, Allowed, Decision, LedgerDecision
  <2>. QED  BY <2>1, <2>2
<1>. QED
  BY <1>1, <1>2

\* The gate's search and its block budget admit exactly the candidates that rest on
\* some well-formed entry that passes both levels (scaffold.py, validate).
THEOREM MeritAlwaysDecides == Spec => []MeritDecides
BY GateInvariant, MeritFact, PTL

-----------------------------------------------------------------------------
(* What is recorded later does not change how an entry is judged *)

LEMMA EntryStable ==
  ASSUME GateInv, StepRecorded, NEW v \in Range(ledger)
  PROVE  /\ WellFormed(v)' <=> WellFormed(v)
         /\ WellFormed(v) => (PassesLevels(v)' <=> PassesLevels(v))
         /\ v \in Range(ledger')
<1>0. /\ Len(steps) \in Nat
      /\ v \in Entry
      /\ v.step \in 0 .. Len(steps) - 1
      /\ v.source \in Int
  <2>1. v \in Entry
    BY RangeType DEF GateInv, TypeOK
  <2>. QED  BY <2>1 DEF GateInv, TypeOK, LedgerInPast, Entry
<1>1. PICK st \in Step : steps' = Append(steps, st)
  BY DEF StepRecorded
<1>2. Len(steps') = Len(steps) + 1
  BY <1>1, AppendProperties DEF GateInv, TypeOK
<1>3. \A i \in 0 .. Len(steps) - 1 : SeenAt(i)' = SeenAt(i)
  <2>. SUFFICES ASSUME NEW i \in 0 .. Len(steps) - 1  PROVE SeenAt(i)' = SeenAt(i)
    OBVIOUS
  <2>1. i + 1 \in 1 .. Len(steps) /\ i \in 0 .. Len(steps') - 1
    BY <1>0, <1>2
  <2>2. steps'[i + 1] = steps[i + 1]
    BY <1>1, <2>1, AppendProperties DEF GateInv, TypeOK
  <2>. QED  BY <2>1, <2>2 DEF SeenAt
<1>4. View(v)' = View(v)
  <2>1. {j \in 0 .. Len(steps') - 1 : j < v.step} = {j \in 0 .. Len(steps) - 1 : j < v.step}
    BY <1>0, <1>2
  <2>2. {SeenAt(i)' : i \in {j \in 0 .. Len(steps) - 1 : j < v.step}}
          = {SeenAt(i) : i \in {j \in 0 .. Len(steps) - 1 : j < v.step}}
    BY <1>3
  <2>. QED  BY <2>1, <2>2 DEF View
<1>5. WellFormed(v)' <=> WellFormed(v)
  BY <1>0, <1>2 DEF WellFormed
<1>6. ASSUME WellFormed(v)  PROVE PassesLevels(v)' <=> PassesLevels(v)
  <2>1. SeenAt(v.source)' = SeenAt(v.source)
    BY <1>3, <1>6 DEF WellFormed
  <2>. QED
    BY <1>4, <2>1 DEF PassesLevels, ConsumerMissing, GuardMissing, CountedReasoning
<1>7. v \in Range(ledger')
  <2>1. ASSUME NEW e \in Entry, ledger' = Append(ledger, e)  PROVE v \in Range(ledger')
    BY <2>1, RangeOfAppend DEF GateInv, TypeOK
  <2>. QED  BY <2>1 DEF StepRecorded
<1>. QED
  BY <1>5, <1>6, <1>7

LEMMA AdmissibleStays ==
  ASSUME GateInv, StepRecorded, NEW c, Admissible(c)
  PROVE  Admissible(c)'
<1>1. ASSUME NEW v \in Range(ledger), v.candidate = c, WellFormed(v), PassesLevels(v)
      PROVE  v \in Range(ledger') /\ WellFormed(v)' /\ PassesLevels(v)'
  BY <1>1, EntryStable
<1>. QED
  BY <1>1 DEF Admissible, Provenance, Contains

\* Once the gate would admit a candidate it will always admit it, whatever the agent
\* records or submits afterwards (scaffold.py, validate and _levels).
THEOREM AdmissionStays == Spec => AdmissionIsPermanent
<1>1. GateInv /\ GateInv' /\ [Next]_gateVars
        => [\A c \in Values : Allowed(c) => Allowed(c)']_gateVars
  <2>. SUFFICES ASSUME GateInv, GateInv', Dispatch, NEW c \in Values, Allowed(c)
                PROVE  Allowed(c)'
    BY DEF Next
  <2>1. Admissible(c)
    BY MeritFact DEF MeritDecides
  <2>2. Admissible(c)'
    BY <2>1, StepAppended, AdmissibleStays
  <2>3. MeritDecides'
    BY MeritFact, PTL
  <2>. QED  BY <2>2, <2>3 DEF MeritDecides
<1>. QED
  BY <1>1, GateInvariant, PTL DEF Spec, AdmissionIsPermanent

\* Nothing but a new ledger entry for the candidate itself turns a refusal into an
\* admission: not repetition, not more disassembly, not a stated hypothesis.
THEOREM OnlyEvidenceLifts == Spec => OnlyEvidenceLiftsABlock
<1>1. GateInv /\ GateInv' /\ [Next]_gateVars
        => [\A c \in Values : ~Allowed(c) /\ Allowed(c)' =>
              \E v \in Range(ledger') \ Range(ledger) : v.candidate = c]_gateVars
  <2>. SUFFICES ASSUME GateInv, GateInv', Dispatch, NEW c \in Values, ~Allowed(c), Allowed(c)'
                PROVE  \E v \in Range(ledger') \ Range(ledger) : v.candidate = c
    BY DEF Next
  <2>1. ~Admissible(c)
    BY MeritFact DEF MeritDecides
  <2>2. MeritDecides'
    BY MeritFact, PTL
  <2>3. Admissible(c)'
    BY <2>2 DEF MeritDecides
  <2>4. RequireLedger
    BY <2>1, <2>3 DEF Admissible, Provenance, Contains
  <2>5. PICK v \in Range(ledger') : v.candidate = c /\ WellFormed(v)' /\ PassesLevels(v)'
    BY <2>3, <2>4 DEF Admissible
  <2>6. v \notin Range(ledger)
    <3>. SUFFICES ASSUME v \in Range(ledger)  PROVE FALSE
      OBVIOUS
    <3>1. WellFormed(v) /\ PassesLevels(v)
      BY <2>5, StepAppended, EntryStable
    <3>. QED  BY <2>1, <2>3, <2>4, <2>5, <3>1 DEF Admissible, Provenance, Contains
  <2>. QED  BY <2>5, <2>6
<1>. QED
  BY <1>1, GateInvariant, PTL DEF Spec, OnlyEvidenceLiftsABlock

-----------------------------------------------------------------------------
(* The block budget *)

LEMMA PriorBlocksFinite ==
  ASSUME TypeOK, NEW c, NEW code
  PROVE  IsFiniteSet(PriorBlocks(c, code)) /\ BlocksSoFar(c, code) \in Nat
<1>1. PriorBlocks(c, code) \subseteq 1 .. Len(blocked) /\ Len(blocked) \in Nat
  BY LenProperties DEF PriorBlocks, TypeOK
<1>2. IsFiniteSet(1 .. Len(blocked))
  BY <1>1, FS_Interval
<1>. QED
  BY <1>1, <1>2, FS_Subset, FS_CardinalityType DEF BlocksSoFar

\* A call blocks at most one submission, and then records the gate's decision.
LEMMA BlockAppended ==
  ASSUME GateInv, Dispatch
  PROVE  \/ blocked' = blocked
         \/ \E c \in Values : /\ ~Allowed(c)
                              /\ blocked' = Append(blocked, [step |-> Len(steps), value |-> c,
                                                             code |-> Decision(c)])
BY DEF Dispatch, Analyse, RecordHypothesis, RecordValidation, BlockSubmission,
       AdmitSubmission, RecordSubmission, StepIdx

\* What appending a block does to the blocks counted for a candidate and a code.
LEMMA PriorBlocksStep ==
  ASSUME TypeOK, NEW b \in Block, blocked' = Append(blocked, b), NEW c, NEW code
  PROVE  /\ PriorBlocks(c, code)' = IF b.value = c /\ b.code = code
                                    THEN PriorBlocks(c, code) \cup {Len(blocked) + 1}
                                    ELSE PriorBlocks(c, code)
         /\ Len(blocked) + 1 \notin PriorBlocks(c, code)
<1>1. /\ Len(blocked) \in Nat
      /\ DOMAIN blocked = 1 .. Len(blocked)
      /\ DOMAIN blocked' = 1 .. Len(blocked) + 1
      /\ \A i \in 1 .. Len(blocked) : blocked'[i] = blocked[i]
      /\ blocked'[Len(blocked) + 1] = b
  BY AppendProperties, LenProperties DEF TypeOK
<1>. QED
  BY <1>1 DEF PriorBlocks

\* An objection is raised only while the budget for it lasts.
LEMMA ObjectionWithinBudget ==
  ASSUME TypeOK, NEW c, Decision(c) \in LevelCodes
  PROVE  BlocksSoFar(c, Decision(c)) < MaxBlocks
<1>1. \A code : Objection(c, code) \in LevelCodes
                  => Objection(c, code) = code /\ ~(BlocksSoFar(c, code) >= MaxBlocks)
  BY DEF Objection, LevelCodes
<1>2. \E code : Decision(c) = Objection(c, code)
  BY DEF Decision, LedgerDecision, LevelDecision, LevelCodes
<1>3. BlocksSoFar(c, Decision(c)) \in Nat
  BY PriorBlocksFinite
<1>. QED
  BY <1>1, <1>2, <1>3, GateAssumption

LEMMA AbstentionNeedsBudget ==
  ASSUME TypeOK, NEW c, Decision(c) = "abstained_on_block_budget"
  PROVE  \E code \in LevelCodes : BlocksSoFar(c, code) >= MaxBlocks
BY DEF Decision, LedgerDecision, LevelDecision, LevelCodes, Objection

LEMMA BudgetStep ==
  ASSUME GateInv, Dispatch, BlockBudgetHolds
  PROVE  BlockBudgetHolds'
<1>. SUFFICES ASSUME NEW c \in Values, NEW code \in LevelCodes
              PROVE  BlocksSoFar(c, code)' <= MaxBlocks
  BY DEF BlockBudgetHolds
<1>1. CASE blocked' = blocked
  BY <1>1 DEF BlockBudgetHolds, BlocksSoFar, PriorBlocks
<1>2. ASSUME NEW d \in Values, ~Allowed(d),
             blocked' = Append(blocked, [step |-> Len(steps), value |-> d, code |-> Decision(d)])
      PROVE  BlocksSoFar(c, code)' <= MaxBlocks
  <2>. DEFINE b == [step |-> Len(steps), value |-> d, code |-> Decision(d)]
  <2>1. b \in Block
    BY <1>2, DecisionType DEF Block, GateInv, TypeOK
  <2>2. CASE d = c /\ Decision(d) = code
    <3>1. PriorBlocks(c, code)' = PriorBlocks(c, code) \cup {Len(blocked) + 1}
          /\ Len(blocked) + 1 \notin PriorBlocks(c, code)
      BY <1>2, <2>1, <2>2, PriorBlocksStep DEF GateInv
    <3>2. BlocksSoFar(c, code)' = BlocksSoFar(c, code) + 1
      BY <3>1, PriorBlocksFinite, FS_AddElement DEF BlocksSoFar, GateInv
    <3>3. BlocksSoFar(c, code) < MaxBlocks /\ BlocksSoFar(c, code) \in Nat
      BY <2>2, ObjectionWithinBudget, PriorBlocksFinite DEF GateInv
    <3>. QED  BY <3>2, <3>3, GateAssumption
  <2>3. CASE ~(d = c /\ Decision(d) = code)
    <3>1. PriorBlocks(c, code)' = PriorBlocks(c, code)
      BY <1>2, <2>1, <2>3, PriorBlocksStep DEF GateInv
    <3>. QED  BY <3>1 DEF BlockBudgetHolds, BlocksSoFar
  <2>. QED  BY <2>2, <2>3
<1>. QED
  BY <1>1, <1>2, BlockAppended

LEMMA BudgetInit == Init => BlockBudgetHolds
<1>. SUFFICES ASSUME Init, NEW c \in Values, NEW code \in LevelCodes
              PROVE  BlocksSoFar(c, code) <= MaxBlocks
  BY DEF BlockBudgetHolds
<1>1. PriorBlocks(c, code) = {}
  BY DEF Init, PriorBlocks
<1>. QED
  BY <1>1, FS_EmptySet, GateAssumption DEF BlocksSoFar

LEMMA BudgetInvariant == Spec => []BlockBudgetHolds
<1>1. GateInv /\ BlockBudgetHolds /\ [Next]_gateVars => BlockBudgetHolds'
  <2>1. ASSUME BlockBudgetHolds, UNCHANGED gateVars  PROVE BlockBudgetHolds'
    BY <2>1 DEF gateVars, BlockBudgetHolds, BlocksSoFar, PriorBlocks
  <2>. QED  BY <2>1, BudgetStep DEF Next
<1>. QED
  BY <1>1, BudgetInit, GateInvariant, PTL DEF Spec

\* No objection is put to a candidate more often than the budget allows, however
\* many candidates there are and however their entries change (_blocks_so_far).
THEOREM BudgetHolds == Spec => []BlockBudgetHolds
BY BudgetInvariant, PTL

LEMMA AbstentionStep ==
  ASSUME GateInv, Dispatch, BlockBudgetHolds, AbstentionIsEarned
  PROVE  AbstentionIsEarned'
<1>1. CASE blocked' = blocked
  BY <1>1 DEF AbstentionIsEarned, PriorBlocks
<1>2. ASSUME NEW d \in Values, ~Allowed(d),
             blocked' = Append(blocked, [step |-> Len(steps), value |-> d, code |-> Decision(d)])
      PROVE  AbstentionIsEarned'
  <2>. DEFINE b == [step |-> Len(steps), value |-> d, code |-> Decision(d)]
              Before(i, code) == {j \in PriorBlocks(blocked[i].value, code) : j < i}
  <2>1. b \in Block /\ b.value = d /\ b.code = Decision(d)
    BY <1>2, DecisionType DEF Block, GateInv, TypeOK
  <2>2. /\ Len(blocked) \in Nat
        /\ DOMAIN blocked = 1 .. Len(blocked)
        /\ DOMAIN blocked' = 1 .. Len(blocked) + 1
        /\ \A i \in 1 .. Len(blocked) : blocked'[i] = blocked[i]
        /\ blocked'[Len(blocked) + 1] = b
    BY <1>2, <2>1, AppendProperties, LenProperties DEF GateInv, TypeOK
  <2>3. \A c, code : PriorBlocks(c, code) \subseteq 1 .. Len(blocked)
    BY <2>2 DEF PriorBlocks
  <2>4. \A c, code : {j \in PriorBlocks(c, code)' : j < Len(blocked) + 1} = PriorBlocks(c, code)
    <3>. SUFFICES ASSUME NEW c, NEW code
                  PROVE  {j \in PriorBlocks(c, code)' : j < Len(blocked) + 1} = PriorBlocks(c, code)
      OBVIOUS
    <3>1. PriorBlocks(c, code)' \in {PriorBlocks(c, code), PriorBlocks(c, code) \cup {Len(blocked) + 1}}
      BY <1>2, <2>1, PriorBlocksStep DEF GateInv
    <3>. QED  BY <2>2, <2>3, <3>1
  <2>5. SUFFICES ASSUME NEW i \in DOMAIN blocked', blocked'[i].code = "abstained_on_block_budget"
                 PROVE  \E code \in LevelCodes : Cardinality(Before(i, code)') = MaxBlocks
    BY DEF AbstentionIsEarned
  <2>6. CASE i \in DOMAIN blocked
    <3>1. PICK code \in LevelCodes : Cardinality(Before(i, code)) = MaxBlocks
      BY <2>2, <2>5, <2>6 DEF AbstentionIsEarned
    <3>2. Before(i, code)' = Before(i, code)
      <4>1. blocked'[i] = blocked[i] /\ i < Len(blocked) + 1 /\ i \in Nat
        BY <2>2, <2>6
      <4>2. PICK c : c = blocked[i].value
        OBVIOUS
      <4>3. PriorBlocks(c, code) = {j \in PriorBlocks(c, code)' : j < Len(blocked) + 1}
        BY <2>4
      <4>4. PriorBlocks(c, code)' \subseteq Nat
        BY <2>2 DEF PriorBlocks
      <4>5. {j \in PriorBlocks(c, code)' : j < i} = {j \in PriorBlocks(c, code) : j < i}
        BY <2>2, <4>1, <4>3, <4>4
      <4>6. Before(i, code)' = {j \in PriorBlocks(c, code)' : j < i}
        BY <4>1, <4>2 DEF PriorBlocks
      <4>. QED  BY <4>2, <4>5, <4>6
    <3>. QED  BY <3>1, <3>2
  <2>7. CASE i = Len(blocked) + 1
    <3>1. Decision(d) = "abstained_on_block_budget"
      BY <2>1, <2>2, <2>5, <2>7
    <3>2. PICK code \in LevelCodes : BlocksSoFar(d, code) >= MaxBlocks
      BY <3>1, AbstentionNeedsBudget DEF GateInv
    <3>3. BlocksSoFar(d, code) = MaxBlocks
      <4>1. BlocksSoFar(d, code) <= MaxBlocks /\ BlocksSoFar(d, code) \in Nat
        BY PriorBlocksFinite DEF BlockBudgetHolds, GateInv
      <4>. QED  BY <3>2, <4>1, GateAssumption
    <3>4. Before(i, code)' = PriorBlocks(d, code)
      BY <2>1, <2>2, <2>4, <2>7
    <3>. QED  BY <3>3, <3>4 DEF BlocksSoFar
  <2>8. i \in DOMAIN blocked \/ i = Len(blocked) + 1
    BY <2>2, <2>5
  <2>. HIDE DEF Before
  <2>. QED  BY <2>6, <2>7, <2>8
<1>. QED
  BY <1>1, <1>2, BlockAppended

\* The gate gives up on a candidate only after it has put one and the same objection
\* to that candidate exactly as often as the budget allows.
THEOREM AbstentionEarned == Spec => []AbstentionIsEarned
<1>1. Init => AbstentionIsEarned
  BY DEF Init, AbstentionIsEarned
<1>2. GateInv /\ BlockBudgetHolds /\ AbstentionIsEarned /\ [Next]_gateVars => AbstentionIsEarned'
  <2>1. ASSUME AbstentionIsEarned, UNCHANGED gateVars  PROVE AbstentionIsEarned'
    BY <2>1 DEF gateVars, AbstentionIsEarned, PriorBlocks
  <2>. QED  BY <2>1, AbstentionStep DEF Next
<1>. QED
  BY <1>1, <1>2, GateInvariant, BudgetInvariant, PTL DEF Spec

-----------------------------------------------------------------------------
(* The audit *)

\* What the audit of a submission promises of the entry it names.
Grounds(s, v) ==
  /\ v.candidate = s.value /\ v.step = s.entry /\ v.source = s.source
  /\ 0 <= s.source /\ s.source < s.entry /\ s.entry < s.step
  /\ WellFormed(v)
  /\ PassesLevels(v)

Audited == RequireLedger => \A s \in Range(submissions) : \E v \in Range(ledger) : Grounds(s, v)

LEMMA AuditedStep ==
  ASSUME GateInv, Dispatch, Audited
  PROVE  Audited'
<1>. SUFFICES ASSUME RequireLedger, NEW s \in Range(submissions')
              PROVE  \E v \in Range(ledger') : Grounds(s, v)'
  BY DEF Audited
<1>1. CASE s \in Range(submissions)
  <2>1. PICK v \in Range(ledger) : Grounds(s, v)
    BY <1>1 DEF Audited
  <2>2. v \in Range(ledger') /\ WellFormed(v)' /\ PassesLevels(v)'
    BY <2>1, StepAppended, EntryStable DEF Grounds
  <2>. QED  BY <2>1, <2>2 DEF Grounds
<1>2. ASSUME NEW c \in Values, NEW accepted \in BOOLEAN, AdmitSubmission(c, accepted),
             s \notin Range(submissions)
      PROVE  \E v \in Range(ledger') : Grounds(s, v)'
  <2>. DEFINE r == [step |-> Len(steps), value |-> c, accepted |-> accepted,
                    entry |-> AuditEntry(c), source |-> AuditSource(c)]
  <2>1. r \in SubmissionRec
    BY <1>2, AuditType DEF SubmissionRec, AdmitSubmission, GateInv, TypeOK
  <2>2. submissions' = Append(submissions, r)
    BY <1>2 DEF AdmitSubmission, RecordSubmission, StepIdx
  <2>3. s = r
    <3>. HIDE DEF r
    <3>. QED  BY <1>2, <2>1, <2>2, RangeOfAppend DEF GateInv, TypeOK
  <2>4. Judged(c) \in Good(c) /\ PassesLevels(Judged(c))
    BY <1>2, AllowedNeedsEntry DEF AdmitSubmission
  <2>5. /\ Judged(c) \in Range(ledger) /\ Judged(c).candidate = c
        /\ WellFormed(Judged(c))
    BY <2>4 DEF Good, Mine
  <2>6. /\ s.value = c /\ s.step = Len(steps)
        /\ s.entry = Judged(c).step /\ s.source = Judged(c).source
    BY <2>3 DEF AuditEntry, AuditSource
  <2>7. Judged(c).step \in 0 .. Len(steps) - 1 /\ Len(steps) \in Nat
    BY <2>5 DEF GateInv, TypeOK, LedgerInPast
  <2>8. Judged(c).source \in 0 .. Len(steps) - 1 /\ Judged(c).source < Judged(c).step
    BY <2>5 DEF WellFormed
  <2>9. \A v : v = Judged(c) => Grounds(s, v)'
    <3>. SUFFICES ASSUME NEW v, v = Judged(c)  PROVE Grounds(s, v)'
      OBVIOUS
    <3>1. v \in Range(ledger) /\ WellFormed(v) /\ PassesLevels(v)
      BY <2>4, <2>5
    <3>2. WellFormed(v)' /\ PassesLevels(v)'
      BY <3>1, StepAppended, EntryStable
    <3>. QED  BY <2>5, <2>6, <2>7, <2>8, <3>2 DEF Grounds
  <2>. QED  BY <2>5, <2>9, StepAppended, EntryStable
<1>3. CASE submissions' = submissions
  BY <1>1, <1>3
<1>. QED
  BY <1>1, <1>2, <1>3
  DEF Dispatch, Analyse, RecordHypothesis, RecordValidation, BlockSubmission

LEMMA AuditedStutter == Audited /\ UNCHANGED gateVars => Audited'
<1>. SUFFICES ASSUME Audited, UNCHANGED gateVars  PROVE Audited'
  OBVIOUS
<1>1. \A i : SeenAt(i)' = SeenAt(i)
  BY DEF gateVars, SeenAt
<1>2. \A v : View(v)' = View(v)
  BY <1>1 DEF gateVars, View
<1>3. \A v : (WellFormed(v)' <=> WellFormed(v)) /\ (PassesLevels(v)' <=> PassesLevels(v))
  BY <1>1, <1>2
  DEF gateVars, WellFormed, PassesLevels, ConsumerMissing, GuardMissing, CountedReasoning
<1>. QED
  BY <1>3 DEF gateVars, Audited, Grounds

\* The audit of every admitted submission names an entry for that candidate, written
\* before the submission, that cites a step before itself and passes the levels.
THEOREM AuditSound == Spec => []AuditNamesEarlierWork
<1>1. Init => Audited
  BY DEF Init, Audited, Range
<1>2. GateInv /\ Audited /\ [Next]_gateVars => Audited'
  BY AuditedStutter, AuditedStep DEF Next
<1>3. Audited => AuditNamesEarlierWork
  BY DEF Audited, AuditNamesEarlierWork, Grounds
<1>. QED
  BY <1>1, <1>2, <1>3, GateInvariant, PTL DEF Spec

-----------------------------------------------------------------------------
(* The two replays of finished traces *)

\* Levels that object to no less when a citation is looked at and to no more when there is
\* more reasoning (module GuardDialogueProofs shows it of those of DerivationCheck).
LevelsOnlyObject ==
  /\ \A t, o, w : ConsumerObserved(t, o, w) => ConsumerObserved(t, {}, w)
  /\ \A t, less, more, w : less \subseteq more /\ GuardsAccounted(t, less, w) => GuardsAccounted(t, more, w)

-----------------------------------------------------------------------------
(* Entries as they are read back *)

LEMMA ReadType ==
  ASSUME GateInv, NEW r \in EntriesRead
  PROVE  \E v \in Range(ledger) :
           /\ r = AsRead(v) /\ v \in Entry
           /\ r.step = v.step /\ r.candidate = v.candidate /\ r.text = v.text
           /\ r.source = ReadBack(v.source) /\ r.qualifies = v.qualifies
<1>1. PICK v \in Range(ledger) : r = AsRead(v)
  BY DEF EntriesRead
<1>2. v \in Entry
  BY RangeType DEF GateInv, TypeOK
<1>. QED
  BY <1>1, <1>2 DEF AsRead, Entry

LEMMA AsReadFields ==
  ASSUME GateInv, NEW v \in Range(ledger)
  PROVE  /\ v \in Entry /\ v.step \in 0 .. Len(steps) - 1 /\ v.source \in Int
         /\ AsRead(v) \in EntriesRead
         /\ AsRead(v).step = v.step /\ AsRead(v).candidate = v.candidate
         /\ AsRead(v).text = v.text /\ AsRead(v).source = ReadBack(v.source)
         /\ v.source # 0 => AsRead(v) = v
<1>1. v \in Entry
  BY RangeType DEF GateInv, TypeOK
<1>2. v.source # 0 => AsRead(v) = v
  BY <1>1 DEF AsRead, ReadBack, Entry
<1>. QED
  BY <1>1, <1>2 DEF AsRead, EntriesRead, Entry, GateInv, LedgerInPast

\* The entry that is looked at is one of those that were found, and passes if one does.
LEMMA ReconsideredIsMine ==
  ASSUME GateInv, NEW mine, mine \subseteq EntriesRead, mine # {}
  PROVE  /\ Reconsidered(mine) \in mine
         /\ (\E r \in mine : Satisfies(r)) => Satisfies(Reconsidered(mine))
<1>. DEFINE passing == {r \in mine : Satisfies(r)}
<1>1. Len(steps) \in Nat /\ \A r \in EntriesRead : r.step \in 0 .. Len(steps) - 1
  <2>1. ASSUME NEW r \in EntriesRead  PROVE r.step \in 0 .. Len(steps) - 1
    BY ReadType DEF GateInv, LedgerInPast
  <2>. QED  BY <2>1 DEF GateInv, TypeOK
<1>2. Newest(mine) \in mine
  BY <1>1, NewestOf
<1>3. passing # {} => Newest(passing) \in passing
  <2>1. \A r \in passing : r.step \in 0 .. Len(steps) - 1
    BY <1>1
  <2>. HIDE DEF passing
  <2>. QED  BY <1>1, <2>1, NewestOf
<1>4. Reconsidered(mine) = IF passing # {} THEN Newest(passing) ELSE Newest(mine)
  BY DEF Reconsidered
<1>. QED
  BY <1>2, <1>3, <1>4

\* A candidate with entries has a first one.
LEMMA FirstEntryExists ==
  ASSUME GateInv, NEW c, NEW r \in EntriesRead, r.candidate = c
  PROVE  /\ ShadowEntry(c) \in EntriesRead /\ ShadowEntry(c).candidate = c
         /\ \A w \in EntriesRead : w.candidate = c => ShadowEntry(c).step <= w.step
<1>. DEFINE S == {w \in EntriesRead : w.candidate = c}
            T == {w.step : w \in S}
<1>1. \A w \in EntriesRead : w.step \in Nat
  <2>1. ASSUME NEW w \in EntriesRead  PROVE w.step \in Nat
    BY ReadType DEF Entry
  <2>. QED  BY <2>1
<1>2. T \subseteq Nat /\ T # {}
  BY <1>1
<1>3. PICK m \in T : \A k \in T : ~(<<k, m>> \in OpToRel(<, Nat))
  <2>. HIDE DEF T
  <2>. QED  BY <1>2, NatLessThanWellFounded, WFMin, Zenon
<1>4. \A k \in T : m <= k
  <2>. SUFFICES ASSUME NEW k \in T, ~(m <= k)  PROVE FALSE
    OBVIOUS
  <2>1. k \in Nat /\ m \in Nat /\ k < m
    <3>. HIDE DEF T
    <3>. QED  BY <1>2
  <2>2. <<k, m>> \in OpToRel(<, Nat)
    BY <2>1 DEF OpToRel
  <2>. QED  BY <2>2, <1>3
<1>5. PICK v \in S : m = v.step
  OBVIOUS
<1>6. \A w \in EntriesRead : w.candidate = c => v.step <= w.step
  BY <1>4, <1>5
<1>. QED
  BY <1>5, <1>6, Zenon DEF ShadowEntry

\* An entry that passes the gate's levels satisfies the replay's, read back or not.
LEMMA PassingSatisfies ==
  ASSUME GateInv, LevelsEnforced, LevelsOnlyObject, NEW v \in Range(ledger), PassesLevels(v)
  PROVE  Satisfies(AsRead(v))
<1>1. /\ AsRead(v).step = v.step /\ AsRead(v).text = v.text
      /\ AsRead(v).source = ReadBack(v.source)
  BY AsReadFields
<1>2. View(AsRead(v)) = View(v)
  BY <1>1 DEF View
<1>3. ConsumerObserved(v.text, SeenAt(v.source), View(v)) /\ GuardsAccounted(v.text, {}, View(v))
  BY DEF PassesLevels, ConsumerMissing, GuardMissing, CountedReasoning, LevelsEnforced
<1>4. GuardsAccounted(v.text, ReasoningBefore(AsRead(v)), View(v))
  BY <1>3 DEF LevelsOnlyObject
<1>5. SeenAt(-1) = {}
  BY DEF SeenAt
<1>6. SeenAt(ReadBack(v.source)) = SeenAt(v.source) \/ SeenAt(ReadBack(v.source)) = {}
  BY <1>5 DEF ReadBack
<1>7. ConsumerObserved(v.text, SeenAt(ReadBack(v.source)), View(v))
  BY <1>3, <1>6 DEF LevelsOnlyObject
<1>. QED
  BY <1>1, <1>2, <1>4, <1>7 DEF Satisfies, Terminal, Reachable

-----------------------------------------------------------------------------
(* Admissions *)

\* A submission the gate admitted rests on an entry; a second one there is not.
ReplayInv ==
  /\ GateInv /\ Audited
  /\ Len(submissions) \in {0, 1}
  /\ \A v, w \in Range(ledger) : v.step = w.step => v = w

LEMMA OneEntryAStep ==
  ASSUME GateInv, StepRecorded, \A v, w \in Range(ledger) : v.step = w.step => v = w
  PROVE  \A v, w \in Range(ledger') : v.step = w.step => v = w
<1>1. \A v \in Range(ledger) : v.step # Len(steps)
  <2>1. Len(steps) \in Nat
    BY DEF GateInv, TypeOK
  <2>. QED  BY <2>1 DEF GateInv, LedgerInPast
<1>2. ASSUME NEW e \in Entry, e.step = Len(steps), ledger' = Append(ledger, e)
      PROVE  \A v, w \in Range(ledger') : v.step = w.step => v = w
  <2>1. Range(ledger') = Range(ledger) \cup {e}
    BY <1>2, RangeOfAppend DEF GateInv, TypeOK
  <2>. QED  BY <1>1, <1>2, <2>1
<1>. QED
  BY <1>2 DEF StepRecorded

LEMMA OneSubmission ==
  ASSUME GateInv, Next
  PROVE  Len(submissions') \in {0, 1}
<1>1. submissions = <<>> /\ Len(submissions) = 0
  BY DEF Next, Running
<1>2. ASSUME NEW c \in Values, NEW accepted \in BOOLEAN, AdmitSubmission(c, accepted)
      PROVE  Len(submissions') = 1
  <2>. DEFINE s == [step |-> StepIdx, value |-> c, accepted |-> accepted,
                    entry |-> AuditEntry(c), source |-> AuditSource(c)]
  <2>1. submissions' = Append(<<>>, s)
    BY <1>1, <1>2 DEF AdmitSubmission, RecordSubmission
  <2>. HIDE DEF s
  <2>. QED  BY <2>1
<1>. QED
  BY <1>1, <1>2
  DEF Next, Dispatch, Analyse, RecordHypothesis, RecordValidation, BlockSubmission

LEMMA ReplayInvHolds == Spec => []ReplayInv
<1>1. Init => ReplayInv
  BY TypeOKInit DEF Init, ReplayInv, Audited, Range
<1>2. ReplayInv /\ [Next]_gateVars => ReplayInv'
  <2>. SUFFICES ASSUME ReplayInv, [Next]_gateVars  PROVE ReplayInv'
    OBVIOUS
  <2>1. GateInv'
    BY GateInvStep DEF ReplayInv
  <2>2. CASE Next
    BY <2>1, <2>2, OneSubmission, OneEntryAStep, StepAppended, AuditedStep DEF ReplayInv, Next
  <2>3. CASE UNCHANGED gateVars
    BY <2>1, <2>3, AuditedStutter DEF ReplayInv, gateVars
  <2>. QED  BY <2>2, <2>3
<1>. QED
  BY <1>1, <1>2, PTL DEF Spec

\* The entry the audit of the submission names is among those the replay looks at.
LEMMA AuditedEntryIsRead ==
  ASSUME ReplayInv, LevelsEnforced, LevelsOnlyObject, submissions # <<>>
  PROVE  LET s == submissions[Len(submissions)]
         IN /\ Range(submissions) = {s}
            /\ \E v \in Range(ledger) :
                 /\ v.step = s.entry /\ v.candidate = s.value
                 /\ AsRead(v) \in MineUpTo(s.value, s.step) /\ Satisfies(AsRead(v))
<1>. DEFINE s == submissions[Len(submissions)]
<1>1. submissions \in Seq(SubmissionRec) /\ Len(submissions) = 1
  BY DEF ReplayInv, GateInv, TypeOK
<1>2. Range(submissions) = {s}
  BY <1>1, LenProperties DEF Range
<1>3. PICK v \in Range(ledger) : Grounds(s, v)
  BY <1>2 DEF ReplayInv, Audited, LevelsEnforced
<1>4. Satisfies(AsRead(v))
  BY <1>3, PassingSatisfies DEF Grounds, ReplayInv
<1>5. /\ v \in Entry /\ v.step \in Int /\ v.source \in Int
      /\ AsRead(v) \in EntriesRead
      /\ AsRead(v).step = v.step /\ AsRead(v).candidate = v.candidate
      /\ AsRead(v).source = ReadBack(v.source)
  BY AsReadFields DEF ReplayInv
<1>6. /\ v.candidate = s.value /\ v.step = s.entry /\ v.source = s.source
      /\ 0 <= s.source /\ s.source < s.entry /\ s.entry < s.step /\ s.step \in Int
  <2>1. s \in SubmissionRec
    BY <1>1, <1>2, RangeType
  <2>. QED  BY <1>3, <2>1 DEF Grounds, SubmissionRec
<1>. HIDE DEF s
<1>7. AsRead(v) \in MineUpTo(s.value, s.step)
  BY <1>5, <1>6 DEF MineUpTo, ReadBack
<1>. QED
  BY <1>2, <1>4, <1>6, <1>7 DEF s

\* What a gate with these levels admitted on its evidence the replay lets through, though
\* it reads step 0 as none and counts hypotheses.
THEOREM ReplayAgreesOnAdmission ==
  ASSUME LevelsOnlyObject
  PROVE  Spec => []ReplayUpholdsAdmission
<1>1. ReplayInv => ReplayUpholdsAdmission
  <2>. SUFFICES ASSUME ReplayInv, LevelsEnforced, submissions # <<>>, WouldBlock  PROVE FALSE
    BY DEF ReplayUpholdsAdmission
  <2>. DEFINE s == submissions[Len(submissions)]
              mine == MineUpTo(s.value, s.step)
  <2>1. PICK v \in Range(ledger) : AsRead(v) \in mine /\ Satisfies(AsRead(v))
    BY AuditedEntryIsRead
  <2>2. mine \subseteq EntriesRead /\ mine # {}
    BY <2>1 DEF MineUpTo
  <2>3. Satisfies(Reconsidered(mine))
    BY <2>1, <2>2, ReconsideredIsMine DEF ReplayInv
  <2>4. Subject.value = s.value /\ Subject.step = s.step
    BY DEF Subject
  <2>. QED  BY <2>3, <2>4 DEF WouldBlock
<1>. QED
  BY <1>1, ReplayInvHolds, PTL

\* When the shadow table holds a level against an admitted submission, the entry it looked
\* at is older than the one the gate admitted on.
THEOREM ShadowLooksAtTheFirst ==
  ASSUME LevelsOnlyObject
  PROVE  Spec => []ShadowDisagreesOnlyOnRepair
<1>1. ReplayInv => ShadowDisagreesOnlyOnRepair
  <2>. SUFFICES ASSUME ReplayInv, LevelsEnforced, ShadowBlocks
                PROVE  \E s \in Range(submissions) : ShadowEntry(s.value).step < s.entry
    BY DEF ShadowDisagreesOnlyOnRepair
  <2>. DEFINE s == submissions[Len(submissions)]
  <2>1. submissions # <<>>
    BY DEF ShadowBlocks, Range
  <2>2. Range(submissions) = {s}
    BY <2>1, AuditedEntryIsRead
  <2>3. PICK v \in Range(ledger) : /\ v.step = s.entry /\ v.candidate = s.value
                                   /\ Satisfies(AsRead(v))
    BY <2>1, AuditedEntryIsRead
  <2>4. ~Satisfies(ShadowEntry(s.value))
    BY <2>2 DEF ShadowBlocks
  <2>6. /\ AsRead(v) \in EntriesRead /\ AsRead(v).candidate = s.value
        /\ AsRead(v).step = s.entry /\ v.step \in Int
    BY <2>3, AsReadFields DEF ReplayInv
  <2>5. /\ ShadowEntry(s.value) \in EntriesRead
        /\ \A w \in EntriesRead : w.candidate = s.value => ShadowEntry(s.value).step <= w.step
    BY <2>6, FirstEntryExists DEF ReplayInv
  <2>7. PICK w \in Range(ledger) : /\ ShadowEntry(s.value) = AsRead(w)
                                   /\ ShadowEntry(s.value).step = w.step /\ w.step \in Int
    BY <2>5, ReadType DEF ReplayInv, Entry
  <2>8. w # v
    BY <2>3, <2>4, <2>7
  <2>9. w.step # v.step
    BY <2>8 DEF ReplayInv
  <2>10. w.step <= s.entry
    BY <2>5, <2>6, <2>7
  <2>11. ShadowEntry(s.value).step < s.entry
    BY <2>3, <2>6, <2>7, <2>9, <2>10
  <2>. QED  BY <2>2, <2>11
<1>. QED
  BY <1>1, ReplayInvHolds, PTL

-----------------------------------------------------------------------------
(* Blocks *)

\* What a block on a level says of the entries there were: some are well formed, and
\* none of those passes.
Objected(b) ==
  b.code \in LevelCodes =>
    /\ \E v \in Range(ledger) : v.candidate = b.value /\ WellFormed(v) /\ v.step < b.step
    /\ \A v \in Range(ledger) :
         v.candidate = b.value /\ WellFormed(v) /\ v.step < b.step => ~PassesLevels(v)

BlocksInv ==
  \A b \in Range(blocked) :
    /\ b.step \in 0 .. Len(steps) - 1
    /\ \A v \in Range(ledger) : v.step # b.step
    /\ Objected(b)

\* The gate's own words for it.
LEMMA LevelObjection ==
  ASSUME GateInv, NEW c \in Values, ~Allowed(c), Decision(c) \in LevelCodes
  PROVE  /\ \E v \in Range(ledger) : v.candidate = c /\ WellFormed(v)
         /\ \A v \in Range(ledger) : v.candidate = c /\ WellFormed(v) => ~PassesLevels(v)
<1>1. Good(c) # {} /\ RequireLedger /\ c # Empty /\ ~(RequireDerivation /\ Provenance(c) = "lifted")
  BY DEF Decision, LedgerDecision, LevelCodes
<1>2. ~Admissible(c)
  BY MeritFact DEF MeritDecides
<1>. QED
  BY <1>1, <1>2 DEF Admissible, Good, Mine

\* What was objected stays said: later entries are not before the block.
LEMMA ObjectedStays ==
  ASSUME GateInv, StepRecorded, NEW b, b.step \in 0 .. Len(steps) - 1, Objected(b)
  PROVE  /\ b.step \in 0 .. Len(steps') - 1
         /\ Objected(b)'
         /\ (\A v \in Range(ledger) : v.step # b.step) => \A v \in Range(ledger') : v.step # b.step
<1>1. Len(steps) \in Nat /\ Len(steps') = Len(steps) + 1
  <2>1. PICK st \in Step : steps' = Append(steps, st)
    BY DEF StepRecorded
  <2>. QED  BY <2>1, AppendProperties DEF GateInv, TypeOK
<1>2. \A v \in Range(ledger') : v \in Range(ledger) \/ v.step = Len(steps)
  <2>1. ASSUME NEW e \in Entry, e.step = Len(steps), ledger' = Append(ledger, e)
        PROVE  \A v \in Range(ledger') : v \in Range(ledger) \/ v.step = Len(steps)
    BY <2>1, RangeOfAppend DEF GateInv, TypeOK
  <2>. QED  BY <2>1 DEF StepRecorded
<1>3. \A v \in Range(ledger) : /\ WellFormed(v)' <=> WellFormed(v)
                               /\ WellFormed(v) => (PassesLevels(v)' <=> PassesLevels(v))
                               /\ v \in Range(ledger')
  BY EntryStable
<1>4. \A v \in Range(ledger') : v.step < b.step => v \in Range(ledger)
  BY <1>1, <1>2
<1>5. Objected(b)'
  <2>. SUFFICES ASSUME b.code \in LevelCodes
                PROVE  /\ \E v \in Range(ledger') : v.candidate = b.value /\ WellFormed(v)' /\ v.step < b.step
                       /\ \A v \in Range(ledger') :
                            v.candidate = b.value /\ WellFormed(v)' /\ v.step < b.step => ~PassesLevels(v)'
    BY DEF Objected
  <2>1. PICK v \in Range(ledger) : v.candidate = b.value /\ WellFormed(v) /\ v.step < b.step
    BY DEF Objected
  <2>2. v \in Range(ledger') /\ WellFormed(v)'
    BY <1>3, <2>1
  <2>3. ASSUME NEW w \in Range(ledger'), w.candidate = b.value, WellFormed(w)', w.step < b.step
        PROVE  ~PassesLevels(w)'
    <3>1. w \in Range(ledger)
      BY <1>4, <2>3
    <3>2. WellFormed(w) /\ ~PassesLevels(w)
      BY <1>3, <2>3, <3>1 DEF Objected
    <3>. QED  BY <1>3, <3>1, <3>2
  <2>. QED  BY <2>1, <2>2, <2>3
<1>. QED
  BY <1>1, <1>2, <1>5

LEMMA BlocksStep ==
  ASSUME GateInv, Dispatch, BlocksInv
  PROVE  BlocksInv'
<1>1. ASSUME NEW b \in Range(blocked)
      PROVE  /\ b.step \in 0 .. Len(steps') - 1
             /\ \A v \in Range(ledger') : v.step # b.step
             /\ Objected(b)'
  BY StepAppended, ObjectedStays DEF BlocksInv
<1>2. CASE blocked' = blocked
  BY <1>1, <1>2 DEF BlocksInv
<1>3. ASSUME NEW c \in Values, BlockSubmission(c)  PROVE BlocksInv'
  <2>0. PICK n : n = [step |-> Len(steps), value |-> c, code |-> Decision(c)]
    OBVIOUS
  <2>1. n \in Block /\ n.step = Len(steps) /\ n.value = c /\ n.code = Decision(c)
    BY <1>3, <2>0, DecisionType DEF BlockSubmission, Block, GateInv, TypeOK
  <2>2. blocked' = Append(blocked, n) /\ ledger' = ledger /\ ~Allowed(c)
    BY <1>3, <2>0 DEF BlockSubmission, StepIdx
  <2>3. Range(blocked') = Range(blocked) \cup {n}
    BY <2>1, <2>2, RangeOfAppend DEF GateInv, TypeOK
  <2>4. Len(steps) \in Nat /\ Len(steps') = Len(steps) + 1
    <3>1. PICK st \in Step : steps' = Append(steps, st)
      BY StepAppended DEF StepRecorded
    <3>. QED  BY <3>1, AppendProperties DEF GateInv, TypeOK
  <2>5. \A v \in Range(ledger) : v.step < Len(steps) /\ v.step # Len(steps)
    BY <2>4 DEF GateInv, LedgerInPast
  <2>6. \A v \in Range(ledger) : /\ WellFormed(v)' <=> WellFormed(v)
                                 /\ WellFormed(v) => (PassesLevels(v)' <=> PassesLevels(v))
    BY StepAppended, EntryStable
  <2>7. Objected(n)'
    <3>. SUFFICES ASSUME Decision(c) \in LevelCodes
                  PROVE  /\ \E v \in Range(ledger) : v.candidate = c /\ WellFormed(v)' /\ v.step < Len(steps)
                         /\ \A v \in Range(ledger) :
                              v.candidate = c /\ WellFormed(v)' => ~PassesLevels(v)'
      BY <2>1, <2>2 DEF Objected
    <3>1. /\ \E v \in Range(ledger) : v.candidate = c /\ WellFormed(v)
          /\ \A v \in Range(ledger) : v.candidate = c /\ WellFormed(v) => ~PassesLevels(v)
      BY <2>2, LevelObjection
    <3>. QED  BY <2>5, <2>6, <3>1
  <2>. QED  BY <1>1, <2>1, <2>2, <2>3, <2>4, <2>5, <2>7 DEF BlocksInv
<1>. QED
  BY <1>2, <1>3
  DEF Dispatch, Analyse, RecordHypothesis, RecordValidation, AdmitSubmission, RecordSubmission

LEMMA BlocksInvHolds == Spec => []BlocksInv
<1>1. Init => BlocksInv
  BY DEF Init, BlocksInv, Range
<1>2. GateInv /\ BlocksInv /\ [Next]_gateVars => BlocksInv'
  <2>. SUFFICES ASSUME GateInv, BlocksInv, [Next]_gateVars  PROVE BlocksInv'
    OBVIOUS
  <2>1. CASE UNCHANGED gateVars
    <3>1. \A i : SeenAt(i)' = SeenAt(i)
      BY <2>1 DEF gateVars, SeenAt
    <3>2. \A v : View(v)' = View(v)
      BY <2>1, <3>1 DEF gateVars, View
    <3>3. \A v : (WellFormed(v)' <=> WellFormed(v)) /\ (PassesLevels(v)' <=> PassesLevels(v))
      BY <2>1, <3>1, <3>2
      DEF gateVars, WellFormed, PassesLevels, ConsumerMissing, GuardMissing, CountedReasoning
    <3>. QED  BY <2>1, <3>3 DEF gateVars, BlocksInv, Objected
  <2>. QED  BY <2>1, BlocksStep DEF Next
<1>. QED
  BY <1>1, <1>2, GateInvariant, PTL DEF Spec

\* A block the replay lifts is lifted on an entry from before that block which the two
\* rules judge differently, whatever the levels compute.
THEOREM LiftsHaveAReason == Spec => []LiftedForAReason
<1>1. GateInv /\ BlocksInv => LiftedForAReason
  <2>. SUFFICES ASSUME GateInv, BlocksInv, LevelsEnforced, submissions = <<>>, blocked # <<>>,
                       blocked[1].code \in LevelCodes, ~WouldBlock
                PROVE  \E v \in Range(ledger) :
                         /\ v.candidate = blocked[1].value /\ v.step < blocked[1].step
                         /\ JudgedDifferently(v) /\ Satisfies(AsRead(v))
    BY DEF LiftedForAReason
  <2>. DEFINE b == blocked[1]
              mine == MineUpTo(b.value, b.step)
  <2>1. b \in Range(blocked) /\ b \in Block
    <3>1. 1 \in DOMAIN blocked
      BY LenProperties DEF GateInv, TypeOK
    <3>. QED  BY <3>1, RangeType DEF Range, GateInv, TypeOK
  <2>2. /\ Subject.value = b.value /\ Subject.step = b.step /\ HasCandidate
    BY DEF Subject, HasCandidate
  <2>. HIDE DEF b
  <2>3. PICK v \in Range(ledger) : v.candidate = b.value /\ WellFormed(v) /\ v.step < b.step
    BY <2>1 DEF BlocksInv, Objected, b
  <2>4. AsRead(v) \in mine
    <3>1. /\ AsRead(v) \in EntriesRead /\ AsRead(v).step = v.step /\ v.step \in Int
          /\ AsRead(v).candidate = v.candidate /\ AsRead(v).source = ReadBack(v.source)
          /\ v.source \in Int /\ v.step \in Nat
      BY AsReadFields DEF Entry
    <3>2. v.source < v.step /\ b.step \in Int
      BY <2>1, <2>3 DEF WellFormed, Block
    <3>3. ReadBack(v.source) < v.step
      BY <3>1, <3>2 DEF ReadBack
    <3>. QED  BY <2>3, <3>1, <3>2, <3>3 DEF MineUpTo
  <2>5. mine \subseteq EntriesRead /\ mine # {}
    BY <2>4 DEF MineUpTo
  <2>6. Satisfies(Reconsidered(mine)) /\ Reconsidered(mine) \in mine
    BY <2>2, <2>5, ReconsideredIsMine DEF WouldBlock
  <2>7. PICK w \in Range(ledger) : Reconsidered(mine) = AsRead(w)
    BY <2>6 DEF MineUpTo, EntriesRead
  <2>8. /\ w.candidate = b.value /\ w.step <= b.step /\ w.step \in Nat /\ w.source \in Int
        /\ w.source # 0 => AsRead(w) = w
        /\ b.step \in Nat
    BY <2>1, <2>6, <2>7, AsReadFields DEF MineUpTo, Block
  <2>9. w.step < b.step
    <3>1. w.step # b.step
      BY <2>1 DEF BlocksInv
    <3>. QED  BY <2>8, <3>1
  <2>10. JudgedDifferently(w)
    <3>. SUFFICES ASSUME WellFormed(w), ReasoningBefore(w) = {}, w.source # 0  PROVE FALSE
      BY DEF JudgedDifferently
    <3>1. Satisfies(w)
      BY <2>6, <2>7, <2>8
    <3>2. PassesLevels(w)
      BY <3>1 DEF Satisfies, Terminal, Reachable, PassesLevels, ConsumerMissing, GuardMissing,
                  CountedReasoning
    <3>. QED  BY <2>1, <2>8, <2>9, <3>2 DEF BlocksInv, Objected, b
  <2>. QED  BY <2>6, <2>7, <2>8, <2>9, <2>10 DEF b
<1>. QED
  BY <1>1, GateInvariant, BlocksInvHolds, PTL
=============================================================================
