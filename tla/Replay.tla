------------------------------- MODULE Replay -------------------------------
(***************************************************************************)
(* The two offline readers of finished traces that judge the entries of a  *)
(* candidate again: harness/analysis/reeval_levels.py, which asks whether  *)
(* the gate as it is now would still block, and harness/analysis/          *)
(* shadow_replay.py, which tabulates the levels.                           *)
(*                                                                         *)
(* They keep no state of their own: each reads a trace back and computes.  *)
(* They are operators here, over the state that the trace is written from. *)
(* The gate's own rules are in SubmissionGate; what these two do instead   *)
(* of them is translated from their own code, which imports the level      *)
(* checks but neither the search for an entry nor its well-formedness.     *)
(***************************************************************************)
EXTENDS SubmissionGate

\* load: a cited step is read back with `or -1`, so step 0 is read back as none.
ReadBack(source) == IF source = 0 THEN -1 ELSE source

AsRead(v) == [v EXCEPT !.source = ReadBack(v.source)]

EntriesRead == {AsRead(v) : v \in Range(ledger)}

HasCandidate == submissions # <<>> \/ blocked # <<>>

\* The submission that is judged again: the scored one, or else the first blocked one.
Subject ==
  LET s == IF submissions # <<>> THEN submissions[Len(submissions)] ELSE blocked[1]
  IN [value |-> s.value, step |-> s.step]

-----------------------------------------------------------------------------
(* verdicts_for *)

\* Slip: the entries of the whole trace, those after the submission too.
MineEver(c, upto) == {v \in EntriesRead : v.candidate = c /\ v.source < v.step}

\* Neither `qualifies` nor the existence of the cited step is asked for.
MineUpTo(c, upto) == {v \in EntriesRead : v.candidate = c /\ v.step <= upto /\ v.source < v.step}

\* The stand-in for the state has the attribute the live one lacks: hypotheses count.
ReasoningBefore(v) == {h.text : h \in {g \in Range(hypotheses) : g.step <= v.step}}

Terminal(v) == ConsumerObserved(v.text, SeenAt(v.source), View(v))
Reachable(v) == GuardsAccounted(v.text, ReasoningBefore(v), View(v))
Satisfies(v) == Terminal(v) /\ Reachable(v)

\* Slip: only the newest entry is looked at.
ReconsideredNewest(mine) == Newest(mine)

\* The newest entry that satisfies both levels, or else the newest.
Reconsidered(mine) ==
  IF \E v \in mine : Satisfies(v)
  THEN Newest({v \in mine : Satisfies(v)}) ELSE Newest(mine)

\* would_block: a submission without any entry is counted as let through.
WouldBlock ==
  /\ HasCandidate
  /\ LET mine == MineUpTo(Subject.value, Subject.step)
     IN mine # {} /\ ~Satisfies(Reconsidered(mine))

-----------------------------------------------------------------------------
(* shadow_replay *)

\* Slip: the newest entry of the candidate.
ShadowEntryNewest(c) == Newest({v \in EntriesRead : v.candidate = c})

\* The FIRST entry of the candidate, whatever was written after it.
ShadowEntry(c) ==
  CHOOSE v \in EntriesRead :
     /\ v.candidate = c
     /\ \A w \in EntriesRead : w.candidate = c => v.step <= w.step

ShadowBlocks ==
  \E s \in Range(submissions) :
     /\ \E v \in EntriesRead : v.candidate = s.value
     /\ ~Satisfies(ShadowEntry(s.value))

-----------------------------------------------------------------------------
(* Properties *)

LevelsEnforced == RequireLedger /\ RequireTerminality /\ RequireReachability

\* What the gate admitted on its evidence, the replay would let through as well, even
\* though it reads step 0 as none and counts what the agent had hypothesised: it is
\* never the replay that turns a recorded admission into a block (reeval_levels.py,
\* "would the FIXED gate still block?").
ReplayUpholdsAdmission ==
  LevelsEnforced /\ submissions # <<>> => ~WouldBlock

\* An entry the gate would not have judged as the replay did: it is not well formed, a
\* hypothesis was counted with it, or it cites step 0.
JudgedDifferently(v) == ~WellFormed(v) \/ ReasoningBefore(v) # {} \/ v.source = 0

\* A block the replay lifts, for a candidate that had a well-formed entry, is lifted on
\* an entry written before that block which the gate was not to judge that way.  So
\* the number of lifted blocks counts differences between the two rules, never
\* evidence that came too late (reeval_levels.py, the count of `would allow`).
LiftedForAReason ==
  LevelsEnforced /\ submissions = <<>> /\ blocked # <<>> /\ blocked[1].code \in LevelCodes /\ ~WouldBlock
     => \E v \in Range(ledger) :
          /\ v.candidate = blocked[1].value
          /\ v.step < blocked[1].step
          /\ JudgedDifferently(v) /\ Satisfies(AsRead(v))

\* The shadow table may hold a level against a submission which the gate admitted on a
\* later entry; then the entry the audit names is not the first one of the candidate.
ShadowDisagreesOnlyOnRepair ==
  LevelsEnforced /\ ShadowBlocks => \E s \in Range(submissions) : ShadowEntry(s.value).step < s.entry
=============================================================================
