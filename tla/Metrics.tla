------------------------------- MODULE Metrics --------------------------------
(***************************************************************************)
(* What the two scripts that read finished traces count of one attempt:    *)
(* harness/analysis/compute_metrics.py (per_trace, which reads every step) *)
(* and analysis/recompute_all.py (rate_block, paired and gate_blocks,      *)
(* which read the meta line and, in arm A2, the steps).                    *)
(*                                                                         *)
(* A trace holds what the attempt's state held when it was written, so the *)
(* counts are operators over the state of AgentLoop; a step line carries   *)
(* the submission or the block that was recorded with its number.          *)
(***************************************************************************)
EXTENDS AgentLoop

-----------------------------------------------------------------------------
(* compute_metrics.py, per_trace *)

\* The step lines that carry a blocked submission.
BlockEvents == {i \in DOMAIN steps : \E b \in Range(blocked) : b.step = i - 1}

\* `solved`: by the meta line or by any submission.
SolvedByMetrics == reason = "solved" \/ \E s \in Range(submissions) : s.accepted

\* Some entry of the trace backs the value, whenever it was written.
Backed(value) == \E v \in Range(ledger) : v.candidate = value /\ v.qualifies

\* The share of scored submissions that are backed is 1; there is none without any.
LedgerComplete == \A s \in Range(submissions) : Backed(s.value)

\* What the output of run_binary shows of a run that the target accepted.
AcceptingRun(value) == <<"accepted", value>>

\* An accepting step of run_binary on the value before the given step.  ToolRegistry offers
\* no arm such a tool (Tools), so that the traces of this harness hold no such step.
AcceptedRunBefore(value, step) ==
  \E i \in DOMAIN steps :
     i - 1 < step /\ steps[i].tool = "run_binary" /\ AcceptingRun(value) \in steps[i].seen

MC2Decisions == IF arm = "A2" THEN Len(submissions) + Cardinality(BlockEvents) ELSE 0

MC2Correct ==
  IF arm # "A2" THEN 0
  ELSE Cardinality({i \in DOMAIN submissions :
                      submissions[i].accepted
                        => AcceptedRunBefore(submissions[i].value, submissions[i].step)})
       + Cardinality({i \in DOMAIN blocked : ~AcceptedRunBefore(blocked[i].value, blocked[i].step)})

-----------------------------------------------------------------------------
(* recompute_all.py *)

\* load: an attempt that failed before its first step is no outcome.
Dropped == reason = "error" /\ steps = <<>>

\* rate_block: the outcomes it prints; time-outs of the tokens and later errors are in
\* the denominator only.
Printed ==
  CASE reason = "submitted_wrong" -> "wrong"
    [] reason = "solved" -> "solved"
    [] reason \in {"max_steps", "agent_quit"} -> "no submission"
    [] OTHER -> "denominator only"

\* gate_blocks: the run was blocked, and its last submission is of a blocked value.
CameBack ==
  /\ arm = "A2" /\ BlockEvents # {} /\ submissions # <<>>
  /\ \E b \in Range(blocked) : b.value = submissions[Len(submissions)].value

-----------------------------------------------------------------------------
(* Properties *)

\* The two scripts count the same outcomes though one reads the steps and the other the
\* meta line: solved, wrong and the number of blocks; an attempt that is not counted at
\* all has nothing to count.
ScriptsAgree ==
  persisted =>
    /\ SolvedByMetrics <=> Printed = "solved"
    /\ (\E s \in Range(submissions) : ~s.accepted) <=> Printed = "wrong"
    /\ Cardinality(BlockEvents) = Len(blocked)      \* meta: n_blocked_submissions
    /\ Dropped => submissions = <<>> /\ blocked = <<>> /\ ledger = <<>>

\* What test_metrics.py expects of a solved attempt of arm A2: its submission is a correct
\* allow, and the rate of correct decisions is 1.
SolvedIsACorrectAllow ==
  persisted /\ arm = "A2" /\ Printed = "solved" => MC2Correct = MC2Decisions

\* In arm A2 the ledger is complete, unless the gate is told not to ask for one: whatever
\* was scored has a qualifying entry of its own, so the rate compares what the arms A0
\* and A1 do with a constant.
GatedLedgerIsComplete == persisted /\ arm = "A2" /\ RequireLedger => LedgerComplete

\* A run that is counted as one that submitted what it had been blocked on wrote an entry
\* for it after the last of those blocks: it came back with evidence, not by insisting.
CameBackWithEvidence ==
  persisted /\ CameBack =>
    LET value == submissions[Len(submissions)].value
    IN \E v \in Range(ledger) :
         v.candidate = value /\ \A b \in Range(blocked) : b.value = value => b.step < v.step
=============================================================================
