----------------------------- MODULE OracleRun ------------------------------
(***************************************************************************)
(* BinaryOracle.check (harness/agent/submit.py): the target is run once on *)
(* the candidate by _run_capped and its output is adjudicated by the       *)
(* task's markers (harness/agent/adjudicate.py).  What the target prints   *)
(* and how it ends is open; the verdict is read off the call's result.     *)
(***************************************************************************)
EXTENDS CappedRun, Functions

CONSTANT Tasks   \* how a task can be scored: [success, fail : BOOLEAN, flag : ...]

ASSUME OracleAssumption ==
  /\ Tasks \subseteq [success : BOOLEAN, fail : BOOLEAN, flag : {"none", "same", "other"}]
  /\ {"success", "fail"} \subseteq Units

\* A line of the output as the harness got it, on either stream.
Reported(line) == \E k \in Streams : \E i \in 1 .. kept[k] : written[k][i] = line

\* The markers of the task; the success marker needs a good exit status as well.
Adjudicate(task) ==
  IF task.fail /\ Reported("fail") THEN "rejected"
  ELSE IF task.success /\ code = "zero" /\ Reported("success") THEN "accepted"
  ELSE "inconclusive"

\* Slip: the time-out is not looked at.
CheckUntimed(task) == Adjudicate(task) = "accepted" \/ (~task.success /\ task.flag = "same")

\* BinaryOracle.check; the held flag counts only for a task without a success marker.
Check(task) ==
  /\ ~timedOut
  /\ Adjudicate(task) = "accepted" \/ (~task.success /\ task.flag = "same")

Accepted(task) == main = "returned" /\ Check(task)

-----------------------------------------------------------------------------
(* Properties *)

Printed(line) == \E k \in Streams : line \in Range(written[k])

\* A target is taken to have accepted only if it came to its own good end in time and
\* printed the success line, whatever the threads that watched it were doing then; a
\* task without that line is scored by the held flag alone (submit.py, check).
AcceptedRunIsComplete ==
  \A task \in Tasks : Accepted(task) =>
     /\ ~timedOut
     /\ IF task.success THEN child = "zero" /\ Printed("success") ELSE task.flag = "same"
=============================================================================
