----------------------------- MODULE TraceStore -----------------------------
(***************************************************************************)
(* The file of one attempt, trace.jsonl, and the runners that may be after *)
(* it at the same time: processes of run_pilot.py started with the same    *)
(* task, arm and attempt.  A runner reserves the path before the attempt   *)
(* and writes the trace over its reservation after it (harness/agent/      *)
(* loop.py, state.py); it may be killed at any point.                      *)
(*                                                                         *)
(* A path names a file, a file has contents: unlinking takes the name away *)
(* and leaves a runner that has the file open writing into nothing.        *)
(***************************************************************************)
EXTENDS Integers, Sequences, FiniteSets

CONSTANTS
  Runners,
  Overwriting,   \* the runners started with --overwrite
  Nobody,
  Lines          \* lines of a trace: the meta line and one for each step

ASSUME StoreAssumption ==
  /\ Overwriting \subseteq Runners
  /\ Nobody \notin Runners
  /\ Lines \in Nat \ {0}

VARIABLES
  path,      \* whose file the path names: the runner that created it, or Nobody
  contents,  \* contents[f][i]: who wrote line i of f's file; Nobody for a hole
  pc,        \* where a runner is
  at,        \* lines it has written
  target     \* whose file it has open for writing

vars == <<path, contents, pc, at, target>>

-----------------------------------------------------------------------------
Where == {"start", "reserve", "attempt", "write", "done", "skipped", "killed"}

Trace(r) == [i \in 1 .. Lines |-> r]

TypeOK ==
  /\ path \in Runners \cup {Nobody}
  /\ contents \in [Runners -> Seq(Runners \cup {Nobody})]
  /\ pc \in [Runners -> Where]
  /\ at \in [Runners -> 0 .. Lines]
  /\ target \in [Runners -> Runners \cup {Nobody}]

Init ==
  /\ path = Nobody
  /\ contents = [r \in Runners |-> <<>>]
  /\ pc = [r \in Runners |-> "start"]
  /\ at = [r \in Runners |-> 0]
  /\ target = [r \in Runners |-> Nobody]

Go(r, where) == pc' = [pc EXCEPT ![r] = where]

\* Slip: the old trace removed without being asked to.
UnlinkAlways(r) ==
  /\ pc[r] = "start"
  /\ path' = Nobody
  /\ Go(r, "reserve")
  /\ UNCHANGED <<contents, at, target>>

\* With --overwrite the old trace is removed first, if there is one.
Unlink(r) ==
  /\ pc[r] = "start"
  /\ path' = IF r \in Overwriting THEN Nobody ELSE path
  /\ Go(r, "reserve")
  /\ UNCHANGED <<contents, at, target>>

\* Slip: reserving without O_EXCL.
ReserveOver(r) ==
  /\ pc[r] = "reserve"
  /\ path' = r
  /\ contents' = [contents EXCEPT ![r] = <<>>]
  /\ Go(r, "attempt")
  /\ UNCHANGED <<at, target>>

\* O_CREAT | O_EXCL: an empty file under the path, if the path was free.
Reserve(r) ==
  /\ pc[r] = "reserve"
  /\ path = Nobody
  /\ path' = r
  /\ contents' = [contents EXCEPT ![r] = <<>>]
  /\ Go(r, "attempt")
  /\ UNCHANGED <<at, target>>

\* FileExistsError: run_one prints SKIP and goes on with the next attempt.
Skip(r) ==
  /\ pc[r] = "reserve"
  /\ path # Nobody
  /\ Go(r, "skipped")
  /\ UNCHANGED <<path, contents, at, target>>

\* The attempt is over and persist opens the path for writing: whatever file it
\* names is truncated, and one is created if it names none.
OpenTrace(r) ==
  LET file == IF path = Nobody THEN r ELSE path
  IN /\ pc[r] = "attempt"
     /\ path' = file
     /\ contents' = [contents EXCEPT ![file] = <<>>]
     /\ target' = [target EXCEPT ![r] = file]
     /\ Go(r, "write")
     /\ UNCHANGED at

\* A file in which r has written at line i; if another runner has truncated the file
\* meanwhile, a hole is left before that line.
Overlay(file, i, r) ==
  [j \in 1 .. (IF i > Len(file) THEN i ELSE Len(file)) |->
     IF j = i THEN r ELSE IF j <= Len(file) THEN file[j] ELSE Nobody]

\* One more line reaches the file, at the writer's own position.
WriteLine(r) ==
  /\ pc[r] = "write"
  /\ at[r] < Lines
  /\ contents' = [contents EXCEPT ![target[r]] = Overlay(@, at[r] + 1, r)]
  /\ at' = [at EXCEPT ![r] = @ + 1]
  /\ UNCHANGED <<path, pc, target>>

CloseTrace(r) ==
  /\ pc[r] = "write"
  /\ at[r] = Lines
  /\ Go(r, "done")
  /\ UNCHANGED <<path, contents, at, target>>

\* The process is killed; a file it had open stays as far as it was written.
Kill(r) ==
  /\ pc[r] \notin {"done", "skipped", "killed"}
  /\ Go(r, "killed")
  /\ UNCHANGED <<path, contents, at, target>>

Next ==
  \E r \in Runners : \/ Unlink(r) \/ Reserve(r) \/ Skip(r) \/ OpenTrace(r)
                     \/ WriteLine(r) \/ CloseTrace(r) \/ Kill(r)

Spec == Init /\ [][Next]_vars

-----------------------------------------------------------------------------
(* Properties *)

Running(r) == pc[r] \in {"attempt", "write"}

\* What a reader of the path finds.
Found == IF path = Nobody THEN <<>> ELSE contents[path]

\* Of the runners after one attempt at most one gets to run it, so no model calls are
\* spent on a trace that another runner has written or will (loop.py:46-48).
OneRunnerPerAttempt ==
  \A r, s \in Runners : Running(r) /\ (Running(s) \/ pc[s] = "done") => r = s

\* A run that reports its trace as written leaves it written: the file stays under
\* the path, whole, whatever the runners after it do.
WrittenStays ==
  [][\A r \in Runners : pc[r] = "done" => Found = Trace(r) /\ Found' = Found]_vars

Abstract == INSTANCE WriteOnceTrace WITH there <- path # Nobody, found <- Found

\* A reader that opens the path at any moment finds nothing, or a beginning of the trace
\* of one run, and a later reader finds that and perhaps more: never less, never lines
\* of two runners, never a line missing between two others (loop.py:44-61, persist).
\* An empty or a cut trace is one of the things it may find.
ImplementsWriteOnce == Abstract!Spec
=============================================================================
