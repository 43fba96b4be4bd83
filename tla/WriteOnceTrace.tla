--------------------------- MODULE WriteOnceTrace ---------------------------
(***************************************************************************)
(* What the readers of the file of one attempt may rely on, at whatever    *)
(* time they look: once it is there it stays; what is in it is a beginning *)
(* of the trace of one run, and what was there stays there.  They may not  *)
(* rely on its being whole: it may be empty, or end after any line, for    *)
(* good, and a reader that counts every file with a meta line counts it.   *)
(***************************************************************************)
EXTENDS Naturals, Sequences

CONSTANTS Runners, Lines

VARIABLES
  there,   \* there is such a file
  found    \* its lines, each by the runner that wrote it

file == <<there, found>>

Init == there = FALSE /\ found = <<>>

Create == ~there /\ there' = TRUE /\ UNCHANGED found

\* The meta line, by any one.
Begin == there /\ found = <<>> /\ \E r \in Runners : found' = <<r>> /\ UNCHANGED there

\* A step line, by whoever wrote the meta line.
Continue ==
  /\ found # <<>> /\ Len(found) < Lines
  /\ found' = Append(found, found[1])
  /\ UNCHANGED there

Next == Create \/ Begin \/ Continue

Spec == Init /\ [][Next]_file
=============================================================================
