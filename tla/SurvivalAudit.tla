--------------------------- MODULE SurvivalAudit ----------------------------
(***************************************************************************)
(* The compiler-survival audit of the task pool                            *)
(* (harness/tasks/synthetic/audit_compiler_survival.py): whether the       *)
(* comparison with the decoy is still there in the machine code.           *)
(*                                                                         *)
(* The code of a binary is the sequence of its instructions, routine after *)
(* routine in the order of their addresses:                                *)
(*   [fn, op, ref]                                                         *)
(* where op is "jcc" for a conditional jump, and ref says what a rip-      *)
(* relative operand points at: "decoy" the string itself, "slot" a pointer *)
(* in .data that holds its address, "" anything else.                      *)
(***************************************************************************)
EXTENDS Integers, Sequences

CONSTANT Lookahead   \* rows after a decoy reference that are searched for a jump: 14

ASSUME AuditAssumption == Lookahead \in Nat \ {0}

Jccs(rows) == {i \in DOMAIN rows : rows[i].op = "jcc"}

\* Slip: the pointers of .data are not followed.
PointsAtDecoyDirectly(row) == row.ref = "decoy"

PointsAtDecoy(row) == row.ref \in {"decoy", "slot"}

\* The last row cannot be resolved: its operand is relative to the next instruction.
DecoyRefs(rows) == {i \in 1 .. Len(rows) - 1 : PointsAtDecoy(rows[i])}

\* Some conditional jump follows a reference within the window, in whatever routine.
Routed(rows) ==
  \E i \in DecoyRefs(rows), j \in Jccs(rows) : i <= j /\ j < i + Lookahead

\* Some conditional jump of the same routine comes before a reference.
GuardedRef(rows) ==
  \E i \in DecoyRefs(rows), j \in Jccs(rows) : j < i /\ rows[j].fn = rows[i].fn

\* `resolvable`: the decoy the manifest declares is a string of .rodata.
AuditTC(rows, resolvable) ==
  IF Jccs(rows) = {} THEN "lost"
  ELSE IF ~resolvable THEN "undecided"
  ELSE IF DecoyRefs(rows) = {} THEN "lost"
  ELSE IF Routed(rows) THEN "confirmed" ELSE "undecided"

\* Slip: a decoy that no instruction refers to is left for a reader to look into.
AuditTEUnreferenced(rows, resolvable) ==
  IF Jccs(rows) = {} THEN "lost"
  ELSE IF ~resolvable \/ DecoyRefs(rows) = {} THEN "undecided"
  ELSE IF GuardedRef(rows) THEN "confirmed" ELSE "lost"

AuditTE(rows, resolvable) ==
  IF Jccs(rows) = {} THEN "lost"
  ELSE IF ~resolvable THEN "undecided"
  ELSE IF DecoyRefs(rows) = {} THEN "lost"
  ELSE IF GuardedRef(rows) THEN "confirmed" ELSE "lost"

Audit(class, rows, resolvable) ==
  IF rows = <<>> THEN "lost"
  ELSE IF class = "T-C" THEN AuditTC(rows, resolvable) ELSE AuditTE(rows, resolvable)
=============================================================================
