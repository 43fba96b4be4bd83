-------------------------- MODULE MCGuardDialogue ---------------------------
(***************************************************************************)
(* Instances of GuardDialogue for TLC.                                     *)
(***************************************************************************)
EXTENDS GuardDialogue

SameName(n) == n

Plain == [op |-> "plain", target |-> NoTarget]
End == [op |-> "end", target |-> NoTarget]
Jcc(t) == [op |-> "jcc", target |-> t]
Jmp(t) == [op |-> "jmp", target |-> t]

\* Routines of six instructions: sequences of branches, arms and joins, loops, early
\* exits, dead code and jumps nobody knows the target of, in all combinations.
MCPrograms ==
  {<<a, b, c, d, e, f>> :
     a \in {Plain, Jcc(3), Jcc(5), Jmp(3)},
     b \in {Plain, Jcc(4), Jcc(7)},
     c \in {Plain, Jcc(1), Jcc(7), Jcc(NoTarget)},
     d \in {Plain, Jcc(6), Jmp(6), End},
     e \in {Plain, Jcc(2), Jmp(NoTarget), End},
     f \in {Plain, Jcc(3)}}
=============================================================================
