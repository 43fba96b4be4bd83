----------------------------- MODULE MCTaskPool -----------------------------
(***************************************************************************)
(* Instances of TaskPool for TLC: pools of one or two directories, strings *)
(* of eight and nine bytes, an unsigned long of 15 bits.                   *)
(***************************************************************************)
EXTENDS TaskPool, Bitwise

Nibbles == 0 .. 15
NibbleXor == [a \in Nibbles, b \in Nibbles |-> a ^^ b]
MCXor(a, b) == 16 * NibbleXor[a \div 16, b \div 16] + NibbleXor[a % 16, b % 16]
Swapped == [b \in Bytes |-> 255 - b]

F1 == <<70, 1, 65, 2, 127, 3, 66, 125>>
F2 == <<70, 1, 65, 2, 127, 3, 67, 125>>
F3 == <<70, 1, 65, 2, 127, 3, 66, 125, 9>>
F4 == <<70, 1, 65, 2, 126, 3, 66, 125>>
MCFlags(layout) ==
  CASE layout = "opaque" -> {F1, F2, F4}
    [] layout \in {"named", "polarity"} -> {F1, F2}
    [] OTHER -> {F1, F2, F3}

Repeated(c, n) == [i \in 1 .. n |-> c]
Changed(f) == {[f EXCEPT ![i] = c] : i \in {1, 5, 8}, c \in {1, 255}}
MCInputs == {F1, F2, F3, F4} \cup Changed(F1) \cup {SubSeq(F1, 1, 7)}
              \cup {Repeated(127, n) : n \in {0, 7, 8, 35, 41}}

MCPools == {<<"named", "polarity">>, <<"opaque">>}
             \cup {<<l>> : l \in LocalApproval \cup DeadBranch}

MCKind(layout) ==
  IF layout \in {"C1", "C4", "E1", "E4"} THEN "xor"
  ELSE IF layout \in {"C2", "C5", "E2", "E5"} THEN "arith" ELSE "table"

\* What the compiler may leave: all of it, the checker inlined, the checker far from any
\* jump, no comparison with the decoy, or not even the decoy as a string.
MCCompiled(layout) ==
  CASE layout = "named" -> {"kept", "inlined", "spread"}
    [] layout = "polarity" -> {"kept", "folded"}
    [] layout = "opaque" -> {"kept", "folded", "dissolved"}
    [] OTHER -> {"kept"}

R(fn, op, ref) == [fn |-> fn, op |-> op, ref |-> ref]

GateRows == <<R("gate", "other", ""), R("gate", "jcc", ""), R("gate", "other", "")>>
Decision == <<R("main", "call", ""), R("main", "jcc", ""), R("main", "other", "")>>

Unstripped(layout, outcome) ==
  LET ref == IF layout \in Replicated THEN "slot" ELSE "decoy"
      compare(fn) == <<R(fn, "mov", ref), R(fn, "call", "")>>
  IN IF outcome \in {"folded", "dissolved"} THEN Decision \o GateRows
     ELSE CASE layout \in DeadBranch \cup {"opaque"} ->
                 <<R("main", "other", ""), R("main", "jcc", "")>> \o compare("main")
                    \o <<R("main", "jcc", "")>> \o Decision \o GateRows
            [] layout \in {"polarity", "C6"} ->
                 compare("main") \o <<R("main", "jcc", "")>> \o Decision \o GateRows
            [] OTHER ->
                 (IF outcome = "inlined" THEN compare("main") ELSE <<>>) \o Decision
                    \o compare("bait")
                    \o Repeated(R("bait", "other", ""), IF outcome = "spread" THEN 14 ELSE 1)
                    \o GateRows

\* A stripped binary is disassembled as one routine.
OneFrame(rows) == [i \in DOMAIN rows |-> [rows[i] EXCEPT !.fn = ".text"]]

MCRows(layout, outcome) ==
  LET rows == Unstripped(layout, outcome)
  IN IF layout = "opaque" THEN OneFrame(rows) ELSE rows
=============================================================================
