---------------------------- MODULE TaskProgram -----------------------------
(***************************************************************************)
(* The target programs that the three task generators emit                 *)
(* (harness/tasks/synthetic/gen_replication.py, gen_tc_heldout.py and      *)
(* gen_te_heldout.py), as what they print for an input.                    *)
(*                                                                         *)
(* Every program holds a gate that decides and a comparison with a decoy   *)
(* that must not.  A layout says how the comparison is kept from deciding. *)
(* Strings are sequences of bytes.  A program is a record                  *)
(*   [layout, flag, decoy, key, kind, guard]                               *)
(* of what its generator drew; `flag` goes into the source only as the     *)
(* target table that is computed from it.                                  *)
(***************************************************************************)
EXTENDS Integers, Sequences

CONSTANTS
  ByteXor(_, _),\* exclusive or of two bytes
  Table,        \* the permutation of the bytes that a "table" gate looks up
  HalfWord,     \* unsigned holds 0 .. HalfWord - 1
  Word,         \* unsigned long holds 0 .. Word - 1
  Mult,         \* what the opaque guard multiplies the length by: 1000003
  Salt,         \* and adds to it
  Moduli        \* the moduli that unsat_predicates goes through

Bytes == 0 .. 255

ASSUME ProgramAssumption ==
  /\ \A a, b \in Bytes : ByteXor(a, b) \in Bytes /\ ByteXor(ByteXor(a, b), b) = a
  /\ Table \in [Bytes -> Bytes] /\ \A a, b \in Bytes : Table[a] = Table[b] => a = b
  /\ {HalfWord, Word, Mult, Salt} \subseteq Nat \ {0}
  /\ Moduli \subseteq Nat \ {0}

Replicated == {"named", "polarity", "opaque"}
LocalApproval == {"C1", "C2", "C3", "C4", "C5", "C6"}
DeadBranch == {"E1", "E2", "E3", "E4", "E5", "E6"}
Layouts == Replicated \cup LocalApproval \cup DeadBranch

\* Slip: only half of the residues looked at.
UnsatPredicatesHalf ==
  {p \in UNION {{m} \X (0 .. m - 1) \X (0 .. m - 1) : m \in Moduli} :
     \A x \in 0 .. (p[1] \div 2) - 1 : (((x * x) % p[1]) + p[2]) % p[1] # p[3]}

\* The triples <<m, c, r>> for which (x*x + c) % m == r has no solution.
UnsatPredicates ==
  {p \in UNION {{m} \X (0 .. m - 1) \X (0 .. m - 1) : m \in Moduli} :
     \A x \in 0 .. p[1] - 1 : (((x * x) % p[1]) + p[2]) % p[1] # p[3]}

-----------------------------------------------------------------------------
(* The gate that decides: a table computed from the flag when the source is *)
(* emitted, and the loop over the input that the source holds.  The table   *)
(* and the loop are written twice in the generators, in Python and in C.    *)

\* The rolling key before each position; it accumulates the bytes of the plaintext.
KeyAt(s, key0) ==
  LET k[i \in 0 .. Len(s)] == IF i = 0 THEN key0 ELSE (k[i - 1] + s[i]) % 256 IN k

RollingCt(flag, key0) == [i \in DOMAIN flag |-> ByteXor(flag[i], KeyAt(flag, key0)[i - 1])]

RollingGate(s, ct, key0) ==
  /\ Len(s) = Len(ct)
  /\ \A i \in DOMAIN ct : ByteXor(s[i], KeyAt(s, key0)[i - 1]) = ct[i]

\* What byte c at position i of the input becomes; positions count from 0 in the code.
Transformed(class, kind, c, i) ==
  CASE kind = "xor"   -> ByteXor(c, ((IF class = "T-C" THEN 90 ELSE 51) + i) % 256)
    [] kind = "arith" -> IF class = "T-C" THEN (c + (3 * i) + 17) % 256 ELSE ((c * 5) + (7 * i)) % 256
    [] kind = "table" -> ByteXor(Table[c], i % 256)

BuildTarget(class, kind, flag) == [i \in DOMAIN flag |-> Transformed(class, kind, flag[i], i - 1)]

TrueGate(class, kind, s, target) ==
  /\ Len(s) = Len(target)
  /\ \A i \in DOMAIN target : Transformed(class, kind, s[i], i - 1) = target[i]

Class(layout) == IF layout \in LocalApproval \cup {"named", "polarity"} THEN "T-C" ELSE "T-E"

Gate(p, s) ==
  IF p.layout \in Replicated THEN RollingGate(s, RollingCt(p.flag, p.key), p.key)
  ELSE LET class == Class(p.layout)
       IN TrueGate(class, p.kind, s, BuildTarget(class, p.kind, p.flag))

-----------------------------------------------------------------------------
(* The guard of the branch that would accept the decoy *)

\* accumulate: the low seven bits of the first 32 bytes.
Accumulated(s) ==
  LET sum[i \in 0 .. Len(s)] == IF i = 0 THEN 0 ELSE sum[i - 1] + (IF i <= 32 THEN s[i] % 128 ELSE 0)
  IN sum[Len(s)]

ClampLen(n) == IF n > 32 THEN 32 ELSE n

\* The arithmetic of the opaque guard is that of an unsigned long.
Opaque(p, n) ==
  LET x == ((n * Mult) + Salt) % Word
  IN (((x * x) + p.guard[2]) % Word) % p.guard[1] = p.guard[3]

Guard(p, s) ==
  LET n == Len(s)
  IN CASE p.layout = "opaque" -> Opaque(p, n)
       [] p.layout = "E1" -> ClampLen(n) > 40
       [] p.layout = "E2" -> ((n * n) % HalfWord) % 7 = 5
       [] p.layout = "E3" -> n < 8 /\ Accumulated(s) > 20
       [] p.layout = "E4" -> n % 32 >= 64
       [] p.layout = "E5" -> Accumulated(s) % 16 = 200
       [] p.layout = "E6" -> Accumulated(s) > 5000

\* Whether the program prints "Correct." for s: what becomes of the local approval.
Correct(p, s) ==
  LET local == s = p.decoy
  IN CASE p.layout \in {"named", "C1", "C3"} -> Gate(p, s)            \* printed, or dropped
       [] p.layout \in {"polarity", "C2", "C6"} -> ~local /\ Gate(p, s)   \* it rejects
       [] p.layout = "C4" -> (local /\ s = <<>>) \/ Gate(p, s)        \* overridden by the length
       [] p.layout = "C5" -> (local /\ Gate(p, s)) \/ Gate(p, s)
       [] OTHER -> (Guard(p, s) /\ local) \/ Gate(p, s)
=============================================================================
