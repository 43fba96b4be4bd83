--------------------------- MODULE TaskPoolProofs ---------------------------
(***************************************************************************)
(* Proofs about TaskPool and the programs of TaskProgram, for any layouts, *)
(* flags, keys and transforms that can be drawn, and any compiled form of  *)
(* the decoy's branch.                                                     *)
(*                                                                         *)
(* Three layers.  First what the generated code computes: the rolling key  *)
(* and the accumulated sum run through a string of any length, so what     *)
(* they return is proved by induction over its positions, put as a least   *)
(* counterexample (UpTo, RecursionExists).  From it, that the real gate    *)
(* takes the flag alone and that the guard of the decoy's branch fails of  *)
(* the decoy (of other strings it need not), for every layout              *)
(* (EmittedAcceptsOnlyFlag).  Last the pool: what a directory holds was    *)
(* drawn for its layout, however often it is generated, and what the       *)
(* validator and the audit say of such a pool.                             *)
(***************************************************************************)
EXTENDS TaskPool, WellFoundedInduction, TLAPS

-----------------------------------------------------------------------------
(* Induction over data *)

\* A set of natural numbers that is not empty has a least member.
LEMMA LeastNat ==
  ASSUME NEW T, T \subseteq Nat, T # {}
  PROVE  \E m \in T : \A k \in T : m <= k
<1>1. PICK m \in T : \A k \in T : ~(<<k, m>> \in OpToRel(<, Nat))
  BY NatLessThanWellFounded, WFMin, Zenon
<1>2. ASSUME NEW k \in T  PROVE m <= k
  <2>1. ~(<<k, m>> \in OpToRel(<, Nat)) /\ k \in Nat /\ m \in Nat
    BY <1>1
  <2>. QED  BY <2>1 DEF OpToRel
<1>. QED
  BY <1>2

\* Induction over 0 .. n, for the set of the numbers that have the property.
LEMMA UpTo ==
  ASSUME NEW n \in Nat, NEW T,
         0 \in T, \A i \in 1 .. n : i - 1 \in T => i \in T
  PROVE  0 .. n \subseteq T
<1>. DEFINE M == (0 .. n) \ T
<1>. SUFFICES ASSUME M # {}  PROVE FALSE
  OBVIOUS
<1>1. PICK m \in M : \A k \in M : m <= k
  <2>1. M \subseteq Nat
    OBVIOUS
  <2>. HIDE DEF M
  <2>. QED  BY <2>1, LeastNat
<1>2. m \in 1 .. n /\ m - 1 \in 0 .. n /\ ~(m <= m - 1)
  BY <1>1
<1>. QED
  BY <1>1, <1>2

\* A function on 0 .. n that starts with b and goes on as `step` says.
Recurs(f, n, b, step) ==
  f = [i \in 0 .. n |-> IF i = 0 THEN b ELSE step[<<i, f[i - 1]>>]]

\* Every base and every step have such a function: what a recursive definition of
\* this form chooses is there to be chosen.
LEMMA RecursionExists ==
  ASSUME NEW n \in Nat, NEW V, NEW b \in V, NEW step \in [(1 .. n) \X V -> V]
  PROVE  \E f \in [0 .. n -> V] : Recurs(f, n, b, step)
<1>. DEFINE T == {m \in 0 .. n : ~\E f \in [0 .. m -> V] : Recurs(f, m, b, step)}
<1>1. T = {}
  <2>. SUFFICES ASSUME T # {}  PROVE FALSE
    OBVIOUS
  <2>1. PICK m \in T : \A k \in T : m <= k
    <3>1. T \subseteq Nat
      OBVIOUS
    <3>. HIDE DEF T
    <3>. QED  BY <3>1, LeastNat
  <2>2. m \in 0 .. n
    BY <2>1
  <2>3. CASE m = 0
    <3>. DEFINE f == [i \in 0 .. 0 |-> b]
    <3>1. f \in [0 .. 0 -> V] /\ Recurs(f, 0, b, step)
      BY DEF Recurs
    <3>. QED  BY <2>1, <2>3, <3>1
  <2>4. CASE m # 0
    <3>1. m - 1 \in 0 .. n /\ m \in 1 .. n /\ ~(m <= m - 1)
      BY <2>2, <2>4
    <3>2. PICK g \in [0 .. m - 1 -> V] : Recurs(g, m - 1, b, step)
      BY <2>1, <3>1
    <3>. DEFINE f == [i \in 0 .. m |-> IF i = m THEN step[<<m, g[m - 1]>>] ELSE g[i]]
    <3>3. g[m - 1] \in V /\ step[<<m, g[m - 1]>>] \in V
      BY <3>1, <3>2
    <3>4. f \in [0 .. m -> V]
      BY <2>2, <3>2, <3>3
    <3>5. ASSUME NEW i \in 0 .. m
          PROVE  f[i] = IF i = 0 THEN b ELSE step[<<i, f[i - 1]>>]
      <4>1. CASE i = m
        BY SMTT(30), <3>1, <4>1
      <4>2. CASE i # m
        <5>1. i \in 0 .. m - 1 /\ (i # 0 => i - 1 \in 0 .. m - 1 /\ i - 1 # m /\ i - 1 \in 0 .. m)
          BY <2>2, <4>2
        <5>2. f[i] = g[i] /\ (i # 0 => f[i - 1] = g[i - 1])
          BY <4>2, <5>1
        <5>3. g[i] = IF i = 0 THEN b ELSE step[<<i, g[i - 1]>>]
          BY <3>2, <5>1 DEF Recurs
        <5>. QED  BY <5>2, <5>3
      <4>. QED  BY <4>1, <4>2
    <3>6. Recurs(f, m, b, step)
      <4>1. f = [i \in 0 .. m |-> f[i]]
        BY Zenon
      <4>. HIDE DEF f
      <4>. QED  BY <3>5, <4>1, Zenon DEF Recurs
    <3>. HIDE DEF f
    <3>. QED  BY <2>1, <3>4, <3>6
  <2>. QED  BY <2>3, <2>4
<1>. QED
  BY <1>1

\* The rolling key is what its recursion says.
LEMMA KeyAtIs ==
  ASSUME NEW s \in Seq(Bytes), NEW key0 \in Bytes
  PROVE  /\ KeyAt(s, key0) \in [0 .. Len(s) -> Bytes]
         /\ KeyAt(s, key0)[0] = key0
         /\ \A i \in 1 .. Len(s) : KeyAt(s, key0)[i] = (KeyAt(s, key0)[i - 1] + s[i]) % 256
<1>. DEFINE n == Len(s)
            step == [p \in (1 .. n) \X Bytes |-> (p[2] + s[p[1]]) % 256]
            Is(f) == f = [i \in 0 .. n |-> IF i = 0 THEN key0 ELSE (f[i - 1] + s[i]) % 256]
<1>1. n \in Nat /\ \A i \in 1 .. n : s[i] \in Bytes
  OBVIOUS
<1>2. \A a, b \in Bytes : (a + b) % 256 \in Bytes
  BY DEF Bytes
<1>3. step \in [(1 .. n) \X Bytes -> Bytes]
  BY <1>1, <1>2
<1>4. PICK f \in [0 .. n -> Bytes] : Recurs(f, n, key0, step)
  <2>. HIDE DEF step, n
  <2>. QED  BY <1>1, <1>3, RecursionExists
<1>5. ASSUME NEW i \in 0 .. n
      PROVE  f[i] = IF i = 0 THEN key0 ELSE (f[i - 1] + s[i]) % 256
  <2>1. f[i] = IF i = 0 THEN key0 ELSE step[<<i, f[i - 1]>>]
    BY <1>4, Zenon DEF Recurs
  <2>2. i # 0 => i \in 1 .. n /\ f[i - 1] \in Bytes
    BY <1>1, <1>4
  <2>. QED  BY <2>1, <2>2
<1>6. Is(f)
  <2>1. f = [i \in 0 .. n |-> f[i]]
    BY <1>4
  <2>. HIDE DEF n
  <2>. QED  BY <1>5, <2>1, Zenon
<1>7. KeyAt(s, key0) = CHOOSE g : Is(g)
  BY Zenon DEF KeyAt
<1>8. Is(KeyAt(s, key0))
  <2>. HIDE DEF Is
  <2>. QED  BY <1>6, <1>7
<1>. HIDE DEF step
<1>9. KeyAt(s, key0) = [i \in 0 .. n |-> KeyAt(s, key0)[i]]
  BY <1>8
<1>10. \A i \in 0 .. n : KeyAt(s, key0)[i] \in Bytes
  <2>. DEFINE T == {i \in 0 .. n : KeyAt(s, key0)[i] \in Bytes}
  <2>1. 0 \in T
    BY <1>1, <1>8
  <2>2. ASSUME NEW i \in 1 .. n, i - 1 \in T  PROVE i \in T
    <3>1. KeyAt(s, key0)[i] = (KeyAt(s, key0)[i - 1] + s[i]) % 256
      BY <1>1, <1>8
    <3>. QED  BY <1>1, <1>2, <2>2, <3>1
  <2>3. 0 .. n \subseteq T
    <3>. HIDE DEF T
    <3>. QED  BY <1>1, <2>1, <2>2, UpTo
  <2>. QED  BY <2>3
<1>11. \A i \in 1 .. n : i \in 0 .. n /\ i # 0
  BY <1>1
<1>. QED
  BY <1>1, <1>8, <1>9, <1>10, <1>11

-----------------------------------------------------------------------------
(* The gate that decides *)

\* Exclusive or with the same byte takes different bytes to different ones.
LEMMA XorInjective ==
  ASSUME NEW a \in Bytes, NEW b \in Bytes, NEW k \in Bytes, ByteXor(a, k) = ByteXor(b, k)
  PROVE  a = b
<1>1. ByteXor(ByteXor(a, k), k) = a /\ ByteXor(ByteXor(b, k), k) = b
  BY ProgramAssumption
<1>. QED
  BY <1>1, Zenon

\* The rolling gate accepts the flag its table was computed from, and nothing else.
LEMMA RollingOnly ==
  ASSUME NEW s \in Seq(Bytes), NEW f \in Seq(Bytes), NEW k \in Bytes
  PROVE  RollingGate(s, RollingCt(f, k), k) <=> s = f
<1>. DEFINE ct == RollingCt(f, k)
            n == Len(f)
<1>1. /\ DOMAIN ct = 1 .. n /\ Len(ct) = n /\ n \in Nat
      /\ \A i \in 1 .. n : ct[i] = ByteXor(f[i], KeyAt(f, k)[i - 1])
  <2>1. ct = [i \in 1 .. n |-> ByteXor(f[i], KeyAt(f, k)[i - 1])] /\ n \in Nat
    BY DEF RollingCt
  <2>. HIDE DEF ct
  <2>. QED  BY <2>1
<1>. HIDE DEF ct
<1>2. ASSUME s = f  PROVE RollingGate(s, ct, k)
  <2>1. Len(s) = Len(ct) /\ \A i \in DOMAIN ct : ByteXor(s[i], KeyAt(s, k)[i - 1]) = ct[i]
    BY <1>1, <1>2
  <2>. QED  BY <2>1 DEF RollingGate
<1>3. ASSUME RollingGate(s, ct, k)  PROVE s = f
  <2>1. Len(s) = n /\ \A i \in 1 .. n : ByteXor(s[i], KeyAt(s, k)[i - 1]) = ByteXor(f[i], KeyAt(f, k)[i - 1])
    BY <1>1, <1>3 DEF RollingGate
  <2>. DEFINE T == {i \in 0 .. n : KeyAt(s, k)[i] = KeyAt(f, k)[i] /\ (i # 0 => s[i] = f[i])}
  <2>2. 0 \in T
    BY <1>1, KeyAtIs
  <2>3. ASSUME NEW i \in 1 .. n, i - 1 \in T  PROVE i \in T
    <3>1. i - 1 \in 0 .. n /\ i \in 0 .. n /\ s[i] \in Bytes /\ f[i] \in Bytes
      BY <1>1, <2>1
    <3>2. KeyAt(s, k)[i - 1] = KeyAt(f, k)[i - 1] /\ KeyAt(f, k)[i - 1] \in Bytes
      <4>1. KeyAt(s, k)[i - 1] = KeyAt(f, k)[i - 1]
        BY <2>3
      <4>2. KeyAt(f, k) \in [0 .. n -> Bytes]
        BY KeyAtIs
      <4>. QED  BY <3>1, <4>1, <4>2
    <3>3. s[i] = f[i]
      BY <2>1, <3>1, <3>2, XorInjective
    <3>4. /\ KeyAt(s, k)[i] = (KeyAt(s, k)[i - 1] + s[i]) % 256
          /\ KeyAt(f, k)[i] = (KeyAt(f, k)[i - 1] + f[i]) % 256
      BY <2>1, KeyAtIs
    <3>. QED  BY <3>1, <3>2, <3>3, <3>4
  <2>4. 0 .. n \subseteq T
    <3>. HIDE DEF T, n
    <3>. QED  BY <1>1, <2>2, <2>3, UpTo
  <2>5. \A i \in 1 .. n : s[i] = f[i]
    <3>1. \A i \in 1 .. n : i \in 0 .. n /\ i # 0
      BY <1>1
    <3>. QED  BY <2>4, <3>1
  <2>. QED  BY <2>1, <2>5
<1>. QED
  BY <1>2, <1>3 DEF ct

\* At one position the transforms take different bytes to different ones.
LEMMA TransformedInjective ==
  ASSUME NEW class \in {"T-C", "T-E"}, NEW kind \in {"xor", "arith", "table"},
         NEW c \in Bytes, NEW d \in Bytes, NEW i \in Nat,
         Transformed(class, kind, c, i) = Transformed(class, kind, d, i)
  PROVE  c = d
<1>1. CASE kind = "xor"
  <2>. DEFINE k == ((IF class = "T-C" THEN 90 ELSE 51) + i) % 256
  <2>1. k \in Bytes
    BY DEF Bytes
  <2>2. ByteXor(c, k) = ByteXor(d, k)
    BY <1>1 DEF Transformed
  <2>. HIDE DEF k
  <2>. QED  BY <2>1, <2>2, XorInjective
<1>2. CASE kind = "arith" /\ class = "T-C"
  <2>1. (c + (3 * i) + 17) % 256 = (d + (3 * i) + 17) % 256
    BY <1>2 DEF Transformed
  <2>2. c \in 0 .. 255 /\ d \in 0 .. 255
    BY DEF Bytes
  <2>. DEFINE x == c + (3 * i) + 17
              y == d + (3 * i) + 17
  <2>3. x \in Nat /\ y \in Nat /\ x % 256 = y % 256 /\ x - y = c - d
    BY <2>1, <2>2
  <2>4. x = y
    <3>1. x - y \in -255 .. 255
      BY <2>2, <2>3
    <3>. HIDE DEF x, y
    <3>. QED  BY <2>3, <3>1
  <2>. QED  BY <2>2, <2>3, <2>4
<1>3. CASE kind = "arith" /\ class = "T-E"
  <2>1. ((c * 5) + (7 * i)) % 256 = ((d * 5) + (7 * i)) % 256
    BY <1>3 DEF Transformed
  <2>2. c \in 0 .. 255 /\ d \in 0 .. 255
    BY DEF Bytes
  <2>. DEFINE x == (c * 5) + (7 * i)
              y == (d * 5) + (7 * i)
  <2>3. x \in Nat /\ y \in Nat /\ x % 256 = y % 256 /\ x - y = 5 * (c - d)
    BY <2>1, <2>2
  <2>. HIDE DEF x, y
  <2>4. /\ x = (256 * (x \div 256)) + (x % 256) /\ x \div 256 \in Int
        /\ y = (256 * (y \div 256)) + (y % 256) /\ y \div 256 \in Int
    BY <2>3
  <2>5. 5 * (c - d) = 256 * ((x \div 256) - (y \div 256))
    BY <2>2, <2>3, <2>4
  <2>. DEFINE e == c - d
              k == (x \div 256) - (y \div 256)
  <2>6. e \in -255 .. 255 /\ k \in Int /\ 5 * e = 256 * k
    BY <2>2, <2>4, <2>5
  <2>7. e = 0
    <3>. HIDE DEF e, k
    <3>1. k \in {-4, -3, -2, -1, 0, 1, 2, 3, 4}
      BY <2>6
    <3>. QED  BY <2>6, <3>1
  <2>. QED  BY <2>2, <2>7
<1>4. CASE kind = "table"
  <2>1. i % 256 \in Bytes /\ Table[c] \in Bytes /\ Table[d] \in Bytes
    <3>1. i % 256 \in Bytes
      BY DEF Bytes
    <3>. QED  BY <3>1, ProgramAssumption
  <2>2. ByteXor(Table[c], i % 256) = ByteXor(Table[d], i % 256)
    BY <1>4 DEF Transformed
  <2>3. Table[c] = Table[d]
    BY <2>1, <2>2, XorInjective
  <2>. QED  BY <2>3, ProgramAssumption
<1>. QED
  BY <1>1, <1>2, <1>3, <1>4

\* The same of the gates of the held-out generators.
LEMMA TransformOnly ==
  ASSUME NEW class \in {"T-C", "T-E"}, NEW kind \in {"xor", "arith", "table"},
         NEW s \in Seq(Bytes), NEW f \in Seq(Bytes)
  PROVE  TrueGate(class, kind, s, BuildTarget(class, kind, f)) <=> s = f
<1>. DEFINE tgt == BuildTarget(class, kind, f)
            n == Len(f)
<1>1. /\ DOMAIN tgt = 1 .. n /\ Len(tgt) = n /\ n \in Nat
      /\ \A i \in 1 .. n : tgt[i] = Transformed(class, kind, f[i], i - 1)
  <2>1. tgt = [i \in 1 .. n |-> Transformed(class, kind, f[i], i - 1)] /\ n \in Nat
    BY DEF BuildTarget
  <2>. HIDE DEF tgt
  <2>. QED  BY <2>1
<1>. HIDE DEF tgt
<1>2. ASSUME s = f  PROVE TrueGate(class, kind, s, tgt)
  <2>1. /\ Len(s) = Len(tgt)
        /\ \A i \in DOMAIN tgt : Transformed(class, kind, s[i], i - 1) = tgt[i]
    BY <1>1, <1>2
  <2>. QED  BY <2>1 DEF TrueGate
<1>3. ASSUME TrueGate(class, kind, s, tgt)  PROVE s = f
  <2>1. Len(s) = n /\ \A i \in 1 .. n : Transformed(class, kind, s[i], i - 1) = tgt[i]
    BY <1>1, <1>3 DEF TrueGate
  <2>2. ASSUME NEW i \in 1 .. n  PROVE s[i] = f[i]
    <3>1. s[i] \in Bytes /\ f[i] \in Bytes /\ i - 1 \in Nat
      BY <1>1, <2>1
    <3>2. Transformed(class, kind, s[i], i - 1) = Transformed(class, kind, f[i], i - 1)
      BY <1>1, <2>1
    <3>. QED  BY <3>1, <3>2, TransformedInjective
  <2>. QED  BY <2>1, <2>2
<1>. QED
  BY <1>2, <1>3 DEF tgt

-----------------------------------------------------------------------------
(* The guard of the branch that would accept the decoy *)

\* Division with remainder.
LEMMA DivMod ==
  ASSUME NEW a \in Nat, NEW m \in Nat \ {0}
  PROVE  /\ a % m \in 0 .. m - 1 /\ a \div m \in Nat
         /\ a = (m * (a \div m)) + (a % m)
<1>1. a % m \in 0 .. m - 1
  OBVIOUS
<1>2. a \div m \in Nat
  BY Z3
<1>3. a = (m * (a \div m)) + (a % m)
  OBVIOUS
<1>. QED
  BY <1>1, <1>2, <1>3

\* A multiple of the modulus does not change the residue.
LEMMA ModOfSum ==
  ASSUME NEW m \in Nat \ {0}, NEW q \in Int, NEW y \in Nat
  PROVE  ((m * q) + y) % m = y % m
<1>1. PICK r \in 0 .. m - 1, z \in Nat : y = (m * z) + r /\ r = y % m
  BY DivMod
<1>2. (m * q) + y = (m * (q + z)) + r
  BY <1>1
<1>3. ((m * (q + z)) + r) % m = r
  <2>. DEFINE p == q + z
  <2>1. p \in Int
    OBVIOUS
  <2>. HIDE DEF p
  <2>2. ((m * p) + r) % m = r
    BY <2>1
  <2>. QED  BY <2>2 DEF p
<1>. QED
  BY <1>1, <1>2, <1>3

\* Only the residue of x counts for the residue of x*x + c.
LEMMA ModSquare ==
  ASSUME NEW m \in Nat \ {0}, NEW x \in Nat, NEW c \in Nat
  PROVE  ((x * x) + c) % m = ((((x % m) * (x % m)) % m) + c) % m
<1>1. PICK r \in 0 .. m - 1, q \in Nat : x = (m * q) + r /\ r = x % m
  BY DivMod
<1>2. r * r \in Nat /\ r \in Nat
  BY <1>1
<1>3. PICK t \in 0 .. m - 1, p \in Nat : r * r = (m * p) + t /\ t = (r * r) % m
  BY <1>2, DivMod
<1>. DEFINE s == (q * x) + (q * r)
<1>4. x * x = (m * s) + (r * r)
  <2>1. \A a, b, e, d \in Int : ((a * b) + e) * d = (a * (b * d)) + (e * d)
    OBVIOUS
  <2>0. x = (m * q) + r /\ {m, q, r, x} \subseteq Int
    BY <1>1
  <2>2. x * x = (m * (q * x)) + (r * x)
    <3>1. ((m * q) + r) * x = (m * (q * x)) + (r * x)
      BY <2>0, <2>1
    <3>. QED  BY <2>0, <3>1
  <2>3. x * r = (m * (q * r)) + (r * r)
    <3>1. ((m * q) + r) * r = (m * (q * r)) + (r * r)
      BY <2>0, <2>1
    <3>. QED  BY <2>0, <3>1
  <2>4. r * x = x * r
    BY <1>1
  <2>. DEFINE u == q * x
              v == q * r
  <2>5. u \in Int /\ v \in Int
    BY <1>1
  <2>. HIDE DEF u, v
  <2>6. (m * (u + v)) = (m * u) + (m * v)
    BY <2>5
  <2>. QED  BY <1>2, <2>2, <2>3, <2>4, <2>5, <2>6 DEF u, v
<1>5. s + p \in Int /\ t + c \in Nat
  BY <1>1, <1>2, <1>3
<1>6. (x * x) + c = (m * (s + p)) + (t + c)
  <2>1. s \in Int /\ x * x = (m * s) + (r * r)
    BY <1>1, <1>2, <1>4
  <2>. HIDE DEF s
  <2>. QED  BY <1>3, <2>1
<1>. HIDE DEF s
<1>7. ((m * (s + p)) + (t + c)) % m = (t + c) % m
  BY <1>5, ModOfSum
<1>. QED
  BY <1>1, <1>3, <1>6, <1>7

\* No square leaves 5 when divided by 7.
LEMMA SquareMod7 ==
  ASSUME NEW n \in Nat
  PROVE  (n * n) % 7 # 5
<1>1. n % 7 \in 0 .. 6
  OBVIOUS
<1>2. ((n * n) + 0) % 7 = ((((n % 7) * (n % 7)) % 7) + 0) % 7
  BY ModSquare
<1>3. \A r \in 0 .. 6 : r \in {0, 1, 2, 3, 4, 5, 6}
  OBVIOUS
<1>4. \A r \in {0, 1, 2, 3, 4, 5, 6} : (((r * r) % 7) + 0) % 7 # 5
  OBVIOUS
<1>5. n * n \in Nat /\ (n * n) + 0 = n * n
  OBVIOUS
<1>. QED
  BY <1>1, <1>2, <1>3, <1>4, <1>5

\* The accumulated sum is what its recursion says.
LEMMA AccumulatedIs ==
  ASSUME NEW s \in Seq(Bytes)
  PROVE  \E sum \in [0 .. Len(s) -> Nat] :
           /\ Accumulated(s) = sum[Len(s)]
           /\ sum[0] = 0
           /\ \A i \in 1 .. Len(s) : sum[i] = sum[i - 1] + (IF i <= 32 THEN s[i] % 128 ELSE 0)
<1>. DEFINE n == Len(s)
            add == [i \in 1 .. n |-> IF i <= 32 THEN s[i] % 128 ELSE 0]
            step == [p \in (1 .. n) \X Nat |-> p[2] + add[p[1]]]
            Is(f) == f = [i \in 0 .. n |-> IF i = 0 THEN 0 ELSE f[i - 1] + (IF i <= 32 THEN s[i] % 128 ELSE 0)]
<1>1. n \in Nat /\ \A i \in 1 .. n : s[i] \in Bytes
  OBVIOUS
<1>2. \A i \in 1 .. n : add[i] \in Nat
  <2>1. \A b \in Bytes : b % 128 \in Nat
    BY DEF Bytes
  <2>. QED  BY <1>1, <2>1
<1>3. step \in [(1 .. n) \X Nat -> Nat]
  <2>1. ASSUME NEW p \in (1 .. n) \X Nat  PROVE p[2] + add[p[1]] \in Nat
    <3>1. p[1] \in 1 .. n /\ p[2] \in Nat
      OBVIOUS
    <3>2. \A v, a \in Nat : v + a \in Nat
      OBVIOUS
    <3>. HIDE DEF add
    <3>. QED  BY <1>2, <3>1, <3>2, Zenon
  <2>. QED  BY <2>1
<1>4. PICK f \in [0 .. n -> Nat] : Recurs(f, n, 0, step)
  <2>. HIDE DEF step, n
  <2>. QED  BY <1>1, <1>3, RecursionExists
<1>5. ASSUME NEW i \in 0 .. n
      PROVE  f[i] = IF i = 0 THEN 0 ELSE f[i - 1] + (IF i <= 32 THEN s[i] % 128 ELSE 0)
  <2>1. f[i] = IF i = 0 THEN 0 ELSE step[<<i, f[i - 1]>>]
    BY <1>4, Zenon DEF Recurs
  <2>2. i # 0 => i \in 1 .. n /\ f[i - 1] \in Nat
    <3>1. i # 0 => i \in 1 .. n /\ i - 1 \in 0 .. n
      BY <1>1
    <3>. QED  BY <1>4, <3>1
  <2>. QED  BY <2>1, <2>2
<1>6. Is(f)
  <2>1. f = [i \in 0 .. n |-> f[i]]
    BY <1>4
  <2>. HIDE DEF n
  <2>. QED  BY <1>5, <2>1, Zenon
<1>7. PICK sum : Is(sum) /\ Accumulated(s) = sum[n]
  <2>. DEFINE g == CHOOSE h : Is(h)
  <2>1. Accumulated(s) = g[n]
    BY Zenon DEF Accumulated
  <2>2. Is(g)
    <3>. HIDE DEF Is
    <3>. QED  BY <1>6
  <2>. HIDE DEF g
  <2>. QED  BY <2>1, <2>2, Zenon
<1>. HIDE DEF step
<1>8. sum = [i \in 0 .. n |-> sum[i]]
  BY <1>7
<1>9. ASSUME NEW i \in 0 .. n
      PROVE  sum[i] = IF i = 0 THEN 0 ELSE sum[i - 1] + (IF i <= 32 THEN s[i] % 128 ELSE 0)
  BY <1>7, <1>9, Zenon
<1>10. \A i \in 0 .. n : sum[i] \in Nat
  <2>. DEFINE T == {i \in 0 .. n : sum[i] \in Nat}
  <2>1. 0 \in T
    BY <1>1, <1>9
  <2>2. ASSUME NEW i \in 1 .. n, i - 1 \in T  PROVE i \in T
    <3>1. i \in 0 .. n /\ i # 0 /\ sum[i - 1] \in Nat
      BY <1>1, <2>2
    <3>2. sum[i] = sum[i - 1] + (IF i <= 32 THEN s[i] % 128 ELSE 0)
      BY <1>9, <3>1, Zenon
    <3>3. s[i] % 128 \in Nat
      <4>1. \A b \in Bytes : b % 128 \in Nat
        BY DEF Bytes
      <4>. QED  BY <1>1, <4>1
    <3>. QED  BY <3>1, <3>2, <3>3
  <2>3. 0 .. n \subseteq T
    <3>. HIDE DEF T
    <3>. QED  BY <1>1, <2>1, <2>2, UpTo
  <2>. QED  BY <2>3
<1>11. \A i \in 1 .. n : i \in 0 .. n /\ i # 0
  BY <1>1
<1>12. 0 \in 0 .. n
  BY <1>1
<1>13. sum \in [0 .. n -> Nat]
  BY <1>8, <1>10
<1>14. sum[0] = 0 /\ \A i \in 1 .. n : sum[i] = sum[i - 1] + (IF i <= 32 THEN s[i] % 128 ELSE 0)
  BY <1>9, <1>11, <1>12, Zenon
<1>. QED
  BY <1>7, <1>13, <1>14, Zenon

\* What accumulate() returns: at most 127 for each of 32 bytes.
LEMMA AccumulatedBound ==
  ASSUME NEW s \in Seq(Bytes)
  PROVE  Accumulated(s) \in Nat /\ Accumulated(s) <= 4064
<1>. DEFINE n == Len(s)
<1>1. PICK sum \in [0 .. n -> Nat] :
        /\ Accumulated(s) = sum[n]
        /\ sum[0] = 0
        /\ \A i \in 1 .. n : sum[i] = sum[i - 1] + (IF i <= 32 THEN s[i] % 128 ELSE 0)
  BY AccumulatedIs, Zenon
<1>2. n \in Nat /\ \A i \in 1 .. n : s[i] % 128 \in 0 .. 127
  <2>1. \A b \in Bytes : b % 128 \in 0 .. 127
    BY DEF Bytes
  <2>2. n \in Nat /\ \A i \in 1 .. n : s[i] \in Bytes
    OBVIOUS
  <2>. QED  BY <2>1, <2>2
<1>. HIDE DEF n
<1>. DEFINE T == {i \in 0 .. n : sum[i] <= 127 * ClampLen(i)}
<1>3. 0 \in T
  BY <1>1, <1>2 DEF ClampLen
<1>4. ASSUME NEW i \in 1 .. n, i - 1 \in T  PROVE i \in T
  <2>1. /\ i \in 0 .. n /\ i - 1 \in 0 .. n
        /\ sum[i] \in Nat /\ sum[i - 1] \in Nat /\ s[i] % 128 \in 0 .. 127
    BY <1>1, <1>2
  <2>2. sum[i - 1] <= 127 * ClampLen(i - 1)
    BY <1>4
  <2>3. sum[i] = sum[i - 1] + (IF i <= 32 THEN s[i] % 128 ELSE 0)
    BY <1>1
  <2>. DEFINE x == sum[i]
              y == sum[i - 1]
              z == s[i] % 128
  <2>4. /\ x \in Nat /\ y \in Nat /\ z \in 0 .. 127 /\ x = y + (IF i <= 32 THEN z ELSE 0)
        /\ y <= 127 * ClampLen(i - 1)
    BY <2>1, <2>2, <2>3
  <2>. HIDE DEF x, y, z
  <2>5. x <= 127 * ClampLen(i)
    BY <1>2, <2>4 DEF ClampLen
  <2>. QED  BY <2>1, <2>5 DEF x
<1>5. 0 .. n \subseteq T
  <2>. HIDE DEF T
  <2>. QED  BY <1>2, <1>3, <1>4, UpTo
<1>6. sum[n] \in Nat /\ sum[n] <= 127 * ClampLen(n)
  <2>1. n \in 0 .. n
    BY <1>2
  <2>. QED  BY <1>1, <1>5, <2>1
<1>7. 127 * ClampLen(n) <= 4064 /\ ClampLen(n) \in Nat
  BY <1>2 DEF ClampLen
<1>8. sum[n] <= 4064
  <2>. DEFINE x == sum[n]
              c == ClampLen(n)
  <2>1. x \in Nat /\ x <= 127 * c /\ 127 * c <= 4064 /\ c \in Nat
    BY <1>6, <1>7
  <2>. HIDE DEF x, c
  <2>2. x <= 4064
    BY <2>1
  <2>. QED  BY <2>2 DEF x
<1>. QED
  BY <1>1, <1>6, <1>8

-----------------------------------------------------------------------------
(* The programs *)

\* What a draw is made of.
LEMMA DrawIs ==
  ASSUME NEW l \in Layouts, NEW p \in Draws(l), Admitted(p)
  PROVE  /\ p.layout = l /\ p.kind \in {"xor", "arith", "table"}
         /\ p.flag \in Flags(l) /\ p.decoy \in Flags(l) /\ p.decoy # p.flag
         /\ p.flag \in Seq(Bytes) /\ p.decoy \in Seq(Bytes) /\ p.flag # None
         /\ l \in Replicated => p.key \in Bytes /\ Len(p.decoy) = Len(p.flag)
         /\ l = "opaque" => p.guard \in UnsatPredicates
<1>1. PICK f \in Flags(l), d \in Flags(l),
           k \in IF l \in Replicated THEN Keys ELSE {None},
           g \in IF l = "opaque" THEN UnsatPredicates ELSE {None} :
        p = [layout |-> l, flag |-> f, decoy |-> d, key |-> k, kind |-> Kind(l), guard |-> g]
  BY DEF Draws
<1>2. Kind(l) \in {"xor", "arith", "table"} /\ f \in Seq(Bytes) /\ d \in Seq(Bytes) /\ f # None
  BY DrawAssumption
<1>3. l \in Replicated => k \in Bytes
  BY <1>1, DrawAssumption
<1>4. l = "opaque" => g \in UnsatPredicates
  BY <1>1
<1>5. /\ p.layout = l /\ p.kind = Kind(l) /\ p.flag = f /\ p.decoy = d /\ p.key = k
      /\ p.guard = g
  BY <1>1
<1>. QED
  BY <1>2, <1>3, <1>4, <1>5 DEF Admitted

\* A triple that unsat_predicates finds no residue for has no solution among the numbers.
LEMMA OpaqueFalse ==
  ASSUME NEW p, p.guard \in UnsatPredicates,
         NEW n \in Nat,
         \A m \in Moduli : (((n * Mult) + Salt) * ((n * Mult) + Salt)) + m < Word
  PROVE  ~Opaque(p, n)
<1>. DEFINE v == (n * Mult) + Salt
<1>1. PICK m \in Moduli, c \in Nat, r \in Nat :
        /\ p.guard = <<m, c, r>> /\ c < m
        /\ \A x \in 0 .. m - 1 : (((x * x) % m) + c) % m # r
  <2>1. PICK g \in UNION {{m} \X (0 .. m - 1) \X (0 .. m - 1) : m \in Moduli} :
          p.guard = g /\ \A x \in 0 .. g[1] - 1 : (((x * x) % g[1]) + g[2]) % g[1] # g[3]
    BY Zenon DEF UnsatPredicates
  <2>2. PICK m \in Moduli : g \in {m} \X (0 .. m - 1) \X (0 .. m - 1)
    BY <2>1
  <2>3. g[1] = m /\ g[2] \in 0 .. m - 1 /\ g[3] \in 0 .. m - 1 /\ g = <<g[1], g[2], g[3]>>
    BY <2>2
  <2>4. m \in Nat
    BY ProgramAssumption
  <2>. QED  BY <2>1, <2>3, <2>4
<1>2. m \in Nat \ {0} /\ Word \in Nat \ {0} /\ Mult \in Nat /\ Salt \in Nat
  BY ProgramAssumption
<1>3. v \in Nat /\ (v * v) + m < Word
  BY <1>2
<1>. HIDE DEF v
<1>4. v * v \in Nat /\ v <= v * v
  <2>1. v * v \in Nat
    BY <1>3
  <2>2. CASE v = 0
    BY <2>2
  <2>3. CASE v # 0
    <3>1. v >= 1 /\ v * v = v + (v * (v - 1)) /\ v - 1 \in Nat
      BY <1>3, <2>3
    <3>2. v * (v - 1) \in Nat
      BY <1>3, <3>1
    <3>. QED  BY <1>3, <2>1, <3>1, <3>2
  <2>. QED  BY <2>1, <2>2, <2>3
<1>5. v % Word = v
  BY <1>2, <1>3, <1>4
<1>6. ((v * v) + c) % Word = (v * v) + c
  <2>. DEFINE w == v * v
  <2>1. w \in Nat /\ w + m < Word
    BY <1>3, <1>4
  <2>. HIDE DEF w
  <2>2. w + c \in Nat /\ w + c < Word
    BY <1>1, <1>2, <2>1
  <2>. DEFINE z == w + c
  <2>3. z % Word = z
    <3>. HIDE DEF z
    <3>. QED  BY <1>2, <2>2 DEF z
  <2>. QED  BY <2>3 DEF w
<1>7. v % m \in 0 .. m - 1 /\ ((v * v) + c) % m = ((((v % m) * (v % m)) % m) + c) % m
  BY <1>2, <1>3, ModSquare, DivMod
<1>8. ((v * v) + c) % m # r
  BY <1>1, <1>7
<1>9. p.guard[1] = m /\ p.guard[2] = c /\ p.guard[3] = r
  BY <1>1
<1>. QED
  BY <1>5, <1>6, <1>8, <1>9 DEF Opaque, v

\* The guard of every layout that has one fails of the decoy, the one string its branch
\* would accept; of other strings it may hold.
LEMMA GuardFalse ==
  ASSUME NEW l \in DeadBranch \cup {"opaque"}, NEW p \in Draws(l), Admitted(p)
  PROVE  ~Guard(p, p.decoy)
<1>. DEFINE d == p.decoy
            n == Len(d)
<1>1. l \in Layouts /\ p.layout = l /\ d \in Seq(Bytes) /\ d \in Flags(l)
  <2>1. l \in Layouts
    BY DEF Layouts, Replicated
  <2>. QED  BY <2>1, DrawIs
<1>2. /\ n \in Nat /\ n >= 8 /\ n * n < HalfWord
      /\ \A m \in Moduli : (((n * Mult) + Salt) * ((n * Mult) + Salt)) + m < Word
  BY <1>1, DrawAssumption
<1>3. CASE l = "opaque"
  <2>1. p.guard \in UnsatPredicates
    BY <1>1, <1>3, DrawIs
  <2>2. ~Opaque(p, n)
    BY <1>2, <2>1, OpaqueFalse
  <2>. QED  BY <1>1, <1>3, <2>2 DEF Guard
<1>4. CASE l = "E1"
  <2>1. ~(ClampLen(n) > 40)
    BY <1>2 DEF ClampLen
  <2>. QED  BY <1>1, <1>4, <2>1 DEF Guard
<1>5. CASE l = "E2"
  <2>1. (n * n) % HalfWord = n * n
    <3>. DEFINE w == n * n
    <3>1. w \in Nat /\ w < HalfWord /\ HalfWord \in Nat \ {0}
      BY <1>2, ProgramAssumption
    <3>. HIDE DEF w
    <3>2. w % HalfWord = w
      BY <3>1
    <3>. QED  BY <3>2 DEF w
  <2>2. (n * n) % 7 # 5
    BY <1>2, SquareMod7
  <2>3. ~(((n * n) % HalfWord) % 7 = 5)
    BY <2>1, <2>2
  <2>. QED  BY <1>1, <1>5, <2>3 DEF Guard
<1>6. CASE l = "E3"
  <2>1. ~(n < 8 /\ Accumulated(d) > 20)
    BY <1>2
  <2>. QED  BY <1>1, <1>6, <2>1 DEF Guard
<1>7. CASE l = "E4"
  <2>. DEFINE r == n % 32
  <2>1. r \in 0 .. 31
    <3>. HIDE DEF n
    <3>. QED  BY <1>2
  <2>2. Guard(p, d) <=> r >= 64
    <3>1. n \in Nat /\ p.layout = "E4"
      BY <1>1, <1>2, <1>7
    <3>. QED  BY <3>1 DEF Guard
  <2>. HIDE DEF r
  <2>. QED  BY <2>1, <2>2
<1>8. CASE l = "E5"
  <2>1. Accumulated(d) \in Nat /\ Accumulated(d) <= 4064
    BY <1>1, AccumulatedBound
  <2>. DEFINE a == Accumulated(d)
  <2>2. a \in Nat /\ a <= 4064
    BY <2>1
  <2>. HIDE DEF a
  <2>3. ~(a % 16 = 200)
    BY <2>2
  <2>. QED  BY <1>1, <1>8, <2>3 DEF Guard, a
<1>9. CASE l = "E6"
  <2>1. Accumulated(d) \in Nat /\ Accumulated(d) <= 4064
    BY <1>1, AccumulatedBound
  <2>. DEFINE a == Accumulated(d)
  <2>2. a \in Nat /\ a <= 4064
    BY <2>1
  <2>. HIDE DEF a
  <2>3. ~(a > 5000)
    BY <2>2
  <2>. QED  BY <1>1, <1>9, <2>3 DEF Guard, a
<1>. QED
  BY <1>3, <1>4, <1>5, <1>6, <1>7, <1>8, <1>9 DEF DeadBranch

\* Every program a generator emits accepts its flag and no other string.
THEOREM EmittedAcceptsOnlyFlag ==
  ASSUME NEW l \in Layouts, NEW p \in Draws(l), Admitted(p), NEW s \in Seq(Bytes)
  PROVE  Correct(p, s) <=> s = p.flag
<1>1. /\ p.layout = l /\ p.kind \in {"xor", "arith", "table"} /\ p.decoy # p.flag
      /\ p.flag \in Seq(Bytes) /\ p.decoy \in Seq(Bytes)
      /\ l \in Replicated => p.key \in Bytes
  BY DrawIs
<1>2. Gate(p, s) <=> s = p.flag
  <2>1. CASE l \in Replicated
    BY <1>1, <2>1, RollingOnly DEF Gate
  <2>2. CASE l \notin Replicated
    <3>1. Class(p.layout) \in {"T-C", "T-E"}
      BY DEF Class
    <3>2. TrueGate(Class(p.layout), p.kind, s, BuildTarget(Class(p.layout), p.kind, p.flag)) <=> s = p.flag
      BY <1>1, <3>1, TransformOnly
    <3>. QED  BY <1>1, <2>2, <3>2 DEF Gate
  <2>. QED  BY <2>1, <2>2
<1>3. CASE l \in {"named", "C1", "C3"}
  BY <1>1, <1>2, <1>3 DEF Correct
<1>4. CASE l \in {"polarity", "C2", "C6"}
  BY <1>1, <1>2, <1>4 DEF Correct
<1>5. CASE l = "C4"
  <2>1. Len(p.decoy) >= 8
    BY <1>1, DrawIs, DrawAssumption
  <2>2. p.decoy # <<>>
    BY <2>1
  <2>. QED  BY <1>1, <1>2, <1>5, <2>2 DEF Correct
<1>6. CASE l = "C5"
  BY <1>1, <1>2, <1>6 DEF Correct
<1>7. CASE l \in DeadBranch \cup {"opaque"}
  <2>1. ~(Guard(p, s) /\ s = p.decoy)
    BY <1>7, GuardFalse
  <2>2. l \notin {"named", "C1", "C3", "polarity", "C2", "C6", "C4", "C5"}
    BY <1>7 DEF DeadBranch
  <2>. QED  BY <1>1, <1>2, <2>1, <2>2 DEF Correct
<1>. QED
  BY <1>3, <1>4, <1>5, <1>6, <1>7 DEF Layouts, Replicated, LocalApproval

-----------------------------------------------------------------------------
(* The pool *)

Binaries(l) ==
  {Binary(d, o, s) : d \in {e \in Draws(l) : Admitted(e)}, o \in Compiled(l), s \in BOOLEAN}

Manifests(l) == {Manifest(d) : d \in Draws(l)}

Directories(l) ==
  [binary : Binaries(l) \cup {None}, solution : Flags(l) \cup {None},
   manifest : Manifests(l) \cup {Torn, None}]

\* The inductive invariant.  What is in a directory was drawn for the layout of that
\* directory, and a manifest is never there without the solution.
PoolInv ==
  /\ pool \in Pools
  /\ dirs = [t \in DOMAIN pool |-> dirs[t]]
  /\ ran = [t \in DOMAIN pool |-> ran[t]]
  /\ pc \in {"idle", "build", "solution", "manifest", "dump"}
  /\ pc # "idle" =>
       at \in DOMAIN pool /\ drawn \in Draws(pool[at]) /\ Admitted(drawn)
  /\ \A t \in DOMAIN pool :
       /\ dirs[t] \in Directories(pool[t])
       /\ dirs[t].manifest # None \/ (at = t /\ pc \in {"manifest", "dump"}) =>
            dirs[t].solution # None
       /\ ran[t] \subseteq Binaries(pool[t])

\* A pool has directories, each of a layout.
LEMMA PoolsAre ==
  ASSUME NEW p \in Pools
  PROVE  /\ p \in Seq(Layouts) /\ Len(p) \in Nat /\ DOMAIN p = 1 .. Len(p) /\ 1 \in DOMAIN p
         /\ \A t \in DOMAIN p : p[t] \in Layouts
<1>1. p \in Seq(Layouts) /\ p # <<>>
  BY PoolAssumption
<1>. QED
  BY <1>1

\* What compiling an admitted draw may yield is among the binaries of the layout.
LEMMA BinaryIn ==
  ASSUME NEW l, NEW d \in Draws(l), Admitted(d), NEW o \in Compiled(l), NEW s \in BOOLEAN
  PROVE  Binary(d, o, s) \in Binaries(l)
<1>1. d \in {e \in Draws(l) : Admitted(e)}
  OBVIOUS
<1>. QED
  BY <1>1 DEF Binaries

\* No directory has anything in it yet.
LEMMA PoolInvInit == PoolInit => PoolInv
<1>. SUFFICES ASSUME PoolInit  PROVE PoolInv
  OBVIOUS
<1>1. ASSUME NEW t \in DOMAIN pool  PROVE dirs[t] = EmptyDir /\ ran[t] = {}
  BY DEF PoolInit
<1>2. ASSUME NEW t \in DOMAIN pool
      PROVE  /\ dirs[t] \in Directories(pool[t])
             /\ dirs[t].manifest = None
             /\ ran[t] \subseteq Binaries(pool[t])
  BY <1>1 DEF EmptyDir, Directories
<1>. QED
  BY <1>1, <1>2 DEF PoolInit, PoolInv

\* The next draw is one for the directory it is made for.
LEMMA ProceedDraws ==
  ASSUME PoolInv, at \in DOMAIN pool, Proceed, pool' = pool
  PROVE  /\ pc' \in {"idle", "build"}
         /\ pc' # "idle" =>
              at' \in DOMAIN pool' /\ drawn' \in Draws(pool'[at']) /\ Admitted(drawn')
<1>1. pool \in Pools
  BY DEF PoolInv
<1>2. CASE at < Len(pool)
  <2>1. at' = at + 1 /\ pc' = "build" /\ drawn' \in {e \in Draws(pool[at + 1]) : Admitted(e)}
    BY <1>2, Zenon DEF Proceed
  <2>2. at + 1 \in DOMAIN pool
    BY <1>1, <1>2, PoolsAre
  <2>. QED  BY <2>1, <2>2
<1>3. CASE ~(at < Len(pool))
  BY <1>3, Zenon DEF Proceed
<1>. QED
  BY <1>2, <1>3

\* Writing to one field of one directory leaves the invariant of the others alone.
LEMMA DirectoryUpdate ==
  ASSUME PoolInv, NEW t \in DOMAIN pool, NEW d \in Directories(pool[t]),
         dirs' = [dirs EXCEPT ![t] = d], pool' = pool
  PROVE  /\ dirs' = [u \in DOMAIN pool' |-> dirs'[u]]
         /\ dirs'[t] = d
         /\ \A u \in DOMAIN pool : u # t => dirs'[u] = dirs[u]
         /\ \A u \in DOMAIN pool' : dirs'[u] \in Directories(pool'[u])
<1>1. DOMAIN dirs = DOMAIN pool
  <2>1. dirs = [u \in DOMAIN pool |-> dirs[u]]
    BY Zenon DEF PoolInv
  <2>. QED  BY <2>1, Zenon
<1>2. \A u \in DOMAIN pool : dirs[u] \in Directories(pool[u])
  BY DEF PoolInv
<1>3. dirs' = [u \in DOMAIN pool |-> dirs'[u]] /\ \A u \in DOMAIN pool : dirs'[u] = IF u = t THEN d ELSE dirs[u]
  BY <1>1
<1>. QED
  BY <1>2, <1>3

\* The steps of a generator write what was drawn; a run only remembers a binary that was
\* there.
LEMMA PoolInvNext == PoolInv /\ [PoolNext]_poolVars => PoolInv'
<1>. SUFFICES ASSUME PoolInv, [PoolNext]_poolVars  PROVE PoolInv'
  OBVIOUS
<1>. USE DEF PoolInv
<1>1. CASE Start
  <2>1. /\ pool' = pool /\ dirs' = dirs /\ ran' = ran /\ at' = 1 /\ pc' = "build" /\ pc = "idle"
        /\ drawn' \in Draws(pool[1]) /\ Admitted(drawn')
    BY <1>1, Zenon DEF Start
  <2>2. 1 \in DOMAIN pool
    BY PoolsAre
  <2>. QED  BY <2>1, <2>2
<1>2. CASE Build
  <2>1. PICK outcome \in Compiled(pool[at]) :
          dirs' = [dirs EXCEPT ![at].binary = Binary(drawn, outcome, Stripped(pool[at]))]
    BY <1>2, Zenon DEF Build
  <2>2. /\ pool' = pool /\ at' = at /\ drawn' = drawn /\ ran' = ran
        /\ pc = "build" /\ pc' = "solution" /\ at \in DOMAIN pool
    BY <1>2 DEF Build
  <2>. DEFINE d == [dirs[at] EXCEPT !.binary = Binary(drawn, outcome, Stripped(pool[at]))]
  <2>3. Binary(drawn, outcome, Stripped(pool[at])) \in Binaries(pool[at])
    <3>1. Stripped(pool[at]) \in BOOLEAN
      BY DEF Stripped
    <3>2. drawn \in Draws(pool[at]) /\ Admitted(drawn)
      BY <2>2
    <3>. QED  BY <3>1, <3>2, BinaryIn, Zenon
  <2>4. /\ d \in Directories(pool[at]) /\ d.solution = dirs[at].solution
        /\ d.manifest = dirs[at].manifest
    BY <2>2, <2>3 DEF Directories
  <2>5. dirs' = [dirs EXCEPT ![at] = d]
    BY <2>1
  <2>. HIDE DEF d
  <2>. QED  BY <2>2, <2>4, <2>5, DirectoryUpdate
<1>3. CASE BuildFails
  <2>1. PICK left \in {dirs[at].binary, None}
                 \cup {Binary(drawn, outcome, FALSE) :
                         outcome \in IF Stripped(pool[at]) THEN Compiled(pool[at]) ELSE {}} :
          dirs' = [dirs EXCEPT ![at].binary = left]
    BY <1>3, Zenon DEF BuildFails
  <2>2. pool' = pool /\ ran' = ran /\ pc = "build" /\ at \in DOMAIN pool /\ Proceed
    BY <1>3 DEF BuildFails
  <2>. DEFINE d == [dirs[at] EXCEPT !.binary = left]
  <2>3. left \in Binaries(pool[at]) \cup {None}
    <3>1. dirs[at].binary \in Binaries(pool[at]) \cup {None}
      BY <2>2 DEF Directories
    <3>2. \A outcome \in Compiled(pool[at]) : Binary(drawn, outcome, FALSE) \in Binaries(pool[at])
      <4>1. drawn \in Draws(pool[at]) /\ Admitted(drawn) /\ FALSE \in BOOLEAN
        BY <2>2
      <4>. QED  BY <4>1, BinaryIn, Zenon
    <3>. QED  BY <2>1, <3>1, <3>2
  <2>4. /\ d \in Directories(pool[at]) /\ d.solution = dirs[at].solution
        /\ d.manifest = dirs[at].manifest
    BY <2>2, <2>3 DEF Directories
  <2>5. dirs' = [dirs EXCEPT ![at] = d]
    BY <2>1
  <2>6. /\ pc' \in {"idle", "build"}
        /\ pc' # "idle" =>
             at' \in DOMAIN pool' /\ drawn' \in Draws(pool'[at']) /\ Admitted(drawn')
    BY <2>2, ProceedDraws
  <2>. HIDE DEF d
  <2>. QED  BY <2>2, <2>4, <2>5, <2>6, DirectoryUpdate
<1>4. CASE WriteSolution
  <2>1. /\ dirs' = [dirs EXCEPT ![at].solution = drawn.flag]
        /\ pool' = pool /\ at' = at /\ drawn' = drawn /\ ran' = ran
        /\ pc = "solution" /\ pc' = "manifest" /\ at \in DOMAIN pool
    BY <1>4 DEF WriteSolution
  <2>. DEFINE d == [dirs[at] EXCEPT !.solution = drawn.flag]
  <2>2. drawn.flag \in Flags(pool[at]) /\ drawn.flag # None
    <3>1. pool[at] \in Layouts /\ drawn \in Draws(pool[at]) /\ Admitted(drawn)
      BY <2>1, PoolsAre
    <3>. QED  BY <3>1, DrawIs
  <2>3. d \in Directories(pool[at]) /\ d.solution # None /\ d.manifest = dirs[at].manifest
    BY <2>1, <2>2 DEF Directories
  <2>4. dirs' = [dirs EXCEPT ![at] = d]
    BY <2>1
  <2>. HIDE DEF d
  <2>5. /\ dirs' = [u \in DOMAIN pool' |-> dirs'[u]] /\ dirs'[at] = d
        /\ \A u \in DOMAIN pool : u # at => dirs'[u] = dirs[u]
        /\ \A u \in DOMAIN pool' : dirs'[u] \in Directories(pool'[u])
    BY <2>1, <2>3, <2>4, DirectoryUpdate
  <2>6. \A t \in DOMAIN pool' :
          dirs'[t].manifest # None \/ (at' = t /\ pc' \in {"manifest", "dump"}) =>
            dirs'[t].solution # None
    BY <2>1, <2>3, <2>5
  <2>. QED  BY <2>1, <2>5, <2>6
<1>5. CASE OpenManifest
  <2>1. /\ dirs' = [dirs EXCEPT ![at].manifest = Torn]
        /\ pool' = pool /\ at' = at /\ drawn' = drawn /\ ran' = ran
        /\ pc = "manifest" /\ pc' = "dump" /\ at \in DOMAIN pool
    BY <1>5 DEF OpenManifest
  <2>. DEFINE d == [dirs[at] EXCEPT !.manifest = Torn]
  <2>2. d \in Directories(pool[at]) /\ d.solution = dirs[at].solution /\ dirs[at].solution # None
    BY <2>1 DEF Directories
  <2>3. dirs' = [dirs EXCEPT ![at] = d]
    BY <2>1
  <2>. HIDE DEF d
  <2>4. /\ dirs' = [u \in DOMAIN pool' |-> dirs'[u]] /\ dirs'[at] = d
        /\ \A u \in DOMAIN pool : u # at => dirs'[u] = dirs[u]
        /\ \A u \in DOMAIN pool' : dirs'[u] \in Directories(pool'[u])
    BY <2>1, <2>2, <2>3, DirectoryUpdate
  <2>5. \A t \in DOMAIN pool' :
          dirs'[t].manifest # None \/ (at' = t /\ pc' \in {"manifest", "dump"}) =>
            dirs'[t].solution # None
    BY <2>1, <2>2, <2>4
  <2>. QED  BY <2>1, <2>4, <2>5
<1>6. CASE DumpManifest
  <2>1. /\ dirs' = [dirs EXCEPT ![at].manifest = Manifest(drawn)]
        /\ pool' = pool /\ ran' = ran /\ pc = "dump" /\ at \in DOMAIN pool /\ Proceed
    BY <1>6 DEF DumpManifest
  <2>. DEFINE d == [dirs[at] EXCEPT !.manifest = Manifest(drawn)]
  <2>2. Manifest(drawn) \in Manifests(pool[at])
    BY <2>1 DEF Manifests
  <2>3. d \in Directories(pool[at]) /\ d.solution = dirs[at].solution /\ dirs[at].solution # None
    BY <2>1, <2>2 DEF Directories
  <2>4. dirs' = [dirs EXCEPT ![at] = d]
    BY <2>1
  <2>5. /\ pc' \in {"idle", "build"}
        /\ pc' # "idle" =>
             at' \in DOMAIN pool' /\ drawn' \in Draws(pool'[at']) /\ Admitted(drawn')
    BY <2>1, ProceedDraws
  <2>. HIDE DEF d
  <2>6. /\ dirs' = [u \in DOMAIN pool' |-> dirs'[u]] /\ dirs'[at] = d
        /\ \A u \in DOMAIN pool : u # at => dirs'[u] = dirs[u]
        /\ \A u \in DOMAIN pool' : dirs'[u] \in Directories(pool'[u])
    BY <2>1, <2>3, <2>4, DirectoryUpdate
  <2>7. \A t \in DOMAIN pool' :
          dirs'[t].manifest # None \/ (at' = t /\ pc' \in {"manifest", "dump"}) =>
            dirs'[t].solution # None
    BY <2>1, <2>3, <2>5, <2>6
  <2>. QED  BY <2>1, <2>5, <2>6, <2>7
<1>7. CASE Interrupt
  <2>1. pool' = pool /\ dirs' = dirs /\ ran' = ran /\ pc' = "idle"
    BY <1>7 DEF Interrupt
  <2>2. \A t \in DOMAIN pool : dirs[t].manifest # None => dirs[t].solution # None
    OBVIOUS
  <2>. QED  BY <2>1, <2>2
<1>8. CASE \E t \in DOMAIN pool : Attempt(t)
  <2>1. PICK t \in DOMAIN pool :
          /\ dirs[t].binary # None
          /\ ran' = [ran EXCEPT ![t] = @ \cup {dirs[t].binary}]
          /\ UNCHANGED <<pool, dirs, at, pc, drawn, starts>>
    BY <1>8 DEF Attempt
  <2>2. dirs[t].binary \in Binaries(pool[t])
    BY <2>1 DEF Directories
  <2>3. ran' = [u \in DOMAIN pool |-> ran'[u]]
    BY <2>1
  <2>4. \A u \in DOMAIN pool : ran'[u] \subseteq Binaries(pool[u])
    BY <2>1, <2>2
  <2>. QED  BY <2>1, <2>3, <2>4
<1>9. CASE UNCHANGED poolVars
  BY <1>9 DEF poolVars
<1>. QED
  BY <1>1, <1>2, <1>3, <1>4, <1>5, <1>6, <1>7, <1>8, <1>9 DEF PoolNext

\* What is in a directory was drawn for its layout, and what was drawn fits the step the
\* generator is at.
THEOREM PoolInvariant == PoolSpec => []PoolInv
BY PoolInvInit, PoolInvNext, PTL DEF PoolSpec

\* A binary in a directory accepts the flag it was built from and no other string.
LEMMA AcceptsFlag ==
  ASSUME PoolInv, NEW t \in Tasks, dirs[t].binary # None, NEW s \in Seq(Bytes)
  PROVE  Accepts(dirs[t].binary, s) <=> s = dirs[t].binary.draw.flag
<1>1. pool[t] \in Layouts /\ dirs[t].binary \in Binaries(pool[t])
  BY PoolsAre DEF PoolInv, Tasks, Directories
<1>2. PICK d \in {e \in Draws(pool[t]) : Admitted(e)}, o \in Compiled(pool[t]), b \in BOOLEAN :
        dirs[t].binary = Binary(d, o, b)
  BY <1>1 DEF Binaries
<1>3. dirs[t].binary.draw = d
  BY <1>2 DEF Binary
<1>. QED
  BY <1>1, <1>2, <1>3, EmittedAcceptsOnlyFlag DEF Accepts

\* Every program that is built accepts its flag and nothing else.
THEOREM AcceptsOnlyTheFlagHolds == PoolSpec => []AcceptsOnlyTheFlag
<1>1. PoolInv => AcceptsOnlyTheFlag
  BY AcceptsFlag, DrawAssumption DEF AcceptsOnlyTheFlag
<1>. QED
  BY <1>1, PoolInvariant, PTL

\* A pool that passes the validator is of one piece.
THEOREM PassedPoolAgreesHolds == PoolSpec => []PassedPoolAgrees
<1>1. ASSUME PoolInv, ExitZero, NEW t \in Tasks
      PROVE  /\ dirs[t].solution = dirs[t].binary.draw.flag
             /\ dirs[t].manifest.decoy = dirs[t].binary.draw.decoy
  <2>1. Readable(t) /\ Passes(t)
    BY <1>1 DEF ExitZero
  <2>2. dirs[t].manifest # None
    BY <2>1 DEF Readable
  <2>3. dirs[t].solution \in Flags(pool[t]) /\ dirs[t].solution # None /\ pool[t] \in Layouts
    BY <1>1, <2>2, PoolsAre DEF PoolInv, Tasks, Directories
  <2>4. dirs[t].solution \in Seq(Bytes)
    BY <2>3, DrawAssumption
  <2>5. /\ dirs[t].binary # None
        /\ Accepts(dirs[t].binary, dirs[t].solution)
        /\ InElf(dirs[t].binary, dirs[t].manifest.decoy)
    BY <2>1, <2>3 DEF Passes
  <2>. QED  BY <1>1, <2>4, <2>5, AcceptsFlag DEF InElf
<1>2. PoolInv => PassedPoolAgrees
  BY <1>1 DEF PassedPoolAgrees
<1>. QED
  BY <1>2, PoolInvariant, PTL

\* A pool from which the optimiser removed a comparison with the decoy does not pass.
THEOREM LostTrapIsNoticedHolds == PoolSpec => []LostTrapIsNoticed
<1>1. ASSUME ExitZero, NEW t \in Tasks
      PROVE  DecoyRefs(Rows(pool[t], dirs[t].binary.outcome)) # {}
  <2>1. Passes(t)
    BY <1>1 DEF ExitZero
  <2>2. InElf(dirs[t].binary, dirs[t].manifest.decoy) /\ SurvivalVerdict(t) # "lost"
    BY <2>1 DEF Passes
  <2>3. Resolvable(t)
    BY <2>2 DEF Resolvable
  <2>. QED  BY <2>2, <2>3 DEF SurvivalVerdict, Audit, AuditTC, AuditTE
<1>2. LostTrapIsNoticed
  BY <1>1 DEF LostTrapIsNoticed
<1>. QED
  BY <1>2, PTL

\* Whole directories of the replication generator with different flags pass, and their
\* traps are confirmed, not merely undecided.
THEOREM SoundPoolPassesHolds == PoolSpec => []SoundPoolPasses
<1>1. ASSUME PoolInv, NEW t \in Tasks, pool[t] \in Replicated, Whole(t)
      PROVE  Readable(t) /\ Passes(t) /\ SurvivalVerdict(t) = "confirmed"
  <2>. DEFINE b == dirs[t].binary
              m == dirs[t].manifest
  <2>1. /\ b # None /\ Readable(t) /\ b.outcome \in KeptOutcomes /\ b.stripped = Stripped(pool[t])
        /\ dirs[t].solution = b.draw.flag /\ m.decoy = b.draw.decoy /\ ran[t] \subseteq {b}
    BY <1>1 DEF Whole, Kept
  <2>2. b \in Binaries(pool[t]) /\ pool[t] \in Layouts
    BY <1>1, <2>1, PoolsAre DEF PoolInv, Tasks, Directories
  <2>3. PICK d \in Draws(pool[t]), o \in Compiled(pool[t]), s \in BOOLEAN :
          Admitted(d) /\ b = Binary(d, o, s)
    BY <2>2 DEF Binaries
  <2>4. b.draw = d /\ b.outcome = o
    BY <2>3 DEF Binary
  <2>5. /\ d.flag \in Seq(Bytes) /\ d.decoy \in Seq(Bytes) /\ d.decoy # d.flag
        /\ Len(d.decoy) = Len(d.flag)
    BY <1>1, <2>2, <2>3, DrawIs
  <2>6. Accepts(b, dirs[t].solution) /\ ~Accepts(b, m.decoy)
    BY <1>1, <2>1, <2>4, <2>5, AcceptsFlag
  <2>7. InElf(b, m.decoy)
    BY <2>1, <2>4 DEF InElf, KeptOutcomes
  <2>8. SurvivalVerdict(t) = "confirmed"
    <3>. DEFINE rows == Rows(pool[t], o)
    <3>1. PICK i \in 1 .. Len(rows) - 1, j \in DOMAIN rows :
            /\ rows[i].ref \in {"decoy", "slot"} /\ rows[j].op = "jcc"
            /\ IF Class(pool[t]) = "T-E" THEN j < i /\ rows[j].fn = rows[i].fn
                                         ELSE i <= j /\ j < i + Lookahead
      BY <1>1, <2>1, <2>3, <2>4, KeptAssumption
    <3>2. /\ j \in Jccs(rows) /\ i \in DecoyRefs(rows) /\ rows # <<>>
          /\ IF Class(pool[t]) = "T-E" THEN GuardedRef(rows) ELSE Routed(rows)
      BY <3>1 DEF Jccs, DecoyRefs, PointsAtDecoy, GuardedRef, Routed
    <3>3. Class(pool[t]) \in {"T-C", "T-E"}
      BY DEF Class
    <3>4. Resolvable(t)
      BY <2>7 DEF Resolvable
    <3>. QED  BY <2>4, <3>2, <3>3, <3>4 DEF SurvivalVerdict, Audit, AuditTC, AuditTE
  <2>9. HashFromTraces(t) \subseteq {b}
    BY <2>1 DEF HashFromTraces
  <2>. QED  BY <1>1, <2>1, <2>4, <2>5, <2>6, <2>7, <2>8, <2>9 DEF Passes
<1>2. ASSUME PoolInv, \A t \in Tasks : pool[t] \in Replicated /\ Whole(t),
             \A t, u \in Tasks : t # u => dirs[t].solution # dirs[u].solution
      PROVE  Unshared
  <2>1. \A t \in Tasks : dirs[t].solution = dirs[t].binary.draw.flag
    BY <1>2 DEF Whole
  <2>. QED  BY <1>2, <2>1 DEF Unshared
<1>3. PoolInv => SoundPoolPasses
  BY <1>1, <1>2 DEF SoundPoolPasses, ExitZero
<1>. QED
  BY <1>3, PoolInvariant, PTL
=============================================================================
