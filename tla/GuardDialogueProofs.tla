------------------------- MODULE GuardDialogueProofs -------------------------
(***************************************************************************)
(* Theorems about the levels of the gate (module DerivationCheck) and the  *)
(* exchange about the guards of a routine, for routines of any length.     *)
(***************************************************************************)
EXTENDS GuardDialogue, FiniteSetTheorems, WellFoundedInduction, TLAPS

-----------------------------------------------------------------------------
(* The levels, on less of a citation and on more reasoning *)

\* An entry whose cited output is not looked at loses at most the one routine it was
\* taken to be about, and an entry that is about none passes.
LEMMA CitationOnlyNames ==
  ASSUME NEW entry, NEW cited, NEW view, CheckConsumerObserved(entry, cited, view)
  PROVE  CheckConsumerObserved(entry, {}, view)
<1>1. FallbackNames(entry, {}, view) = {}
  BY DEF FallbackNames, Labels
<1>2. Routines(entry, {}, view) \subseteq Routines(entry, cited, view)
  BY <1>1 DEF Routines
<1>3. FallbackNames(entry, cited, view) # {} => Routines(entry, {}, view) = {}
  BY <1>1 DEF FallbackNames, Routines
<1>4. FallbackNames(entry, cited, view) = {} => Routines(entry, {}, view) = Routines(entry, cited, view)
  BY <1>1 DEF Routines
<1>. QED
  BY <1>3, <1>4 DEF CheckConsumerObserved

\* What more reasoning claims accounts for every guard that less of it did.
LEMMA ReasoningOnlyAccounts ==
  ASSUME NEW entry, NEW less, NEW more, less \subseteq more, NEW view,
         CheckReachability(entry, less, view)
  PROVE  CheckReachability(entry, more, view)
<1>. DEFINE a == Claimed(entry, less)
            b == Claimed(entry, more)
<1>1. a \subseteq b
  BY DEF Claimed
<1>2. \A j : NamesGuard(view, a, j) => NamesGuard(view, b, j)
  BY <1>1 DEF NamesGuard
<1>3. \A site : SkippedBetween(view, a, site) \subseteq SkippedBetween(view, b, site)
  BY <1>2 DEF SkippedBetween
<1>4. \A site : Unaccounted(entry, more, view, site) \subseteq Unaccounted(entry, less, view, site)
  BY <1>2, <1>3 DEF Unaccounted
<1>. QED
  BY <1>4 DEF CheckReachability

-----------------------------------------------------------------------------
(* What the level sees of the routine *)

\* The one routine, its instructions and its jumps.
LEMMA ViewIs ==
  /\ FuncStarts(View) = {1} /\ SeenAddrs(View) = Addrs
  /\ \A o \in Jccs(View) : o.addr \in Addrs /\ IsJcc(o.addr) /\ o.target = code[o.addr].target
  /\ \A a \in Addrs : IsJcc(a) =>
       \E o \in Jccs(View) : o.addr = a /\ o.target = code[a].target
<1>. DEFINE line(a) == [kind |-> "insn", addr |-> a, op |-> IF IsJcc(a) THEN "jcc" ELSE "plain",
                        target |-> IF IsJcc(a) THEN code[a].target ELSE NoTarget, names |-> {}]
            label == [kind |-> "label", addr |-> 1, name |-> "check", via |-> "r2"]
<1>1. View = {label} \cup {line(a) : a \in Addrs}
  BY Zenon DEF View
<1>2. label.kind = "label" /\ label.addr = 1
  OBVIOUS
<1>3. \A a : /\ line(a).kind = "insn" /\ line(a).addr = a
             /\ line(a).op = IF IsJcc(a) THEN "jcc" ELSE "plain"
             /\ IsJcc(a) => line(a).target = code[a].target
  OBVIOUS
<1>. HIDE DEF label, line
<1>4. Labels(View) = {label} /\ Insns(View) = {line(a) : a \in Addrs}
  BY <1>1, <1>2, <1>3 DEF Labels, Insns
<1>5. Jccs(View) = {line(a) : a \in {b \in Addrs : IsJcc(b)}}
  <2>1. Jccs(View) = {o \in {line(a) : a \in Addrs} : o.op = "jcc"}
    BY <1>4 DEF Jccs
  <2>2. \A a : line(a).op = "jcc" <=> IsJcc(a)
    BY <1>3
  <2>. QED  BY <2>1, <2>2
<1>6. FuncStarts(View) = {1}
  BY <1>2, <1>4 DEF FuncStarts
<1>7. SeenAddrs(View) = Addrs
  <2>1. SeenAddrs(View) = {o.addr : o \in {line(a) : a \in Addrs}}
    BY <1>4 DEF SeenAddrs
  <2>2. \A a \in Addrs : line(a).addr = a
    BY <1>3
  <2>. QED  BY <2>1, <2>2
<1>. QED
  BY <1>3, <1>5, <1>6, <1>7

\* All addresses of the routine are in the one routine that was seen.
LEMMA OneRoutine ==
  ASSUME NEW a \in Addrs
  PROVE  FunctionOf(View, a) = {1}
<1>1. FuncStarts(View) = {1} /\ SeenAddrs(View) = Addrs
  BY ViewIs
<1>2. a \in Nat /\ 1 <= a /\ a <= 1 + MaxSpan
  BY DialogueAssumption, DerivationAssumption DEF Addrs
<1>3. InStretch(View, 1, a)
  BY <1>1, <1>2 DEF InStretch
<1>. QED
  BY <1>1, <1>2, <1>3 DEF FunctionOf

-----------------------------------------------------------------------------
(* Paths *)

LEMMA LeastNat ==
  ASSUME NEW T, T \subseteq Nat, T # {}
  PROVE  \E m \in T : \A k \in T : m <= k
<1>1. PICK m \in T : \A k \in T : ~(<<k, m>> \in OpToRel(<, Nat))
  BY NatLessThanWellFounded, WFMin, Zenon
<1>2. ASSUME NEW k \in T  PROVE m <= k
  <2>1. ~(<<k, m>> \in OpToRel(<, Nat)) /\ k \in Nat /\ m \in Nat
    BY <1>1
  <2>. QED  BY <2>1 DEF OpToRel
<1>. QED
  BY <1>2

\* Where control may run straight down from a to b without meeting j.
LEMMA FallThrough ==
  ASSUME NEW j, NEW R \in SUBSET Addrs, Closed(R, j),
         NEW a \in R, NEW b \in Addrs, a <= b, j \in Addrs, ~(a < j /\ j <= b), Straight(a, b)
  PROVE  b \in R
<1>. DEFINE M == {x \in Addrs : a <= x /\ x <= b /\ x \notin R}
<1>. SUFFICES ASSUME M # {}  PROVE FALSE
  BY DEF Addrs
<1>1. Addrs \subseteq Nat /\ a \in Addrs
  BY DEF Addrs
<1>2. PICK m \in M : \A x \in M : m <= x
  <2>1. M \subseteq Nat
    BY <1>1
  <2>. HIDE DEF M
  <2>. QED  BY <2>1, LeastNat
<1>3. m # a /\ m \in Addrs /\ m \in Nat /\ a <= m /\ m <= b /\ m \notin R
  BY <1>1, <1>2
<1>4. m - 1 \in Addrs /\ a <= m - 1 /\ m - 1 <= b /\ ~(m <= m - 1) /\ (m - 1) + 1 = m
  BY <1>1, <1>3, DialogueAssumption DEF Addrs
<1>5. m - 1 \in R
  BY <1>2, <1>4
<1>6. m \in Successors(m - 1)
  <2>1. m - 1 < b
    BY <1>1, <1>3, <1>4
  <2>2. FallsThrough(m - 1)
    BY <1>4, <2>1 DEF Straight
  <2>. QED  BY <1>4, <2>2 DEF Successors
<1>7. m # j
  BY <1>1, <1>3
<1>. QED
  BY <1>3, <1>5, <1>6, <1>7 DEF Closed

\* A jump over j to the site or short of it, in straight code, is a path that does not
\* meet j.
LEMMA JumpedOver ==
  ASSUME NEW j \in Addrs, NEW site \in Addrs, NEW k \in Addrs,
         IsJcc(k), code[k].target \in Int,
         k < j, j < code[k].target, code[k].target <= site,
         Straight(1, k), Straight(code[k].target, site)
  PROVE  ~OnEveryPath(j, site)
<1>. SUFFICES ASSUME NEW R \in SUBSET Addrs, Closed(R, j), 1 \in R \/ j = 1
              PROVE  site \in R
  BY DEF OnEveryPath
<1>. DEFINE to == code[k].target
<1>1. Addrs \subseteq Nat /\ 1 <= k /\ 1 \in Addrs /\ j # 1 /\ to \in Addrs /\ to # j /\ to # NoTarget
  BY DialogueAssumption DEF Addrs, NoTarget
<1>2. k \in R
  <2>1. 1 \in R /\ ~(1 < j /\ j <= k)
    BY <1>1
  <2>. QED  BY <1>1, <2>1, FallThrough
<1>3. to \in R
  <2>1. to \in Successors(k)
    BY <1>1 DEF Successors, Destinations, IsJcc
  <2>. QED  BY <1>1, <1>2, <2>1 DEF Closed
<1>4. to <= site /\ ~(to < j /\ j <= site) /\ Straight(to, site)
  BY <1>1
<1>. HIDE DEF to
<1>. QED
  BY <1>1, <1>3, <1>4, FallThrough

-----------------------------------------------------------------------------
(* The exchange *)

\* The inductive invariant.
DialogueInv ==
  /\ code \in [Addrs -> Instructions]
  /\ text = [names |-> {}, addrs |-> text.addrs] /\ text.addrs \subseteq Addrs

\* The level objects to conditional jumps of the routine that are not named.
LEMMA ObjectionIs ==
  ASSUME DialogueInv, NEW g \in Objections
  PROVE  g \in Addrs /\ IsJcc(g) /\ ~NamesGuard(View, text.addrs, g)
<1>1. PICK site, j : j \in Unaccounted(text, {}, View, site) /\ g = j.addr
  BY DEF Objections
<1>2. Claimed(text, {}) = text.addrs
  BY DEF Claimed
<1>3. j \in Jccs(View) /\ ~NamesGuard(View, text.addrs, g)
  BY <1>1, <1>2 DEF Unaccounted, GuardsOf
<1>. QED
  BY <1>1, <1>3, ViewIs

\* One more mention.
LEMMA NameAddr ==
  ASSUME DialogueInv, NEW a \in Addrs, Name(a)
  PROVE  DialogueInv' /\ text'.addrs = text.addrs \cup {a}
<1>1. /\ text' = [names |-> {}, addrs |-> text.addrs \cup {a}]
      /\ code' = code
  BY DEF Name, DialogueInv
<1>. QED
  BY <1>1 DEF DialogueInv

\* An answer mentions an address that was not mentioned before.
LEMMA AnswerNames ==
  ASSUME DialogueInv, Answer
  PROVE  \E a \in Addrs \ text.addrs : Name(a)
<1>1. PICK g, a : g \in Objections /\ a \in FlagSettersBefore(View, g) /\ Name(a)
  BY DEF Answer
<1>2. a \in Addrs
  BY <1>1, ViewIs DEF FlagSettersBefore
<1>3. a \notin text.addrs
  BY <1>1, ObjectionIs DEF NamesGuard
<1>. QED
  BY <1>1, <1>2, <1>3

\* Whatever the agent writes, the code of the routine stays what it is and an entry only
\* mentions addresses of it.
THEOREM DialogueInvariant == Spec => []DialogueInv
<1>1. Init => DialogueInv
  BY DialogueAssumption DEF Init, DialogueInv
<1>2. ASSUME DialogueInv, [Next]_dialogueVars  PROVE DialogueInv'
  <2>1. CASE \E a \in Addrs : Name(a)
    BY <1>2, <2>1, NameAddr
  <2>2. CASE Answer
    BY <1>2, <2>1, <2>2, AnswerNames
  <2>3. CASE Elaborate
    BY <2>1, <2>3 DEF Elaborate
  <2>4. CASE UNCHANGED dialogueVars
    BY <1>2, <2>4 DEF DialogueInv, dialogueVars
  <2>. QED  BY <1>2, <2>2, <2>3, <2>4 DEF Next
<1>. QED
  BY <1>1, <1>2, PTL DEF Spec

\* Level 2 does not pass an entry that is silent on a branch every path to its site must
\* get past, unless it excuses it for a jump that is not in straight code.
THEOREM NoSilentGuardHolds == Spec => []NoSilentGuard
<1>1. ASSUME DialogueInv, Passes, NEW site \in text.addrs, NEW j \in Addrs,
             Decides(j, site), Excusable(j, site)
      PROVE  NamesGuard(View, text.addrs, j)
  <2>1. /\ site \in Addrs /\ IsJcc(j) /\ j < site /\ OnEveryPath(j, site)
        /\ code[j].target = NoTarget \/ code[j].target > site
    BY <1>1 DEF DialogueInv, Decides
  <2>2. PICK o \in Jccs(View) : o.addr = j /\ o.target = code[j].target
    BY <2>1, ViewIs
  <2>3. o \in GuardsOf(View, site)
    BY <2>1, <2>2, OneRoutine DEF GuardsOf
  <2>4. site \in Sites(text, View)
    BY <2>1, OneRoutine DEF Sites
  <2>5. Claimed(text, {}) = text.addrs
    BY DEF Claimed
  <2>6. Unaccounted(text, {}, View, site) = {}
    BY <1>1, <2>4 DEF Passes, CheckReachability
  <2>7. j \in SkippedBetween(View, text.addrs, site) \/ NamesGuard(View, text.addrs, j)
    BY <2>2, <2>3, <2>5, <2>6 DEF Unaccounted
  <2>8. ASSUME j \in SkippedBetween(View, text.addrs, site)  PROVE FALSE
    <3>1. PICK h \in Jccs(View) :
            h.target # NoTarget /\ h.addr < j /\ j < h.target /\ h.target <= site
      BY <2>8 DEF SkippedBetween
    <3>2. h.addr \in Addrs /\ IsJcc(h.addr) /\ h.target = code[h.addr].target
      BY ViewIs
    <3>3. code[h.addr].target \in Int
      BY <1>1, <3>2, DialogueAssumption DEF DialogueInv, Instructions, Targets, Addrs, NoTarget
    <3>4. Straight(1, h.addr) /\ Straight(code[h.addr].target, site)
      BY <1>1, <3>1, <3>2 DEF Excusable, JumpsOver
    <3>. QED  BY <2>1, <3>1, <3>2, <3>3, <3>4, JumpedOver
  <2>. QED  BY <2>7, <2>8
<1>2. DialogueInv => NoSilentGuard
  BY <1>1 DEF NoSilentGuard
<1>. QED
  BY <1>2, DialogueInvariant, PTL

\* The conditional jumps of the routine, and those the text leaves unmentioned.
Jumps == {j \in Addrs : IsJcc(j)}
Unnamed == {j \in Jumps : ~NamesGuard(View, text.addrs, j)}

LEMMA JumpsFinite ==
  /\ IsFiniteSet(Addrs) /\ IsFiniteSet(Jumps) /\ IsFiniteSet(Unnamed)
  /\ Cardinality(Jumps) \in Nat /\ Cardinality(Unnamed) \in Nat
<1>1. IsFiniteSet(Addrs)
  BY DialogueAssumption, FS_Interval DEF Addrs
<1>2. IsFiniteSet(Jumps)
  <2>1. Jumps \in SUBSET Addrs
    BY DEF Jumps
  <2>. QED  BY <1>1, <2>1, FS_Subset
<1>3. IsFiniteSet(Unnamed)
  <2>1. Unnamed \in SUBSET Jumps
    BY DEF Unnamed
  <2>. QED  BY <1>2, <2>1, FS_Subset
<1>. QED
  BY <1>1, <1>2, <1>3, FS_CardinalityType

\* What has been mentioned stays mentioned, and an answer mentions a jump that was not.
LEMMA AnswerShrinks ==
  ASSUME DialogueInv, [Next]_dialogueVars
  PROVE  /\ Jumps' = Jumps /\ Unnamed' \subseteq Unnamed
         /\ Answer => Unnamed' # Unnamed
<1>1. code' = code /\ text.addrs \subseteq text'.addrs
  <2>1. CASE \E a \in Addrs : Name(a)
    <3>1. PICK a \in Addrs : Name(a)
      BY <2>1
    <3>. QED  BY <3>1, NameAddr DEF Name
  <2>2. CASE Answer
    BY <2>1, <2>2, AnswerNames
  <2>3. CASE Elaborate
    BY <2>1, <2>3 DEF Elaborate
  <2>4. CASE UNCHANGED dialogueVars
    BY <2>4 DEF dialogueVars
  <2>. QED  BY <2>2, <2>3, <2>4 DEF Next
<1>2. Jumps' = Jumps /\ View' = View
  BY <1>1 DEF Jumps, View, IsJcc
<1>3. \A j : NamesGuard(View, text.addrs, j) => NamesGuard(View, text'.addrs, j)
  BY <1>1 DEF NamesGuard
<1>4. Unnamed' = {j \in Jumps : ~NamesGuard(View, text'.addrs, j)}
  BY <1>2 DEF Unnamed
<1>5. ASSUME Answer  PROVE Unnamed' # Unnamed
  <2>1. PICK g, a : g \in Objections /\ a \in FlagSettersBefore(View, g) /\ Name(a)
    BY <1>5 DEF Answer
  <2>2. a \in Addrs
    BY <2>1, ViewIs DEF FlagSettersBefore
  <2>3. text'.addrs = text.addrs \cup {a}
    BY <2>1, <2>2, NameAddr
  <2>4. NamesGuard(View, text'.addrs, g)
    BY <2>1, <2>3 DEF NamesGuard
  <2>5. g \in Unnamed
    BY <2>1, ObjectionIs DEF Unnamed, Jumps
  <2>. QED  BY <1>4, <2>4, <2>5
<1>. QED
  BY <1>2, <1>3, <1>4, <1>5 DEF Unnamed

\* The exchange is finite: each answer names a jump that had not been named, nothing is
\* taken back, and an entry that names all of them passes.
AnswersCount ==
  /\ Unnamed' \subseteq Unnamed
  /\ Answer => Cardinality(Unnamed') < Cardinality(Unnamed)
  /\ Unnamed' = {} => Passes'

THEOREM AnswersAreNew == Spec => [][AnswersCount]_dialogueVars
<1>1. ASSUME DialogueInv, [Next]_dialogueVars, Answer
      PROVE  Cardinality(Unnamed') < Cardinality(Unnamed)
  <2>. DEFINE u == Unnamed
              v == Unnamed'
  <2>1. u # v /\ v \in SUBSET u /\ IsFiniteSet(u)
    BY <1>1, AnswerShrinks, JumpsFinite
  <2>2. /\ IsFiniteSet(v) /\ Cardinality(v) <= Cardinality(u) /\ Cardinality(v) # Cardinality(u)
    <3>. HIDE DEF u, v
    <3>. QED  BY <2>1, FS_Subset
  <2>3. Cardinality(v) \in Nat /\ Cardinality(u) \in Nat
    <3>. HIDE DEF u, v
    <3>. QED  BY <2>1, <2>2, FS_CardinalityType
  <2>. QED  BY <2>2, <2>3
<1>2. DialogueInv /\ Unnamed = {} => Passes
  <2>1. ASSUME DialogueInv, Unnamed = {}, ~Passes  PROVE FALSE
    <3>1. PICK site, j : site \in Sites(text, View) /\ j \in Unaccounted(text, {}, View, site)
      BY <2>1 DEF Passes, CheckReachability
    <3>2. j.addr \in Objections /\ j \in Jccs(View)
      BY <3>1 DEF Objections, Unaccounted, GuardsOf
    <3>3. j.addr \in Unnamed
      BY <2>1, <3>2, ObjectionIs, ViewIs DEF Unnamed, Jumps
    <3>. QED  BY <2>1, <3>3
  <2>. QED  BY <2>1
<1>3. DialogueInv /\ DialogueInv' /\ [Next]_dialogueVars => [AnswersCount]_dialogueVars
  <2>1. (DialogueInv /\ Unnamed = {} => Passes)'
    BY <1>2, PTL
  <2>. QED  BY <1>1, <2>1, AnswerShrinks DEF AnswersCount
<1>. QED
  BY <1>3, DialogueInvariant, PTL DEF Spec

\* An agent that only answers.
AnswerSpec == Init /\ [][Answer]_dialogueVars

\* It mentions, beside the address it began with, no more addresses than the routine has
\* conditional jumps: so often at most does the level object.
AnswersBounded == Cardinality(text.addrs) <= 1 + Cardinality(Jumps)

THEOREM AnswersAreBounded == AnswerSpec => []AnswersBounded
<1>. DEFINE Count == /\ DialogueInv /\ IsFiniteSet(text.addrs)
                     /\ Cardinality(text.addrs) + Cardinality(Unnamed) <= 1 + Cardinality(Jumps)
<1>1. Init => Count
  <2>. SUFFICES ASSUME Init  PROVE Count
    OBVIOUS
  <2>1. PICK site \in Addrs : text = [names |-> {}, addrs |-> {site}]
    BY DEF Init
  <2>2. DialogueInv
    BY <2>1, DialogueAssumption DEF Init, DialogueInv
  <2>3. IsFiniteSet(text.addrs) /\ Cardinality(text.addrs) = 1
    BY <2>1, FS_Singleton
  <2>4. Cardinality(Unnamed) <= Cardinality(Jumps)
    <3>1. Unnamed \in SUBSET Jumps
      BY DEF Unnamed
    <3>. QED  BY <3>1, JumpsFinite, FS_Subset
  <2>. QED  BY <2>2, <2>3, <2>4, JumpsFinite
<1>2. Count /\ [Answer]_dialogueVars => Count'
  <2>. SUFFICES ASSUME Count, [Answer]_dialogueVars  PROVE Count'
    OBVIOUS
  <2>1. CASE Answer
    <3>1. PICK a \in Addrs \ text.addrs : Name(a)
      BY <2>1, AnswerNames
    <3>2. DialogueInv' /\ text'.addrs = text.addrs \cup {a}
      BY <3>1, NameAddr
    <3>3. IsFiniteSet(text'.addrs) /\ Cardinality(text'.addrs) = Cardinality(text.addrs) + 1
      BY <3>1, <3>2, FS_AddElement
    <3>. DEFINE u == Unnamed
                v == Unnamed'
    <3>4. u # v /\ v \in SUBSET u /\ IsFiniteSet(u) /\ Jumps' = Jumps
      BY <2>1, AnswerShrinks, JumpsFinite DEF Next
    <3>5. Cardinality(v) <= Cardinality(u) /\ Cardinality(v) # Cardinality(u) /\ IsFiniteSet(v)
      <4>. HIDE DEF u, v
      <4>. QED  BY <3>4, FS_Subset
    <3>6. /\ Cardinality(v) \in Nat /\ Cardinality(u) \in Nat
          /\ Cardinality(text.addrs) \in Nat /\ Cardinality(Jumps) \in Nat
      <4>. HIDE DEF u, v
      <4>. QED  BY <3>4, <3>5, FS_CardinalityType, JumpsFinite
    <3>. QED  BY <3>2, <3>3, <3>4, <3>5, <3>6
  <2>2. CASE UNCHANGED dialogueVars
    <3>1. Unnamed' = Unnamed /\ Jumps' = Jumps /\ DialogueInv'
      BY <2>2 DEF dialogueVars, Unnamed, Jumps, View, IsJcc, DialogueInv
    <3>. QED  BY <2>2, <3>1 DEF dialogueVars
  <2>. QED  BY <2>1, <2>2
<1>3. Count => AnswersBounded
  BY FS_CardinalityType, JumpsFinite DEF AnswersBounded
<1>. QED
  BY <1>1, <1>2, <1>3, PTL DEF AnswerSpec

\* As long as the level objects there is something to answer with, and it objects as long
\* as it does not pass.
ObjectionsAnswerable ==
  ~Passes => \E g \in Objections : FlagSettersBefore(View, g) # {}

THEOREM ObjectionsCanBeAnswered == Spec => []ObjectionsAnswerable
<1>1. ASSUME DialogueInv, ~Passes  PROVE \E g \in Objections : FlagSettersBefore(View, g) # {}
  <2>1. PICK site \in Sites(text, View) : Unaccounted(text, {}, View, site) # {}
    BY <1>1 DEF Passes, CheckReachability
  <2>2. PICK j : j \in Unaccounted(text, {}, View, site)
    BY <2>1
  <2>3. j.addr \in Objections
    BY <2>2 DEF Objections
  <2>4. j.addr \in Addrs
    BY <1>1, <2>3, ObjectionIs
  <2>5. j.addr \in FlagSettersBefore(View, j.addr)
    BY <2>4, ViewIs, DerivationAssumption DEF FlagSettersBefore, Addrs
  <2>. QED  BY <2>3, <2>5
<1>2. DialogueInv => ObjectionsAnswerable
  BY <1>1 DEF ObjectionsAnswerable
<1>. QED
  BY <1>2, DialogueInvariant, PTL
=============================================================================
