-------------------------- MODULE MCSubmissionGate --------------------------
(***************************************************************************)
(* Instances of SubmissionGate and of Replay over it for TLC, with the     *)
(* levels of DerivationCheck over a small program:                         *)
(*                                                                         *)
(*     check:  10  cmp                                                     *)
(*             12  jcc 20       guard of everything up to 20               *)
(*             16  cmp          the site an entry may rest on              *)
(*     main:   30  call check                                              *)
(*                                                                         *)
(* An output is the set of the parts of it that it shows, and a text is a  *)
(* name for what it says; the levels see what these stand for.             *)
(***************************************************************************)
EXTENDS Replay

SameName(n) == n

Lvl == INSTANCE DerivationCheck
         WITH NormName <- SameName, EntryNames <- {"main"}, Window <- 2, MaxSpan <- 100

Insn(a, op, target, names) ==
  [kind |-> "insn", addr |-> a, op |-> op, target |-> target, names |-> names]

Part(p) ==
  CASE p = "site"   -> {[kind |-> "label", addr |-> 10, name |-> "check", via |-> "objdump"],
                        Insn(16, "plain", -1, {})}
    [] p = "guard"  -> {Insn(10, "plain", -1, {}), Insn(12, "jcc", 20, {})}
    [] p = "caller" -> {[kind |-> "label", addr |-> 28, name |-> "main", via |-> "objdump"],
                        Insn(30, "call", 10, {"check"})}

Observed(parts) == UNION {Part(p) : p \in parts}

Meaning(t) ==
  CASE t = "nothing"        -> [names |-> {}, addrs |-> {}]
    [] t = "site"           -> [names |-> {}, addrs |-> {16}]
    [] t = "site and guard" -> [names |-> {"check"}, addrs |-> {12, 16}]
    [] t = "guard"          -> [names |-> {}, addrs |-> {12}]

\* One routine at a time, or each part on its own.
Listings == {{"site", "guard"}, {"site", "guard", "caller"}}
Parts == {{"site"}, {"guard"}, {"caller"}}
Citations == {-1, 0, 1}

\* The two levels tabulated, so that TLC computes each case once.
ConsumerTable ==
  [t \in Texts, o \in Shown, w \in Views |->
     Lvl!CheckConsumerObserved(Meaning(t), Observed(o), Observed(w))]
GuardTable ==
  [t \in Texts, r \in SUBSET Reasoning, w \in Views |->
     Lvl!CheckReachability(Meaning(t), {Meaning(h) : h \in r}, Observed(w))]

MCConsumerObserved(text, cited, view) == ConsumerTable[text, cited, view]
MCGuardsAccounted(text, reasoning, view) == GuardTable[text, reasoning, view]
=============================================================================
