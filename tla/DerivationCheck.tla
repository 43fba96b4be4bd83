-------------------------- MODULE DerivationCheck ---------------------------
(***************************************************************************)
(* Levels 1 and 2 of the A2 gate (harness/agent/derivation_check.py) as    *)
(* operators over what the agent has observed.                             *)
(*                                                                         *)
(* A view is a set of observations recovered from tool output:             *)
(*   [kind |-> "label", addr, name, via]        a routine starts here      *)
(*   [kind |-> "insn", addr, op, target, names] one disassembled line      *)
(*   [kind |-> "entry", name]                   reached from the loader    *)
(* so folding one more output into a view is set union.  `op` is "jcc",    *)
(* "call" or "plain"; `target` is the hexadecimal target of the operands,  *)
(* NoTarget if none was recognised; `names` the identifiers called.  Two   *)
(* labels at one address carry the same name.  A text is what the agent    *)
(* wrote: the routine names in it, spelled bare or with the disassembler's *)
(* prefix, and the addresses in it.                                        *)
(***************************************************************************)
EXTENDS Integers, FiniteSets

CONSTANTS
  NormName(_),  \* a name without the disassembler's prefix (_norm_name)
  EntryNames,   \* main, _start, entry0, entry.init0
  Window,       \* bytes before a jump in which its flags may be set: 24
  MaxSpan       \* how far the last routine may reach: 0x10000

ASSUME DerivationAssumption == Window \in Nat /\ MaxSpan \in Nat

NoTarget == -1

-----------------------------------------------------------------------------
(* DisasmView *)

Labels(view) == {o \in view : o.kind = "label"}
Insns(view) == {o \in view : o.kind = "insn"}
Jccs(view) == {o \in Insns(view) : o.op = "jcc"}
Calls(view) == {o \in Insns(view) : o.op = "call"}

KnownNames(view) == {l.name : l \in Labels(view)}
FuncStarts(view) == {l.addr : l \in Labels(view)}
SeenAddrs(view) == {o.addr : o \in Insns(view)}
CallNames(view) == UNION {o.names : o \in Calls(view)}
CallAddrs(view) == {o.target : o \in Calls(view)} \ {NoTarget}
EntryFrames(view) == {o.name : o \in {e \in view : e.kind = "entry"}}

\* s lies in the stretch that starts at lo and ends before the next routine.
InStretch(view, lo, s) ==
  /\ lo <= s
  /\ \A m \in FuncStarts(view) : m > lo => s < m
  /\ (\A m \in FuncStarts(view) : m <= lo) => s <= lo + MaxSpan

\* function_of: the start of the observed routine a belongs to, as a set of at
\* most one element.  A routine extends to the last instruction seen of it.
FunctionOf(view, a) ==
  {lo \in FuncStarts(view) :
     /\ InStretch(view, lo, a)
     /\ a = lo \/ \E s \in SeenAddrs(view) : a <= s /\ InStretch(view, lo, s)}

\* guards_of: conditional jumps before a in its routine whose target lies past a.
GuardsOf(view, a) ==
  {j \in Jccs(view) :
     /\ j.addr < a
     /\ FunctionOf(view, j.addr) = FunctionOf(view, a)
     /\ j.target = NoTarget \/ j.target > a}

FlagSettersBefore(view, j) == {s \in SeenAddrs(view) : j - Window <= s /\ s <= j}

\* Slip: the jump itself does not count.
NamesComparison(view, claimed, j) ==
  claimed \cap (FlagSettersBefore(view, j) \ {j}) # {}

\* The agent named the jump at j, or a comparison that may set its flags.
NamesGuard(view, claimed, j) ==
  j \in claimed \/ claimed \cap FlagSettersBefore(view, j) # {}

\* Slip: a site inside the arm skips itself out of it.
SkippedFromInside(view, claimed, site) ==
  {g.addr : g \in {h \in Jccs(view) :
     \E j \in Jccs(view) :
        /\ j.target # NoTarget
        /\ j.addr < h.addr /\ h.addr < j.target
        /\ NamesGuard(view, claimed, j.addr)}}

\* skipped_between: conditionals on an arm that a named forward jump, whose
\* target the site is at or beyond, jumps over.
SkippedBetween(view, claimed, site) ==
  {g.addr : g \in {h \in Jccs(view) :
     \E j \in Jccs(view) :
        /\ j.target # NoTarget
        /\ j.addr < h.addr /\ h.addr < j.target
        /\ j.target <= site
        /\ NamesGuard(view, claimed, j.addr)}}

-----------------------------------------------------------------------------
(* What the evidence rests on *)

\* The observed routines the text mentions, whichever way it spells them.
Mentioned(text, view) == {n \in KnownNames(view) : {n, NormName(n)} \cap text.names # {}}

Sites(text, view) == {a \in text.addrs : FunctionOf(view, a) # {}}

\* With nothing named, the one routine that the cited output disassembled.
FallbackNames(text, cited, view) ==
  LET shown == {l.name : l \in {m \in Labels(cited) : m.via = "objdump"}}
  IN IF Mentioned(text, view) = {} /\ Sites(text, view) = {} /\ Cardinality(shown) = 1
     THEN shown ELSE {}

Routines(text, cited, view) ==
  Mentioned(text, view)
    \cup FallbackNames(text, cited, view)
    \cup {l.name : l \in {m \in Labels(view) :
            \E a \in Sites(text, view) : m.addr \in FunctionOf(view, a)}}

-----------------------------------------------------------------------------
(* The two checks *)

CheckConsumerObserved(text, cited, view) ==
  LET routines == Routines(text, cited, view)
  IN \/ routines = {}
     \/ \E n \in routines : NormName(n) \in EntryNames \/ n \in EntryFrames(view)
     \/ routines \cap CallNames(view) # {}
     \/ Sites(text, view) \cap CallAddrs(view) # {}

Claimed(text, reasoning) == text.addrs \cup UNION {r.addrs : r \in reasoning}

Unaccounted(text, reasoning, view, site) ==
  LET claimed == Claimed(text, reasoning)
  IN {j \in GuardsOf(view, site) :
        /\ j.addr \notin SkippedBetween(view, claimed, site)
        /\ ~NamesGuard(view, claimed, j.addr)}

CheckReachability(text, reasoning, view) ==
  \A site \in Sites(text, view) : Unaccounted(text, reasoning, view, site) = {}
=============================================================================
