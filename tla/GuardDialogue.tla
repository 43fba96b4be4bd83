--------------------------- MODULE GuardDialogue ----------------------------
(***************************************************************************)
(* The exchange between an agent and level 2 of the gate over one routine: *)
(* the agent writes an entry about some address, the level objects to the  *)
(* guards the entry leaves unmentioned, the agent writes a fuller entry.   *)
(*                                                                         *)
(* The routine is any run of instructions with jumps, conditional or not,  *)
(* and ends of paths, all of it disassembled before the entry is written.  *)
(* The level knows the conditional jumps alone: what it says is compared   *)
(* with the paths through the routine.                                     *)
(*                                                                         *)
(* The reason the agent is sent does not name the guards; that it finds    *)
(* them in its own disassembly is what `Answer` supposes.                  *)
(***************************************************************************)
EXTENDS DerivationCheck

CONSTANTS
  Size,     \* instructions in the routine, at the addresses 1 .. Size
  Programs  \* what the routine may be

Addrs == 1 .. Size

\* A target is in the routine, just behind it, or not recognised.
Targets == Addrs \cup {Size + 1, NoTarget}

\* "end" leaves the routine for good: a return, a jump to another routine, a call that
\* does not come back.  Only jumps have targets.
Instructions == [op : {"plain", "jcc", "jmp", "end"}, target : Targets]

\* All of the routine is within the reach that function_of gives a routine that no other
\* one follows; of an address beyond it the level knows no routine and says nothing.
ASSUME DialogueAssumption ==
  /\ Size \in Nat \ {0} /\ Size <= MaxSpan
  /\ Programs \subseteq [Addrs -> Instructions]

VARIABLES
  code,   \* what stands at an address
  text    \* what the newest entry says

dialogueVars == <<code, text>>

-----------------------------------------------------------------------------
IsJcc(a) == code[a].op = "jcc"

\* What the disassembly shows the level: conditional jumps, and all else as instructions.
View == {[kind |-> "label", addr |-> 1, name |-> "check", via |-> "r2"]} \cup
        {[kind |-> "insn", addr |-> a, op |-> IF IsJcc(a) THEN "jcc" ELSE "plain",
          target |-> IF IsJcc(a) THEN code[a].target ELSE NoTarget, names |-> {}] : a \in Addrs}

\* The level's objections: the guards, of any address the entry cites, it does not mention.
Objections ==
  {j.addr : j \in UNION {Unaccounted(text, {}, View, site) : site \in Sites(text, View)}}

Passes == CheckReachability(text, {}, View)

Init ==
  /\ code \in Programs
  /\ \E site \in Addrs : text = [names |-> {}, addrs |-> {site}]

Name(a) == text' = [text EXCEPT !.addrs = @ \cup {a}] /\ UNCHANGED code

\* The agent answers an objection: it names the jump, or a comparison just before it.
Answer ==
  \E g \in Objections : \E a \in FlagSettersBefore(View, g) : Name(a)

\* The agent mentions one more address, asked or not.
Elaborate == \E a \in Addrs \ text.addrs : Name(a)

Next == Answer \/ Elaborate

\* An agent that keeps answering as long as there is something to answer.
Spec == Init /\ [][Next]_dialogueVars /\ WF_dialogueVars(Answer)

-----------------------------------------------------------------------------
(* Paths through the routine, the reference for what the level says *)

FallsThrough(a) == code[a].op \in {"plain", "jcc"}

\* A jump whose target was not recognised may go anywhere.
Destinations(a) ==
  IF code[a].op \notin {"jcc", "jmp"} THEN {}
  ELSE IF code[a].target = NoTarget THEN Addrs ELSE {code[a].target}

Successors(a) == Destinations(a) \cup {b \in {a + 1} : FallsThrough(a)}

\* A set of addresses that control, once in it, leaves only through j.
Closed(R, j) == \A a \in R : (Successors(a) \cap Addrs) \ {j} \subseteq R

\* Every path from the entry to the site goes through j: without j, control may start at
\* the entry and never get there.
OnEveryPath(j, site) ==
  \E R \in SUBSET Addrs : Closed(R, j) /\ (1 \in R \/ j = 1) /\ site \notin R

Decides(j, site) ==
  /\ IsJcc(j) /\ j < site
  /\ code[j].target = NoTarget \/ code[j].target > site
  /\ OnEveryPath(j, site)

\* From a to b control may run straight down.
Straight(a, b) == \A x \in Addrs : a <= x /\ x < b => FallsThrough(x)

\* The jumps over j to the site or short of it, for which the level may excuse j.
JumpsOver(j, site) ==
  {h \in Addrs : IsJcc(h) /\ h < j /\ j < code[h].target /\ code[h].target <= site}

\* Where an excuse is sound: control may run down to the jump and down from its target.
\* Unconditional jumps and returns before it, or between its target and the site, can
\* make it one that no path to the site takes, and the level does not see them.
Excusable(j, site) ==
  \A h \in JumpsOver(j, site) : Straight(1, h) /\ Straight(code[h].target, site)

\* Level 2 does not pass an entry that is silent on a branch every path to its site must
\* get past.  A branch that nothing jumps over is never missed, whatever the code; one
\* that is jumped over is excused rightly as long as the jump is in straight code
\* (check_reachability, skipped_between; not so in all code, as the README shows).
NoSilentGuard ==
  Passes => \A site \in text.addrs, j \in Addrs :
              Decides(j, site) /\ Excusable(j, site) => NamesGuard(View, text.addrs, j)

\* Answering leads somewhere: although each address named to answer an objection is
\* itself a cited address with guards of its own, the objections come to an end.
AnswersEnd == <>[]Passes
=============================================================================
