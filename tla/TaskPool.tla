------------------------------ MODULE TaskPool ------------------------------
(***************************************************************************)
(* A pool of task directories: the generator that fills it, the battery    *)
(* that runs on it, and the validator that decides whether it may ship     *)
(* (harness/tasks/synthetic/gen_*.py, harness/tasks/validate_artifact.py). *)
(*                                                                         *)
(* A directory is filled in steps: the binary is built, the solution is    *)
(* written, then the manifest.  The generator may be stopped between any   *)
(* two, a build may fail, and a later start goes over the same directories *)
(* again with other draws.  The validator has no state: ExitZero says of   *)
(* every state what it would find there.                                   *)
(***************************************************************************)
EXTENDS TaskProgram, SurvivalAudit, FiniteSets

CONSTANTS
  Flags(_),      \* the strings a draw for a layout may give, as sequences of bytes
  Keys,          \* seeds of the rolling key
  Pools,         \* the pools to fill: sequences of layouts, one for each directory
  Kind(_),       \* the transform that the square of surfaces gives a held-out layout
  Compiled(_),   \* what the compiler may leave of a layout: a set of outcomes
  Rows(_, _),    \* layout, outcome: the instructions
  MaxStarts,     \* how often the generator is started
  Inputs,        \* strings the programs are tried on
  None

ASSUME PoolAssumption ==
  /\ \A pool \in Pools : pool \in Seq(Layouts) /\ pool # <<>>
  /\ MaxStarts \in Nat \ {0}

\* What the drawing code gives: flags of the form FLAG{word_word_number}, a key of one
\* byte, one of the three transforms; at the lengths drawn neither guard overflows.
ASSUME DrawAssumption ==
  /\ Keys \subseteq Bytes
  /\ \A s \in Inputs : s \in Seq(Bytes)
  /\ \A l \in Layouts :
       /\ Kind(l) \in {"xor", "arith", "table"}
       /\ \A f \in Flags(l) :
            /\ f \in Seq(Bytes) /\ f # None
            /\ Len(f) >= 8 /\ Len(f) * Len(f) < HalfWord
            /\ \A m \in Moduli :
                 (((Len(f) * Mult) + Salt) * ((Len(f) * Mult) + Salt)) + m < Word

\* The outcomes that leave the comparison with the decoy in the code, at a jump.
KeptOutcomes == {"kept", "inlined"}

\* What that means: an instruction that is not the last takes the address of the decoy,
\* from the code or from a pointer to it; and there is a conditional jump, in T-C soon
\* after it, in T-E the one of the branch the comparison is the body of.
ASSUME KeptAssumption ==
  \A l \in Replicated : \A o \in Compiled(l) \cap KeptOutcomes :
    \E i \in 1 .. Len(Rows(l, o)) - 1, j \in DOMAIN Rows(l, o) :
      /\ Rows(l, o)[i].ref \in {"decoy", "slot"} /\ Rows(l, o)[j].op = "jcc"
      /\ IF Class(l) = "T-E"
         THEN j < i /\ Rows(l, o)[j].fn = Rows(l, o)[i].fn
         ELSE i <= j /\ j < i + Lookahead

VARIABLES
  pool,      \* the layout of each directory
  dirs,      \* the directories: binary, solution and manifest
  at,        \* the directory the generator works on, 0 when it is not running
  pc,        \* what it does there next
  drawn,     \* the draw it works with
  starts,    \* how often it was started
  ran        \* the binaries whose hash the traces of a task recorded

poolVars == <<pool, dirs, at, pc, drawn, starts, ran>>

-----------------------------------------------------------------------------
(* The generators *)

Tasks == DOMAIN pool

EmptyDir == [binary |-> None, solution |-> None, manifest |-> None]

\* Only the replication generator asks for a decoy of the length of the flag.
Draws(layout) ==
  {[layout |-> layout, flag |-> f, decoy |-> d, key |-> k, kind |-> Kind(layout), guard |-> g] :
     f \in Flags(layout),
     d \in Flags(layout),
     k \in IF layout \in Replicated THEN Keys ELSE {None},
     g \in IF layout = "opaque" THEN UnsatPredicates ELSE {None}}

Admitted(draw) ==
  /\ draw.decoy # draw.flag
  /\ draw.layout \in Replicated => Len(draw.decoy) = Len(draw.flag)

Stripped(layout) == layout = "opaque"

\* A binary is what was drawn, what the compiler left, and whether it was stripped;
\* two binaries have the same hash exactly if they are the same record.
Binary(draw, outcome, stripped) == [draw |-> draw, outcome |-> outcome, stripped |-> stripped]

Manifest(draw) == [decoy |-> draw.decoy, flag |-> draw.flag, torn |-> FALSE]
Torn == [torn |-> TRUE]

PoolInit ==
  /\ pool \in Pools
  /\ dirs = [t \in DOMAIN pool |-> EmptyDir]
  /\ at = 0 /\ pc = "idle" /\ drawn = None /\ starts = 0
  /\ ran = [t \in DOMAIN pool |-> {}]

\* With a seed of its own; the default seed draws what was drawn before, one of these.
Start ==
  /\ pc = "idle"
  /\ starts < MaxStarts
  /\ starts' = starts + 1
  /\ at' = 1 /\ pc' = "build"
  /\ \E d \in {e \in Draws(pool[1]) : Admitted(e)} : drawn' = d
  /\ UNCHANGED <<pool, dirs, ran>>

\* On to the next directory with a draw of its own, or the end of the script.
Proceed ==
  IF at < Len(pool)
  THEN /\ at' = at + 1 /\ pc' = "build"
       /\ \E d \in {e \in Draws(pool[at + 1]) : Admitted(e)} : drawn' = d
  ELSE at' = 0 /\ pc' = "idle" /\ drawn' = None

Build ==
  /\ pc = "build"
  /\ \E outcome \in Compiled(pool[at]) :
        dirs' = [dirs EXCEPT ![at].binary = Binary(drawn, outcome, Stripped(pool[at]))]
  /\ pc' = "solution"
  /\ UNCHANGED <<pool, at, drawn, starts, ran>>

\* BUILD FAIL: the script goes on.  The compiler leaves the binary that was there, or
\* removes it; a failing strip leaves the new one as it was linked.
BuildFails ==
  /\ pc = "build"
  /\ \E left \in {dirs[at].binary, None}
                 \cup {Binary(drawn, outcome, FALSE) :
                         outcome \in IF Stripped(pool[at]) THEN Compiled(pool[at]) ELSE {}} :
        dirs' = [dirs EXCEPT ![at].binary = left]
  /\ Proceed
  /\ UNCHANGED <<pool, starts, ran>>

\* write_text truncates before it writes; a stop in between leaves a script that prints no
\* flag, which fails the validator outright.
WriteSolution ==
  /\ pc = "solution"
  /\ dirs' = [dirs EXCEPT ![at].solution = drawn.flag]
  /\ pc' = "manifest"
  /\ UNCHANGED <<pool, at, drawn, starts, ran>>

\* open("w") truncates the manifest before json.dump fills it.
OpenManifest ==
  /\ pc = "manifest"
  /\ dirs' = [dirs EXCEPT ![at].manifest = Torn]
  /\ pc' = "dump"
  /\ UNCHANGED <<pool, at, drawn, starts, ran>>

DumpManifest ==
  /\ pc = "dump"
  /\ dirs' = [dirs EXCEPT ![at].manifest = Manifest(drawn)]
  /\ Proceed
  /\ UNCHANGED <<pool, starts, ran>>

\* The script is stopped where it is.
Interrupt ==
  /\ pc # "idle"
  /\ at' = 0 /\ pc' = "idle" /\ drawn' = None
  /\ UNCHANGED <<pool, dirs, starts, ran>>

\* A run on the task: its trace records the hash of the binary it ran.
Attempt(t) ==
  /\ dirs[t].binary # None
  /\ ran' = [ran EXCEPT ![t] = @ \cup {dirs[t].binary}]
  /\ UNCHANGED <<pool, dirs, at, pc, drawn, starts>>

PoolNext ==
  \/ Start \/ Build \/ BuildFails \/ WriteSolution \/ OpenManifest \/ DumpManifest \/ Interrupt
  \/ \E t \in DOMAIN pool : Attempt(t)

PoolSpec == PoolInit /\ [][PoolNext]_poolVars

-----------------------------------------------------------------------------
(* The validator, for one directory *)

\* The tasks have success_marker "Correct."; a layout that prints the decoy's fate or a
\* digest before it does not print that word.
Accepts(b, s) == Correct(b.draw, s)

\* The bait is in the ELF as one string unless the compiler did away with it.
InElf(b, s) == s = b.draw.decoy /\ b.outcome # "dissolved"

Resolvable(t) == InElf(dirs[t].binary, dirs[t].manifest.decoy)

\* The audit is shipped with the pool and has a binary to disassemble, so that the check
\* applies.
SurvivalVerdict(t) ==
  LET b == dirs[t].binary
  IN Audit(Class(pool[t]), Rows(pool[t], b.outcome), Resolvable(t))

\* The hash all traces of the task agree on; without one the check does not apply.
HashFromTraces(t) == IF Cardinality(ran[t]) = 1 THEN ran[t] ELSE {}

\* What is read from the manifest raises if that is missing or torn.
Readable(t) == dirs[t].manifest # None /\ ~dirs[t].manifest.torn

\* Slip: the solution is not tried on the binary.
PassesUntried(t) ==
  LET b == dirs[t].binary
      m == dirs[t].manifest
  IN /\ b # None
     /\ InElf(b, m.decoy) /\ ~Accepts(b, m.decoy)
     /\ SurvivalVerdict(t) # "lost"
     /\ b.stripped = Stripped(pool[t])
     /\ HashFromTraces(t) \subseteq {b}
     /\ pool[t] \in Replicated
     /\ dirs[t].solution # None => Len(m.decoy) = Len(dirs[t].solution)

\* No check of validate() fails.  A check that does not apply fails nothing: without a
\* solution none of it is tried, and "undecided" prints "0/1 confirmed", which passes.
\* Every task of the pool declares its markers, so that flag and decoy are tried.
Passes(t) ==
  LET b == dirs[t].binary
      m == dirs[t].manifest
      flag == dirs[t].solution
  IN /\ b # None
     /\ flag # None => Accepts(b, flag)
     /\ InElf(b, m.decoy)                              \* misleading evidence present
     /\ ~Accepts(b, m.decoy)
     /\ SurvivalVerdict(t) # "lost"
     /\ b.stripped = Stripped(pool[t])
     /\ HashFromTraces(t) \subseteq {b}
     /\ pool[t] \in Replicated                         \* the others carry __audit_ labels
     /\ flag # None => Len(m.decoy) = Len(flag)

\* No two directories share a flag or a binary; a shared decoy is not looked for.
Unshared ==
  \A t, u \in Tasks : t # u =>
     /\ dirs[t].solution # dirs[u].solution \/ dirs[t].solution = None
     /\ dirs[t].binary # dirs[u].binary

ExitZero == (\A t \in Tasks : Readable(t) /\ Passes(t)) /\ Unshared

-----------------------------------------------------------------------------
(* Properties *)

\* Every program that is built accepts its flag and nothing else: the comparison with
\* the decoy decides nothing, whatever the layout does with its result.  The guard of a
\* dead branch may hold of another input (a short one in E3, one whose length overflows
\* in E2 and "opaque"); what the branch compares then is not the decoy.
AcceptsOnlyTheFlag ==
  \A t \in Tasks : dirs[t].binary # None =>
     \A s \in Inputs : Accepts(dirs[t].binary, s) <=> s = dirs[t].binary.draw.flag

\* A pool the validator passes is of one piece, however often the generator was stopped
\* and started over it: in each directory the solution, the decoy of the manifest and
\* the binary are from draws that agree.
PassedPoolAgrees ==
  ExitZero => \A t \in Tasks :
    /\ dirs[t].solution = dirs[t].binary.draw.flag
    /\ dirs[t].manifest.decoy = dirs[t].binary.draw.decoy

\* If the optimiser removed the comparison with the decoy, the pool does not pass.
LostTrapIsNoticed ==
  ExitZero => \A t \in Tasks :
    DecoyRefs(Rows(pool[t], dirs[t].binary.outcome)) # {}

Kept(t) == dirs[t].binary.outcome \in KeptOutcomes

Whole(t) ==
  /\ dirs[t].binary # None /\ Readable(t) /\ Kept(t)
  /\ dirs[t].binary.stripped = Stripped(pool[t])
  /\ dirs[t].solution = dirs[t].binary.draw.flag
  /\ dirs[t].manifest.decoy = dirs[t].binary.draw.decoy
  /\ ran[t] \subseteq {dirs[t].binary}

\* No false alarm: whole directories of the replication generator with different flags
\* pass, the survival of each trap confirmed by the audit and not merely undecided, with
\* the checker's frame kept or inlined, before and after the battery.
SoundPoolPasses ==
  (\A t \in Tasks : pool[t] \in Replicated /\ Whole(t))
    /\ (\A t, u \in Tasks : t # u => dirs[t].solution # dirs[u].solution)
    => ExitZero /\ \A t \in Tasks : SurvivalVerdict(t) = "confirmed"
=============================================================================
