# Verification of the RE-agent harness

The repository is the artifact of a paper on language-model agents that solve
reverse-engineering tasks. An *attempt* gives an agent one binary, a set of
static-analysis tools and **one** scored submission. Three arms are compared:
A0 (tools only), A1 (tools and retrieved pattern cards), A2 (as A1, with a
*submission gate* that sends a candidate back until the agent's own ledger
supports it). The comparison is worth something only if the gate decides on
merit, if the arms differ by nothing else, if the verdict never leaks, if a
trace says what happened and the scripts count what it says, if the tasks hold
the trap they claim to hold, and if the code that ran is the code that was
registered. This directory models the parts of the harness those claims rest on,
checks them with TLC and proves the central ones with TLAPS.

All source paths below are relative to `src/harness/` unless they begin with
`src/`; `synthetic/` stands for `tasks/synthetic/`; `PROJECT.json` maps each definition to the lines it stands for.

## 1. Inventory

| Component | Source | State | Operations | Module |
|---|---|---|---|---|
| Submission gate | `agent/scaffold.py`, `tools/action_whitelist.py`, `tools/note.py` | two append-only ledgers, blocked submissions (in `AgentState`) | `validate`, `record_validation`, `record_hypothesis` | `SubmissionGate` |
| Derivation checks | `agent/derivation_check.py` | none: pure functions of a view of the trace | `build_view`, `evidence_sites`, `check_consumer_observed`, `check_reachability` | `DerivationCheck`, `GuardDialogue` |
| Provenance of candidates | `agent/provenance.py` | bytes of the target | `contains`, `classify_candidate` | in `SubmissionGate` |
| Agent loop | `agent/loop.py`, `tools/registry.py`, `agent/state.py` | steps, tokens, termination reason | `run`, `dispatch`, `record_step`, `persist` | `AgentLoop` |
| Submission controller, oracle | `agent/submit.py`, `agent/adjudicate.py` | submissions | `submit`, `check`, `adjudicate` | `AgentLoop`, `OracleRun` |
| Command execution | `agent/execution.py` (`_run_capped`) | a child process, two pipes, three threads, a deadline | poll, kill, close, join | `CappedRun` |
| Trace file | `loop.py:44-61`, `state.py:259-285` | one path of the file system | reserve, unlink, write | `TraceStore` |
| Policy and conversation | `agent/policy.py`, `agent/policy_openai.py` | committed transcript, pending call id, last injected cards | `propose_action`, `_create_with_retry`, `_retrieve_for_step` | `PolicyTurn` |
| Card retrieval | `agent/retrieval.py` | none | `retrieve_scored` | `Retrieval` |
| Run driver and its gates | `run_pilot.py`, `agent/preflight.py`, `agent/pin_environment.py`, `agent/isolation.py`, `agent/integration_selftest.py` | locks and report on disk, loaded code, staged target | `run_one`, `verify_locks`, `verify`, `validate_report` | `RegisteredRun` |
| Replay of the gate | `analysis/reeval_levels.py`, `analysis/shadow_replay.py` | none: they read traces | `load`, `verdicts_for`, the shadow table | `Replay` |
| Metrics | `analysis/compute_metrics.py`, `src/analysis/recompute_all.py` | none | `per_trace`, `load`, `rate_block`, `gate_blocks` | `Metrics` |
| Task generators | `synthetic/gen_replication.py`, `gen_tc_heldout.py`, `gen_te_heldout.py` | task directories on disk | draw, build, write solution and manifest; the emitted programs | `TaskProgram`, `TaskPool` |
| Compiler-survival audit | `synthetic/audit_compiler_survival.py` | none | `audit_tc`, `audit_te` | `SurvivalAudit` |
| Artifact validation | `tasks/validate_artifact.py` | none | `validate`, the overlap check, the exit status | `TaskPool` |
| Sandbox backends | `agent/execution.py` (bwrap, local) | one private copy of the target | `execute` | not modelled |
| `run_binary`, `trace_binary` | `agent/tools/` | none | not offered to any arm | not modelled |
| Statistics and figures | `analysis/bootstrap_ci.py`, `src/figures/` | none | floating point | not modelled |
| Cards, prompts, verification script, run parameters, container image | `cards/`, `agent/prompts/`, `tasks/`, `agent/docker/` | data | one-off scripts | not modelled |

**How they interact.** The driver passes its gates, stages two copies of the
target and builds policy, registry, controller and loop. Each turn the loop
checks the budgets, asks the policy for one tool call (the policy reads the last
step record and the hypothesis ledger), dispatches it through the registry, and
appends a step record. Shell tools run a child under `_run_capped` and put its
output into the record; the ledger tools append entries; `submit_candidate` goes
through the controller to the gate (A2) and on to the oracle, which runs the
target under `_run_capped` and reads markers off its output. A scored
submission ends the attempt. `persist` writes the whole state as one JSONL file
that all analysis scripts start from: two of them judge the entries again with
the gate's own level checks but their own choice of entry, two count outcomes
and blocks, one from the steps and one from the meta line. Beside all this the
generators fill directories with binary, solution and manifest; the validator
looks at them, at what the survival audit makes of the machine code, and at the
hashes in the traces.

**What is hard.** The gate is a sequential program with a long memory: verdicts
depend on the order in which outputs, entries, blocks and submissions came, and
an attempt has some 40 steps. `_run_capped` is concurrent: two readers, the main
thread, a child that may die, linger, flood or leave a background process, and a
clock. Runners may race for one trace and be killed at any point. The
conversation must stay well-formed through failed calls, retries and quits, with
message objects shared between request and transcript. The driver hashes files
at one time and uses what it loaded at another. The readers of traces repeat
rules that live elsewhere, and repeat them slightly differently. A generator
that is stopped and started again leaves directories made of two draws.

**What makes each part right.** *Gate*: admits exactly the candidates some
well-formed entry of their own supports; neither repetition nor unrelated work
lifts a block; an admission stays; a bounded number of objections; the audit
names the evidence. *Checks*: an entry that is silent on an unavoidable branch
does not pass (true only as far as section 4 says), and an agent that answers gets
through. *Loop*: one scored
submission, a verdict that is never shown, a reason that matches the steps,
always a written trace. *Execution*: the call returns, nothing is left running,
the cap is exact, a verdict rests on a run that ended well. *Trace file*: one
runner, and what is written stays; a trace may be cut short. *Conversation*: each call
answered once with its own result, cards in force the ones retrieved, one cache breakpoint, a prefix that
only grows. *Driver*: what runs is what is locked. *Replay*: an admission is
upheld, and where it judges otherwise than the gate there is a reason. *Metrics*:
the scripts agree with each other and with what happened. *Tasks*: a program
accepts its flag alone; a pool that passes is of one piece and has its traps,
and a sound pool passes.

## 2. Modules

| Module | Models | EXTENDS / composes |
|---|---|---|
| `SubmissionGate` | the gate, its ledgers and every call that writes what it reads; the two levels are operator constants | |
| `DerivationCheck` | both levels and the view, as operators over observations (labels, instructions, entry frames) | |
| `Replay` | the two offline readers that judge the entries of a trace again | `SubmissionGate` |
| `MCSubmissionGate` | gate and replay with the levels of `DerivationCheck` over a small program | `Replay`, `DerivationCheck` |
| `GuardDialogue` | an agent that answers level 2's objections over any routine | `DerivationCheck` |
| `AgentLoop` | the loop, the registry, the controller; all arms | `SubmissionGate`; implements `OneShotAttempt` |
| `Metrics` | what the two scripts that count take from one attempt | `AgentLoop` |
| `CappedRun`, `OracleRun` | one call of `_run_capped`; the verdict read off it | `OracleRun` extends `CappedRun` |
| `TraceStore` | several runners and one trace path | implements `WriteOnceTrace` |
| `PolicyTurn`, `Retrieval` | the conversation; the ranking of cards | `MCPolicyTurn` puts one into the other |
| `RegisteredRun` | the driver, its gates, a maintainer who edits beside it | |
| `TaskProgram` | what the emitted programs print, for every layout of the three generators | |
| `SurvivalAudit` | the audit, over the instructions of a binary | |
| `TaskPool` | generators, battery and validator over the same directories | `TaskProgram`, `SurvivalAudit` |
| `SubmissionGateProofs`, `GuardDialogueProofs`, `AgentLoopProofs`, `CappedRunProofs`, `TraceStoreProofs`, `PolicyTurnProofs`, `RegisteredRunProofs`, `TaskPoolProofs` | the theorems of section 5 | the module they are about (`SubmissionGateProofs` also `Replay`, `GuardDialogueProofs` also `DerivationCheck`, `PolicyTurnProofs` also `Retrieval`) |

### State and actions against the code

*SubmissionGate.* `steps`, `hypotheses`, `ledger`, `blocked`, `submissions` are
the fields of `AgentState`. A step is its tool and what its output shows; a text
is what the levels see of it. Each action is one dispatched call with the
`record_step` that follows: `Analyse`, `RecordHypothesis`, `RecordValidation`,
`BlockSubmission`, `AdmitSubmission`. `Decision` follows the early returns of
`validate` in their order (empty, lifted, no entry, malformed, the levels of the
entry `Judged`, block budget). `CountedReasoning` is empty because
`check_reachability` reads the attribute `hypotheses`, which no `AgentState` has
(finding 1).

*DerivationCheck.* An output is the set of observations that `_record_insn` and
the frame parsing get out of it; recognising them in text is abstracted. The
rest (function boundaries, guards, flag setters, skipped arms, sites, both
checks) is translated line by line. *GuardDialogue* takes a routine of
`Size` instructions with conditional and unconditional jumps and returns, shows the
level what `_record_insn` makes of it (conditional jumps, and all else as plain
instructions), and compares what the level says with the paths through the routine:
a jump is on every path to a site if some set of addresses holds the entry, not the
site, and is left through that jump alone (`OnEveryPath`). The level excuses a branch
that a conditional jump leads over; where unconditional jumps or returns stand before
that jump or between its target and the site, the excuse may be wrong, and
`NoSilentGuard` is about the rest (`Excusable`; section 4 has a routine where it goes
wrong). The routine lies within the reach `MaxSpan` that `function_of`
gives to a routine which no other one follows.

*AgentLoop.* One iteration of the `while` is one step, as nothing runs beside
it. `StopOnSteps`, `StopOnTokens` are the budget hooks in their order,
`PolicyFails` an exception of `propose_action`, `Call...` the dispatch, `CallFails`
an exception of `dispatch`, `Persist` the write-out in the `finally` path. `told`
collects what the policy is shown of the results.

*CappedRun.* The main thread is `Poll`, `Look` (flags, then deadline), `Kill`,
`Wait`, `Close`, `Join` (which gives up on a reader after a second); a reader is
`BeginRead`, `TakeUnit`, `EndRead`, `KeepChunk`, `BeginPeek`, `Peek`. `read(n)` takes units one at a time and returns
with `n` or at the end of the file, holding the lock that `close()` waits for.
Child, background process, pipes and clock are external actions. A call that cannot
start its child has returned from the beginning (`SpawnFails`).

*TraceStore.* A file is a sequence of lines, each named after its writer; a path
names a file. `Unlink`, `Reserve`, `Skip`, `OpenTrace`, `WriteLine`, `CloseTrace`
are the steps of a runner, `Kill` may come at any time. `WriteOnceTrace` is what a reader
of that path may rely on; it does not say that a trace is whole, and the analysis scripts
do count one that was cut short.

*PolicyTurn.* `Ask` builds the next request beside the transcript and moves the
breakpoint (which changes shared messages of the transcript too); `Fails`,
`GivesUp` are the retry loop; `CallsTool`, `CallsNothing`, `CallsGarbled` commit
the turn; `GoesOn`, `LastStep`, `StopsOnBudget` are the loop's side.

*RegisteredRun.* A file is its version, a hash the versions of what it covers.
`Start` loads the code (Python imports), `Preflight`, `Pin`, `Backend`,
`Isolation`, `CheckReport` are the gates, `Stage` the copies, `Attempt` what
follows, which is not much; `Edit`, `RegenerateLock`, `RegeneratePin`, `StartSelfTest`,
`EndSelfTest` are the maintainer's. The eleven hashes of the lock are kept as
three that change independently. `Attempt` ends in the exception of
`run_pilot.py:195`; the clean-up in the `finally` behind it is left out.

*Replay* and *Metrics* have no state and no actions: the scripts read a finished
trace and compute. They are operators over the state the trace is written from,
and their properties are invariants of `SubmissionGate` and of `AgentLoop`, so
that they are checked on every trace those can end in (and, as nothing depends on
the attempt being over unless `persisted` says so, on every unfinished one).
`AsRead` is `load` with its `or -1`; `MineUpTo`, `Reconsidered`, `WouldBlock` are
`verdicts_for` and the count; `ShadowEntry` the first entry, which is what
`shadow_replay.py` looks at. `MC2Decisions`, `MC2Correct` are the two branches of
`per_trace`; `AcceptedRunBefore` looks for an accepting step of `run_binary` among the
steps, and as `ToolRegistry.tool_names` gives that tool to no arm there is none
(finding 4).

*TaskProgram.* A program is the record of what its generator drew. `Gate` is the
gate that decides, in both forms: the table as Python computes it from the flag
(`RollingCt`, `BuildTarget`) and the loop over the input as C runs it
(`RollingGate`, `TrueGate`), on bytes. `Guard` is the condition of each dead
branch with the widths of C (`HalfWord` for `unsigned`, `Word` for
`unsigned long`); `Correct` says what each layout does with the comparison.

*SurvivalAudit.* The code of a binary is its instructions in the order of their
addresses; what an operand points at is part of the instruction. The three
verdicts are "confirmed", "lost" and "undecided".

*TaskPool.* `Start`, `Build`, `BuildFails`, `WriteSolution`, `OpenManifest`,
`DumpManifest` are the steps of a generator's `main` in their order, `Interrupt`
stops it between any two, and a second `Start` goes over the same directories with
new draws. `Attempt` is a run that records the hash of the binary it finds. The
validator has no state: `ExitZero` says of every state what it would find there.

Definitions headed *Slip* are plausible mistakes in the place of the definition
after them. No specification uses them: put in its place, each must break the
property that `PROJECT.json` pairs it with, which shows that the property looks
at the code it is about.

## 3. Runs

| Run | Question and result | Bounds |
|---|---|---|
| `gate` | Several candidates at once (lifted, plain, too short), every order of outputs, entries and submissions, every sort of citation: merit decides, nothing counts for another candidate, the audit is in order, abstention is earned, an admission stays, only an entry lifts a block; the replay upholds admissions and lifts blocks for a reason; the shadow table disagrees only on repaired entries. Holds (about 350,000 states). | 4 steps: output, entry, output, submission, or two entries and a block between; citations -1 (none), 0 (read back as none), 1; budget 1 so that it is exhausted |
| `gate_doc_reasoning` | Does a recorded hypothesis that names the guard count? It does not (finding 1). | 6 steps |
| `dialogue` | Routines with conditional and unconditional jumps and returns, all exchanges: level 2 passes no entry that is silent on an unavoidable guard, excuses outside straight code apart; answering ends. Holds (96,768 states). | 1,536 routines of 6 instructions, the combinations of 3 or 4 choices for 5 of the addresses and 2 for the last (`MCPrograms`): branches that overlap, nest, join, loop back, end, or whose target is unknown, with arms that a `jmp` or a return closes; without `Excusable` the run finds a violation; the window of flag setters is 1 |
| `loop` | All arms, any policy: reason and steps agree, tokens overshoot by one call at most, the arms differ by the gate alone, one-shot, always written; the two scripts count the same and what happened, the gated ledger is complete, a run that came back brought evidence. Holds (about 480,000 states). | 4 steps, 2 of them may block; three candidates, the empty one among them; cost 0 or 2 against a ceiling of 5, so it is passed by 1 |
| `loop_doc_rate` | Is a solved attempt of arm A2 a correct decision of its gate, as the test of the script expects? Never (finding 4). | as `loop` |
| `target_run` | Every interleaving of one run of the target, and its verdict: exact cap, a reason for each kill, nothing left running, the call returns, acceptance only of a run that ended well. Holds (about 1,160,000 states). | 3 units against caps of 1 and 2 and reads of 2: below, at, one and two beyond the cap, within a read and across reads |
| `capped_doc_partial` | Is lost output always flagged? No (finding 2). | as above, pipe of 2 |
| `store_runners` | Three runners, kills at any point, no `--overwrite`: one runs, what is written stays, a reader finds a beginning of one run's trace at any time. Holds (555 states). | 3 runners, 3 lines |
| `policy` | Both providers, all arms, failures and quits: calls answered once, cards in force, events keyed right, requests only grow, turns end. Holds. | 4 turns, 1 retry; texts with equal, other and no cards, so that X, nothing, X occurs |
| `pilot` | Any options, one to three arms, a maintainer at any moment: an undisturbed registered run uses what is anchored, and goes by a report of itself. Holds (about 2,870,000 states). | 2 versions, 1 edit (re-locks, re-pins and self-tests unbounded), which suffices for loaded # disk # lock |
| `pool` | All fifteen layouts; a generator stopped anywhere and started again, builds that fail, a compiler that keeps, inlines, moves or removes the trap, runs in between: a program accepts its flag alone; a pool that passes is of one piece and has its traps; a sound pool passes, its traps confirmed by the audit. Holds (about 260,000 states). | pools of one directory of each layout and of two of the replication generator; flags of 8 and 9 bytes that differ in one, inputs of 0 to 41 bytes, past the clamp of E1 and the overflow of E2; an `unsigned long` of 15 bits with multiplier and salt scaled to it, so that the product wraps; modulus 3; 2 starts |
| `pilot_doc_anchor` | Does drift of any code fail closed? No (finding 3). | as `pilot` |

Deadlock is checked for `target_run` and `capped_doc_partial`, where a call that
hangs is a state without a successor (`Returned` stutters at the end). The other
systems stop for good: an attempt, a dialogue, a runner, a run and a generator
end. `TaskPool` states no fairness: all that is asked of it is safety.

### Fairness

* `FairLoopSpec` has weak fairness of the loop's next step: it is one sequential
  program, every tool is cut off by its time-out, every model call by the
  client's. A killed process is `TraceStore`'s business.
* `FairPolicySpec`: the same, for a turn; `failures` is bounded by the code.
* `CappedRun` has weak fairness of the main thread, of each reader and of the
  passing of the deadline. The child owes nothing: it may run, write or wait for
  ever, and `CallReturns` holds all the same.
* `GuardDialogue` has weak fairness of `Answer`: it asks whether an agent that
  keeps answering gets through, not whether an agent does.

## 4. Findings

1. **`derivation_check.py:370`**: `getattr(state, "hypotheses", [])` against the
   field `hypothesis_ledger` (`state.py:236`): no recorded hypothesis ever counts
   for level 2, though the docstring says that the agent's own recorded text
   does. The replay script gives its stand-in state the attribute, so replayed
   and live verdicts differ.
2. **`execution.py:197`**: the streams are closed before the readers are joined;
   a reader between two reads loses the rest of the output and no flag says so.
3. **`preflight.py:125`**: the list of hashed files omits `derivation_check.py`
   and `provenance.py`, the very checks of the gate.
4. **`analysis/compute_metrics.py:176`**: the rate of correct gate decisions counts an
   accepted submission as right only if an earlier step of `run_binary` accepted the same
   value. No arm has that tool, so a solved attempt of arm A2 is a wrong decision of its
   gate, without exception, and the rate falls with every win. `test_metrics.py:8,80`
   expects 1.0 of a solved attempt, on a hand-made trace that no run of this harness
   can write.

Divergences between text and code that were met on the way and are not run:
the comment on the block budget (`scaffold.py:106-109`, "allowed through") against
the abstention of `160-169`; the citation of an "analysis step"
(`scaffold.py:15-16`) against any earlier step (`187`); "never penalised"
(`submit.py:4-6`) against the step a block costs (`loop.py:113`); "stop on an
accepted submission" (`loop.py:10`) against any scored one (`106`); the reservation against parallel runs
(`loop.py:46-48`), which `--overwrite` removes (`54`); a leftover that is said to
be empty (`loop.py:48-49`) and may hold some lines (`state.py:281`), which
`recompute_all.py` (86-105) then counts as an attempt; the wall
time-out (`execution.py:13`), which a process that left the group with an open
pipe can hold up in the unsandboxed backend (`199`; hence `CanEscape = FALSE`,
which `--unshare-pid` justifies for registered runs); the fail marker
(`adjudicate.py:11`) beyond the output cap (`submit.py:106` does not look at it);
"UNDECIDED (inspect; do NOT ship on this evidence)"
(`synthetic/audit_compiler_survival.py:360-361`) against the validator, which finds
the word "confirmed" in "0/1 confirmed, 1 undecided" and passes
(`tasks/validate_artifact.py:171-175`), although only a pass with nothing skipped is to be
one (`31-34`); traces that disagree on the hash, which
"must not pass silently" (`validate_artifact.py:80-82`), against the N/A that fails
nothing (`194-198`); "each is
provably unsatisfiable over the whole path, so the branch is dead"
(`synthetic/gen_te_heldout.py:96-97`, and `119` for E3) against the model and the code:
the guard of E3 holds of short inputs (seven bytes 127), that of E2 of inputs whose
squared length overflows an `unsigned`, and the opaque one likewise. The branch is
entered then; it accepts nothing, because what it compares is not the decoy, whose guard
is false (`GuardFalse`). What is checked and proved is this weaker fact
(`AcceptsOnlyTheFlag`), not the one the docstring states. The models behave as the code
does in all of these.

Two more deserve a paragraph.

*The level's excuses.* `skipped_between` says that if the site lies at or beyond the
target of an accounted jump, "control reached the site by taking" it
(`derivation_check.py:136-138`), and the module docstring that the gate eliminates "the
silent version, where the guard is never mentioned at all" (`41-42`). Neither holds of all
code, since `jmp` and `ret` are no different from other instructions to the level. Of

    1: jcc 5    2: ...    3: jcc 7    4: jmp 6    5: ret    6: the site

every path to 6 falls through 1 and passes 3; an entry that names 1 and 6 passes, because
1 jumps over 3 and its target lies before 6, while it is never mentioned that 3 decides.
The `dialogue` run without `Excusable` finds such routines; `NoSilentGuard` and
its theorem say where the level is right. That it is said of straight code alone is a
limit of the level, not of the proof.

*The driver.* `run_pilot.py:195` uses the name `spec`, which is neither a parameter of
`_build_run_meta` nor a global: every attempt ends in a `NameError` before its loop is
built, against "run A0/A1/A2 on a verified task, persist the trace" (`2-4`). (The recorded
runs predate the line, as its comment says.) `Attempt` has it. And the two
copies and the scratch directory are made before the `try` whose `finally` removes them
(`295-297`), so a failure in between leaves some of them; that is by reading.

## 5. Proofs

All theorems hold for every value of the constants that the named assumptions
admit. They are checked to the last leaf.

**`SubmissionGateProofs`** (any values, texts, outputs, bounds and switches, and
any two level checks that return Booleans). `GateInv` is `TypeOK` with
`LedgerInPast`: every entry was written at a step recorded since. It is needed
because `Newest` chooses among step numbers, and because the view of an entry
stays the same only if it lies in the past. From it: `MeritAlwaysDecides`
(`JudgedIsGood`: the search finds a passing entry if there is one),
`AdmissionStays` and `OnlyEvidenceLifts` (`EntryStable`: a step changes nothing
about the entries there are), `BudgetHolds`, `AbstentionEarned` (a block appended
under one code leaves all other counts alone), `AuditSound`.

The same module proves the replays, for any gate as above. `ReplayInv` adds to
`GateInv` what the audit of an admission says, that there is one submission at most,
and that no two entries were written at one step. `ReplayAgreesOnAdmission` and
`ShadowLooksAtTheFirst` need more of the levels than that they return Booleans:
`LevelsOnlyObject` says that an entry which passes with its citation passes without,
and that more reasoning raises no objection. The lemmas `CitationOnlyNames` and
`ReasoningOnlyAccounts` (in `GuardDialogueProofs`) prove both of `DerivationCheck`, for
every text, citation and view. `LiftsHaveAReason` holds for any levels; its
`BlocksInv` keeps, for each block, that no well-formed entry before it passed
(`Objected`), which is not visible in the block itself.

**`GuardDialogueProofs`** (routines of any length up to `MaxSpan`, any
conditional and unconditional jumps and returns, any window of flag setters).
`DialogueInv` keeps the routine and the mentions in it.
`NoSilentGuardHolds` goes by the paths: `JumpedOver` shows that a jump from before j
over j to the site or short of it, where code runs straight down to the jump and from its
target (`Excusable`, `FallThrough`), gives a path that does not meet j, so a branch which
is on every path is not excused by it. Without that hypothesis the statement is false
(section 4). That the exchange ends is liveness and stays with TLC,
but its measure is proved: `AnswersAreNew` (each answer strictly reduces the jumps
not named, nothing is taken back, an entry that names all passes),
`ObjectionsCanBeAnswered` (as long as it does not pass there is an answer) and
`AnswersAreBounded` (an agent that only answers gives no more answers than the
routine has conditional jumps).

**`AgentLoopProofs`** (any arms, candidates, costs, ceilings and levels). `LoopInv`
is `GateInv`, `LoopTypeOK`, and three parts: `Submitted` (no submission, or one and the
reason it gives), `Ended` (reason against steps and tokens) and `ArmInv` (what arm
A2 scored its gate admits now, since an admission stays). `BlockInv` relates blocks
and submissions to the step lines that carry them, for the scripts that read these.
From them: `ReasonIsTheTraces`, `TokensBounded`, `OnlyTheGateDiffers`, the refinement
`LoopImplementsOneShot`, and the three theorems about what the scripts count:
`CountsAgree`, `GateCompletesTheLedger`, `ComesBackWithEvidence`.
`VerdictStaysHidden` is proved and no run spends states on it.

**`CappedRunProofs`** (any caps, chunk and pipe sizes, any output, whether or not a
background process escapes its group). `RunInv` has a part per reader (`ReaderInv`:
what it kept, took and is about to look at; `over` is set on output beyond the cap
alone) and one for the main thread (`MainInv`: what it knows of the child at each
place, and why it went on to the kill). From it: `LimitExact`, `KillExplained`,
`GroupIsDead`, and of the oracle `AcceptanceIsEarned`.

**`TraceStoreProofs`** (any number of runners and lines; assumption
`Overwriting = {}`, without which the theorems are false). `StoreInv` says that
whoever runs holds the path and that what is under it is a prefix of the
holder's trace. From it: `OneRunner`, `TraceStaysWritten` and the refinement
`StoreImplementsWriteOnce`, whose mapping shows the file as it is on disk at every
moment, empty or cut short included (`OneMoreLine`: a line that is written makes a
beginning of a trace into a longer one).

**`PolicyTurnProofs`** (any library and ranking, any number of turns and
retries). `PolicyInv` types the state and bounds the steps while a call is out;
`TalkInv` says that transcript and request pair each call with its answer except
the last, which waits for the step that `pending` names; `MarkInv` that marks
stand on the last message at most. From them: `PolicyTypeCorrect`,
`CallsAreAnswered`, `BreakpointIsUnique` (proved, not run).

On the same instances, of requests and cards: `GrowInv` says that between requests the
committed transcript repeats the last one, `EventInv` at which step each hypothesis
was recorded, `CardInv` that the cards named by `injected` are those of the last
block, and since when they have been what is retrieved: `CardsInForce` speaks of
requests alone, and between two of them only that marker remembers. From them:
`RequestsRepeat`, `EventsKeyedEarlier`, `CardsAreInForce`. `BlockInv` adds what
`BlocksAreSentOnce` needs (proved, not run). `RetrievedAreTheBest` is about the ranking
of `Retrieval`, for any finite library and any scores: what is retrieved are the best
K cards, each once, in the order of their ranks. A rank counts the cards ahead of a
card: of two cards one has strictly fewer ahead of it, so no rank is given twice, and
there are as many ranks as cards, so each is given (`RanksAreDistinct`).

**`RegisteredRunProofs`** (any versions, images, arms and number of edits).
`PilotInv` has three parts: while nobody disturbs the run what it loaded is what
is on disk; a gate behind it still holds; the running self-test, if undisturbed,
tests what it is going to hash. `RunsWhatIsLocked` is not inductive without the
first two: a comparison of disk and lock says nothing of what was loaded
before it. From these: `PilotTypeCorrect`, `LockedCodeRuns`, `ReportCounts`. Both are about
runs that nobody disturbs; a run during which a file is edited and locked again can use
what is not locked, and a self-test disturbed likewise vouches for code it did not test.

**`TaskPoolProofs`** (any layouts, flags, keys, transforms and inputs; any compiled
form of the decoy's branch; pools of any size). What a program computes runs through
a string byte by byte, so its core is induction over positions, put as a least
counterexample (`LeastNat`, `UpTo`); `RecursionExists` shows that the recursive
functions of the model are there to be chosen, from which `KeyAtIs` and
`AccumulatedIs` give their equations. `XorInjective`, `TransformedInjective`,
`RollingOnly` and `TransformOnly` show that each gate takes its flag alone,
`OpaqueFalse` and `GuardFalse` that the guard of a dead branch fails of the decoy, by the residues
(`SquareMod7`: no square leaves 5) or by the bound on what is accumulated
(`AccumulatedBound`). Together: `EmittedAcceptsOnlyFlag`. `PoolInv` says that what is in
a directory was drawn for its layout and that no manifest is there without its
solution, which is all that is left after a generator was stopped; it gives
`PassedPoolAgrees`, because a solution that the binary accepts is the flag it was
drawn with. `LostTrapIsNoticed` needs no invariant: it says that none of the
validator's paths to status 0 leads past the audit. `SoundPoolPassesHolds` says that the
audit then confirms every trap, and does not merely leave it undecided.

Three assumptions carry the facts a proof needs of the data, each true of the code
that draws it (and evaluated by TLC on `pool`). `ProgramAssumption`: exclusive or with a
byte can be undone, the table is one to one. `DrawAssumption`: flags
have the form `FLAG{word_word_number}` (`gen_replication.py:233`,
`gen_tc_heldout.py:315`, `gen_te_heldout.py:255`), so they have 8 bytes or more and are
too short for the guards to overflow on them. `KeptAssumption` says of the machine code
what "kept" means: an instruction takes the address of the decoy, from the code or
through a pointer, and there is a conditional jump, soon after it in T-C, that of the
branch around the comparison in T-E. That the audit then finds both is proved, not
assumed.

Model-checked only: liveness (`TraceIsWritten`, `CallReturns`, `AnswersEnd`,
`TurnEnds`), which is beyond the prover. Every invariant and every action property
that a run checks is a theorem.

## 6. Not modelled, and why

* Recognising disassembly in text (`derivation_check.py`), the objdump parsing of the
  survival audit, word scores of the retrieval, prompts, messages: data whose
  wording the properties do not tell apart. What is recognised is modelled.
* The isolation of bubblewrap: a property of the kernel; its self-test appears as a
  verdict. The twenty checks of the integration self-test: external tools.
* `run_binary` and `trace_binary`: not offered to any arm.
* The meta record of a trace and what follows it in the driver: unreachable behind
  `run_pilot.py:195`, as is the second reading of the report (`run_pilot.py:282`).
* An endpoint that answers with several calls against `parallel_tool_calls=False`:
  the code takes the first and counts the others; what the endpoint makes of a
  conversation in which those stay unanswered is its own.
* `audit_tf`: no generator makes the tasks it is for. The validator's searches for
  tell-tale words: every generated source meets them by its wording, except for the
  `__audit_` labels of the held-out pools, which are modelled. Branches of the validator
  that the shipped pool does not reach: a task without markers (all of
  `pilot_tasks.json` declare them), an audit that is not there or raises. A stop while a
  solution is being written leaves an empty script, which fails the validator.
* The temporary directories of the driver and their removal (`rmtree` with
  `ignore_errors`): reading shows what is left when (section 4).
* Aggregation over attempts, intervals, tests of significance, figures: arithmetic
  on numbers that no state depends on. Labels given by hand: data.
* `verify.py`, `gen_run_params.py`, the card validator, the environment report, the
  container image: one-off scripts over shipped data, and build files.

## 7. Plan

Done: the gate and its replay, the loop and its metrics, execution and oracle, trace
file, conversation, driver, task pool; all their safety properties as theorems. What is left, in this order:

1. The gate's budget with the dialogue. The reason an agent is sent names no guard
   (`agent/scaffold.py:63-66`; the addresses go into the audit alone), and each address it
   names is a site with guards of its own. That one answer per conditional jump
   is enough is proved (`AnswersAreBounded`); but with jumps at 1, 2 and 3 to 3, 4 and 5
   and one of unknown target at 4, an entry about 5 takes all four, one more than
   the budget of three blocks leaves. Which shapes of routines a thorough agent gets
   through in time is to be stated and proved, over `SubmissionGate`.
2. The tool side: `ShellTool.run` with its argument errors, backends and the copy
   of the target per call, on top of `CappedRun`.
3. `Metrics` over the traces that are empty or cut short which `WriteOnceTrace` allows:
   `recompute_all.py` counts a cut trace by its meta line and its blocks by the steps
   that are there; of an empty file `recompute_all.py` makes nothing, `compute_metrics.py` an attempt without an
   arm, `shadow_replay.py` an `IndexError`.
4. The attempt behind `run_pilot.py:195`, once that line is repaired: meta record,
   skip of a reserved trace, and its composition with `TraceStore`.
