--------------------------- MODULE RegisteredRun ----------------------------
(***************************************************************************)
(* The driver of a run (harness/run_pilot.py, run_one) and the gates it    *)
(* has to pass: the preflight lock (preflight.py), the environment pin     *)
(* (pin_environment.py), the isolation self-test (isolation.py) and the    *)
(* integration report (integration_selftest.py).                           *)
(*                                                                         *)
(* The gates compare files; the driver's process uses what it has loaded   *)
(* from them, at its start or later, while maintainers may edit the files, *)
(* rewrite the locks and run the self-test.  A file is its version, a hash *)
(* of files the versions of all of them; an image stands for all that the  *)
(* environment pin records.  A lock also remembers the files it does not   *)
(* hash, which no action looks at but DriftFailsClosed does.               *)
(***************************************************************************)
EXTENDS Integers, Sequences, FiniteSets

CONSTANTS
  Versions,   \* what a file may contain
  Images,     \* the containers with a digest of their own
  Arms,       \* the arms that may be asked for by name
  MaxEdits,   \* bound on the edits of the maintainers
  None        \* no report, no self-test

VARIABLES
  files,      \* what is on disk
  lock,       \* preflight_lock.json
  envLock,    \* environment_lock.json: its image
  report,     \* integration_report.json
  testing,    \* the self-test that runs
  edits,      \* edits so far
  options,    \* the image and the command line of the run
  arms,       \* the arms to run
  phase,      \* where run_one is
  used,       \* what the process has loaded of each file
  accepted,   \* the report it read
  outcome,    \* how it ended
  calm        \* nobody has changed a file or the pin since it started

shared == <<files, lock, envLock, report, testing, edits>>
run == <<options, arms, phase, used, accepted, outcome>>
vars == <<shared, run, calm>>

-----------------------------------------------------------------------------
(* "checks" are derivation_check.py and provenance.py, "runtime" is the    *)
(* code besides, "cards" the library and "target" the binary.              *)
Code == {"runtime", "checks"}
Files == Code \cup {"cards", "target"}

\* What the preflight lock hashes, and what of it is code (runtime_files).
Anchored == {"runtime", "cards", "target"}
RuntimeCode == {"runtime"}

NoImage == "unset"
NotLoaded == "not loaded"
Absent == "absent"

Attested == [ok : BOOLEAN, runtime : Versions, image : Images \cup {NoImage},
             env : Images \cup {NoImage}, tested : Versions, calm : BOOLEAN]

ASSUME PilotAssumption ==
  /\ MaxEdits \in Nat /\ Arms \subseteq {"A0", "A1", "A2"}
  /\ Versions # {} /\ Absent \notin Versions /\ NotLoaded \notin Versions

SharedTypeOK ==
  /\ files \in [Files -> Versions \cup {Absent}] /\ lock \in [Files -> Versions \cup {Absent}]
  /\ \A f \in Files \ {"target"} : files[f] # Absent /\ lock[f] # Absent
  /\ envLock \in Images \cup {NoImage}
  /\ report = None \/ report \in Attested
  /\ testing = None \/ testing \in [image : Images \cup {NoImage}, runtime : Versions, calm : BOOLEAN]
  /\ edits \in 0 .. MaxEdits

RunTypeOK ==
  /\ options \in [image : Images \cup {NoImage}, drift : BOOLEAN, local : BOOLEAN]
  /\ arms \in Seq({"A0", "A1", "A2"})
  /\ phase \notin {"idle", "arm", "ended"} => arms # <<>>
  /\ phase \in {"idle", "arm", "preflight", "pin", "backend", "isolation", "report",
                "staging", "attempt", "ended"}
  /\ used \in [Files -> Versions \cup {Absent, NotLoaded}]
  /\ accepted = None \/ accepted \in Attested
  /\ outcome \in {"running", "done", "refused", "unavailable", "unstaged", "crashed"}
  /\ calm \in BOOLEAN

TypeOK == SharedTypeOK /\ RunTypeOK

-----------------------------------------------------------------------------
(* The maintainers *)

Disturbs == calm' = (calm /\ phase = "idle")

Edit(f) ==
  /\ edits < MaxEdits /\ edits' = edits + 1
  /\ \E v \in Versions \cup (IF f = "target" THEN {Absent} ELSE {}) :
       v # files[f] /\ files' = [files EXCEPT ![f] = v]
  /\ testing' = IF testing = None THEN None ELSE [testing EXCEPT !.calm = FALSE]
  /\ Disturbs
  /\ UNCHANGED <<lock, envLock, report, run>>

\* python -m agent.preflight --regenerate
RegenerateLock ==
  /\ lock' = files
  /\ UNCHANGED <<files, envLock, report, testing, edits, run, calm>>

\* python -m agent.pin_environment --regenerate, in some container
RegeneratePin ==
  /\ \E image \in Images \cup {NoImage} : image # envLock /\ envLock' = image
  /\ Disturbs
  /\ UNCHANGED <<files, lock, report, testing, edits, run>>

\* python -m agent.integration_selftest: it runs the code it has loaded and hashes the
\* files, the pin included, when it is done.
StartSelfTest ==
  /\ testing = None
  /\ \E image \in Images \cup {NoImage} :
       testing' = [image |-> image, runtime |-> files["runtime"], calm |-> TRUE]
  /\ UNCHANGED <<files, lock, envLock, report, edits, run, calm>>

EndSelfTest ==
  /\ testing # None
  /\ \E ok \in BOOLEAN :
       report' = [ok |-> ok, runtime |-> files["runtime"], image |-> testing.image,
                  env |-> envLock, tested |-> testing.runtime, calm |-> testing.calm]
  /\ testing' = None
  /\ UNCHANGED <<files, lock, envLock, edits, run, calm>>

-----------------------------------------------------------------------------
(* The run *)

Load(F) == used' = [f \in Files |-> IF f \in F THEN files[f] ELSE used[f]]

Ends(how) == phase' = "ended" /\ outcome' = how

Goes(to) == phase' = to /\ UNCHANGED outcome

\* The imports of run_pilot.py, and the command line.
Start ==
  /\ phase = "idle"
  /\ \E image \in Images \cup {NoImage}, drift, local \in BOOLEAN :
       options' = [image |-> image, drift |-> drift, local |-> local]
  /\ arms' \in {<<arm>> : arm \in Arms} \cup {<<"A0", "A1", "A2">>}
  /\ Load(Code)
  /\ Goes("arm")
  /\ calm' = TRUE
  /\ UNCHANGED <<shared, accepted>>

\* run_one is called for the next arm; without a binary it returns.
NextArm ==
  /\ phase = "arm"
  /\ IF arms = <<>> THEN Ends("done") /\ UNCHANGED arms
     ELSE IF files["target"] = Absent THEN Goes("arm") /\ arms' = Tail(arms)
     ELSE Goes("preflight") /\ UNCHANGED arms
  /\ UNCHANGED <<shared, options, used, accepted, calm>>

\* A gate that --allow-drift turns into a warning.
Gate(at, holds, to) ==
  /\ phase = at
  /\ IF holds \/ options.drift THEN Goes(to) ELSE Ends("refused")

\* Slip: what is compared is the code that runs, the data on disk are taken on trust.
LockHoldsForCode == \A f \in RuntimeCode : lock[f] = files[f]

LockHolds == \A f \in Anchored : lock[f] = files[f]

Preflight ==
  /\ Gate("preflight", LockHolds, "pin")
  /\ UNCHANGED <<shared, options, arms, used, accepted, calm>>

PinHolds == envLock = options.image /\ envLock # NoImage

Pin ==
  /\ Gate("pin", PinHolds, "backend")
  /\ UNCHANGED <<shared, options, arms, used, accepted, calm>>

\* Arms A1 and A2 read the cards; bubblewrap may be missing.
Backend ==
  /\ phase = "backend"
  /\ Load(IF Head(arms) = "A0" THEN {} ELSE {"cards"})
  /\ \/ ~options.local /\ Goes("isolation")
     \/ ~options.local /\ Ends("unavailable")
     \/ options.local /\ Goes("staging")
  /\ UNCHANGED <<shared, options, arms, accepted, calm>>

Isolation ==
  /\ phase = "isolation"
  /\ Goes("report") \/ Ends("refused")
  /\ UNCHANGED <<shared, options, arms, used, accepted, calm>>

\* Slip: the report is accepted whatever environment lock it was made under.
FreshForAnyPin ==
  /\ report # None /\ report.ok
  /\ report.runtime = files["runtime"] /\ report.image = options.image

Fresh ==
  /\ report # None /\ report.ok
  /\ report.runtime = files["runtime"] /\ report.image = options.image
  /\ report.env = envLock

CheckReport ==
  /\ Gate("report", Fresh, "staging")
  /\ accepted' = report
  /\ UNCHANGED <<shared, options, arms, used, calm>>

\* The copies of the target; making them, or the scratch directory, may fail.
Stage ==
  /\ phase = "staging"
  /\ IF files["target"] = Absent
     THEN Ends("unstaged") /\ UNCHANGED used
     ELSE Load({"target"}) /\ (Goes("attempt") \/ Ends("unstaged"))
  /\ UNCHANGED <<shared, options, arms, accepted, calm>>

\* _build_run_meta names a variable it does not have, `spec`: the attempt raises before
\* its loop is made, and the process ends.
Attempt ==
  /\ phase = "attempt"
  /\ Ends("crashed")
  /\ UNCHANGED <<shared, options, arms, used, accepted, calm>>

Init ==
  /\ \E v \in Versions : files = [f \in Files |-> v] /\ lock = files
  /\ envLock \in Images \cup {NoImage}
  /\ report = None /\ testing = None /\ edits = 0
  /\ options = [image |-> NoImage, drift |-> FALSE, local |-> FALSE]
  /\ arms = <<>> /\ phase = "idle"
  /\ used = [f \in Files |-> NotLoaded]
  /\ accepted = None /\ outcome = "running" /\ calm = TRUE

\* Of no consequence, and left out, once the run has ended.
Maintain ==
  /\ phase # "ended"
  /\ ( \/ \E f \in Files : Edit(f)
       \/ RegenerateLock \/ RegeneratePin \/ StartSelfTest \/ EndSelfTest )

Pilot ==
  \/ Start \/ NextArm \/ Preflight \/ Pin \/ Backend \/ Isolation
  \/ CheckReport \/ Stage \/ Attempt

Next == Maintain \/ Pilot

PilotSpec == Init /\ [][Next]_vars

-----------------------------------------------------------------------------
(* Properties *)

\* registered_grade: no gate was talked down, and the sandbox was not left out.
Registered == ~options.drift /\ ~options.local

\* A registered run that nobody disturbs reaches an attempt only with the
\* code, the cards and the target that the lock anchors, though the gates look at the
\* disk and the process at what it loaded, before or after (preflight.py, run_one).
RunsWhatIsLocked ==
  phase = "attempt" /\ Registered /\ calm =>
    \A f \in Anchored : used[f] # NotLoaded => used[f] = lock[f]

\* The report such a run went by is of a self-test that passed, in this image and under
\* this pin, and, if nobody disturbed the self-test, of the code the run uses (run_one,
\* validate_report).
ReportIsOfThisRun ==
  phase = "attempt" /\ Registered /\ calm =>
    /\ accepted # None /\ accepted.ok
    /\ accepted.image = options.image /\ accepted.env = envLock /\ PinHolds
    /\ accepted.calm => accepted.tested = used["runtime"]

-----------------------------------------------------------------------------
(* What the documentation says of the program *)

\* A registered run fails closed on a change of any file that affects it
\* (preflight.py, module docstring and the comment on the broad anchor).
DriftFailsClosed ==
  phase = "attempt" /\ Registered /\ calm =>
    \A f \in Code : used[f] = lock[f]
=============================================================================
