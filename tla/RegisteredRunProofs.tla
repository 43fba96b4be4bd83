------------------------ MODULE RegisteredRunProofs -------------------------
(***************************************************************************)
(* Proofs about RegisteredRun, for any number of versions, images and      *)
(* edits.  The gates look at the disk, the process at what it loaded; the  *)
(* invariant says what ties the two together while nobody disturbs the     *)
(* run, gate by gate.                                                      *)
(***************************************************************************)
EXTENDS RegisteredRun, TLAPS

\* The phases behind each gate.
BehindLock == {"pin", "backend", "isolation", "report", "staging", "attempt"}
BehindPin == BehindLock \ {"pin"}
BehindReport == {"staging", "attempt"}

\* What was loaded is what is on disk.
LoadedIsOnDisk ==
  /\ phase = "idle" => \A f \in Files : used[f] = NotLoaded
  /\ phase # "idle" /\ calm =>
       /\ used["runtime"] = files["runtime"]
       /\ \A f \in Files : used[f] # NotLoaded => used[f] = files[f]

GatesHold ==
  Registered /\ calm =>
    /\ phase \in BehindLock => LockHolds
    /\ phase \in BehindPin => PinHolds
    /\ phase \in BehindReport /\ ~options.local =>
         /\ accepted # None /\ accepted.ok
         /\ accepted.runtime = files["runtime"]
         /\ accepted.image = options.image /\ accepted.env = envLock

\* A self-test that nobody disturbed tested what it then hashed.
TestsWhatItHashes ==
  /\ testing # None /\ testing.calm => testing.runtime = files["runtime"]
  /\ report # None /\ report.calm => report.tested = report.runtime
  /\ accepted # None /\ accepted.calm => accepted.tested = accepted.runtime

PilotInv == LoadedIsOnDisk /\ GatesHold /\ TestsWhatItHashes

LEMMA PilotInvInit == Init => PilotInv
BY DEF Init, PilotInv, LoadedIsOnDisk, GatesHold, TestsWhatItHashes, BehindLock, BehindPin, BehindReport

\* The maintainers.
LEMMA MaintainKeeps == PilotInv /\ TypeOK /\ Maintain => PilotInv'
<1> SUFFICES ASSUME PilotInv, TypeOK, Maintain PROVE PilotInv'
  OBVIOUS
<1> USE DEF PilotInv, run
<1>1. ASSUME NEW f \in Files, Edit(f) PROVE PilotInv'
  <2>1. calm' => phase = "idle" /\ phase' = "idle"
    BY <1>1 DEF Edit, Disturbs
  <2>2. LoadedIsOnDisk'
    BY <1>1, <2>1 DEF Edit, LoadedIsOnDisk
  <2>3. GatesHold'
    BY <2>1 DEF GatesHold, BehindLock, BehindPin, BehindReport
  <2>4. testing' # None => testing'.calm = FALSE
    BY <1>1 DEF Edit, TypeOK, SharedTypeOK
  <2>5. TestsWhatItHashes'
    BY <1>1, <2>4 DEF Edit, TestsWhatItHashes
  <2> QED
    BY <2>2, <2>3, <2>5
<1>2. CASE RegenerateLock
  <2>1. LoadedIsOnDisk' /\ TestsWhatItHashes'
    BY <1>2 DEF RegenerateLock, LoadedIsOnDisk, TestsWhatItHashes
  <2>2. LockHolds'
    BY <1>2 DEF RegenerateLock, LockHolds
  <2>3. GatesHold'
    BY <1>2, <2>2 DEF RegenerateLock, GatesHold, Registered, PinHolds
  <2> QED
    BY <2>1, <2>3
<1>3. CASE RegeneratePin
  <2>1. calm' => phase = "idle" /\ phase' = "idle"
    BY <1>3 DEF RegeneratePin, Disturbs
  <2>2. LoadedIsOnDisk' /\ TestsWhatItHashes'
    BY <1>3, <2>1 DEF RegeneratePin, LoadedIsOnDisk, TestsWhatItHashes
  <2>3. GatesHold'
    BY <2>1 DEF GatesHold, BehindLock, BehindPin, BehindReport
  <2> QED
    BY <2>2, <2>3
<1>4. CASE StartSelfTest
  <2>1. LoadedIsOnDisk' /\ GatesHold'
    BY <1>4 DEF StartSelfTest, LoadedIsOnDisk, GatesHold, Registered, LockHolds, PinHolds
  <2>2. TestsWhatItHashes'
    BY <1>4 DEF StartSelfTest, TestsWhatItHashes
  <2> QED
    BY <2>1, <2>2
<1>5. CASE EndSelfTest
  <2>1. LoadedIsOnDisk' /\ GatesHold'
    BY <1>5 DEF EndSelfTest, LoadedIsOnDisk, GatesHold, Registered, LockHolds, PinHolds
  <2>2. TestsWhatItHashes'
    BY <1>5 DEF EndSelfTest, TestsWhatItHashes
  <2> QED
    BY <2>1, <2>2
<1> QED
  BY <1>1, <1>2, <1>3, <1>4, <1>5 DEF Maintain

\* Loading what is on disk.
LEMMA LoadKeeps ==
  ASSUME NEW F \in SUBSET Files, Load(F), LoadedIsOnDisk, phase # "idle", phase' # "idle",
         UNCHANGED <<files, calm>>
  PROVE  LoadedIsOnDisk'
<1>1. \A f \in Files : used'[f] = IF f \in F THEN files[f] ELSE used[f]
  BY DEF Load
<1>2. "runtime" \in Files
  BY DEF Files, Code
<1> QED
  BY <1>1, <1>2 DEF LoadedIsOnDisk

LEMMA PilotKeeps == PilotInv /\ Pilot => PilotInv'
<1> SUFFICES ASSUME PilotInv, Pilot PROVE PilotInv'
  OBVIOUS
<1> USE DEF PilotInv, shared, Goes, Ends, BehindLock, BehindPin, BehindReport
<1>1. CASE Start
  <2>1. \A f \in Files : used'[f] = IF f \in Code THEN files[f] ELSE used[f]
    BY <1>1 DEF Start, Load
  <2>2. LoadedIsOnDisk'
    BY <1>1, <2>1 DEF Start, LoadedIsOnDisk, Files, Code
  <2>3. GatesHold' /\ TestsWhatItHashes'
    BY <1>1 DEF Start, GatesHold, TestsWhatItHashes
  <2> QED
    BY <2>2, <2>3
<1>2. CASE NextArm
  <2>1. phase' \in {"arm", "preflight", "ended"}
    BY <1>2 DEF NextArm
  <2>2. LoadedIsOnDisk' /\ TestsWhatItHashes'
    BY <1>2, <2>1 DEF NextArm, LoadedIsOnDisk, TestsWhatItHashes
  <2>3. GatesHold'
    BY <2>1 DEF GatesHold
  <2> QED
    BY <2>2, <2>3
<1>3. CASE Preflight
  <2>1. LoadedIsOnDisk' /\ TestsWhatItHashes'
    BY <1>3 DEF Preflight, Gate, LoadedIsOnDisk, TestsWhatItHashes
  <2>2. GatesHold'
    BY <1>3 DEF Preflight, Gate, GatesHold, Registered, LockHolds
  <2> QED
    BY <2>1, <2>2
<1>4. CASE Pin
  <2>1. LoadedIsOnDisk' /\ TestsWhatItHashes'
    BY <1>4 DEF Pin, Gate, LoadedIsOnDisk, TestsWhatItHashes
  <2>2. GatesHold'
    BY <1>4 DEF Pin, Gate, GatesHold, Registered, LockHolds, PinHolds
  <2> QED
    BY <2>1, <2>2
<1>5. CASE Backend
  <2>1. PICK F \in SUBSET Files : Load(F)
    BY <1>5 DEF Backend, Files
  <2>2. LoadedIsOnDisk'
    BY <1>5, <2>1, LoadKeeps DEF Backend
  <2>3. TestsWhatItHashes' /\ GatesHold'
    BY <1>5 DEF Backend, TestsWhatItHashes, GatesHold, Registered, LockHolds, PinHolds
  <2> QED
    BY <2>2, <2>3
<1>6. CASE Isolation
  BY <1>6 DEF Isolation, LoadedIsOnDisk, TestsWhatItHashes, GatesHold, Registered, LockHolds, PinHolds
<1>7. CASE CheckReport
  <2>1. LoadedIsOnDisk' /\ TestsWhatItHashes'
    BY <1>7 DEF CheckReport, Gate, LoadedIsOnDisk, TestsWhatItHashes
  <2>2. GatesHold'
    BY <1>7 DEF CheckReport, Gate, Fresh, GatesHold, Registered, LockHolds, PinHolds
  <2> QED
    BY <2>1, <2>2
<1>8. CASE Stage
  <2>1. LoadedIsOnDisk'
    <3>1. CASE UNCHANGED used
      BY <1>8, <3>1 DEF Stage, LoadedIsOnDisk
    <3>2. CASE Load({"target"})
      BY <1>8, <3>2, LoadKeeps DEF Stage, Files
    <3> QED
      BY <1>8, <3>1, <3>2 DEF Stage
  <2>2. TestsWhatItHashes' /\ GatesHold'
    BY <1>8 DEF Stage, TestsWhatItHashes, GatesHold, Registered, LockHolds, PinHolds
  <2> QED
    BY <2>1, <2>2
<1>9. CASE Attempt
  BY <1>9 DEF Attempt, LoadedIsOnDisk, TestsWhatItHashes, GatesHold, Registered, LockHolds, PinHolds
<1> QED
  BY <1>1, <1>2, <1>3, <1>4, <1>5, <1>6, <1>7, <1>8, <1>9 DEF Pilot

-----------------------------------------------------------------------------
(* Type correctness. *)

LEMMA RuntimeVersion == SharedTypeOK => files["runtime"] \in Versions
BY DEF SharedTypeOK, Files, Code

LEMMA LoadTypes ==
  ASSUME TypeOK, NEW F \in SUBSET Files, Load(F)
  PROVE  used' \in [Files -> Versions \cup {Absent, NotLoaded}]
BY DEF TypeOK, SharedTypeOK, RunTypeOK, Load

LEMMA SameShared == SharedTypeOK /\ UNCHANGED shared => SharedTypeOK'
BY DEF shared, SharedTypeOK

LEMMA SameRun == RunTypeOK /\ UNCHANGED run /\ calm' \in BOOLEAN => RunTypeOK'
BY DEF run, RunTypeOK

LEMMA MaintainTypes == TypeOK /\ Maintain => TypeOK'
<1> SUFFICES ASSUME SharedTypeOK, RunTypeOK, Maintain PROVE SharedTypeOK' /\ RunTypeOK'
  BY DEF TypeOK
<1>1. RunTypeOK'
  <2>1. UNCHANGED run /\ calm' \in BOOLEAN
    BY DEF Maintain, Edit, RegenerateLock, RegeneratePin, StartSelfTest, EndSelfTest,
           Disturbs, run, RunTypeOK
  <2> QED
    BY <2>1, SameRun
<1>2. ASSUME NEW f \in Files, Edit(f) PROVE SharedTypeOK'
  <2>1. PICK v \in Versions \cup (IF f = "target" THEN {Absent} ELSE {}) :
             files' = [files EXCEPT ![f] = v]
    BY <1>2 DEF Edit
  <2>2. /\ files' \in [Files -> Versions \cup {Absent}]
        /\ \A g \in Files \ {"target"} : files'[g] # Absent
    BY <2>1, PilotAssumption DEF SharedTypeOK
  <2>3. testing' = None \/ testing' \in [image : Images \cup {NoImage}, runtime : Versions, calm : BOOLEAN]
    BY <1>2 DEF Edit, SharedTypeOK
  <2>4. edits' \in 0 .. MaxEdits
    BY <1>2, PilotAssumption DEF Edit, SharedTypeOK
  <2>5. UNCHANGED <<lock, envLock, report>>
    BY <1>2 DEF Edit
  <2> QED
    BY <2>2, <2>3, <2>4, <2>5 DEF SharedTypeOK
<1>3. CASE RegenerateLock
  BY <1>1, <1>3 DEF RegenerateLock, SharedTypeOK
<1>4. CASE RegeneratePin
  BY <1>1, <1>4 DEF RegeneratePin, SharedTypeOK
<1>5. CASE StartSelfTest
  <2>1. testing' \in [image : Images \cup {NoImage}, runtime : Versions, calm : BOOLEAN]
    BY <1>5, RuntimeVersion DEF StartSelfTest
  <2>2. UNCHANGED <<files, lock, envLock, report, edits>>
    BY <1>5 DEF StartSelfTest
  <2> QED
    BY <1>1, <2>1, <2>2 DEF SharedTypeOK
<1>6. CASE EndSelfTest
  <2>1. /\ testing.image \in Images \cup {NoImage} /\ testing.runtime \in Versions
        /\ testing.calm \in BOOLEAN /\ envLock \in Images \cup {NoImage}
    BY <1>6 DEF EndSelfTest, SharedTypeOK
  <2>2. report' \in Attested
    BY <1>6, <2>1, RuntimeVersion DEF EndSelfTest, Attested
  <2>3. testing' = None /\ UNCHANGED <<files, lock, envLock, edits>>
    BY <1>6 DEF EndSelfTest
  <2> QED
    BY <1>1, <2>2, <2>3 DEF SharedTypeOK
<1> QED
  BY <1>1, <1>2, <1>3, <1>4, <1>5, <1>6 DEF Maintain

LEMMA PilotTypes == TypeOK /\ Pilot => TypeOK'
<1> SUFFICES ASSUME SharedTypeOK, RunTypeOK, Pilot PROVE SharedTypeOK' /\ RunTypeOK'
  BY DEF TypeOK
<1>1. SharedTypeOK'
  <2>1. UNCHANGED shared
    BY DEF Pilot, Start, NextArm, Preflight, Pin, Backend, Isolation, CheckReport, Stage, Attempt
  <2> QED
    BY <2>1, SameShared
<1> USE DEF Goes, Ends
<1>2. CASE Start
  <2>1. used' \in [Files -> Versions \cup {Absent, NotLoaded}]
    BY <1>2, LoadTypes DEF Start, Files, TypeOK
  <2>2. arms' \in Seq({"A0", "A1", "A2"})
    <3>1. \A arm \in Arms : <<arm>> \in Seq({"A0", "A1", "A2"})
      BY PilotAssumption
    <3>2. <<"A0", "A1", "A2">> \in Seq({"A0", "A1", "A2"})
      OBVIOUS
    <3> QED
      BY <1>2, <3>1, <3>2 DEF Start
  <2>3. options' \in [image : Images \cup {NoImage}, drift : BOOLEAN, local : BOOLEAN]
    BY <1>2 DEF Start
  <2> QED
    BY <1>1, <1>2, <2>1, <2>2, <2>3 DEF Start, RunTypeOK
<1>3. CASE NextArm
  <2>1. arms \in Seq({"A0", "A1", "A2"}) /\ (arms # <<>> => Tail(arms) \in Seq({"A0", "A1", "A2"}))
    BY DEF RunTypeOK
  <2> QED
    BY <1>1, <1>3, <2>1 DEF NextArm, RunTypeOK
<1>4. CASE Preflight
  BY <1>1, <1>4 DEF Preflight, Gate, RunTypeOK
<1>5. CASE Pin
  BY <1>1, <1>5 DEF Pin, Gate, RunTypeOK
<1>6. CASE Backend
  <2>1. used' \in [Files -> Versions \cup {Absent, NotLoaded}]
    BY <1>6, LoadTypes DEF Backend, Files, TypeOK
  <2> QED
    BY <1>1, <1>6, <2>1 DEF Backend, RunTypeOK
<1>7. CASE Isolation
  BY <1>1, <1>7 DEF Isolation, RunTypeOK
<1>8. CASE CheckReport
  BY <1>1, <1>8 DEF CheckReport, Gate, RunTypeOK, SharedTypeOK
<1>9. CASE Stage
  <2>1. used' \in [Files -> Versions \cup {Absent, NotLoaded}]
    <3>1. CASE UNCHANGED used
      BY <3>1 DEF RunTypeOK
    <3>2. CASE Load({"target"})
      BY <3>2, LoadTypes DEF Files, TypeOK
    <3> QED
      BY <1>9, <3>1, <3>2 DEF Stage
  <2> QED
    BY <1>1, <1>9, <2>1 DEF Stage, RunTypeOK
<1>10. CASE Attempt
  BY <1>1, <1>10 DEF Attempt, RunTypeOK
<1> QED
  BY <1>1, <1>2, <1>3, <1>4, <1>5, <1>6, <1>7, <1>8, <1>9, <1>10 DEF Pilot

\* The driver and the files it depends on keep their type.
THEOREM PilotTypeCorrect == PilotSpec => []TypeOK
<1>1. Init => TypeOK
  <2> SUFFICES ASSUME Init PROVE SharedTypeOK /\ RunTypeOK
    BY DEF TypeOK
  <2>1. PICK v \in Versions : files = [f \in Files |-> v] /\ lock = files
    BY DEF Init
  <2>2. files \in [Files -> Versions \cup {Absent}] /\ \A f \in Files : files[f] # Absent
    BY <2>1, PilotAssumption
  <2>3. SharedTypeOK
    BY <2>1, <2>2, PilotAssumption DEF Init, SharedTypeOK
  <2>4. used \in [Files -> Versions \cup {Absent, NotLoaded}]
    BY DEF Init
  <2>5. RunTypeOK
    BY <2>4 DEF Init, RunTypeOK
  <2> QED
    BY <2>3, <2>5
<1>2. TypeOK /\ [Next]_vars => TypeOK'
  <2>1. SharedTypeOK /\ RunTypeOK /\ UNCHANGED vars => SharedTypeOK' /\ RunTypeOK'
    <3>1. RunTypeOK /\ UNCHANGED vars => calm' \in BOOLEAN /\ UNCHANGED shared /\ UNCHANGED run
      BY DEF vars, RunTypeOK
    <3> QED
      BY <3>1, SameShared, SameRun
  <2> QED
    BY <2>1, MaintainTypes, PilotTypes DEF Next, TypeOK
<1> QED
  BY <1>1, <1>2, PTL DEF PilotSpec

LEMMA PilotInvHolds == PilotSpec => []PilotInv
<1>1. TypeOK /\ PilotInv /\ [Next]_vars => PilotInv'
  <2>1. PilotInv /\ UNCHANGED vars => PilotInv'
    BY DEF vars, shared, run, PilotInv, LoadedIsOnDisk, GatesHold, TestsWhatItHashes,
           Registered, LockHolds, PinHolds
  <2> QED
    BY <2>1, MaintainKeeps, PilotKeeps DEF Next
<1> QED
  BY <1>1, PilotInvInit, PilotTypeCorrect, PTL DEF PilotSpec

\* However files, locks and reports are changed before a run, and however many there
\* are: one that is not disturbed and passes the gates uses what the lock anchors.
THEOREM LockedCodeRuns == PilotSpec => []RunsWhatIsLocked
<1>1. PilotInv => RunsWhatIsLocked
  BY DEF PilotInv, LoadedIsOnDisk, GatesHold, RunsWhatIsLocked, LockHolds, BehindLock,
         Anchored, Files, Code
<1> QED
  BY <1>1, PilotInvHolds, PTL

\* And the report it went by is of a self-test of this code, in this environment.
THEOREM ReportCounts == PilotSpec => []ReportIsOfThisRun
<1>1. PilotInv => ReportIsOfThisRun
  BY DEF PilotInv, LoadedIsOnDisk, GatesHold, TestsWhatItHashes, ReportIsOfThisRun,
         Registered, BehindPin, BehindLock, BehindReport
<1> QED
  BY <1>1, PilotInvHolds, PTL
=============================================================================
