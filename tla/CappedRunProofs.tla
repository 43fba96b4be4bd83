-------------------------- MODULE CappedRunProofs ---------------------------
(***************************************************************************)
(* Theorems about CappedRun and OracleRun: any output, cap, chunk and pipe *)
(* size, any scheduling of the two readers, the main thread, the child and *)
(* the process it may leave behind, whether or not that one escapes.       *)
(***************************************************************************)
EXTENDS OracleRun, SequenceTheorems, TLAPS

-----------------------------------------------------------------------------
(* The inductive invariant *)

\* What a reader has kept, taken and is about to look at.
ReaderInv(k) ==
  /\ kept[k] <= cap /\ kept[k] <= taken[k] /\ taken[k] <= Len(written[k])
  /\ reader[k] = "start" => taken[k] = kept[k]
  /\ reader[k] = "have" => Pending(k) = Chunk \/ Drained(k)
  /\ reader[k] \in {"exact", "peeking"} => kept[k] = cap /\ taken[k] = cap
  /\ over[k] => reader[k] = "done" /\ Len(written[k]) > cap
  /\ reader[k] = "done" /\ ~over[k] => k \in closed \/ Drained(k)

Killed == main \in {"wait", "close o", "close e", "join", "returned"}
Reaped == main \in {"close o", "close e", "join", "returned"}

\* What the main thread knows of the child, and why it went on to kill it.
MainInv ==
  /\ timedOut => late
  /\ main = "kill" => child # "running" \/ timedOut \/ Limited
  /\ child = "killed" => timedOut \/ Limited
  /\ Killed => child # "running" /\ helper # "grouped"
  /\ Reaped => code = child \/ (code = "none" /\ child = "killed")

RunInv == TypeOK /\ (\A k \in Streams : ReaderInv(k)) /\ MainInv

LEMMA RunInvInit == Init => RunInv
<1>. SUFFICES ASSUME Init  PROVE RunInv
  OBVIOUS
<1>. USE DEF Init, Spawned, SpawnFails
<1>1. TypeOK
  BY RunAssumption, EmptySeq DEF TypeOK
<1>2. ASSUME NEW k \in Streams  PROVE ReaderInv(k)
  BY RunAssumption, EmptySeq DEF ReaderInv
<1>3. MainInv
  BY DEF MainInv, Killed, Reaped
<1>. QED  BY <1>1, <1>2, <1>3 DEF RunInv

-----------------------------------------------------------------------------
(* The child, its background process and the clock *)

LEMMA WriteStep ==
  ASSUME RunInv, NEW k \in Streams, NEW u \in Units, Write(k, u)
  PROVE  RunInv'
<1>1. /\ written' = [written EXCEPT ![k] = Append(@, u)]
      /\ k \notin closed /\ ~EndOfFile
      /\ UNCHANGED <<cap, child, helper, late, reading, closed, main, timedOut, code>>
  BY DEF Write, EndOfFile
<1>2. /\ written \in [Streams -> Seq(Units)]
      /\ cap \in Nat /\ taken \in [Streams -> Nat] /\ kept \in [Streams -> Nat]
      /\ \A j \in Streams : ReaderInv(j)
  BY RunAssumption DEF RunInv, TypeOK
<1>3. Append(written[k], u) \in Seq(Units) /\ Len(Append(written[k], u)) = Len(written[k]) + 1
  BY <1>2, AppendProperties
<1>4. /\ written' \in [Streams -> Seq(Units)]
      /\ written'[k] = Append(written[k], u)
      /\ \A j \in Streams : j # k => written'[j] = written[j]
  BY <1>1, <1>2, <1>3
<1>5. TypeOK'
  BY ZenonT(30), <1>1, <1>4 DEF RunInv, TypeOK, reading
<1>6. ASSUME NEW j \in Streams  PROVE ReaderInv(j)'
  <2>1. /\ Len(written[j]) \in Nat /\ Len(written'[j]) \in Nat
        /\ Len(written'[j]) >= Len(written[j])
    <3>1. written[j] \in Seq(Units) /\ written'[j] \in Seq(Units)
      BY <1>2, <1>4
    <3>2. Len(written[j]) \in Nat /\ Len(written'[j]) \in Nat
      BY <3>1, LenProperties
    <3>. QED  BY <1>3, <1>4, <3>2
  <2>2. ReaderInv(j) /\ ~Drained(j)
    BY <1>1, <1>2 DEF Drained
  <2>3. /\ kept'[j] = kept[j] /\ taken'[j] = taken[j] /\ reader'[j] = reader[j]
        /\ over'[j] = over[j] /\ closed' = closed /\ cap' = cap
        /\ Pending(j)' = Pending(j)
    BY <1>1 DEF reading, Pending
  <2>. QED  BY <1>2, <2>1, <2>2, <2>3 DEF ReaderInv
<1>7. MainInv'
  BY <1>1 DEF RunInv, MainInv, Killed, Reaped, Limited, reading
<1>. QED  BY <1>5, <1>6, <1>7 DEF RunInv

LEMMA OutsideStep ==
  ASSUME RunInv, LeaveHelper \/ HelperEnds \/ ChildExits \/ DeadlinePasses
  PROVE  RunInv'
<1>1. /\ cap' = cap /\ written' = written /\ closed' = closed /\ main' = main
      /\ timedOut' = timedOut /\ code' = code
      /\ taken' = taken /\ reader' = reader /\ kept' = kept /\ over' = over
  BY DEF LeaveHelper, HelperEnds, ChildExits, DeadlinePasses, reading
<1>2. EndOfFile => EndOfFile'
  BY DEF LeaveHelper, HelperEnds, ChildExits, DeadlinePasses, EndOfFile, HelperAlive
<1>3. TypeOK'
  <2>1. child' \in {"running", "zero", "nonzero", "killed"}
    BY DEF LeaveHelper, HelperEnds, ChildExits, DeadlinePasses, RunInv, TypeOK
  <2>2. helper' \in {"none", "grouped", "escaped", "gone"}
    BY DEF LeaveHelper, HelperEnds, ChildExits, DeadlinePasses, RunInv, TypeOK
  <2>3. late' \in BOOLEAN
    BY DEF LeaveHelper, HelperEnds, ChildExits, DeadlinePasses, RunInv, TypeOK
  <2>. QED  BY <1>1, <2>1, <2>2, <2>3 DEF RunInv, TypeOK
<1>4. ASSUME NEW k \in Streams  PROVE ReaderInv(k)'
  <2>1. ReaderInv(k)
    BY DEF RunInv
  <2>2. Drained(k) => Drained(k)'
    BY <1>1, <1>2 DEF Drained
  <2>. QED  BY <1>1, <2>1, <2>2 DEF ReaderInv, Pending
<1>5. MainInv'
  <2>1. MainInv /\ (Killed' <=> Killed) /\ (Reaped' <=> Reaped) /\ (Limited' <=> Limited)
    BY <1>1 DEF RunInv, Killed, Reaped, Limited
  <2>2. CASE LeaveHelper
    BY <1>1, <2>1, <2>2 DEF LeaveHelper, MainInv
  <2>3. CASE HelperEnds
    BY <1>1, <2>1, <2>3 DEF HelperEnds, MainInv
  <2>4. CASE ChildExits
    <3>1. ~Killed /\ ~Reaped
      BY <2>1, <2>4 DEF ChildExits, MainInv, Killed, Reaped
    <3>. QED  BY <1>1, <2>1, <2>4, <3>1 DEF ChildExits, MainInv
  <2>5. CASE DeadlinePasses
    BY <1>1, <2>1, <2>5 DEF DeadlinePasses, MainInv
  <2>. QED  BY <2>2, <2>3, <2>4, <2>5
<1>. QED  BY <1>3, <1>4, <1>5 DEF RunInv

-----------------------------------------------------------------------------
(* The readers *)

\* What a reader does leaves the other one as it is.
LEMMA OtherReader ==
  ASSUME RunInv, NEW k \in Streams, NEW j \in Streams, j # k, ReaderStep(k)
  PROVE  ReaderInv(j)'
<1>1. /\ taken'[j] = taken[j] /\ reader'[j] = reader[j]
      /\ kept'[j] = kept[j] /\ over'[j] = over[j]
      /\ UNCHANGED <<written, cap, child, helper, closed>>
  BY DEF ReaderStep, BeginRead, TakeUnit, EndRead, KeepChunk, BeginPeek, Peek, Reads,
         ReaderUnchanged, outside, RunInv, TypeOK
<1>2. ReaderInv(j)
  BY DEF RunInv
<1>. QED
  BY <1>1, <1>2 DEF ReaderInv, Pending, Drained, EndOfFile, HelperAlive

LEMMA ThisReader ==
  ASSUME RunInv, NEW k \in Streams, ReaderStep(k)
  PROVE  TypeOK' /\ ReaderInv(k)'
<1>. DEFINE n == Len(written[k])
<1>1. /\ cap \in Nat \ {0} /\ Chunk \in Nat \ {0} /\ n \in Nat
      /\ taken[k] \in Nat /\ kept[k] \in Nat /\ over[k] \in BOOLEAN
      /\ taken \in [Streams -> Nat] /\ kept \in [Streams -> Nat] /\ over \in [Streams -> BOOLEAN]
      /\ reader \in [Streams -> {"start", "reading", "have", "exact", "peeking", "done"}]
  BY RunAssumption, LenProperties DEF RunInv, TypeOK
<1>2. ReaderInv(k)
  BY DEF RunInv
<1>3. UNCHANGED <<outside, closed, main, timedOut, code>>
  BY DEF ReaderStep, BeginRead, TakeUnit, EndRead, KeepChunk, BeginPeek, Peek, ReaderUnchanged
<1>4. /\ written' = written /\ cap' = cap /\ closed' = closed /\ n' = n
      /\ EndOfFile' = EndOfFile
  BY <1>3 DEF outside, EndOfFile, HelperAlive
<1>5. ASSUME /\ taken' \in [Streams -> Nat] /\ kept' \in [Streams -> Nat]
             /\ reader' \in [Streams -> {"start", "reading", "have", "exact", "peeking", "done"}]
             /\ over' \in [Streams -> BOOLEAN]
      PROVE  TypeOK'
  BY ZenonT(30), <1>3, <1>5 DEF RunInv, TypeOK, outside
<1>. USE DEF Reads, Pending, Drained
<1>6. CASE BeginRead(k)
  <2>1. /\ taken' = taken /\ kept' = kept /\ over' = over /\ reader[k] = "start"
        /\ reader' = [reader EXCEPT ![k] = IF k \in closed THEN "done" ELSE "reading"]
    BY <1>6 DEF BeginRead
  <2>. HIDE DEF n
  <2>2. TypeOK'
    BY <1>1, <1>5, <2>1
  <2>. QED  BY <1>1, <1>2, <1>4, <2>1, <2>2 DEF ReaderInv
<1>7. CASE TakeUnit(k)
  <2>1. /\ taken' = [taken EXCEPT ![k] = @ + 1] /\ kept' = kept /\ over' = over /\ reader' = reader
        /\ reader[k] = "reading" /\ taken[k] < n
    BY <1>7 DEF TakeUnit
  <2>2. taken' \in [Streams -> Nat] /\ taken'[k] = taken[k] + 1
    <3>. HIDE DEF n
    <3>. QED  BY <1>1, <2>1
  <2>3. TypeOK'
    BY <1>1, <1>5, <2>1, <2>2
  <2>4. /\ kept[k] <= cap /\ kept[k] <= taken'[k] /\ taken'[k] <= n /\ ~over[k]
    <3>1. kept[k] <= cap /\ kept[k] <= taken[k] /\ ~over[k]
      BY <1>2, <2>1 DEF ReaderInv
    <3>. HIDE DEF n
    <3>. QED  BY <1>1, <2>1, <2>2, <3>1
  <2>. QED  BY <1>4, <2>1, <2>3, <2>4 DEF ReaderInv
<1>8. CASE EndRead(k)
  <2>1. /\ taken' = taken /\ kept' = kept /\ over' = over /\ reader[k] = "reading"
        /\ reader' = [reader EXCEPT ![k] = "have"]
        /\ taken[k] - kept[k] = Chunk \/ (taken[k] = n /\ EndOfFile)
    BY <1>8 DEF EndRead
  <2>2. TypeOK' /\ reader'[k] = "have"
    BY <1>1, <1>5, <2>1
  <2>. QED  BY <1>2, <1>4, <2>1, <2>2 DEF ReaderInv
<1>9. CASE KeepChunk(k)
  <2>. DEFINE p == taken[k] - kept[k]
             room == cap - kept[k]
             to == IF p = 0 \/ ~(p <= room) THEN "done" ELSE IF kept[k] + p = cap THEN "exact" ELSE "start"
  <2>1. /\ taken' = taken /\ reader[k] = "have"
        /\ kept' = [kept EXCEPT ![k] = IF p <= room THEN taken[k] ELSE cap]
        /\ over' = [over EXCEPT ![k] = ~(p <= room)]
        /\ reader' = [reader EXCEPT ![k] = to]
    BY <1>9 DEF KeepChunk
  <2>2. /\ kept'[k] = (IF p <= room THEN taken[k] ELSE cap)
        /\ over'[k] <=> ~(p <= room)
        /\ reader'[k] = to /\ taken'[k] = taken[k]
    BY <1>1, <2>1
  <2>3. /\ kept' \in [Streams -> Nat] /\ over' \in [Streams -> BOOLEAN] /\ taken' \in [Streams -> Nat]
        /\ reader' \in [Streams -> {"start", "reading", "have", "exact", "peeking", "done"}]
    <3>. HIDE DEF p, room
    <3>. QED  BY <1>1, <2>1
  <2>4. /\ kept[k] <= cap /\ kept[k] <= taken[k] /\ taken[k] <= n
        /\ p = Chunk \/ (taken[k] = n /\ EndOfFile)
    BY <1>2, <2>1 DEF ReaderInv
  <2>5. CASE p <= room /\ p = 0
    <3>1. /\ taken[k] = n /\ EndOfFile /\ kept'[k] = taken[k] /\ kept'[k] <= cap
          /\ ~over'[k] /\ reader'[k] = "done"
      <4>. HIDE DEF n
      <4>. QED  BY <1>1, <2>2, <2>4, <2>5
    <3>. QED  BY <1>1, <1>4, <1>5, <2>2, <2>3, <3>1 DEF ReaderInv
  <2>6. CASE p <= room /\ p # 0
    <3>1. /\ kept'[k] = taken[k] /\ kept'[k] <= cap /\ ~over'[k]
          /\ reader'[k] = "start" \/ (reader'[k] = "exact" /\ taken[k] = cap)
      <4>. HIDE DEF n
      <4>. QED  BY <1>1, <2>2, <2>4, <2>6
    <3>. QED  BY <1>1, <1>4, <1>5, <2>2, <2>3, <2>4, <3>1 DEF ReaderInv
  <2>7. CASE ~(p <= room)
    <3>1. /\ kept'[k] = cap /\ cap < taken[k] /\ n > cap /\ over'[k] /\ reader'[k] = "done"
      <4>. HIDE DEF n
      <4>. QED  BY <1>1, <2>2, <2>4, <2>7
    <3>. QED  BY <1>1, <1>4, <1>5, <2>2, <2>3, <2>4, <3>1 DEF ReaderInv
  <2>. QED  BY <2>5, <2>6, <2>7
<1>10. CASE BeginPeek(k)
  <2>1. /\ taken' = taken /\ kept' = kept /\ over' = over /\ reader[k] = "exact"
        /\ reader' = [reader EXCEPT ![k] = IF k \in closed THEN "done" ELSE "peeking"]
    BY <1>10 DEF BeginPeek
  <2>. HIDE DEF n
  <2>2. TypeOK'
    BY <1>1, <1>5, <2>1
  <2>. QED  BY <1>1, <1>2, <1>4, <2>1, <2>2 DEF ReaderInv
<1>11. CASE Peek(k)
  <2>1. /\ reader[k] = "peeking" /\ kept' = kept /\ reader' = [reader EXCEPT ![k] = "done"]
        /\ \/ taken[k] < n /\ taken' = [taken EXCEPT ![k] = @ + 1] /\ over' = [over EXCEPT ![k] = TRUE]
           \/ taken[k] = n /\ EndOfFile /\ taken' = taken /\ over' = over
    BY <1>11 DEF Peek
  <2>2. kept[k] = cap /\ taken[k] = cap /\ ~over[k] /\ taken[k] <= n
    BY <1>2, <2>1 DEF ReaderInv
  <2>3. /\ taken' \in [Streams -> Nat] /\ over' \in [Streams -> BOOLEAN]
        /\ reader' \in [Streams -> {"start", "reading", "have", "exact", "peeking", "done"}]
        /\ reader'[k] = "done"
        /\ \/ taken[k] < n /\ taken'[k] = taken[k] + 1 /\ over'[k]
           \/ taken[k] = n /\ EndOfFile /\ taken'[k] = taken[k] /\ (over'[k] <=> over[k])
    <3>. HIDE DEF n
    <3>1. CASE taken[k] < n /\ taken' = [taken EXCEPT ![k] = @ + 1] /\ over' = [over EXCEPT ![k] = TRUE]
      BY <1>1, <2>1, <3>1
    <3>2. CASE taken[k] = n /\ EndOfFile /\ taken' = taken /\ over' = over
      BY <1>1, <2>1, <3>2
    <3>. QED  BY <2>1, <3>1, <3>2
  <2>4. TypeOK'
    BY <1>1, <1>5, <2>1, <2>3
  <2>5. /\ kept[k] <= taken'[k] /\ taken'[k] <= n
        /\ over'[k] => n > cap
        /\ ~over'[k] => taken'[k] = n /\ EndOfFile
    <3>. HIDE DEF n
    <3>. QED  BY <1>1, <2>2, <2>3
  <2>6. /\ kept'[k] = kept[k] /\ kept[k] <= cap /\ reader'[k] = "done"
        /\ ~over'[k] => Drained(k)'
    <3>1. kept'[k] = kept[k] /\ reader'[k] = "done"
      BY <2>1, <2>3
    <3>2. kept[k] <= cap
      BY <1>2 DEF ReaderInv
    <3>3. ~over'[k] => Drained(k)'
      BY <1>4, <2>5
    <3>. QED  BY <3>1, <3>2, <3>3
  <2>. QED  BY <1>4, <2>4, <2>5, <2>6 DEF ReaderInv
<1>. QED
  BY <1>6, <1>7, <1>8, <1>9, <1>10, <1>11 DEF ReaderStep

LEMMA ReaderStepInv ==
  ASSUME RunInv, NEW k \in Streams, ReaderStep(k)
  PROVE  RunInv'
<1>1. TypeOK' /\ \A j \in Streams : ReaderInv(j)'
  BY ThisReader, OtherReader
<1>2. \A j \in Streams : over[j] => over'[j]
  BY DEF ReaderStep, BeginRead, TakeUnit, EndRead, KeepChunk, BeginPeek, Peek, RunInv, TypeOK,
         ReaderInv
<1>3. UNCHANGED <<outside, main, timedOut, code>>
  BY DEF ReaderStep, BeginRead, TakeUnit, EndRead, KeepChunk, BeginPeek, Peek, ReaderUnchanged
<1>4. MainInv'
  BY <1>2, <1>3 DEF RunInv, MainInv, Killed, Reaped, Limited, outside
<1>. QED  BY <1>1, <1>4 DEF RunInv

-----------------------------------------------------------------------------
(* The main thread *)

LEMMA MainStepInv ==
  ASSUME RunInv, MainStep
  PROVE  RunInv'
<1>. USE DEF RunInv, TypeOK, MainGoes, outside, reading
<1>1. TypeOK'
  <2>1. CASE Poll \/ Look \/ Kill
    BY ZenonT(30), <2>1 DEF Poll, Look, Kill
  <2>2. CASE Wait
    BY <2>2 DEF Wait, MainInv, Killed
  <2>3. CASE Close("o", "close e") \/ Close("e", "join")
    BY ZenonT(30), <2>3 DEF Close, Streams
  <2>4. CASE Join
    BY <2>4 DEF Join
  <2>. QED  BY <2>1, <2>2, <2>3, <2>4 DEF MainStep
<1>2. ASSUME NEW k \in Streams  PROVE ReaderInv(k)'
  BY DEF MainStep, Poll, Look, Kill, Wait, Close, Join, ReaderInv, Pending, Drained, EndOfFile,
         HelperAlive
<1>3. MainInv'
  <2>. USE DEF MainInv, Killed, Reaped, Limited
  <2>1. CASE Poll
    BY <2>1 DEF Poll
  <2>2. CASE Look
    <3>1. UNCHANGED <<child, helper, late, over, code>>
      BY <2>2 DEF Look
    <3>4. (Limited' <=> Limited) /\ (late' <=> late) /\ child' = child
      BY <3>1
    <3>. HIDE DEF Limited
    <3>2. ASSUME Limited, main' = "kill", timedOut' <=> timedOut  PROVE MainInv'
      <4>1. Limited' /\ main' = "kill"
        BY <3>2, <3>4
      <4>2. (timedOut' <=> timedOut) /\ (late' <=> late) /\ child' = child
        BY <3>2, <3>4
      <4>3. timedOut => late
        OBVIOUS
      <4>. QED  BY <4>1, <4>2, <4>3
    <3>3. CASE (timedOut' <=> late) /\ main' = (IF late THEN "kill" ELSE "poll")
      BY <3>3, <3>4
    <3>5. \/ Limited /\ main' = "kill" /\ (timedOut' <=> timedOut)
          \/ (timedOut' <=> late) /\ main' = (IF late THEN "kill" ELSE "poll")
      <4>. HIDE DEF RunInv, MainInv, TypeOK
      <4>. QED  BY <2>2 DEF Look, Limited
    <3>. HIDE DEF MainInv
    <3>. QED  BY <3>2, <3>3, <3>5
  <2>3. CASE Kill
    BY <2>3 DEF Kill
  <2>4. CASE Wait
    BY <2>4 DEF Wait
  <2>5. CASE Close("o", "close e") \/ Close("e", "join")
    <3>1. UNCHANGED <<child, helper, late, over, timedOut, code>> /\ Reaped /\ main' \in {"close e", "join"}
      BY <2>5 DEF Close
    <3>. QED  BY <3>1
  <2>6. CASE Join
    BY <2>6 DEF Join
  <2>. QED  BY <2>1, <2>2, <2>3, <2>4, <2>5, <2>6 DEF MainStep
<1>. QED  BY <1>1, <1>2, <1>3

LEMMA RunInvStep == RunInv /\ [Next]_vars => RunInv'
<1>. SUFFICES ASSUME RunInv, [Next]_vars  PROVE RunInv'
  OBVIOUS
<1>1. CASE UNCHANGED vars
  <2>1. TypeOK'
    BY ZenonT(30), <1>1 DEF vars, RunInv, TypeOK
  <2>2. ASSUME NEW k \in Streams  PROVE ReaderInv(k)'
    BY <1>1 DEF vars, RunInv, ReaderInv, Pending, Drained, EndOfFile, HelperAlive
  <2>3. MainInv'
    BY <1>1 DEF vars, RunInv, MainInv, Killed, Reaped, Limited
  <2>. QED  BY <2>1, <2>2, <2>3 DEF RunInv
<1>. QED
  BY <1>1, WriteStep, OutsideStep, ReaderStepInv, MainStepInv DEF Next, Returned

\* The state of a call keeps its type, and the parts of RunInv hold throughout.
LEMMA RunInvHolds == Spec => []RunInv
BY RunInvInit, RunInvStep, PTL DEF Spec

-----------------------------------------------------------------------------
(* The theorems *)

\* Threads, pipes and child keep their type (execution.py, _run_capped).
THEOREM RunTypeCorrect == Spec => []TypeOK
<1>1. RunInv => TypeOK
  BY DEF RunInv
<1>. QED  BY <1>1, RunInvHolds, PTL

\* over["o"] or over["e"] is set only by output beyond the cap, and a reader that is done
\* without setting it has read its stream to the end or found it closed.
THEOREM LimitExact == Spec => []LimitIsExact
<1>1. RunInv => LimitIsExact
  BY DEF RunInv, ReaderInv, LimitIsExact
<1>. QED  BY <1>1, RunInvHolds, PTL

\* A kill that the call reports has a time-out or an exceeded limit to show for it, and
\* any other status is the child's own.
THEOREM KillExplained == Spec => []KillHasAReason
<1>1. RunInv => KillHasAReason
  BY DEF RunInv, TypeOK, MainInv, Reaped, KillHasAReason
<1>. QED  BY <1>1, RunInvHolds, PTL

\* The group is dead when the call returns, also if the child went before its helper.
THEOREM GroupIsDead == Spec => []NoProcessLeft
<1>1. RunInv => NoProcessLeft
  BY DEF RunInv, MainInv, Killed, NoProcessLeft
<1>. QED  BY <1>1, RunInvHolds, PTL

\* BinaryOracle.check accepts on a success line only if the target printed it and came to
\* its own good end in time, whatever was cut off and whoever read it.
THEOREM AcceptanceIsEarned == Spec => []AcceptedRunIsComplete
<1>1. ASSUME RunInv  PROVE AcceptedRunIsComplete
  <2>. SUFFICES ASSUME NEW task \in Tasks, Accepted(task)
               PROVE  /\ ~timedOut
                      /\ IF task.success THEN child = "zero" /\ Printed("success")
                         ELSE task.flag = "same"
    BY DEF AcceptedRunIsComplete
  <2>1. ~timedOut /\ main = "returned"
    BY DEF Accepted, Check
  <2>2. CASE task.success
    <3>1. code = "zero" /\ Reported("success")
      BY <2>2 DEF Accepted, Check, Adjudicate
    <3>2. child = "zero"
      BY <1>1, <2>1, <3>1 DEF RunInv, MainInv, Reaped
    <3>3. PICK k \in Streams : \E i \in 1 .. kept[k] : written[k][i] = "success"
      BY <3>1 DEF Reported
    <3>4. written[k] \in Seq(Units) /\ kept[k] \in Nat /\ kept[k] <= taken[k]
            /\ taken[k] \in Nat /\ taken[k] <= Len(written[k])
      BY <1>1 DEF RunInv, TypeOK, ReaderInv
    <3>5. "success" \in Range(written[k])
      BY <3>3, <3>4, LenProperties DEF Range
    <3>. QED  BY <2>1, <2>2, <3>2, <3>5 DEF Printed
  <2>3. CASE ~task.success
    BY <2>1, <2>3 DEF Accepted, Check, Adjudicate
  <2>. QED  BY <2>1, <2>2, <2>3
<1>. QED  BY <1>1, RunInvHolds, PTL
=============================================================================
