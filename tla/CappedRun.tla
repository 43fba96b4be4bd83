----------------------------- MODULE CappedRun ------------------------------
(***************************************************************************)
(* One call of _run_capped (harness/agent/execution.py): the main thread,  *)
(* a reader thread for each of stdout and stderr, the child they watch and *)
(* a background process the child may leave behind.                        *)
(*                                                                         *)
(* Output is counted in units, one line each; what it says matters only to *)
(* the oracle (module OracleRun).  A BufferedReader returns from read(n)   *)
(* with n bytes or at the end of the file, not before, and holds its lock  *)
(* meanwhile, so that close() waits for it.  The thread that feeds stdin   *)
(* and the limits set before exec act on the child alone, which may do     *)
(* anything here.                                                          *)
(***************************************************************************)
EXTENDS Integers, Sequences

CONSTANTS
  Units,      \* what one unit of output may say
  MaxOut,     \* units written to one stream at most
  Caps,       \* cap_bytes of the call
  Chunk,      \* units one read asks for: 65536 bytes
  PipeRoom,   \* units a pipe holds
  CanEscape   \* the background process may leave the process group

ASSUME RunAssumption ==
  /\ MaxOut \in Nat /\ Caps \subseteq Nat \ {0}
  /\ Chunk \in Nat \ {0} /\ PipeRoom \in Nat \ {0}
  /\ CanEscape \in BOOLEAN

VARIABLES
  cap,       \* cap_bytes
  child,     \* "running", its own exit status "zero" or "nonzero", or "killed"
  helper,    \* "none", "grouped", "escaped" or "gone"
  written,   \* what was written to each stream
  taken,     \* how much of it the reader has taken out of the pipe
  reader,    \* where each reader is
  kept,      \* len(buf) of each reader: the first units taken
  over,      \* the readers' flags
  closed,    \* the streams the main thread has closed
  main,      \* where the main thread is
  late,      \* the deadline has passed
  timedOut,  \* timed_out
  code       \* p.returncode as returned, "none" before the child is reaped

vars == <<cap, child, helper, written, taken, reader, kept, over, closed, main, late, timedOut, code>>
outside == <<cap, child, helper, written, late>>
reading == <<taken, reader, kept, over>>

-----------------------------------------------------------------------------
Streams == {"o", "e"}

TypeOK ==
  /\ cap \in Caps
  /\ child \in {"running", "zero", "nonzero", "killed"}
  /\ helper \in {"none", "grouped", "escaped", "gone"}
  /\ written \in [Streams -> Seq(Units)]
  /\ taken \in [Streams -> Nat] /\ kept \in [Streams -> Nat]
  /\ reader \in [Streams -> {"start", "reading", "have", "exact", "peeking", "done"}]
  /\ over \in [Streams -> BOOLEAN]
  /\ closed \subseteq Streams
  /\ main \in {"poll", "look", "kill", "wait", "close o", "close e", "join", "returned"}
  /\ late \in BOOLEAN /\ timedOut \in BOOLEAN
  /\ code \in {"none", "zero", "nonzero", "killed"}

Spawned == child = "running" /\ main = "poll" /\ code = "none"

\* A tool that is missing or cannot be executed: the call returns 127 and no output.
SpawnFails == child = "nonzero" /\ main = "returned" /\ code = "nonzero"

Init ==
  /\ cap \in Caps
  /\ helper = "none"
  /\ written = [k \in Streams |-> <<>>]
  /\ taken = [k \in Streams |-> 0]
  /\ reader = [k \in Streams |-> "start"]
  /\ kept = [k \in Streams |-> 0]
  /\ over = [k \in Streams |-> FALSE]
  /\ closed = {}
  /\ late = FALSE /\ timedOut = FALSE
  /\ Spawned \/ SpawnFails

-----------------------------------------------------------------------------
(* The child and its background process: anything they may do *)

HelperAlive == helper \in {"grouped", "escaped"}

Write(k, u) ==
  /\ child = "running" \/ HelperAlive
  /\ k \notin closed
  /\ Len(written[k]) < MaxOut
  /\ Len(written[k]) - taken[k] < PipeRoom
  /\ written' = [written EXCEPT ![k] = Append(@, u)]
  /\ UNCHANGED <<cap, child, helper, late, reading, closed, main, timedOut, code>>

LeaveHelper ==
  /\ child = "running" /\ helper = "none"
  /\ helper' \in {"grouped"} \cup (IF CanEscape THEN {"escaped"} ELSE {})
  /\ UNCHANGED <<cap, child, written, late, reading, closed, main, timedOut, code>>

HelperEnds ==
  /\ HelperAlive
  /\ helper' = "gone"
  /\ UNCHANGED <<cap, child, written, late, reading, closed, main, timedOut, code>>

ChildExits ==
  /\ child = "running"
  /\ child' \in {"zero", "nonzero"}
  /\ UNCHANGED <<cap, helper, written, late, reading, closed, main, timedOut, code>>

DeadlinePasses ==
  /\ ~late
  /\ late' = TRUE
  /\ UNCHANGED <<cap, child, helper, written, reading, closed, main, timedOut, code>>

-----------------------------------------------------------------------------
(* _reader *)

\* Nobody is left to write to the streams.
EndOfFile == child # "running" /\ ~HelperAlive

Drained(k) == taken[k] = Len(written[k]) /\ EndOfFile

Pending(k) == taken[k] - kept[k]

Reads(k, where) == reader' = [reader EXCEPT ![k] = where]

ReaderUnchanged == UNCHANGED <<outside, closed, main, timedOut, code>>

\* stream.read(65536) is entered, or raises ValueError as the stream has been closed.
BeginRead(k) ==
  /\ reader[k] = "start"
  /\ Reads(k, IF k \in closed THEN "done" ELSE "reading")
  /\ UNCHANGED <<taken, kept, over>> /\ ReaderUnchanged

TakeUnit(k) ==
  /\ reader[k] = "reading"
  /\ taken[k] < Len(written[k]) /\ Pending(k) < Chunk
  /\ taken' = [taken EXCEPT ![k] = @ + 1]
  /\ UNCHANGED <<reader, kept, over>> /\ ReaderUnchanged

EndRead(k) ==
  /\ reader[k] = "reading"
  /\ Pending(k) = Chunk \/ Drained(k)
  /\ Reads(k, "have")
  /\ UNCHANGED <<taken, kept, over>> /\ ReaderUnchanged

\* Slip: a stream that fills the cap to the last byte counts as one that exceeds it.
KeepChunkExactly(k) ==
  LET fits == Pending(k) < cap - kept[k]
  IN /\ reader[k] = "have"
     /\ kept' = [kept EXCEPT ![k] = IF fits THEN taken[k] ELSE cap]
     /\ over' = [over EXCEPT ![k] = ~fits]
     /\ Reads(k, IF fits /\ Pending(k) > 0 THEN "start" ELSE "done")
     /\ UNCHANGED taken /\ ReaderUnchanged

\* The chunk is kept up to the cap; beyond it, the limit is exceeded.
KeepChunk(k) ==
  LET fits == Pending(k) <= cap - kept[k]
      full == kept[k] + Pending(k) = cap
  IN /\ reader[k] = "have"
     /\ kept' = [kept EXCEPT ![k] = IF fits THEN taken[k] ELSE cap]
     /\ over' = [over EXCEPT ![k] = ~fits]
     /\ Reads(k, IF Pending(k) = 0 \/ ~fits THEN "done" ELSE IF full THEN "exact" ELSE "start")
     /\ UNCHANGED taken /\ ReaderUnchanged

\* Exactly at the cap, one more byte tells the end of the output from more of it.
BeginPeek(k) ==
  /\ reader[k] = "exact"
  /\ Reads(k, IF k \in closed THEN "done" ELSE "peeking")
  /\ UNCHANGED <<taken, kept, over>> /\ ReaderUnchanged

Peek(k) ==
  /\ reader[k] = "peeking"
  /\ \/ /\ taken[k] < Len(written[k])
        /\ taken' = [taken EXCEPT ![k] = @ + 1]
        /\ over' = [over EXCEPT ![k] = TRUE]
     \/ /\ Drained(k)
        /\ UNCHANGED <<taken, over>>
  /\ Reads(k, "done")
  /\ UNCHANGED kept /\ ReaderUnchanged

ReaderStep(k) ==
  BeginRead(k) \/ TakeUnit(k) \/ EndRead(k) \/ KeepChunk(k) \/ BeginPeek(k) \/ Peek(k)

-----------------------------------------------------------------------------
(* The main thread *)

MainGoes(to) == main' = to

Poll ==
  /\ main = "poll"
  /\ MainGoes(IF child # "running" THEN "kill" ELSE "look")
  /\ UNCHANGED <<outside, reading, closed, timedOut, code>>

\* Slip: the loop left at the deadline without saying so.
LookSilently ==
  /\ main = "look"
  /\ MainGoes(IF late \/ \E k \in Streams : over[k] THEN "kill" ELSE "poll")
  /\ UNCHANGED <<outside, reading, closed, timedOut, code>>

\* The flags, then the deadline; the child may have exited since it was polled.
Look ==
  /\ main = "look"
  /\ \/ /\ \E k \in Streams : over[k]
        /\ MainGoes("kill") /\ UNCHANGED timedOut
     \/ /\ \A k \in Streams : ~over[k]
        /\ timedOut' = late
        /\ MainGoes(IF late THEN "kill" ELSE "poll")
  /\ UNCHANGED <<outside, reading, closed, code>>

\* Slip: the group is killed only if the child itself is still there.
KillIfRunning ==
  /\ main = "kill"
  /\ child' = IF child = "running" THEN "killed" ELSE child
  /\ helper' = IF child = "running" /\ helper = "grouped" THEN "gone" ELSE helper
  /\ MainGoes("wait")
  /\ UNCHANGED <<cap, written, late, reading, closed, timedOut, code>>

\* killpg, whether or not the child has exited.
Kill ==
  /\ main = "kill"
  /\ child' = IF child = "running" THEN "killed" ELSE child
  /\ helper' = IF helper = "grouped" THEN "gone" ELSE helper
  /\ MainGoes("wait")
  /\ UNCHANGED <<cap, written, late, reading, closed, timedOut, code>>

\* A child just killed is waited for at most two seconds.
Wait ==
  /\ main = "wait"
  /\ code' \in {child} \cup (IF child = "killed" THEN {"none"} ELSE {})
  /\ MainGoes("close o")
  /\ UNCHANGED <<outside, reading, closed, timedOut>>

\* stream.close() takes the lock a reader holds while it reads.
Close(k, after) ==
  /\ main = (IF k = "o" THEN "close o" ELSE "close e")
  /\ reader[k] \notin {"reading", "peeking"}
  /\ closed' = closed \cup {k}
  /\ MainGoes(after)
  /\ UNCHANGED <<outside, reading, timedOut, code>>

\* The readers are joined, each for a second at most: one that has not run by then is
\* left behind and goes on after the call has returned.
Join ==
  /\ main = "join"
  /\ MainGoes("returned")
  /\ UNCHANGED <<outside, reading, closed, timedOut, code>>

MainStep == Poll \/ Look \/ Kill \/ Wait \/ Close("o", "close e") \/ Close("e", "join") \/ Join

Returned == main = "returned" /\ UNCHANGED vars

Next ==
  \/ \E k \in Streams, u \in Units : Write(k, u)
  \/ LeaveHelper \/ HelperEnds \/ ChildExits \/ DeadlinePasses
  \/ \E k \in Streams : ReaderStep(k)
  \/ MainStep
  \/ Returned

\* The threads are scheduled and time passes; the child and its helper owe nothing.
Fairness ==
  /\ WF_vars(MainStep)
  /\ \A k \in Streams : WF_vars(ReaderStep(k))
  /\ WF_vars(DeadlinePasses)

Spec == Init /\ [][Next]_vars /\ Fairness

-----------------------------------------------------------------------------
(* Properties *)

Limited == \E k \in Streams : over[k]

\* The limit is reported exactly for the streams that exceed it: one unit more than
\* the cap, never the cap to the last unit (the peek of _reader).
LimitIsExact ==
  \A k \in Streams : /\ over[k] => Len(written[k]) > cap
                     /\ reader[k] = "done" /\ k \notin closed /\ ~over[k] => Drained(k)

\* A child that ends in time and within the cap is reported with its own status; a
\* call that reports a kill has a time-out or an exceeded limit to show for it.
KillHasAReason ==
  main = "returned" =>
    /\ code \in {"killed", "none"} => timedOut \/ Limited
    /\ code \in {"zero", "nonzero"} => code = child

\* Nothing of the process group outlives the call, the background process of a child
\* that had long exited included.
NoProcessLeft == main = "returned" => child # "running" /\ helper # "grouped"

\* Whatever the child does, the call returns.
CallReturns == <>(main = "returned")

-----------------------------------------------------------------------------
(* What the documentation says and the code does not do *)

\* execution.py:14-15: the output is "partial when the cap is hit -- signalled by
\* output_limit_exceeded"; unless signalled, a reader that has come to its end has kept
\* all that was written.
PartialIsSignalled ==
  main = "returned" =>
    \A k \in Streams : reader[k] = "done" => kept[k] = Len(written[k]) \/ Limited
=============================================================================
