-------------------------- MODULE TraceStoreProofs --------------------------
(***************************************************************************)
(* Theorems about TraceStore for any number of runners and any length of   *)
(* the trace, as long as none of them was started with --overwrite.        *)
(***************************************************************************)
EXTENDS TraceStore, SequenceTheorems, TLAPS

\* Whoever runs the attempt owns the file under the path, and a file that is being
\* written holds what its owner has written so far and nothing else.
StoreInv ==
  /\ TypeOK
  /\ \A r \in Runners : Running(r) \/ pc[r] = "done" => path = r
  /\ \A r \in Runners : pc[r] = "write" =>
        target[r] = r /\ contents[r] = [i \in 1 .. at[r] |-> r]
  /\ \A r \in Runners : pc[r] = "attempt" => contents[r] = <<>>
  /\ \A r \in Runners : pc[r] \in {"start", "reserve", "attempt"} => at[r] = 0
  /\ \A r \in Runners : pc[r] = "done" => contents[r] = Trace(r)

LEMMA StoreInvInit == Init => StoreInv
BY StoreAssumption DEF Init, StoreInv, TypeOK, Where, Running

LEMMA PrefixIsSeq ==
  ASSUME NEW r \in Runners, NEW n \in Nat
  PROVE  [i \in 1 .. n |-> r] \in Seq(Runners \cup {Nobody})
OBVIOUS

LEMMA StoreInvStep ==
  ASSUME Overwriting = {}, StoreInv, [Next]_vars
  PROVE  StoreInv'
<1>. USE DEF StoreInv, TypeOK, Running, Go
<1>1. ASSUME NEW r \in Runners, Unlink(r)  PROVE StoreInv'
  BY <1>1 DEF Unlink, Where
<1>2. ASSUME NEW r \in Runners, Reserve(r)  PROVE StoreInv'
  BY <1>2, StoreAssumption DEF Reserve, Where
<1>3. ASSUME NEW r \in Runners, Skip(r)  PROVE StoreInv'
  BY <1>3 DEF Skip, Where
<1>4. ASSUME NEW r \in Runners, OpenTrace(r)  PROVE StoreInv'
  <2>1. path = r
    BY <1>4 DEF OpenTrace
  <2>2. at[r] = 0 /\ <<>> = [i \in 1 .. 0 |-> r]
    BY <1>4 DEF OpenTrace
  <2>3. /\ path' = path /\ at' = at
        /\ contents' = [contents EXCEPT ![r] = <<>>]
        /\ target' = [target EXCEPT ![r] = r]
        /\ pc' = [pc EXCEPT ![r] = "write"]
    BY <1>4, <2>1, StoreAssumption DEF OpenTrace
  <2>4. contents' \in [Runners -> Seq(Runners \cup {Nobody})]
    BY <2>3
  <2>. QED  BY <2>1, <2>2, <2>3, <2>4 DEF Where
<1>5. ASSUME NEW r \in Runners, WriteLine(r)  PROVE StoreInv'
  <2>. DEFINE i == at[r] + 1
  <2>1. /\ path = r /\ target[r] = r /\ pc[r] = "write"
        /\ contents[r] = [j \in 1 .. at[r] |-> r]
        /\ at[r] \in 0 .. Lines /\ at[r] < Lines
    BY <1>5 DEF WriteLine
  <2>2. Overlay(contents[r], i, r) = [j \in 1 .. i |-> r]
    <3>1. PICK n \in Nat : n = at[r]
      BY <2>1, StoreAssumption
    <3>2. Len([j \in 1 .. n |-> r]) = n
      BY <3>1
    <3>3. Overlay([j \in 1 .. n |-> r], n + 1, r) = [j \in 1 .. n + 1 |-> r]
      BY <3>1, <3>2 DEF Overlay
    <3>. QED  BY <2>1, <3>1, <3>3
  <2>3. contents' = [contents EXCEPT ![r] = [j \in 1 .. i |-> r]]
    BY <1>5, <2>1, <2>2 DEF WriteLine
  <2>4. at' = [at EXCEPT ![r] = i] /\ UNCHANGED <<path, pc, target>>
    BY <1>5 DEF WriteLine
  <2>5. i \in 0 .. Lines /\ i \in Nat
    BY <2>1, StoreAssumption
  <2>6. contents' \in [Runners -> Seq(Runners \cup {Nobody})]
    BY <2>3, <2>5, PrefixIsSeq
  <2>. HIDE DEF i
  <2>. QED  BY <2>1, <2>3, <2>4, <2>5, <2>6
<1>6. ASSUME NEW r \in Runners, CloseTrace(r)  PROVE StoreInv'
  BY <1>6 DEF CloseTrace, Where, Trace
<1>7. ASSUME NEW r \in Runners, Kill(r)  PROVE StoreInv'
  BY <1>7 DEF Kill, Where
<1>8. CASE UNCHANGED vars
  BY <1>8 DEF vars
<1>. QED
  BY <1>1, <1>2, <1>3, <1>4, <1>5, <1>6, <1>7, <1>8 DEF Next

\* Without --overwrite at most one runner gets to run an attempt, however many were
\* started for it and whichever of them are killed (loop.py, the reservation).
THEOREM OneRunner ==
  ASSUME Overwriting = {}
  PROVE  Spec => []OneRunnerPerAttempt
<1>1. StoreInv /\ [Next]_vars => StoreInv'
  BY StoreInvStep
<1>2. StoreInv => OneRunnerPerAttempt
  BY DEF StoreInv, OneRunnerPerAttempt
<1>. QED
  BY <1>1, <1>2, StoreInvInit, PTL DEF Spec

\* Without --overwrite a trace that was reported as written stays whole and in place.
THEOREM TraceStaysWritten ==
  ASSUME Overwriting = {}
  PROVE  Spec => WrittenStays
<1>1. StoreInv /\ [Next]_vars => StoreInv'
  BY StoreInvStep
<1>2. StoreInv /\ StoreInv' /\ [Next]_vars
        => [\A r \in Runners : pc[r] = "done" => Found = Trace(r) /\ Found' = Found]_vars
  <2>. SUFFICES ASSUME StoreInv, StoreInv', Next, NEW r \in Runners, pc[r] = "done"
                PROVE  Found = Trace(r) /\ Found' = Found
    OBVIOUS
  <2>1. path = r /\ contents[r] = Trace(r) /\ r # Nobody
    BY StoreAssumption DEF StoreInv
  <2>2. pc'[r] = "done"
    BY SMTT(30) DEF Next, Unlink, Reserve, Skip, OpenTrace, WriteLine, CloseTrace, Kill, Go, StoreInv, TypeOK
  <2>3. path' = r /\ contents'[r] = Trace(r)
    BY <2>2 DEF StoreInv
  <2>. QED  BY <2>1, <2>3 DEF Found
<1>. QED
  BY <1>1, <1>2, StoreInvInit, PTL DEF Spec, WrittenStays

-----------------------------------------------------------------------------
(* The refinement *)

LEMMA StoreInvariant ==
  ASSUME Overwriting = {}
  PROVE  Spec => []StoreInv
<1>1. StoreInv /\ [Next]_vars => StoreInv'
  BY StoreInvStep
<1>. QED
  BY <1>1, StoreInvInit, PTL DEF Spec

\* One more line of the same runner.
LEMMA OneMoreLine ==
  ASSUME NEW r \in Runners, NEW n \in Nat
  PROVE  LET now == [i \in 1 .. n |-> r]
             next == [i \in 1 .. n + 1 |-> r]
         IN /\ now = <<>> <=> n = 0
            /\ n = 0 => next = <<r>>
            /\ n # 0 => now[1] = r /\ Len(now) = n /\ next = Append(now, now[1])
<1>. DEFINE now == [i \in 1 .. n |-> r]
            next == [i \in 1 .. n + 1 |-> r]
<1>1. now \in Seq(Runners) /\ Len(now) = n
  OBVIOUS
<1>2. n = 0 => now = <<>> /\ next = <<r>>
  OBVIOUS
<1>3. ASSUME n # 0  PROVE now[1] = r /\ now # <<>> /\ next = Append(now, now[1])
  <2>1. now[1] = r /\ now # <<>>
    BY <1>1, <1>3
  <2>2. next = Append(now, r)
    BY <1>1
  <2>. QED  BY <2>1, <2>2
<1>. QED
  BY <1>1, <1>2, <1>3

\* Without --overwrite whoever reads the file of an attempt, at whatever time, finds a
\* beginning of the trace of one run that later readers find too: the reservation, the
\* truncating open and the line-by-line write, with any number of runners and kills,
\* implement WriteOnceTrace.
THEOREM StoreImplementsWriteOnce ==
  ASSUME Overwriting = {}
  PROVE  Spec => ImplementsWriteOnce
<1>1. Init => Abstract!Init
  BY DEF Init, Abstract!Init, Found
<1>2. StoreInv /\ [Next]_vars => [Abstract!Next]_(Abstract!file)
  <2>. SUFFICES ASSUME StoreInv, [Next]_vars  PROVE [Abstract!Next]_(Abstract!file)
    OBVIOUS
  <2>. USE DEF Abstract!file
  <2>1. ASSUME NEW r \in Runners, Unlink(r) \/ Skip(r) \/ CloseTrace(r) \/ Kill(r)
        PROVE  UNCHANGED Abstract!file
    BY <2>1 DEF Unlink, Skip, CloseTrace, Kill, Found
  <2>2. ASSUME NEW r \in Runners, Reserve(r)  PROVE Abstract!Create
    BY <2>2, StoreAssumption DEF Reserve, Found, StoreInv, TypeOK, Abstract!Create
  <2>3. ASSUME NEW r \in Runners, OpenTrace(r)  PROVE UNCHANGED Abstract!file
    <3>1. path = r /\ r # Nobody /\ contents[r] = <<>>
      BY <2>3, StoreAssumption DEF OpenTrace, StoreInv, Running
    <3>. QED  BY <2>3, <3>1 DEF OpenTrace, Found, StoreInv, TypeOK
  <2>4. ASSUME NEW r \in Runners, WriteLine(r)  PROVE Abstract!Begin \/ Abstract!Continue
    <3>1. /\ path = r /\ path' = r /\ r # Nobody /\ target[r] = r
          /\ at[r] \in Nat /\ at[r] < Lines
          /\ contents[r] = [i \in 1 .. at[r] |-> r]
      BY <2>4, StoreAssumption DEF WriteLine, StoreInv, Running, TypeOK
    <3>2. PICK n \in Nat : n = at[r]
      BY <3>1
    <3>3. contents'[r] = [i \in 1 .. n + 1 |-> r]
      <4>1. at'[r] = n + 1 /\ pc'[r] = "write"
        BY <2>4, <3>2 DEF WriteLine, StoreInv, TypeOK
      <4>2. StoreInv'
        BY <2>4, StoreInvStep
      <4>. QED  BY <4>1, <4>2 DEF StoreInv
    <3>4. Found = [i \in 1 .. n |-> r] /\ Found' = [i \in 1 .. n + 1 |-> r]
      BY <3>1, <3>2, <3>3 DEF Found
    <3>5. path # Nobody /\ (path # Nobody)' = (path # Nobody)
      BY <3>1
    <3>. HIDE DEF Found
    <3>6. CASE n = 0
      <4>1. Found = <<>> /\ Found' = <<r>>
        BY <3>4, <3>6, OneMoreLine
      <4>. QED  BY <3>5, <4>1 DEF Abstract!Begin
    <3>7. CASE n # 0
      <4>1. Found # <<>> /\ Len(Found) < Lines /\ Found' = Append(Found, Found[1])
        BY <3>1, <3>2, <3>4, <3>7, OneMoreLine
      <4>. QED  BY <3>5, <4>1 DEF Abstract!Continue
    <3>. QED  BY <3>6, <3>7
  <2>5. CASE UNCHANGED vars
    BY <2>5 DEF vars, Found
  <2>. QED
    BY <2>1, <2>2, <2>3, <2>4, <2>5 DEF Next, Abstract!Next
<1>. QED
  BY <1>1, <1>2, StoreInvariant, PTL DEF Spec, ImplementsWriteOnce, Abstract!Spec
=============================================================================
