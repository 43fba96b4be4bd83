-------------------------- MODULE PolicyTurnProofs --------------------------
(***************************************************************************)
(* Proofs about PolicyTurn, for any library and ranking, any number of     *)
(* turns and of retries.                                                   *)
(*                                                                         *)
(* The walking cache breakpoint rewrites messages that are already part of *)
(* the transcript, so the argument is in two layers: what two lists of     *)
(* messages that differ in their breakpoints alone have in common          *)
(* (SameTalk), and the pairing of calls and answers, which only depends on *)
(* that.  What follows is about requests and cards: what a request repeats *)
(* of the one before it, what a step's retrieval event is keyed on, which  *)
(* cards the model has before it, and when they are sent again.  Last, the *)
(* ranking that module Retrieval defines, for any library and scores.      *)
(***************************************************************************)
EXTENDS PolicyTurn, Retrieval, FiniteSetTheorems, TLAPS

\* The same messages, breakpoints aside.
SameTalk(a, b) ==
  /\ Len(a) = Len(b)
  /\ \A i \in 1 .. Len(a) :
       /\ a[i].role = b[i].role /\ a[i].answers = b[i].answers
       /\ a[i].result = b[i].result /\ a[i].calls = b[i].calls
       /\ a[i].cards = b[i].cards

LEMMA BlankType == Blank \in Message /\ Blank.role = "user" /\ Blank.answers = NoCall
BY DEF Blank, Message, NoCall, NoStep, CardIds

LEMMA LastElement ==
  ASSUME NEW S, NEW s \in Seq(S), s # <<>>
  PROVE  Last(s) \in S
<1>1. Len(s) \in 1 .. Len(s)
  OBVIOUS
<1> QED
  BY <1>1 DEF Last

LEMMA LatestHypothesis ==
  TypeOK /\ ledger # <<>> => Last(ledger).step \in Nat /\ Last(ledger).text \in Hypotheses
<1> SUFFICES ASSUME TypeOK, ledger # <<>>
             PROVE  Last(ledger).step \in Nat /\ Last(ledger).text \in Hypotheses
  OBVIOUS
<1>1. ledger \in Seq([step : Nat, text : Hypotheses])
  BY DEF TypeOK
<1>2. Last(ledger) \in [step : Nat, text : Hypotheses]
  BY <1>1, LastElement
<1> QED
  BY <1>2

LEMMA QueryType == TypeOK => Query \in Hypotheses \cup {NoText}
BY LatestHypothesis DEF Query

LEMMA IdsType == TypeOK => Ids \in CardIds
BY QueryType, PolicyAssumption DEF Ids, CardIds

LEMMA BlockType == TypeOK => Block \in CardIds
BY IdsType DEF Block, CardIds

LEMMA EventType == TypeOK => EventNow \in Event
<1> SUFFICES ASSUME TypeOK PROVE EventNow \in Event
  OBVIOUS
<1>1. HypothesisStep \in Nat \cup {NoStep}
  BY LatestHypothesis DEF HypothesisStep
<1>2. Injects \in BOOLEAN
  BY DEF Injects
<1> QED
  BY <1>1, <1>2, IdsType DEF EventNow, Event

LEMMA AnswerType ==
  TypeOK => /\ Answer \in Message
            /\ Answer.role = "user" /\ Answer.answers = pending
            /\ Answer.result = Len(steps) - 1
<1> SUFFICES ASSUME TypeOK PROVE /\ Answer \in Message
                                 /\ Answer.role = "user" /\ Answer.answers = pending
                                 /\ Answer.result = Len(steps) - 1
  OBVIOUS
<1>1. Len(steps) - 1 \in Nat \cup {NoStep}
  BY DEF TypeOK, NoStep
<1>2. pending \in Calls \cup {NoCall}
  BY DEF TypeOK
<1> QED
  BY <1>1, <1>2, BlankType DEF Answer, Message

\* The question of a turn: one message, or two of which the second answers nothing.
LEMMA QuestionShape ==
  TypeOK => /\ Question \in Seq(Message)
            /\ Len(Question) \in 1 .. 2
            /\ \A i \in 1 .. Len(Question) : Question[i].role # "assistant"
            /\ ~Started => Question[1].answers = NoCall
            /\ Started => Question[1].answers = pending /\ Question[1].result = Len(steps) - 1
            /\ Len(Question) = 2 => Question[2].answers = NoCall
<1> SUFFICES ASSUME TypeOK
             PROVE  /\ Question \in Seq(Message)
                    /\ Len(Question) \in 1 .. 2
                    /\ \A i \in 1 .. Len(Question) : Question[i].role # "assistant"
                    /\ ~Started => Question[1].answers = NoCall
                    /\ Started => Question[1].answers = pending /\ Question[1].result = Len(steps) - 1
                    /\ Len(Question) = 2 => Question[2].answers = NoCall
  OBVIOUS
<1> DEFINE Shown == [Blank EXCEPT !.cards = Block]
           Plain == [Answer EXCEPT !.cards = Block]
           Tool == [Answer EXCEPT !.role = "tool"]
<1>1. Shown \in Message /\ Shown.role = "user" /\ Shown.answers = NoCall
  BY BlankType, BlockType DEF Message
<1>2. /\ Plain \in Message /\ Plain.role = "user"
      /\ Plain.answers = pending /\ Plain.result = Len(steps) - 1
  BY AnswerType, BlockType DEF Message
<1>3. /\ Tool \in Message /\ Tool.role = "tool"
      /\ Tool.answers = pending /\ Tool.result = Len(steps) - 1
  BY AnswerType DEF Message
<1> HIDE DEF Shown, Plain, Tool
<1>4. CASE ~Started
  <2>1. Question = <<Shown>>
    BY <1>4 DEF Question, Shown
  <2> QED
    BY <1>1, <1>4, <2>1
<1>5. CASE Started /\ provider = "claude"
  <2>1. Question = <<Plain>>
    BY <1>5 DEF Question, Plain
  <2> QED
    BY <1>2, <1>5, <2>1
<1>6. CASE Started /\ provider # "claude" /\ Block = <<>>
  <2>1. Question = <<Tool>>
    BY <1>6 DEF Question, Tool
  <2> QED
    BY <1>3, <1>6, <2>1
<1>7. CASE Started /\ provider # "claude" /\ Block # <<>>
  <2>1. Question = <<Tool, Shown>>
    BY <1>7 DEF Question, Tool, Shown
  <2> QED
    BY <1>1, <1>3, <1>7, <2>1
<1> QED
  BY <1>4, <1>5, <1>6, <1>7

-----------------------------------------------------------------------------
(* The cache breakpoint. *)

LEMMA UnmarkedType ==
  ASSUME NEW ms \in Seq(Message)
  PROVE  /\ Unmarked(ms) \in Seq(Message)
         /\ SameTalk(Unmarked(ms), ms)
         /\ \A i \in 1 .. Len(ms) : Unmarked(ms)[i].mark = FALSE
<1>1. \A i \in 1 .. Len(ms) : ms[i] \in Message
  OBVIOUS
<1>2. \A i \in 1 .. Len(ms) :
        LET u == [ms[i] EXCEPT !.mark = FALSE]
        IN /\ u \in Message /\ u.mark = FALSE
           /\ u.role = ms[i].role /\ u.answers = ms[i].answers
           /\ u.result = ms[i].result /\ u.calls = ms[i].calls
           /\ u.cards = ms[i].cards
  BY <1>1 DEF Message
<1>3. Unmarked(ms) = [i \in 1 .. Len(ms) |-> [ms[i] EXCEPT !.mark = FALSE]]
  BY DEF Unmarked
<1>4. Unmarked(ms) \in Seq(Message) /\ Len(Unmarked(ms)) = Len(ms)
  BY <1>2, <1>3
<1> QED
  BY <1>2, <1>3, <1>4 DEF SameTalk

LEMMA BreakpointType ==
  ASSUME NEW ms \in Seq(Message), ms # <<>>
  PROVE  /\ WithBreakpoint(ms) \in Seq(Message)
         /\ SameTalk(WithBreakpoint(ms), ms)
<1>1. CASE provider = "openai"
  BY <1>1 DEF WithBreakpoint, SameTalk
<1>2. CASE provider # "openai"
  <2> DEFINE u == Unmarked(ms)
             top == [u[Len(ms)] EXCEPT !.mark = TRUE]
             w == [u EXCEPT ![Len(ms)] = top]
  <2>1. u \in Seq(Message) /\ Len(u) = Len(ms) /\ SameTalk(u, ms)
    BY UnmarkedType DEF SameTalk
  <2>2. Len(ms) \in 1 .. Len(u) /\ u[Len(ms)] \in Message
    BY <2>1
  <2>3. /\ top \in Message
        /\ top.role = u[Len(ms)].role /\ top.answers = u[Len(ms)].answers
        /\ top.result = u[Len(ms)].result /\ top.calls = u[Len(ms)].calls
        /\ top.cards = u[Len(ms)].cards
    BY <2>2 DEF Message
  <2>4. WithBreakpoint(ms) = w
    BY <1>2, <2>2 DEF WithBreakpoint
  <2> HIDE DEF u, top
  <2>5. w \in Seq(Message) /\ Len(w) = Len(u)
    BY <2>1, <2>3
  <2>6. \A i \in 1 .. Len(u) : w[i] = IF i = Len(ms) THEN top ELSE u[i]
    BY <2>1, <2>2
  <2> QED
    BY <2>1, <2>3, <2>5, <2>6, <2>4 DEF SameTalk
<1> QED
  BY <1>1, <1>2

-----------------------------------------------------------------------------
(* Type correctness. *)

LEMMA Concatenation ==
  ASSUME NEW S, NEW a \in Seq(S), NEW b \in Seq(S)
  PROVE  /\ a \o b \in Seq(S) /\ Len(a \o b) = Len(a) + Len(b)
         /\ \A i \in 1 .. Len(a) : (a \o b)[i] = a[i]
         /\ \A i \in Len(a) + 1 .. Len(a) + Len(b) : (a \o b)[i] = b[i - Len(a)]
OBVIOUS

LEMMA AskTypes ==
  ASSUME TypeOK, Ask
  PROVE  /\ request' \in Seq(Message) /\ messages' \in Seq(Message)
         /\ request' # <<>>
         /\ SameTalk(request', messages \o Question)
         /\ Len(messages') = Len(messages)
         /\ \A i \in 1 .. Len(messages) : messages'[i] = request'[i]
<1>1. messages \in Seq(Message) /\ Question \in Seq(Message) /\ Len(Question) \in 1 .. 2
  BY QuestionShape DEF TypeOK
<1> DEFINE ms == messages \o Question
<1>2. /\ ms \in Seq(Message) /\ Len(ms) = Len(messages) + Len(Question)
      /\ ms # <<>> /\ Len(messages) \in Nat
  <2>1. /\ ms \in Seq(Message) /\ Len(ms) = Len(messages) + Len(Question)
        /\ Len(messages) \in Nat /\ Len(Question) \in 1 .. 2
    BY <1>1, Concatenation
  <2> HIDE DEF ms
  <2> QED
    BY <2>1
<1>3. request' = WithBreakpoint(ms) /\ messages' = SubSeq(request', 1, Len(messages))
  BY DEF Ask
<1> HIDE DEF ms
<1>4. request' \in Seq(Message) /\ SameTalk(request', ms)
  BY <1>2, <1>3, BreakpointType
<1>5. Len(request') = Len(ms)
  BY <1>4 DEF SameTalk
<1>6. Len(messages) \in 0 .. Len(request') /\ request' # <<>>
  BY <1>1, <1>2, <1>4, <1>5
<1>7. /\ messages' \in Seq(Message) /\ Len(messages') = Len(messages)
      /\ \A i \in 1 .. Len(messages) : messages'[i] = request'[i]
  <2> DEFINE r == request'
             n == Len(messages)
  <2>1. r \in Seq(Message) /\ n \in 0 .. Len(r) /\ messages' = SubSeq(r, 1, n)
    BY <1>3, <1>4, <1>6
  <2> HIDE DEF r, n
  <2>2. /\ SubSeq(r, 1, n) \in Seq(Message) /\ Len(SubSeq(r, 1, n)) = n
        /\ \A i \in 1 .. n : SubSeq(r, 1, n)[i] = r[i]
    BY <2>1
  <2> QED
    BY <2>1, <2>2 DEF r, n
<1> QED
  BY <1>4, <1>6, <1>7 DEF ms

LEMMA ReplyType ==
  ASSUME NEW ids \in Seq(Calls)
  PROVE  /\ Reply(ids) \in Message
         /\ Reply(ids).role = "assistant" /\ Reply(ids).answers = NoCall
         /\ Reply(ids).calls = ids /\ Reply(ids).mark = FALSE
BY BlankType DEF Reply, Message, Blank

-----------------------------------------------------------------------------
(* A turn is only begun when there is a step left for its call: the call a  *)
(* model makes has a number.                                                *)

PolicyInv == TypeOK /\ (Calling => Len(steps) < MaxTurns)

LEMMA CommitTypes ==
  ASSUME TypeOK, NEW ids \in Seq(Calls), Commit(ids)
  PROVE  messages' \in Seq(Message)
<1>1. request \in Seq(Message) /\ Reply(ids) \in Message
  BY ReplyType DEF TypeOK
<1>2. Append(request, Reply(ids)) \in Seq(Message)
  BY <1>1
<1> QED
  BY <1>2 DEF Commit

LEMMA RecordTypes ==
  ASSUME TypeOK, RecordStep
  PROVE  steps' \in Seq([call : Calls \cup {NoCall}, event : Event])
BY DEF TypeOK, RecordStep, RecordedEvent

LEMMA PolicyInvHolds == PolicySpec => []PolicyInv
<1>1. PolicyInit => PolicyInv
  <2> SUFFICES ASSUME PolicyInit PROVE PolicyInv
    OBVIOUS
  <2>1. [hyp |-> NoStep, ids |-> <<>>, injected |-> FALSE] \in Event
    BY DEF Event, CardIds
  <2> QED
    BY <2>1, PolicyAssumption DEF PolicyInit, PolicyInv, TypeOK, Calling
<1>2. PolicyInv /\ [PolicyNext]_policyVars => PolicyInv'
  <2> SUFFICES ASSUME PolicyInv, [PolicyNext]_policyVars PROVE PolicyInv'
    OBVIOUS
  <2> USE DEF PolicyInv, Calling
  <2>1. CASE Ask
    <3>1. request' \in Seq(Message) /\ messages' \in Seq(Message)
      BY <2>1, AskTypes
    <3>2. active' \in Event
      BY <2>1, EventType DEF Ask
    <3>3. \A ids \in injected' : ids \in CardIds /\ injected' = {ids}
      BY <2>1, IdsType DEF Ask, Marker, TypeOK
    <3>4. failures' \in 0 .. RetryCount
      BY <2>1, PolicyAssumption DEF Ask
    <3> QED
      BY <2>1, <3>1, <3>2, <3>3, <3>4 DEF Ask, TypeOK
  <2>2. CASE Fails
    BY <2>2, PolicyAssumption DEF Fails, TypeOK
  <2>3. CASE GivesUp
    BY <2>3 DEF GivesUp, TypeOK
  <2>4. CASE CallsTool
    <3> DEFINE id == Len(steps) + 1
    <3>1. id \in Calls
      BY <2>4, PolicyAssumption DEF CallsTool, TypeOK, Calls
    <3>2. Commit(<<id>>) /\ pending' = id /\ call' = id
      BY <2>4 DEF CallsTool
    <3>3. messages' \in Seq(Message)
      <4>1. <<id>> \in Seq(Calls)
        BY <3>1
      <4> QED
        BY <3>2, <4>1, CommitTypes
    <3> HIDE DEF id
    <3> QED
      BY <2>4, <3>1, <3>2, <3>3 DEF CallsTool, TypeOK
  <2>5. CASE \E ids \in {<<>>, <<Len(steps) + 1>>} : Quits(ids)
    <3>1. PICK ids \in {<<>>, <<Len(steps) + 1>>} : Quits(ids)
      BY <2>5
    <3>2. ids \in Seq(Calls)
      <4>1. Len(steps) + 1 \in Calls
        BY <3>1, PolicyAssumption DEF Quits, TypeOK, Calls
      <4>2. <<>> \in Seq(Calls) /\ <<Len(steps) + 1>> \in Seq(Calls)
        BY <4>1
      <4> QED
        BY <3>1, <4>2
    <3>3. messages' \in Seq(Message)
      BY <3>1, <3>2, CommitTypes DEF Quits
    <3> QED
      BY <3>1, <3>3 DEF Quits, TypeOK
  <2>6. CASE GoesOn
    <3>1. steps' \in Seq([call : Calls \cup {NoCall}, event : Event])
      BY <2>6, RecordTypes DEF GoesOn
    <3>2. ledger' \in Seq([step : Nat, text : Hypotheses])
      <4>1. Len(steps) \in Nat /\ ledger \in Seq([step : Nat, text : Hypotheses])
        BY DEF TypeOK
      <4>2. ASSUME NEW text \in Hypotheses,
                   ledger' = Append(ledger, [step |-> Len(steps), text |-> text])
            PROVE  ledger' \in Seq([step : Nat, text : Hypotheses])
        BY <4>1, <4>2
      <4> QED
        BY <2>6, <4>1, <4>2 DEF GoesOn
    <3> QED
      BY <2>6, <3>1, <3>2 DEF GoesOn, TypeOK
  <2>7. CASE LastStep
    <3>1. steps' \in Seq([call : Calls \cup {NoCall}, event : Event])
      BY <2>7, RecordTypes DEF LastStep
    <3> QED
      BY <2>7, <3>1 DEF LastStep, TypeOK
  <2>8. CASE StopsOnBudget
    BY <2>8 DEF StopsOnBudget, TypeOK
  <2>9. CASE UNCHANGED policyVars
    BY <2>9 DEF policyVars, TypeOK
  <2> QED
    BY <2>1, <2>2, <2>3, <2>4, <2>5, <2>6, <2>7, <2>8, <2>9
       DEF PolicyNext, CallsNothing, CallsGarbled
<1> QED
  BY <1>1, <1>2, PTL DEF PolicySpec

\* The state keeps its type, over any library and any number of turns and retries.
THEOREM PolicyTypeCorrect == PolicySpec => []TypeOK
<1>1. PolicyInv => TypeOK
  BY DEF PolicyInv
<1> QED
  BY <1>1, PolicyInvHolds, PTL

-----------------------------------------------------------------------------
(* Calls and their answers, in any list of messages ms and of steps ss: the *)
(* first n messages are followed by their answers, if they make a call, and *)
(* an answer follows a message of the model.                                *)

AnsweredIn(ms, ss, i) ==
  /\ i + 1 <= Len(ms) /\ Len(ms[i].calls) = 1
  /\ ms[i + 1].answers = ms[i].calls[1]
  /\ ms[i + 1].result + 1 \in 1 .. Len(ss)
  /\ ss[ms[i + 1].result + 1].call = ms[i].calls[1]

FollowsModel(ms, i) == i > 1 /\ ms[i - 1].role = "assistant"

Paired(ms, ss, n) ==
  /\ \A i \in 1 .. n : ms[i].role = "assistant" => AnsweredIn(ms, ss, i)
  /\ \A i \in 1 .. Len(ms) : ms[i].answers # NoCall => FollowsModel(ms, i)

\* The transcript ends in a call that waits for its answer.
Waits(ms, ss, id) ==
  ms # <<>> => /\ Paired(ms, ss, Len(ms) - 1)
               /\ ms[Len(ms)].role = "assistant" /\ ms[Len(ms)].calls = <<id>>

TalkInv ==
  /\ Calling => Paired(request, steps, Len(request))
  /\ phase = "dispatching" /\ call # NoCall => Waits(messages, steps, call) /\ pending = call
  /\ phase = "loop" /\ messages # <<>> =>
       /\ Waits(messages, steps, pending)
       /\ steps # <<>> /\ steps[Len(steps)].call = pending

LEMMA PairedSameTalk ==
  ASSUME NEW a \in Seq(Message), NEW b \in Seq(Message), NEW ss, NEW n \in 0 .. Len(b),
         SameTalk(a, b), Paired(b, ss, n)
  PROVE  Paired(a, ss, n)
<1>1. Len(a) = Len(b) /\ Len(b) \in Nat
  BY DEF SameTalk
<1>2. ASSUME NEW i \in 1 .. n, a[i].role = "assistant"
      PROVE  AnsweredIn(a, ss, i)
  <2>1. AnsweredIn(b, ss, i) /\ i \in 1 .. Len(b)
    BY <1>1, <1>2 DEF SameTalk, Paired
  <2>2. i + 1 \in 1 .. Len(b)
    BY <1>1, <2>1 DEF AnsweredIn
  <2> QED
    BY <1>1, <2>1, <2>2 DEF SameTalk, AnsweredIn
<1>3. ASSUME NEW i \in 1 .. Len(a), a[i].answers # NoCall
      PROVE  FollowsModel(a, i)
  <2>1. FollowsModel(b, i)
    BY <1>1, <1>3 DEF SameTalk, Paired
  <2>2. i - 1 \in 1 .. Len(b)
    BY <1>1, <2>1 DEF FollowsModel
  <2> QED
    BY <1>1, <2>1, <2>2 DEF SameTalk, FollowsModel
<1> QED
  BY <1>2, <1>3 DEF Paired

\* A step more answers what was answered.
LEMMA PairedMoreSteps ==
  ASSUME NEW ms \in Seq(Message), NEW S, NEW ss \in Seq(S), NEW s \in S,
         NEW n \in 0 .. Len(ms), Paired(ms, ss, n)
  PROVE  Paired(ms, Append(ss, s), n)
<1>1. \A k \in 1 .. Len(ss) : k \in 1 .. Len(Append(ss, s)) /\ Append(ss, s)[k] = ss[k]
  OBVIOUS
<1>2. \A i \in 1 .. n : AnsweredIn(ms, ss, i) => AnsweredIn(ms, Append(ss, s), i)
  BY <1>1 DEF AnsweredIn
<1> QED
  BY <1>2 DEF Paired

\* The model's reply leaves the messages before it paired and waits itself.
LEMMA ReplyWaits ==
  ASSUME NEW ms \in Seq(Message), NEW ss, NEW r \in Message,
         Paired(ms, ss, Len(ms)), r.role = "assistant", r.answers = NoCall
  PROVE  LET all == Append(ms, r)
         IN /\ Paired(all, ss, Len(all) - 1)
            /\ all # <<>> /\ all[Len(all)] = r
<1> DEFINE all == Append(ms, r)
<1>1. /\ all \in Seq(Message) /\ Len(ms) \in Nat /\ Len(all) = Len(ms) + 1
      /\ all[Len(ms) + 1] = r
      /\ \A i \in 1 .. Len(ms) : all[i] = ms[i]
  OBVIOUS
<1> HIDE DEF all
<1>2. ASSUME NEW i \in 1 .. Len(ms), all[i].role = "assistant"
      PROVE  AnsweredIn(all, ss, i)
  <2>1. AnsweredIn(ms, ss, i)
    BY <1>1, <1>2 DEF Paired
  <2>2. i + 1 \in 1 .. Len(ms)
    BY <1>1, <2>1 DEF AnsweredIn
  <2> QED
    BY <1>1, <2>1, <2>2 DEF AnsweredIn
<1>3. ASSUME NEW i \in 1 .. Len(all), all[i].answers # NoCall
      PROVE  FollowsModel(all, i)
  <2>1. i \in 1 .. Len(ms)
    BY <1>1, <1>3
  <2>2. FollowsModel(ms, i)
    BY <1>1, <1>3, <2>1 DEF Paired
  <2>3. i - 1 \in 1 .. Len(ms)
    BY <2>1, <2>2 DEF FollowsModel
  <2> QED
    BY <1>1, <2>2, <2>3 DEF FollowsModel
<1>4. all # <<>> /\ Len(all) - 1 = Len(ms)
  BY <1>1
<1> QED
  BY <1>1, <1>2, <1>3, <1>4 DEF Paired, all

\* The question answers the call the transcript waits with.
LEMMA QuestionAnswers ==
  ASSUME TypeOK,
         Started => Waits(messages, steps, pending) /\ steps # <<>>
                    /\ steps[Len(steps)].call = pending
  PROVE  LET ms == messages \o Question IN Paired(ms, steps, Len(ms))
<1> DEFINE q == Question
           ms == messages \o q
           m == Len(messages)
<1>1. /\ q \in Seq(Message) /\ Len(q) \in 1 .. 2
      /\ \A i \in 1 .. Len(q) : q[i].role # "assistant"
      /\ ~Started => q[1].answers = NoCall
      /\ Started => q[1].answers = pending /\ q[1].result = Len(steps) - 1
      /\ Len(q) = 2 => q[2].answers = NoCall
  BY QuestionShape
<1>2. messages \in Seq(Message) /\ m \in Nat
  BY DEF TypeOK
<1> HIDE DEF q
<1>3. /\ ms \in Seq(Message) /\ Len(ms) = m + Len(q)
      /\ \A i \in 1 .. m : ms[i] = messages[i]
      /\ \A i \in m + 1 .. m + Len(q) : ms[i] = q[i - m]
  BY <1>1, <1>2, Concatenation
<1>4. m > 0 => Started
  BY <1>2 DEF Started
<1>5. Len(steps) \in Nat
  BY DEF TypeOK
<1> HIDE DEF ms
<1>6. m > 0 => /\ Paired(messages, steps, m - 1)
               /\ messages[m].role = "assistant" /\ messages[m].calls = <<pending>>
               /\ Len(steps) \in 1 .. Len(steps) /\ steps[Len(steps)].call = pending
  <2>1. Started /\ steps # <<>> => Len(steps) > 0
    BY DEF TypeOK
  <2> QED
    BY <1>4, <1>5, <2>1 DEF Waits, Started
<1>7. ASSUME NEW i \in 1 .. m + Len(q), ms[i].role = "assistant"
      PROVE  AnsweredIn(ms, steps, i)
  <2>1. i \in 1 .. m
    <3>1. i > m => i - m \in 1 .. Len(q) /\ ms[i] = q[i - m]
      BY <1>1, <1>2, <1>3
    <3> QED
      BY <1>1, <1>2, <1>7, <3>1
  <2>2. CASE i = m
    <3>1. ms[m + 1] = q[1] /\ ms[m] = messages[m]
      BY SMTT(30), <1>1, <1>2, <1>3, <2>1, <2>2
    <3>2. /\ ms[m + 1].answers = pending /\ ms[m + 1].result + 1 = Len(steps)
          /\ ms[m].calls = <<pending>>
      BY <1>1, <1>4, <1>5, <1>6, <2>1, <2>2, <3>1
    <3>3. m + 1 <= Len(ms)
      BY <1>1, <1>2, <1>3
    <3> QED
      BY <1>6, <2>1, <2>2, <3>2, <3>3 DEF AnsweredIn
  <2>3. CASE i # m
    <3>1. i \in 1 .. m - 1 /\ i + 1 \in 1 .. m /\ m > 0
      BY <1>2, <2>1, <2>3
    <3>2. ms[i] = messages[i] /\ ms[i + 1] = messages[i + 1]
      BY <1>3, <2>1, <3>1
    <3>3. AnsweredIn(messages, steps, i)
      BY <1>6, <1>7, <3>1, <3>2 DEF Paired
    <3>4. i + 1 <= Len(ms)
      BY <1>1, <1>2, <1>3, <3>1
    <3> QED
      BY <3>2, <3>3, <3>4 DEF AnsweredIn
  <2> QED
    BY <2>2, <2>3
<1>8. ASSUME NEW i \in 1 .. m + Len(q), ms[i].answers # NoCall
      PROVE  FollowsModel(ms, i)
  <2>1. CASE i \in 1 .. m
    <3>1. FollowsModel(messages, i)
      BY <1>2, <1>3, <1>6, <1>8, <2>1 DEF Paired
    <3>2. i - 1 \in 1 .. m
      BY <1>2, <2>1, <3>1 DEF FollowsModel
    <3> QED
      BY <1>3, <3>1, <3>2 DEF FollowsModel
  <2>2. CASE i \notin 1 .. m
    <3>1. i - m \in 1 .. Len(q) /\ ms[i] = q[i - m]
      BY <1>1, <1>2, <1>3, <2>2
    <3>2. i - m = 1 /\ Started
      BY SMTT(30), <1>1, <1>8, <3>1
    <3>3. m > 0 /\ i = m + 1
      BY <1>2, <3>1, <3>2 DEF Started
    <3>4. ms[m].role = "assistant"
      BY <1>2, <1>3, <1>6, <3>3
    <3> QED
      BY <1>2, <3>3, <3>4 DEF FollowsModel
  <2> QED
    BY <2>1, <2>2
<1>9. Paired(ms, steps, Len(ms))
  BY <1>3, <1>7, <1>8 DEF Paired
<1> QED
  BY <1>9 DEF ms, q

LEMMA CommitWaits ==
  ASSUME TypeOK, TalkInv, Calling, NEW ids \in Seq(Calls), Commit(ids)
  PROVE  /\ messages' # <<>> /\ Paired(messages', steps, Len(messages') - 1)
         /\ messages'[Len(messages')].role = "assistant"
         /\ messages'[Len(messages')].calls = ids
<1>1. request \in Seq(Message) /\ Paired(request, steps, Len(request))
  BY DEF TypeOK, TalkInv
<1>2. /\ Reply(ids) \in Message /\ Reply(ids).role = "assistant"
      /\ Reply(ids).answers = NoCall /\ Reply(ids).calls = ids
  BY ReplyType
<1> DEFINE r == Reply(ids)
<1>3. messages' = Append(request, r)
  BY DEF Commit
<1> HIDE DEF r
<1>4. /\ Paired(Append(request, r), steps, Len(Append(request, r)) - 1)
      /\ Append(request, r) # <<>>
      /\ Append(request, r)[Len(Append(request, r))] = r
  BY <1>1, <1>2, ReplyWaits DEF r
<1> QED
  BY <1>2, <1>3, <1>4 DEF r

LEMMA TalkStep == PolicyInv /\ TalkInv /\ [PolicyNext]_policyVars => TalkInv'
<1> SUFFICES ASSUME PolicyInv, TalkInv, [PolicyNext]_policyVars PROVE TalkInv'
  OBVIOUS
<1> USE DEF PolicyInv, Calling
<1>1. CASE Ask
  <2> DEFINE ms == messages \o Question
  <2>1. phase = "loop" /\ phase' = "calling" /\ UNCHANGED steps
    BY <1>1 DEF Ask
  <2>2. Paired(ms, steps, Len(ms))
    BY <2>1, QuestionAnswers DEF TalkInv, Started
  <2>3. request' \in Seq(Message) /\ SameTalk(request', ms)
    BY <1>1, AskTypes
  <2>4. ms \in Seq(Message)
    <3>1. messages \in Seq(Message) /\ Question \in Seq(Message)
      BY QuestionShape DEF TypeOK
    <3> QED
      BY <3>1, Concatenation
  <2> HIDE DEF ms
  <2>5. Len(ms) \in 0 .. Len(ms) /\ Len(request') = Len(ms)
    BY <2>3, <2>4 DEF SameTalk
  <2>6. Paired(request', steps, Len(request'))
    BY <2>2, <2>3, <2>4, <2>5, PairedSameTalk
  <2> QED
    BY <2>1, <2>6 DEF TalkInv
<1>2. CASE Fails
  BY <1>2 DEF Fails, TalkInv
<1>3. CASE GivesUp
  BY <1>3 DEF GivesUp, TalkInv
<1>4. CASE CallsTool
  <2> DEFINE id == Len(steps) + 1
  <2>1. id \in Calls
    BY <1>4, PolicyAssumption DEF CallsTool, TypeOK, Calls
  <2>2. /\ Commit(<<id>>) /\ pending' = id /\ call' = id
        /\ phase' = "dispatching" /\ UNCHANGED steps
    BY <1>4 DEF CallsTool
  <2>3. <<id>> \in Seq(Calls)
    BY <2>1
  <2>4. Waits(messages', steps, id)
    BY <1>4, <2>2, <2>3, CommitWaits DEF Waits, CallsTool
  <2> HIDE DEF id
  <2> QED
    BY <2>2, <2>4 DEF TalkInv
<1>5. CASE \E ids \in {<<>>, <<Len(steps) + 1>>} : Quits(ids)
  BY <1>5 DEF Quits, TalkInv
<1>6. CASE GoesOn
  <2> DEFINE s == [call |-> call, event |-> active]
             S == [call : Calls \cup {NoCall}, event : Event]
  <2>1. /\ phase' = "loop" /\ UNCHANGED <<messages, pending>>
        /\ steps' = Append(steps, s)
        /\ pending = call /\ Waits(messages, steps, pending)
    BY <1>6 DEF GoesOn, RecordStep, RecordedEvent, TalkInv
  <2>2. s \in S /\ steps \in Seq(S) /\ messages \in Seq(Message)
    BY DEF TypeOK
  <2>3. s.call = call
    OBVIOUS
  <2> HIDE DEF s, S
  <2>4. /\ Append(steps, s) # <<>>
        /\ Append(steps, s)[Len(Append(steps, s))] = s
    BY <2>2
  <2>5. messages # <<>> => Len(messages) - 1 \in 0 .. Len(messages)
    BY <2>2
  <2>6. Waits(messages, Append(steps, s), pending)
    BY <2>1, <2>2, <2>5, PairedMoreSteps DEF Waits
  <2> QED
    BY <2>1, <2>3, <2>4, <2>6 DEF TalkInv
<1>7. CASE LastStep
  BY <1>7 DEF LastStep, TalkInv
<1>8. CASE StopsOnBudget
  BY <1>8 DEF StopsOnBudget, TalkInv
<1>9. CASE UNCHANGED policyVars
  BY <1>9 DEF policyVars, TalkInv
<1> QED
  BY <1>1, <1>2, <1>3, <1>4, <1>5, <1>6, <1>7, <1>8, <1>9
     DEF PolicyNext, CallsNothing, CallsGarbled

\* Whatever the model answers, whatever is retrieved and however often the API fails:
\* in every request each call is answered by the very next message, with the result of
\* the step made for it, and nothing else is an answer.
THEOREM CallsAreAnswered == PolicySpec => []EveryCallAnsweredOnce
<1>1. PolicyInit => TalkInv
  BY DEF PolicyInit, TalkInv, Calling
<1>2. PolicyInv /\ TalkInv => EveryCallAnsweredOnce
  <2> SUFFICES ASSUME PolicyInv, TalkInv, Calling
               PROVE  EveryCallAnsweredOnce
    BY DEF EveryCallAnsweredOnce
  <2>1. /\ Paired(request, steps, Len(request))
        /\ DOMAIN request = 1 .. Len(request) /\ DOMAIN steps = 1 .. Len(steps)
        /\ Len(request) \in Nat
    BY DEF PolicyInv, TypeOK, TalkInv
  <2> QED
    BY <2>1 DEF EveryCallAnsweredOnce, Paired, AnsweredIn, FollowsModel
<1> QED
  BY <1>1, <1>2, PolicyInvHolds, TalkStep, PTL DEF PolicySpec

-----------------------------------------------------------------------------
(* The cache breakpoint walks along: the messages outlive the request, and   *)
(* with them the breakpoints set in earlier turns.                           *)

NoMarks(ms) == \A i \in 1 .. Len(ms) : ms[i].mark = FALSE
MarkOnLast(ms) == \A i \in 1 .. Len(ms) : ms[i].mark = (i = Len(ms))

MarkInv ==
  /\ provider = "openai" => NoMarks(messages) /\ NoMarks(request)
  /\ Calling => request # <<>> /\ (provider # "openai" => MarkOnLast(request))

LEMMA QuestionUnmarked == TypeOK => NoMarks(Question)
<1> SUFFICES ASSUME TypeOK PROVE NoMarks(Question)
  OBVIOUS
<1> DEFINE Shown == [Blank EXCEPT !.cards = Block]
           Plain == [Answer EXCEPT !.cards = Block]
           Tool == [Answer EXCEPT !.role = "tool"]
<1>1. Blank \in Message /\ Blank.mark = FALSE
  BY BlankType DEF Blank
<1>2. Answer \in Message /\ Answer.mark = FALSE
  BY <1>1, AnswerType DEF Answer, Message
<1>3. Shown.mark = FALSE /\ Plain.mark = FALSE /\ Tool.mark = FALSE
  BY <1>1, <1>2 DEF Message
<1>4. Question \in {<<Shown>>, <<Plain>>, <<Tool>>, <<Tool, Shown>>}
  BY DEF Question
<1> HIDE DEF Shown, Plain, Tool
<1> QED
  BY <1>3, <1>4 DEF NoMarks

LEMMA BreakpointWalks ==
  ASSUME NEW ms \in Seq(Message), ms # <<>>
  PROVE  /\ provider = "openai" => WithBreakpoint(ms) = ms
         /\ provider # "openai" => MarkOnLast(WithBreakpoint(ms))
<1>1. provider = "openai" => WithBreakpoint(ms) = ms
  BY DEF WithBreakpoint
<1>2. ASSUME provider # "openai" PROVE MarkOnLast(WithBreakpoint(ms))
  <2> DEFINE u == Unmarked(ms)
             top == [u[Len(ms)] EXCEPT !.mark = TRUE]
             w == [u EXCEPT ![Len(ms)] = top]
  <2>1. u \in Seq(Message) /\ Len(u) = Len(ms) /\ NoMarks(u)
    BY UnmarkedType DEF SameTalk, NoMarks
  <2>2. Len(ms) \in 1 .. Len(u) /\ u[Len(ms)] \in Message
    BY <2>1
  <2>3. top.mark = TRUE /\ top \in Message
    BY <2>2 DEF Message
  <2>4. WithBreakpoint(ms) = w
    BY <1>2, <2>2 DEF WithBreakpoint
  <2> HIDE DEF u, top
  <2>5. /\ w \in Seq(Message) /\ Len(w) = Len(ms)
        /\ \A i \in 1 .. Len(w) : w[i] = IF i = Len(ms) THEN top ELSE u[i]
    BY <2>1, <2>2, <2>3
  <2> HIDE DEF w
  <2>6. ASSUME NEW i \in 1 .. Len(w) PROVE w[i].mark = (i = Len(w))
    <3>1. CASE i = Len(ms)
      BY <2>3, <2>5, <3>1
    <3>2. CASE i # Len(ms)
      BY <2>1, <2>5, <3>2 DEF NoMarks
    <3> QED
      BY <3>1, <3>2
  <2> QED
    BY <2>4, <2>6 DEF MarkOnLast
<1> QED
  BY <1>1, <1>2

LEMMA MarkStep == PolicyInv /\ MarkInv /\ [PolicyNext]_policyVars => MarkInv'
<1> SUFFICES ASSUME PolicyInv, MarkInv, [PolicyNext]_policyVars PROVE MarkInv'
  OBVIOUS
<1> USE DEF PolicyInv, Calling
<1>1. CASE Ask
  <2> DEFINE ms == messages \o Question
  <2>1. UNCHANGED provider /\ request' = WithBreakpoint(ms)
    BY <1>1 DEF Ask
  <2>2. /\ request' # <<>> /\ messages \in Seq(Message) /\ Len(messages') = Len(messages)
        /\ \A i \in 1 .. Len(messages) : messages'[i] = request'[i]
    BY <1>1, AskTypes DEF TypeOK
  <2>3. Question \in Seq(Message) /\ Len(Question) \in 1 .. 2 /\ NoMarks(Question)
    BY QuestionShape, QuestionUnmarked
  <2>4. /\ ms \in Seq(Message) /\ Len(ms) = Len(messages) + Len(Question)
        /\ \A i \in 1 .. Len(messages) : ms[i] = messages[i]
        /\ \A i \in Len(messages) + 1 .. Len(messages) + Len(Question) :
             ms[i] = Question[i - Len(messages)]
    BY <2>2, <2>3, Concatenation
  <2> HIDE DEF ms
  <2>5. ms # <<>>
    BY <2>2, <2>3, <2>4
  <2>6. provider # "openai" => MarkOnLast(request')
    BY <2>1, <2>4, <2>5, BreakpointWalks
  <2>7. ASSUME provider = "openai" PROVE NoMarks(request') /\ NoMarks(messages')
    <3>1. request' = ms
      BY <2>1, <2>4, <2>5, <2>7, BreakpointWalks
    <3>2. \A i \in 1 .. Len(messages) : messages[i].mark = FALSE
      BY <2>7 DEF MarkInv, NoMarks
    <3>3. ASSUME NEW i \in 1 .. Len(ms) PROVE ms[i].mark = FALSE
      <4>1. CASE i \in 1 .. Len(messages)
        BY <2>4, <3>2, <4>1
      <4>2. CASE i \notin 1 .. Len(messages)
        <5>1. i - Len(messages) \in 1 .. Len(Question)
          BY <2>2, <2>3, <2>4, <4>2
        <5> QED
          BY <2>2, <2>3, <2>4, <4>2, <5>1 DEF NoMarks
      <4> QED
        BY <4>1, <4>2
    <3>4. NoMarks(request')
      BY <3>1, <3>3 DEF NoMarks
    <3>5. \A i \in 1 .. Len(messages) : i \in 1 .. Len(ms)
      BY <2>2, <2>3, <2>4
    <3> QED
      BY <2>2, <3>1, <3>3, <3>4, <3>5 DEF NoMarks
  <2> QED
    BY <2>1, <2>2, <2>6, <2>7 DEF MarkInv
<1>2. CASE Fails
  BY <1>2 DEF Fails, MarkInv
<1>3. CASE GivesUp
  BY <1>3 DEF GivesUp, MarkInv
<1>4. ASSUME NEW ids \in Seq(Calls), Commit(ids),
             phase' = "dispatching", UNCHANGED <<provider, request>>
      PROVE  MarkInv'
  <2>1. request \in Seq(Message) /\ Reply(ids) \in Message /\ Reply(ids).mark = FALSE
    BY ReplyType DEF TypeOK
  <2>2. messages' = Append(request, Reply(ids))
    BY <1>4 DEF Commit
  <2>3. NoMarks(request) => NoMarks(messages')
    <3> DEFINE r == Reply(ids)
    <3>1. r \in Message /\ r.mark = FALSE
      BY <2>1
    <3> HIDE DEF r
    <3>2. /\ Len(Append(request, r)) = Len(request) + 1
          /\ \A i \in 1 .. Len(request) : Append(request, r)[i] = request[i]
          /\ Append(request, r)[Len(request) + 1] = r
      BY <2>1, <3>1
    <3>3. NoMarks(request) => NoMarks(Append(request, r))
      BY <2>1, <3>1, <3>2 DEF NoMarks
    <3> QED
      BY <2>2, <3>3 DEF r
  <2> QED
    BY <1>4, <2>3 DEF MarkInv
<1>5. CASE CallsTool
  <2>1. <<Len(steps) + 1>> \in Seq(Calls)
    <3>1. Len(steps) + 1 \in Calls
      BY <1>5, PolicyAssumption DEF CallsTool, TypeOK, Calls
    <3> QED
      BY <3>1
  <2> QED
    BY <1>4, <1>5, <2>1 DEF CallsTool
<1>6. CASE \E ids \in {<<>>, <<Len(steps) + 1>>} : Quits(ids)
  <2>1. Calling => Len(steps) + 1 \in Calls
    BY PolicyAssumption DEF TypeOK, Calls
  <2>2. Calling => <<>> \in Seq(Calls) /\ <<Len(steps) + 1>> \in Seq(Calls)
    BY <2>1
  <2> QED
    BY <1>4, <1>6, <2>2 DEF Quits
<1>7. CASE GoesOn
  BY <1>7 DEF GoesOn, MarkInv
<1>8. CASE LastStep
  BY <1>8 DEF LastStep, MarkInv
<1>9. CASE StopsOnBudget
  BY <1>9 DEF StopsOnBudget, MarkInv
<1>10. CASE UNCHANGED policyVars
  BY <1>10 DEF policyVars, MarkInv
<1> QED
  BY <1>1, <1>2, <1>3, <1>5, <1>6, <1>7, <1>8, <1>9, <1>10
     DEF PolicyNext, CallsNothing, CallsGarbled

\* However long the transcript and however many breakpoints were set in it before, a
\* request to Claude carries exactly one, on its last message, and one to OpenAI none.
THEOREM BreakpointIsUnique == PolicySpec => []OneBreakpoint
<1>1. PolicyInit => MarkInv
  BY DEF PolicyInit, MarkInv, NoMarks, Calling
<1>2. PolicyInv /\ MarkInv => OneBreakpoint
  <2> SUFFICES ASSUME PolicyInv, MarkInv, Calling
               PROVE  OneBreakpoint
    BY DEF OneBreakpoint
  <2>1. /\ request \in Seq(Message) /\ request # <<>>
        /\ provider \in {"claude", "openai"}
    BY PolicyAssumption DEF PolicyInv, TypeOK, MarkInv
  <2>2. DOMAIN request = 1 .. Len(request) /\ Len(request) \in 1 .. Len(request)
    BY <2>1
  <2>3. CASE provider = "openai"
    BY <2>2, <2>3 DEF OneBreakpoint, MarkInv, NoMarks
  <2>4. CASE provider = "claude"
    BY <2>2, <2>4 DEF OneBreakpoint, MarkInv, MarkOnLast
  <2> QED
    BY <2>1, <2>3, <2>4
<1> QED
  BY <1>1, <1>2, PolicyInvHolds, MarkStep, PTL DEF PolicySpec

-----------------------------------------------------------------------------
(* Requests *)

\* b repeats a, breakpoints aside, and goes on.
Repeats(a, b) ==
  /\ Len(a) <= Len(b)
  /\ \A i \in 1 .. Len(a) :
       /\ a[i].role = b[i].role /\ a[i].answers = b[i].answers
       /\ a[i].result = b[i].result /\ a[i].calls = b[i].calls
       /\ a[i].cards = b[i].cards

LEMMA MessageByFields ==
  ASSUME NEW m \in Message
  PROVE  m = [role |-> m.role, answers |-> m.answers, result |-> m.result,
              cards |-> m.cards, calls |-> m.calls, mark |-> m.mark]
  BY DEF Message

LEMMA RepeatsIsPrefix ==
  ASSUME NEW a \in Seq(Message), NEW b \in Seq(Message), Repeats(a, b)
  PROVE  IsPrefix(Unmarked(a), Unmarked(b))
<1>. DEFINE u == Unmarked(a)
            w == Unmarked(b)
<1>1. /\ u \in Seq(Message) /\ Len(u) = Len(a) /\ SameTalk(u, a)
      /\ \A i \in 1 .. Len(a) : u[i].mark = FALSE
  BY UnmarkedType DEF SameTalk
<1>2. /\ w \in Seq(Message) /\ Len(w) = Len(b) /\ SameTalk(w, b)
      /\ \A i \in 1 .. Len(b) : w[i].mark = FALSE
  BY UnmarkedType DEF SameTalk
<1>3. Len(a) \in Nat /\ Len(b) \in Nat /\ Len(a) <= Len(b)
  BY DEF Repeats
<1>. HIDE DEF u, w
<1>4. ASSUME NEW i \in 1 .. Len(a)  PROVE u[i] = w[i]
  <2>1. i \in 1 .. Len(b) /\ u[i] \in Message /\ w[i] \in Message
    BY <1>1, <1>2, <1>3
  <2>2. /\ u[i].role = w[i].role /\ u[i].answers = w[i].answers
        /\ u[i].result = w[i].result /\ u[i].calls = w[i].calls
        /\ u[i].cards = w[i].cards /\ u[i].mark = w[i].mark
    BY <1>1, <1>2, <2>1 DEF SameTalk, Repeats
  <2>3. u[i] = [role |-> u[i].role, answers |-> u[i].answers, result |-> u[i].result,
                cards |-> u[i].cards, calls |-> u[i].calls, mark |-> u[i].mark]
    BY <2>1, MessageByFields
  <2>4. w[i] = [role |-> w[i].role, answers |-> w[i].answers, result |-> w[i].result,
                cards |-> w[i].cards, calls |-> w[i].calls, mark |-> w[i].mark]
    BY <2>1, MessageByFields
  <2>. QED  BY <2>2, <2>3, <2>4
<1>5. SubSeq(u, 1, Len(u)) = SubSeq(w, 1, Len(u))
  BY <1>1, <1>2, <1>3, <1>4
<1>. QED
  BY <1>1, <1>2, <1>3, <1>5 DEF IsPrefix, u, w

LEMMA RepeatsThrough ==
  ASSUME NEW a \in Seq(Message), NEW b \in Seq(Message), NEW c \in Seq(Message),
         Repeats(a, b), Repeats(b, c)
  PROVE  Repeats(a, c)
<1>1. Len(a) \in Nat /\ Len(b) \in Nat /\ Len(c) \in Nat
  OBVIOUS
<1>2. Len(a) <= Len(c) /\ \A i \in 1 .. Len(a) : i \in 1 .. Len(b)
  BY <1>1 DEF Repeats
<1>. QED
  BY <1>2 DEF Repeats

\* What is asked repeats the transcript, and the transcript itself loses but its marks.
LEMMA AskRepeats ==
  ASSUME TypeOK, Ask
  PROVE  Repeats(messages, request') /\ Repeats(messages, messages')
<1>. DEFINE ms == messages \o Question
<1>1. messages \in Seq(Message) /\ Question \in Seq(Message) /\ Len(Question) \in 1 .. 2
  BY QuestionShape DEF TypeOK
<1>2. /\ Len(ms) = Len(messages) + Len(Question) /\ Len(messages) \in Nat
      /\ \A i \in 1 .. Len(messages) : ms[i] = messages[i] /\ i \in 1 .. Len(ms)
  BY <1>1, Concatenation
<1>3. /\ SameTalk(request', ms) /\ Len(messages') = Len(messages)
      /\ \A i \in 1 .. Len(messages) : messages'[i] = request'[i]
  BY AskTypes
<1>. HIDE DEF ms
<1>4. Len(messages) <= Len(request')
  BY <1>1, <1>2, <1>3 DEF SameTalk
<1>5. ASSUME NEW i \in 1 .. Len(messages)
      PROVE  /\ messages[i].role = request'[i].role
             /\ messages[i].answers = request'[i].answers
             /\ messages[i].result = request'[i].result
             /\ messages[i].calls = request'[i].calls
             /\ messages[i].cards = request'[i].cards
  <2>1. i \in 1 .. Len(request') /\ ms[i] = messages[i]
    BY <1>2, <1>3 DEF SameTalk
  <2>. QED  BY <1>3, <2>1 DEF SameTalk
<1>. QED
  BY <1>2, <1>3, <1>4, <1>5 DEF Repeats

LEMMA CommitRepeats ==
  ASSUME TypeOK, NEW ids \in Seq(Calls), Commit(ids)
  PROVE  /\ Repeats(request, messages')
         /\ Len(messages') = Len(request) + 1
         /\ \A i \in 1 .. Len(request) : messages'[i] = request[i]
         /\ messages'[Len(request) + 1] = Reply(ids)
<1>1. request \in Seq(Message) /\ Reply(ids) \in Message /\ messages' = Append(request, Reply(ids))
  BY ReplyType DEF TypeOK, Commit
<1>2. /\ Len(messages') = Len(request) + 1 /\ Len(request) \in Nat
      /\ \A i \in 1 .. Len(request) : messages'[i] = request[i]
      /\ messages'[Len(request) + 1] = Reply(ids)
  BY <1>1
<1>. QED
  BY <1>2 DEF Repeats

\* What the model answers with.
LEMMA Answered ==
  ASSUME PolicyInv, CallsTool \/ CallsNothing \/ CallsGarbled
  PROVE  /\ phase = "calling" /\ phase' = "dispatching"
         /\ UNCHANGED <<provider, arm, steps, ledger, injected, active, request>>
         /\ \E ids \in Seq(Calls) : Commit(ids)
<1>1. Len(steps) + 1 \in Calls /\ phase = "calling"
  BY PolicyAssumption DEF PolicyInv, TypeOK, Calls, Calling, CallsTool, CallsNothing, CallsGarbled, Quits
<1>2. <<>> \in Seq(Calls) /\ <<Len(steps) + 1>> \in Seq(Calls)
  BY <1>1
<1>. QED
  BY <1>1, <1>2 DEF CallsTool, CallsNothing, CallsGarbled, Quits

\* Between two requests the transcript repeats the last one.
GrowInv == phase \in {"loop", "dispatching"} => Repeats(request, messages)

LEMMA GrowStep == PolicyInv /\ GrowInv /\ [PolicyNext]_policyVars => GrowInv'
<1>. SUFFICES ASSUME PolicyInv, GrowInv, [PolicyNext]_policyVars  PROVE GrowInv'
  OBVIOUS
<1>1. CASE CallsTool \/ CallsNothing \/ CallsGarbled
  <2>1. PICK ids \in Seq(Calls) : Commit(ids)
    BY <1>1, Answered
  <2>2. Repeats(request, messages')
    BY <2>1, CommitRepeats DEF PolicyInv
  <2>. QED  BY <1>1, <2>2, Answered DEF GrowInv
<1>2. CASE Ask
  BY <1>2 DEF Ask, GrowInv
<1>3. CASE GoesOn
  BY <1>3 DEF GoesOn, GrowInv
<1>. QED
  BY <1>1, <1>2, <1>3
  DEF PolicyNext, Fails, GivesUp, LastStep, StopsOnBudget, policyVars, GrowInv

\* Each request repeats the one before it and adds to it, failures and retries included.
THEOREM RequestsRepeat == PolicySpec => RequestsOnlyGrow
<1>1. PolicyInit => GrowInv
  BY DEF PolicyInit, GrowInv, Repeats
<1>2. PolicyInv /\ PolicyInv' /\ GrowInv /\ [PolicyNext]_policyVars
        => [request' # request => IsPrefix(Unmarked(request), Unmarked(request'))]_policyVars
  <2>. SUFFICES ASSUME PolicyInv, PolicyInv', GrowInv, PolicyNext, request' # request
                PROVE  IsPrefix(Unmarked(request), Unmarked(request'))
    OBVIOUS
  <2>1. Ask
    BY Answered DEF PolicyNext, Fails, GivesUp, GoesOn, LastStep, StopsOnBudget
  <2>2. Repeats(request, messages) /\ Repeats(messages, request')
    BY <2>1, AskRepeats DEF GrowInv, PolicyInv, Ask
  <2>3. request \in Seq(Message) /\ messages \in Seq(Message) /\ request' \in Seq(Message)
    BY DEF PolicyInv, TypeOK
  <2>4. Repeats(request, request')
    BY <2>2, <2>3, RepeatsThrough
  <2>. QED  BY <2>3, <2>4, RepeatsIsPrefix
<1>. QED
  BY <1>1, <1>2, GrowStep, PolicyInvHolds, PTL DEF PolicySpec, RequestsOnlyGrow

-----------------------------------------------------------------------------
(* Events *)

\* The ledger is in the order of its steps, all recorded; the event that waits to be
\* recorded is keyed on the end of it.
EventInv ==
  /\ \A i \in 1 .. Len(ledger) : ledger[i].step < Len(steps)
  /\ \A i, j \in 1 .. Len(ledger) : i < j => ledger[i].step < ledger[j].step
  /\ phase \in {"calling", "dispatching"} => active.hyp = HypothesisStep
  /\ EventKeyedOnEarlierHypothesis

\* The steps of the hypotheses written before step n.
StepsBefore(n) == {h.step : h \in {g \in Range(ledger) : g.step < n}}

LEMMA Elements ==
  ASSUME NEW S, NEW s \in Seq(S), NEW i \in 1 .. Len(s)
  PROVE  s[i] \in S
OBVIOUS

LEMMA Appended ==
  ASSUME NEW S, NEW s \in Seq(S), NEW e \in S
  PROVE  /\ DOMAIN s = 1 .. Len(s) /\ Len(s) \in Nat
         /\ Len(Append(s, e)) = Len(s) + 1 /\ DOMAIN Append(s, e) = 1 .. Len(s) + 1
         /\ \A i \in 1 .. Len(s) : Append(s, e)[i] = s[i]
         /\ Append(s, e)[Len(s) + 1] = e
OBVIOUS

LEMMA LatestIs ==
  ASSUME NEW S, S \subseteq Nat, NEW m \in S, \A n \in S : n <= m
  PROVE  Latest(S) = m
<1>1. \A i \in S : (\A j \in S : j <= i) => i = m
  <2>. SUFFICES ASSUME NEW i \in S, \A j \in S : j <= i  PROVE i = m
    OBVIOUS
  <2>1. m <= i /\ i <= m /\ m \in Nat /\ i \in Nat
    OBVIOUS
  <2>. QED  BY <2>1
<1>. QED
  BY <1>1 DEF Latest

\* All of the ledger is before the step to come, and the last hypothesis is the latest.
LEMMA KeyIsLatest ==
  ASSUME TypeOK, EventInv
  PROVE  HypothesisStep = IF StepsBefore(Len(steps)) = {} THEN NoStep
                          ELSE Latest(StepsBefore(Len(steps)))
<1>. DEFINE S == StepsBefore(Len(steps))
<1>1. ledger \in Seq([step : Nat, text : Hypotheses]) /\ Len(ledger) \in Nat
  BY DEF TypeOK
<1>2. S = {ledger[i].step : i \in 1 .. Len(ledger)}
  <2>1. Range(ledger) = {ledger[i] : i \in 1 .. Len(ledger)}
    BY <1>1 DEF Range
  <2>2. \A h \in Range(ledger) : h.step < Len(steps)
    BY <2>1 DEF EventInv
  <2>. QED  BY <2>1, <2>2 DEF StepsBefore
<1>3. CASE ledger = <<>>
  BY <1>2, <1>3 DEF HypothesisStep
<1>4. CASE ledger # <<>>
  <2>. DEFINE n == Len(ledger)
  <2>1. n \in 1 .. n /\ Last(ledger) = ledger[n] /\ \A i \in 1 .. n : ledger[i].step \in Nat
    <3>1. n \in 1 .. n
      BY <1>1, <1>4
    <3>2. ASSUME NEW i \in 1 .. n  PROVE ledger[i].step \in Nat
      <4>1. ledger[i] \in [step : Nat, text : Hypotheses]
        BY <1>1, Elements
      <4>. QED  BY <4>1
    <3>. QED  BY <3>1, <3>2 DEF Last
  <2>2. \A i \in 1 .. n : ledger[i].step <= ledger[n].step
    <3>. SUFFICES ASSUME NEW i \in 1 .. n  PROVE ledger[i].step <= ledger[n].step
      OBVIOUS
    <3>1. i = n \/ i < n
      BY <1>1
    <3>. QED  BY <2>1, <3>1 DEF EventInv
  <2>3. ledger[n].step \in S /\ S \subseteq Nat /\ \A k \in S : k <= ledger[n].step
    BY <1>2, <2>1, <2>2
  <2>. HIDE DEF S, n
  <2>4. Latest(S) = ledger[n].step
    BY <2>3, LatestIs
  <2>. QED  BY <1>4, <2>1, <2>3, <2>4 DEF HypothesisStep, S
<1>. QED
  BY <1>3, <1>4

\* A step adds at most its own hypothesis.
LedgerGrows ==
  \/ ledger' = ledger
  \/ \E text \in Hypotheses : ledger' = Append(ledger, [step |-> Len(steps), text |-> text])

\* A step recorded under an event keyed on the ledger as it was; the hypothesis the step
\* itself may have recorded carries the number of the step.
LEMMA KeyedStep ==
  ASSUME TypeOK, EventInv, RecordStep, active.hyp = HypothesisStep, LedgerGrows
  PROVE  /\ EventKeyedOnEarlierHypothesis'
         /\ \A i \in 1 .. Len(ledger') : ledger'[i].step < Len(steps')
         /\ \A i, j \in 1 .. Len(ledger') : i < j => ledger'[i].step < ledger'[j].step
<1>1. /\ steps \in Seq([call : Calls \cup {NoCall}, event : Event])
      /\ ledger \in Seq([step : Nat, text : Hypotheses])
  BY DEF TypeOK
<1>0. Len(steps) \in Nat /\ Len(ledger) \in Nat /\ DOMAIN ledger = 1 .. Len(ledger)
  BY <1>1
<1>2. /\ Len(steps') = Len(steps) + 1 /\ DOMAIN steps' = 1 .. Len(steps) + 1
      /\ DOMAIN steps = 1 .. Len(steps)
      /\ \A t \in 1 .. Len(steps) : steps'[t] = steps[t]
      /\ steps'[Len(steps) + 1].event.hyp = HypothesisStep
  <2>. DEFINE e == [call |-> call, event |-> active]
  <2>1. e.event = active /\ steps' = Append(steps, e)
    BY DEF RecordStep, RecordedEvent
  <2>2. e \in [call : Calls \cup {NoCall}, event : Event]
    BY DEF TypeOK
  <2>. HIDE DEF e
  <2>. QED  BY <1>1, <2>1, <2>2, Appended
<1>. DEFINE m == Len(ledger)
            n == Len(ledger')
<1>3. /\ m \in Nat /\ n \in Nat /\ m <= n
      /\ \A i \in 1 .. m : ledger'[i] = ledger[i] /\ ledger[i].step \in Nat
      /\ \A i \in 1 .. n : i \in 1 .. m \/ (i = m + 1 /\ ledger'[i].step = Len(steps))
      /\ DOMAIN ledger = 1 .. m /\ DOMAIN ledger' = 1 .. n
  <2>1. \A i \in 1 .. Len(ledger) : ledger[i].step \in Nat
    <3>1. ASSUME NEW i \in 1 .. Len(ledger)  PROVE ledger[i] \in [step : Nat, text : Hypotheses]
      BY <1>1, Elements
    <3>. QED  BY <3>1
  <2>2. CASE ledger' = ledger
    <3>1. n = m /\ m \in Nat /\ DOMAIN ledger = 1 .. m
      BY <1>0, <2>2
    <3>2. \A i \in 1 .. m : ledger[i].step \in Nat
      BY <2>1
    <3>. HIDE DEF m, n
    <3>3. DOMAIN ledger' = 1 .. n
      BY <2>2, <3>1
    <3>4. \A i \in 1 .. m : ledger'[i] = ledger[i]
      BY <2>2
    <3>5. n \in Nat /\ m <= n /\ \A i \in 1 .. n : i \in 1 .. m
      BY <3>1
    <3>. QED  BY <3>1, <3>2, <3>3, <3>4, <3>5
  <2>3. CASE \E text \in Hypotheses : ledger' = Append(ledger, [step |-> Len(steps), text |-> text])
    <3>1. PICK text \in Hypotheses : ledger' = Append(ledger, [step |-> Len(steps), text |-> text])
      BY <2>3
    <3>. DEFINE h == [step |-> Len(steps), text |-> text]
    <3>2. h \in [step : Nat, text : Hypotheses] /\ h.step = Len(steps) /\ ledger' = Append(ledger, h)
      BY <1>0, <3>1
    <3>. HIDE DEF h
    <3>3. /\ Len(ledger') = Len(ledger) + 1 /\ DOMAIN ledger' = 1 .. Len(ledger) + 1
          /\ \A i \in 1 .. Len(ledger) : ledger'[i] = ledger[i]
          /\ ledger'[Len(ledger) + 1] = h
      BY <1>1, <3>2, Appended
    <3>4. n = m + 1 /\ m \in Nat
      BY <1>0, <3>3
    <3>5. \A i \in 1 .. n : i \in 1 .. m \/ i = m + 1
      <4>. HIDE DEF m, n
      <4>. QED  BY <3>4
    <3>6. /\ \A i \in 1 .. m : ledger'[i] = ledger[i] /\ ledger[i].step \in Nat
          /\ ledger'[m + 1].step = Len(steps)
          /\ DOMAIN ledger = 1 .. m /\ DOMAIN ledger' = 1 .. m + 1
      BY <1>0, <2>1, <3>2, <3>3
    <3>. HIDE DEF m, n
    <3>7. \A i \in 1 .. n : i \in 1 .. m \/ (i = m + 1 /\ ledger'[i].step = Len(steps))
      BY <3>5, <3>6
    <3>8. n \in Nat /\ m <= n /\ 1 .. m + 1 = 1 .. n
      BY <3>4
    <3>. QED  BY <3>4, <3>6, <3>7, <3>8
  <2>. QED  BY <2>2, <2>3 DEF LedgerGrows
<1>. HIDE DEF m, n
<1>4. \A i \in 1 .. n : i \in 1 .. m \/ ledger'[i].step = Len(steps)
  BY <1>3
<1>9. \A i \in 1 .. m : ledger[i].step < Len(steps)
  BY DEF EventInv, m
<1>10. \A i, j \in 1 .. m : i < j => ledger[i].step < ledger[j].step
  BY DEF EventInv, m
<1>5. \A i \in 1 .. n : ledger'[i].step < Len(steps')
  <2>. SUFFICES ASSUME NEW i \in 1 .. n  PROVE ledger'[i].step < Len(steps')
    OBVIOUS
  <2>1. CASE i \in 1 .. m
    <3>1. ledger[i].step < Len(steps) /\ ledger[i].step \in Nat /\ ledger'[i] = ledger[i]
      BY <1>3, <1>9, <2>1
    <3>. QED  BY <1>0, <1>2, <3>1
  <2>. QED  BY <1>0, <1>2, <1>4, <2>1
<1>6. \A i, j \in 1 .. n : i < j => ledger'[i].step < ledger'[j].step
  <2>. SUFFICES ASSUME NEW i \in 1 .. n, NEW j \in 1 .. n, i < j
                PROVE  ledger'[i].step < ledger'[j].step
    OBVIOUS
  <2>1. i \in 1 .. m
    <3>1. i # m + 1
      BY <1>3
    <3>. QED  BY <1>3, <3>1
  <2>2. CASE j \in 1 .. m
    BY <1>3, <1>10, <2>1, <2>2
  <2>3. CASE ledger'[j].step = Len(steps)
    BY <1>3, <1>9, <2>1, <2>3
  <2>. QED  BY <1>4, <2>2, <2>3
<1>7. \A k \in 0 .. Len(steps) : StepsBefore(k)' = StepsBefore(k)
  <2>. SUFFICES ASSUME NEW k \in 0 .. Len(steps)
                PROVE  {g \in Range(ledger') : g.step < k} = {g \in Range(ledger) : g.step < k}
    BY DEF StepsBefore
  <2>1. Range(ledger) \subseteq Range(ledger')
    <3>. SUFFICES ASSUME NEW i \in 1 .. m  PROVE ledger[i] \in Range(ledger')
      BY <1>3 DEF Range
    <3>1. i \in DOMAIN ledger' /\ ledger'[i] = ledger[i]
      BY <1>3
    <3>. QED  BY <3>1 DEF Range
  <2>2. \A g \in Range(ledger') : g \in Range(ledger) \/ g.step = Len(steps)
    BY <1>3, <1>4 DEF Range
  <2>. QED  BY <1>0, <2>1, <2>2
<1>8. EventKeyedOnEarlierHypothesis'
  <2>. SUFFICES ASSUME NEW t \in 1 .. Len(steps) + 1
                PROVE  steps'[t].event.hyp = IF StepsBefore(t - 1)' = {} THEN NoStep
                                             ELSE Latest(StepsBefore(t - 1)')
    BY <1>2 DEF EventKeyedOnEarlierHypothesis, StepsBefore
  <2>1. t - 1 \in 0 .. Len(steps)
    BY <1>0
  <2>2. CASE t \in 1 .. Len(steps)
    BY <1>2, <1>7, <2>1, <2>2 DEF EventInv, EventKeyedOnEarlierHypothesis, StepsBefore
  <2>3. CASE t = Len(steps) + 1
    <3>1. t - 1 = Len(steps)
      BY <1>0, <2>3
    <3>. QED  BY <1>2, <1>7, <2>1, <2>3, <3>1, KeyIsLatest
  <2>. QED  BY <1>0, <2>2, <2>3
<1>. QED
  BY <1>5, <1>6, <1>8 DEF n

LEMMA EventStep == PolicyInv /\ EventInv /\ [PolicyNext]_policyVars => EventInv'
<1>. SUFFICES ASSUME PolicyInv, EventInv, [PolicyNext]_policyVars  PROVE EventInv'
  OBVIOUS
<1>1. CASE Ask
  BY <1>1 DEF Ask, EventInv, EventNow, HypothesisStep, EventKeyedOnEarlierHypothesis
<1>2. CASE CallsTool \/ CallsNothing \/ CallsGarbled
  BY <1>2, Answered DEF EventInv, HypothesisStep, EventKeyedOnEarlierHypothesis
<1>3. CASE GoesOn \/ LastStep
  <2>1. /\ RecordStep /\ phase = "dispatching" /\ phase' \in {"loop", "ended"}
        /\ LedgerGrows
    BY <1>3 DEF GoesOn, LastStep, LedgerGrows
  <2>2. active.hyp = HypothesisStep
    BY <2>1 DEF EventInv
  <2>. QED  BY <2>1, <2>2, KeyedStep DEF PolicyInv, EventInv
<1>4. CASE Fails \/ GivesUp \/ StopsOnBudget \/ UNCHANGED policyVars
  BY <1>4 DEF Fails, GivesUp, StopsOnBudget, policyVars, EventInv, HypothesisStep,
              EventKeyedOnEarlierHypothesis
<1>. QED
  BY <1>1, <1>2, <1>3, <1>4 DEF PolicyNext

\* The event in a step's record names the hypothesis that was the latest before the step.
THEOREM EventsKeyedEarlier == PolicySpec => []EventKeyedOnEarlierHypothesis
<1>1. PolicyInit => EventInv
  BY DEF PolicyInit, EventInv, EventKeyedOnEarlierHypothesis
<1>. QED
  BY <1>1, EventStep, PolicyInvHolds, PTL DEF PolicySpec, EventInv

-----------------------------------------------------------------------------
(* Cards *)

\* The model's replies among the first n messages.
Replies(ms, n) == {j \in 1 .. n : ms[j].role = "assistant"}
Replied(ms) == Cardinality(Replies(ms, Len(ms)))

\* The last block of cards in ms lists ids, and was sent in a turn since which, up to the
\* last of steps ss, nothing else was retrieved.
InForce(ms, ids, ss) ==
  \E i \in 1 .. Len(ms) :
    /\ ms[i].cards = ids
    /\ \A k \in 1 .. Len(ms) : k > i => ms[k].cards = <<>>
    /\ \A turn \in 1 + Cardinality(Replies(ms, i - 1)) .. Len(ss) : ss[turn].event.ids = ids

\* The transcript has a reply for every step; the marker is what was retrieved last, and
\* what it says was sent is in force.
CardInv ==
  /\ phase = "loop" => /\ Replied(messages) = Len(steps)
                       /\ \A ids \in injected : ids # <<>> => InForce(messages, ids, steps)
  /\ phase = "calling" => Replied(request) = Len(steps) /\ (active.ids # <<>> => InForce(request, active.ids, steps))
  /\ phase = "dispatching" => /\ Replied(messages) = Len(steps) + 1
                              /\ active.ids # <<>> => InForce(messages, active.ids, steps)
  /\ phase \in {"calling", "dispatching"} => injected = (IF WithCards THEN {active.ids} ELSE {})
  /\ ~WithCards => injected = {}

\* b goes on from a with messages without cards, and the steps stay.
LEMMA StaysInForce ==
  ASSUME NEW a \in Seq(Message), NEW b \in Seq(Message), NEW ids, NEW ss,
         Repeats(a, b), InForce(a, ids, ss),
         \A k \in Len(a) + 1 .. Len(b) : b[k].cards = <<>>
  PROVE  InForce(b, ids, ss)
<1>1. PICK i \in 1 .. Len(a) :
        /\ a[i].cards = ids
        /\ \A k \in 1 .. Len(a) : k > i => a[k].cards = <<>>
        /\ \A turn \in 1 + Cardinality(Replies(a, i - 1)) .. Len(ss) : ss[turn].event.ids = ids
  BY DEF InForce
<1>2. Len(a) \in Nat /\ Len(b) \in Nat /\ Len(a) <= Len(b)
  BY DEF Repeats
<1>3. i \in 1 .. Len(b) /\ b[i].cards = ids
  BY <1>1, <1>2 DEF Repeats
<1>4. \A k \in 1 .. Len(b) : k > i => b[k].cards = <<>>
  <2>. SUFFICES ASSUME NEW k \in 1 .. Len(b), k > i  PROVE b[k].cards = <<>>
    OBVIOUS
  <2>1. k \in 1 .. Len(a) \/ k \in Len(a) + 1 .. Len(b)
    BY <1>2
  <2>. QED  BY <1>1, <2>1 DEF Repeats
<1>5. Replies(b, i - 1) = Replies(a, i - 1)
  <2>1. \A j \in 1 .. i - 1 : j \in 1 .. Len(a)
    BY <1>2
  <2>. QED  BY <2>1 DEF Replies, Repeats
<1>. QED
  BY <1>1, <1>3, <1>4, <1>5 DEF InForce

LEMMA RepliesFinite ==
  ASSUME NEW ms, NEW n \in Nat
  PROVE  IsFiniteSet(Replies(ms, n)) /\ Cardinality(Replies(ms, n)) \in Nat
<1>1. IsFiniteSet(1 .. n)
  BY FS_Interval
<1>. QED
  BY <1>1, FS_Subset, FS_CardinalityType DEF Replies

LEMMA NoReplyAdded ==
  ASSUME NEW a \in Seq(Message), NEW b \in Seq(Message), Repeats(a, b),
         NEW n \in Len(a) .. Len(b), \A k \in Len(a) + 1 .. n : b[k].role # "assistant"
  PROVE  Replies(b, n) = Replies(a, Len(a))
<1>1. Len(a) \in Nat /\ Len(b) \in Nat
  OBVIOUS
<1>2. \A k \in 1 .. n : k \in 1 .. Len(a) \/ k \in Len(a) + 1 .. n
  BY <1>1
<1>3. \A k \in 1 .. Len(a) : k \in 1 .. n
  BY <1>1
<1>. QED
  BY <1>2, <1>3 DEF Replies, Repeats

\* The reply that is committed counts, and carries no cards.
LEMMA CommitCounts ==
  ASSUME TypeOK, NEW ids \in Seq(Calls), Commit(ids)
  PROVE  /\ Replied(messages') = Replied(request) + 1
         /\ \A k \in Len(request) + 1 .. Len(messages') : messages'[k].cards = <<>>
<1>. DEFINE n == Len(request)
<1>1. /\ n \in Nat /\ Len(messages') = n + 1
      /\ \A i \in 1 .. n : messages'[i] = request[i]
      /\ messages'[n + 1] = Reply(ids)
  BY CommitRepeats DEF TypeOK
<1>2. Reply(ids).role = "assistant" /\ Reply(ids).cards = <<>>
  BY DEF Reply, Blank
<1>. HIDE DEF n
<1>3. \A k \in 1 .. n + 1 : k \in 1 .. n \/ k = n + 1
  BY <1>1
<1>4. Replies(messages', n + 1) = Replies(request, n) \cup {n + 1} /\ n + 1 \notin Replies(request, n)
  BY <1>1, <1>2, <1>3 DEF Replies
<1>5. Cardinality(Replies(messages', n + 1)) = Cardinality(Replies(request, n)) + 1
  BY <1>1, <1>4, RepliesFinite, FS_AddElement
<1>6. \A k \in n + 1 .. n + 1 : k = n + 1
  BY <1>1
<1>. QED
  BY <1>1, <1>2, <1>5, <1>6 DEF Replied, n

\* The cards of a turn are in the last message of its question.
LEMMA QuestionCards ==
  ASSUME TypeOK
  PROVE  /\ Question[Len(Question)].cards = Block
         /\ \A i \in 1 .. Len(Question) - 1 : Question[i].cards = <<>>
<1>. DEFINE Shown == [Blank EXCEPT !.cards = Block]
            Plain == [Answer EXCEPT !.cards = Block]
            Tool == [Answer EXCEPT !.role = "tool"]
<1>1. Shown.cards = Block
  BY BlankType DEF Message
<1>2. Plain.cards = Block
  BY AnswerType DEF Message
<1>3. Tool.cards = <<>>
  BY DEF Answer, Blank
<1>. HIDE DEF Shown, Plain, Tool
<1>4. CASE Question = <<Shown>>
  BY <1>1, <1>4
<1>7. CASE Question = <<Plain>>
  BY <1>2, <1>7
<1>5. CASE Question = <<Tool>> /\ Block = <<>>
  BY <1>3, <1>5
<1>6. CASE Question = <<Tool, Shown>>
  BY <1>1, <1>3, <1>6
<1>. QED
  BY <1>4, <1>5, <1>6, <1>7 DEF Question, Shown, Plain, Tool

\* What Ask adds to the transcript: no reply, and cards only in its last message.
LEMMA AskAdds ==
  ASSUME TypeOK, Ask
  PROVE  /\ Len(request') > Len(messages)
         /\ \A k \in Len(messages) + 1 .. Len(request') : request'[k].role # "assistant"
         /\ request'[Len(request')].cards = Block
         /\ \A k \in Len(messages) + 1 .. Len(request') - 1 : request'[k].cards = <<>>
<1>. DEFINE ms == messages \o Question
            n == Len(messages)
            q == Len(Question)
<1>1. /\ messages \in Seq(Message) /\ Question \in Seq(Message) /\ q \in 1 .. 2
      /\ \A i \in 1 .. q : Question[i].role # "assistant"
  BY QuestionShape DEF TypeOK
<1>2. /\ n \in Nat /\ Len(ms) = n + q
      /\ \A i \in n + 1 .. n + q : ms[i] = Question[i - n]
  <2>1. n \in Nat
    BY <1>1
  <2>. QED  BY <1>1, <2>1, Concatenation
<1>3. /\ SameTalk(request', ms)
  BY AskTypes
<1>4. /\ Question[q].cards = Block
      /\ \A i \in 1 .. q - 1 : Question[i].cards = <<>>
  BY QuestionCards
<1>. HIDE DEF ms, n, q
<1>5. Len(request') = n + q
  BY <1>2, <1>3 DEF SameTalk
<1>6. \A i \in n + 1 .. n + q : /\ i - n \in 1 .. q /\ i \in 1 .. Len(ms)
                                /\ request'[i].role = Question[i - n].role
                                /\ request'[i].cards = Question[i - n].cards
  <2>. SUFFICES ASSUME NEW i \in n + 1 .. n + q
                PROVE  /\ i - n \in 1 .. q /\ i \in 1 .. Len(ms)
                       /\ request'[i].role = Question[i - n].role
                       /\ request'[i].cards = Question[i - n].cards
    OBVIOUS
  <2>1. i - n \in 1 .. q /\ i \in 1 .. Len(ms)
    BY <1>1, <1>2
  <2>. QED  BY <1>2, <1>3, <1>5, <2>1 DEF SameTalk
<1>7. n + q \in n + 1 .. n + q /\ (n + q) - n = q /\ n + q > n
  BY <1>1, <1>2
<1>8. \A i \in n + 1 .. n + q - 1 : i \in n + 1 .. n + q /\ i - n \in 1 .. q - 1
  BY <1>1, <1>2
<1>9. n = Len(messages)
  BY DEF n
<1>10. Len(request') > Len(messages)
  BY <1>5, <1>7, <1>9
<1>11. \A k \in Len(messages) + 1 .. Len(request') : request'[k].role # "assistant"
  <2>1. \A k \in n + 1 .. n + q : request'[k].role # "assistant"
    BY <1>1, <1>6
  <2>. QED  BY <1>5, <1>9, <2>1
<1>12. request'[Len(request')].cards = Block
  BY <1>4, <1>5, <1>6, <1>7
<1>13. \A k \in Len(messages) + 1 .. Len(request') - 1 : request'[k].cards = <<>>
  <2>1. \A k \in n + 1 .. n + q - 1 : request'[k].cards = <<>>
    <3>. SUFFICES ASSUME NEW k \in n + 1 .. n + q - 1  PROVE request'[k].cards = <<>>
      OBVIOUS
    <3>1. k \in n + 1 .. n + q /\ k - n \in 1 .. q - 1
      BY <1>8
    <3>2. request'[k].cards = Question[k - n].cards
      BY <1>6, <3>1
    <3>3. Question[k - n].cards = <<>>
      BY <1>4, <3>1
    <3>. QED  BY <3>2, <3>3
  <2>2. Len(request') - 1 = n + q - 1
    BY <1>1, <1>2, <1>5
  <2>. QED  BY <1>9, <2>1, <2>2, Zenon
<1>. QED
  BY <1>10, <1>11, <1>12, <1>13

LEMMA CardStep == PolicyInv /\ PolicyInv' /\ CardInv /\ [PolicyNext]_policyVars => CardInv'
<1>. SUFFICES ASSUME PolicyInv, PolicyInv', CardInv, [PolicyNext]_policyVars
              PROVE  CardInv'
  OBVIOUS
<1>0. messages \in Seq(Message) /\ messages' \in Seq(Message) /\ request \in Seq(Message)
      /\ request' \in Seq(Message) /\ Len(steps) \in Nat
  BY DEF PolicyInv, TypeOK
<1>1. CASE Ask
  <2>1. /\ phase = "loop" /\ phase' = "calling" /\ UNCHANGED <<arm, steps>>
        /\ active'.ids = Ids /\ injected' = (IF WithCards THEN {Ids} ELSE injected)
    BY <1>1 DEF Ask, EventNow, Marker
  <2>2. WithCards' = WithCards /\ (~WithCards => injected' = {} /\ Ids = <<>>)
    BY <2>1 DEF WithCards, CardInv, Ids
  <2>3. Repeats(messages, request')
    BY <1>1, AskRepeats DEF PolicyInv
  <2>. DEFINE n == Len(messages)
              q == Len(request')
  <2>4. /\ q > n /\ n \in Nat /\ q \in Nat /\ request'[q].cards = Block
        /\ \A k \in n + 1 .. q : request'[k].role # "assistant"
        /\ \A k \in n + 1 .. q - 1 : request'[k].cards = <<>>
    BY <1>0, <1>1, AskAdds DEF PolicyInv
  <2>. HIDE DEF n, q
  <2>5. /\ q \in n .. q /\ q - 1 \in n .. q /\ q \in 1 .. q
        /\ \A k \in n + 1 .. q - 1 : k \in n + 1 .. q
    BY <2>4
  <2>6. Replies(request', q) = Replies(messages, n) /\ Replies(request', q - 1) = Replies(messages, n)
    BY <1>0, <2>3, <2>4, <2>5, NoReplyAdded DEF n, q
  <2>7. Replied(request') = Len(steps') /\ Cardinality(Replies(request', q - 1)) = Len(steps)
    BY <2>1, <2>6 DEF CardInv, Replied, n, q
  <2>8. ASSUME Ids # <<>>  PROVE InForce(request', Ids, steps')
    <3>1. WithCards
      BY <2>2, <2>8
    <3>2. CASE Ids \in injected
      <4>1. Block = <<>>
        BY <3>2 DEF Block, Injects
      <4>2. InForce(messages, Ids, steps)
        BY <2>1, <2>8, <3>2 DEF CardInv
      <4>3. \A k \in n + 1 .. q : request'[k].cards = <<>>
        <5>1. \A k \in n + 1 .. q : k \in n + 1 .. q - 1 \/ k = q
          BY <2>4
        <5>. QED  BY <2>4, <4>1, <5>1
      <4>4. InForce(request', Ids, steps)
        BY <1>0, <2>3, <4>2, <4>3, StaysInForce DEF n, q
      <4>. QED  BY <2>1, <4>4
    <3>3. CASE Ids \notin injected
      <4>1. request'[q].cards = Ids
        BY <2>4, <2>8, <3>1, <3>3 DEF Block, Injects
      <4>2. \A k \in 1 .. q : ~ k > q
        BY <2>4
      <4>3. \A turn \in 1 + Len(steps) .. Len(steps) : FALSE
        BY <1>0
      <4>4. \A turn \in 1 + Cardinality(Replies(request', q - 1)) .. Len(steps') :
              steps'[turn].event.ids = Ids
        BY <2>1, <2>7, <4>3
      <4>. QED  BY <2>5, <4>1, <4>2, <4>4 DEF InForce, q
    <3>. QED  BY <3>2, <3>3
  <2>. QED  BY <2>1, <2>2, <2>7, <2>8 DEF CardInv
<1>2. CASE CallsTool \/ CallsNothing \/ CallsGarbled
  <2>1. /\ phase = "calling" /\ phase' = "dispatching"
        /\ UNCHANGED <<provider, arm, steps, ledger, injected, active, request>>
    BY <1>2, Answered
  <2>2. PICK ids \in Seq(Calls) : Commit(ids)
    BY <1>2, Answered
  <2>3. /\ Replied(messages') = Len(steps') + 1 /\ Repeats(request, messages')
        /\ \A k \in Len(request) + 1 .. Len(messages') : messages'[k].cards = <<>>
    BY <2>1, <2>2, CommitCounts, CommitRepeats DEF PolicyInv, CardInv
  <2>4. ASSUME active.ids # <<>>  PROVE InForce(messages', active.ids', steps')
    <3>1. InForce(request, active.ids, steps)
      BY <2>1, <2>4 DEF CardInv
    <3>2. InForce(messages', active.ids, steps)
      BY <1>0, <2>3, <3>1, StaysInForce
    <3>. QED  BY <2>1, <3>2
  <2>. QED  BY <2>1, <2>3, <2>4 DEF CardInv, WithCards
<1>3. CASE GoesOn
  <2>1. /\ phase = "dispatching" /\ phase' = "loop" /\ RecordStep
        /\ UNCHANGED <<arm, messages, injected, active>>
    BY <1>3 DEF GoesOn
  <2>. DEFINE e == [call |-> call, event |-> active]
  <2>2. e.event = active /\ steps' = Append(steps, e)
    BY <2>1 DEF RecordStep, RecordedEvent
  <2>3. /\ steps \in Seq([call : Calls \cup {NoCall}, event : Event])
        /\ e \in [call : Calls \cup {NoCall}, event : Event]
    BY DEF PolicyInv, TypeOK
  <2>. HIDE DEF e
  <2>4. /\ Len(steps') = Len(steps) + 1
        /\ \A t \in 1 .. Len(steps) : steps'[t] = steps[t]
        /\ steps'[Len(steps) + 1].event = active
    BY <2>2, <2>3, Appended
  <2>5. ASSUME active.ids # <<>>  PROVE InForce(messages', active.ids', steps')
    <3>1. PICK i \in 1 .. Len(messages) :
            /\ messages[i].cards = active.ids
            /\ \A k \in 1 .. Len(messages) : k > i => messages[k].cards = <<>>
            /\ \A turn \in 1 + Cardinality(Replies(messages, i - 1)) .. Len(steps) :
                 steps[turn].event.ids = active.ids
      BY <2>1, <2>5 DEF CardInv, InForce
    <3>. DEFINE c == Cardinality(Replies(messages, i - 1))
    <3>2. c \in Nat
      <4>1. i - 1 \in Nat
        BY <1>0
      <4>. QED  BY <4>1, RepliesFinite
    <3>. HIDE DEF c
    <3>3. \A turn \in 1 + c .. Len(steps) + 1 : steps'[turn].event.ids = active.ids
      <4>. SUFFICES ASSUME NEW turn \in 1 + c .. Len(steps) + 1
                    PROVE  steps'[turn].event.ids = active.ids
        OBVIOUS
      <4>1. (turn \in 1 + c .. Len(steps) /\ turn \in 1 .. Len(steps)) \/ turn = Len(steps) + 1
        BY <1>0, <3>2
      <4>. QED  BY <2>4, <3>1, <4>1 DEF c
    <3>. QED  BY <2>1, <2>4, <3>1, <3>3 DEF InForce, c
  <2>6. \A ids \in injected : ids = active.ids
    BY <2>1 DEF CardInv
  <2>7. WithCards' = WithCards /\ Replied(messages)' = Len(steps')
    BY <2>1, <2>4 DEF WithCards, CardInv, Replied
  <2>. QED  BY <2>1, <2>5, <2>6, <2>7 DEF CardInv
<1>4. CASE Fails \/ UNCHANGED policyVars
  BY <1>4 DEF Fails, policyVars, CardInv, WithCards
<1>5. CASE GivesUp \/ LastStep \/ StopsOnBudget
  BY <1>5 DEF GivesUp, LastStep, StopsOnBudget, CardInv, WithCards
<1>. QED
  BY <1>1, <1>2, <1>3, <1>4, <1>5 DEF PolicyNext

\* While cards are retrieved, the last block of cards before the model lists exactly them,
\* and nothing else was retrieved since the turn it was sent in.
THEOREM CardsAreInForce == PolicySpec => []CardsInForce
<1>1. PolicyInit => CardInv
  <2>. SUFFICES ASSUME PolicyInit  PROVE CardInv
    OBVIOUS
  <2>1. Replies(<<>>, 0) = {}
    BY DEF Replies
  <2>2. Replied(messages) = 0
    BY <2>1, FS_EmptySet DEF PolicyInit, Replied
  <2>3. phase = "loop" /\ injected = {} /\ Len(steps) = 0
    BY DEF PolicyInit
  <2>. QED  BY <2>2, <2>3 DEF CardInv
<1>2. PolicyInv /\ CardInv => CardsInForce
  <2>. SUFFICES ASSUME PolicyInv, CardInv, Calling, active.ids # <<>>
                PROVE  /\ Blocks # {}
                       /\ request[Latest(Blocks)].cards = active.ids
                       /\ \A turn \in TurnOf(Latest(Blocks)) .. Len(steps) : IdsOf(turn) = active.ids
    BY DEF CardsInForce
  <2>1. PICK i \in 1 .. Len(request) :
          /\ request[i].cards = active.ids
          /\ \A k \in 1 .. Len(request) : k > i => request[k].cards = <<>>
          /\ \A turn \in 1 + Cardinality(Replies(request, i - 1)) .. Len(steps) :
               steps[turn].event.ids = active.ids
    BY DEF CardInv, InForce, Calling
  <2>2. DOMAIN request = 1 .. Len(request) /\ Len(request) \in Nat /\ Len(steps) \in Nat
    BY DEF PolicyInv, TypeOK
  <2>3. i \in Blocks /\ Blocks \subseteq Nat /\ \A k \in Blocks : k <= i
    BY <2>1, <2>2 DEF Blocks
  <2>4. Latest(Blocks) = i
    BY <2>3, LatestIs
  <2>5. TurnOf(i) = 1 + Cardinality(Replies(request, i - 1))
    BY DEF TurnOf, Replies
  <2>6. \A turn \in TurnOf(i) .. Len(steps) : turn <= Len(steps)
    BY <2>2
  <2>. QED  BY <2>1, <2>3, <2>4, <2>5, <2>6 DEF IdsOf
<1>. QED
  BY <1>1, <1>2, CardStep, PolicyInvHolds, PTL DEF PolicySpec

-----------------------------------------------------------------------------
(* Blocks *)

\* The turn message i belongs to, and what was retrieved in turn t.
TurnIn(ms, i) == 1 + Cardinality(Replies(ms, i - 1))
IdsIn(ss, act, t) == IF t <= Len(ss) THEN ss[t].event.ids ELSE act.ids

\* Every block of ms is of a turn up to last, and between the turns of two blocks the
\* retrieval changed.
BlocksDiffer(ms, last, ss, act) ==
  /\ \A i \in 1 .. Len(ms) : ms[i].cards # <<>> => TurnIn(ms, i) <= last
  /\ \A i, j \in 1 .. Len(ms) :
       i < j /\ ms[i].cards # <<>> /\ ms[j].cards # <<>> =>
         \E t \in TurnIn(ms, i) + 1 .. TurnIn(ms, j) : IdsIn(ss, act, t) # IdsIn(ss, act, t - 1)

BlockInv ==
  /\ phase = "loop" => BlocksDiffer(messages, Len(steps), steps, active)
  /\ phase = "calling" => BlocksDiffer(request, Len(steps) + 1, steps, active)
  /\ phase = "dispatching" => BlocksDiffer(messages, Len(steps) + 1, steps, active)
  /\ phase = "loop" /\ WithCards /\ steps # <<>> => injected = {steps[Len(steps)].event.ids}
  /\ ~WithCards =>
       /\ phase \in {"loop", "dispatching"} => \A i \in 1 .. Len(messages) : messages[i].cards = <<>>
       /\ phase = "calling" => \A i \in 1 .. Len(request) : request[i].cards = <<>>

LEMMA TurnType ==
  ASSUME NEW ms \in Seq(Message), NEW i \in 1 .. Len(ms)
  PROVE  TurnIn(ms, i) \in Nat \ {0}
<1>1. i - 1 \in Nat
  OBVIOUS
<1>2. Cardinality(Replies(ms, i - 1)) \in Nat
  BY <1>1, RepliesFinite
<1>. QED
  BY <1>2 DEF TurnIn

LEMMA SameTurn ==
  ASSUME NEW a \in Seq(Message), NEW b \in Seq(Message), Repeats(a, b), NEW i \in 1 .. Len(a)
  PROVE  i \in 1 .. Len(b) /\ TurnIn(b, i) = TurnIn(a, i) /\ b[i].cards = a[i].cards
<1>1. Len(a) \in Nat /\ Len(b) \in Nat /\ Len(a) <= Len(b)
  BY DEF Repeats
<1>2. \A j \in 1 .. i - 1 : j \in 1 .. Len(a)
  BY <1>1
<1>3. Replies(b, i - 1) = Replies(a, i - 1)
  BY <1>2 DEF Replies, Repeats
<1>. QED
  BY <1>1, <1>3 DEF TurnIn, Repeats

\* b goes on from a without blocks.
LEMMA StillDiffer ==
  ASSUME NEW a \in Seq(Message), NEW b \in Seq(Message), NEW last, NEW ss, NEW act,
         Repeats(a, b), BlocksDiffer(a, last, ss, act),
         \A k \in Len(a) + 1 .. Len(b) : b[k].cards = <<>>
  PROVE  BlocksDiffer(b, last, ss, act)
<1>1. Len(a) \in Nat /\ Len(b) \in Nat /\ Len(a) <= Len(b)
  BY DEF Repeats
<1>2. \A k \in 1 .. Len(b) : b[k].cards # <<>> => k \in 1 .. Len(a)
  <2>1. \A k \in 1 .. Len(b) : k \in 1 .. Len(a) \/ k \in Len(a) + 1 .. Len(b)
    BY <1>1
  <2>. QED  BY <2>1
<1>3. \A k \in 1 .. Len(a) : TurnIn(b, k) = TurnIn(a, k) /\ b[k].cards = a[k].cards
  BY SameTurn
<1>. QED
  BY <1>2, <1>3 DEF BlocksDiffer

\* What later turns retrieve does not change the turns of the blocks.
LEMMA DifferLater ==
  ASSUME NEW ms \in Seq(Message), NEW last \in Nat, NEW ss, NEW act, NEW tt, NEW bct,
         BlocksDiffer(ms, last, ss, act),
         \A t \in 1 .. last : IdsIn(tt, bct, t) = IdsIn(ss, act, t)
  PROVE  BlocksDiffer(ms, last, tt, bct)
<1>1. ASSUME NEW i \in 1 .. Len(ms), NEW j \in 1 .. Len(ms), i < j, ms[i].cards # <<>>, ms[j].cards # <<>>
      PROVE  \E t \in TurnIn(ms, i) + 1 .. TurnIn(ms, j) : IdsIn(tt, bct, t) # IdsIn(tt, bct, t - 1)
  <2>1. PICK t \in TurnIn(ms, i) + 1 .. TurnIn(ms, j) : IdsIn(ss, act, t) # IdsIn(ss, act, t - 1)
    BY <1>1 DEF BlocksDiffer
  <2>2. TurnIn(ms, i) \in Nat \ {0} /\ TurnIn(ms, j) \in Nat \ {0} /\ TurnIn(ms, j) <= last
    BY <1>1, TurnType DEF BlocksDiffer
  <2>3. t \in 1 .. last /\ t - 1 \in 1 .. last
    BY <2>2
  <2>. QED  BY <2>1, <2>3
<1>. QED
  BY <1>1 DEF BlocksDiffer

LEMMA MoreTurns ==
  ASSUME NEW ms \in Seq(Message), NEW last \in Nat, NEW ss, NEW act, BlocksDiffer(ms, last, ss, act)
  PROVE  BlocksDiffer(ms, last + 1, ss, act)
<1>1. ASSUME NEW i \in 1 .. Len(ms), ms[i].cards # <<>>  PROVE TurnIn(ms, i) <= last + 1
  <2>1. TurnIn(ms, i) \in Nat \ {0} /\ TurnIn(ms, i) <= last
    BY <1>1, TurnType DEF BlocksDiffer
  <2>. QED  BY <2>1
<1>. QED
  BY <1>1 DEF BlocksDiffer

LEMMA BlockStep == PolicyInv /\ PolicyInv' /\ CardInv /\ BlockInv /\ [PolicyNext]_policyVars => BlockInv'
<1>. SUFFICES ASSUME PolicyInv, PolicyInv', CardInv, BlockInv, [PolicyNext]_policyVars
              PROVE  BlockInv'
  OBVIOUS
<1>0. messages \in Seq(Message) /\ messages' \in Seq(Message) /\ request \in Seq(Message)
      /\ request' \in Seq(Message) /\ Len(steps) \in Nat
  BY DEF PolicyInv, TypeOK
<1>1. CASE Ask
  <2>1. /\ phase = "loop" /\ phase' = "calling" /\ UNCHANGED <<arm, steps>> /\ active'.ids = Ids
    BY <1>1 DEF Ask, EventNow
  <2>0. ~WithCards => \A i \in 1 .. Len(messages) : messages[i].cards = <<>>
    BY <2>1 DEF BlockInv
  <2>2. WithCards' = WithCards
    BY <2>1 DEF WithCards
  <2>3. Repeats(messages, request')
    BY <1>1, AskRepeats DEF PolicyInv
  <2>. DEFINE n == Len(messages)
              q == Len(request')
              s == Len(steps)
  <2>4. /\ q > n /\ n \in Nat /\ q \in Nat /\ s \in Nat /\ request'[q].cards = Block
        /\ \A k \in n + 1 .. q : request'[k].role # "assistant"
        /\ \A k \in n + 1 .. q - 1 : request'[k].cards = <<>>
    BY <1>0, <1>1, AskAdds DEF PolicyInv
  <2>5. BlocksDiffer(messages, s, steps, active')
    <3>1. \A t \in 1 .. s : IdsIn(steps, active', t) = IdsIn(steps, active, t)
      BY <2>4 DEF IdsIn
    <3>. QED  BY <1>0, <2>1, <3>1, DifferLater DEF BlockInv
  <2>. HIDE DEF n, q, s
  <2>6. \A k \in n + 1 .. q : k \in n + 1 .. q - 1 \/ k = q
    BY <2>4
  <2>7. CASE Block = <<>>
    <3>1. \A k \in n + 1 .. q : request'[k].cards = <<>>
      BY <2>4, <2>6, <2>7
    <3>2. BlocksDiffer(request', s, steps, active')
      BY <1>0, <2>3, <2>5, <3>1, StillDiffer DEF n, q
    <3>3. BlocksDiffer(request', s + 1, steps, active')
      BY <1>0, <2>4, <3>2, MoreTurns
    <3>4. ASSUME ~WithCards, NEW k \in 1 .. q  PROVE request'[k].cards = <<>>
      <4>1. k \in 1 .. n \/ k \in n + 1 .. q
        BY <2>4
      <4>2. CASE k \in 1 .. n
        <5>2. k \in 1 .. Len(messages)
          BY <4>2 DEF n
        <5>1. messages[k].cards = <<>>
          BY <2>0, <3>4, <5>2
        <5>3. request'[k].cards = messages[k].cards
          BY <2>3, <5>2 DEF Repeats
        <5>. QED  BY <5>1, <5>3
      <4>. QED  BY <3>1, <4>1, <4>2
    <3>. QED  BY <2>1, <2>2, <3>3, <3>4 DEF BlockInv, s, q
  <2>8. CASE Block # <<>>
    <3>1. WithCards /\ Ids \notin injected
      BY <2>8 DEF Block, Injects
    <3>2. TurnIn(request', q) = s + 1
      <4>1. q - 1 \in n .. q /\ \A k \in n + 1 .. q - 1 : k \in n + 1 .. q
        BY <2>4
      <4>2. Replies(request', q - 1) = Replies(messages, n)
        BY <1>0, <2>3, <2>4, <4>1, NoReplyAdded DEF n, q
      <4>3. Cardinality(Replies(messages, n)) = s
        BY <2>1 DEF CardInv, Replied, n, s
      <4>. QED  BY <2>4, <4>2, <4>3 DEF TurnIn
    <3>3. \A k \in 1 .. q : request'[k].cards # <<>> => k \in 1 .. n \/ k = q
      <4>1. \A k \in 1 .. q : k \in 1 .. n \/ k \in n + 1 .. q
        BY <2>4
      <4>. QED  BY <2>4, <2>6, <4>1
    <3>4. \A k \in 1 .. n : k \in 1 .. q /\ TurnIn(request', k) = TurnIn(messages, k)
                            /\ request'[k].cards = messages[k].cards
      BY <1>0, <2>3, SameTurn DEF n, q
    <3>5. \A k \in 1 .. n : messages[k].cards # <<>> => TurnIn(messages, k) \in 1 .. s
      <4>. SUFFICES ASSUME NEW k \in 1 .. n, messages[k].cards # <<>>
                    PROVE  TurnIn(messages, k) \in 1 .. s
        OBVIOUS
      <4>1. TurnIn(messages, k) \in Nat \ {0} /\ TurnIn(messages, k) <= s
        BY <1>0, <2>5, TurnType DEF BlocksDiffer, n
      <4>. QED  BY <2>4, <4>1
    <3>6. ASSUME NEW i \in 1 .. n, messages[i].cards # <<>>
          PROVE  \E t \in TurnIn(messages, i) + 1 .. s + 1 :
                   IdsIn(steps, active', t) # IdsIn(steps, active', t - 1)
      <4>1. TurnIn(messages, i) \in 1 .. s
        BY <3>5, <3>6
      <4>2. s + 1 \in TurnIn(messages, i) + 1 .. s + 1 /\ (s + 1) - 1 = s /\ ~ s + 1 <= s /\ s # 0
        BY <2>4, <4>1
      <4>3. steps # <<>>
        BY <4>2 DEF s
      <4>4. injected = {steps[s].event.ids}
        BY <2>1, <3>1, <4>3 DEF BlockInv, s
      <4>5. IdsIn(steps, active', s + 1) = Ids /\ IdsIn(steps, active', s) = steps[s].event.ids
        BY <2>1, <2>4, <4>2 DEF IdsIn, s
      <4>. QED  BY <3>1, <4>2, <4>4, <4>5
    <3>7. ASSUME NEW i \in 1 .. q, NEW j \in 1 .. q, i < j,
                 request'[i].cards # <<>>, request'[j].cards # <<>>
          PROVE  \E t \in TurnIn(request', i) + 1 .. TurnIn(request', j) :
                   IdsIn(steps, active', t) # IdsIn(steps, active', t - 1)
      <4>1. i \in 1 .. n
        <5>1. i # q
          BY <2>4, <3>7
        <5>. QED  BY <3>3, <3>7, <5>1
      <4>2. CASE j = q
        BY <3>2, <3>4, <3>6, <3>7, <4>1, <4>2
      <4>3. CASE j \in 1 .. n
        BY <2>5, <3>4, <3>7, <4>1, <4>3 DEF BlocksDiffer, n
      <4>. QED  BY <3>3, <3>7, <4>2, <4>3
    <3>8. ASSUME NEW i \in 1 .. q, request'[i].cards # <<>>  PROVE TurnIn(request', i) <= s + 1
      <4>1. CASE i = q
        BY <2>4, <3>2, <4>1
      <4>2. CASE i \in 1 .. n
        <5>1. TurnIn(request', i) \in 1 .. s
          BY <3>4, <3>5, <3>8, <4>2
        <5>. QED  BY <2>4, <5>1
      <4>. QED  BY <3>3, <3>8, <4>1, <4>2
    <3>9. BlocksDiffer(request', s + 1, steps, active')
      BY <3>7, <3>8 DEF BlocksDiffer, q
    <3>. QED  BY <2>1, <2>2, <3>1, <3>9 DEF BlockInv, s
  <2>. QED  BY <2>7, <2>8
<1>2. CASE CallsTool \/ CallsNothing \/ CallsGarbled
  <2>1. /\ phase = "calling" /\ phase' = "dispatching"
        /\ UNCHANGED <<provider, arm, steps, ledger, injected, active, request>>
    BY <1>2, Answered
  <2>2. PICK ids \in Seq(Calls) : Commit(ids)
    BY <1>2, Answered
  <2>3. /\ Repeats(request, messages')
        /\ \A k \in Len(request) + 1 .. Len(messages') : messages'[k].cards = <<>>
    BY <2>2, CommitCounts, CommitRepeats DEF PolicyInv
  <2>4. BlocksDiffer(messages', Len(steps) + 1, steps, active)
    BY <1>0, <2>1, <2>3, StillDiffer DEF BlockInv
  <2>5. ASSUME ~WithCards, NEW k \in 1 .. Len(messages')  PROVE messages'[k].cards = <<>>
    <3>1. Len(request) \in Nat /\ Len(messages') \in Nat
      BY <1>0
    <3>2. k \in 1 .. Len(request) \/ k \in Len(request) + 1 .. Len(messages')
      BY <3>1
    <3>3. CASE k \in 1 .. Len(request)
      BY <2>1, <2>3, <2>5, <3>3 DEF BlockInv, Repeats
    <3>. QED  BY <2>3, <3>2, <3>3
  <2>6. WithCards' = WithCards
    BY <2>1 DEF WithCards
  <2>. QED  BY <2>1, <2>4, <2>5, <2>6 DEF BlockInv
<1>3. CASE GoesOn
  <2>1. /\ phase = "dispatching" /\ phase' = "loop" /\ RecordStep
        /\ UNCHANGED <<arm, messages, injected, active>>
    BY <1>3 DEF GoesOn
  <2>. DEFINE e == [call |-> call, event |-> active]
              s == Len(steps)
  <2>2. e.event = active /\ steps' = Append(steps, e)
    BY <2>1 DEF RecordStep, RecordedEvent
  <2>3. /\ steps \in Seq([call : Calls \cup {NoCall}, event : Event])
        /\ e \in [call : Calls \cup {NoCall}, event : Event]
    BY DEF PolicyInv, TypeOK
  <2>. HIDE DEF e
  <2>4. /\ Len(steps') = s + 1 /\ s \in Nat
        /\ \A t \in 1 .. s : steps'[t] = steps[t]
        /\ steps'[s + 1].event = active
    BY <2>2, <2>3, Appended
  <2>5. BlocksDiffer(messages, s + 1, steps, active)
    BY <2>1 DEF BlockInv
  <2>. HIDE DEF s
  <2>6. \A t \in 1 .. s + 1 : IdsIn(steps', active, t) = IdsIn(steps, active, t)
    <3>. SUFFICES ASSUME NEW t \in 1 .. s + 1  PROVE IdsIn(steps', active, t) = IdsIn(steps, active, t)
      OBVIOUS
    <3>1. t <= s + 1 /\ ((t \in 1 .. s /\ t <= s) \/ (t = s + 1 /\ ~ t <= s))
      BY <2>4
    <3>. QED  BY <2>4, <3>1 DEF IdsIn, s
  <2>7. BlocksDiffer(messages, Len(steps'), steps', active)
    <3>1. s + 1 \in Nat
      BY <2>4
    <3>. QED  BY <1>0, <2>4, <2>5, <2>6, <3>1, DifferLater
  <2>8. WithCards' = WithCards /\ (WithCards => injected = {active.ids})
    BY <2>1 DEF WithCards, CardInv
  <2>. QED  BY <2>1, <2>4, <2>7, <2>8 DEF BlockInv
<1>4. CASE Fails \/ UNCHANGED policyVars
  BY <1>4 DEF Fails, policyVars, BlockInv, WithCards
<1>5. CASE GivesUp \/ LastStep \/ StopsOnBudget
  BY <1>5 DEF GivesUp, LastStep, StopsOnBudget, BlockInv
<1>. QED
  BY <1>1, <1>2, <1>3, <1>4, <1>5 DEF PolicyNext

\* A block of cards is not sent again while the retrieval stays what it was, however long
\* the conversation, and arm A0 is sent none.
THEOREM BlocksAreSentOnce == PolicySpec => []BlockSentOnce
<1>1. PolicyInit => CardInv /\ BlockInv
  <2>. SUFFICES ASSUME PolicyInit  PROVE CardInv /\ BlockInv
    OBVIOUS
  <2>1. Replies(<<>>, 0) = {}
    BY DEF Replies
  <2>2. Replied(messages) = 0
    BY <2>1, FS_EmptySet DEF PolicyInit, Replied
  <2>3. phase = "loop" /\ injected = {} /\ Len(steps) = 0 /\ steps = <<>> /\ Len(messages) = 0
    BY DEF PolicyInit
  <2>4. BlocksDiffer(messages, Len(steps), steps, active)
    BY <2>3 DEF BlocksDiffer
  <2>. QED  BY <2>2, <2>3, <2>4 DEF CardInv, BlockInv
<1>2. PolicyInv /\ BlockInv => BlockSentOnce
  <2>. SUFFICES ASSUME PolicyInv, BlockInv, Calling  PROVE BlockSentOnce
    BY DEF BlockSentOnce
  <2>1. /\ DOMAIN request = 1 .. Len(request)
        /\ \A i \in 1 .. Len(request) : TurnOf(i) = TurnIn(request, i)
        /\ \A t : IdsOf(t) = IdsIn(steps, active, t)
    BY DEF PolicyInv, TypeOK, TurnOf, TurnIn, Replies, IdsOf, IdsIn
  <2>2. BlocksDiffer(request, Len(steps) + 1, steps, active)
    BY DEF BlockInv, Calling
  <2>3. arm = "A0" => Blocks = {}
    BY <2>1 DEF BlockInv, Calling, WithCards, Blocks
  <2>. QED  BY <2>1, <2>2, <2>3 DEF BlockSentOnce, BlocksDiffer, Blocks
<1>. QED
  BY <1>1, <1>2, CardStep, BlockStep, PolicyInvHolds, PTL DEF PolicySpec

-----------------------------------------------------------------------------
(* The ranking of cards (module Retrieval) *)

Positions == DOMAIN Library

\* Every card of the library has a score.
Scored(text) == \A i \in Positions : Score(text, Library[i]) \in Nat

Ahead(text, i) == {j \in Positions : RanksBefore(text, j, i)}

\* Of two cards one ranks before the other.
LEMMA RanksAreOrdered ==
  ASSUME NEW C, Library \in Seq(C), NEW text, Scored(text)
  PROVE  \A i, j \in Positions :
           /\ i # j => RanksBefore(text, i, j) \/ RanksBefore(text, j, i)
           /\ RanksBefore(text, i, j) =>
                /\ ~RanksBefore(text, j, i)
                /\ i \in Ahead(text, j) \ Ahead(text, i) /\ Ahead(text, i) \subseteq Ahead(text, j)
<1>. DEFINE sc == [i \in Positions |-> Score(text, Library[i])]
<1>1. Positions \subseteq Nat /\ sc \in [Positions -> Nat]
  BY DEF Scored, Positions
<1>2. \A i, j \in Positions : RanksBefore(text, i, j) <=> sc[i] > sc[j] \/ (sc[i] = sc[j] /\ i < j)
  BY DEF RanksBefore
<1>. HIDE DEF sc
<1>3. \A i, j, k \in Positions : RanksBefore(text, i, j) /\ RanksBefore(text, j, k) => RanksBefore(text, i, k)
  BY <1>1, <1>2
<1>4. \A i, j \in Positions : /\ i # j => RanksBefore(text, i, j) \/ RanksBefore(text, j, i)
                              /\ RanksBefore(text, i, j) => ~RanksBefore(text, j, i)
  BY <1>1, <1>2
<1>. QED
  BY <1>3, <1>4 DEF Ahead

\* Ranks are the numbers from 1, each given to one card, in the order of the cards.
LEMMA RanksAreDistinct ==
  ASSUME NEW C, Library \in Seq(C), NEW text, Scored(text)
  PROVE  /\ \A i \in Positions : RankOf(text, i) \in Positions
         /\ \A i, j \in Positions : RanksBefore(text, i, j) <=> RankOf(text, i) < RankOf(text, j)
         /\ \A i, j \in Positions : RankOf(text, i) = RankOf(text, j) => i = j
         /\ \A r \in Positions : \E i \in Positions : RankOf(text, i) = r
<1>1. Positions = 1 .. Len(Library) /\ Len(Library) \in Nat
  BY DEF Positions
<1>2. IsFiniteSet(Positions) /\ Cardinality(Positions) = Len(Library)
  BY <1>1, FS_Interval
<1>3. \A i \in Positions : RankOf(text, i) = 1 + Cardinality(Ahead(text, i))
  BY DEF RankOf, Ahead, Positions
<1>4. ASSUME NEW i \in Positions
      PROVE  /\ IsFiniteSet(Ahead(text, i))
             /\ Cardinality(Ahead(text, i)) \in Nat /\ Cardinality(Ahead(text, i)) < Len(Library)
  <2>1. Ahead(text, i) \in SUBSET Positions /\ i \notin Ahead(text, i)
    BY RanksAreOrdered DEF Ahead
  <2>2. IsFiniteSet(Ahead(text, i)) /\ Cardinality(Ahead(text, i)) <= Len(Library)
    BY <1>2, <2>1, FS_Subset
  <2>3. Cardinality(Ahead(text, i)) # Len(Library)
    BY <1>2, <2>1, FS_Subset
  <2>4. Cardinality(Ahead(text, i)) \in Nat
    BY <2>2, FS_CardinalityType
  <2>. QED  BY <1>1, <2>2, <2>3, <2>4
<1>5. \A i \in Positions : RankOf(text, i) \in Positions
  BY <1>1, <1>3, <1>4
<1>6. ASSUME NEW i \in Positions, NEW j \in Positions, RanksBefore(text, i, j)
      PROVE  RankOf(text, i) < RankOf(text, j)
  <2>1. Ahead(text, i) \in SUBSET Ahead(text, j) /\ Ahead(text, i) # Ahead(text, j)
    BY <1>6, RanksAreOrdered
  <2>2. /\ Cardinality(Ahead(text, i)) <= Cardinality(Ahead(text, j))
        /\ Cardinality(Ahead(text, i)) # Cardinality(Ahead(text, j))
    BY <1>4, <2>1, FS_Subset
  <2>. QED  BY <1>3, <1>4, <2>2
<1>7. \A i, j \in Positions : RanksBefore(text, i, j) <=> RankOf(text, i) < RankOf(text, j)
  <2>1. \A i \in Positions : RankOf(text, i) \in Nat
    BY <1>1, <1>5
  <2>. QED  BY <1>6, <2>1, RanksAreOrdered
<1>8. \A i, j \in Positions : RankOf(text, i) = RankOf(text, j) => i = j
  <2>1. \A i \in Positions : RankOf(text, i) \in Nat
    BY <1>1, <1>5
  <2>. QED  BY <1>7, <2>1, RanksAreOrdered
<1>9. \A r \in Positions : \E i \in Positions : RankOf(text, i) = r
  <2>. DEFINE f == [i \in Positions |-> RankOf(text, i)]
  <2>1. f \in Injection(Positions, Positions)
    BY <1>5, <1>8 DEF Injection, IsInjective
  <2>2. f \in Surjection(Positions, Positions)
    BY <1>2, <2>1, FS_Injection
  <2>. QED  BY <2>2 DEF Surjection
<1>. QED
  BY <1>5, <1>7, <1>8, <1>9

\* What is retrieved for a text is a list of cards of the library: none, or the K best
\* (all, if there are no K), each once, in the order of their ranks.
THEOREM RetrievedAreTheBest ==
  ASSUME NEW C, Library \in Seq(C), K \in Nat, NEW text, Scored(text)
  PROVE  LET R == RetrieveScored(text)
         IN /\ R \in Seq(C)
            /\ R = <<>> <=> K = 0 \/ text = EmptyText \/ ~Evidence(text)
            /\ R # <<>> => Len(R) = IF K < Len(Library) THEN K ELSE Len(Library)
            /\ \E at \in [DOMAIN R -> Positions] :
                 /\ \A r \in DOMAIN R : R[r] = Library[at[r]]
                 /\ \A r, s \in DOMAIN R : r < s => RanksBefore(text, at[r], at[s])
                 /\ R # <<>> => \A i \in Positions :
                      (\A r \in DOMAIN R : at[r] # i) => \A r \in DOMAIN R : RanksBefore(text, at[r], i)
<1>. DEFINE R == RetrieveScored(text)
            n == IF K < Len(Library) THEN K ELSE Len(Library)
            pos == [r \in Positions |-> CHOOSE i \in DOMAIN Library : RankOf(text, i) = r]
<1>1. Positions = 1 .. Len(Library) /\ Len(Library) \in Nat /\ n \in Nat /\ n <= K
      /\ 1 .. n \subseteq Positions /\ {m \in Positions : m <= K} = 1 .. n
  BY DEF Positions
<1>2. \A r \in Positions : pos[r] \in Positions /\ RankOf(text, pos[r]) = r
  BY RanksAreDistinct DEF Positions
<1>3. \A r \in Positions : AtRank(text, r) = Library[pos[r]]
  BY DEF AtRank
<1>. HIDE DEF pos, n
<1>4. CASE K = 0 \/ text = EmptyText \/ ~Evidence(text)
  <2>1. R = <<>>
    BY <1>4 DEF RetrieveScored
  <2>. HIDE DEF R
  <2>2. R \in Seq(C) /\ DOMAIN R = {}
    BY <2>1
  <2>. DEFINE at == [r \in DOMAIN R |-> 1]
  <2>3. at \in [DOMAIN R -> Positions]
    BY <2>2
  <2>4. \E f \in [DOMAIN R -> Positions] :
          /\ \A r \in DOMAIN R : R[r] = Library[f[r]]
          /\ \A r, s \in DOMAIN R : r < s => RanksBefore(text, f[r], f[s])
          /\ R # <<>> => \A i \in Positions :
               (\A r \in DOMAIN R : f[r] # i) => \A r \in DOMAIN R : RanksBefore(text, f[r], i)
    BY <2>1, <2>2, <2>3
  <2>. QED  BY <1>4, <2>1, <2>2, <2>4, Zenon DEF R
<1>5. CASE ~(K = 0 \/ text = EmptyText \/ ~Evidence(text))
  <2>1. R = [r \in 1 .. n |-> AtRank(text, r)]
    BY <1>1, <1>5 DEF RetrieveScored, Positions
  <2>. HIDE DEF R
  <2>2. Positions # {}
    BY <1>5 DEF Evidence, Positions
  <2>3. n # 0
    BY <1>1, <1>5, <2>2 DEF n
  <2>4. \A r \in 1 .. n : R[r] = Library[pos[r]] /\ R[r] \in C
    BY <1>1, <1>2, <1>3, <2>1 DEF Positions
  <2>5. R \in Seq(C) /\ Len(R) = n /\ DOMAIN R = 1 .. n /\ R # <<>>
    BY <1>1, <2>1, <2>3, <2>4
  <2>. DEFINE at == [r \in 1 .. n |-> pos[r]]
  <2>6. at \in [DOMAIN R -> Positions] /\ \A r \in DOMAIN R : at[r] = pos[r] /\ RankOf(text, at[r]) = r
    BY <1>1, <1>2, <2>5
  <2>. HIDE DEF at
  <2>7. \A r \in DOMAIN R : R[r] = Library[at[r]]
    BY <2>4, <2>5, <2>6
  <2>8. \A r, s \in DOMAIN R : r < s => RanksBefore(text, at[r], at[s])
    BY <2>6, RanksAreDistinct
  <2>9. ASSUME NEW i \in Positions, \A r \in DOMAIN R : at[r] # i, NEW r \in DOMAIN R
        PROVE  RanksBefore(text, at[r], i)
    <3>1. RankOf(text, i) \in Positions
      BY RanksAreDistinct
    <3>2. RankOf(text, i) \notin 1 .. n
      BY <2>5, <2>6, <2>9, RanksAreDistinct
    <3>3. r < RankOf(text, i)
      BY <1>1, <2>5, <3>1, <3>2
    <3>. QED  BY <2>6, <3>3, RanksAreDistinct
  <2>10. Len(R) = IF K < Len(Library) THEN K ELSE Len(Library)
    BY <2>5 DEF n
  <2>. QED  BY <1>5, <2>5, <2>6, <2>7, <2>8, <2>9, <2>10 DEF R
<1>. QED
  BY <1>4, <1>5
=============================================================================
