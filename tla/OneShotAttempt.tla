--------------------------- MODULE OneShotAttempt ---------------------------
(***************************************************************************)
(* What one attempt promises to the study that scores it: it is open until *)
(* it ends, it ends once, and the harness scores at most one answer, which *)
(* counts as solved only if the target accepts it.                         *)
(***************************************************************************)
EXTENDS Integers

CONSTANTS
  Values,     \* candidate answers
  Accepts,    \* the answers the target accepts
  NoAnswer

VARIABLES
  outcome,    \* "open", "solved", "wrong" or "unanswered"
  answer      \* the one answer scored, or NoAnswer

Init == outcome = "open" /\ answer = NoAnswer

\* The one answer is scored.  A right answer may be scored wrong, when the harness
\* could not run the target; a wrong one is never scored right.
Answer(c) ==
  /\ outcome = "open"
  /\ answer' = c
  /\ \/ outcome' = "wrong"
     \/ c \in Accepts /\ outcome' = "solved"

\* The attempt ends without an answer.
GiveUp ==
  /\ outcome = "open"
  /\ outcome' = "unanswered"
  /\ UNCHANGED answer

Next == GiveUp \/ \E c \in Values : Answer(c)

Spec == Init /\ [][Next]_<<outcome, answer>>
=============================================================================
