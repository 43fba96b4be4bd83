------------------------------ MODULE Retrieval ------------------------------
(***************************************************************************)
(* The retrieval of pattern cards: retrieve_scored of harness/agent/       *)
(* retrieval.py over a library and the BM25 scores of its cards.           *)
(***************************************************************************)
EXTENDS Integers, Sequences, FiniteSets

CONSTANTS
  Library,       \* the cards, in the order of the file
  Score(_, _),   \* Score(text, card): a natural number that orders like the score
  EmptyText,     \* the text of no characters
  K              \* cards retrieved at most

Evidence(text) == \E i \in DOMAIN Library : Score(text, Library[i]) > 0

\* Best first; equal scores keep the order of the library.
RanksBefore(text, i, j) ==
  LET Si == Score(text, Library[i])
      Sj == Score(text, Library[j])
  IN Si > Sj \/ (Si = Sj /\ i < j)

RankOf(text, i) == 1 + Cardinality({j \in DOMAIN Library : RanksBefore(text, j, i)})

AtRank(text, r) == Library[CHOOSE i \in DOMAIN Library : RankOf(text, i) = r]

\* The first K cards of the ranking, those without a score of their own included, once
\* one card of the library has one.
RetrieveScored(text) ==
  IF K <= 0 \/ text = EmptyText \/ ~Evidence(text) THEN <<>>
  ELSE [r \in {n \in DOMAIN Library : n <= K} |-> AtRank(text, r)]
=============================================================================
