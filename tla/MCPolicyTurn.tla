---------------------------- MODULE MCPolicyTurn ----------------------------
(* A library of three cards: two texts that retrieve the same cards, one     *)
(* that retrieves others, one that finds nothing and the empty text.         *)
EXTENDS PolicyTurn, TLC

MCLibrary == <<"xor", "decoy", "symbol">>

MCScore(text, card) ==
  CASE text = "rodata" /\ card = "decoy" -> 3
    [] text \in {"encode", "transform"} -> IF card = "xor" THEN 2 ELSE 1
    [] OTHER -> 0

Ranking == INSTANCE Retrieval
             WITH Library <- MCLibrary, Score <- MCScore, EmptyText <- NoText, K <- 2

MCCards == Range(MCLibrary)
MCRetrieved(text) == Ranking!RetrieveScored(text)
=============================================================================
