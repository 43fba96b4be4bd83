---------------------------- MODULE MCAgentLoop -----------------------------
(***************************************************************************)
(* Instances of AgentLoop for TLC.  The levels are a stub here, they pass  *)
(* an entry exactly if it says enough: what they compute is the business   *)
(* of MCSubmissionGate.                                                    *)
(***************************************************************************)
EXTENDS Metrics

Listing == {"listing"}
MCOutputs == {Listing}

StubConsumerObserved(text, cited, view) == text = "full"
StubGuardsAccounted(text, reasoning, view) == TRUE
=============================================================================
