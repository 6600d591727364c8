--------------------------- MODULE MCScriptedRuns ---------------------------
(* Every scenario of the three libraries. *)
EXTENDS ScriptedRuns

MCScenarios == SupplyScenarios \o ClaimScenarios \o CommerceScenarios

=============================================================================
