--------------------------- MODULE MCSuiteService ---------------------------
(* SuiteService on small instances.  The ids, the runs and the two counters    *)
(* that SuiteJobs bounds are given the values the other bounds imply, so that   *)
(* no step is ever refused for a bound: a job is claimed once, and again after  *)
(* each crash, stall or fault, and each claim attempts a scenario Retries + 1   *)
(* times.                                                                       *)
EXTENDS SuiteService, TLC

MCExecutor == Process \X (0..MaxCrashes) \X Role
MCClaims == 1 + MaxCrashes * Cardinality(Process) + MaxStalls + MaxFaults
MCMaxAttempts == MCClaims * (Retries + 1)
MCMaxRevision == MCClaims + Cardinality(Scenario) + 2
MCRun == Scenario \X (1..MCMaxAttempts) \X AllOutcomes

\* Processes run the same code, and no run of the safety checks names one.
Symmetry == Permutations(Process)
=============================================================================
