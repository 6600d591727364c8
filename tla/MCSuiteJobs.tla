----------------------------- MODULE MCSuiteJobs -----------------------------
(* SuiteJobs on a small instance: two executors contend for a job of two      *)
(* scenarios, with any interleaving of calls, takeovers and cancellations.    *)
EXTENDS SuiteJobs
=============================================================================
