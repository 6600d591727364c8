------------------------------ MODULE RunLease ------------------------------
(***************************************************************************)
(* The private database schema of one run and the lease that protects it   *)
(* (PostgresWorld and JsonPostgresWorld: reset, _renew_lease, close;       *)
(* database.cleanup_abandoned).  The schema and its lease row are created  *)
(* in one transaction; a task of the run renews the lease and dies at the  *)
(* first database error; an operator's cleanup drops the schemas whose     *)
(* lease expired, wherever their run may be.                               *)
(***************************************************************************)

VARIABLES
  schema,      \* the run's schema: "absent" or "live"
  lease,       \* its row of run_leases: "none", "current" or "expired"
  renewer      \* the renewal task: "off", "running" or "dead"

leaseVars == <<schema, lease, renewer>>

LeaseTypeOK ==
  /\ schema \in {"absent", "live"}
  /\ lease \in {"none", "current", "expired"}
  /\ renewer \in {"off", "running", "dead"}

LeaseInit ==
  /\ schema = "absent"
  /\ lease = "none"
  /\ renewer = "off"

\* reset: the lease row, the schema and its fixture in one transaction, then
\* the renewal task.
CreateWorld ==
  /\ schema' = "live"
  /\ lease' = "current"
  /\ renewer' = "running"

\* A renewal that arrives late still updates the row if no cleanup took it.
Renew ==
  /\ renewer = "running"
  /\ lease = "expired"
  /\ lease' = "current"
  /\ UNCHANGED <<schema, renewer>>

RenewalFails ==
  /\ renewer = "running"
  /\ renewer' = "dead"
  /\ UNCHANGED <<schema, lease>>

\* The renewal interval is shorter than the lease, yet a process that stalls
\* renews too late, and one whose renewal task died never does.
LeaseExpires ==
  /\ lease = "current"
  /\ lease' = "expired"
  /\ UNCHANGED <<schema, renewer>>

CleanupAbandoned ==
  /\ lease = "expired"
  /\ schema' = "absent"
  /\ lease' = "none"
  /\ UNCHANGED renewer

\* close awaits the renewal task first: the error that killed it comes back
\* here, before anything is dropped.  A world that was created can also meet a
\* database error while it drops.
CloseRaises ==
  /\ renewer # "off"
  /\ renewer' = IF renewer = "dead" THEN "dead" ELSE "off"
  /\ UNCHANGED <<schema, lease>>

\* A world that never was has nothing to drop.
CloseDrops ==
  /\ renewer # "dead"
  /\ schema' = "absent"
  /\ lease' = "none"
  /\ renewer' = "off"
=============================================================================
