------------------------------ MODULE SuiteJobs ------------------------------
(***************************************************************************)
(* The durable record of one suite job: the row of worker_worlds.suite_jobs, *)
(* its rows of suite_job_scenarios and its rows of suite_run_evidence, and   *)
(* every method of PostgresSuiteJobRepository that writes them.              *)
(*                                                                           *)
(* A caller is a repository instance, known by the executor id it drew when  *)
(* it was built.  Nothing is assumed of the callers: any of them may call    *)
(* any method at any moment with any argument, which is what the fencing in  *)
(* the WHERE clauses has to survive.  A method that refuses (returns False   *)
(* or raises) writes nothing and is a stuttering step.                       *)
(*                                                                           *)
(* Each method is one transaction, taken as atomic.  finalize_abandoned_     *)
(* cancellation runs two and is two actions.                                 *)
(***************************************************************************)
EXTENDS Integers, FiniteSets

CONSTANTS
  Scenario,      \* the scenarios of the job's suite
  Executor,      \* executor ids of repository instances
  Run,           \* run ids
  None,          \* SQL NULL
  MaxAttempts,   \* bound: attempts of one scenario
  MaxRevision    \* bound: no claim once the revision has reached it

ASSUME ScenarioAssumption == IsFiniteSet(Scenario)
ASSUME NoneAssumption == None \notin Executor \cup Run
ASSUME BoundAssumption == MaxAttempts \in Nat /\ MaxRevision \in Nat

VARIABLES
  state,            \* suite_jobs.state
  cancelRequested,  \* suite_jobs.cancel_requested
  owner,            \* suite_jobs.executor_id
  lease,            \* suite_jobs.executor_expires_at, against the clock
  completed,        \* suite_jobs.completed_scenarios
  passed,           \* suite_jobs.passed_scenarios
  failed,           \* suite_jobs.failed_scenarios
  revision,         \* suite_jobs.revision
  path,             \* suite_jobs.suite_record_path: whose publication, or None
  row,              \* suite_job_scenarios.state
  attempts,         \* suite_job_scenarios.attempts
  runId,            \* suite_job_scenarios.run_id
  evidence          \* suite_run_evidence: registered (scenario, run) pairs

ownership == <<owner, lease>>
counters == <<completed, passed, failed>>
rows == <<row, attempts, runId>>
jobVars == <<state, cancelRequested, owner, lease, completed, passed, failed,
             revision, path, row, attempts, runId, evidence>>

-----------------------------------------------------------------------------
(* Types *)

JobState == {"queued", "running", "cancelling", "cancelled", "completed", "failed"}
Terminal == {"cancelled", "completed", "failed"}
Active == {"running", "cancelling"}

Result == {"passed", "failed", "error"}
RowState == Result \cup {"pending", "running", "cancelled"}

\* NULL, in the future, or not in the future.
Lease == {"none", "live", "expired"}

TypeOK ==
  /\ state \in JobState
  /\ cancelRequested \in BOOLEAN
  /\ owner \in Executor \cup {None}
  /\ lease \in Lease
  /\ completed \in Nat
  /\ passed \in Nat
  /\ failed \in Nat
  /\ revision \in Nat
  /\ path \in Executor \cup {None}
  /\ row \in [Scenario -> RowState]
  /\ attempts \in [Scenario -> Nat]
  /\ runId \in [Scenario -> Run \cup {None}]
  /\ evidence \subseteq Scenario \X Run

-----------------------------------------------------------------------------
(* Helpers *)

\* The scenarios whose row, in the table r, is in one of the states S.
RowsIn(r, S) == {s \in Scenario : r[s] \in S}

\* SELECT count(*) FROM suite_job_scenarios WHERE state IN S.
Count(r, S) == Cardinality(RowsIn(r, S))

\* UPDATE suite_job_scenarios SET state=to WHERE state IN S.
SetRows(S, to) == [s \in Scenario |-> IF row[s] \in S THEN to ELSE row[s]]

\* executor_expires_at IS NULL OR executor_expires_at <= now.
LeaseOver == lease # "live"

Registered(r) == \E s \in Scenario : <<s, r>> \in evidence

-----------------------------------------------------------------------------
(* The job as create() leaves it: queued, every scenario pending. *)

Init ==
  /\ state = "queued"
  /\ cancelRequested = FALSE
  /\ owner = None
  /\ lease = "none"
  /\ completed = 0
  /\ passed = 0
  /\ failed = 0
  /\ revision = 0
  /\ path = None
  /\ row = [s \in Scenario |-> "pending"]
  /\ attempts = [s \in Scenario |-> 0]
  /\ runId = [s \in Scenario |-> None]
  /\ evidence = {}

-----------------------------------------------------------------------------
(* Ownership: claim, heartbeat, expiry *)

\* Queued work, or running work whose lease is over: then the rows the former
\* executor left running go back to pending.
ClaimableWhenOver == state = "queued" \/ LeaseOver   \* mutant: any state
Claimable == state = "queued" \/ (state = "running" /\ LeaseOver)

RowsKept == row                                      \* mutant: nothing is reset
ClaimedRows == IF state = "running" THEN SetRows({"running"}, "pending") ELSE row

Claim(e) ==
  /\ Claimable
  /\ revision < MaxRevision
  /\ state' = "running"
  /\ row' = ClaimedRows
  /\ owner' = e
  /\ lease' = "live"
  /\ revision' = revision + 1
  /\ UNCHANGED <<cancelRequested, completed, passed, failed, path, attempts,
                 runId, evidence>>

\* The owner of an active job; the expiry is not consulted, so an executor that
\* nobody replaced revives its own expired lease.
Owns(e) == owner = e /\ state \in Active

Heartbeat(e) ==
  /\ Owns(e)
  /\ lease' = "live"
  /\ UNCHANGED <<state, cancelRequested, owner, completed, passed, failed,
                 revision, path, row, attempts, runId, evidence>>

\* The clock passes executor_expires_at.
LeaseExpires ==
  /\ lease = "live"
  /\ lease' = "expired"
  /\ UNCHANGED <<state, cancelRequested, owner, completed, passed, failed,
                 revision, path, row, attempts, runId, evidence>>

-----------------------------------------------------------------------------
(* Scenario progress *)

MayRecordUnfenced(e) == state = "running"             \* mutant: any executor

\* The job still lets e record results.
MayRecord(e) == state = "running" /\ owner = e

\* The job still lets e begin an attempt.
MayAttempt(e) == MayRecord(e) /\ ~cancelRequested

CanStart(e, s) == row[s] = "pending" /\ MayAttempt(e)

ScenarioStarted(e, s) ==
  /\ CanStart(e, s)
  /\ attempts[s] < MaxAttempts
  /\ row' = [row EXCEPT ![s] = "running"]
  /\ attempts' = [attempts EXCEPT ![s] = @ + 1]
  /\ UNCHANGED <<state, cancelRequested, owner, lease, completed, passed, failed,
                 revision, path, runId, evidence>>

CanRetry(e, s) == row[s] = "running" /\ MayAttempt(e)

ScenarioRetrying(e, s) ==
  /\ CanRetry(e, s)
  /\ attempts[s] < MaxAttempts
  /\ attempts' = [attempts EXCEPT ![s] = @ + 1]
  /\ UNCHANGED <<state, cancelRequested, owner, lease, completed, passed, failed,
                 revision, path, row, runId, evidence>>

\* INSERT ... SELECT ... ON CONFLICT (suite_job_id, run_id) DO NOTHING.
CanRegister(e, r) == MayRecord(e) /\ ~Registered(r)

\* Mutant: one registration per job, the latest.
RegisterLatest(e, s, r) ==
  /\ CanRegister(e, r)
  /\ evidence' = {<<s, r>>}
  /\ UNCHANGED <<state, cancelRequested, owner, lease, completed, passed, failed,
                 revision, path, row, attempts, runId>>

RegisterRunEvidence(e, s, r) ==
  /\ CanRegister(e, r)
  /\ evidence' = evidence \cup {<<s, r>>}
  /\ UNCHANGED <<state, cancelRequested, owner, lease, completed, passed, failed,
                 revision, path, row, attempts, runId>>

CanFinishAnyRow(e, s) == MayRecord(e)                 \* mutant: any row
CanFinish(e, s) == row[s] = "running" /\ MayRecord(e)

ScenarioFinished(e, s, status, r) ==
  /\ CanFinish(e, s)
  /\ row' = [row EXCEPT ![s] = status]
  /\ runId' = [runId EXCEPT ![s] = r]
  /\ completed' = completed + 1
  /\ passed' = IF status = "passed" THEN passed + 1 ELSE passed
  /\ failed' = IF status = "passed" THEN failed ELSE failed + 1
  /\ revision' = revision + 1
  /\ UNCHANGED <<state, cancelRequested, owner, lease, path, attempts, evidence>>

-----------------------------------------------------------------------------
(* Cancellation and termination *)

\* Mutant: the flag is set whatever the state.
RequestCancelAlways ==
  /\ cancelRequested' = TRUE
  /\ IF state \in {"queued", "running"}
       THEN /\ state' = IF state = "queued" THEN "cancelled" ELSE "cancelling"
            /\ revision' = revision + 1
       ELSE UNCHANGED <<state, revision>>
  /\ row' = SetRows({"pending"}, "cancelled")
  /\ UNCHANGED <<owner, lease, completed, passed, failed, path, attempts, runId,
                 evidence>>

\* The job row moves only while queued or running; pending rows are cancelled
\* whatever the state of the job.
RequestCancel ==
  /\ IF state \in {"queued", "running"}
       THEN /\ state' = IF state = "queued" THEN "cancelled" ELSE "cancelling"
            /\ cancelRequested' = TRUE
            /\ revision' = revision + 1
       ELSE UNCHANGED <<state, cancelRequested, revision>>
  /\ row' = SetRows({"pending"}, "cancelled")
  /\ UNCHANGED <<owner, lease, completed, passed, failed, path, attempts, runId,
                 evidence>>

\* First transaction of finalize_abandoned_cancellation; the second is
\* Finish(e, FALSE).
CanTakeOverAny == LeaseOver                           \* mutant: any state
CanTakeOver == state = "cancelling" /\ LeaseOver

TakeOverCancellation(e) ==
  /\ CanTakeOver
  /\ owner' = e
  /\ lease' = "live"
  /\ UNCHANGED <<state, cancelRequested, completed, passed, failed, revision,
                 path, row, attempts, runId, evidence>>

CanEnd(e) == state \notin Terminal /\ owner = e

ClosedAsJob(target) == SetRows({"pending", "running"}, target)   \* mutant
ClosedRunning(target) ==                                         \* mutant
  IF target = "failed" THEN SetRows({"running"}, "error") ELSE row
\* Rows still open when the job ends badly are closed with it.
ClosedRows(target) ==
  CASE target = "cancelled" -> SetRows({"pending", "running"}, "cancelled")
    [] target = "failed" -> SetRows({"pending", "running"}, "error")
    [] target = "completed" -> row

Finish(e, raised) ==
  /\ CanEnd(e)
  /\ state' = IF cancelRequested THEN "cancelled"
              ELSE IF raised THEN "failed" ELSE "completed"
  /\ owner' = None
  /\ lease' = "none"
  /\ path' = None
  /\ row' = ClosedRows(state')
  /\ completed' = Count(row', Result)
  /\ passed' = Count(row', {"passed"})
  /\ failed' = Count(row', {"failed", "error"})
  /\ revision' = revision + 1
  /\ UNCHANGED <<cancelRequested, attempts, runId, evidence>>

CanAttachAgain == state \in Terminal                  \* mutant: rewrites the path
CanAttachEarly == path = None                         \* mutant: before the end
CanAttach == state \in Terminal /\ path = None

AttachEvidence(e) ==
  /\ CanAttach
  /\ path' = e
  /\ UNCHANGED <<state, cancelRequested, owner, lease, completed, passed, failed,
                 revision, row, attempts, runId, evidence>>

-----------------------------------------------------------------------------
Next ==
  \/ \E e \in Executor : Claim(e)
  \/ \E e \in Executor : Heartbeat(e)
  \/ LeaseExpires
  \/ \E e \in Executor, s \in Scenario : ScenarioStarted(e, s)
  \/ \E e \in Executor, s \in Scenario : ScenarioRetrying(e, s)
  \/ \E e \in Executor, s \in Scenario, r \in Run : RegisterRunEvidence(e, s, r)
  \/ \E e \in Executor, s \in Scenario, status \in Result, r \in Run :
       ScenarioFinished(e, s, status, r)
  \/ RequestCancel
  \/ \E e \in Executor : TakeOverCancellation(e)
  \/ \E e \in Executor, raised \in BOOLEAN : Finish(e, raised)
  \/ \E e \in Executor : AttachEvidence(e)

Spec == Init /\ [][Next]_jobVars

-----------------------------------------------------------------------------
(* Properties *)

\* request_cancel writes the cancellation flag and the state in different arms.
CancelFlagMatchesState ==
  cancelRequested <=> state \in {"cancelling", "cancelled"}

\* claim, finish and the takeovers write the owner, the lease and the state.
OwnedIffActive ==
  /\ (owner # None) <=> state \in Active
  /\ (lease = "none") <=> state \notin Active

\* Evidence is attached to terminal jobs only.
PublishedOnlyWhenTerminal == path # None => state \in Terminal

\* The columns that say who may do what to a job never disagree, though half of
\* the methods read one and half another: the cancellation flag, which
\* scenario_started, scenario_retrying and finish decide by, agrees with the
\* state; a job has an executor and a lease exactly while it is active, so that
\* no terminal job is heartbeaten for ever and no active one is left to nobody;
\* and no evidence is attached to a job that may still change.
ControlInv ==
  /\ CancelFlagMatchesState
  /\ OwnedIffActive
  /\ PublishedOnlyWhenTerminal

\* The aggregate columns, incremented one scenario at a time by
\* scenario_finished and recomputed by finish, always equal the number of rows
\* in the states they count, whatever was reset, retried or cancelled between.
ProgressMatchesRows ==
  /\ completed = Count(row, Result)
  /\ passed = Count(row, {"passed"})
  /\ failed = Count(row, {"failed", "error"})

\* No row is left behind by its job: none is pending once cancellation began,
\* none is open after a cancelled or failed end, none was touched while queued,
\* and none is cancelled while the job still runs.
RowsFollowJob ==
  /\ state = "queued" => RowsIn(row, {"pending"}) = Scenario
  /\ state = "running" => RowsIn(row, {"cancelled"}) = {}
  /\ state = "cancelling" => RowsIn(row, {"pending"}) = {}
  /\ state \in {"cancelled", "failed"} => RowsIn(row, {"pending", "running"}) = {}

\* A stored verdict names its run and cost at least one attempt; only a failed
\* end writes 'error' for a scenario that has neither.
VerdictsHaveRuns ==
  \A s \in Scenario :
    /\ row[s] \in {"passed", "failed"} => runId[s] # None /\ attempts[s] > 0
    /\ row[s] = "error" => runId[s] # None \/ state = "failed"
    /\ row[s] = "running" => attempts[s] > 0

\* docs/operations.md: "Progress updates are transactional and monotonic".  No
\* method lowers a counter, not even finish, which recomputes them all, nor a
\* takeover, which resets rows.
ProgressMonotonic ==
  [][/\ completed' >= completed
     /\ passed' >= passed
     /\ failed' >= failed
     /\ revision' >= revision]_jobVars

\* A scenario's verdict and the run that gave it are final: no takeover, retry,
\* cancellation or end of the job rewrites them.
VerdictsAreFinal ==
  [][\A s \in Scenario :
       row[s] \in Result => row'[s] = row[s] /\ runId'[s] = runId[s]]_jobVars

\* Once terminal, a job keeps its state, its counters, its runs and its evidence,
\* and the publication is attached once and never moved.  Its rows stay too, but
\* for request_cancel, which writes them whatever the state of the job: that can
\* cancel a row which an executor that judged too little left pending in a
\* completed job, and no other row of any finished job.
TerminalIsFinal ==
  [][(state \in Terminal) =>
       /\ UNCHANGED <<state, cancelRequested, completed, passed, failed, revision,
                      attempts, runId, evidence, ownership>>
       /\ path # None => path' = path
       /\ \A s \in Scenario :
            row'[s] # row[s] =>
              state = "completed" /\ row[s] = "pending" /\ row'[s] = "cancelled"
    ]_jobVars

\* A reader who sees an unchanged revision sees the same state and the same
\* progress: every change of either comes with a new revision.
RevisionCoversProgress ==
  [][revision' = revision =>
       UNCHANGED <<state, cancelRequested, completed, passed, failed, runId>>]_jobVars

-----------------------------------------------------------------------------
(* The promise the repository keeps: module JobLifecycle *)

\* The state column names the phases a client knows.
PhaseOf == [queued |-> "waiting", running |-> "active", cancelling |-> "stopping",
            cancelled |-> "cancelled", completed |-> "completed", failed |-> "failed"]

\* A row without a result is open, whether it waits, runs or was cancelled.
VerdictOf(r) == [s \in Scenario |-> IF r[s] \in Result THEN r[s] ELSE "open"]

Lifecycle == INSTANCE JobLifecycle WITH
  phase <- PhaseOf[state],
  verdict <- VerdictOf(row),
  progress <- [completed |-> completed, passed |-> passed, failed |-> failed],
  published <- path # None

\* Whoever calls the repository and in whatever order, a client sees a job that
\* begins once, ends once, never loses or changes a verdict and never shows a
\* progress other than the tally of its verdicts.
KeepsLifecycle == Lifecycle!Spec

=============================================================================
