----------------------------- MODULE SuiteService -----------------------------
(***************************************************************************)
(* The API processes that drive one suite job through SuiteJobs.  Each       *)
(* process has                                                               *)
(*   - at most one DurableSuiteService task executing the job, with one      *)
(*     child task per scenario and a heartbeat task;                         *)
(*   - the recovery loop, which adopts queued work and expired leases,       *)
(*     finalizes abandoned cancellations and publishes missing evidence;     *)
(*   - a DELETE handler, which persists a cancellation, propagates it to the *)
(*     task and publishes the evidence of a job cancelled while queued.      *)
(* They run on one event loop per process, so what happens between two       *)
(* awaits is one step; every await is a place where the others may act, a    *)
(* cancellation may be delivered or the process may die.                     *)
(*                                                                           *)
(* A database call that the caller never sees answered (cancelled in flight) *)
(* is the call followed by the cancellation at the next await.               *)
(***************************************************************************)
EXTENDS SuiteJobs

CONSTANTS
  Process,      \* API processes sharing the database and the artifact directory
  Outcome,      \* how a run can end, a subset of AllOutcomes
  Retries,      \* configuration "infrastructure_retries", clamped to 0..3
  Concurrency,  \* configuration "concurrency"
  MaxCrashes,   \* bound: crashes of each process
  MaxStalls,    \* bound: leases that lapse although their owner still beats
  MaxFaults,    \* bound: heartbeats that fail with a database error
  MaxCancels    \* bound: DELETE requests

\* "retryable" is the incomplete InfrastructureError, "error" any other
\* incomplete run, "cancelled" a run whose CancelledError the Runner recorded.
AllOutcomes == {"passed", "failed", "error", "retryable", "cancelled"}

\* Why a repository instance was built: by POST, by the recovery loop of a
\* process, by a DELETE that found no service.  Each draws a fresh id.
Role == {"post", "recovery", "delete"}

ASSUME OutcomeAssumption == "cancelled" \in Outcome /\ Outcome \subseteq AllOutcomes
ASSUME ExecutorAssumption == Executor = Process \X (0..MaxCrashes) \X Role
ASSUME RunAssumption == Run = Scenario \X (1..MaxAttempts) \X AllOutcomes
ASSUME ServiceAssumption ==
  /\ Retries \in 0..3
  /\ Concurrency \in 1..32
  /\ {MaxCrashes, MaxStalls, MaxFaults, MaxCancels} \subseteq Nat

VARIABLES
  up,       \* the process is running
  life,     \* how often it was restarted
  posted,   \* the POST handler has scheduled the job it created
  task,     \* DurableSuiteService._execute in each process
  child,    \* run_scenario, for each process and scenario
  beating,  \* the heartbeat task of the execution is alive
  loop,     \* recover_suite_jobs in each process
  delete,   \* the DELETE handler in each process
  pub,      \* the evidence bundle in each executor's publication directory
  stalls, faults, cancels   \* how much of the bounds is used

procVars == <<up, life>>
bounds == <<stalls, faults, cancels>>
serviceVars == <<up, life, posted, task, child, beating, loop, delete, pub,
                 stalls, faults, cancels>>
allVars == <<jobVars, serviceVars>>

-----------------------------------------------------------------------------
(* Types *)

TaskPc == {"off", "scheduled", "loading", "running", "stopping", "settling",
           "handling", "publishing", "attaching"}
ChildPc == {"none", "waiting", "executing", "produced", "registered", "done"}

NoTask == [pc |-> "off", exec |-> None, cause |-> "none", seen |-> "none"]
NoChild == [pc |-> "none", attempt |-> 0, tries |-> 0, run |-> None]
IdleLoop == [pc |-> "idle", seen |-> "none"]
IdleDelete == [pc |-> "idle", exec |-> None, service |-> FALSE, seen |-> "none"]

\* A publication: the job snapshot in its manifest and the runs in its bundle.
Bundle == [status : JobState, runs : SUBSET (Scenario \X Run)]

\* A directory without a bundle is not one with a bundle.
ASSUME BundleAssumption == None \notin Bundle

\* Each kind of task is typed by its record; seen is the status of the job
\* record it holds, cause what its exception handler will have caught.
ServiceTypeOK ==
  /\ TypeOK
  /\ up \in [Process -> BOOLEAN]
  /\ life \in [Process -> 0..MaxCrashes]
  /\ posted \in BOOLEAN
  /\ task \in [Process -> [pc : TaskPc, exec : Executor \cup {None},
                           cause : {"none", "cancelled", "error"},
                           seen : JobState \cup {"none"}]]
  /\ child \in [Process -> [Scenario -> [pc : ChildPc, attempt : 0..MaxAttempts,
                                         tries : 0..Retries,
                                         run : Run \cup {None}]]]
  /\ beating \in [Process -> BOOLEAN]
  /\ loop \in [Process -> [pc : {"idle", "adopting", "ending", "publishing", "attaching"},
                           seen : JobState \cup {"none"}]]
  /\ delete \in [Process -> [pc : {"idle", "requested", "publishing", "attaching"},
                             exec : Executor \cup {None}, service : BOOLEAN,
                             seen : JobState \cup {"none"}]]
  /\ \A e \in Executor : pub[e] = None \/ pub[e] \in Bundle
  /\ stalls \in 0..MaxStalls /\ faults \in 0..MaxFaults /\ cancels \in 0..MaxCancels

-----------------------------------------------------------------------------
(* Helpers *)

Id(p, role) == <<p, life[p], role>>

\* service.is_active: the process has a live task for the job.
IsActive(p) == task[p].pc # "off"

Goto(p, pc) == task' = [task EXCEPT ![p].pc = pc]

Catch(p, pc, cause) == task' = [task EXCEPT ![p].pc = pc, ![p].cause = cause]

\* The task is done: its finally block stops the heartbeat and forgets it.
ForgetTask(p) ==
  /\ task' = [task EXCEPT ![p] = NoTask]
  /\ child' = [child EXCEPT ![p] = [s \in Scenario |-> NoChild]]

StopBeating(p) == beating' = [beating EXCEPT ![p] = FALSE]

EndTask(p) == ForgetTask(p) /\ StopBeating(p)

AllDone(p) == \A s \in Scenario : child[p][s].pc = "done"

\* Child tasks inside the semaphore.
InSemaphore(p) ==
  {s \in Scenario : child[p][s].pc \in {"executing", "produced", "registered"}}

\* The statuses scenario_finished may store for a run: RunRecord.passed does not
\* look at the terminal reason, so a run that was cancelled is judged by the verdicts
\* on what it had done.
StatusesOf(outcome) ==
  CASE outcome = "passed" -> {"passed"}
    [] outcome = "failed" -> {"failed"}
    [] outcome \in {"error", "retryable"} -> {"error"}
    [] outcome = "cancelled" -> {"passed", "failed"}

\* task.cancel() on every child.  One inside Runner.run survives it: the Runner
\* turns the CancelledError into a record.  Any other ends at its current await.
Cancelled(c) == IF c.pc = "executing" THEN c ELSE [c EXCEPT !.pc = "done"]

Stop(p, cause) ==
  /\ Catch(p, "stopping", cause)
  /\ child' = [child EXCEPT ![p] = [s \in Scenario |-> Cancelled(child[p][s])]]

\* A CancelledError thrown into the execution task at its current await: while
\* its children run it stops them first, before or inside a handler it ends the
\* task, and while publishing too (the handler finds nothing left to do).
Interrupt(p) ==
  CASE task[p].pc \in {"loading", "settling"} ->
         Catch(p, "handling", "cancelled") /\ UNCHANGED child
    [] task[p].pc \in {"running", "stopping"} ->
         Stop(p, "cancelled")
    [] task[p].pc \in {"scheduled", "handling", "publishing", "attaching"} ->
         ForgetTask(p)
    [] task[p].pc = "off" -> UNCHANGED <<task, child>>

-----------------------------------------------------------------------------
(* A created job, processes up, recovery loops idle *)

ServiceInit ==
  /\ Init
  /\ up = [p \in Process |-> TRUE]
  /\ life = [p \in Process |-> 0]
  /\ posted = FALSE
  /\ task = [p \in Process |-> NoTask]
  /\ child = [p \in Process |-> [s \in Scenario |-> NoChild]]
  /\ beating = [p \in Process |-> FALSE]
  /\ loop = [p \in Process |-> IdleLoop]
  /\ delete = [p \in Process |-> IdleDelete]
  /\ pub = [e \in Executor |-> None]
  /\ stalls = 0 /\ faults = 0 /\ cancels = 0

-----------------------------------------------------------------------------
(* Scheduling and claiming *)

\* schedule_job: nothing if the process already has an active service.
Schedule(p, role) ==
  IF IsActive(p)
    THEN UNCHANGED task
    ELSE task' = [task EXCEPT ![p] = [NoTask EXCEPT !.pc = "scheduled",
                                                    !.exec = Id(p, role)]]

\* The POST handler, after create().
Post(p) ==
  /\ up[p] /\ ~posted
  /\ posted' = TRUE
  /\ Schedule(p, "post")
  /\ UNCHANGED <<jobVars, procVars, child, beating, loop, delete, pub, bounds>>

TaskClaim(p) ==
  /\ task[p].pc = "scheduled"
  /\ IF Claimable
       THEN /\ Claim(task[p].exec)
            /\ Goto(p, "loading")
            /\ beating' = [beating EXCEPT ![p] = TRUE]
            /\ UNCHANGED child
       ELSE /\ EndTask(p)
            /\ UNCHANGED jobVars
  /\ UNCHANGED <<procVars, posted, loop, delete, pub, bounds>>

\* get(), the stored records, and one child task per scenario; an invalid stored
\* record or a budget of too few scenarios raises.
TaskLoad(p) ==
  /\ task[p].pc = "loading"
  /\ \/ /\ Goto(p, "running")
        /\ child' = [child EXCEPT ![p] =
                       [s \in Scenario |-> [NoChild EXCEPT !.pc = "waiting"]]]
     \/ Catch(p, "handling", "error") /\ UNCHANGED child
  /\ UNCHANGED <<jobVars, procVars, posted, beating, loop, delete, pub, bounds>>

-----------------------------------------------------------------------------
(* run_scenario *)

InExecution(p) == task[p].pc \in {"running", "stopping"}

Become(p, s, c) == child' = [child EXCEPT ![p][s] = c]

\* A child task raises: gather fails and the others are cancelled.  If they were
\* being stopped already because the execution was cancelled, gather may report
\* this exception in place of the CancelledError.
Raise(p, s) ==
  IF task[p].pc = "running"
    THEN Stop(p, "error")
    ELSE /\ Become(p, s, [child[p][s] EXCEPT !.pc = "done"])
         /\ \/ task[p].cause = "cancelled" /\ UNCHANGED task
            \/ Catch(p, "stopping", "error")

\* scenario_started, under the semaphore; a refusal ends the child silently.
ChildStart(p, s) ==
  /\ task[p].pc = "running"
  /\ child[p][s].pc = "waiting"
  /\ Cardinality(InSemaphore(p)) < Concurrency
  /\ IF CanStart(task[p].exec, s)
       THEN /\ ScenarioStarted(task[p].exec, s)
            /\ Become(p, s, [child[p][s] EXCEPT !.pc = "executing",
                                                !.attempt = attempts'[s]])
       ELSE /\ Become(p, s, [child[p][s] EXCEPT !.pc = "done"])
            /\ UNCHANGED jobVars
  /\ UNCHANGED <<procVars, posted, task, beating, loop, delete, pub, bounds>>

\* Runner.run returns a record and the reporter writes it.  A run reached by a
\* cancellation is recorded as cancelled, or as incomplete, and goes on.
ChildProduce(p, s) ==
  /\ child[p][s].pc = "executing"
  /\ \E outcome \in IF task[p].pc = "running" THEN Outcome \ {"cancelled"}
                    ELSE Outcome \cap {"cancelled", "error"} :
       Become(p, s, [child[p][s] EXCEPT !.pc = "produced",
                                        !.run = <<s, child[p][s].attempt, outcome>>])
  /\ UNCHANGED <<jobVars, procVars, posted, task, beating, loop, delete, pub, bounds>>

ChildRegister(p, s) ==
  /\ child[p][s].pc = "produced"
  /\ LET e == task[p].exec
         r == child[p][s].run
     IN  IF CanRegister(e, r)
           THEN /\ RegisterRunEvidence(e, s, r)
                /\ Become(p, s, [child[p][s] EXCEPT !.pc = "registered"])
                /\ UNCHANGED task
           ELSE Raise(p, s) /\ UNCHANGED jobVars
  /\ UNCHANGED <<procVars, posted, beating, loop, delete, pub, bounds>>

RetryableOnceMore(c) ==                               \* mutant: off by one
  c.run[3] = "retryable" /\ c.tries <= Retries
Retryable(c) == c.run[3] = "retryable" /\ c.tries < Retries

ChildRetry(p, s) ==
  /\ child[p][s].pc = "registered"
  /\ Retryable(child[p][s])
  /\ IF CanRetry(task[p].exec, s)
       THEN /\ ScenarioRetrying(task[p].exec, s)
            /\ Become(p, s, [pc |-> "executing", attempt |-> attempts'[s],
                             tries |-> child[p][s].tries + 1, run |-> None])
            /\ UNCHANGED task
       ELSE Raise(p, s) /\ UNCHANGED jobVars
  /\ UNCHANGED <<procVars, posted, beating, loop, delete, pub, bounds>>

ChildFinish(p, s) ==
  /\ child[p][s].pc = "registered"
  /\ ~Retryable(child[p][s])
  /\ LET e == task[p].exec
         r == child[p][s].run
     IN  IF CanFinish(e, s)
           THEN /\ \E status \in StatusesOf(r[3]) : ScenarioFinished(e, s, status, r)
                /\ Become(p, s, [child[p][s] EXCEPT !.pc = "done"])
                /\ UNCHANGED task
           ELSE Raise(p, s) /\ UNCHANGED jobVars
  /\ UNCHANGED <<procVars, posted, beating, loop, delete, pub, bounds>>

\* account() finds an aggregate budget exceeded once the run is registered.
BudgetExceeded(p, s) ==
  /\ child[p][s].pc = "registered"
  /\ Raise(p, s)
  /\ UNCHANGED <<jobVars, procVars, posted, beating, loop, delete, pub, bounds>>

\* The cancellation reaches a child in the worker factory, in the cleanup of its
\* world or in the reporter, where nothing records it.
ChildKilled(p, s) ==
  /\ task[p].pc = "stopping"
  /\ child[p][s].pc = "executing"
  /\ Become(p, s, [child[p][s] EXCEPT !.pc = "done"])
  /\ UNCHANGED <<jobVars, procVars, posted, task, beating, loop, delete, pub, bounds>>

\* The deadline of the suite budget: wait_for cancels the children.
DeadlineExpires(p) ==
  /\ task[p].pc = "running"
  /\ Stop(p, "error")
  /\ UNCHANGED <<jobVars, procVars, posted, beating, loop, delete, pub, bounds>>

\* gather returns, or the stopped children have all ended.
ChildrenDone(p) ==
  /\ InExecution(p)
  /\ AllDone(p)
  /\ Goto(p, IF task[p].pc = "running" THEN "settling" ELSE "handling")
  /\ UNCHANGED <<jobVars, procVars, posted, child, beating, loop, delete, pub, bounds>>

-----------------------------------------------------------------------------
(* Ending the execution and publishing its evidence *)

\* finish() after gather; a refusal raises into the Exception handler.
TaskSettle(p) ==
  /\ task[p].pc = "settling"
  /\ IF CanEnd(task[p].exec)
       THEN /\ Finish(task[p].exec, FALSE)
            /\ task' = [task EXCEPT ![p].pc = "publishing", ![p].seen = state']
       ELSE /\ Catch(p, "handling", "error")
            /\ UNCHANGED jobVars
  /\ UNCHANGED <<procVars, posted, child, beating, loop, delete, pub, bounds>>

\* The CancelledError handler finishes only a job whose cancellation was
\* requested, the Exception handler any that is not terminal.  A refusal ends the
\* task.  (Each reads the job first; neither fact it reads is ever undone.)
TaskHandle(p) ==
  /\ task[p].pc = "handling"
  /\ LET wants == IF task[p].cause = "cancelled" THEN cancelRequested
                  ELSE state \notin Terminal
     IN  IF wants /\ CanEnd(task[p].exec)
           THEN /\ Finish(task[p].exec, task[p].cause = "error")
                /\ task' = [task EXCEPT ![p].pc = "publishing", ![p].seen = state']
                /\ UNCHANGED <<child, beating>>
           ELSE EndTask(p) /\ UNCHANGED jobVars
  /\ UNCHANGED <<procVars, posted, loop, delete, pub, bounds>>

\* ensure_terminal_evidence up to the bundle: the registered runs and the job
\* snapshot of the caller, in the directory of the caller's executor id.
Publish(e, seen) == pub' = [pub EXCEPT ![e] = [status |-> seen, runs |-> evidence]]

\* attach_evidence: no row matches unless the job is terminal and unpublished.
Attach(e) == IF CanAttach THEN AttachEvidence(e) ELSE UNCHANGED jobVars

TaskPublish(p) ==
  /\ task[p].pc = "publishing"
  /\ Publish(task[p].exec, task[p].seen)
  /\ Goto(p, "attaching")
  /\ UNCHANGED <<jobVars, procVars, posted, child, beating, loop, delete, bounds>>

TaskAttach(p) ==
  /\ task[p].pc = "attaching"
  /\ Attach(task[p].exec)
  /\ EndTask(p)
  /\ UNCHANGED <<procVars, posted, loop, delete, pub, bounds>>

-----------------------------------------------------------------------------
(* The heartbeat task *)

HeartbeatRenews(p) ==
  /\ beating[p]
  /\ Owns(task[p].exec)
  /\ lease = "expired"     \* otherwise nothing that is modelled changes
  /\ Heartbeat(task[p].exec)
  /\ UNCHANGED serviceVars

\* The lease is another's or the job has ended: the execution is cancelled.
HeartbeatLost(p) ==
  /\ beating[p]
  /\ ~Owns(task[p].exec)
  /\ Interrupt(p)
  /\ StopBeating(p)
  /\ UNCHANGED <<jobVars, procVars, posted, loop, delete, pub, bounds>>

\* A database error counts as a lost lease.
HeartbeatFails(p) ==
  /\ beating[p]
  /\ faults < MaxFaults
  /\ faults' = faults + 1
  /\ Interrupt(p)
  /\ StopBeating(p)
  /\ UNCHANGED <<jobVars, procVars, posted, loop, delete, pub, stalls, cancels>>

\* Something in a live process still holds the lease: a heartbeat, or the moment
\* between the two transactions of finalize_abandoned_cancellation.
OwnerAlive ==
  \E p \in Process :
    \/ beating[p] /\ task[p].exec = owner
    \/ loop[p].pc = "ending" /\ owner = Id(p, "recovery")

\* A lease lapses once nobody holds it; while somebody does, only if that process
\* stalls (a blocked event loop, a long database outage).
LeaseLapses ==
  /\ LeaseExpires
  /\ IF OwnerAlive THEN stalls < MaxStalls /\ stalls' = stalls + 1
                   ELSE UNCHANGED stalls
  /\ UNCHANGED <<procVars, posted, task, child, beating, loop, delete, pub, faults,
                 cancels>>

-----------------------------------------------------------------------------
(* recover_suite_jobs: one loop per process, one executor id per loop.  Both    *)
(* queries of an iteration are made from "idle"; an exception returns to it.    *)

RunnableOnly == state = "queued" \/ (state = "running" /\ LeaseOver)   \* mutant
Recoverable == state = "queued" \/ (state \in Active /\ LeaseOver)

LoopRecovers(p) ==
  /\ up[p] /\ loop[p].pc = "idle"
  /\ Recoverable
  /\ IF state = "cancelling"
       THEN /\ loop' = [loop EXCEPT ![p].pc = "adopting"]
            /\ UNCHANGED task
       ELSE /\ ~IsActive(p)     \* otherwise nothing changes
            /\ Schedule(p, "recovery")
            /\ UNCHANGED loop
  /\ UNCHANGED <<jobVars, procVars, posted, child, beating, delete, pub, bounds>>

\* finalize_abandoned_cancellation, first transaction; if it matches no row the
\* job is returned as it is, and published as it is.
LoopAdopts(p) ==
  /\ loop[p].pc = "adopting"
  /\ IF CanTakeOver
       THEN /\ TakeOverCancellation(Id(p, "recovery"))
            /\ loop' = [loop EXCEPT ![p].pc = "ending"]
       ELSE /\ loop' = [loop EXCEPT ![p] = [pc |-> "publishing", seen |-> state]]
            /\ UNCHANGED jobVars
  /\ UNCHANGED <<procVars, posted, task, child, beating, delete, pub, bounds>>

\* Its second transaction.
LoopEnds(p) ==
  /\ loop[p].pc = "ending"
  /\ IF CanEnd(Id(p, "recovery"))
       THEN /\ Finish(Id(p, "recovery"), FALSE)
            /\ loop' = [loop EXCEPT ![p] = [pc |-> "publishing", seen |-> state']]
       ELSE /\ loop' = [loop EXCEPT ![p] = IdleLoop]
            /\ UNCHANGED jobVars
  /\ UNCHANGED <<procVars, posted, task, child, beating, delete, pub, bounds>>

\* terminal_without_evidence.
LoopFindsUnpublished(p) ==
  /\ up[p] /\ loop[p].pc = "idle"
  /\ CanAttach
  /\ loop' = [loop EXCEPT ![p] = [pc |-> "publishing", seen |-> state]]
  /\ UNCHANGED <<jobVars, procVars, posted, task, child, beating, delete, pub, bounds>>

LoopPublishes(p) ==
  /\ loop[p].pc = "publishing"
  /\ Publish(Id(p, "recovery"), loop[p].seen)
  /\ loop' = [loop EXCEPT ![p].pc = "attaching"]
  /\ UNCHANGED <<jobVars, procVars, posted, task, child, beating, delete, bounds>>

LoopAttaches(p) ==
  /\ loop[p].pc = "attaching"
  /\ Attach(Id(p, "recovery"))
  /\ loop' = [loop EXCEPT ![p] = IdleLoop]
  /\ UNCHANGED <<procVars, posted, task, child, beating, delete, pub, bounds>>

-----------------------------------------------------------------------------
(* DELETE: persist the cancellation, then propagate it, then publish what was   *)
(* cancelled while queued.                                                      *)

DeletePersists(p) ==
  /\ up[p] /\ delete[p].pc = "idle"
  /\ cancels < MaxCancels
  /\ cancels' = cancels + 1
  /\ RequestCancel
  /\ delete' = [delete EXCEPT ![p] =
                  [pc |-> "requested", service |-> IsActive(p), seen |-> state',
                   exec |-> IF IsActive(p) THEN task[p].exec ELSE Id(p, "delete")]]
  /\ UNCHANGED <<procVars, posted, task, child, beating, loop, pub, stalls, faults>>

DeletePropagates(p) ==
  /\ delete[p].pc = "requested"
  /\ IF delete[p].service
       THEN /\ Interrupt(p)
            /\ beating' = [beating EXCEPT ![p] = @ /\ task'[p].pc # "off"]
       ELSE UNCHANGED <<task, child, beating>>
  /\ delete' = [delete EXCEPT ![p] =
                  IF delete[p].seen = "cancelled"
                    THEN [delete[p] EXCEPT !.pc = "publishing"] ELSE IdleDelete]
  /\ UNCHANGED <<jobVars, procVars, posted, loop, pub, bounds>>

DeletePublishes(p) ==
  /\ delete[p].pc = "publishing"
  /\ Publish(delete[p].exec, delete[p].seen)
  /\ delete' = [delete EXCEPT ![p].pc = "attaching"]
  /\ UNCHANGED <<jobVars, procVars, posted, task, child, beating, loop, bounds>>

DeleteAttaches(p) ==
  /\ delete[p].pc = "attaching"
  /\ Attach(delete[p].exec)
  /\ delete' = [delete EXCEPT ![p] = IdleDelete]
  /\ UNCHANGED <<procVars, posted, task, child, beating, loop, pub, bounds>>

-----------------------------------------------------------------------------
(* Crash and restart *)

Crash(p) ==
  /\ up[p] /\ life[p] < MaxCrashes
  /\ up' = [up EXCEPT ![p] = FALSE]
  /\ EndTask(p)
  /\ loop' = [loop EXCEPT ![p] = IdleLoop]
  /\ delete' = [delete EXCEPT ![p] = IdleDelete]
  /\ UNCHANGED <<jobVars, life, posted, pub, bounds>>

\* A restarted process builds new repositories and draws new executor ids.
Restart(p) ==
  /\ ~up[p]
  /\ up' = [up EXCEPT ![p] = TRUE]
  /\ life' = [life EXCEPT ![p] = @ + 1]
  /\ UNCHANGED <<jobVars, posted, task, child, beating, loop, delete, pub, bounds>>

-----------------------------------------------------------------------------
Child(p, s) ==
  \/ ChildStart(p, s) \/ ChildProduce(p, s) \/ ChildRegister(p, s)
  \/ ChildRetry(p, s) \/ ChildFinish(p, s)

TaskRuns(p) ==
  \/ TaskClaim(p) \/ TaskLoad(p) \/ ChildrenDone(p) \/ TaskSettle(p)
  \/ TaskHandle(p) \/ TaskPublish(p) \/ TaskAttach(p)

LoopRuns(p) ==
  \/ LoopRecovers(p) \/ LoopAdopts(p) \/ LoopEnds(p) \/ LoopFindsUnpublished(p)
  \/ LoopPublishes(p) \/ LoopAttaches(p)

DeleteRuns(p) == DeletePropagates(p) \/ DeletePublishes(p) \/ DeleteAttaches(p)

ServiceNext ==
  \/ \E p \in Process : Post(p) \/ TaskRuns(p) \/ LoopRuns(p) \/ DeleteRuns(p)
  \/ \E p \in Process, s \in Scenario : Child(p, s)
  \/ \E p \in Process, s \in Scenario : BudgetExceeded(p, s) \/ ChildKilled(p, s)
  \/ \E p \in Process : DeadlineExpires(p)
  \/ \E p \in Process : HeartbeatRenews(p) \/ HeartbeatLost(p) \/ HeartbeatFails(p)
  \/ LeaseLapses
  \/ \E p \in Process : DeletePersists(p)
  \/ \E p \in Process : Crash(p) \/ Restart(p)

ServiceSpec == ServiceInit /\ [][ServiceNext]_allVars

\* Every task of a live event loop makes progress, a run ends (the Runner bounds
\* it by wall_time_s), a lease that nobody renews runs out, and a crashed process
\* is restarted.
Fairness ==
  /\ \A p \in Process : /\ WF_allVars(TaskRuns(p))
                        /\ WF_allVars(LoopRuns(p))
                        /\ WF_allVars(DeleteRuns(p))
                        /\ WF_allVars(HeartbeatRenews(p) \/ HeartbeatLost(p))
                        /\ WF_allVars(Restart(p))
                        /\ \A s \in Scenario : WF_allVars(Child(p, s))
  /\ WF_allVars(LeaseLapses /\ ~OwnerAlive)

FairSpec == ServiceSpec /\ Fairness

-----------------------------------------------------------------------------
(* Properties *)

\* A completed job judged every scenario.  finish(COMPLETED) looks at no row and
\* a refused child ends silently, so this rests on claim() resetting every row
\* an earlier executor left running and on no other executor starting one.
CompletedMeansJudged == state = "completed" => RowsIn(row, Result) = Scenario

\* "Executor IDs fence stale processes from writing after takeover": the verdict
\* of a scenario comes from its latest attempt, never from a run that a replaced
\* executor finished after another had begun the scenario again.
VerdictFromLatestAttempt ==
  \A s \in Scenario : runId[s] # None => runId[s][1] = s /\ runId[s][2] = attempts[s]

\* Every verdict's run is registered evidence of its scenario: an attempt is in
\* the bundle before it can count.
VerdictRunRegistered ==
  \A s \in Scenario : runId[s] # None => <<s, runId[s]>> \in evidence

\* "One bounded retry by default; all attempts remain in the final SuiteRecord":
\* an infrastructure failure is a verdict only after every retry failed too, and
\* each of those attempts is registered.
RetriesExhausted ==
  \A s \in Scenario :
    runId[s] # None /\ runId[s][3] = "retryable" =>
      \A n \in (attempts[s] - Retries)..attempts[s] :
        <<s, <<s, n, "retryable">>>> \in evidence

\* The bundle a client downloads holds exactly the runs that were registered,
\* whoever published it and however often its directory was written again.
AttachedRunsComplete ==
  path # None => pub[path] # None /\ pub[path].runs = evidence

\* Only an attempt that is still its scenario's latest is registered: a replaced
\* executor's late runs stay out of the evidence.
EvidenceIsFenced ==
  [][\A s \in Scenario, r \in Run :
       <<s, r>> \in evidence' \ evidence => r[2] = attempts[s]]_allVars

\* request_cancel rewrites pending rows whatever the state of the job: no DELETE
\* that races the end of a job alters a row of the finished job.
TerminalRowsFrozen == [][(state \in Terminal) => row' = row]_allVars

\* Every job ends and its evidence is published, whatever crashes, stalls, faults
\* and cancellations happen on the way.
EventuallyPublished == <>(path # None)

\* suite_service.py, _finalize_evidence: "Bundle the exact persisted suite bytes
\* and terminal database job snapshot".  The manifest of the attached bundle
\* shows a terminal job.
AttachedManifestTerminal ==
  path # None /\ pub[path] # None => pub[path].status \in Terminal

\* docs/operations.md: a restarted API "resets only interrupted scenario rows, and
\* resumes the remaining work".  A job that then completes has no verdict from a
\* run that was interrupted.
InterruptedRunsAreReset ==
  state = "completed" => \A s \in Scenario : runId[s][3] # "cancelled"

=============================================================================
