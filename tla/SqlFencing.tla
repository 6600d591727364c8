------------------------------ MODULE SqlFencing ------------------------------
(***************************************************************************)
(* SuiteJobs takes each repository method as one atomic step.  PostgreSQL    *)
(* runs them at READ COMMITTED, one statement after another, and this module *)
(* opens them up:                                                            *)
(*   - a statement finds its rows, and evaluates what it reads of other       *)
(*     tables, in a snapshot of what was committed when it began;             *)
(*   - to change a row it takes the row's lock, waiting for the transaction   *)
(*     that holds it, and re-evaluates the conditions on that row alone in    *)
(*     its latest committed version;                                         *)
(*   - locks are held, and changes hidden, until the transaction ends;        *)
(*   - of two transactions that wait for each other, one is aborted.          *)
(* A statement whose conditions concern only the row it locks is one step, a  *)
(* statement that looks elsewhere first is two ("Looks", then the rest).      *)
(*                                                                           *)
(* Executors run the service's program: claim, each scenario in a task of its *)
(* own, finish.  An executor whose lease lapsed goes on until it is refused.  *)
(* Attempts, retries and evidence are left to SuiteJobs.                     *)
(***************************************************************************)
EXTENDS Integers, FiniteSets

CONSTANTS
  Scenario,
  Executor,
  None,        \* no lock holder, SQL NULL
  MaxStalls    \* bound: leases that lapse

ASSUME SetsAssumption == IsFiniteSet(Scenario) /\ IsFiniteSet(Executor)
ASSUME StallsAssumption == MaxStalls \in Nat

VARIABLES
  job,      \* committed row of suite_jobs
  row,      \* committed suite_job_scenarios.state
  jobLock,  \* the transaction that holds the job row
  rowLock,  \* the transaction that holds each scenario row
  session,  \* each transaction's place in its program, and the rows it looked up
  raised,   \* an exception reached the executor
  stalls

fencingVars == <<job, row, jobLock, rowLock, session, raised, stalls>>

\* Connections: one for an executor's own transactions, one for each of its
\* scenario tasks, one for a DELETE.
Main(e) == <<"executor", e>>
Child(e, s) == <<"child", e, s>>
Delete == <<"delete">>
Session == {Main(e) : e \in Executor} \cup {Delete}
             \cup {Child(e, s) : e \in Executor, s \in Scenario}

ASSUME NoneAssumption == None \notin Session

Judged == {"passed", "error"}
Terminal == {"cancelled", "completed", "failed"}

TypeOK ==
  /\ job \in [state : {"queued", "running", "cancelling"} \cup Terminal,
              cancel : BOOLEAN, owner : Executor \cup {None}, live : BOOLEAN,
              completed : Nat]
  /\ row \in [Scenario -> {"pending", "running", "cancelled"} \cup Judged]
  /\ jobLock \in Session \cup {None}
  /\ rowLock \in [Scenario -> Session \cup {None}]
  /\ \A c \in Session : session[c].seen \subseteq Scenario
  /\ raised \in [Executor -> BOOLEAN]
  /\ stalls \in 0..MaxStalls
  /\ \A c \in Session :              \* locks are held in open transactions only
       /\ jobLock = c => session[c].pc \in {"lookRunning", "reset", "take", "lookOpen",
                                           "close", "end", "lookPending", "sweep", "swept"}
       /\ c \in {rowLock[s] : s \in Scenario} =>
            session[c].pc \in {"take", "count", "end", "swept"}
  /\ \A e \in Executor :             \* claim and finish hold the job until they end
       session[Main(e)].pc \in {"lookRunning", "reset", "take", "lookOpen", "close", "end"} =>
         jobLock = Main(e)

-----------------------------------------------------------------------------
(* Helpers *)

Pc(c) == session[c].pc

Move(c, pc) == session' = [session EXCEPT ![c].pc = pc]

Looks(c, pc, S) == session' = [session EXCEPT ![c] = [pc |-> pc, seen |-> S]]

\* What a session must wait for before its next step.
NeedsJob(c) == Pc(c) \in {"claim", "count", "finish", "cancel"}
NeedsRows(c) == IF Pc(c) \in {"reset", "start", "judge", "close", "sweep"}
                THEN session[c].seen ELSE {}

Blockers(c) == ({jobLock : x \in {y \in {c} : NeedsJob(y)}}
                  \cup {rowLock[s] : s \in NeedsRows(c)}) \ {None, c}
Free(c) == Blockers(c) = {}

Held(c) == {s \in Scenario : rowLock[s] = c}

\* The rows of the statement that still match once they are locked.
LocksMatching(c, S) ==
  rowLock' = [s \in Scenario |->
                IF s \in session[c].seen /\ row[s] \in S THEN c ELSE rowLock[s]]

\* COMMIT or ROLLBACK.
Releases(c) ==
  /\ jobLock' = IF jobLock = c THEN None ELSE jobLock
  /\ rowLock' = [s \in Scenario |-> IF rowLock[s] = c THEN None ELSE rowLock[s]]

\* At commit the locked rows take their new state.
Writes(c, to) == row' = [s \in Scenario |-> IF rowLock[s] = c THEN to ELSE row[s]]

RowsIn(S) == {s \in Scenario : row[s] \in S}

Owned(e) == job.state = "running" /\ job.owner = e

Init ==
  /\ job = [state |-> "queued", cancel |-> FALSE, owner |-> None, live |-> FALSE,
            completed |-> 0]
  /\ row = [s \in Scenario |-> "pending"]
  /\ jobLock = None
  /\ rowLock = [s \in Scenario |-> None]
  /\ session = [c \in Session |->
                  [pc |-> IF c = Delete THEN "cancel"
                          ELSE IF c[1] = "executor" THEN "claim" ELSE "off",
                   seen |-> {}]]
  /\ raised = [e \in Executor |-> FALSE]
  /\ stalls = 0

-----------------------------------------------------------------------------
(* claim *)

ClaimReads(e) ==                 \* mutant: the job row is read without FOR UPDATE
  LET c == Main(e)
  IN  /\ Pc(c) = "claim"
      /\ \/ /\ job.state = "running" /\ ~job.live
            /\ Move(c, "lookRunning")
         \/ /\ job.state = "queued"
            /\ Move(c, "take")
      /\ UNCHANGED <<job, row, jobLock, rowLock, raised, stalls>>

\* SELECT ... FOR UPDATE reads the locked, latest job row.  A claim that is
\* refused writes nothing, and the recovery loop tries again.
ClaimLocks(e) ==
  LET c == Main(e)
  IN  /\ Pc(c) = "claim" /\ Free(c)
      /\ \/ /\ job.state = "running" /\ ~job.live
            /\ jobLock' = c
            /\ Move(c, "lookRunning")
         \/ /\ job.state = "queued"
            /\ jobLock' = c
            /\ Move(c, "take")
      /\ UNCHANGED <<job, row, rowLock, raised, stalls>>

ClaimLooks(e) ==
  /\ Pc(Main(e)) = "lookRunning"
  /\ Looks(Main(e), "reset", RowsIn({"running"}))
  /\ UNCHANGED <<job, row, jobLock, rowLock, raised, stalls>>

ClaimResets(e) ==
  LET c == Main(e)
  IN  /\ Pc(c) = "reset" /\ Free(c)
      /\ LocksMatching(c, {"running"})
      /\ Move(c, "take")
      /\ UNCHANGED <<job, row, jobLock, raised, stalls>>

\* UPDATE suite_jobs and COMMIT; then one task per scenario.
ClaimCommits(e) ==
  LET c == Main(e)
  IN  /\ Pc(c) = "take"
      /\ job' = [job EXCEPT !.state = "running", !.owner = e, !.live = TRUE]
      /\ Writes(c, "pending")
      /\ Releases(c)
      /\ session' = [d \in Session |->
                       IF d = c THEN [pc |-> "gather", seen |-> {}]
                       ELSE IF d[1] = "child" /\ d[2] = e
                         THEN [pc |-> "pending", seen |-> {}] ELSE session[d]]
      /\ UNCHANGED <<raised, stalls>>

\* The lease of an executor that stalls runs out.
LeaseLapses ==
  /\ job.live /\ jobLock = None
  /\ stalls < MaxStalls
  /\ stalls' = stalls + 1
  /\ job' = [job EXCEPT !.live = FALSE]
  /\ UNCHANGED <<row, jobLock, rowLock, session, raised>>

-----------------------------------------------------------------------------
(* scenario_started: one UPDATE of the row, joined with the job *)

StartLooks(e, s) ==
  LET c == Child(e, s)
  IN  /\ Pc(c) = "pending"
      /\ IF row[s] = "pending" /\ Owned(e) /\ ~job.cancel
           THEN Looks(c, "start", {s})
           ELSE Move(c, "done")
      /\ UNCHANGED <<job, row, jobLock, rowLock, raised, stalls>>

StartWritesBlindly(e, s) ==      \* mutant: the locked row is not looked at again
  LET c == Child(e, s)
  IN  /\ Pc(c) = "start" /\ Free(c)
      /\ row' = [row EXCEPT ![s] = "running"]
      /\ Move(c, "run")
      /\ UNCHANGED <<job, jobLock, rowLock, raised, stalls>>

\* The row is looked at again under its lock, the job is not.
StartWrites(e, s) ==
  LET c == Child(e, s)
  IN  /\ Pc(c) = "start" /\ Free(c)
      /\ IF row[s] = "pending"
           THEN row' = [row EXCEPT ![s] = "running"] /\ Move(c, "run")
           ELSE Move(c, "done") /\ UNCHANGED row
      /\ UNCHANGED <<job, jobLock, rowLock, raised, stalls>>

-----------------------------------------------------------------------------
(* scenario_finished: the row, if an EXISTS on the job holds; then the job *)

Raise(e, c) == raised' = [raised EXCEPT ![e] = TRUE] /\ Move(c, "done")

FinishedLooks(e, s) ==
  LET c == Child(e, s)
  IN  /\ Pc(c) = "run"
      /\ IF row[s] = "running" /\ Owned(e)
           THEN Looks(c, "judge", {s}) /\ UNCHANGED raised
           ELSE Raise(e, c)
      /\ UNCHANGED <<job, row, jobLock, rowLock, stalls>>

FinishedWritesBlindly(e, s) ==   \* mutant: the locked row is not looked at again
  LET c == Child(e, s)
  IN  /\ Pc(c) = "judge" /\ Free(c)
      /\ rowLock' = [rowLock EXCEPT ![s] = c]
      /\ Move(c, "count")
      /\ UNCHANGED <<job, row, jobLock, raised, stalls>>

FinishedWrites(e, s) ==
  LET c == Child(e, s)
  IN  /\ Pc(c) = "judge" /\ Free(c)
      /\ IF row[s] = "running"
           THEN /\ rowLock' = [rowLock EXCEPT ![s] = c]
                /\ Move(c, "count")
                /\ UNCHANGED raised
           ELSE Raise(e, c) /\ UNCHANGED rowLock
      /\ UNCHANGED <<job, row, jobLock, stalls>>

\* completed_scenarios + 1, whoever owns the job by now, and COMMIT.
FinishedCounts(e, s) ==
  LET c == Child(e, s)
  IN  /\ Pc(c) = "count" /\ Free(c)
      /\ job' = [job EXCEPT !.completed = @ + 1]
      /\ Writes(c, "passed")
      /\ Releases(c)
      /\ Move(c, "done")
      /\ UNCHANGED <<raised, stalls>>

\* gather cancels the other tasks; a statement or transaction in flight is rolled
\* back, if it was not quicker.
ChildStops(e, s) ==
  LET c == Child(e, s)
  IN  /\ raised[e] /\ Pc(c) \in {"pending", "start", "run", "judge", "count"}
      /\ Releases(c)
      /\ Move(c, "done")
      /\ UNCHANGED <<job, row, raised, stalls>>

-----------------------------------------------------------------------------
(* finish, when every task of the executor has ended *)

Target(e) == IF job.cancel THEN "cancelled" ELSE IF raised[e] THEN "failed" ELSE "completed"

Gathers(e) ==
  /\ Pc(Main(e)) = "gather"
  /\ \A s \in Scenario : Pc(Child(e, s)) = "done"
  /\ Move(Main(e), "finish")
  /\ UNCHANGED <<job, row, jobLock, rowLock, raised, stalls>>

\* SELECT ... FOR UPDATE.
FinishLocks(e) ==
  LET c == Main(e)
  IN  /\ Pc(c) = "finish" /\ Free(c)
      /\ IF job.state \notin Terminal /\ job.owner = e
           THEN /\ jobLock' = c
                /\ Move(c, IF Target(e) = "completed" THEN "end" ELSE "lookOpen")
           ELSE Move(c, "off") /\ UNCHANGED jobLock
      /\ UNCHANGED <<job, row, rowLock, raised, stalls>>

FinishLooks(e) ==
  /\ Pc(Main(e)) = "lookOpen"
  /\ Looks(Main(e), "close", RowsIn({"pending", "running"}))
  /\ UNCHANGED <<job, row, jobLock, rowLock, raised, stalls>>

FinishClosesRunning(e) ==        \* mutant: rows left pending stay open
  LET c == Main(e)
  IN  /\ Pc(c) = "close" /\ Free(c)
      /\ LocksMatching(c, {"running"})
      /\ Move(c, "end")
      /\ UNCHANGED <<job, row, jobLock, raised, stalls>>

FinishCloses(e) ==
  LET c == Main(e)
  IN  /\ Pc(c) = "close" /\ Free(c)
      /\ LocksMatching(c, {"pending", "running"})
      /\ Move(c, "end")
      /\ UNCHANGED <<job, row, jobLock, raised, stalls>>

\* The counts see what is committed and the transaction's own changes.
FinishCommits(e) ==
  LET c == Main(e)
  IN  /\ Pc(c) = "end"
      /\ Writes(c, IF Target(e) = "cancelled" THEN "cancelled" ELSE "error")
      /\ job' = [job EXCEPT !.state = Target(e), !.owner = None, !.live = FALSE,
                            !.completed = Cardinality({s \in Scenario : row'[s] \in Judged})]
      /\ Releases(c)
      /\ Move(c, "off")
      /\ UNCHANGED <<raised, stalls>>

-----------------------------------------------------------------------------
(* request_cancel *)

CancelLocks ==
  /\ Pc(Delete) = "cancel" /\ Free(Delete)
  /\ jobLock' = IF job.state \in {"queued", "running"} THEN Delete ELSE jobLock
  /\ Move(Delete, "lookPending")
  /\ UNCHANGED <<job, row, rowLock, raised, stalls>>

CancelLooks ==
  /\ Pc(Delete) = "lookPending"
  /\ Looks(Delete, "sweep", RowsIn({"pending"}))
  /\ UNCHANGED <<job, row, jobLock, rowLock, raised, stalls>>

CancelSweeps ==
  /\ Pc(Delete) = "sweep" /\ Free(Delete)
  /\ LocksMatching(Delete, {"pending"})
  /\ Move(Delete, "swept")
  /\ UNCHANGED <<job, row, jobLock, raised, stalls>>

CancelCommits ==
  /\ Pc(Delete) = "swept"
  /\ job' = IF jobLock # Delete THEN job
            ELSE [job EXCEPT !.cancel = TRUE,
                             !.state = IF @ = "queued" THEN "cancelled" ELSE "cancelling"]
  /\ Writes(Delete, "cancelled")
  /\ Releases(Delete)
  /\ Move(Delete, "off")
  /\ UNCHANGED <<raised, stalls>>

-----------------------------------------------------------------------------
(* Deadlock detection: a transaction in a cycle of waiters is aborted, and its  *)
(* executor sees an exception.  An executor whose claim failed is scheduled     *)
(* again by the recovery loop.  One whose finish failed calls it again, with    *)
(* the exception as the job's error; if that call was the one that failed, the  *)
(* task ends, and the job is left to the next executor.                        *)

Aborts(c) ==
  /\ \E d \in Blockers(c) : c \in Blockers(d)
  /\ Releases(c)
  /\ \/ c = Delete /\ Move(c, "off") /\ UNCHANGED raised
     \/ \E e \in Executor, s \in Scenario : c = Child(e, s) /\ Raise(e, c)
     \/ /\ Pc(c) = "reset"
        /\ Move(c, "claim") /\ UNCHANGED raised
     \/ \E e \in Executor :
          /\ c = Main(e) /\ Pc(c) # "reset"
          /\ IF raised[e] THEN Move(c, "off") ELSE Move(c, "finish")
          /\ raised' = [raised EXCEPT ![e] = TRUE]
  /\ UNCHANGED <<job, row, stalls>>

-----------------------------------------------------------------------------
Next ==
  \/ \E e \in Executor :
       \/ ClaimLocks(e) \/ ClaimLooks(e) \/ ClaimResets(e) \/ ClaimCommits(e)
       \/ Gathers(e)
       \/ FinishLocks(e) \/ FinishLooks(e) \/ FinishCloses(e) \/ FinishCommits(e)
  \/ \E e \in Executor, s \in Scenario :
       \/ StartLooks(e, s) \/ StartWrites(e, s)
       \/ FinishedLooks(e, s) \/ FinishedWrites(e, s) \/ FinishedCounts(e, s)
       \/ ChildStops(e, s)
  \/ CancelLocks \/ CancelLooks \/ CancelSweeps \/ CancelCommits
  \/ \E c \in Session : Aborts(c)
  \/ LeaseLapses

Spec == Init /\ [][Next]_fencingVars

-----------------------------------------------------------------------------
(* Properties *)

\* The counter that scenario_finished increments in its second statement, under
\* a lock on the job it takes only then, always equals the committed verdicts.
CountsCommittedVerdicts == job.completed = Cardinality(RowsIn(Judged))

\* No row that was judged is judged, reset or cancelled again: a late statement
\* of a replaced executor that waited for the row finds it changed.
VerdictsCommitOnce == [][\A s \in Scenario : row[s] \in Judged => row'[s] = row[s]]_fencingVars

\* A cancelled or failed job leaves no row open, although its closing statement
\* looks the rows up before it locks them and starts may slip in between.
EndClosesRows == job.state \in {"cancelled", "failed"} => RowsIn({"pending", "running"}) = {}

\* docs/operations.md: "Executor IDs fence stale processes from writing after
\* takeover".  A scenario is only ever started by the executor that owns the job,
\* so a job that completes has judged every scenario.
CompletedMeansJudged == job.state = "completed" => RowsIn(Judged) = Scenario

=============================================================================
