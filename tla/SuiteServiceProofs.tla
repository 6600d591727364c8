-------------------------- MODULE SuiteServiceProofs --------------------------
(***************************************************************************)
(* Machine-checked proofs about SuiteService: whatever the processes do,     *)
(* crash, stall or are told to cancel, every step is one method of the       *)
(* repository, so that what SuiteJobsProofs shows of any callers holds of     *)
(* these; and what only these callers make true: verdicts come from the       *)
(* latest attempt, completed jobs judged every scenario, retries are          *)
(* exhausted and the attached bundle is whole.                                *)
(*                                                                           *)
(* The argument is about who holds the running job: an execution that does    *)
(* has every running row in its children's hands, at the attempt they know.   *)
(***************************************************************************)
EXTENDS SuiteService, SuiteJobsProofs

(***************************************************************************)
(* The inductive invariant                                                 *)
(***************************************************************************)

Started == {"executing", "produced", "registered"}

\* No execution can change the evidence any more.
Closed == state \notin {"queued", "running"}

\* The bundle of an executor's directory has every registered run.
Whole(e) == pub[e] # None /\ pub[e].runs = evidence

\* The execution of p is the one that runs the job: it claimed it and nobody
\* claimed or cancelled it since.
Holds(p) ==
  state = "running" /\ owner = task[p].exec /\ task[p].pc \notin {"off", "scheduled"}

TaskRecord == [pc : TaskPc, exec : Executor \cup {None},
               cause : {"none", "cancelled", "error"}, seen : JobState \cup {"none"}]
ChildRecord == [pc : ChildPc, attempt : 0..MaxAttempts, tries : 0..Retries,
                run : Run \cup {None}]

TaskTypes == task \in [Process -> TaskRecord]
             /\ child \in [Process -> [Scenario -> ChildRecord]]
LoopTypes == loop \in [Process -> [pc : {"idle", "adopting", "ending", "publishing", "attaching"},
                                   seen : JobState \cup {"none"}]]
DeleteTypes == delete \in [Process -> [pc : {"idle", "requested", "publishing", "attaching"},
                                       exec : Executor \cup {None}, service : BOOLEAN,
                                       seen : JobState \cup {"none"}]]
ProcessTypes ==
  /\ up \in [Process -> BOOLEAN]
  /\ life \in [Process -> 0..MaxCrashes]
  /\ posted \in BOOLEAN
  /\ beating \in [Process -> BOOLEAN]
  /\ stalls \in 0..MaxStalls /\ faults \in 0..MaxFaults /\ cancels \in 0..MaxCancels
PubTypes == pub \in [Executor -> Bundle \cup {None}]
AttemptTypes == attempts \in [Scenario -> 0..MaxAttempts]
Types == /\ TaskTypes /\ LoopTypes /\ DeleteTypes /\ ProcessTypes /\ PubTypes
         /\ AttemptTypes

\* What runs in a process acts under that process's executor ids.
Identity(p) ==
  /\ task[p].pc = "off" => task[p] = NoTask
  /\ task[p].pc # "off" => task[p].exec \in {Id(p, "post"), Id(p, "recovery")}
  /\ delete[p].pc # "idle" => delete[p].exec \in Executor
  /\ beating[p] => task[p].pc \notin {"off", "scheduled"}
  /\ ~up[p] => /\ task[p].pc = "off" /\ loop[p].pc = "idle" /\ delete[p].pc = "idle"
               /\ life[p] < MaxCrashes

\* How far each child is: it retries from the attempts it registered as
\* retryable, and its run is the one of its attempt.
ChildOk(p, s) ==
  /\ task[p].pc \in {"off", "scheduled", "loading"} => child[p][s].pc = "none"
  /\ child[p][s].pc \in {"none", "waiting"} => child[p][s].tries = 0
  /\ task[p].pc = "settling" => child[p][s].pc = "done"
  /\ child[p][s].pc \in Started => task[p].pc \in {"running", "stopping"}
  /\ child[p][s].pc \in Started =>
       /\ child[p][s].attempt \in 1..MaxAttempts
       /\ \A n \in (child[p][s].attempt - child[p][s].tries)..(child[p][s].attempt - 1) :
            <<s, <<s, n, "retryable">>>> \in evidence
  /\ child[p][s].pc \in {"produced", "registered"} =>
       \E o \in AllOutcomes : child[p][s].run = <<s, child[p][s].attempt, o>>
  /\ child[p][s].pc = "registered" => <<s, child[p][s].run>> \in evidence
Children(p) == \A s \in Scenario : ChildOk(p, s)

\* The rows of a running job are in the hands of the execution that holds it: a
\* child that started is at the latest attempt, a running row has a started
\* child, and a child that is done has left a verdict.
RowHeld(p, s) ==
  /\ child[p][s].pc \in Started => child[p][s].attempt = attempts[s]
  /\ row[s] = "running" => child[p][s].pc \notin {"none", "waiting"}
  /\ task[p].pc \in {"running", "settling"} /\ child[p][s].pc = "done" => row[s] \in Result
Ownership(p) == Holds(p) => \A s \in Scenario : RowHeld(p, s)

\* Whoever publishes does so when nothing can be registered any more; a task that
\* handles an exception knows which.
TaskOk(p) ==
  /\ task[p].pc \in {"stopping", "handling"} => task[p].cause # "none"
  /\ task[p].pc \in {"publishing", "attaching"} => Closed /\ task[p].seen \in JobState
  /\ task[p].pc = "attaching" => Whole(task[p].exec)
LoopPub(p) ==
  /\ loop[p].pc # "idle" => Closed
  /\ loop[p].pc \in {"publishing", "attaching"} => loop[p].seen \in JobState
  /\ loop[p].pc = "attaching" => Whole(Id(p, "recovery"))
DeletePub(p) ==
  /\ delete[p].pc # "idle" => delete[p].seen \in JobState
  /\ delete[p].seen = "cancelled" => Closed
  /\ delete[p].pc \in {"publishing", "attaching"} => Closed
  /\ delete[p].pc = "attaching" => Whole(delete[p].exec)

Mine(p) ==
  /\ Identity(p) /\ Children(p) /\ Ownership(p)
  /\ TaskOk(p) /\ LoopPub(p) /\ DeletePub(p)

\* A verdict is the registered run of the latest attempt, and a retryable one the
\* last of Retries + 1 such runs.
VerdictOk(s) ==
  runId[s] # None =>
    /\ row[s] \in Result
    /\ runId[s][1] = s /\ runId[s][2] = attempts[s] /\ <<s, runId[s]>> \in evidence
    /\ runId[s][3] = "retryable" =>
         \A n \in (attempts[s] - Retries)..attempts[s] : <<s, <<s, n, "retryable">>>> \in evidence
Verdicts == \A s \in Scenario : VerdictOk(s)

ServiceInv ==
  /\ JobInv /\ Types
  /\ \A p \in Process : Mine(p)
  /\ Verdicts /\ AttachedRunsComplete /\ CompletedMeansJudged

(***************************************************************************)
(* Executor ids                                                            *)
(***************************************************************************)

\* Each role of each life of a process is an executor, named after the process.
LEMMA Ids ==
  ASSUME Types, NEW p \in Process, NEW role \in Role
  PROVE  Id(p, role) \in Executor /\ Id(p, role)[1] = p /\ Id(p, role) # None
  BY ExecutorAssumption, NoneAssumption DEF Types, ProcessTypes, Id

\* An execution's executor is its process's.
LEMMA TaskIds ==
  ASSUME Types, NEW p \in Process, Identity(p), task[p].pc # "off"
  PROVE  task[p].exec \in Executor /\ task[p].exec[1] = p /\ task[p].exec # None
  BY Ids DEF Identity, Role

(***************************************************************************)
(* What a step of one process leaves to the others                         *)
(***************************************************************************)

\* Nothing of process q moves.
Rests(q) ==
  /\ task'[q] = task[q] /\ child'[q] = child[q] /\ beating'[q] = beating[q]
  /\ loop'[q] = loop[q] /\ delete'[q] = delete[q] /\ up'[q] = up[q] /\ life'[q] = life[q]

OnlyMoves(p) == \A q \in Process \ {p} : Rests(q)

\* If another process's executor holds the running job after the step, it held it
\* before and the step touched no row.
Fenced(p) ==
  state' = "running" /\ owner' # None /\ owner'[1] # p =>
    state = "running" /\ owner' = owner /\ UNCHANGED <<row, attempts>>

\* Bundles are complete when written, and remain so.
BundlesStay == \A e \in Executor : Closed /\ Whole(e) => Whole(e)'

\* Verdicts are kept by every method, with the number of their attempt.
JudgedStay ==
  \A s \in Scenario : row[s] \in Result => row'[s] = row[s] /\ attempts'[s] = attempts[s]

\* Evidence only grows, and stops when the job leaves "running" for good.
EvidenceStays ==
  /\ evidence \subseteq evidence'
  /\ Closed => Closed' /\ evidence' = evidence

\* What every method of the repository keeps.
LEMMA JobFacts ==
  ASSUME JobInv, [Next]_jobVars
  PROVE  JobInv' /\ JudgedStay /\ EvidenceStays
  <1> DEFINE Kept == JudgedStay /\ EvidenceStays
  <1>1. TypeOK
    BY DEF JobInv
  <1>2. Kept
    <2> USE <1>1 DEF TypeOK, Result, JudgedStay, EvidenceStays, Closed
    <2>1. ASSUME NEW e \in Executor, Claim(e)
          PROVE  Kept
      BY <2>1 DEF Claim, Claimable, ClaimedRows, SetRows
    <2>2. ASSUME NEW e \in Executor, NEW s \in Scenario, ScenarioStarted(e, s)
          PROVE  Kept
      BY <2>2 DEF ScenarioStarted, CanStart
    <2>3. ASSUME NEW e \in Executor, NEW s \in Scenario, ScenarioRetrying(e, s)
          PROVE  Kept
      BY <2>3 DEF ScenarioRetrying, CanRetry
    <2>4. ASSUME NEW e \in Executor, NEW s \in Scenario, NEW r \in Run,
                 RegisterRunEvidence(e, s, r)
          PROVE  Kept
      BY <2>4 DEF RegisterRunEvidence, CanRegister, MayRecord
    <2>5. ASSUME NEW e \in Executor, NEW s \in Scenario, NEW status \in Result,
                 NEW r \in Run, ScenarioFinished(e, s, status, r)
          PROVE  Kept
      BY <2>5 DEF ScenarioFinished, CanFinish
    <2>6. CASE RequestCancel
      BY <2>6 DEF RequestCancel, SetRows
    <2>7. ASSUME NEW e \in Executor, NEW raised \in BOOLEAN, Finish(e, raised)
          PROVE  Kept
      BY <2>7 DEF Finish, ClosedRows, SetRows
    <2>8. ASSUME UNCHANGED <<state, row, attempts, evidence>>
          PROVE  Kept
      BY <2>8
    <2> QED
      BY <2>1, <2>2, <2>3, <2>4, <2>5, <2>6, <2>7, <2>8
         DEF Next, Heartbeat, LeaseExpires, TakeOverCancellation, AttachEvidence, jobVars
  <1> QED
    BY <1>2, JobInvStep

\* A verdict that no step rewrites keeps its evidence.
LEMMA VerdictsStay ==
  ASSUME Verdicts, JudgedStay, EvidenceStays, NEW s \in Scenario, runId'[s] = runId[s]
  PROVE  VerdictOk(s)'
  <1>1. VerdictOk(s)
    BY DEF Verdicts
  <1>2. runId[s] # None => row'[s] = row[s] /\ attempts'[s] = attempts[s]
    BY <1>1 DEF VerdictOk, JudgedStay
  <1> QED
    BY <1>1, <1>2 DEF VerdictOk, EvidenceStays

\* The parts of a process's invariant that a step leaves alone with the variables
\* they are about.
LEMMA PartsStay ==
  ASSUME NEW p \in Process, Mine(p), EvidenceStays, BundlesStay, Types
  PROVE  /\ task'[p] = task[p] => TaskOk(p)'
         /\ loop'[p] = loop[p] /\ life'[p] = life[p] => LoopPub(p)'
         /\ delete'[p] = delete[p] => DeletePub(p)'
         /\ task'[p].pc = task[p].pc =>
              \A s \in Scenario : child'[p][s] = child[p][s] => ChildOk(p, s)'
  <1>1. task[p].pc = "attaching" => task[p].exec \in Executor
    BY TaskIds DEF Mine
  <1>2. task'[p] = task[p] => TaskOk(p)'
    BY <1>1 DEF Mine, TaskOk, EvidenceStays, BundlesStay
  <1>3. ASSUME loop'[p] = loop[p], life'[p] = life[p]
        PROVE  LoopPub(p)'
    <2>1. Id(p, "recovery")' = Id(p, "recovery") /\ Id(p, "recovery") \in Executor
      BY <1>3, Ids DEF Id, Role
    <2>2. Whole(Id(p, "recovery")) /\ Closed => Whole(Id(p, "recovery"))'
      BY <2>1 DEF BundlesStay, Whole
    <2> QED
      BY <1>3, <2>2 DEF Mine, LoopPub, EvidenceStays
  <1>4. delete'[p] = delete[p] => DeletePub(p)'
    BY DEF Mine, Identity, DeletePub, EvidenceStays, BundlesStay
  <1>5. ASSUME task'[p].pc = task[p].pc, NEW s \in Scenario, child'[p][s] = child[p][s]
        PROVE  ChildOk(p, s)'
    BY <1>5 DEF Mine, Children, ChildOk, EvidenceStays
  <1> QED
    BY <1>2, <1>3, <1>4, <1>5

\* A process that rests keeps its invariant.
LEMMA RestingKeeps ==
  ASSUME NEW q \in Process, Mine(q), Rests(q), EvidenceStays, BundlesStay, Types,
         NEW p, p # q, Fenced(p)
  PROVE  Mine(q)'
  <1>1. TaskOk(q)' /\ LoopPub(q)' /\ DeletePub(q)' /\ Children(q)'
    BY PartsStay DEF Rests, Children
  <1>2. Identity(q)'
    BY DEF Mine, Identity, Rests, Id
  <1>3. Ownership(q)'
    <2> SUFFICES ASSUME Holds(q)', NEW s \in Scenario
                 PROVE  RowHeld(q, s)'
      BY DEF Ownership
    <2>1. owner' = task[q].exec /\ task[q].exec # None /\ task[q].exec[1] = q
      BY TaskIds DEF Mine, Holds, Rests
    <2>2. Holds(q) /\ UNCHANGED <<row, attempts>>
      BY <2>1 DEF Fenced, Holds, Rests
    <2> QED
      BY <2>2 DEF Mine, Ownership, RowHeld, Rests
  <1> QED
    BY <1>1, <1>2, <1>3 DEF Mine

\* What the step of one process has to show: that it is fenced, spoils no bundle,
\* and keeps its own part and whatever of the shared promises it touches.
LEMMA StepKeeps ==
  ASSUME ServiceInv, [Next]_jobVars, NEW p \in Process,
         OnlyMoves(p), Fenced(p), BundlesStay,
         Types', Mine(p)', Verdicts',
         path' \in {None, path} \/ AttachedRunsComplete',
         state' = "completed" => state = "completed" \/ CompletedMeansJudged'
  PROVE  ServiceInv'
  <1>1. JobInv' /\ JudgedStay /\ EvidenceStays
    BY JobFacts DEF ServiceInv
  <1>2. ASSUME NEW q \in Process
        PROVE  Mine(q)'
    <2>1. CASE q = p
      BY <2>1
    <2>2. CASE q # p
      BY <1>1, <2>2, RestingKeeps DEF ServiceInv, OnlyMoves
    <2> QED
      BY <2>1, <2>2
  <1>3. AttachedRunsComplete'
    <2> SUFFICES ASSUME path' = path, path # None
                 PROVE  AttachedRunsComplete'
      BY DEF AttachedRunsComplete
    <2>1. Closed /\ path \in Executor
      BY DEF ServiceInv, JobInv, TypeOK, ControlInv, PublishedOnlyWhenTerminal, Closed,
             Terminal
    <2>2. Whole(path)
      BY DEF ServiceInv, AttachedRunsComplete, Whole
    <2> QED
      BY <2>1, <2>2 DEF BundlesStay, AttachedRunsComplete, Whole
  <1>4. CompletedMeansJudged'
    <2> SUFFICES ASSUME state = "completed", state' = "completed"
                 PROVE  RowsIn(row, Result)' = Scenario
      BY DEF CompletedMeansJudged
    <2>1. \A s \in Scenario : row[s] \in Result
      BY DEF ServiceInv, CompletedMeansJudged, RowsIn
    <2> QED
      BY <1>1, <2>1 DEF JudgedStay, RowsIn
  <1> QED
    BY <1>1, <1>2, <1>3, <1>4 DEF ServiceInv

\* A step that writes no bundle spoils none.
LEMMA NoBundleWritten ==
  ASSUME EvidenceStays, UNCHANGED pub
  PROVE  BundlesStay
  BY DEF EvidenceStays, BundlesStay, Whole

\* A step inside one process, that calls no method of the repository and writes
\* no bundle, has only its own part to keep.
LEMMA InnerKeeps ==
  ASSUME ServiceInv, NEW p \in Process, OnlyMoves(p), UNCHANGED <<jobVars, pub>>,
         TaskTypes', LoopTypes', DeleteTypes', ProcessTypes', Mine(p)'
  PROVE  [Next]_jobVars /\ ServiceInv'
  <1>1. [Next]_jobVars
    OBVIOUS
  <1>2. Fenced(p) /\ path' = path /\ state' = state
    BY DEF Fenced, jobVars
  <1>3. JudgedStay /\ EvidenceStays /\ BundlesStay
    BY <1>1, JobFacts, NoBundleWritten DEF ServiceInv
  <1>4. Types'
    BY DEF ServiceInv, Types, PubTypes, AttemptTypes, jobVars
  <1>5. Verdicts'
    BY <1>3, VerdictsStay DEF ServiceInv, Verdicts, jobVars
  <1> QED
    BY <1>1, <1>2, <1>3, <1>4, <1>5, StepKeeps

\* A call of the repository that neither judges a scenario nor ends or publishes
\* the job.
LEMMA CallKeeps ==
  ASSUME ServiceInv, [Next]_jobVars, NEW p \in Process, OnlyMoves(p), Fenced(p),
         UNCHANGED <<pub, path, runId>>, state' = "completed" => state = "completed",
         TaskTypes', LoopTypes', DeleteTypes', ProcessTypes', AttemptTypes', Mine(p)'
  PROVE  ServiceInv'
  <1>1. JudgedStay /\ EvidenceStays /\ BundlesStay
    BY JobFacts, NoBundleWritten DEF ServiceInv
  <1>2. Types'
    BY DEF ServiceInv, Types, PubTypes
  <1>3. Verdicts'
    BY <1>1, VerdictsStay DEF ServiceInv, Verdicts
  <1> QED
    BY <1>1, <1>2, <1>3, StepKeeps

(***************************************************************************)
(* How an execution moves                                                  *)
(***************************************************************************)

\* A task ends or goes on under its executor id.
Goes(p) ==
  \/ task'[p] = NoTask
  \/ task'[p] = task[p]
  \/ /\ task[p].pc # "off" /\ task'[p].pc \notin {"off", "scheduled"}
     /\ task'[p].exec = task[p].exec

\* The tasks of the other processes and their children are not moved.
TasksRest(p) ==
  \A q \in Process \ {p} : task'[q] = task[q] /\ child'[q] = child[q]

\* What a move of the execution of p has to keep.
TaskKept(p) ==
  TaskTypes' /\ TasksRest(p) /\ Goes(p) /\ Children(p)' /\ Ownership(p)' /\ TaskOk(p)'

\* The identity of a process whose task moves.
LEMMA TaskIdentity ==
  ASSUME NEW p \in Process, Mine(p), Goes(p),
         up'[p] = up[p], life'[p] = life[p], loop'[p] = loop[p], delete'[p] = delete[p],
         beating'[p] => task'[p].pc \notin {"off", "scheduled"}
  PROVE  Identity(p)'
  BY DEF Mine, Identity, Goes, NoTask, Id

\* A task that ends has no child and holds nothing.
LEMMA ForgetKeeps ==
  ASSUME Types, NEW p \in Process, ForgetTask(p)
  PROVE  TaskKept(p) /\ task'[p] = NoTask
  <1>1. /\ task'[p] = NoTask /\ child'[p] = [s \in Scenario |-> NoChild]
        /\ TasksRest(p)
    BY DEF ForgetTask, Types, TaskTypes, TasksRest
  <1>2. NoTask \in TaskRecord /\ NoChild \in ChildRecord
    BY ServiceAssumption, BoundAssumption
       DEF NoTask, NoChild, TaskRecord, ChildRecord, TaskPc, ChildPc
  <1>3. TaskTypes'
    BY <1>2 DEF ForgetTask, Types, TaskTypes
  <1>4. Children(p)' /\ Ownership(p)' /\ TaskOk(p)'
    BY <1>1 DEF Children, ChildOk, Ownership, Holds, TaskOk, NoTask, NoChild, Started
  <1> QED
    BY <1>1, <1>3, <1>4 DEF TaskKept, Goes

\* A task that moves leaves every other where it is.
LEMMA Moved ==
  ASSUME task \in [Process -> TaskRecord], NEW p \in Process, NEW t \in TaskRecord,
         task' = [task EXCEPT ![p] = t]
  PROVE  /\ task'[p] = t /\ task' \in [Process -> TaskRecord]
         /\ \A q \in Process \ {p} : task'[q] = task[q]
  OBVIOUS

\* A task at another point of its program, with what its handler will have caught.
LEMMA Caught ==
  ASSUME task \in [Process -> TaskRecord], NEW p \in Process, NEW pc \in TaskPc,
         NEW cause \in {"none", "cancelled", "error"}, Catch(p, pc, cause)
  PROVE  /\ task'[p].pc = pc /\ task'[p].cause = cause /\ task'[p].exec = task[p].exec
         /\ task' \in [Process -> TaskRecord]
         /\ \A q \in Process \ {p} : task'[q] = task[q]
  <1> DEFINE t == [task[p] EXCEPT !.pc = pc, !.cause = cause]
  <1>1. task[p] \in TaskRecord
    OBVIOUS
  <1>2. t \in TaskRecord /\ t.pc = pc /\ t.cause = cause /\ t.exec = task[p].exec
    BY <1>1 DEF TaskRecord
  <1>3. task' = [task EXCEPT ![p] = t]
    BY DEF Catch
  <1> HIDE DEF t
  <1> QED
    BY <1>2, <1>3, Moved

\* A task moved to another point of its program, its children as they are.
LEMMA CatchKeeps ==
  ASSUME Types, NEW p \in Process, NEW pc \in TaskPc, NEW cause \in {"none", "cancelled", "error"},
         task[p].pc # "off", Catch(p, pc, cause), UNCHANGED child
  PROVE  /\ TaskTypes' /\ TasksRest(p) /\ (pc \notin {"off", "scheduled"} => Goes(p))
         /\ task'[p].pc = pc /\ task'[p].cause = cause
         /\ task'[p].exec = task[p].exec /\ child'[p] = child[p]
  <1>1. /\ task'[p].pc = pc /\ task'[p].cause = cause /\ task'[p].exec = task[p].exec
        /\ task' \in [Process -> TaskRecord]
        /\ \A q \in Process \ {p} : task'[q] = task[q]
    BY Caught DEF Types, TaskTypes
  <1> QED
    BY <1>1 DEF TaskTypes, Types, TasksRest, Goes

\* Cancelling the children ends those outside Runner.run.
LEMMA StopKeeps ==
  ASSUME ServiceInv, NEW p \in Process, InExecution(p),
         NEW cause \in {"cancelled", "error"}, Stop(p, cause), UNCHANGED jobVars
  PROVE  TaskKept(p) /\ task'[p].pc = "stopping"
  <1>1. /\ Catch(p, "stopping", cause)
        /\ child' = [child EXCEPT ![p] = [s \in Scenario |-> Cancelled(child[p][s])]]
        /\ task \in [Process -> TaskRecord]
        /\ child \in [Process -> [Scenario -> ChildRecord]]
    BY DEF Stop, ServiceInv, Types, TaskTypes
  <1>2. \A c \in ChildRecord :
          Cancelled(c) \in ChildRecord /\ (c.pc = "executing" => Cancelled(c) = c)
          /\ (c.pc # "executing" => Cancelled(c).pc = "done")
    BY DEF Cancelled, ChildRecord, ChildPc
  <1>3. /\ task'[p].pc = "stopping" /\ task'[p].cause = cause /\ task'[p].exec = task[p].exec
        /\ task' \in [Process -> TaskRecord]
        /\ \A s \in Scenario : child'[p][s] = Cancelled(child[p][s])
        /\ TasksRest(p)
    <2>1. /\ task'[p].pc = "stopping" /\ task'[p].cause = cause /\ task'[p].exec = task[p].exec
          /\ task' \in [Process -> TaskRecord]
          /\ \A q \in Process \ {p} : task'[q] = task[q]
      BY <1>1, Caught DEF TaskPc
    <2>2. /\ \A s \in Scenario : child'[p][s] = Cancelled(child[p][s])
          /\ \A q \in Process \ {p} : child'[q] = child[q]
      BY <1>1
    <2> QED
      BY <2>1, <2>2 DEF TasksRest
  <1>4. TaskTypes'
    <2>1. [s \in Scenario |-> Cancelled(child[p][s])] \in [Scenario -> ChildRecord]
      BY <1>1, <1>2
    <2> QED
      BY <1>1, <1>3, <2>1 DEF TaskTypes
  <1>5. Goes(p)
    BY <1>3 DEF Goes, InExecution
  <1>6. \A s \in Scenario : child'[p][s] = child[p][s] \/ child'[p][s].pc = "done"
    BY <1>1, <1>2, <1>3
  <1>7. Children(p)'
    BY <1>3, <1>6 DEF ServiceInv, Mine, Children, ChildOk, Started, jobVars, InExecution
  <1>8. Ownership(p)'
    BY <1>3, <1>6 DEF ServiceInv, Mine, Ownership, Holds, RowHeld, Started, jobVars, InExecution
  <1>9. TaskOk(p)'
    BY <1>3 DEF TaskOk
  <1> QED
    BY <1>3, <1>4, <1>5, <1>7, <1>8, <1>9 DEF TaskKept

\* A task that starts to handle an exception leaves its children as they are.
LEMMA HandleKeeps ==
  ASSUME ServiceInv, NEW p \in Process, task[p].pc \in {"loading", "settling"},
         NEW cause \in {"cancelled", "error"}, Catch(p, "handling", cause),
         UNCHANGED <<child, jobVars>>
  PROVE  TaskKept(p) /\ task'[p].pc = "handling"
  <1>1. /\ TaskTypes' /\ TasksRest(p) /\ Goes(p)
        /\ task'[p].pc = "handling" /\ task'[p].cause = cause
        /\ task'[p].exec = task[p].exec /\ child'[p] = child[p]
    BY CatchKeeps DEF ServiceInv, TaskPc
  <1>2. Children(p)'
    BY <1>1 DEF ServiceInv, Mine, Children, ChildOk, Started, jobVars
  <1>3. Ownership(p)'
    BY <1>1 DEF ServiceInv, Mine, Ownership, Holds, RowHeld, jobVars
  <1>4. TaskOk(p)'
    BY <1>1 DEF TaskOk
  <1> QED
    BY <1>1, <1>2, <1>3, <1>4 DEF TaskKept

\* A cancellation delivered to the task, wherever it is.
LEMMA InterruptKeeps ==
  ASSUME ServiceInv, NEW p \in Process, Interrupt(p), UNCHANGED <<jobVars, pub>>
  PROVE  TaskKept(p) /\ task'[p].pc # "scheduled"
  <1>1. CASE task[p].pc \in {"loading", "settling"}
    BY <1>1, HandleKeeps DEF Interrupt
  <1>2. CASE task[p].pc \in {"running", "stopping"}
    BY <1>2, StopKeeps DEF Interrupt, InExecution
  <1>3. CASE task[p].pc \in {"scheduled", "handling", "publishing", "attaching"}
    <2>1. ForgetTask(p)
      BY <1>3 DEF Interrupt
    <2> QED
      BY <2>1, ForgetKeeps DEF ServiceInv, NoTask
  <1>4. CASE task[p].pc = "off"
    <2>1. UNCHANGED <<task, child>>
      BY <1>4 DEF Interrupt
    <2> QED
      BY <1>4, <2>1 DEF ServiceInv, Types, TaskTypes, TaskKept, TasksRest, Goes, Mine,
                        Children, ChildOk, Started, Ownership, Holds, TaskOk, jobVars
  <1>5. task[p].pc \in TaskPc
    BY DEF ServiceInv, Types, TaskTypes, TaskRecord
  <1> QED
    BY <1>1, <1>2, <1>3, <1>4, <1>5 DEF TaskPc

\* A child that moves leaves every other where it is.
LEMMA Became ==
  ASSUME TaskTypes, NEW p \in Process, NEW s \in Scenario, NEW c \in ChildRecord,
         Become(p, s, c)
  PROVE  /\ child'[p][s] = c
         /\ \A t \in Scenario \ {s} : child'[p][t] = child[p][t]
         /\ \A q \in Process \ {p} : child'[q] = child[q]
         /\ child' \in [Process -> [Scenario -> ChildRecord]]
  <1>1. child' = [child EXCEPT ![p] = [child[p] EXCEPT ![s] = c]]
    BY DEF Become
  <1>2. child[p] \in [Scenario -> ChildRecord]
    BY DEF TaskTypes
  <1>3. [child[p] EXCEPT ![s] = c] \in [Scenario -> ChildRecord]
    BY <1>2
  <1> QED
    BY <1>1, <1>2, <1>3 DEF TaskTypes

\* A child that ends: unless its execution is being stopped or holds the job no
\* more, its scenario is judged.
LEMMA DoneKeeps ==
  ASSUME ServiceInv, NEW p \in Process, NEW s \in Scenario, NEW cause \in {"cancelled", "error"},
         task[p].pc \in {"running", "stopping"},
         Become(p, s, [child[p][s] EXCEPT !.pc = "done"]),
         \/ UNCHANGED task
         \/ Catch(p, "stopping", cause),
         task[p].pc = "running" => UNCHANGED task /\ (Holds(p) => row[s] \in Result),
         UNCHANGED jobVars
  PROVE  TaskKept(p) /\ task'[p].pc \in {"running", "stopping"}
  <1>1. /\ child' = [child EXCEPT ![p][s] = [child[p][s] EXCEPT !.pc = "done"]]
        /\ task \in [Process -> TaskRecord]
        /\ child \in [Process -> [Scenario -> ChildRecord]]
    BY DEF Become, ServiceInv, Types, TaskTypes
  <1>2. /\ task'[p].pc = task[p].pc /\ task'[p].exec = task[p].exec
        /\ task'[p].pc = "stopping" => task'[p].cause # "none"
        /\ task' \in [Process -> TaskRecord]
        /\ \A q \in Process \ {p} : task'[q] = task[q]
    <2>1. CASE UNCHANGED task
      BY <1>1, <2>1 DEF ServiceInv, Mine, TaskOk
    <2>2. CASE Catch(p, "stopping", cause) /\ task[p].pc = "stopping"
      BY <1>1, <2>2, Caught DEF TaskPc
    <2> QED
      BY <2>1, <2>2
  <1>3. /\ child'[p][s].pc = "done"
        /\ \A t \in Scenario \ {s} : child'[p][t] = child[p][t]
        /\ \A q \in Process \ {p} : child'[q] = child[q]
        /\ child' \in [Process -> [Scenario -> ChildRecord]]
    <2>1. child[p][s] \in ChildRecord
      BY <1>1
    <2>2. [child[p][s] EXCEPT !.pc = "done"] \in ChildRecord
      BY <2>1 DEF ChildRecord, ChildPc
    <2>3. [child[p][s] EXCEPT !.pc = "done"].pc = "done"
      BY <2>1 DEF ChildRecord
    <2>4. TaskTypes
      BY DEF ServiceInv, Types
    <2> DEFINE c == [child[p][s] EXCEPT !.pc = "done"]
    <2> HIDE DEF c
    <2>5. c \in ChildRecord /\ c.pc = "done" /\ Become(p, s, c)
      BY <2>2, <2>3 DEF c
    <2> QED
      BY <2>4, <2>5, Became
  <1>4. Children(p)'
    BY <1>2, <1>3 DEF ServiceInv, Mine, Children, ChildOk, Started, jobVars
  <1>5. Ownership(p)'
    BY <1>2, <1>3 DEF ServiceInv, Mine, Ownership, Holds, RowHeld, Started, jobVars
  <1>6. TaskOk(p)'
    BY <1>2 DEF TaskOk
  <1> QED
    BY <1>2, <1>3, <1>4, <1>5, <1>6 DEF TaskKept, TaskTypes, TasksRest, Goes

\* A child task that raises stops the others, or ends among those being stopped.
LEMMA RaiseKeeps ==
  ASSUME ServiceInv, NEW p \in Process, NEW s \in Scenario, child[p][s].pc \in Started,
         InExecution(p), Raise(p, s), UNCHANGED jobVars
  PROVE  TaskKept(p) /\ task'[p].pc \in {"running", "stopping"}
  <1>1. CASE task[p].pc = "running"
    BY <1>1, StopKeeps DEF Raise
  <1>2. CASE task[p].pc # "running"
    BY <1>2, DoneKeeps DEF Raise, InExecution
  <1> QED
    BY <1>1, <1>2

\* A heartbeat beats for a claimed execution only, and no other's stops.
BeatingKept(p) ==
  /\ \A q \in Process \ {p} : beating'[q] = beating[q]
  /\ beating'[p] => task'[p].pc \notin {"off", "scheduled"}

\* A process in which only the execution moved keeps its invariant.
LEMMA ExecutionMoves ==
  ASSUME ServiceInv, NEW p \in Process, TaskKept(p), BeatingKept(p),
         EvidenceStays, BundlesStay, UNCHANGED <<procVars, loop, delete>>
  PROVE  Mine(p)' /\ OnlyMoves(p)
  <1>1. LoopPub(p)' /\ DeletePub(p)'
    BY PartsStay DEF ServiceInv, procVars
  <1>2. Identity(p)'
    BY TaskIdentity DEF ServiceInv, TaskKept, BeatingKept, procVars
  <1>3. OnlyMoves(p)
    BY DEF OnlyMoves, Rests, TaskKept, TasksRest, BeatingKept, procVars
  <1> QED
    BY <1>1, <1>2, <1>3 DEF Mine, TaskKept

\* An execution that calls no method.
LEMMA ExecutionInner ==
  ASSUME ServiceInv, NEW p \in Process, TaskKept(p), BeatingKept(p), ProcessTypes',
         UNCHANGED <<jobVars, procVars, loop, delete, pub>>
  PROVE  [Next]_jobVars /\ ServiceInv'
  <1>1. EvidenceStays /\ BundlesStay
    BY JobFacts, NoBundleWritten DEF ServiceInv
  <1>2. Mine(p)' /\ OnlyMoves(p)
    BY <1>1, ExecutionMoves
  <1>3. TaskTypes' /\ LoopTypes' /\ DeleteTypes'
    BY DEF ServiceInv, Types, TaskKept, LoopTypes, DeleteTypes
  <1> QED
    BY <1>2, <1>3, InnerKeeps

\* An execution that calls a method which neither judges, ends nor publishes.
LEMMA ExecutionCalls ==
  ASSUME ServiceInv, [Next]_jobVars, NEW p \in Process, TaskKept(p), BeatingKept(p),
         ProcessTypes', AttemptTypes', Fenced(p),
         UNCHANGED <<procVars, loop, delete, pub, path, runId>>,
         state' = "completed" => state = "completed"
  PROVE  ServiceInv'
  <1>1. EvidenceStays /\ BundlesStay
    BY JobFacts, NoBundleWritten DEF ServiceInv
  <1>2. Mine(p)' /\ OnlyMoves(p)
    BY <1>1, ExecutionMoves
  <1>3. TaskTypes' /\ LoopTypes' /\ DeleteTypes'
    BY DEF ServiceInv, Types, TaskKept, LoopTypes, DeleteTypes
  <1> QED
    BY <1>2, <1>3, CallKeeps

(***************************************************************************)
(* Scheduling and claiming                                                 *)
(***************************************************************************)

\* Scheduling gives an idle process a task that has not claimed yet.
LEMMA ScheduleKeeps ==
  ASSUME ServiceInv, NEW p \in Process, NEW role \in {"post", "recovery"}, up[p],
         Schedule(p, role), UNCHANGED <<jobVars, procVars, child, beating, loop, delete, pub>>,
         ProcessTypes'
  PROVE  [Next]_jobVars /\ ServiceInv'
  <1>1. CASE UNCHANGED task
    <2>1. TaskKept(p) /\ BeatingKept(p)
      BY <1>1 DEF ServiceInv, Types, TaskTypes, TaskKept, TasksRest, Goes, Mine, Identity,
                  Children, ChildOk, Started, Ownership, Holds, RowHeld, TaskOk, Closed, Whole,
                  BeatingKept, jobVars
    <2> QED
      BY <2>1, ExecutionInner
  <1>2. CASE /\ task[p].pc = "off"
             /\ task' = [task EXCEPT ![p] = [NoTask EXCEPT !.pc = "scheduled",
                                                           !.exec = Id(p, role)]]
    <2>1. /\ Id(p, role) \in Executor
          /\ task \in [Process -> TaskRecord] /\ child \in [Process -> [Scenario -> ChildRecord]]
      BY Ids DEF ServiceInv, Types, TaskTypes, Role
    <2>2. /\ task'[p].pc = "scheduled" /\ task'[p].exec = Id(p, role)
          /\ \A q \in Process \ {p} : task'[q] = task[q]
          /\ task' \in [Process -> TaskRecord]
      BY <1>2, <2>1 DEF NoTask, TaskRecord, TaskPc
    <2>3. Mine(p) /\ UNCHANGED Id(p, role)
      BY DEF ServiceInv, Id, procVars
    <2>4. Identity(p)'
      BY <1>2, <2>2, <2>3 DEF Mine, Identity, Id, procVars
    <2>5. Children(p)' /\ Ownership(p)' /\ TaskOk(p)'
      BY <1>2, <2>2, <2>3 DEF Mine, Children, ChildOk, Started, Ownership, Holds, TaskOk
    <2>6. EvidenceStays /\ BundlesStay
      BY JobFacts, NoBundleWritten DEF ServiceInv
    <2>7. LoopPub(p)' /\ DeletePub(p)'
      BY <2>6, PartsStay DEF ServiceInv, procVars
    <2>8. OnlyMoves(p)
      BY <2>2 DEF OnlyMoves, Rests, procVars
    <2>9. TaskTypes' /\ LoopTypes' /\ DeleteTypes'
      BY <2>1, <2>2 DEF ServiceInv, Types, TaskTypes, LoopTypes, DeleteTypes
    <2> QED
      BY <2>4, <2>5, <2>7, <2>8, <2>9, InnerKeeps DEF Mine
  <1> QED
    BY <1>1, <1>2 DEF Schedule, IsActive

LEMMA PostKeeps ==
  ASSUME ServiceInv, NEW p \in Process, Post(p)
  PROVE  [Next]_jobVars /\ ServiceInv'
  <1>1. ProcessTypes'
    BY DEF Post, ServiceInv, Types, ProcessTypes, procVars, bounds
  <1> QED
    BY <1>1, ScheduleKeeps DEF Post

\* The claim gives the rows an earlier executor left running back: the execution
\* that now holds the job, with no child yet, has no running row.
LEMMA ClaimKeeps ==
  ASSUME ServiceInv, NEW p \in Process, TaskClaim(p)
  PROVE  [Next]_jobVars /\ ServiceInv'
  <1>1. ProcessTypes'
    <2>1. beating' \in [Process -> BOOLEAN]
      BY DEF TaskClaim, EndTask, StopBeating, ServiceInv, Types, ProcessTypes
    <2> QED
      BY <2>1 DEF TaskClaim, ServiceInv, Types, ProcessTypes, procVars, bounds
  <1>2. Mine(p) /\ Types
    BY DEF ServiceInv
  <1>3. task[p].exec \in Executor /\ task[p].exec[1] = p
    BY <1>2, TaskIds DEF TaskClaim, Mine
  <1>4. UNCHANGED <<procVars, loop, delete, pub>>
    BY DEF TaskClaim
  <1>5. CASE /\ Claim(task[p].exec) /\ Goto(p, "loading") /\ UNCHANGED child
             /\ beating' = [beating EXCEPT ![p] = TRUE]
    <2>1. [Next]_jobVars
      BY <1>3, <1>5 DEF Next
    <2>2. Catch(p, "loading", task[p].cause) /\ task[p].cause \in {"none", "cancelled", "error"}
      BY <1>2, <1>5 DEF Goto, Catch, Types, TaskTypes, TaskRecord
    <2>3. /\ TaskTypes' /\ TasksRest(p) /\ Goes(p)
          /\ task'[p].pc = "loading" /\ task'[p].exec = task[p].exec /\ child'[p] = child[p]
      BY <1>2, <1>5, <2>2, CatchKeeps DEF TaskClaim, TaskPc
    <2>4. \A s \in Scenario : row'[s] # "running"
      BY <1>5 DEF Claim, Claimable, ClaimedRows, SetRows, ServiceInv, JobInv, RowsFollowJob,
                  RowsIn
    <2>5. Children(p)' /\ Ownership(p)' /\ TaskOk(p)'
      BY <1>2, <2>3, <2>4 DEF TaskClaim, Mine, Children, ChildOk, Started, Ownership, RowHeld,
                              TaskOk
    <2>6. BeatingKept(p)
      BY <1>2, <1>5, <2>3 DEF BeatingKept, Types, ProcessTypes
    <2>7. Fenced(p)
      BY <1>3, <1>5 DEF Fenced, Claim
    <2>8. UNCHANGED <<path, runId, attempts>> /\ state' # "completed"
      BY <1>5 DEF Claim
    <2>9. AttemptTypes'
      BY <1>2, <2>8 DEF Types, AttemptTypes
    <2> QED
      BY <1>1, <1>4, <2>1, <2>3, <2>5, <2>6, <2>7, <2>8, <2>9, ExecutionCalls DEF TaskKept
  <1>6. CASE EndTask(p) /\ UNCHANGED jobVars
    <2>1. TaskKept(p) /\ task'[p] = NoTask
      BY <1>2, <1>6, ForgetKeeps DEF EndTask
    <2>2. BeatingKept(p)
      BY <1>2, <1>6 DEF EndTask, StopBeating, BeatingKept, Types, ProcessTypes
    <2> QED
      BY <1>1, <1>4, <1>6, <2>1, <2>2, ExecutionInner
  <1> QED
    BY <1>5, <1>6 DEF TaskClaim

\* Loading the stored records creates the children, or fails.
LEMMA LoadKeeps ==
  ASSUME ServiceInv, NEW p \in Process, TaskLoad(p)
  PROVE  [Next]_jobVars /\ ServiceInv'
  <1>1. ProcessTypes' /\ UNCHANGED <<jobVars, procVars, beating, loop, delete, pub>>
    BY DEF TaskLoad, ServiceInv, Types, ProcessTypes, procVars, bounds
  <1>2. Mine(p) /\ Types
    BY DEF ServiceInv
  <1>3. CASE Catch(p, "handling", "error") /\ UNCHANGED child
    <2>1. TaskKept(p) /\ task'[p].pc = "handling"
      BY <1>1, <1>3, HandleKeeps DEF TaskLoad
    <2>2. BeatingKept(p)
      BY <1>1, <2>1 DEF BeatingKept
    <2> QED
      BY <1>1, <2>1, <2>2, ExecutionInner
  <1>4. CASE /\ Goto(p, "running")
             /\ child' = [child EXCEPT ![p] =
                            [s \in Scenario |-> [NoChild EXCEPT !.pc = "waiting"]]]
    <2>1. /\ Catch(p, "running", task[p].cause)
          /\ task[p].cause \in {"none", "cancelled", "error"}
          /\ task \in [Process -> TaskRecord] /\ child \in [Process -> [Scenario -> ChildRecord]]
      BY <1>2, <1>4 DEF Goto, Catch, Types, TaskTypes, TaskRecord
    <2>2. /\ task'[p].pc = "running" /\ task'[p].exec = task[p].exec
          /\ task' \in [Process -> TaskRecord]
          /\ \A q \in Process \ {p} : task'[q] = task[q]
      BY <2>1, Caught DEF TaskPc
    <2>3. [NoChild EXCEPT !.pc = "waiting"] \in ChildRecord
      BY ServiceAssumption, BoundAssumption DEF NoChild, ChildRecord, ChildPc
    <2>4. TaskTypes' /\ TasksRest(p)
      BY <1>4, <2>1, <2>2, <2>3 DEF TaskTypes, TasksRest
    <2>5. \A s \in Scenario : child'[p][s].pc = "waiting" /\ child'[p][s].tries = 0
      BY <1>4, <2>1 DEF NoChild
    <2>6. Children(p)' /\ TaskOk(p)'
      BY <2>2, <2>5 DEF Children, ChildOk, Started, TaskOk
    <2>7. Ownership(p)'
      BY <1>1, <1>2, <2>2, <2>5
         DEF TaskLoad, Mine, Children, ChildOk, Ownership, Holds, RowHeld, Started, jobVars
    <2>8. Goes(p) /\ BeatingKept(p)
      BY <1>1, <2>2 DEF TaskLoad, Goes, BeatingKept
    <2> QED
      BY <1>1, <2>4, <2>6, <2>7, <2>8, ExecutionInner DEF TaskKept
  <1> QED
    BY <1>3, <1>4 DEF TaskLoad

(***************************************************************************)
(* The children                                                            *)
(***************************************************************************)

\* A child that moves under the task's eyes: its own part, and if the task holds
\* the job its own row, is all that changes.
LEMMA ChildMoves ==
  ASSUME ServiceInv, NEW p \in Process, NEW s \in Scenario, NEW c \in ChildRecord,
         Become(p, s, c), UNCHANGED task, task[p].pc \in {"running", "stopping"},
         EvidenceStays, ChildOk(p, s)',
         Holds(p)' => /\ Holds(p) /\ RowHeld(p, s)'
                      /\ \A t \in Scenario \ {s} : row'[t] = row[t] /\ attempts'[t] = attempts[t]
  PROVE  TaskKept(p)
  <1>1. TaskTypes /\ Mine(p)
    BY DEF ServiceInv, Types
  <1>2. /\ \A t \in Scenario \ {s} : child'[p][t] = child[p][t]
        /\ \A q \in Process \ {p} : child'[q] = child[q]
        /\ child' \in [Process -> [Scenario -> ChildRecord]]
    BY <1>1, Became
  <1>3. TaskTypes' /\ TasksRest(p) /\ Goes(p)
    BY <1>1, <1>2 DEF TaskTypes, TasksRest, Goes
  <1>4. Children(p)'
    BY <1>1, <1>2 DEF Mine, Children, ChildOk, EvidenceStays
  <1>5. Ownership(p)'
    BY <1>1, <1>2 DEF Mine, Ownership, RowHeld
  <1>6. TaskOk(p)'
    BY <1>1 DEF Mine, TaskOk
  <1> QED
    BY <1>3, <1>4, <1>5, <1>6 DEF TaskKept

\* A child starts its scenario's first attempt under this claim, or finds the job
\* lost, cancelled or the scenario judged.
LEMMA StartKeeps ==
  ASSUME ServiceInv, NEW p \in Process, NEW s \in Scenario, ChildStart(p, s)
  PROVE  [Next]_jobVars /\ ServiceInv'
  <1>1. ProcessTypes' /\ UNCHANGED <<procVars, task, beating, loop, delete, pub>>
    BY DEF ChildStart, ServiceInv, Types, ProcessTypes, procVars, bounds
  <1>2. Mine(p) /\ Types /\ JobInv
    BY DEF ServiceInv
  <1>3. /\ task[p].pc = "running" /\ child[p][s].pc = "waiting"
        /\ task[p].exec \in Executor /\ task[p].exec[1] = p
    BY <1>2, TaskIds DEF ChildStart, Mine
  <1>4. BeatingKept(p)
    BY <1>1, <1>3 DEF BeatingKept
  <1>5. child[p][s] \in ChildRecord /\ child[p][s].tries = 0
    BY <1>2, <1>3 DEF Types, TaskTypes, Mine, Children, ChildOk
  <1>6. CASE CanStart(task[p].exec, s)
    <2> DEFINE c == [child[p][s] EXCEPT !.pc = "executing", !.attempt = attempts'[s]]
    <2>1. ScenarioStarted(task[p].exec, s) /\ Become(p, s, c)
      BY <1>6 DEF ChildStart
    <2>2. [Next]_jobVars
      BY <1>3, <2>1 DEF Next
    <2>3. /\ attempts'[s] \in 1..MaxAttempts /\ AttemptTypes' /\ row'[s] = "running"
          /\ \A t \in Scenario \ {s} : row'[t] = row[t] /\ attempts'[t] = attempts[t]
          /\ UNCHANGED <<state, owner, path, runId>>
      BY <1>2, <2>1, BoundAssumption
         DEF ScenarioStarted, Types, AttemptTypes, JobInv, TypeOK
    <2>4. c \in ChildRecord /\ c.pc = "executing" /\ c.attempt = attempts'[s] /\ c.tries = 0
      <3>1. attempts'[s] \in 0..MaxAttempts
        BY <2>3, BoundAssumption
      <3> QED
        BY <1>5, <3>1 DEF ChildRecord, ChildPc
    <2> HIDE DEF c
    <2>5. child'[p][s] = c
      BY <1>2, <2>1, <2>4, Became DEF Types
    <2>6. EvidenceStays
      BY <1>2, <2>2, JobFacts
    <2>7. ChildOk(p, s)'
      BY <1>1, <1>3, <2>3, <2>4, <2>5 DEF ChildOk, Started
    <2>8. Holds(p)' => Holds(p) /\ RowHeld(p, s)'
      BY <1>1, <1>3, <2>3, <2>4, <2>5 DEF Holds, RowHeld, Started
    <2>9. TaskKept(p)
      BY <1>1, <1>3, <2>1, <2>3, <2>4, <2>6, <2>7, <2>8, ChildMoves
    <2>10. Fenced(p)
      BY <1>3, <2>1, <2>3 DEF Fenced, CanStart, MayAttempt, MayRecord, ScenarioStarted
    <2> QED
      BY <1>1, <1>4, <2>2, <2>3, <2>9, <2>10, ExecutionCalls
  <1>7. CASE ~CanStart(task[p].exec, s)
    <2>1. Become(p, s, [child[p][s] EXCEPT !.pc = "done"]) /\ UNCHANGED jobVars
      BY <1>7 DEF ChildStart
    <2>2. Holds(p) => row[s] \in Result
      <3> SUFFICES ASSUME Holds(p)
                   PROVE  row[s] \in Result
        OBVIOUS
      <3>1. row[s] # "running"
        BY <1>2, <1>3 DEF Mine, Ownership, RowHeld
      <3>2. row[s] # "cancelled" /\ ~cancelRequested /\ row[s] \in RowState
        BY <1>2 DEF Holds, JobInv, RowsFollowJob, RowsIn, ControlInv, CancelFlagMatchesState,
                    TypeOK
      <3>3. row[s] # "pending"
        BY <1>7, <3>2 DEF Holds, CanStart, MayAttempt, MayRecord
      <3> QED
        BY <3>1, <3>2, <3>3 DEF RowState
    <2>3. TaskKept(p)
      BY <1>1, <1>3, <2>1, <2>2, DoneKeeps
    <2> QED
      BY <1>1, <1>4, <2>1, <2>3, ExecutionInner
  <1> QED
    BY <1>6, <1>7

\* What a child that began an attempt is known by.
LEMMA StartedChild ==
  ASSUME ServiceInv, NEW p \in Process, NEW s \in Scenario, child[p][s].pc \in Started
  PROVE  /\ Mine(p) /\ Types /\ JobInv /\ ChildOk(p, s)
         /\ child[p][s] \in ChildRecord /\ InExecution(p)
         /\ task[p].exec \in Executor /\ task[p].exec[1] = p
  <1>1. Mine(p) /\ Types /\ JobInv /\ ChildOk(p, s)
    BY DEF ServiceInv, Mine, Children
  <1>2. InExecution(p)
    BY <1>1 DEF ChildOk, InExecution
  <1>3. task[p].exec \in Executor /\ task[p].exec[1] = p
    BY <1>1, <1>2, TaskIds DEF Mine, InExecution
  <1>4. child[p][s] \in ChildRecord
    BY <1>1 DEF Types, TaskTypes
  <1> QED
    BY <1>1, <1>2, <1>3, <1>4

\* The run of a child that has one.
LEMMA ChildRun ==
  ASSUME ServiceInv, NEW p \in Process, NEW s \in Scenario,
         child[p][s].pc \in {"produced", "registered"}
  PROVE  /\ child[p][s].run \in Run
         /\ child[p][s].run[1] = s /\ child[p][s].run[2] = child[p][s].attempt
         /\ child[p][s].run[3] \in AllOutcomes
         /\ child[p][s].run = <<s, child[p][s].attempt, child[p][s].run[3]>>
  <1>1. ChildOk(p, s)
    BY StartedChild DEF Started
  <1>2. PICK o \in AllOutcomes : child[p][s].run = <<s, child[p][s].attempt, o>>
    BY <1>1 DEF ChildOk
  <1>3. child[p][s].attempt \in 1..MaxAttempts
    BY <1>1 DEF ChildOk, Started
  <1> QED
    BY <1>2, <1>3, RunAssumption

\* A refused child raises: the others are stopped with it.
LEMMA RefusedKeeps ==
  ASSUME ServiceInv, NEW p \in Process, NEW s \in Scenario, child[p][s].pc \in Started,
         Raise(p, s), UNCHANGED <<jobVars, procVars, posted, beating, loop, delete, pub, bounds>>
  PROVE  [Next]_jobVars /\ ServiceInv'
  <1>1. ProcessTypes'
    BY DEF ServiceInv, Types, ProcessTypes, procVars, bounds
  <1>2. TaskKept(p) /\ task'[p].pc \in {"running", "stopping"}
    BY StartedChild, RaiseKeeps
  <1>3. BeatingKept(p)
    BY <1>2 DEF BeatingKept
  <1> QED
    BY <1>1, <1>2, <1>3, ExecutionInner

LEMMA BudgetKeeps ==
  ASSUME ServiceInv, NEW p \in Process, NEW s \in Scenario, BudgetExceeded(p, s)
  PROVE  [Next]_jobVars /\ ServiceInv'
  BY RefusedKeeps DEF BudgetExceeded, Started

\* The Runner's record is the run of the child's attempt.
LEMMA ProduceKeeps ==
  ASSUME ServiceInv, NEW p \in Process, NEW s \in Scenario, ChildProduce(p, s)
  PROVE  [Next]_jobVars /\ ServiceInv'
  <1>1. ProcessTypes' /\ UNCHANGED <<jobVars, procVars, task, beating, loop, delete, pub>>
    BY DEF ChildProduce, ServiceInv, Types, ProcessTypes, procVars, bounds
  <1>2. child[p][s].pc = "executing"
    BY DEF ChildProduce
  <1>3. /\ Mine(p) /\ Types /\ JobInv /\ ChildOk(p, s)
        /\ child[p][s] \in ChildRecord /\ InExecution(p)
    BY <1>2, StartedChild DEF Started
  <1>4. PICK o \in AllOutcomes :
          Become(p, s, [child[p][s] EXCEPT !.pc = "produced",
                                           !.run = <<s, child[p][s].attempt, o>>])
    BY OutcomeAssumption DEF ChildProduce
  <1> DEFINE c == [child[p][s] EXCEPT !.pc = "produced", !.run = <<s, child[p][s].attempt, o>>]
  <1>5. child[p][s].attempt \in 1..MaxAttempts
    BY <1>2, <1>3 DEF ChildOk, Started
  <1>6. <<s, child[p][s].attempt, o>> \in Run
    BY <1>5, RunAssumption
  <1>7. /\ c \in ChildRecord /\ c.pc = "produced" /\ c.tries = child[p][s].tries
        /\ c.attempt = child[p][s].attempt /\ c.run = <<s, c.attempt, o>>
    BY <1>3, <1>6 DEF ChildRecord, ChildPc
  <1> HIDE DEF c
  <1>8. child'[p][s] = c
    BY <1>3, <1>4, <1>7, Became DEF Types, c
  <1>9. EvidenceStays
    BY <1>1, <1>3, JobFacts
  <1>10. ChildOk(p, s)'
    BY <1>1, <1>2, <1>3, <1>5, <1>7, <1>8 DEF ChildOk, Started, InExecution, jobVars
  <1>11. Holds(p)' => Holds(p) /\ RowHeld(p, s)'
    BY <1>1, <1>2, <1>3, <1>7, <1>8 DEF Holds, Mine, Ownership, RowHeld, Started, jobVars
  <1>12. Become(p, s, c)
    BY <1>4 DEF c
  <1>13. TaskKept(p)
    BY <1>1, <1>3, <1>7, <1>9, <1>10, <1>11, <1>12, ChildMoves DEF InExecution, jobVars
  <1>14. BeatingKept(p)
    BY <1>1, <1>3 DEF BeatingKept, InExecution
  <1> QED
    BY <1>1, <1>13, <1>14, ExecutionInner

\* The run becomes evidence while its execution holds the job, or its child raises.
LEMMA RegisterKeeps ==
  ASSUME ServiceInv, NEW p \in Process, NEW s \in Scenario, ChildRegister(p, s)
  PROVE  [Next]_jobVars /\ ServiceInv'
  <1>1. ProcessTypes' /\ UNCHANGED <<procVars, beating, loop, delete, pub>>
    BY DEF ChildRegister, ServiceInv, Types, ProcessTypes, procVars, bounds
  <1>2. child[p][s].pc = "produced"
    BY DEF ChildRegister
  <1>3. /\ Mine(p) /\ Types /\ JobInv /\ ChildOk(p, s)
        /\ child[p][s] \in ChildRecord /\ InExecution(p)
        /\ task[p].exec \in Executor /\ task[p].exec[1] = p
    BY <1>2, StartedChild DEF Started
  <1> DEFINE r == child[p][s].run
  <1>4. CASE CanRegister(task[p].exec, r)
    <2> DEFINE c == [child[p][s] EXCEPT !.pc = "registered"]
    <2>1. RegisterRunEvidence(task[p].exec, s, r) /\ Become(p, s, c) /\ UNCHANGED task
      BY <1>4 DEF ChildRegister
    <2>2. [Next]_jobVars
      BY <1>2, <1>3, <2>1, ChildRun DEF Next
    <2>3. /\ evidence' = evidence \cup {<<s, r>>}
          /\ UNCHANGED <<state, owner, path, runId, row, attempts>>
      BY <2>1 DEF RegisterRunEvidence
    <2>4. /\ c \in ChildRecord /\ c.pc = "registered" /\ c.tries = child[p][s].tries
          /\ c.attempt = child[p][s].attempt /\ c.run = r
      BY <1>3 DEF ChildRecord, ChildPc
    <2> HIDE DEF c, r
    <2>5. child'[p][s] = c
      BY <1>3, <2>1, <2>4, Became DEF Types
    <2>6. EvidenceStays
      BY <1>3, <2>2, JobFacts
    <2>7. ChildOk(p, s)'
      BY <1>2, <1>3, <2>1, <2>3, <2>4, <2>5 DEF ChildOk, Started, InExecution, r
    <2>8. Holds(p)' => Holds(p) /\ RowHeld(p, s)'
      BY <1>2, <1>3, <2>1, <2>3, <2>4, <2>5 DEF Holds, Mine, Ownership, RowHeld, Started
    <2>9. TaskKept(p)
      BY <1>3, <2>1, <2>3, <2>4, <2>6, <2>7, <2>8, ChildMoves DEF InExecution
    <2>10. Fenced(p) /\ BeatingKept(p)
      BY <1>1, <1>3, <2>1, <2>3 DEF Fenced, BeatingKept, InExecution
    <2>11. AttemptTypes'
      BY <1>3, <2>3 DEF Types, AttemptTypes
    <2> QED
      BY <1>1, <2>2, <2>3, <2>9, <2>10, <2>11, ExecutionCalls
  <1>5. CASE ~CanRegister(task[p].exec, r)
    BY <1>2, <1>5, RefusedKeeps DEF ChildRegister, Started
  <1> QED
    BY <1>4, <1>5

\* A retry begins the next attempt, the one before being registered as retryable.
LEMMA RetryKeeps ==
  ASSUME ServiceInv, NEW p \in Process, NEW s \in Scenario, ChildRetry(p, s)
  PROVE  [Next]_jobVars /\ ServiceInv'
  <1>1. ProcessTypes' /\ UNCHANGED <<procVars, beating, loop, delete, pub>>
    BY DEF ChildRetry, ServiceInv, Types, ProcessTypes, procVars, bounds
  <1>2. child[p][s].pc = "registered" /\ Retryable(child[p][s])
    BY DEF ChildRetry
  <1>3. /\ Mine(p) /\ Types /\ JobInv /\ ChildOk(p, s)
        /\ child[p][s] \in ChildRecord /\ InExecution(p)
        /\ task[p].exec \in Executor /\ task[p].exec[1] = p
    BY <1>2, StartedChild DEF Started
  <1>4. CASE CanRetry(task[p].exec, s)
    <2> DEFINE c == [pc |-> "executing", attempt |-> attempts'[s],
                     tries |-> child[p][s].tries + 1, run |-> None]
    <2>1. ScenarioRetrying(task[p].exec, s) /\ Become(p, s, c) /\ UNCHANGED task
      BY <1>4 DEF ChildRetry
    <2>2. [Next]_jobVars
      BY <1>3, <2>1 DEF Next
    <2>3. /\ attempts'[s] = attempts[s] + 1 /\ attempts'[s] \in 1..MaxAttempts /\ AttemptTypes'
          /\ \A t \in Scenario \ {s} : attempts'[t] = attempts[t]
          /\ row[s] = "running" /\ UNCHANGED <<state, owner, path, runId, row, evidence>>
      BY <1>3, <2>1, BoundAssumption
         DEF ScenarioRetrying, CanRetry, Types, AttemptTypes, JobInv, TypeOK
    <2>4. Holds(p)
      BY <1>3, <2>1 DEF ScenarioRetrying, CanRetry, MayAttempt, MayRecord, Holds, InExecution
    <2>5. child[p][s].attempt = attempts[s] /\ child[p][s].tries \in 0..(Retries - 1)
      BY <1>2, <1>3, <2>4, ServiceAssumption
         DEF Mine, Ownership, RowHeld, Started, Retryable, ChildRecord
    <2>6. c \in ChildRecord
      <3>1. attempts'[s] \in 0..MaxAttempts /\ child[p][s].tries + 1 \in 0..Retries
        BY <2>3, <2>5, BoundAssumption, ServiceAssumption
      <3> QED
        BY <3>1 DEF ChildRecord, ChildPc
    <2>7. /\ c.pc = "executing" /\ c.attempt = attempts[s] + 1
          /\ c.tries = child[p][s].tries + 1
      BY <2>3
    <2> HIDE DEF c
    <2>8. child'[p][s] = c
      BY <1>3, <2>1, <2>6, Became DEF Types
    <2>9. EvidenceStays
      BY <1>3, <2>2, JobFacts
    <2>10. <<s, <<s, attempts[s], "retryable">>>> \in evidence
      BY <1>2, <1>3, <2>5, ChildRun DEF ChildOk, Retryable
    <2>11. \A n \in (attempts[s] - child[p][s].tries)..attempts[s] :
             <<s, <<s, n, "retryable">>>> \in evidence
      <3>1. attempts[s] \in Nat
        BY <1>3 DEF JobInv, TypeOK
      <3>2. \A n \in (attempts[s] - child[p][s].tries)..(attempts[s] - 1) :
             <<s, <<s, n, "retryable">>>> \in evidence
        BY <1>2, <1>3, <2>5 DEF ChildOk, Started
      <3> SUFFICES ASSUME NEW n \in (attempts[s] - child[p][s].tries)..attempts[s]
                   PROVE  <<s, <<s, n, "retryable">>>> \in evidence
        OBVIOUS
      <3>3. n = attempts[s] \/ n \in (attempts[s] - child[p][s].tries)..(attempts[s] - 1)
        BY <2>5, <3>1
      <3> QED
        BY <2>10, <3>2, <3>3
    <2>12. ChildOk(p, s)'
      <3>1. child'[p][s].attempt \in 1..MaxAttempts
        BY <2>3, <2>7, <2>8
      <3>2. /\ child'[p][s].attempt - child'[p][s].tries = attempts[s] - child[p][s].tries
            /\ child'[p][s].attempt - 1 = attempts[s]
        <4>1. attempts[s] \in Nat /\ child[p][s].tries \in Int
          BY <1>3, <2>5 DEF JobInv, TypeOK
        <4> QED
          BY <2>7, <2>8, <4>1
      <3> QED
        BY <1>3, <2>1, <2>3, <2>7, <2>8, <2>11, <3>1, <3>2 DEF ChildOk, Started, InExecution
    <2>13. RowHeld(p, s)'
      BY <1>3, <2>3, <2>7, <2>8 DEF RowHeld, Started
    <2>14. TaskKept(p)
      BY <1>3, <2>1, <2>3, <2>4, <2>6, <2>9, <2>12, <2>13, ChildMoves DEF InExecution
    <2>15. Fenced(p) /\ BeatingKept(p)
      BY <1>1, <1>3, <2>1, <2>3, <2>4 DEF Fenced, Holds, BeatingKept, InExecution
    <2> QED
      BY <1>1, <2>2, <2>3, <2>14, <2>15, ExecutionCalls
  <1>5. CASE ~CanRetry(task[p].exec, s)
    BY <1>2, <1>5, RefusedKeeps DEF ChildRetry, Started
  <1> QED
    BY <1>4, <1>5

\* A verdict is stored while its execution holds the job: then the child's attempt
\* is the scenario's latest, and a retryable one was the last of Retries + 1.
LEMMA FinishKeeps ==
  ASSUME ServiceInv, NEW p \in Process, NEW s \in Scenario, ChildFinish(p, s)
  PROVE  [Next]_jobVars /\ ServiceInv'
  <1>1. ProcessTypes' /\ UNCHANGED <<procVars, beating, loop, delete, pub>>
    BY DEF ChildFinish, ServiceInv, Types, ProcessTypes, procVars, bounds
  <1>2. child[p][s].pc = "registered" /\ ~Retryable(child[p][s])
    BY DEF ChildFinish
  <1>3. /\ Mine(p) /\ Types /\ JobInv /\ ChildOk(p, s)
        /\ child[p][s] \in ChildRecord /\ InExecution(p)
        /\ task[p].exec \in Executor /\ task[p].exec[1] = p
    BY <1>2, StartedChild DEF Started
  <1>4. CASE CanFinish(task[p].exec, s)
    <2> DEFINE c == [child[p][s] EXCEPT !.pc = "done"]
               r == child[p][s].run
               a == child[p][s].attempt
    <2>0. /\ \E status \in StatusesOf(r[3]) : ScenarioFinished(task[p].exec, s, status, r)
          /\ Become(p, s, c) /\ UNCHANGED task
      BY <1>4 DEF ChildFinish
    <2> PICK status \in StatusesOf(r[3]) : ScenarioFinished(task[p].exec, s, status, r)
      BY <2>0
    <2>1. /\ ScenarioFinished(task[p].exec, s, status, r)
          /\ Become(p, s, c) /\ UNCHANGED task
      BY <2>0
    <2>2. /\ r \in Run /\ r[1] = s /\ r[2] = a /\ r = <<s, a, r[3]>>
          /\ r[3] \in AllOutcomes /\ <<s, r>> \in evidence
      BY <1>2, <1>3, ChildRun DEF ChildOk
    <2>3. status \in Result
      BY <2>2 DEF StatusesOf, AllOutcomes, Result
    <2>4. [Next]_jobVars
      BY <1>3, <2>1, <2>2, <2>3 DEF Next
    <2>5. /\ row'[s] \in Result /\ runId'[s] = r
          /\ \A t \in Scenario \ {s} : row'[t] = row[t] /\ runId'[t] = runId[t]
          /\ UNCHANGED <<state, owner, path, attempts, evidence>>
      BY <1>3, <2>1, <2>3 DEF ScenarioFinished, JobInv, TypeOK
    <2>6. Holds(p)
      BY <1>3, <2>1 DEF ScenarioFinished, CanFinish, MayRecord, Holds, InExecution
    <2>7. a = attempts[s] /\ attempts[s] \in Nat
      BY <1>2, <1>3, <2>6 DEF Mine, Ownership, RowHeld, Started, JobInv, TypeOK
    <2>8. c \in ChildRecord /\ c.pc = "done"
      BY <1>3 DEF ChildRecord, ChildPc
    <2>9. r[3] = "retryable" => child[p][s].tries = Retries
      BY <1>2, <1>3, ServiceAssumption DEF Retryable, ChildRecord
    <2> HIDE DEF c, r, a
    <2>10. child'[p][s] = c
      BY <1>3, <2>1, <2>8, Became DEF Types
    <2>11. JudgedStay /\ EvidenceStays /\ BundlesStay
      BY <1>1, <1>3, <2>4, JobFacts, NoBundleWritten
    <2>12. ChildOk(p, s)'
      BY <1>3, <2>1, <2>8, <2>10 DEF ChildOk, Started, InExecution
    <2>13. RowHeld(p, s)'
      BY <2>5, <2>8, <2>10 DEF RowHeld, Started, Result
    <2>14. TaskKept(p)
      BY <1>3, <2>1, <2>5, <2>6, <2>8, <2>11, <2>12, <2>13, ChildMoves DEF InExecution
    <2>15. Fenced(p) /\ BeatingKept(p)
      BY <1>1, <1>3, <2>1, <2>5, <2>6 DEF Fenced, Holds, BeatingKept, InExecution
    <2>16. VerdictOk(s)'
      <3>1. ASSUME r[3] = "retryable", NEW n \in (attempts[s] - Retries)..attempts[s]
            PROVE  <<s, <<s, n, "retryable">>>> \in evidence
        <4>1. n = a \/ n \in (a - child[p][s].tries)..(a - 1)
          BY <2>7, <2>9, <3>1, ServiceAssumption
        <4>2. \A m \in (a - child[p][s].tries)..(a - 1) :
                <<s, <<s, m, "retryable">>>> \in evidence
          BY <1>2, <1>3 DEF ChildOk, Started, a
        <4> QED
          BY <2>2, <3>1, <4>1, <4>2
      <3> QED
        BY <2>2, <2>5, <2>7, <3>1 DEF VerdictOk
    <2>17. Verdicts'
      BY <2>5, <2>11, <2>16, VerdictsStay DEF ServiceInv, Verdicts
    <2>18. Types'
      BY <1>1, <1>3, <2>5, <2>14 DEF Types, TaskKept, LoopTypes, DeleteTypes, PubTypes,
                                    AttemptTypes
    <2>19. Mine(p)' /\ OnlyMoves(p)
      BY <1>1, <2>11, <2>14, <2>15, ExecutionMoves
    <2> QED
      BY <2>4, <2>5, <2>11, <2>15, <2>17, <2>18, <2>19, StepKeeps
  <1>5. CASE ~CanFinish(task[p].exec, s)
    BY <1>2, <1>5, RefusedKeeps DEF ChildFinish, Started
  <1> QED
    BY <1>4, <1>5

\* A child reached outside Runner.run ends without a run.
LEMMA KilledKeeps ==
  ASSUME ServiceInv, NEW p \in Process, NEW s \in Scenario, ChildKilled(p, s)
  PROVE  [Next]_jobVars /\ ServiceInv'
  <1>1. ProcessTypes'
    BY DEF ChildKilled, ServiceInv, Types, ProcessTypes, procVars, bounds
  <1>2. TaskKept(p)
    BY DoneKeeps DEF ChildKilled
  <1>3. BeatingKept(p)
    BY DEF ChildKilled, BeatingKept
  <1> QED
    BY <1>1, <1>2, <1>3, ExecutionInner DEF ChildKilled

\* The deadline stops the children.
LEMMA DeadlineKeeps ==
  ASSUME ServiceInv, NEW p \in Process, DeadlineExpires(p)
  PROVE  [Next]_jobVars /\ ServiceInv'
  <1>1. ProcessTypes'
    BY DEF DeadlineExpires, ServiceInv, Types, ProcessTypes, procVars, bounds
  <1>2. TaskKept(p) /\ task'[p].pc = "stopping"
    BY StopKeeps DEF DeadlineExpires, InExecution
  <1>3. BeatingKept(p)
    BY <1>2 DEF DeadlineExpires, BeatingKept
  <1> QED
    BY <1>1, <1>2, <1>3, ExecutionInner DEF DeadlineExpires

\* The task goes on when all its children are done.
LEMMA ChildrenDoneKeeps ==
  ASSUME ServiceInv, NEW p \in Process, ChildrenDone(p)
  PROVE  [Next]_jobVars /\ ServiceInv'
  <1>1. ProcessTypes' /\ UNCHANGED <<jobVars, procVars, child, beating, loop, delete, pub>>
    BY DEF ChildrenDone, ServiceInv, Types, ProcessTypes, procVars, bounds
  <1>2. Mine(p) /\ Types /\ TaskTypes
    BY DEF ServiceInv, Types
  <1> DEFINE pc == IF task[p].pc = "running" THEN "settling" ELSE "handling"
  <1>3. Catch(p, pc, task[p].cause) /\ task[p].cause \in {"none", "cancelled", "error"}
    BY <1>2 DEF ChildrenDone, Goto, Catch, TaskTypes, TaskRecord
  <1>4. pc \in TaskPc /\ task[p].pc # "off"
    BY DEF TaskPc, ChildrenDone, InExecution
  <1>5. /\ TaskTypes' /\ TasksRest(p) /\ Goes(p)
        /\ task'[p].pc = pc /\ task'[p].cause = task[p].cause
        /\ task'[p].exec = task[p].exec /\ child'[p] = child[p]
    BY <1>1, <1>2, <1>3, <1>4, CatchKeeps
  <1>6. \A s \in Scenario : child[p][s].pc = "done"
    BY DEF ChildrenDone, AllDone
  <1>7. Children(p)' /\ TaskOk(p)'
    BY <1>2, <1>5, <1>6
       DEF ChildrenDone, InExecution, Mine, Children, ChildOk, Started, TaskOk
  <1>8. Ownership(p)'
    BY <1>1, <1>2, <1>5, <1>6
       DEF ChildrenDone, InExecution, Mine, Ownership, Holds, RowHeld, Started, jobVars
  <1>9. BeatingKept(p)
    BY <1>1, <1>5 DEF BeatingKept
  <1> QED
    BY <1>1, <1>5, <1>7, <1>8, <1>9, ExecutionInner DEF TaskKept

(***************************************************************************)
(* Ending the execution and publishing its evidence                        *)
(***************************************************************************)

\* The execution that ends its job goes on to publish what is registered then.
LEMMA EndKeeps ==
  ASSUME ServiceInv, NEW p \in Process, task[p].pc \in {"settling", "handling"},
         NEW raised \in BOOLEAN, Finish(task[p].exec, raised),
         task' = [task EXCEPT ![p].pc = "publishing", ![p].seen = state'],
         UNCHANGED <<procVars, posted, child, beating, loop, delete, pub, bounds>>,
         state' = "completed" => \A s \in Scenario : row[s] \in Result
  PROVE  [Next]_jobVars /\ ServiceInv'
  <1>1. Mine(p) /\ Types /\ TaskTypes /\ JobInv
    BY DEF ServiceInv, Types
  <1>2. task[p].exec \in Executor /\ task[p].exec[1] = p
    BY <1>1, TaskIds DEF Mine
  <1>3. [Next]_jobVars
    BY <1>2 DEF Next
  <1>4. /\ state' \in Terminal /\ path' = None /\ UNCHANGED <<attempts, runId, evidence>>
        /\ state' = "completed" => row' = row
    BY DEF Finish, Terminal, ClosedRows
  <1>5. /\ task'[p].pc = "publishing" /\ task'[p].seen = state' /\ task'[p].exec = task[p].exec
        /\ TaskTypes' /\ TasksRest(p)
    <2> DEFINE t == [task[p] EXCEPT !.pc = "publishing", !.seen = state']
    <2>1. task[p] \in TaskRecord /\ task \in [Process -> TaskRecord]
      BY <1>1 DEF TaskTypes
    <2>2. /\ t \in TaskRecord /\ t.pc = "publishing" /\ t.seen = state'
          /\ t.exec = task[p].exec
      BY <1>4, <2>1 DEF TaskRecord, TaskPc, JobState, Terminal
    <2>3. task' = [task EXCEPT ![p] = t]
      OBVIOUS
    <2> HIDE DEF t
    <2>4. /\ task'[p] = t /\ task' \in [Process -> TaskRecord]
          /\ \A q \in Process \ {p} : task'[q] = task[q]
      BY <2>1, <2>2, <2>3, Moved
    <2> QED
      BY <1>1, <2>2, <2>4 DEF TaskTypes, TasksRest
  <1>6. Children(p)' /\ Ownership(p)' /\ TaskOk(p)' /\ Goes(p)
    <2>1. TaskOk(p)'
      BY <1>4, <1>5 DEF TaskOk, Closed, Terminal, JobState
    <2>2. Children(p)'
      BY <1>1, <1>4, <1>5 DEF Mine, Children, ChildOk, Started
    <2>3. Ownership(p)'
      BY <1>4 DEF Ownership, Holds, Terminal
    <2> QED
      BY <1>5, <2>1, <2>2, <2>3 DEF Goes
  <1>7. BeatingKept(p) /\ Fenced(p)
    BY <1>4, <1>5 DEF BeatingKept, Fenced, Terminal
  <1>8. JudgedStay /\ EvidenceStays /\ BundlesStay
    BY <1>1, <1>3, JobFacts, NoBundleWritten
  <1>9. Mine(p)' /\ OnlyMoves(p)
    BY <1>5, <1>6, <1>7, <1>8, ExecutionMoves DEF TaskKept
  <1>10. Types'
    BY <1>1, <1>4, <1>5 DEF Types, LoopTypes, DeleteTypes, ProcessTypes, PubTypes, AttemptTypes,
                           procVars, bounds
  <1>11. Verdicts'
    BY <1>4, <1>8, VerdictsStay DEF ServiceInv, Verdicts
  <1>12. state' = "completed" => CompletedMeansJudged'
    BY <1>4 DEF CompletedMeansJudged, RowsIn
  <1> QED
    BY <1>3, <1>4, <1>7, <1>8, <1>9, <1>10, <1>11, <1>12, StepKeeps

\* gather returned: the execution completes its job only while it holds it, and
\* then every child is done and every row judged.
LEMMA SettleKeeps ==
  ASSUME ServiceInv, NEW p \in Process, TaskSettle(p)
  PROVE  [Next]_jobVars /\ ServiceInv'
  <1>1. task[p].pc = "settling"
    BY DEF TaskSettle
  <1>2. CASE CanEnd(task[p].exec)
    <2>1. state' = "completed" => \A s \in Scenario : row[s] \in Result
      <3> SUFFICES ASSUME state' = "completed", NEW s \in Scenario
                   PROVE  row[s] \in Result
        OBVIOUS
      <3>1. ~cancelRequested /\ CanEnd(task[p].exec)
        BY <1>2 DEF TaskSettle, Finish
      <3>2. owner = task[p].exec /\ state \notin Terminal /\ Mine(p) /\ Types
        BY <3>1 DEF CanEnd, ServiceInv
      <3>3. task[p].exec # None
        BY <1>1, <3>2, TaskIds DEF Mine
      <3>4. state = "running"
        BY <3>1, <3>2, <3>3
           DEF ServiceInv, JobInv, ControlInv, CancelFlagMatchesState, OwnedIffActive, Active
      <3> QED
        BY <1>1, <3>2, <3>4 DEF Mine, Children, ChildOk, Ownership, Holds, RowHeld
    <2> QED
      BY <1>1, <1>2, <2>1, EndKeeps DEF TaskSettle
  <1>3. CASE ~CanEnd(task[p].exec)
    <2>1. /\ Catch(p, "handling", "error")
          /\ UNCHANGED <<jobVars, procVars, posted, child, beating, loop, delete, pub, bounds>>
      BY <1>3 DEF TaskSettle
    <2>2. TaskKept(p) /\ task'[p].pc = "handling"
      BY <1>1, <2>1, HandleKeeps
    <2>3. BeatingKept(p) /\ ProcessTypes'
      BY <2>1, <2>2 DEF BeatingKept, ServiceInv, Types, ProcessTypes, procVars, bounds
    <2> QED
      BY <2>1, <2>2, <2>3, ExecutionInner
  <1> QED
    BY <1>2, <1>3

\* An execution that ends for good leaves nothing behind.
LEMMA EndedKeeps ==
  ASSUME ServiceInv, NEW p \in Process, EndTask(p),
         UNCHANGED <<jobVars, procVars, posted, loop, delete, pub, bounds>>
  PROVE  [Next]_jobVars /\ ServiceInv'
  <1>1. TaskKept(p)
    BY ForgetKeeps DEF EndTask, ServiceInv
  <1>2. BeatingKept(p) /\ ProcessTypes'
    BY DEF EndTask, StopBeating, BeatingKept, ServiceInv, Types, ProcessTypes, procVars, bounds
  <1> QED
    BY <1>1, <1>2, ExecutionInner

\* The handlers end a job as cancelled or failed, never as completed.
LEMMA HandlerKeeps ==
  ASSUME ServiceInv, NEW p \in Process, TaskHandle(p)
  PROVE  [Next]_jobVars /\ ServiceInv'
  <1> DEFINE wants == IF task[p].cause = "cancelled" THEN cancelRequested
                      ELSE state \notin Terminal
             raised == task[p].cause = "error"
  <1>1. task[p].pc = "handling"
    BY DEF TaskHandle
  <1>2. CASE wants /\ CanEnd(task[p].exec)
    <2>1. /\ Finish(task[p].exec, raised)
          /\ task' = [task EXCEPT ![p].pc = "publishing", ![p].seen = state']
          /\ UNCHANGED <<procVars, posted, child, beating, loop, delete, pub, bounds>>
      BY <1>2 DEF TaskHandle
    <2>2. state' # "completed"
      <3>1. task[p].cause \in {"none", "cancelled", "error"} /\ task[p].cause # "none"
        BY <1>1 DEF ServiceInv, Types, TaskTypes, TaskRecord, Mine, TaskOk
      <3> QED
        BY <1>2, <2>1, <3>1 DEF Finish
    <2> QED
      BY <1>1, <2>1, <2>2, EndKeeps
  <1>3. CASE ~(wants /\ CanEnd(task[p].exec))
    BY <1>3, EndedKeeps DEF TaskHandle
  <1> QED
    BY <1>2, <1>3

(***************************************************************************)
(* Publishing                                                              *)
(***************************************************************************)

\* Whoever publishes writes the whole evidence, in its own directory.
LEMMA PublishWrites ==
  ASSUME ServiceInv, UNCHANGED jobVars, NEW e \in Executor, NEW seen \in JobState,
         Publish(e, seen)
  PROVE  PubTypes' /\ Whole(e)' /\ EvidenceStays /\ BundlesStay
  <1> DEFINE b == [status |-> seen, runs |-> evidence]
  <1>1. pub \in [Executor -> Bundle \cup {None}] /\ pub' = [pub EXCEPT ![e] = b]
    BY DEF ServiceInv, Types, PubTypes, Publish
  <1>2. b \in Bundle /\ b # None /\ b.runs = evidence
    BY BundleAssumption DEF ServiceInv, JobInv, TypeOK, Bundle
  <1>3. EvidenceStays /\ evidence' = evidence
    BY JobFacts DEF ServiceInv, jobVars
  <1> HIDE DEF b
  <1>4. PubTypes' /\ Whole(e)'
    BY <1>1, <1>2, <1>3 DEF PubTypes, Whole
  <1>5. BundlesStay
    BY <1>1, <1>2, <1>3 DEF BundlesStay, Whole
  <1> QED
    BY <1>3, <1>4, <1>5

\* A step that publishes.
LEMMA PublisherKeeps ==
  ASSUME ServiceInv, NEW p \in Process, OnlyMoves(p), UNCHANGED jobVars,
         PubTypes', BundlesStay,
         TaskTypes', LoopTypes', DeleteTypes', ProcessTypes', Mine(p)'
  PROVE  [Next]_jobVars /\ ServiceInv'
  <1>1. [Next]_jobVars
    OBVIOUS
  <1>2. Fenced(p) /\ path' = path /\ state' = state
    BY DEF Fenced, jobVars
  <1>3. JudgedStay /\ EvidenceStays
    BY <1>1, JobFacts DEF ServiceInv
  <1>4. Types'
    BY DEF ServiceInv, Types, AttemptTypes, jobVars
  <1>5. Verdicts'
    BY <1>3, VerdictsStay DEF ServiceInv, Verdicts, jobVars
  <1> QED
    BY <1>1, <1>2, <1>3, <1>4, <1>5, StepKeeps

\* attach_evidence is called, or matches no row.
LEMMA AttachCalls ==
  ASSUME ServiceInv, NEW e \in Executor, Attach(e), Whole(e), UNCHANGED pub, NEW p
  PROVE  /\ [Next]_jobVars /\ Fenced(p) /\ EvidenceStays /\ BundlesStay
         /\ UNCHANGED <<state, owner, row, attempts, runId, evidence>>
         /\ path' \in {None, path} \/ AttachedRunsComplete'
  <1>1. CASE AttachEvidence(e)
    <2>1. [Next]_jobVars
      BY <1>1 DEF Next
    <2>2. path' = e /\ UNCHANGED <<state, owner, row, attempts, runId, evidence>>
      BY <1>1 DEF AttachEvidence
    <2>3. AttachedRunsComplete' /\ Fenced(p)
      BY <2>2 DEF AttachedRunsComplete, Whole, Fenced
    <2> QED
      BY <2>1, <2>2, <2>3, JobFacts, NoBundleWritten DEF ServiceInv
  <1>2. CASE UNCHANGED jobVars
    BY <1>2, JobFacts, NoBundleWritten DEF ServiceInv, jobVars, Fenced
  <1> QED
    BY <1>1, <1>2 DEF Attach

\* A step that attaches, or finds the evidence attached.
LEMMA AttacherKeeps ==
  ASSUME ServiceInv, NEW p \in Process, OnlyMoves(p), NEW e \in Executor, Attach(e), Whole(e),
         UNCHANGED pub, TaskTypes', LoopTypes', DeleteTypes', ProcessTypes', Mine(p)'
  PROVE  [Next]_jobVars /\ ServiceInv'
  <1>1. /\ [Next]_jobVars /\ Fenced(p) /\ EvidenceStays /\ BundlesStay
        /\ UNCHANGED <<state, owner, row, attempts, runId, evidence>>
        /\ path' \in {None, path} \/ AttachedRunsComplete'
    BY AttachCalls
  <1>2. JudgedStay
    BY <1>1, JobFacts DEF ServiceInv
  <1>3. Types'
    BY <1>1 DEF ServiceInv, Types, PubTypes, AttemptTypes
  <1>4. Verdicts'
    BY <1>1, <1>2, VerdictsStay DEF ServiceInv, Verdicts
  <1> QED
    BY <1>1, <1>3, <1>4, StepKeeps

LEMMA TaskPublishKeeps ==
  ASSUME ServiceInv, NEW p \in Process, TaskPublish(p)
  PROVE  [Next]_jobVars /\ ServiceInv'
  <1>1. ProcessTypes' /\ UNCHANGED <<jobVars, procVars, child, beating, loop, delete>>
    BY DEF TaskPublish, ServiceInv, Types, ProcessTypes, procVars, bounds
  <1>2. Mine(p) /\ Types /\ TaskTypes
    BY DEF ServiceInv, Types
  <1>3. task[p].pc = "publishing" /\ Closed /\ task[p].seen \in JobState
    BY <1>2 DEF TaskPublish, Mine, TaskOk
  <1>4. PICK e \in Executor : e = task[p].exec
    BY <1>2, <1>3, TaskIds DEF Mine
  <1>5. PubTypes' /\ Whole(e)' /\ EvidenceStays /\ BundlesStay
    BY <1>1, <1>3, <1>4, PublishWrites DEF TaskPublish
  <1>6. Catch(p, "attaching", task[p].cause) /\ task[p].cause \in {"none", "cancelled", "error"}
    BY <1>2 DEF TaskPublish, Goto, Catch, TaskTypes, TaskRecord
  <1>7. /\ TaskTypes' /\ TasksRest(p) /\ Goes(p)
        /\ task'[p].pc = "attaching" /\ task'[p].exec = task[p].exec /\ child'[p] = child[p]
    BY <1>1, <1>2, <1>3, <1>6, CatchKeeps DEF TaskPc
  <1>8. task'[p].seen = task[p].seen
    BY <1>2 DEF TaskPublish, Goto, TaskTypes, TaskRecord
  <1>9. Children(p)'
    BY <1>1, <1>2, <1>3, <1>7 DEF Mine, Children, ChildOk, Started, jobVars
  <1>10. Ownership(p)'
    BY <1>1, <1>3 DEF Ownership, Holds, Closed, jobVars
  <1>11. TaskOk(p)'
    BY <1>3, <1>4, <1>5, <1>7, <1>8 DEF TaskOk, EvidenceStays, Whole
  <1>12. Mine(p)' /\ OnlyMoves(p)
    BY <1>1, <1>5, <1>7, <1>9, <1>10, <1>11, ExecutionMoves DEF TaskKept, BeatingKept
  <1>13. LoopTypes' /\ DeleteTypes'
    BY <1>1, <1>2 DEF Types, LoopTypes, DeleteTypes
  <1> QED
    BY <1>1, <1>5, <1>7, <1>12, <1>13, PublisherKeeps

LEMMA TaskAttachKeeps ==
  ASSUME ServiceInv, NEW p \in Process, TaskAttach(p)
  PROVE  [Next]_jobVars /\ ServiceInv'
  <1>1. UNCHANGED <<procVars, posted, loop, delete, pub, bounds>>
    BY DEF TaskAttach
  <1>2. Mine(p) /\ Types
    BY DEF ServiceInv
  <1>3. Whole(task[p].exec) /\ task[p].exec \in Executor
    BY <1>2, TaskIds DEF TaskAttach, Mine, TaskOk
  <1>4. EvidenceStays /\ BundlesStay
    BY <1>1, <1>3, AttachCalls DEF TaskAttach
  <1>5. TaskKept(p)
    BY <1>2, ForgetKeeps DEF TaskAttach, EndTask
  <1>6. BeatingKept(p) /\ ProcessTypes'
    BY <1>1, <1>2 DEF TaskAttach, EndTask, StopBeating, BeatingKept, Types, ProcessTypes,
                      procVars, bounds
  <1>7. Mine(p)' /\ OnlyMoves(p)
    BY <1>1, <1>4, <1>5, <1>6, ExecutionMoves
  <1>8. TaskTypes' /\ LoopTypes' /\ DeleteTypes'
    BY <1>1, <1>2, <1>5 DEF Types, TaskKept, LoopTypes, DeleteTypes
  <1> QED
    BY <1>1, <1>3, <1>6, <1>7, <1>8, AttacherKeeps DEF TaskAttach

(***************************************************************************)
(* Heartbeats and leases                                                   *)
(***************************************************************************)

\* A renewed or lapsed lease changes nothing that any execution relies on.
LEMMA LeaseKeeps ==
  ASSUME ServiceInv, [Next]_jobVars, NEW p \in Process,
         UNCHANGED <<procVars, posted, task, child, beating, loop, delete, pub, faults, cancels>>,
         stalls' \in 0..MaxStalls,
         UNCHANGED <<state, owner, path, row, attempts, runId, evidence>>
  PROVE  ServiceInv'
  <1>1. EvidenceStays /\ BundlesStay
    BY JobFacts, NoBundleWritten DEF ServiceInv
  <1>2. Mine(p) /\ Types
    BY DEF ServiceInv
  <1>3. TaskKept(p)
    <2>1. Children(p)' /\ TaskOk(p)'
      BY <1>1, <1>2, PartsStay DEF Children
    <2>2. Ownership(p)'
      BY <1>2 DEF Mine, Ownership, Holds, RowHeld
    <2> QED
      BY <1>2, <2>1, <2>2 DEF TaskKept, Types, TaskTypes, TasksRest, Goes
  <1>4. BeatingKept(p)
    BY <1>2 DEF BeatingKept, Mine, Identity
  <1>5. ProcessTypes' /\ AttemptTypes'
    BY <1>2 DEF Types, ProcessTypes, AttemptTypes, procVars
  <1>6. Fenced(p)
    BY DEF Fenced
  <1> QED
    BY <1>3, <1>4, <1>5, <1>6, ExecutionCalls

LEMMA RenewKeeps ==
  ASSUME ServiceInv, NEW p \in Process, HeartbeatRenews(p)
  PROVE  [Next]_jobVars /\ ServiceInv'
  <1>1. Mine(p) /\ Types
    BY DEF ServiceInv
  <1>2. task[p].exec \in Executor
    BY <1>1, TaskIds DEF HeartbeatRenews, Mine, Identity
  <1>3. [Next]_jobVars
    BY <1>2 DEF HeartbeatRenews, Next
  <1>4. stalls' \in 0..MaxStalls
    BY <1>1 DEF HeartbeatRenews, serviceVars, Types, ProcessTypes
  <1> QED
    BY <1>3, <1>4, LeaseKeeps DEF HeartbeatRenews, Heartbeat, serviceVars, procVars

\* No process is needed for a lease to lapse.
LEMMA LapseKeeps ==
  ASSUME ServiceInv, LeaseLapses
  PROVE  [Next]_jobVars /\ ServiceInv'
  <1>1. [Next]_jobVars
    BY DEF LeaseLapses, Next
  <1>2. stalls' \in 0..MaxStalls
    BY ServiceAssumption DEF LeaseLapses, ServiceInv, Types, ProcessTypes
  <1>3. UNCHANGED <<procVars, posted, task, child, beating, loop, delete, pub, faults, cancels>>
    BY DEF LeaseLapses
  <1>4. UNCHANGED <<state, owner, path, row, attempts, runId, evidence>>
    BY DEF LeaseLapses, LeaseExpires
  <1>5. CASE Process # {}
    BY <1>1, <1>2, <1>3, <1>4, <1>5, LeaseKeeps
  <1>6. CASE Process = {}
    <2>1. JobInv' /\ JudgedStay /\ EvidenceStays
      BY <1>1, JobFacts DEF ServiceInv
    <2>2. Types'
      BY <1>2, <1>3, <1>4
         DEF ServiceInv, Types, TaskTypes, LoopTypes, DeleteTypes, ProcessTypes, PubTypes,
             AttemptTypes, procVars
    <2>3. Verdicts'
      BY <1>4, <2>1, VerdictsStay DEF ServiceInv, Verdicts
    <2>4. AttachedRunsComplete' /\ CompletedMeansJudged'
      BY <1>3, <1>4 DEF ServiceInv, AttachedRunsComplete, CompletedMeansJudged, RowsIn
    <2> QED
      BY <1>1, <1>6, <2>1, <2>2, <2>3, <2>4 DEF ServiceInv
  <1> QED
    BY <1>5, <1>6

\* A lost lease, or a database error taken for one, cancels the execution.
LEMMA LostKeeps ==
  ASSUME ServiceInv, NEW p \in Process, Interrupt(p), StopBeating(p),
         faults' \in 0..MaxFaults,
         UNCHANGED <<jobVars, procVars, posted, loop, delete, pub, stalls, cancels>>
  PROVE  [Next]_jobVars /\ ServiceInv'
  <1>1. TaskKept(p)
    BY InterruptKeeps
  <1>2. BeatingKept(p) /\ ProcessTypes'
    BY DEF StopBeating, BeatingKept, ServiceInv, Types, ProcessTypes, procVars
  <1> QED
    BY <1>1, <1>2, ExecutionInner

LEMMA HeartbeatKeeps ==
  ASSUME ServiceInv, NEW p \in Process, HeartbeatLost(p) \/ HeartbeatFails(p)
  PROVE  [Next]_jobVars /\ ServiceInv'
  <1>1. faults \in 0..MaxFaults /\ MaxFaults \in Nat
    BY ServiceAssumption DEF ServiceInv, Types, ProcessTypes
  <1>2. CASE HeartbeatLost(p)
    BY <1>1, <1>2, LostKeeps DEF HeartbeatLost, bounds
  <1>3. CASE HeartbeatFails(p)
    <2>1. faults' \in 0..MaxFaults
      BY <1>1, <1>3 DEF HeartbeatFails
    <2> QED
      BY <1>3, <2>1, LostKeeps DEF HeartbeatFails
  <1> QED
    BY <1>2, <1>3

(***************************************************************************)
(* The recovery loop                                                       *)
(***************************************************************************)

\* A step of the recovery loop or the DELETE handler beside the execution, which
\* it does not move; if the execution still holds the job, its rows are as before.
LEMMA AsideMoves ==
  ASSUME ServiceInv, NEW p \in Process, UNCHANGED <<procVars, task, child, beating>>,
         EvidenceStays, BundlesStay, up[p],
         \A q \in Process \ {p} : loop'[q] = loop[q] /\ delete'[q] = delete[q],
         LoopPub(p)', DeletePub(p)', delete'[p].pc # "idle" => delete'[p].exec \in Executor,
         state' = "running" => UNCHANGED <<state, owner, row, attempts>>
  PROVE  Mine(p)' /\ OnlyMoves(p) /\ TaskTypes'
  <1>1. Mine(p) /\ Types
    BY DEF ServiceInv
  <1>2. Children(p)' /\ TaskOk(p)'
    BY <1>1, PartsStay DEF Children
  <1>3. Ownership(p)'
    BY <1>1 DEF Mine, Ownership, Holds, RowHeld
  <1>4. Identity(p)'
    BY <1>1 DEF Mine, Identity, Id, procVars
  <1>5. OnlyMoves(p)
    BY DEF OnlyMoves, Rests, procVars
  <1>6. TaskTypes'
    BY <1>1 DEF Types, TaskTypes
  <1> QED
    BY <1>2, <1>3, <1>4, <1>5, <1>6 DEF Mine

LoopRecord == [pc : {"idle", "adopting", "ending", "publishing", "attaching"},
               seen : JobState \cup {"none"}]

\* What a step of the recovery loop has to show of the loop itself.
LEMMA LoopMoves ==
  ASSUME ServiceInv, NEW p \in Process, NEW l \in LoopRecord, loop' = [loop EXCEPT ![p] = l],
         UNCHANGED <<procVars, posted, task, child, beating, delete, bounds>>,
         EvidenceStays, BundlesStay,
         loop[p].pc # "idle" \/ up[p],
         l.pc # "idle" => Closed',
         l.pc \in {"publishing", "attaching"} => l.seen \in JobState,
         l.pc = "attaching" => Whole(Id(p, "recovery"))',
         state' = "running" => UNCHANGED <<state, owner, row, attempts>>
  PROVE  /\ Mine(p)' /\ OnlyMoves(p)
         /\ TaskTypes' /\ LoopTypes' /\ DeleteTypes' /\ ProcessTypes'
  <1>1. Mine(p) /\ Types
    BY DEF ServiceInv
  <1>2. /\ loop'[p] = l /\ \A q \in Process \ {p} : loop'[q] = loop[q]
        /\ LoopTypes' /\ DeleteTypes' /\ ProcessTypes'
    BY <1>1 DEF Types, LoopTypes, LoopRecord, DeleteTypes, ProcessTypes, procVars, bounds
  <1>3. LoopPub(p)'
    BY <1>2 DEF LoopPub
  <1>4. DeletePub(p)'
    BY <1>1, PartsStay
  <1>5. up[p] /\ (delete[p].pc # "idle" => delete[p].exec \in Executor)
    BY <1>1 DEF Mine, Identity
  <1> QED
    BY <1>2, <1>3, <1>4, <1>5, AsideMoves

\* The recovery loop's executor id is that of the loop's process.
LEMMA LoopId ==
  ASSUME ServiceInv, NEW p \in Process
  PROVE  /\ Id(p, "recovery") \in Executor /\ Id(p, "recovery")[1] = p
         /\ loop[p] \in LoopRecord
  BY Ids DEF ServiceInv, Types, LoopTypes, LoopRecord, Role

\* The loop moves without calling the repository.
LEMMA LoopInner ==
  ASSUME ServiceInv, NEW p \in Process, NEW l \in LoopRecord, loop' = [loop EXCEPT ![p] = l],
         UNCHANGED <<jobVars, procVars, posted, task, child, beating, delete, pub, bounds>>,
         loop[p].pc # "idle" \/ up[p],
         l.pc # "idle" => Closed,
         l.pc = "publishing" => l.seen \in JobState,
         l.pc # "attaching"
  PROVE  [Next]_jobVars /\ ServiceInv'
  <1>1. EvidenceStays /\ BundlesStay
    BY JobFacts, NoBundleWritten DEF ServiceInv
  <1>2. /\ Mine(p)' /\ OnlyMoves(p)
        /\ TaskTypes' /\ LoopTypes' /\ DeleteTypes' /\ ProcessTypes'
    BY <1>1, LoopMoves DEF Closed, jobVars
  <1> QED
    BY <1>2, InnerKeeps

LEMMA RecoversKeeps ==
  ASSUME ServiceInv, NEW p \in Process, LoopRecovers(p)
  PROVE  [Next]_jobVars /\ ServiceInv'
  <1>1. CASE state = "cancelling"
    <2> DEFINE l == [loop[p] EXCEPT !.pc = "adopting"]
    <2>1. l \in LoopRecord /\ l.pc = "adopting"
      BY LoopId DEF LoopRecord
    <2>2. loop' = [loop EXCEPT ![p] = l] /\ up[p]
      BY <1>1 DEF LoopRecovers, ServiceInv, Types, LoopTypes
    <2>3. UNCHANGED <<jobVars, procVars, posted, task, child, beating, delete, pub, bounds>>
      BY <1>1 DEF LoopRecovers
    <2>4. Closed
      BY <1>1 DEF Closed
    <2> HIDE DEF l
    <2> QED
      BY <2>1, <2>2, <2>3, <2>4, LoopInner
  <1>2. CASE state # "cancelling"
    <2>1. ProcessTypes'
      BY DEF LoopRecovers, ServiceInv, Types, ProcessTypes, procVars, bounds
    <2> QED
      BY <1>2, <2>1, ScheduleKeeps DEF LoopRecovers
  <1> QED
    BY <1>1, <1>2

\* An abandoned cancellation is taken over in "cancelling", which never runs again.
LEMMA AdoptsKeeps ==
  ASSUME ServiceInv, NEW p \in Process, LoopAdopts(p)
  PROVE  [Next]_jobVars /\ ServiceInv'
  <1>1. Mine(p) /\ Types /\ JobInv /\ loop[p].pc = "adopting" /\ Closed
    BY DEF LoopAdopts, ServiceInv, Mine, LoopPub
  <1>2. Id(p, "recovery") \in Executor /\ loop[p] \in LoopRecord
    BY LoopId
  <1>3. CASE CanTakeOver
    <2> DEFINE l == [loop[p] EXCEPT !.pc = "ending"]
    <2>1. /\ TakeOverCancellation(Id(p, "recovery"))
          /\ UNCHANGED <<procVars, posted, task, child, beating, delete, pub, bounds>>
      BY <1>3 DEF LoopAdopts
    <2>2. l \in LoopRecord /\ l.pc = "ending" /\ loop' = [loop EXCEPT ![p] = l]
      BY <1>2, <1>3 DEF LoopAdopts, LoopRecord
    <2>3. [Next]_jobVars
      BY <1>2, <2>1 DEF Next
    <2>4. state' = "cancelling" /\ UNCHANGED <<path, row, attempts, runId, evidence>>
      BY <2>1 DEF TakeOverCancellation, CanTakeOver
    <2>5. EvidenceStays /\ BundlesStay
      BY <1>1, <2>1, <2>3, JobFacts, NoBundleWritten
    <2> HIDE DEF l
    <2>6. /\ Mine(p)' /\ OnlyMoves(p)
          /\ TaskTypes' /\ LoopTypes' /\ DeleteTypes' /\ ProcessTypes'
      BY <1>1, <2>1, <2>2, <2>4, <2>5, LoopMoves DEF Closed
    <2>7. AttemptTypes' /\ Fenced(p)
      BY <1>1, <2>4 DEF Types, AttemptTypes, Fenced
    <2> QED
      BY <2>1, <2>3, <2>4, <2>6, <2>7, CallKeeps
  <1>4. CASE ~CanTakeOver
    <2> DEFINE l == [pc |-> "publishing", seen |-> state]
    <2>1. /\ loop' = [loop EXCEPT ![p] = l]
          /\ UNCHANGED <<jobVars, procVars, posted, task, child, beating, delete, pub, bounds>>
      BY <1>4 DEF LoopAdopts
    <2>2. l \in LoopRecord /\ l.pc = "publishing" /\ l.seen \in JobState
      BY <1>1 DEF LoopRecord, JobInv, TypeOK
    <2> HIDE DEF l
    <2> QED
      BY <1>1, <2>1, <2>2, LoopInner
  <1> QED
    BY <1>3, <1>4

\* Its end is "cancelled": nothing that is not running can be completed.
LEMMA EndsKeeps ==
  ASSUME ServiceInv, NEW p \in Process, LoopEnds(p)
  PROVE  [Next]_jobVars /\ ServiceInv'
  <1>1. Mine(p) /\ Types /\ JobInv /\ loop[p].pc = "ending" /\ Closed
    BY DEF LoopEnds, ServiceInv, Mine, LoopPub
  <1>2. Id(p, "recovery") \in Executor /\ loop[p] \in LoopRecord
    BY LoopId
  <1>3. CASE CanEnd(Id(p, "recovery"))
    <2> DEFINE l == [pc |-> "publishing", seen |-> state']
    <2>1. /\ Finish(Id(p, "recovery"), FALSE)
          /\ loop' = [loop EXCEPT ![p] = l]
          /\ UNCHANGED <<procVars, posted, task, child, beating, delete, pub, bounds>>
      BY <1>3 DEF LoopEnds
    <2>2. [Next]_jobVars
      BY <1>2, <2>1 DEF Next
    <2>3. state' = "cancelled" /\ path' = None /\ UNCHANGED <<attempts, runId, evidence>>
      <3>1. state = "cancelling"
        BY <1>1, <1>3 DEF Closed, CanEnd, JobInv, TypeOK, JobState, Terminal
      <3>2. cancelRequested
        BY <1>1, <3>1 DEF JobInv, ControlInv, CancelFlagMatchesState
      <3> QED
        BY <2>1, <3>2 DEF Finish
    <2>4. l \in LoopRecord /\ l.pc = "publishing" /\ l.seen \in JobState
      BY <2>3 DEF LoopRecord, JobState
    <2>5. JudgedStay /\ EvidenceStays /\ BundlesStay
      BY <1>1, <2>1, <2>2, JobFacts, NoBundleWritten
    <2> HIDE DEF l
    <2>6. /\ Mine(p)' /\ OnlyMoves(p)
          /\ TaskTypes' /\ LoopTypes' /\ DeleteTypes' /\ ProcessTypes'
      BY <1>1, <2>1, <2>3, <2>4, <2>5, LoopMoves DEF Closed
    <2>7. Types' /\ Fenced(p)
      BY <1>1, <2>1, <2>3, <2>6 DEF Types, PubTypes, AttemptTypes, Fenced
    <2>8. Verdicts'
      BY <2>3, <2>5, VerdictsStay DEF ServiceInv, Verdicts
    <2> QED
      BY <2>2, <2>3, <2>5, <2>6, <2>7, <2>8, StepKeeps
  <1>4. CASE ~CanEnd(Id(p, "recovery"))
    <2>1. /\ loop' = [loop EXCEPT ![p] = IdleLoop]
          /\ UNCHANGED <<jobVars, procVars, posted, task, child, beating, delete, pub, bounds>>
      BY <1>4 DEF LoopEnds
    <2>2. IdleLoop \in LoopRecord /\ IdleLoop.pc = "idle"
      BY DEF IdleLoop, LoopRecord
    <2> QED
      BY <1>1, <2>1, <2>2, LoopInner
  <1> QED
    BY <1>3, <1>4

LEMMA FindsKeeps ==
  ASSUME ServiceInv, NEW p \in Process, LoopFindsUnpublished(p)
  PROVE  [Next]_jobVars /\ ServiceInv'
  <1> DEFINE l == [pc |-> "publishing", seen |-> state]
  <1>1. loop' = [loop EXCEPT ![p] = l] /\ up[p]
        /\ UNCHANGED <<jobVars, procVars, posted, task, child, beating, delete, pub, bounds>>
    BY DEF LoopFindsUnpublished
  <1>2. l \in LoopRecord /\ l.pc = "publishing" /\ l.seen \in JobState
    BY DEF LoopRecord, ServiceInv, JobInv, TypeOK
  <1>3. Closed
    BY DEF LoopFindsUnpublished, CanAttach, Closed, Terminal
  <1> HIDE DEF l
  <1> QED
    BY <1>1, <1>2, <1>3, LoopInner

LEMMA LoopPublishesKeeps ==
  ASSUME ServiceInv, NEW p \in Process, LoopPublishes(p)
  PROVE  [Next]_jobVars /\ ServiceInv'
  <1>1. /\ loop[p].pc = "publishing"
        /\ UNCHANGED <<jobVars, procVars, posted, task, child, beating, delete, bounds>>
    BY DEF LoopPublishes
  <1>2. Mine(p) /\ Closed /\ loop[p].seen \in JobState
    BY <1>1 DEF ServiceInv, Mine, LoopPub
  <1>3. PICK e \in Executor : e = Id(p, "recovery")
    BY LoopId
  <1>4. PubTypes' /\ Whole(e)' /\ EvidenceStays /\ BundlesStay
    BY <1>1, <1>2, <1>3, PublishWrites DEF LoopPublishes
  <1>5. Whole(Id(p, "recovery"))'
    BY <1>1, <1>3, <1>4 DEF Whole, Id, procVars
  <1> DEFINE l == [loop[p] EXCEPT !.pc = "attaching"]
  <1>6. /\ l \in LoopRecord /\ l.pc = "attaching" /\ l.seen \in JobState
        /\ loop' = [loop EXCEPT ![p] = l]
    BY <1>2, LoopId DEF LoopPublishes, LoopRecord
  <1>7. Closed' /\ (state' = "running" => UNCHANGED <<state, owner, row, attempts>>)
    BY <1>1, <1>2 DEF Closed, jobVars
  <1> HIDE DEF l
  <1>8. /\ Mine(p)' /\ OnlyMoves(p)
        /\ TaskTypes' /\ LoopTypes' /\ DeleteTypes' /\ ProcessTypes'
    BY <1>1, <1>4, <1>5, <1>6, <1>7, LoopMoves
  <1> QED
    BY <1>1, <1>4, <1>8, PublisherKeeps

LEMMA LoopAttachesKeeps ==
  ASSUME ServiceInv, NEW p \in Process, LoopAttaches(p)
  PROVE  [Next]_jobVars /\ ServiceInv'
  <1>1. /\ loop[p].pc = "attaching" /\ loop' = [loop EXCEPT ![p] = IdleLoop]
        /\ UNCHANGED <<procVars, posted, task, child, beating, delete, pub, bounds>>
        /\ Attach(Id(p, "recovery"))
    BY DEF LoopAttaches
  <1>2. Whole(Id(p, "recovery")) /\ Id(p, "recovery") \in Executor
    BY <1>1, LoopId DEF ServiceInv, Mine, LoopPub
  <1>3. /\ [Next]_jobVars /\ EvidenceStays /\ BundlesStay
        /\ UNCHANGED <<state, owner, row, attempts>>
    BY <1>1, <1>2, AttachCalls
  <1>4. IdleLoop \in LoopRecord /\ IdleLoop.pc = "idle"
    BY DEF IdleLoop, LoopRecord
  <1>5. /\ Mine(p)' /\ OnlyMoves(p)
        /\ TaskTypes' /\ LoopTypes' /\ DeleteTypes' /\ ProcessTypes'
    BY <1>1, <1>3, <1>4, LoopMoves
  <1> QED
    BY <1>1, <1>2, <1>5, AttacherKeeps

(***************************************************************************)
(* DELETE                                                                  *)
(***************************************************************************)

DeleteRecord == [pc : {"idle", "requested", "publishing", "attaching"},
                 exec : Executor \cup {None}, service : BOOLEAN, seen : JobState \cup {"none"}]

\* What a step of the DELETE handler beside the execution has to show of itself.
LEMMA DeleteMoves ==
  ASSUME ServiceInv, NEW p \in Process, NEW d \in DeleteRecord,
         delete' = [delete EXCEPT ![p] = d],
         UNCHANGED <<procVars, posted, task, child, beating, loop, stalls, faults>>,
         cancels' \in 0..MaxCancels,
         EvidenceStays, BundlesStay, up[p],
         d.pc # "idle" => d.seen \in JobState /\ d.exec \in Executor,
         d.seen = "cancelled" \/ d.pc \in {"publishing", "attaching"} => Closed',
         \A e \in Executor : d.pc = "attaching" /\ e = d.exec => Whole(e)',
         state' = "running" => UNCHANGED <<state, owner, row, attempts>>
  PROVE  /\ Mine(p)' /\ OnlyMoves(p)
         /\ TaskTypes' /\ LoopTypes' /\ DeleteTypes' /\ ProcessTypes'
  <1>1. Mine(p) /\ Types
    BY DEF ServiceInv
  <1>2. /\ delete'[p] = d /\ \A q \in Process \ {p} : delete'[q] = delete[q]
        /\ LoopTypes' /\ DeleteTypes' /\ ProcessTypes'
    BY <1>1 DEF Types, DeleteTypes, DeleteRecord, LoopTypes, ProcessTypes, procVars
  <1>3. DeletePub(p)'
    BY <1>2 DEF DeletePub, Whole
  <1>4. LoopPub(p)'
    BY <1>1, PartsStay DEF procVars
  <1> QED
    BY <1>2, <1>3, <1>4, AsideMoves

\* What the DELETE handler knows between its steps.
LEMMA DeleteKnows ==
  ASSUME ServiceInv, NEW p \in Process
  PROVE  /\ Mine(p) /\ Types /\ JobInv /\ delete[p] \in DeleteRecord
         /\ delete[p].pc # "idle" =>
              up[p] /\ delete[p].exec \in Executor /\ delete[p].seen \in JobState
         /\ delete[p].pc \in {"publishing", "attaching"} => Closed
         /\ delete[p].pc = "attaching" => Whole(delete[p].exec)
  <1>1. Mine(p) /\ Types /\ JobInv /\ delete[p] \in DeleteRecord
    BY DEF ServiceInv, Types, DeleteTypes, DeleteRecord
  <1> QED
    BY <1>1 DEF Mine, Identity, DeletePub

\* An idle handler remembers nothing.
LEMMA IdleDeleteType == IdleDelete \in DeleteRecord /\ IdleDelete.pc = "idle"
                        /\ IdleDelete.seen = "none"
  BY DEF IdleDelete, DeleteRecord

\* request_cancel leaves no running job, whatever it finds.
LEMMA PersistsKeeps ==
  ASSUME ServiceInv, NEW p \in Process, DeletePersists(p)
  PROVE  [Next]_jobVars /\ ServiceInv'
  <1> DEFINE d == [pc |-> "requested", service |-> IsActive(p), seen |-> state',
                   exec |-> IF IsActive(p) THEN task[p].exec ELSE Id(p, "delete")]
  <1>1. /\ RequestCancel /\ delete' = [delete EXCEPT ![p] = d] /\ up[p]
        /\ UNCHANGED <<procVars, posted, task, child, beating, loop, pub, stalls, faults>>
    BY DEF DeletePersists
  <1>2. Mine(p) /\ Types /\ JobInv
    BY DEF ServiceInv
  <1>3. [Next]_jobVars
    BY <1>1 DEF Next
  <1>4. JudgedStay /\ EvidenceStays /\ BundlesStay /\ JobInv'
    BY <1>1, <1>2, <1>3, JobFacts, NoBundleWritten
  <1>5. /\ state' \in JobState /\ state' # "running" /\ (state' = "completed" => state = "completed")
        /\ UNCHANGED <<owner, path, attempts, runId>>
    BY <1>1, <1>2 DEF RequestCancel, JobInv, TypeOK, JobState
  <1>6. (IF IsActive(p) THEN task[p].exec ELSE Id(p, "delete")) \in Executor
    BY <1>2, TaskIds, Ids DEF IsActive, Mine, Role
  <1>7. d.pc = "requested" /\ d.seen = state' /\ d.exec \in Executor /\ d \in DeleteRecord
    BY <1>5, <1>6 DEF DeleteRecord, IsActive
  <1>8. cancels' \in 0..MaxCancels
    BY <1>2, ServiceAssumption DEF DeletePersists, Types, ProcessTypes
  <1> HIDE DEF d
  <1>9. /\ Mine(p)' /\ OnlyMoves(p)
        /\ TaskTypes' /\ LoopTypes' /\ DeleteTypes' /\ ProcessTypes'
    BY <1>1, <1>4, <1>5, <1>7, <1>8, DeleteMoves DEF Closed
  <1>10. AttemptTypes' /\ Fenced(p)
    BY <1>2, <1>5 DEF Types, AttemptTypes, Fenced
  <1> QED
    BY <1>1, <1>3, <1>5, <1>9, <1>10, CallKeeps

\* The cancellation reaches the execution, if there was one when it was persisted.
LEMMA PropagatesKeeps ==
  ASSUME ServiceInv, NEW p \in Process, DeletePropagates(p)
  PROVE  [Next]_jobVars /\ ServiceInv'
  <1> DEFINE d == IF delete[p].seen = "cancelled"
                    THEN [delete[p] EXCEPT !.pc = "publishing"] ELSE IdleDelete
  <1>1. /\ delete' = [delete EXCEPT ![p] = d]
        /\ UNCHANGED <<jobVars, procVars, posted, loop, pub, bounds>>
        /\ delete[p].pc = "requested"
    BY DEF DeletePropagates
  <1>2. /\ Mine(p) /\ Types /\ JobInv /\ delete[p] \in DeleteRecord /\ up[p]
        /\ delete[p].exec \in Executor /\ delete[p].seen \in JobState
    BY <1>1, DeleteKnows
  <1>3. EvidenceStays /\ BundlesStay
    BY <1>1, <1>2, JobFacts, NoBundleWritten
  <1>4. /\ d \in DeleteRecord /\ d.pc \in {"idle", "publishing"}
        /\ d.pc = "publishing" => d.seen = "cancelled" /\ d.exec = delete[p].exec
        /\ d.pc = "publishing" => delete[p].seen = "cancelled"
        /\ d.pc = "idle" => d.seen = "none"
    BY <1>2, IdleDeleteType DEF DeleteRecord
  <1>5. delete[p].seen = "cancelled" => Closed
    BY <1>2 DEF Mine, DeletePub
  <1>6. TaskKept(p) /\ (task'[p] = task[p] \/ task'[p].pc # "scheduled")
    <2>1. CASE delete[p].service
      BY <1>1, <2>1, InterruptKeeps DEF DeletePropagates
    <2>2. CASE ~delete[p].service
      <3>1. UNCHANGED <<task, child, beating>>
        BY <2>2 DEF DeletePropagates
      <3>2. Children(p)' /\ TaskOk(p)'
        BY <1>2, <1>3, <3>1, PartsStay DEF Children
      <3>3. Ownership(p)'
        BY <1>1, <1>2, <3>1 DEF Mine, Ownership, Holds, RowHeld, jobVars
      <3> QED
        BY <1>2, <3>1, <3>2, <3>3 DEF TaskKept, Types, TaskTypes, TasksRest, Goes
    <2> QED
      BY <2>1, <2>2
  <1>7. /\ beating' \in [Process -> BOOLEAN] /\ \A q \in Process \ {p} : beating'[q] = beating[q]
        /\ beating'[p] => task'[p].pc \notin {"off", "scheduled"}
    <2>1. CASE delete[p].service
      <3>1. beating' = [beating EXCEPT ![p] = @ /\ task'[p].pc # "off"]
        BY <2>1 DEF DeletePropagates
      <3>2. beating[p] => task[p].pc \notin {"off", "scheduled"}
        BY <1>2 DEF Mine, Identity
      <3> QED
        BY <1>2, <1>6, <3>1, <3>2 DEF Types, ProcessTypes
    <2>2. CASE ~delete[p].service
      BY <1>2, <2>2 DEF DeletePropagates, Types, ProcessTypes, Mine, Identity
    <2> QED
      BY <2>1, <2>2
  <1> HIDE DEF d
  <1>8. /\ delete'[p] = d /\ \A q \in Process \ {p} : delete'[q] = delete[q]
        /\ LoopTypes' /\ DeleteTypes' /\ ProcessTypes'
    BY <1>1, <1>2, <1>4, <1>7
       DEF Types, DeleteTypes, DeleteRecord, LoopTypes, ProcessTypes, procVars, bounds
  <1>9. Identity(p)'
    BY <1>1, <1>2, <1>4, <1>6, <1>7, <1>8 DEF Mine, Identity, TaskKept, Goes, NoTask, Id, procVars
  <1>10. DeletePub(p)'
    BY <1>1, <1>4, <1>5, <1>8 DEF DeletePub, Closed, JobState, jobVars
  <1>11. LoopPub(p)'
    BY <1>1, <1>2, <1>3, PartsStay DEF procVars
  <1>12. OnlyMoves(p)
    BY <1>1, <1>6, <1>7, <1>8 DEF OnlyMoves, Rests, TaskKept, TasksRest, procVars
  <1> QED
    BY <1>1, <1>6, <1>8, <1>9, <1>10, <1>11, <1>12, InnerKeeps DEF Mine, TaskKept

LEMMA DeletePublishesKeeps ==
  ASSUME ServiceInv, NEW p \in Process, DeletePublishes(p)
  PROVE  [Next]_jobVars /\ ServiceInv'
  <1>1. /\ delete[p].pc = "publishing" /\ Publish(delete[p].exec, delete[p].seen)
        /\ UNCHANGED <<jobVars, procVars, posted, task, child, beating, loop, bounds>>
    BY DEF DeletePublishes
  <1>2. /\ Mine(p) /\ Types /\ JobInv /\ delete[p] \in DeleteRecord /\ up[p] /\ Closed
        /\ delete[p].exec \in Executor /\ delete[p].seen \in JobState
    BY <1>1, DeleteKnows
  <1>3. PICK e \in Executor : e = delete[p].exec
    BY <1>2
  <1>4. PubTypes' /\ Whole(e)' /\ EvidenceStays /\ BundlesStay
    BY <1>1, <1>2, <1>3, PublishWrites
  <1> DEFINE d == [delete[p] EXCEPT !.pc = "attaching"]
  <1>5. /\ d \in DeleteRecord /\ d.pc = "attaching" /\ d.exec = e /\ d.seen \in JobState
        /\ delete' = [delete EXCEPT ![p] = d]
    BY <1>2, <1>3 DEF DeletePublishes, DeleteRecord
  <1>6. /\ Closed' /\ cancels' \in 0..MaxCancels
        /\ state' = "running" => UNCHANGED <<state, owner, row, attempts>>
    BY <1>1, <1>2 DEF Closed, jobVars, bounds, Types, ProcessTypes
  <1>7. \A f \in Executor : f = d.exec => Whole(f)'
    BY <1>4, <1>5
  <1> HIDE DEF d
  <1>8. /\ Mine(p)' /\ OnlyMoves(p)
        /\ TaskTypes' /\ LoopTypes' /\ DeleteTypes' /\ ProcessTypes'
    BY <1>1, <1>2, <1>4, <1>5, <1>6, <1>7, DeleteMoves DEF bounds
  <1> QED
    BY <1>1, <1>4, <1>8, PublisherKeeps

LEMMA DeleteAttachesKeeps ==
  ASSUME ServiceInv, NEW p \in Process, DeleteAttaches(p)
  PROVE  [Next]_jobVars /\ ServiceInv'
  <1>1. /\ delete[p].pc = "attaching" /\ delete' = [delete EXCEPT ![p] = IdleDelete]
        /\ UNCHANGED <<procVars, posted, task, child, beating, loop, pub, bounds>>
        /\ Attach(delete[p].exec)
    BY DEF DeleteAttaches
  <1>2. delete[p].exec \in Executor /\ Whole(delete[p].exec) /\ up[p] /\ Types
    BY <1>1, DeleteKnows
  <1>3. /\ [Next]_jobVars /\ EvidenceStays /\ BundlesStay
        /\ UNCHANGED <<state, owner, row, attempts>>
    BY <1>1, <1>2, AttachCalls
  <1>4. cancels' \in 0..MaxCancels
    BY <1>1, <1>2 DEF bounds, Types, ProcessTypes
  <1>5. /\ Mine(p)' /\ OnlyMoves(p)
        /\ TaskTypes' /\ LoopTypes' /\ DeleteTypes' /\ ProcessTypes'
    BY <1>1, <1>2, <1>3, <1>4, IdleDeleteType, DeleteMoves DEF bounds
  <1> QED
    BY <1>1, <1>2, <1>5, AttacherKeeps

(***************************************************************************)
(* Crash and restart                                                       *)
(***************************************************************************)

\* What a process had in memory is gone; its rows and its bundles are not.
LEMMA CrashKeeps ==
  ASSUME ServiceInv, NEW p \in Process, Crash(p)
  PROVE  [Next]_jobVars /\ ServiceInv'
  <1>1. /\ up[p] /\ life[p] < MaxCrashes /\ up' = [up EXCEPT ![p] = FALSE] /\ EndTask(p)
        /\ loop' = [loop EXCEPT ![p] = IdleLoop] /\ delete' = [delete EXCEPT ![p] = IdleDelete]
        /\ UNCHANGED <<jobVars, life, posted, pub, bounds>>
    BY DEF Crash
  <1>2. Mine(p) /\ Types
    BY DEF ServiceInv
  <1>3. TaskKept(p) /\ task'[p] = NoTask
    BY <1>1, <1>2, ForgetKeeps DEF EndTask
  <1>4. LoopTypes' /\ DeleteTypes' /\ ProcessTypes'
    <2>1. LoopTypes'
      BY <1>1, <1>2 DEF Types, LoopTypes, IdleLoop
    <2>2. DeleteTypes'
      BY <1>1, <1>2, IdleDeleteType DEF Types, DeleteTypes, DeleteRecord
    <2> QED
      BY <1>1, <1>2, <2>1, <2>2 DEF EndTask, StopBeating, Types, ProcessTypes, bounds
  <1>5. /\ loop'[p].pc = "idle" /\ delete'[p].pc = "idle" /\ delete'[p].seen = "none"
        /\ ~beating'[p] /\ ~up'[p] /\ life'[p] < MaxCrashes
    BY <1>1, <1>2 DEF Types, LoopTypes, DeleteTypes, ProcessTypes, IdleLoop, IdleDelete, EndTask,
                      StopBeating
  <1>6. Identity(p)' /\ LoopPub(p)' /\ DeletePub(p)'
    BY <1>3, <1>5 DEF Identity, LoopPub, DeletePub, NoTask
  <1>7. OnlyMoves(p)
    BY <1>1, <1>2, <1>3 DEF OnlyMoves, Rests, TaskKept, TasksRest, EndTask, StopBeating, Types,
                            LoopTypes, DeleteTypes, ProcessTypes
  <1> QED
    BY <1>1, <1>3, <1>4, <1>6, <1>7, InnerKeeps DEF Mine, TaskKept

\* A restarted process has nothing to go on with, under ids that are new.
LEMMA RestartKeeps ==
  ASSUME ServiceInv, NEW p \in Process, Restart(p)
  PROVE  [Next]_jobVars /\ ServiceInv'
  <1>1. /\ ~up[p] /\ up' = [up EXCEPT ![p] = TRUE] /\ life' = [life EXCEPT ![p] = @ + 1]
        /\ UNCHANGED <<jobVars, posted, task, child, beating, loop, delete, pub, bounds>>
    BY DEF Restart
  <1>2. Mine(p) /\ Types
    BY DEF ServiceInv
  <1>3. task[p].pc = "off" /\ loop[p].pc = "idle" /\ delete[p].pc = "idle" /\ life[p] < MaxCrashes
    BY <1>1, <1>2 DEF Mine, Identity
  <1>4. TaskTypes' /\ LoopTypes' /\ DeleteTypes' /\ ProcessTypes'
    <2>1. life[p] + 1 \in 0..MaxCrashes
      BY <1>2, <1>3, ServiceAssumption DEF Types, ProcessTypes
    <2> QED
      BY <1>1, <1>2, <2>1 DEF Types, TaskTypes, LoopTypes, DeleteTypes, ProcessTypes, bounds
  <1>5. EvidenceStays /\ BundlesStay
    BY <1>1, JobFacts, NoBundleWritten DEF ServiceInv
  <1>6. Children(p)' /\ TaskOk(p)' /\ DeletePub(p)'
    BY <1>1, <1>2, <1>5, PartsStay DEF Children
  <1>7. Identity(p)' /\ Ownership(p)' /\ LoopPub(p)'
    BY <1>1, <1>2, <1>3
       DEF Mine, Identity, Ownership, Holds, LoopPub, Types, ProcessTypes
  <1>8. OnlyMoves(p)
    BY <1>1, <1>2 DEF OnlyMoves, Rests, Types, ProcessTypes
  <1> QED
    BY <1>1, <1>4, <1>6, <1>7, <1>8, InnerKeeps DEF Mine

(***************************************************************************)
(* The theorems                                                            *)
(***************************************************************************)

\* A created job that nobody drives yet.
LEMMA ServiceInvInit == ServiceInit => ServiceInv
  <1> SUFFICES ASSUME ServiceInit
               PROVE  ServiceInv
    OBVIOUS
  <1> USE DEF ServiceInit
  <1>1. JobInv
    BY JobInvInit
  <1>2. Types
    <2>1. NoTask \in TaskRecord /\ NoChild \in ChildRecord
      BY ServiceAssumption, BoundAssumption
         DEF NoTask, NoChild, TaskRecord, ChildRecord, TaskPc, ChildPc
    <2>2. TaskTypes
      BY <2>1 DEF TaskTypes
    <2>3. LoopTypes /\ DeleteTypes
      BY IdleDeleteType DEF LoopTypes, DeleteTypes, DeleteRecord, IdleLoop
    <2>4. ProcessTypes /\ PubTypes
      <3>1. /\ 0 \in 0..MaxCrashes /\ 0 \in 0..MaxStalls /\ 0 \in 0..MaxFaults
            /\ 0 \in 0..MaxCancels
        BY ServiceAssumption
      <3> QED
        BY <3>1 DEF ProcessTypes, PubTypes
    <2>5. AttemptTypes
      BY BoundAssumption DEF Init, AttemptTypes
    <2> QED
      BY <2>2, <2>3, <2>4, <2>5 DEF Types
  <1>3. ASSUME NEW p \in Process
        PROVE  Mine(p)
    <2>1. /\ task[p] = NoTask /\ loop[p] = IdleLoop /\ delete[p] = IdleDelete
          /\ ~beating[p] /\ up[p] /\ \A s \in Scenario : child[p][s] = NoChild
      OBVIOUS
    <2> QED
      BY <2>1 DEF Mine, Identity, Children, ChildOk, Ownership, Holds, TaskOk, LoopPub, DeletePub,
                  NoTask, NoChild, IdleLoop, IdleDelete, Started
  <1>4. Verdicts /\ AttachedRunsComplete /\ CompletedMeansJudged
    BY DEF Init, Verdicts, VerdictOk, AttachedRunsComplete, CompletedMeansJudged
  <1> QED
    BY <1>1, <1>2, <1>3, <1>4 DEF ServiceInv

\* Every step of the processes is one call of the repository, or none, and keeps the
\* invariant.
LEMMA ServiceStep ==
  ASSUME ServiceInv, [ServiceNext]_allVars
  PROVE  [Next]_jobVars /\ ServiceInv'
  <1> DEFINE Kept == [Next]_jobVars /\ ServiceInv'
  <1>1. ASSUME NEW p \in Process, Post(p) \/ TaskRuns(p) \/ LoopRuns(p) \/ DeleteRuns(p)
        PROVE  Kept
    <2>1. CASE Post(p)
      BY <2>1, PostKeeps
    <2>2. CASE TaskRuns(p)
      BY <2>2, ClaimKeeps, LoadKeeps, ChildrenDoneKeeps, SettleKeeps, HandlerKeeps,
         TaskPublishKeeps, TaskAttachKeeps DEF TaskRuns
    <2>3. CASE LoopRuns(p)
      BY <2>3, RecoversKeeps, AdoptsKeeps, EndsKeeps, FindsKeeps, LoopPublishesKeeps,
         LoopAttachesKeeps DEF LoopRuns
    <2>4. CASE DeleteRuns(p)
      BY <2>4, PropagatesKeeps, DeletePublishesKeeps, DeleteAttachesKeeps DEF DeleteRuns
    <2> QED
      BY <1>1, <2>1, <2>2, <2>3, <2>4
  <1>2. ASSUME NEW p \in Process, NEW s \in Scenario,
               Child(p, s) \/ BudgetExceeded(p, s) \/ ChildKilled(p, s)
        PROVE  Kept
    BY <1>2, StartKeeps, ProduceKeeps, RegisterKeeps, RetryKeeps, FinishKeeps, BudgetKeeps,
       KilledKeeps DEF Child
  <1>3. ASSUME NEW p \in Process,
               \/ DeadlineExpires(p) \/ HeartbeatRenews(p) \/ HeartbeatLost(p) \/ HeartbeatFails(p)
               \/ DeletePersists(p) \/ Crash(p) \/ Restart(p)
        PROVE  Kept
    BY <1>3, DeadlineKeeps, RenewKeeps, HeartbeatKeeps, PersistsKeeps, CrashKeeps, RestartKeeps
  <1>4. CASE LeaseLapses
    BY <1>4, LapseKeeps
  <1>5. CASE UNCHANGED allVars
    <2>1. UNCHANGED <<state, owner, path, row, attempts, runId, evidence>>
      BY <1>5 DEF allVars, jobVars
    <2>2. UNCHANGED <<jobVars, procVars, posted, task, child, beating, loop, delete, pub,
                      stalls, faults, cancels>>
      BY <1>5 DEF allVars, serviceVars, procVars
    <2>3. JobInv' /\ JudgedStay /\ EvidenceStays
      BY <2>2, JobFacts DEF ServiceInv
    <2>4. Types' /\ AttachedRunsComplete' /\ CompletedMeansJudged'
      BY <2>1, <2>2
         DEF ServiceInv, Types, TaskTypes, LoopTypes, DeleteTypes, ProcessTypes, PubTypes,
             AttemptTypes, procVars, AttachedRunsComplete, CompletedMeansJudged, RowsIn
    <2>5. Verdicts'
      BY <2>1, <2>3, VerdictsStay DEF ServiceInv, Verdicts
    <2>6. ASSUME NEW p \in Process
          PROVE  Mine(p)'
      <3>1. Mine(p) /\ Types /\ BundlesStay
        BY <2>2, <2>3, NoBundleWritten DEF ServiceInv
      <3>2. Children(p)' /\ TaskOk(p)' /\ LoopPub(p)' /\ DeletePub(p)'
        BY <2>2, <2>3, <3>1, PartsStay DEF Children, procVars
      <3>3. Identity(p)' /\ Ownership(p)'
        BY <2>1, <2>2, <3>1 DEF Mine, Identity, Ownership, Holds, RowHeld, Id, procVars
      <3> QED
        BY <3>2, <3>3 DEF Mine
    <2> QED
      BY <2>2, <2>3, <2>4, <2>5, <2>6 DEF ServiceInv
  <1> QED
    BY <1>1, <1>2, <1>3, <1>4, <1>5 DEF ServiceNext

\* The inductive invariant holds of every reachable state.
THEOREM ServiceSafety == ServiceSpec => []ServiceInv
  <1>1. ServiceInv /\ [ServiceNext]_allVars => ServiceInv'
    BY ServiceStep
  <1> QED
    BY <1>1, ServiceInvInit, PTL DEF ServiceSpec

\* The processes are callers as SuiteJobs allows them: everything shown there of
\* any callers holds of these.
THEOREM ServiceUsesJobs == ServiceSpec => Spec
  <1>1. ServiceInit => Init
    BY DEF ServiceInit
  <1>2. ServiceInv /\ [ServiceNext]_allVars => [Next]_jobVars
    BY ServiceStep
  <1> QED
    BY <1>1, <1>2, ServiceSafety, PTL DEF ServiceSpec, Spec

\* Every task, handler and loop keeps the shape its code gives it.
THEOREM ServiceTypes == ServiceSpec => []ServiceTypeOK
  <1>1. ServiceInv => ServiceTypeOK
    BY DEF ServiceInv, JobInv, Types, TaskTypes, TaskRecord, ChildRecord, LoopTypes, DeleteTypes,
           ProcessTypes, PubTypes, ServiceTypeOK
  <1> QED
    BY <1>1, ServiceSafety, PTL

\* DurableSuiteService completes a job only when every scenario has a verdict,
\* whichever executors ran it and however often it was taken over.
THEOREM CompletedJobsAreJudged == ServiceSpec => []CompletedMeansJudged
  <1>1. ServiceInv => CompletedMeansJudged
    BY DEF ServiceInv
  <1> QED
    BY <1>1, ServiceSafety, PTL

\* No late run of a replaced executor is a verdict: scenario_finished stores the run
\* of the scenario's latest attempt.
THEOREM VerdictsAreLatest == ServiceSpec => []VerdictFromLatestAttempt
  <1>1. ServiceInv => VerdictFromLatestAttempt
    BY DEF ServiceInv, Verdicts, VerdictOk, VerdictFromLatestAttempt
  <1> QED
    BY <1>1, ServiceSafety, PTL

\* A verdict's run is registered before it counts.
THEOREM VerdictsAreRegistered == ServiceSpec => []VerdictRunRegistered
  <1>1. ServiceInv => VerdictRunRegistered
    BY DEF ServiceInv, Verdicts, VerdictOk, VerdictRunRegistered
  <1> QED
    BY <1>1, ServiceSafety, PTL

\* run_scenario gives up on an infrastructure failure only after Retries more, each
\* of them in the evidence, takeovers between attempts included.
THEOREM RetriesAreExhausted == ServiceSpec => []RetriesExhausted
  <1>1. ServiceInv => RetriesExhausted
    BY DEF ServiceInv, Verdicts, VerdictOk, RetriesExhausted
  <1> QED
    BY <1>1, ServiceSafety, PTL

\* ensure_terminal_evidence attaches a bundle with every registered run, whoever
\* publishes and however many do.
THEOREM AttachedBundlesAreWhole == ServiceSpec => []AttachedRunsComplete
  <1>1. ServiceInv => AttachedRunsComplete
    BY DEF ServiceInv
  <1> QED
    BY <1>1, ServiceSafety, PTL

\* Only register_run_evidence writes evidence, and only for a child whose execution
\* holds the job.
LEMMA EvidenceStep ==
  ASSUME ServiceInv, ServiceNext
  PROVE  \A s \in Scenario, r \in Run : <<s, r>> \in evidence' \ evidence => r[2] = attempts[s]
  <1> DEFINE Kept ==
        \A s \in Scenario, r \in Run : <<s, r>> \in evidence' \ evidence => r[2] = attempts[s]
  <1>1. ASSUME UNCHANGED evidence
        PROVE  Kept
    BY <1>1
  <1>2. ASSUME NEW p \in Process, TaskRuns(p)
        PROVE  UNCHANGED evidence
    BY <1>2 DEF TaskRuns, TaskClaim, Claim, TaskLoad, ChildrenDone, TaskSettle, TaskHandle, Finish,
                TaskPublish, TaskAttach, Attach, AttachEvidence, jobVars
  <1>3. ASSUME NEW p \in Process, LoopRuns(p) \/ DeleteRuns(p) \/ DeletePersists(p)
        PROVE  UNCHANGED evidence
    BY <1>3 DEF LoopRuns, LoopRecovers, LoopAdopts, TakeOverCancellation, LoopEnds, Finish,
                LoopFindsUnpublished, LoopPublishes, LoopAttaches, Attach, AttachEvidence,
                DeleteRuns, DeletePropagates, DeletePublishes, DeleteAttaches, DeletePersists,
                RequestCancel, jobVars
  <1>4. ASSUME NEW p \in Process,
               \/ Post(p) \/ DeadlineExpires(p) \/ HeartbeatRenews(p) \/ HeartbeatLost(p)
               \/ HeartbeatFails(p) \/ Crash(p) \/ Restart(p)
        PROVE  UNCHANGED evidence
    BY <1>4 DEF Post, DeadlineExpires, HeartbeatRenews, Heartbeat, HeartbeatLost, HeartbeatFails,
                Crash, Restart, jobVars
  <1>5. CASE LeaseLapses
    BY <1>1, <1>5 DEF LeaseLapses, LeaseExpires
  <1>6. ASSUME NEW p \in Process, NEW s \in Scenario,
               \/ ChildStart(p, s) \/ ChildProduce(p, s) \/ ChildRetry(p, s) \/ ChildFinish(p, s)
               \/ BudgetExceeded(p, s) \/ ChildKilled(p, s)
        PROVE  UNCHANGED evidence
    BY <1>6 DEF ChildStart, ScenarioStarted, ChildProduce, ChildRetry, ScenarioRetrying,
                ChildFinish, ScenarioFinished, BudgetExceeded, ChildKilled, jobVars
  <1>7. ASSUME NEW p \in Process, NEW s \in Scenario, ChildRegister(p, s)
        PROVE  Kept
    <2> DEFINE r == child[p][s].run
    <2>1. child[p][s].pc = "produced"
      BY <1>7 DEF ChildRegister
    <2>2. CASE CanRegister(task[p].exec, r)
      <3>1. evidence' = evidence \cup {<<s, r>>} /\ MayRecord(task[p].exec)
        BY <1>7, <2>2 DEF ChildRegister, RegisterRunEvidence, CanRegister
      <3>2. Holds(p) /\ Mine(p)
        BY <2>1, <3>1, StartedChild DEF Started, MayRecord, Holds, InExecution
      <3>3. r[2] = attempts[s]
        BY <2>1, <3>2, ChildRun DEF Mine, Ownership, RowHeld, Started
      <3> QED
        BY <3>1, <3>3
    <2>3. CASE ~CanRegister(task[p].exec, r)
      BY <1>7, <2>3 DEF ChildRegister, jobVars
    <2> QED
      BY <2>2, <2>3
  <1> QED
    BY <1>1, <1>2, <1>3, <1>4, <1>5, <1>6, <1>7 DEF ServiceNext, Child

\* register_run_evidence is fenced: what a replaced executor still runs stays out
\* of the evidence.
THEOREM LateRunsStayOut == ServiceSpec => EvidenceIsFenced
  <1> DEFINE Kept ==
        \A s \in Scenario, r \in Run : <<s, r>> \in evidence' \ evidence => r[2] = attempts[s]
  <1>1. ServiceInv /\ [ServiceNext]_allVars => [Kept]_allVars
    <2> SUFFICES ASSUME ServiceInv, ServiceNext
                 PROVE  Kept
      OBVIOUS
    <2> QED
      BY EvidenceStep
  <1> QED
    BY <1>1, ServiceSafety, PTL DEF ServiceSpec, EvidenceIsFenced

\* No DELETE that races the end of a job rewrites a row of the finished job.
THEOREM FinishedRowsAreFrozen == ServiceSpec => TerminalRowsFrozen
  <1> DEFINE Kept == (state \in Terminal) => row' = row
  <1>1. JobInv /\ CompletedMeansJudged /\ [Next]_jobVars => Kept
    <2> SUFFICES ASSUME JobInv, CompletedMeansJudged, [Next]_jobVars, state \in Terminal
                 PROVE  row' = row
      OBVIOUS
    <2>1. \A s \in Scenario : row[s] \notin {"pending", "running"}
      BY DEF JobInv, RowsFollowJob, CompletedMeansJudged, RowsIn, Terminal, Result
    <2>2. row \in [Scenario -> RowState]
      BY DEF JobInv, TypeOK
    <2>3. SetRows({"pending"}, "cancelled") = row
      BY <2>1, <2>2 DEF SetRows
    <2> QED
      BY <2>1, <2>3
         DEF Next, Terminal, Claim, Claimable, Heartbeat, LeaseExpires, ScenarioStarted, CanStart,
             ScenarioRetrying, RegisterRunEvidence, ScenarioFinished, CanFinish, RequestCancel,
             TakeOverCancellation, Finish, CanEnd, AttachEvidence, jobVars
  <1>2. ServiceInv /\ [ServiceNext]_allVars => [Kept]_allVars
    BY <1>1, ServiceStep DEF ServiceInv
  <1> QED
    BY <1>2, ServiceSafety, PTL DEF ServiceSpec, TerminalRowsFrozen

=============================================================================
