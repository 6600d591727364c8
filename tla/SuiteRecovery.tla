---------------------------- MODULE SuiteRecovery ----------------------------
(***************************************************************************)
(* recover_suite_jobs over many jobs.  SuiteService follows one job through  *)
(* every interleaving; here each job is reduced to what the loop sees of it, *)
(* and the question is what one job's trouble does to the others: the loop   *)
(* takes the jobs of each query in creation order, publishing as it goes,    *)
(* and an exception at one of them abandons the rest of the iteration.       *)
(*                                                                           *)
(* Publishing reloads the registered run records and raises if a file is     *)
(* missing, altered or unreadable (_existing_records), which no later        *)
(* iteration undoes.                                                         *)
(***************************************************************************)
EXTENDS Integers, Sequences, FiniteSets

CONSTANT N   \* number of jobs; job 1 was created first

ASSUME JobsAssumption == N \in Nat \ {0}

Job == 1..N

VARIABLES
  status,     \* what the recovery queries distinguish
  intact,     \* the job's registered run records can be reloaded
  published,  \* suite_record_path is set
  phase,      \* the query the loop is working through
  todo        \* its remaining jobs, in creation order

recoveryVars == <<status, intact, published, phase, todo>>

\* "abandoned": cancelling, and the lease of the executor is over.
Status == {"queued", "active", "abandoned", "ended"}

TypeOK ==
  /\ status \in [Job -> Status]
  /\ intact \in [Job -> BOOLEAN]
  /\ published \in [Job -> BOOLEAN]
  /\ phase \in {"sleeping", "recovering", "publishing"}
  /\ \A i \in DOMAIN todo : todo[i] \in Job
  /\ \A i, k \in DOMAIN todo : i < k => todo[i] < todo[k]   \* in creation order

-----------------------------------------------------------------------------
NewestFirst(S) ==                                      \* mutant: ORDER BY ... DESC
  SelectSeq([i \in Job |-> N + 1 - i], LAMBDA j : j \in S)

\* ORDER BY created_at, id.
InOrder(S) == SelectSeq([j \in Job |-> j], LAMBDA j : j \in S)

QueuedOnly == {j \in Job : status[j] = "queued"}        \* mutant
Recoverable == {j \in Job : status[j] \in {"queued", "abandoned"}}
Unpublished == {j \in Job : status[j] = "ended" /\ ~published[j]}

Init ==
  /\ status = [j \in Job |-> "queued"]
  /\ intact = [j \in Job |-> TRUE]
  /\ published = [j \in Job |-> FALSE]
  /\ phase = "sleeping"
  /\ todo = <<>>

-----------------------------------------------------------------------------
(* The loop *)

QueryRecoverable ==
  /\ phase = "sleeping"
  /\ phase' = "recovering"
  /\ todo' = InOrder(Recoverable)
  /\ UNCHANGED <<status, intact, published>>

\* except Exception: the iteration is over.
Abandon == phase' = "sleeping" /\ todo' = <<>>

\* ensure_terminal_evidence, for a job that ended.
PublishOrRaise(j) ==
  IF intact[j]
    THEN /\ published' = [published EXCEPT ![j] = TRUE]
         /\ todo' = Tail(todo)
         /\ UNCHANGED phase
    ELSE Abandon /\ UNCHANGED published

\* The record in the list may be stale; claim and finalize_abandoned_cancellation
\* look at the job again.
RecoverNext ==
  /\ phase = "recovering" /\ todo # <<>>
  /\ LET j == Head(todo)
     IN  CASE status[j] = "queued" ->
                /\ status' = [status EXCEPT ![j] = "active"]
                /\ todo' = Tail(todo)
                /\ UNCHANGED <<published, phase>>
           [] status[j] = "abandoned" ->
                /\ status' = [status EXCEPT ![j] = "ended"]
                /\ PublishOrRaise(j)
           [] OTHER -> /\ todo' = Tail(todo)
                       /\ UNCHANGED <<status, published, phase>>
  /\ UNCHANGED intact

QueryUnpublished ==
  /\ phase = "recovering" /\ todo = <<>>
  /\ phase' = "publishing"
  /\ todo' = InOrder(Unpublished)
  /\ UNCHANGED <<status, intact, published>>

PublishNext ==
  /\ phase = "publishing" /\ todo # <<>>
  /\ PublishOrRaise(Head(todo))
  /\ UNCHANGED <<status, intact>>

Sleep ==
  /\ phase = "publishing" /\ todo = <<>>
  /\ phase' = "sleeping"
  /\ UNCHANGED <<status, intact, published, todo>>

-----------------------------------------------------------------------------
(* The executors, and the artifact directory *)

\* The executor ends its job, and publishes it unless it dies in between or
\* cannot reload the records.
ExecutorEnds(j) ==
  /\ status[j] = "active"
  /\ status' = [status EXCEPT ![j] = "ended"]
  /\ \/ intact[j] /\ published' = [published EXCEPT ![j] = TRUE]
     \/ UNCHANGED published
  /\ UNCHANGED <<intact, phase, todo>>

\* The executor disappears after a cancellation was requested.
ExecutorVanishes(j) ==
  /\ status[j] = "active"
  /\ status' = [status EXCEPT ![j] = "abandoned"]
  /\ UNCHANGED <<intact, published, phase, todo>>

\* A run record of the job is lost or altered before it is published.
RecordLost(j) ==
  /\ intact[j] /\ ~published[j] /\ status[j] # "queued"
  /\ intact' = [intact EXCEPT ![j] = FALSE]
  /\ UNCHANGED <<status, published, phase, todo>>

-----------------------------------------------------------------------------
Loop == QueryRecoverable \/ RecoverNext \/ QueryUnpublished \/ PublishNext \/ Sleep

Next ==
  \/ Loop
  \/ \E j \in Job : ExecutorEnds(j) \/ ExecutorVanishes(j) \/ RecordLost(j)

\* The loop runs as long as its process, and every execution ends (SuiteService).
Spec == /\ Init /\ [][Next]_recoveryVars
        /\ WF_recoveryVars(Loop)
        /\ \A j \in Job : WF_recoveryVars(ExecutorEnds(j) \/ ExecutorVanishes(j))

-----------------------------------------------------------------------------
(* Properties *)

\* Whatever happens to the records of other jobs, a queued job is scheduled and
\* an abandoned cancellation becomes terminal: a job that raises here has left
\* the recoverable list by the next iteration.
EveryJobEnds == \A j \in Job : []<>(status[j] \notin {"queued", "abandoned"})

\* A terminal job is published if its own records and those of every job created
\* before it can be reloaded.
PublishedUnlessBlocked ==
  \A j \in Job :
    [](status[j] = "ended" =>
         <>(published[j] \/ \E i \in 1..j : ~intact[i]))

\* docs/operations.md: "Cancellation is durable and creates terminal partial
\* evidence, including when the prior executor disappeared".  A terminal job
\* whose own records can be reloaded is published.
TerminalJobsPublished ==
  \A j \in Job : [](status[j] = "ended" => <>(published[j] \/ ~intact[j]))

=============================================================================
