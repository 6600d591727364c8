--------------------------- MODULE SuiteJobsProofs ---------------------------
(***************************************************************************)
(* Machine-checked proofs about SuiteJobs: its invariants and its action    *)
(* properties hold for every suite, every set of repository instances and   *)
(* every bound, and it implements JobLifecycle.                             *)
(***************************************************************************)
EXTENDS SuiteJobs, FiniteSetTheorems, TLAPS

(***************************************************************************)
(* Counting rows                                                           *)
(***************************************************************************)

\* Counting rows gives a natural number: what keeps the aggregate columns, which
\* finish recomputes with count(*), in their type.
LEMMA CountType ==
  ASSUME NEW r, NEW S
  PROVE  Count(r, S) \in Nat
  <1>1. RowsIn(r, S) \subseteq Scenario
    BY DEF RowsIn
  <1>2. IsFiniteSet(RowsIn(r, S))
    BY <1>1, ScenarioAssumption, FS_Subset
  <1> QED
    BY <1>2, FS_CardinalityType DEF Count

\* Two tables with the same rows in S have the same count: what a step that moves
\* rows between states outside S (a takeover, a cancellation) relies on.
LEMMA CountSame ==
  ASSUME NEW r, NEW q, NEW S,
         \A s \in Scenario : r[s] \in S <=> q[s] \in S
  PROVE  Count(r, S) = Count(q, S)
  <1>1. RowsIn(r, S) = RowsIn(q, S)
    BY DEF RowsIn
  <1> QED
    BY <1>1 DEF Count

\* Moving one row from outside S into S adds one to the count: the increment
\* scenario_finished makes.
LEMMA CountOneMore ==
  ASSUME NEW r \in [Scenario -> RowState], NEW S, NEW s \in Scenario, NEW v \in S,
         r[s] \notin S
  PROVE  Count([r EXCEPT ![s] = v], S) = Count(r, S) + 1
  <1>1. RowsIn([r EXCEPT ![s] = v], S) = RowsIn(r, S) \cup {s}
    BY DEF RowsIn
  <1>2. s \notin RowsIn(r, S)
    BY DEF RowsIn
  <1>3. RowsIn(r, S) \subseteq Scenario
    BY DEF RowsIn
  <1>4. IsFiniteSet(RowsIn(r, S))
    BY <1>3, ScenarioAssumption, FS_Subset
  <1> QED
    BY <1>1, <1>2, <1>4, FS_AddElement DEF Count

\* Nothing counted, nothing in the count: the columns of a new job.
LEMMA CountNone ==
  ASSUME NEW r, NEW S, \A s \in Scenario : r[s] \notin S
  PROVE  Count(r, S) = 0
  <1>1. RowsIn(r, S) = {}
    BY DEF RowsIn
  <1> QED
    BY <1>1, FS_EmptySet DEF Count

(***************************************************************************)
(* Type correctness                                                        *)
(***************************************************************************)

\* A rewritten table of rows is a table of rows.
LEMMA SetRowsType ==
  ASSUME row \in [Scenario -> RowState], NEW S, NEW to \in RowState
  PROVE  SetRows(S, to) \in [Scenario -> RowState]
  BY DEF SetRows

\* A new job has the types the migrations declare.
LEMMA InitType == Init => TypeOK
  <1> SUFFICES ASSUME Init
               PROVE  TypeOK
    OBVIOUS
  <1>1. evidence \subseteq Scenario \X Run
    BY DEF Init
  <1>2. row \in [Scenario -> RowState]
    BY DEF Init, RowState
  <1>3. attempts \in [Scenario -> Nat] /\ runId \in [Scenario -> Run \cup {None}]
    BY DEF Init
  <1> QED
    BY <1>1, <1>2, <1>3 DEF Init, TypeOK, JobState, Lease

\* No method writes a value of another type into a column.
LEMMA TypeStep ==
  ASSUME TypeOK, [Next]_jobVars
  PROVE  TypeOK'
  <1> USE DEF TypeOK, JobState, Lease, RowState, Result
  <1>1. ASSUME NEW e \in Executor, Claim(e)
        PROVE  TypeOK'
    <2>1. SetRows({"running"}, "pending") \in [Scenario -> RowState]
      BY SetRowsType
    <2> QED
      BY <1>1, <2>1 DEF Claim, ClaimedRows
  <1>2. ASSUME NEW e \in Executor, Heartbeat(e)
        PROVE  TypeOK'
    BY <1>2 DEF Heartbeat
  <1>3. CASE LeaseExpires
    BY <1>3 DEF LeaseExpires
  <1>4. ASSUME NEW e \in Executor, NEW s \in Scenario, ScenarioStarted(e, s)
        PROVE  TypeOK'
    BY <1>4 DEF ScenarioStarted
  <1>5. ASSUME NEW e \in Executor, NEW s \in Scenario, ScenarioRetrying(e, s)
        PROVE  TypeOK'
    BY <1>5 DEF ScenarioRetrying
  <1>6. ASSUME NEW e \in Executor, NEW s \in Scenario, NEW r \in Run,
               RegisterRunEvidence(e, s, r)
        PROVE  TypeOK'
    BY <1>6 DEF RegisterRunEvidence
  <1>7. ASSUME NEW e \in Executor, NEW s \in Scenario, NEW status \in Result,
               NEW r \in Run, ScenarioFinished(e, s, status, r)
        PROVE  TypeOK'
    BY <1>7 DEF ScenarioFinished
  <1>8. CASE RequestCancel
    <2>1. SetRows({"pending"}, "cancelled") \in [Scenario -> RowState]
      BY SetRowsType
    <2>2. row' \in [Scenario -> RowState]
      BY <1>8, <2>1 DEF RequestCancel
    <2>3. /\ state' \in JobState
          /\ cancelRequested' \in BOOLEAN
          /\ revision' \in Nat
      <3>1. CASE state \in {"queued", "running"}
        BY <1>8, <3>1 DEF RequestCancel
      <3>2. CASE state \notin {"queued", "running"}
        BY <1>8, <3>2 DEF RequestCancel
      <3> QED
        BY <3>1, <3>2
    <2> QED
      BY <1>8, <2>2, <2>3 DEF RequestCancel
  <1>9. ASSUME NEW e \in Executor, TakeOverCancellation(e)
        PROVE  TypeOK'
    BY <1>9 DEF TakeOverCancellation
  <1>10. ASSUME NEW e \in Executor, NEW raised \in BOOLEAN, Finish(e, raised)
         PROVE  TypeOK'
    <2>1. /\ SetRows({"pending", "running"}, "cancelled") \in [Scenario -> RowState]
          /\ SetRows({"pending", "running"}, "error") \in [Scenario -> RowState]
      BY SetRowsType
    <2>2. state' \in Terminal
      BY <1>10 DEF Finish, Terminal
    <2>3. row' \in [Scenario -> RowState]
      BY <1>10, <2>1, <2>2 DEF Finish, ClosedRows, Terminal
    <2>4. completed' \in Nat /\ passed' \in Nat /\ failed' \in Nat
      BY <1>10, CountType DEF Finish
    <2> QED
      BY <1>10, <2>2, <2>3, <2>4 DEF Finish, Terminal
  <1>11. ASSUME NEW e \in Executor, AttachEvidence(e)
         PROVE  TypeOK'
    BY <1>11 DEF AttachEvidence
  <1>12. CASE UNCHANGED jobVars
    BY <1>12 DEF jobVars
  <1> QED
    BY <1>1, <1>2, <1>3, <1>4, <1>5, <1>6, <1>7, <1>8, <1>9, <1>10, <1>11, <1>12
       DEF Next

\* Every column keeps its type, whoever writes it: suite_jobs,
\* suite_job_scenarios and suite_run_evidence as their migrations declare them.
THEOREM TypeCorrect == Spec => []TypeOK
  <1>1. TypeOK /\ [Next]_jobVars => TypeOK'
    BY TypeStep
  <1> QED
    BY <1>1, InitType, PTL DEF Spec

(***************************************************************************)
(* The control of the job: flag, ownership, publication                    *)
(***************************************************************************)

\* What a transaction that leaves the job row alone, but for counters and
\* revision, keeps.
LEMMA ControlUnchanged ==
  ASSUME ControlInv, UNCHANGED <<state, cancelRequested, owner, lease, path>>
  PROVE  ControlInv'
  BY DEF ControlInv, CancelFlagMatchesState, OwnedIffActive,
         PublishedOnlyWhenTerminal

\* Every method keeps the flag, the ownership and the publication in step with
\* the state.
LEMMA ControlStep ==
  ASSUME TypeOK, ControlInv, [Next]_jobVars
  PROVE  ControlInv'
  <1> USE DEF ControlInv, CancelFlagMatchesState, OwnedIffActive,
              PublishedOnlyWhenTerminal, Active, Terminal
  <1>1. ASSUME NEW e \in Executor, Claim(e)
        PROVE  ControlInv'
    BY <1>1, NoneAssumption DEF Claim, ClaimedRows, Claimable, TypeOK
  <1>2. ASSUME NEW e \in Executor, Heartbeat(e)
        PROVE  ControlInv'
    BY <1>2, NoneAssumption DEF Heartbeat, Owns
  <1>3. CASE LeaseExpires
    BY <1>3 DEF LeaseExpires
  <1>4. ASSUME NEW e \in Executor, NEW s \in Scenario, ScenarioStarted(e, s)
        PROVE  ControlInv'
    BY <1>4, ControlUnchanged DEF ScenarioStarted
  <1>5. ASSUME NEW e \in Executor, NEW s \in Scenario, ScenarioRetrying(e, s)
        PROVE  ControlInv'
    BY <1>5, ControlUnchanged DEF ScenarioRetrying
  <1>6. ASSUME NEW e \in Executor, NEW s \in Scenario, NEW r \in Run,
               RegisterRunEvidence(e, s, r)
        PROVE  ControlInv'
    BY <1>6, ControlUnchanged DEF RegisterRunEvidence
  <1>7. ASSUME NEW e \in Executor, NEW s \in Scenario, NEW status \in Result,
               NEW r \in Run, ScenarioFinished(e, s, status, r)
        PROVE  ControlInv'
    BY <1>7, ControlUnchanged DEF ScenarioFinished
  <1>8. CASE RequestCancel
    <2>1. CASE state = "queued"
      BY <1>8, <2>1 DEF RequestCancel
    <2>2. CASE state = "running"
      BY <1>8, <2>2 DEF RequestCancel
    <2>3. CASE state \notin {"queued", "running"}
      BY <1>8, <2>3, ControlUnchanged DEF RequestCancel
    <2> QED
      BY <2>1, <2>2, <2>3
  <1>9. ASSUME NEW e \in Executor, TakeOverCancellation(e)
        PROVE  ControlInv'
    BY <1>9, NoneAssumption DEF TakeOverCancellation, CanTakeOver
  <1>10. ASSUME NEW e \in Executor, NEW raised \in BOOLEAN, Finish(e, raised)
         PROVE  ControlInv'
    <2>1. state \in Active
      BY <1>10, NoneAssumption DEF Finish, CanEnd
    <2>2. CASE cancelRequested
      BY <1>10, <2>1, <2>2 DEF Finish
    <2>3. CASE ~cancelRequested
      BY <1>10, <2>1, <2>3 DEF Finish
    <2> QED
      BY <2>2, <2>3
  <1>11. ASSUME NEW e \in Executor, AttachEvidence(e)
         PROVE  ControlInv'
    BY <1>11 DEF AttachEvidence, CanAttach
  <1>12. CASE UNCHANGED jobVars
    BY <1>12, ControlUnchanged DEF jobVars
  <1> QED
    BY <1>1, <1>2, <1>3, <1>4, <1>5, <1>6, <1>7, <1>8, <1>9, <1>10, <1>11, <1>12
       DEF Next

(***************************************************************************)
(* The rows follow the job                                                 *)
(***************************************************************************)

\* Every method leaves the rows in the states the job's new state allows.
LEMMA RowsStep ==
  ASSUME TypeOK, ControlInv, RowsFollowJob, [Next]_jobVars
  PROVE  RowsFollowJob'
  <1> USE DEF RowsFollowJob, RowsIn
  <1>1. ASSUME NEW e \in Executor, Claim(e)
        PROVE  RowsFollowJob'
    BY <1>1 DEF Claim, ClaimedRows, Claimable, SetRows
  <1>2. ASSUME NEW e \in Executor, Heartbeat(e)
        PROVE  RowsFollowJob'
    BY <1>2 DEF Heartbeat
  <1>3. CASE LeaseExpires
    BY <1>3 DEF LeaseExpires
  <1>4. ASSUME NEW e \in Executor, NEW s \in Scenario, ScenarioStarted(e, s)
        PROVE  RowsFollowJob'
    BY <1>4 DEF ScenarioStarted, CanStart, MayAttempt, MayRecord, TypeOK
  <1>5. ASSUME NEW e \in Executor, NEW s \in Scenario, ScenarioRetrying(e, s)
        PROVE  RowsFollowJob'
    BY <1>5 DEF ScenarioRetrying
  <1>6. ASSUME NEW e \in Executor, NEW s \in Scenario, NEW r \in Run,
               RegisterRunEvidence(e, s, r)
        PROVE  RowsFollowJob'
    BY <1>6 DEF RegisterRunEvidence
  <1>7. ASSUME NEW e \in Executor, NEW s \in Scenario, NEW status \in Result,
               NEW r \in Run, ScenarioFinished(e, s, status, r)
        PROVE  RowsFollowJob'
    BY <1>7 DEF ScenarioFinished, CanFinish, MayRecord, TypeOK, Result
  <1>8. CASE RequestCancel
    BY <1>8 DEF RequestCancel, SetRows
  <1>9. ASSUME NEW e \in Executor, TakeOverCancellation(e)
        PROVE  RowsFollowJob'
    BY <1>9 DEF TakeOverCancellation
  <1>10. ASSUME NEW e \in Executor, NEW raised \in BOOLEAN, Finish(e, raised)
         PROVE  RowsFollowJob'
    BY <1>10 DEF Finish, ClosedRows, SetRows
  <1>11. ASSUME NEW e \in Executor, AttachEvidence(e)
         PROVE  RowsFollowJob'
    BY <1>11 DEF AttachEvidence
  <1>12. CASE UNCHANGED jobVars
    BY <1>12 DEF jobVars
  <1> QED
    BY <1>1, <1>2, <1>3, <1>4, <1>5, <1>6, <1>7, <1>8, <1>9, <1>10, <1>11, <1>12
       DEF Next

(***************************************************************************)
(* The counters follow the rows                                            *)
(***************************************************************************)

\* A step that writes neither a counter nor a result keeps them in agreement.
LEMMA ProgressUnchanged ==
  ASSUME ProgressMatchesRows, UNCHANGED counters,
         \A s \in Scenario : \/ row'[s] = row[s]
                             \/ row[s] \notin Result /\ row'[s] \notin Result
  PROVE  ProgressMatchesRows'
  <1>1. /\ Count(row', Result) = Count(row, Result)
        /\ Count(row', {"passed"}) = Count(row, {"passed"})
        /\ Count(row', {"failed", "error"}) = Count(row, {"failed", "error"})
    BY CountSame DEF Result
  <1> QED
    BY <1>1 DEF ProgressMatchesRows, counters, Result, Count, RowsIn

\* Only scenario_finished and finish write counters, and both write what the rows
\* then hold.
LEMMA ProgressStep ==
  ASSUME TypeOK, ProgressMatchesRows, [Next]_jobVars
  PROVE  ProgressMatchesRows'
  <1>1. ASSUME NEW e \in Executor, Claim(e)
        PROVE  ProgressMatchesRows'
    BY <1>1, ProgressUnchanged DEF Claim, ClaimedRows, SetRows, counters, Result
  <1>2. ASSUME NEW e \in Executor, NEW s \in Scenario, ScenarioStarted(e, s)
        PROVE  ProgressMatchesRows'
    <2>1. \A t \in Scenario : \/ row'[t] = row[t]
                              \/ row[t] \notin Result /\ row'[t] \notin Result
      BY <1>2 DEF ScenarioStarted, CanStart, Result, TypeOK
    <2> QED
      BY <1>2, <2>1, ProgressUnchanged DEF ScenarioStarted, counters
  <1>3. ASSUME NEW e \in Executor, NEW s \in Scenario, NEW status \in Result,
               NEW r \in Run, ScenarioFinished(e, s, status, r)
        PROVE  ProgressMatchesRows'
    <2>1. row \in [Scenario -> RowState] /\ row[s] = "running"
      BY <1>3 DEF TypeOK, ScenarioFinished, CanFinish
    <2>2. row' = [row EXCEPT ![s] = status]
      BY <1>3 DEF ScenarioFinished
    <2>3. Count(row', Result) = Count(row, Result) + 1
      BY <2>1, <2>2, CountOneMore DEF Result
    <2>4. CASE status = "passed"
      <3>1. Count(row', {"passed"}) = Count(row, {"passed"}) + 1
        BY <2>1, <2>2, <2>4, CountOneMore
      <3>2. \A t \in Scenario :
              row'[t] \in {"failed", "error"} <=> row[t] \in {"failed", "error"}
        BY <2>1, <2>2, <2>4
      <3>3. Count(row', {"failed", "error"}) = Count(row, {"failed", "error"})
        BY <3>2, CountSame
      <3> QED
        BY <1>3, <2>3, <2>4, <3>1, <3>3
           DEF ProgressMatchesRows, ScenarioFinished, Count, RowsIn, Result
    <2>5. CASE status # "passed"
      <3>1. status \in {"failed", "error"}
        BY <2>5 DEF Result
      <3>2. \A t \in Scenario : row'[t] \in {"passed"} <=> row[t] \in {"passed"}
        BY <2>1, <2>2, <2>5
      <3>3. Count(row', {"passed"}) = Count(row, {"passed"})
        BY <3>2, CountSame
      <3>4. Count(row', {"failed", "error"}) = Count(row, {"failed", "error"}) + 1
        BY <2>1, <2>2, <3>1, CountOneMore
      <3> QED
        BY <1>3, <2>3, <2>5, <3>3, <3>4
           DEF ProgressMatchesRows, ScenarioFinished, Count, RowsIn, Result
    <2> QED
      BY <2>4, <2>5
  <1>4. CASE RequestCancel
    BY <1>4, ProgressUnchanged DEF RequestCancel, SetRows, counters, Result
  <1>5. ASSUME NEW e \in Executor, NEW raised \in BOOLEAN, Finish(e, raised)
        PROVE  ProgressMatchesRows'
    BY <1>5 DEF ProgressMatchesRows, Finish, Count, RowsIn, Result
  <1>6. ASSUME UNCHANGED <<counters, row>>
        PROVE  ProgressMatchesRows'
    BY <1>6, ProgressUnchanged
  <1> QED
    BY <1>1, <1>2, <1>3, <1>4, <1>5, <1>6
       DEF Next, jobVars, counters, Heartbeat, LeaseExpires, ScenarioRetrying,
           RegisterRunEvidence, TakeOverCancellation, AttachEvidence

(***************************************************************************)
(* Verdicts have runs                                                      *)
(***************************************************************************)

\* A verdict is written with its run, for a row that scenario_started had begun;
\* the errors finish writes without one come with the failed state.
LEMMA VerdictStep ==
  ASSUME TypeOK, ControlInv, RowsFollowJob, VerdictsHaveRuns, [Next]_jobVars
  PROVE  VerdictsHaveRuns'
  <1> USE DEF VerdictsHaveRuns
  <1>1. ASSUME NEW e \in Executor, Claim(e)
        PROVE  VerdictsHaveRuns'
    BY <1>1 DEF Claim, ClaimedRows, Claimable, SetRows
  <1>2. ASSUME NEW e \in Executor, NEW s \in Scenario, ScenarioStarted(e, s)
        PROVE  VerdictsHaveRuns'
    BY <1>2 DEF ScenarioStarted, CanStart, TypeOK
  <1>3. ASSUME NEW e \in Executor, NEW s \in Scenario, ScenarioRetrying(e, s)
        PROVE  VerdictsHaveRuns'
    BY <1>3 DEF ScenarioRetrying, TypeOK
  <1>4. ASSUME NEW e \in Executor, NEW s \in Scenario, NEW status \in Result,
               NEW r \in Run, ScenarioFinished(e, s, status, r)
        PROVE  VerdictsHaveRuns'
    BY <1>4, NoneAssumption DEF ScenarioFinished, CanFinish, TypeOK, Result
  <1>5. CASE RequestCancel
    <2>1. state' = "failed" <=> state = "failed"
      BY <1>5 DEF RequestCancel
    <2> QED
      BY <1>5, <2>1 DEF RequestCancel, SetRows
  <1>6. ASSUME NEW e \in Executor, NEW raised \in BOOLEAN, Finish(e, raised)
        PROVE  VerdictsHaveRuns'
    BY <1>6 DEF Finish, CanEnd, Terminal, ClosedRows, SetRows
  <1>7. ASSUME UNCHANGED <<state, row, attempts, runId>>
        PROVE  VerdictsHaveRuns'
    BY <1>7
  <1> QED
    BY <1>1, <1>2, <1>3, <1>4, <1>5, <1>6, <1>7
       DEF Next, jobVars, Heartbeat, LeaseExpires, RegisterRunEvidence,
           TakeOverCancellation, AttachEvidence

(***************************************************************************)
(* The invariants of the job record                                        *)
(***************************************************************************)

\* The inductive invariant: no part needs a strengthening beyond the others.
JobInv ==
  /\ TypeOK
  /\ ControlInv
  /\ RowsFollowJob
  /\ ProgressMatchesRows
  /\ VerdictsHaveRuns

\* A new job satisfies it.
LEMMA JobInvInit == Init => JobInv
  <1> SUFFICES ASSUME Init
               PROVE  JobInv
    OBVIOUS
  <1>1. TypeOK
    BY InitType
  <1>2. ControlInv
    BY DEF Init, ControlInv, CancelFlagMatchesState, OwnedIffActive,
           PublishedOnlyWhenTerminal, Active
  <1>3. RowsFollowJob
    BY DEF Init, RowsFollowJob, RowsIn
  <1>4. ProgressMatchesRows
    <2>1. \A s \in Scenario : row[s] \notin Result
      BY DEF Init, Result
    <2>2. /\ Count(row, Result) = 0
          /\ Count(row, {"passed"}) = 0
          /\ Count(row, {"failed", "error"}) = 0
      BY <2>1, CountNone DEF Result
    <2> QED
      BY <2>2 DEF Init, ProgressMatchesRows
  <1>5. VerdictsHaveRuns
    BY DEF Init, VerdictsHaveRuns
  <1> QED
    BY <1>1, <1>2, <1>3, <1>4, <1>5 DEF JobInv

\* Every method keeps it.
LEMMA JobInvStep ==
  ASSUME JobInv, [Next]_jobVars
  PROVE  JobInv'
  BY TypeStep, ControlStep, RowsStep, ProgressStep, VerdictStep DEF JobInv

\* Every reachable job record satisfies every part of it.
THEOREM JobSafety == Spec => []JobInv
  <1>1. JobInv /\ [Next]_jobVars => JobInv'
    BY JobInvStep
  <1> QED
    BY <1>1, JobInvInit, PTL DEF Spec

\* The flag, the ownership, the lease and the publication agree with the state,
\* however claims, cancellations, ends and takeovers interleave.
THEOREM JobControl == Spec => []ControlInv
  <1>1. JobInv => ControlInv
    BY DEF JobInv
  <1> QED
    BY <1>1, JobSafety, PTL

\* The counters a client reads equal the rows they summarise, always.
THEOREM ProgressAgrees == Spec => []ProgressMatchesRows
  <1>1. JobInv => ProgressMatchesRows
    BY DEF JobInv
  <1> QED
    BY <1>1, JobSafety, PTL

\* No row is left pending by a cancelling job or open by a cancelled or failed one.
THEOREM NoRowLeftBehind == Spec => []RowsFollowJob
  <1>1. JobInv => RowsFollowJob
    BY DEF JobInv
  <1> QED
    BY <1>1, JobSafety, PTL

\* A stored verdict has its run and an attempt behind it.
THEOREM VerdictsAreEarned == Spec => []VerdictsHaveRuns
  <1>1. JobInv => VerdictsHaveRuns
    BY DEF JobInv
  <1> QED
    BY <1>1, JobSafety, PTL

(***************************************************************************)
(* What a step may never do                                                *)
(***************************************************************************)

\* A scenario's verdict and its run survive every later call: reset, retry,
\* cancellation and both ends of the job touch open rows only.
THEOREM VerdictsFinal == Spec => VerdictsAreFinal
  <1> DEFINE Kept == \A s \in Scenario :
               row[s] \in Result => row'[s] = row[s] /\ runId'[s] = runId[s]
  <1>1. TypeOK /\ [Next]_jobVars => [Kept]_jobVars
    <2> SUFFICES ASSUME TypeOK, Next
                 PROVE  Kept
      OBVIOUS
    <2> USE DEF TypeOK, Result
    <2>1. ASSUME NEW e \in Executor, Claim(e)
          PROVE  Kept
      BY <2>1 DEF Claim, ClaimedRows, SetRows
    <2>2. ASSUME NEW e \in Executor, NEW s \in Scenario, ScenarioStarted(e, s)
          PROVE  Kept
      BY <2>2 DEF ScenarioStarted, CanStart
    <2>3. ASSUME NEW e \in Executor, NEW s \in Scenario, NEW status \in Result,
                 NEW r \in Run, ScenarioFinished(e, s, status, r)
          PROVE  Kept
      BY <2>3 DEF ScenarioFinished, CanFinish
    <2>4. CASE RequestCancel
      BY <2>4 DEF RequestCancel, SetRows
    <2>5. ASSUME NEW e \in Executor, NEW raised \in BOOLEAN, Finish(e, raised)
          PROVE  Kept
      BY <2>5 DEF Finish, ClosedRows, SetRows
    <2>6. ASSUME UNCHANGED <<row, runId>>
          PROVE  Kept
      BY <2>6
    <2> QED
      BY <2>1, <2>2, <2>3, <2>4, <2>5, <2>6
         DEF Next, Heartbeat, LeaseExpires, ScenarioRetrying, RegisterRunEvidence,
             TakeOverCancellation, AttachEvidence
  <1> QED
    BY <1>1, TypeCorrect, PTL DEF Spec, VerdictsAreFinal

\* A terminal job is over for every caller, stale or not: its state, counters,
\* runs and evidence stay, its publication is attached once, and of its rows a
\* cancellation closes those a completed job left pending, no other.
THEOREM TerminalFinal == Spec => TerminalIsFinal
  <1> DEFINE Frozen == (state \in Terminal) =>
               /\ UNCHANGED <<state, cancelRequested, completed, passed, failed,
                              revision, attempts, runId, evidence, ownership>>
               /\ path # None => path' = path
               /\ \A s \in Scenario :
                    row'[s] # row[s] =>
                      state = "completed" /\ row[s] = "pending" /\ row'[s] = "cancelled"
  <1>1. JobInv /\ [Next]_jobVars => [Frozen]_jobVars
    <2> DEFINE ColumnsStay ==
                 /\ UNCHANGED <<state, cancelRequested, completed, passed, failed,
                                revision, attempts, runId, evidence, ownership>>
                 /\ path # None => path' = path
               RowsStay ==
                 \A s \in Scenario :
                   row'[s] # row[s] =>
                     state = "completed" /\ row[s] = "pending" /\ row'[s] = "cancelled"
    <2> SUFFICES ASSUME JobInv, Next, state \in Terminal
                 PROVE  ColumnsStay /\ RowsStay
      OBVIOUS
    <2>1. owner = None /\ lease = "none" /\ state \notin {"queued", "running", "cancelling"}
      BY DEF JobInv, ControlInv, OwnedIffActive, Terminal, Active
    <2>2. None \notin Executor
      BY NoneAssumption
    <2>3. ColumnsStay
      BY <2>1, <2>2
         DEF Next, Terminal, ownership, Claim, ClaimedRows, Claimable, Heartbeat, Owns, LeaseExpires,
             ScenarioStarted, CanStart, ScenarioRetrying, CanRetry, MayAttempt,
             MayRecord, RegisterRunEvidence, CanRegister, ScenarioFinished, CanFinish,
             RequestCancel, TakeOverCancellation, CanTakeOver, Finish, CanEnd,
             AttachEvidence, CanAttach
    <2>4. RequestCancel \/ row' = row
      BY <2>1, <2>2
         DEF Next, Terminal, Claim, Claimable, Heartbeat, LeaseExpires,
             ScenarioStarted, CanStart, ScenarioRetrying, MayAttempt, MayRecord,
             RegisterRunEvidence, ScenarioFinished, CanFinish, TakeOverCancellation,
             Finish, CanEnd, AttachEvidence
    <2>5. ASSUME state \in {"cancelled", "failed"}
          PROVE  \A s \in Scenario : row[s] # "pending"
      BY <2>5 DEF JobInv, RowsFollowJob, RowsIn
    <2>6. ASSUME RequestCancel, NEW s \in Scenario, row'[s] # row[s]
          PROVE  state = "completed" /\ row[s] = "pending" /\ row'[s] = "cancelled"
      <3>1. row[s] = "pending" /\ row'[s] = "cancelled"
        BY <2>6 DEF RequestCancel, SetRows
      <3> QED
        BY <2>5, <3>1 DEF Terminal
    <2>7. RowsStay
      BY <2>4, <2>6
    <2> QED
      BY <2>3, <2>7
  <1> QED
    BY <1>1, JobSafety, PTL DEF Spec, TerminalIsFinal

\* More rows counted, a larger count.
LEMMA CountGrows ==
  ASSUME NEW r, NEW q, NEW S, \A s \in Scenario : r[s] \in S => q[s] \in S
  PROVE  Count(r, S) <= Count(q, S)
  <1>1. RowsIn(r, S) \subseteq RowsIn(q, S) /\ RowsIn(q, S) \subseteq Scenario
    BY DEF RowsIn
  <1>2. IsFiniteSet(RowsIn(q, S))
    BY <1>1, ScenarioAssumption, FS_Subset
  <1> QED
    BY <1>1, <1>2, FS_Subset DEF Count

\* docs/operations.md, "Progress updates are transactional and monotonic": no
\* call lowers a counter.  The counters equal the rows before and after a step,
\* and a step only adds results to the rows.
THEOREM ProgressNeverFalls == Spec => ProgressMonotonic
  <1> DEFINE Kept == \A s \in Scenario :
               row[s] \in Result => row'[s] = row[s] /\ runId'[s] = runId[s]
  <1> DEFINE Grows ==
               /\ completed' >= completed
               /\ passed' >= passed
               /\ failed' >= failed
               /\ revision' >= revision
  <1>1. JobInv /\ JobInv' /\ [Next]_jobVars /\ [Kept]_jobVars => [Grows]_jobVars
    <2> SUFFICES ASSUME JobInv, JobInv', Next, Kept
                 PROVE  Grows
      BY DEF jobVars, JobInv, TypeOK
    <2>1. /\ Count(row, Result) <= Count(row', Result)
          /\ Count(row, {"passed"}) <= Count(row', {"passed"})
          /\ Count(row, {"failed", "error"}) <= Count(row', {"failed", "error"})
      BY CountGrows DEF Result
    <2>2. completed' >= completed /\ passed' >= passed /\ failed' >= failed
      <3>1. ProgressMatchesRows /\ ProgressMatchesRows'
        BY DEF JobInv
      <3> QED
        BY <2>1, <3>1 DEF ProgressMatchesRows, Count, RowsIn, Result
    <2>3. revision \in Nat
      BY DEF JobInv, TypeOK
    <2>4. revision' >= revision
      BY <2>3 DEF Next, Claim, ClaimedRows, Heartbeat, LeaseExpires, ScenarioStarted,
            ScenarioRetrying, RegisterRunEvidence, ScenarioFinished, RequestCancel,
            TakeOverCancellation, Finish, AttachEvidence
    <2> QED
      BY <2>2, <2>4
  <1>2. Spec => [][Kept]_jobVars
    BY VerdictsFinal DEF VerdictsAreFinal
  <1> QED
    BY <1>1, <1>2, JobSafety, PTL DEF Spec, ProgressMonotonic

\* A client that polls and sees an unchanged revision has missed nothing: each
\* write of the state, the flag, a counter or a verdict's run bumps it.
THEOREM RevisionTells == Spec => RevisionCoversProgress
  <1> DEFINE Told == revision' = revision =>
               UNCHANGED <<state, cancelRequested, completed, passed, failed, runId>>
  <1>1. TypeOK /\ [Next]_jobVars => [Told]_jobVars
    <2> SUFFICES ASSUME TypeOK, Next, revision' = revision
                 PROVE  UNCHANGED <<state, cancelRequested, completed, passed, failed, runId>>
      OBVIOUS
    <2>1. revision + 1 # revision
      BY DEF TypeOK
    <2> QED
      BY <2>1 DEF Next, Claim, Heartbeat, LeaseExpires, ScenarioStarted,
            ScenarioRetrying, RegisterRunEvidence, ScenarioFinished, RequestCancel,
            TakeOverCancellation, Finish, AttachEvidence
  <1> QED
    BY <1>1, TypeCorrect, PTL DEF Spec, RevisionCoversProgress

(***************************************************************************)
(* The repository implements the lifecycle                                 *)
(***************************************************************************)

\* The tally of the verdicts is what the three aggregate columns count.
LEMMA TallyIsCount ==
  ASSUME NEW r
  PROVE  Lifecycle!Tally(VerdictOf(r)) =
           [completed |-> Count(r, Result),
            passed |-> Count(r, {"passed"}),
            failed |-> Count(r, {"failed", "error"})]
  <1>1. /\ {s \in Scenario : VerdictOf(r)[s] \in Lifecycle!Verdict} = RowsIn(r, Result)
        /\ {s \in Scenario : VerdictOf(r)[s] \in {"passed"}} = RowsIn(r, {"passed"})
        /\ {s \in Scenario : VerdictOf(r)[s] \in {"failed", "error"}}
             = RowsIn(r, {"failed", "error"})
    BY DEF VerdictOf, RowsIn, Result, Lifecycle!Verdict
  <1>2. \A S : Lifecycle!Cardinality(S) = Cardinality(S)
    BY DEF Lifecycle!Cardinality, Cardinality
  <1> QED
    BY <1>1, <1>2 DEF Lifecycle!Tally, Count

\* A new job is a waiting one.
LEMMA LifecycleInit == Init => Lifecycle!Init
  BY DEF Init, Lifecycle!Init, PhaseOf, VerdictOf, Result

\* A step that moves no result leaves the verdicts a client sees.
LEMMA VerdictsUnchanged ==
  ASSUME \A s \in Scenario : \/ row'[s] = row[s]
                             \/ row[s] \notin Result /\ row'[s] \notin Result
  PROVE  VerdictOf(row') = VerdictOf(row)
  BY DEF VerdictOf

\* Counters that match the new rows are the tally of the new verdicts.
LEMMA ProgressIsTally ==
  ASSUME ProgressMatchesRows'
  PROVE  [completed |-> completed, passed |-> passed, failed |-> failed]'
           = Lifecycle!Tally(VerdictOf(row'))
  BY TallyIsCount DEF ProgressMatchesRows, Count, RowsIn, Result

\* Every call is one step of the lifecycle or none: takeovers, heartbeats,
\* attempts, retries and evidence rows are invisible to the client.
LEMMA LifecycleStep ==
  ASSUME JobInv, JobInv', [Next]_jobVars
  PROVE  [Lifecycle!Next]_(Lifecycle!lifeVars)
  <1> DEFINE Same == VerdictOf(row') = VerdictOf(row)
  <1> USE DEF JobInv, TypeOK
  <1>1. ASSUME UNCHANGED <<state, completed, passed, failed, path>>, Same
        PROVE  UNCHANGED Lifecycle!lifeVars
    BY <1>1 DEF Lifecycle!lifeVars
  <1>2. ASSUME NEW e \in Executor, Claim(e)
        PROVE  [Lifecycle!Next]_(Lifecycle!lifeVars)
    <2>1. Same
      BY <1>2, VerdictsUnchanged DEF Claim, ClaimedRows, SetRows, Result
    <2>2. CASE state = "queued"
      <3>1. Lifecycle!Begin
        BY <1>2, <2>1, <2>2 DEF Claim, ClaimedRows, Lifecycle!Begin, PhaseOf
      <3> QED
        BY <3>1 DEF Lifecycle!Next
    <2>3. CASE state = "running"
      BY <1>1, <1>2, <2>1, <2>3 DEF Claim, ClaimedRows
    <2> QED
      BY <1>2, <2>2, <2>3 DEF Claim, ClaimedRows, Claimable
  <1>3. ASSUME NEW e \in Executor, NEW s \in Scenario, ScenarioStarted(e, s)
        PROVE  UNCHANGED Lifecycle!lifeVars
    <2>1. Same
      BY <1>3, VerdictsUnchanged DEF ScenarioStarted, CanStart, Result
    <2> QED
      BY <1>1, <1>3, <2>1 DEF ScenarioStarted
  <1>4. ASSUME NEW e \in Executor, NEW s \in Scenario, NEW status \in Result,
               NEW r \in Run, ScenarioFinished(e, s, status, r)
        PROVE  Lifecycle!Judge(s, status)
    <2>1. state = "running" /\ row[s] = "running" /\ state' = state /\ path' = path
          /\ row' = [row EXCEPT ![s] = status]
      BY <1>4 DEF ScenarioFinished, CanFinish, MayRecord
    <2>2. VerdictOf(row)[s] = "open"
      BY <2>1 DEF VerdictOf, Result
    <2>3. VerdictOf(row') = [VerdictOf(row) EXCEPT ![s] = status]
      BY <2>1 DEF VerdictOf
    <2> QED
      BY <2>1, <2>2, <2>3, ProgressIsTally DEF Lifecycle!Judge, PhaseOf
  <1>5. CASE RequestCancel
    <2>1. Same
      BY <1>5, VerdictsUnchanged DEF RequestCancel, SetRows, Result
    <2>2. UNCHANGED <<completed, passed, failed, path>>
      BY <1>5 DEF RequestCancel
    <2>3. CASE state \in {"queued", "running"}
      <3>1. \/ state = "queued" /\ state' = "cancelled"
            \/ state = "running" /\ state' = "cancelling"
        BY <1>5, <2>3 DEF RequestCancel
      <3>2. Lifecycle!Cancel
        BY <2>1, <2>2, <3>1 DEF Lifecycle!Cancel, PhaseOf
      <3> QED
        BY <3>2 DEF Lifecycle!Next
    <2>4. CASE state \notin {"queued", "running"}
      BY <1>1, <1>5, <2>1, <2>2, <2>4 DEF RequestCancel
    <2> QED
      BY <2>3, <2>4
  <1>6. ASSUME NEW e \in Executor, NEW raised \in BOOLEAN, Finish(e, raised)
        PROVE  Lifecycle!End
    <2>1. state \in Active /\ path = None /\ path' = None
      BY <1>6, NoneAssumption
         DEF Finish, CanEnd, ControlInv, PublishedOnlyWhenTerminal, OwnedIffActive
    <2>2. \/ state = "running" /\ state' \in {"completed", "failed"}
          \/ state = "cancelling" /\ state' = "cancelled"
      BY <1>6, <2>1 DEF Finish, Active, ControlInv, CancelFlagMatchesState
    <2>3. VerdictOf(row') = [s \in Scenario |->
                               IF state' = "failed" /\ VerdictOf(row)[s] = "open"
                                 THEN "error" ELSE VerdictOf(row)[s]]
      <3>1. row' = ClosedRows(state')
        BY <1>6 DEF Finish
      <3>2. \A s \in Scenario : row[s] \in RowState
        OBVIOUS
      <3>3. CASE state' = "failed"
        <4>1. \A s \in Scenario : row[s] # "cancelled"
          BY <2>2, <3>3 DEF RowsFollowJob, RowsIn
        <4> QED
          BY <3>1, <3>2, <3>3, <4>1 DEF ClosedRows, SetRows, VerdictOf, Result, RowState
      <3>4. CASE state' # "failed"
        BY <2>2, <3>1, <3>4 DEF ClosedRows, SetRows, VerdictOf, Result
      <3> QED
        BY <3>3, <3>4
    <2> QED
      BY <2>1, <2>2, <2>3, ProgressIsTally DEF Lifecycle!End, PhaseOf
  <1>7. ASSUME NEW e \in Executor, AttachEvidence(e)
        PROVE  Lifecycle!Publish
    BY <1>7, NoneAssumption
       DEF AttachEvidence, CanAttach, Terminal, Lifecycle!Publish, Lifecycle!Ended, PhaseOf
  <1>8. ASSUME UNCHANGED <<state, completed, passed, failed, path, row>>
        PROVE  UNCHANGED Lifecycle!lifeVars
    BY <1>1, <1>8
  <1>9. Result = Lifecycle!Verdict
    BY DEF Result, Lifecycle!Verdict
  <1> QED
    BY <1>2, <1>3, <1>4, <1>5, <1>6, <1>7, <1>8, <1>9
       DEF Next, jobVars, Heartbeat, LeaseExpires, ScenarioRetrying,
           RegisterRunEvidence, TakeOverCancellation, AttachEvidence, Lifecycle!Next

\* The repository keeps the promise of JobLifecycle to every client, for every
\* suite and any number of contending executors.
THEOREM ImplementsLifecycle == Spec => KeepsLifecycle
  <1>1. JobInv /\ JobInv' /\ [Next]_jobVars => [Lifecycle!Next]_(Lifecycle!lifeVars)
    BY LifecycleStep
  <1> QED
    BY <1>1, LifecycleInit, JobSafety, PTL DEF Spec, Lifecycle!Spec, KeepsLifecycle

=============================================================================
