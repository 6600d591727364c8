--------------------------- MODULE SqlFencingProofs ---------------------------
(***************************************************************************)
(* Machine-checked proofs about SqlFencing: run statement by statement at    *)
(* READ COMMITTED, with its locks, waits and deadlock victims, the           *)
(* repository still counts what is committed, judges a row once and leaves    *)
(* no row of a cancelled or failed job open, for any number of scenarios and  *)
(* executors.                                                                *)
(*                                                                           *)
(* What makes it so is which transaction holds which lock where, and what    *)
(* the locked rows hold: the inductive invariant below.                      *)
(***************************************************************************)
EXTENDS SqlFencing, FiniteSetTheorems, TLAPS

Open == {"pending", "running"}

MainPcs == {"claim", "lookRunning", "reset", "take", "gather", "finish", "lookOpen", "close",
            "end", "off"}
ChildPcs == {"off", "pending", "start", "run", "judge", "count", "done"}
DeletePcs == {"cancel", "lookPending", "sweep", "swept", "off"}

Claiming == {"claim", "lookRunning", "reset", "take"}
Finishing == {"finish", "lookOpen", "close", "end"}
HoldsJob == {"lookRunning", "reset", "take", "lookOpen", "close", "end"}
Cancelling == {"lookPending", "sweep", "swept"}

\* Every transaction is somewhere in its own program, and a scenario's statements
\* look up that scenario's row.
Sessions == [Session -> [pc : MainPcs \cup ChildPcs \cup DeletePcs, seen : SUBSET Scenario]]

Places ==
  /\ session \in Sessions
  /\ \A e \in Executor : Pc(Main(e)) \in MainPcs
  /\ \A e \in Executor, s \in Scenario :
       /\ Pc(Child(e, s)) \in ChildPcs
       /\ Pc(Child(e, s)) \in {"start", "judge"} => session[Child(e, s)].seen = {s}
  /\ Pc(Delete) \in DeletePcs

\* The scenarios' tasks run between the claim and the finish of their executor.
Tasks ==
  \A e \in Executor, s \in Scenario :
    /\ Pc(Main(e)) \in Claiming => Pc(Child(e, s)) = "off"
    /\ Pc(Main(e)) \in Finishing => Pc(Child(e, s)) = "done"

\* Who holds the job row, and what its state can be meanwhile.
JobLocked ==
  /\ jobLock \in {Main(e) : e \in Executor} \cup {Delete, None}
  /\ \A e \in Executor : jobLock = Main(e) <=> Pc(Main(e)) \in HoldsJob
  /\ jobLock = Delete => Pc(Delete) \in Cancelling /\ job.state \in {"queued", "running"}
  /\ Pc(Delete) \in Cancelling /\ jobLock # Delete => job.state \notin {"queued", "running"}
  /\ \A e \in Executor : Pc(Main(e)) \in {"lookRunning", "reset"} => job.state = "running"
  /\ \A e \in Executor : Pc(Main(e)) = "take" => job.state \in {"queued", "running"}

\* Who holds a scenario's row, and the state the row was locked in: nobody else
\* changes it until the transaction ends.
RowsLocked ==
  \A s \in Scenario :
    /\ \A e \in Executor :
         rowLock[s] = Main(e) => \/ Pc(Main(e)) = "take" /\ row[s] = "running"
                                 \/ Pc(Main(e)) = "end" /\ row[s] \in Open
    /\ \A e \in Executor, t \in Scenario :
         rowLock[s] = Child(e, t) => t = s /\ Pc(Child(e, t)) = "count" /\ row[s] = "running"
    /\ \A e \in Executor : Pc(Child(e, s)) = "count" => rowLock[s] = Child(e, s)
    /\ rowLock[s] = Delete => Pc(Delete) = "swept" /\ row[s] = "pending"

\* The rows that are open while finish closes them are those it looked up, and
\* then those it holds: none opens behind its back.
Closing ==
  \A e \in Executor :
    /\ Pc(Main(e)) = "close" => RowsIn(Open) \subseteq session[Main(e)].seen
    /\ Pc(Main(e)) = "end" /\ Target(e) # "completed" => RowsIn(Open) \subseteq Held(Main(e))

\* A queued job has not been started, and a DELETE of it finds every row.
Untouched ==
  job.state = "queued" =>
    /\ \A s \in Scenario : row[s] = "pending"
    /\ \A e \in Executor, s \in Scenario : Pc(Child(e, s)) = "off"
    /\ Pc(Delete) = "sweep" => session[Delete].seen = Scenario
    /\ Pc(Delete) = "swept" => Held(Delete) = Scenario

RowTypes == row \in [Scenario -> Open \cup {"cancelled"} \cup Judged]
ColumnTypes ==
  /\ job \in [state : {"queued", "running", "cancelling"} \cup Terminal,
              cancel : BOOLEAN, owner : Executor \cup {None}, live : BOOLEAN,
              completed : Nat]
  /\ RowTypes
  /\ rowLock \in [Scenario -> Session \cup {None}]
  /\ raised \in [Executor -> BOOLEAN]
  /\ stalls \in 0..MaxStalls

LockInv == ColumnTypes /\ Places /\ Tasks /\ JobLocked /\ RowsLocked /\ Closing /\ Untouched

SqlInv == LockInv /\ CountsCommittedVerdicts /\ EndClosesRows

(***************************************************************************)
(* Transactions and their moves                                            *)
(***************************************************************************)

\* Transactions of different programs, or of different rows, are different.
LEMMA Apart ==
  /\ \A e \in Executor : Main(e) \in Session /\ Main(e) # Delete /\ Main(e) # None
  /\ \A e \in Executor, s \in Scenario :
       Child(e, s) \in Session /\ Child(e, s) # Delete /\ Child(e, s) # None
  /\ Delete \in Session /\ Delete # None
  /\ \A e, f \in Executor : Main(e) = Main(f) => e = f
  /\ \A e, f \in Executor, s, t \in Scenario : Child(e, s) = Child(f, t) => e = f /\ s = t
  /\ \A e, f \in Executor, s \in Scenario : Main(e) # Child(f, s)
  <1>1. /\ \A e \in Executor : Main(e) \in Session
        /\ \A e \in Executor, s \in Scenario : Child(e, s) \in Session
        /\ Delete \in Session
    BY DEF Session
  <1>2. /\ \A e \in Executor : Main(e) # Delete
        /\ \A e, f \in Executor : Main(e) = Main(f) => e = f
        /\ \A e, f \in Executor, s \in Scenario : Main(e) # Child(f, s)
    BY DEF Main, Child, Delete
  <1>3. /\ \A e \in Executor, s \in Scenario : Child(e, s) # Delete
        /\ \A e, f \in Executor, s, t \in Scenario : Child(e, s) = Child(f, t) => e = f /\ s = t
    BY DEF Child, Delete
  <1> QED
    BY <1>1, <1>2, <1>3, NoneAssumption

\* Every transaction is an executor's, a scenario task's or a DELETE's.
LEMMA Kinds ==
  ASSUME NEW c \in Session
  PROVE  \/ \E e \in Executor : c = Main(e)
         \/ \E e \in Executor, s \in Scenario : c = Child(e, s)
         \/ c = Delete
  BY DEF Session

OthersStay(c) ==
  \A d \in Session : d # c => session'[d] = session[d] /\ Pc(d)' = Pc(d)

\* A transaction that moves leaves the others, and what it saw, where they are.
LEMMA Moved ==
  ASSUME Places, NEW c \in Session, NEW p, Move(c, p)
  PROVE  /\ Pc(c)' = p /\ session'[c].seen = session[c].seen
         /\ OthersStay(c)
         /\ p \in MainPcs \cup ChildPcs \cup DeletePcs => session' \in Sessions
  BY DEF Places, Sessions, Move, Pc, OthersStay

\* So does one that looks rows up.
LEMMA Looked ==
  ASSUME Places, NEW c \in Session, NEW p, NEW S, Looks(c, p, S)
  PROVE  /\ Pc(c)' = p /\ session'[c].seen = S
         /\ OthersStay(c)
         /\ p \in MainPcs \cup ChildPcs \cup DeletePcs /\ S \subseteq Scenario =>
              session' \in Sessions
  BY DEF Places, Sessions, Looks, Pc, OthersStay

\* A statement that locks the rows it looked up, having waited for them, takes no
\* lock from another transaction.
LEMMA Locked ==
  ASSUME LockInv, NEW c \in Session, NEW S, LocksMatching(c, S),
         Free(c), Pc(c) \in {"reset", "close", "sweep"}
  PROVE  /\ rowLock' \in [Scenario -> Session \cup {None}]
         /\ \A s \in Scenario :
              \/ /\ s \in session[c].seen /\ row[s] \in S
                 /\ rowLock[s] \in {None, c} /\ rowLock'[s] = c
              \/ /\ ~(s \in session[c].seen /\ row[s] \in S)
                 /\ rowLock'[s] = rowLock[s]
  <1>1. rowLock \in [Scenario -> Session \cup {None}] /\ session[c].seen \subseteq Scenario
    BY DEF LockInv, ColumnTypes, Places, Sessions
  <1>2. \A s \in session[c].seen : rowLock[s] \in {None, c}
    BY <1>1 DEF Free, Blockers, NeedsRows
  <1> QED
    BY <1>1, <1>2 DEF LocksMatching

\* A commit or rollback gives back the transaction's locks and no other.
LEMMA Released ==
  ASSUME LockInv, NEW c \in Session, Releases(c)
  PROVE  /\ rowLock' \in [Scenario -> Session \cup {None}]
         /\ \A s \in Scenario : rowLock'[s] = IF rowLock[s] = c THEN None ELSE rowLock[s]
         /\ jobLock' = IF jobLock = c THEN None ELSE jobLock
  BY DEF Releases, LockInv, ColumnTypes

\* A commit gives the rows it holds their new state.
LEMMA Written ==
  ASSUME NEW c, NEW to, Writes(c, to)
  PROVE  \A s \in Scenario : row'[s] = IF rowLock[s] = c THEN to ELSE row[s]
  BY DEF Writes

(***************************************************************************)
(* claim                                                                   *)
(***************************************************************************)

\* SELECT ... FOR UPDATE: the job row is free and becomes the claim's.
LEMMA ClaimLocksKeeps ==
  ASSUME LockInv, NEW e \in Executor, ClaimLocks(e)
  PROVE  LockInv'
  <1> DEFINE c == Main(e)
  <1>1. /\ Pc(c) = "claim" /\ jobLock \in {None, c} /\ jobLock' = c
        /\ \/ job.state = "running" /\ Move(c, "lookRunning")
           \/ job.state = "queued" /\ Move(c, "take")
        /\ UNCHANGED <<job, row, rowLock, raised, stalls>>
    BY DEF ClaimLocks, Free, Blockers, NeedsJob
  <1>2. /\ \/ Pc(c)' = "lookRunning" /\ job.state = "running"
           \/ Pc(c)' = "take" /\ job.state = "queued"
        /\ OthersStay(c) /\ session' \in Sessions
    BY <1>1, Moved, Apart DEF LockInv, MainPcs
  <1> USE DEF LockInv, OthersStay
  <1>3. ColumnTypes'
    BY <1>1 DEF ColumnTypes, RowTypes
  <1>4. Places' /\ Tasks'
    BY <1>1, <1>2, Apart DEF Places, Tasks, MainPcs, Claiming, Finishing
  <1>5. JobLocked'
    BY <1>1, <1>2, Apart DEF JobLocked, HoldsJob
  <1>6. RowsLocked'
    BY <1>1, <1>2, Apart DEF RowsLocked
  <1>7. Closing'
    BY <1>1, <1>2, Apart DEF Closing, RowsIn, Target, Held
  <1>8. Untouched'
    BY <1>1, <1>2, Apart DEF Untouched, Held
  <1> QED
    BY <1>3, <1>4, <1>5, <1>6, <1>7, <1>8

\* The rows of the interrupted attempts are looked up.
LEMMA ClaimLooksKeeps ==
  ASSUME LockInv, NEW e \in Executor, ClaimLooks(e)
  PROVE  LockInv'
  <1> DEFINE c == Main(e)
  <1>1. /\ Pc(c) = "lookRunning" /\ Looks(c, "reset", RowsIn({"running"}))
        /\ UNCHANGED <<job, row, jobLock, rowLock, raised, stalls>>
    BY DEF ClaimLooks
  <1>2. Pc(c)' = "reset" /\ OthersStay(c) /\ session' \in Sessions
    BY <1>1, Looked, Apart DEF LockInv, MainPcs, RowsIn
  <1> USE DEF LockInv, OthersStay
  <1>3. ColumnTypes'
    BY <1>1 DEF ColumnTypes, RowTypes
  <1>4. Places' /\ Tasks'
    BY <1>1, <1>2, Apart DEF Places, Tasks, MainPcs, Claiming, Finishing
  <1>5. JobLocked'
    BY <1>1, <1>2, Apart DEF JobLocked, HoldsJob
  <1>6. RowsLocked'
    BY <1>1, <1>2, Apart DEF RowsLocked
  <1>7. Closing'
    BY <1>1, <1>2, Apart DEF Closing, RowsIn, Target, Held
  <1>8. Untouched'
    BY <1>1, <1>2, Apart DEF Untouched, Held
  <1> QED
    BY <1>3, <1>4, <1>5, <1>6, <1>7, <1>8

\* The takeover's UPDATE holds what is still running.
LEMMA ClaimResetsKeeps ==
  ASSUME LockInv, NEW e \in Executor, ClaimResets(e)
  PROVE  LockInv'
  <1> DEFINE c == Main(e)
  <1>1. /\ Pc(c) = "reset" /\ Free(c) /\ LocksMatching(c, {"running"}) /\ Move(c, "take")
        /\ UNCHANGED <<job, row, jobLock, raised, stalls>>
    BY DEF ClaimResets
  <1>2. Pc(c)' = "take" /\ OthersStay(c) /\ session' \in Sessions
    BY <1>1, Moved, Apart DEF LockInv, MainPcs
  <1>3. /\ rowLock' \in [Scenario -> Session \cup {None}]
        /\ \A s \in Scenario :
             \/ row[s] = "running" /\ rowLock[s] \in {None, c} /\ rowLock'[s] = c
             \/ rowLock'[s] = rowLock[s]
    BY <1>1, Locked, Apart
  <1> USE DEF LockInv, OthersStay
  <1>4. ColumnTypes'
    BY <1>1, <1>3 DEF ColumnTypes, RowTypes
  <1>5. Places' /\ Tasks'
    BY <1>1, <1>2, Apart DEF Places, Tasks, MainPcs, Claiming, Finishing
  <1>6. JobLocked'
    BY <1>1, <1>2, Apart DEF JobLocked, HoldsJob
  <1>7. RowsLocked'
    BY <1>1, <1>2, <1>3, Apart DEF RowsLocked
  <1>8. Closing'
    BY <1>1, <1>2, <1>3, Apart DEF Closing, RowsIn, Target, Held
  <1>9. Untouched'
    BY <1>1, <1>2, <1>3, Apart DEF Untouched, JobLocked
  <1> QED
    BY <1>4, <1>5, <1>6, <1>7, <1>8, <1>9

\* The job is the claimer's, the interrupted rows are pending again, and the
\* scenarios' tasks begin.
LEMMA ClaimCommitsKeeps ==
  ASSUME LockInv, NEW e \in Executor, ClaimCommits(e)
  PROVE  /\ LockInv'
         /\ job'.completed = job.completed
         /\ job'.state = "running"
         /\ \A s \in Scenario : row[s] \in Judged <=> row'[s] \in Judged
  <1> DEFINE c == Main(e)
  <1>1. /\ Pc(c) = "take" /\ Writes(c, "pending") /\ Releases(c)
        /\ job' = [job EXCEPT !.state = "running", !.owner = e, !.live = TRUE]
        /\ session' = [d \in Session |->
                         IF d = c THEN [pc |-> "gather", seen |-> {}]
                         ELSE IF d[1] = "child" /\ d[2] = e
                           THEN [pc |-> "pending", seen |-> {}] ELSE session[d]]
        /\ UNCHANGED <<raised, stalls>>
    BY DEF ClaimCommits
  <1>2. /\ session' \in Sessions
        /\ Pc(c)' = "gather"
        /\ \A s \in Scenario : Pc(Child(e, s))' = "pending"
        /\ \A f \in Executor \ {e} :
             /\ session'[Main(f)] = session[Main(f)] /\ Pc(Main(f))' = Pc(Main(f))
             /\ \A s \in Scenario : /\ session'[Child(f, s)] = session[Child(f, s)]
                                    /\ Pc(Child(f, s))' = Pc(Child(f, s))
        /\ session'[Delete] = session[Delete] /\ Pc(Delete)' = Pc(Delete)
    <2>1. \A f \in Executor : Main(f)[1] = "executor"
      BY DEF Main
    <2>2. \A f \in Executor, s \in Scenario : Child(f, s)[1] = "child" /\ Child(f, s)[2] = f
      BY DEF Child
    <2>3. Delete[1] = "delete"
      BY DEF Delete
    <2>4. session \in Sessions
      BY DEF LockInv, Places
    <2>5. session' \in Sessions
      BY <1>1, <2>4 DEF Sessions, MainPcs, ChildPcs
    <2> QED
      BY <1>1, <2>1, <2>2, <2>3, <2>4, <2>5, Apart DEF Sessions, Pc
  <1>3. /\ rowLock' \in [Scenario -> Session \cup {None}]
        /\ \A s \in Scenario : rowLock'[s] = IF rowLock[s] = c THEN None ELSE rowLock[s]
        /\ jobLock' = IF jobLock = c THEN None ELSE jobLock
    BY <1>1, Released, Apart
  <1>4. \A s \in Scenario : row'[s] = IF rowLock[s] = c THEN "pending" ELSE row[s]
    BY <1>1, Written
  <1> USE DEF LockInv
  <1>5. \A s \in Scenario : rowLock[s] = c => row[s] = "running"
    BY <1>1 DEF RowsLocked
  <1>6. job'.state = "running" /\ job'.completed = job.completed /\ job'.cancel = job.cancel
    BY <1>1 DEF ColumnTypes
  <1>7. ColumnTypes'
    <2>1. RowTypes'
      BY <1>1 DEF ColumnTypes, RowTypes, Writes, Open
    <2> QED
      BY <1>1, <1>3, <2>1 DEF ColumnTypes
  <1>8. Places' /\ Tasks'
    BY <1>2 DEF Places, Tasks, MainPcs, ChildPcs, Claiming, Finishing
  <1>9. JobLocked'
    BY <1>1, <1>2, <1>3, <1>6, Apart DEF JobLocked, HoldsJob
  <1>10. RowsLocked'
    <2>1. \A s \in Scenario : Pc(Child(e, s)) = "off"
      BY <1>1 DEF Tasks, Claiming
    <2>2. \A s \in Scenario : rowLock'[s] # None =>
            rowLock'[s] = rowLock[s] /\ rowLock[s] # c /\ row'[s] = row[s]
      BY <1>3, <1>4
    <2>3. \A s \in Scenario, f \in Executor :
            rowLock'[s] = Main(f) => \/ Pc(Main(f))' = "take" /\ row'[s] = "running"
                                     \/ Pc(Main(f))' = "end" /\ row'[s] \in Open
      BY <1>2, <2>2, Apart DEF RowsLocked
    <2>4. \A s, t \in Scenario, f \in Executor :
            rowLock'[s] = Child(f, t) => t = s /\ Pc(Child(f, t))' = "count" /\ row'[s] = "running"
      BY <1>2, <2>1, <2>2, Apart DEF RowsLocked
    <2>5. \A s \in Scenario, f \in Executor : Pc(Child(f, s))' = "count" => rowLock'[s] = Child(f, s)
      BY <1>2, <1>3, Apart DEF RowsLocked
    <2>6. \A s \in Scenario : rowLock'[s] = Delete => Pc(Delete)' = "swept" /\ row'[s] = "pending"
      BY <1>2, <2>2, Apart DEF RowsLocked
    <2> QED
      BY <2>3, <2>4, <2>5, <2>6 DEF RowsLocked
  <1>11. Closing'
    <2>1. \A f \in Executor : Pc(Main(f))' \notin {"close", "end"}
      BY <1>1, <1>2, Apart DEF JobLocked, HoldsJob
    <2> QED
      BY <2>1 DEF Closing
  <1>12. Untouched'
    BY <1>6 DEF Untouched
  <1>13. \A s \in Scenario : row[s] \in Judged <=> row'[s] \in Judged
    BY <1>4, <1>5 DEF Judged
  <1> QED
    BY <1>6, <1>7, <1>8, <1>9, <1>10, <1>11, <1>12, <1>13

\* Time passes.
LEMMA LeaseLapsesKeeps ==
  ASSUME LockInv, LeaseLapses
  PROVE  /\ LockInv'
         /\ job'.completed = job.completed /\ job'.state = job.state /\ row' = row
  <1>1. /\ stalls < MaxStalls /\ stalls' = stalls + 1
        /\ job' = [job EXCEPT !.live = FALSE]
        /\ UNCHANGED <<row, jobLock, rowLock, session, raised>>
    BY DEF LeaseLapses
  <1> USE DEF LockInv, Pc
  <1>2. /\ job'.state = job.state /\ job'.completed = job.completed /\ job'.cancel = job.cancel
    BY <1>1 DEF ColumnTypes
  <1>3. ColumnTypes'
    <2>1. stalls' \in 0..MaxStalls
      BY <1>1, StallsAssumption DEF ColumnTypes
    <2>2. job' \in [state : {"queued", "running", "cancelling"} \cup Terminal,
                   cancel : BOOLEAN, owner : Executor \cup {None}, live : BOOLEAN,
                   completed : Nat]
      BY <1>1 DEF ColumnTypes
    <2> QED
      BY <1>1, <2>1, <2>2 DEF ColumnTypes, RowTypes
  <1>4. Places' /\ Tasks' /\ RowsLocked'
    BY <1>1 DEF Places, Tasks, RowsLocked
  <1>5. JobLocked'
    BY <1>1, <1>2 DEF JobLocked
  <1>6. Closing'
    BY <1>1, <1>2 DEF Closing, RowsIn, Target, Held
  <1>7. Untouched'
    BY <1>1, <1>2 DEF Untouched, Held
  <1> QED
    BY <1>1, <1>2, <1>3, <1>4, <1>5, <1>6, <1>7

(***************************************************************************)
(* The scenarios' tasks                                                    *)
(***************************************************************************)

\* A task that takes no lock moves on, perhaps starting its row, perhaps raising:
\* all that scenario_started and a refused scenario_finished do.
LEMMA TaskMoves ==
  ASSUME LockInv, NEW e \in Executor, NEW s \in Scenario,
         NEW p \in {"start", "run", "judge", "done"},
         Pc(Child(e, s)) \in {"pending", "start", "run", "judge"},
         \/ Looks(Child(e, s), p, {s})
         \/ Move(Child(e, s), p) /\ p \in {"run", "done"},
         \/ row' = row
         \/ row[s] = "pending" /\ rowLock[s] = None /\ row' = [row EXCEPT ![s] = "running"],
         raised' = raised \/ raised' = [raised EXCEPT ![e] = TRUE],
         UNCHANGED <<job, jobLock, rowLock, stalls>>
  PROVE  LockInv'
  <1> DEFINE c == Child(e, s)
  <1>1. /\ Pc(c)' = p /\ OthersStay(c) /\ session' \in Sessions
        /\ p \in {"start", "judge"} => session'[c].seen = {s}
    BY Moved, Looked, Apart DEF LockInv, ChildPcs
  <1> USE DEF LockInv, OthersStay
  <1>2. Pc(Main(e)) \notin Claiming \cup Finishing
    BY DEF Tasks
  <1>3. row \in [Scenario -> Open \cup {"cancelled"} \cup Judged] /\ raised \in [Executor -> BOOLEAN]
    BY DEF ColumnTypes, RowTypes
  <1>4. /\ \A t \in Scenario : \/ row'[t] = row[t]
                               \/ row[t] = "pending" /\ row'[t] = "running" /\ rowLock[t] = None
        /\ \A t \in Scenario : row'[t] \in Open <=> row[t] \in Open
    BY <1>3 DEF Open
  <1>5. \A f \in Executor : f # e => raised'[f] = raised[f]
    BY <1>3
  <1>6. ColumnTypes'
    BY <1>3 DEF ColumnTypes, RowTypes, Open
  <1>7. Places'
    BY <1>1, Apart DEF Places, ChildPcs
  <1>8. Tasks'
    BY <1>1, <1>2, Apart DEF Tasks
  <1>9. JobLocked'
    BY <1>1, Apart DEF JobLocked
  <1>10. RowsLocked'
    BY <1>1, <1>4, Apart DEF RowsLocked
  <1>11. Closing'
    <2>1. \A f \in Executor : session'[Main(f)] = session[Main(f)] /\ Pc(Main(f))' = Pc(Main(f))
      BY <1>1, Apart
    <2>2. \A f \in Executor : Held(Main(f))' = Held(Main(f))
      BY DEF Held
    <2>3. RowsIn(Open)' = RowsIn(Open)
      BY <1>4 DEF RowsIn
    <2>4. \A f \in Executor : Pc(Main(f)) = "end" => Target(f)' = Target(f)
      BY <1>2, <1>5 DEF Target, Finishing
    <2> QED
      BY <2>1, <2>2, <2>3, <2>4 DEF Closing
  <1>12. Untouched'
    BY <1>1 DEF Untouched
  <1> QED
    BY <1>6, <1>7, <1>8, <1>9, <1>10, <1>11, <1>12

\* scenario_started looks its row and its job up.
LEMMA StartLooksKeeps ==
  ASSUME LockInv, NEW e \in Executor, NEW s \in Scenario, StartLooks(e, s)
  PROVE  LockInv' /\ UNCHANGED <<job, row>>
  <1>1. /\ Pc(Child(e, s)) = "pending"
        /\ Looks(Child(e, s), "start", {s}) \/ Move(Child(e, s), "done")
        /\ UNCHANGED <<job, row, jobLock, rowLock, raised, stalls>>
    BY DEF StartLooks
  <1> QED
    BY <1>1, TaskMoves

\* A statement about one row waits for the lock of that row.
LEMMA RowIsFree ==
  ASSUME LockInv, NEW e \in Executor, NEW s \in Scenario,
         Pc(Child(e, s)) \in {"start", "judge"}, Free(Child(e, s))
  PROVE  rowLock[s] = None
  <1>1. session[Child(e, s)].seen = {s}
    BY DEF LockInv, Places
  <1>2. rowLock[s] \in {None, Child(e, s)}
    BY <1>1 DEF Free, Blockers, NeedsRows
  <1>3. rowLock[s] # Child(e, s)
    BY DEF LockInv, RowsLocked
  <1> QED
    BY <1>2, <1>3

\* scenario_started writes the row if it is still pending.
LEMMA StartWritesKeeps ==
  ASSUME LockInv, NEW e \in Executor, NEW s \in Scenario, StartWrites(e, s)
  PROVE  /\ LockInv' /\ job' = job
         /\ \/ row' = row
            \/ row[s] = "pending" /\ row' = [row EXCEPT ![s] = "running"]
  <1>1. /\ Pc(Child(e, s)) = "start" /\ Free(Child(e, s))
        /\ \/ /\ row[s] = "pending" /\ row' = [row EXCEPT ![s] = "running"]
              /\ Move(Child(e, s), "run")
           \/ row' = row /\ Move(Child(e, s), "done")
        /\ UNCHANGED <<job, jobLock, rowLock, raised, stalls>>
    BY DEF StartWrites
  <1>2. rowLock[s] = None
    BY <1>1, RowIsFree
  <1> QED
    BY <1>1, <1>2, TaskMoves

\* scenario_finished looks its row and its job up, or raises.
LEMMA FinishedLooksKeeps ==
  ASSUME LockInv, NEW e \in Executor, NEW s \in Scenario, FinishedLooks(e, s)
  PROVE  LockInv' /\ UNCHANGED <<job, row>>
  <1>1. /\ Pc(Child(e, s)) = "run"
        /\ \/ Looks(Child(e, s), "judge", {s}) /\ raised' = raised
           \/ raised' = [raised EXCEPT ![e] = TRUE] /\ Move(Child(e, s), "done")
        /\ UNCHANGED <<job, row, jobLock, rowLock, stalls>>
    BY DEF FinishedLooks, Raise
  <1> QED
    BY <1>1, TaskMoves

\* scenario_finished holds the row of its verdict, or raises.
LEMMA FinishedWritesKeeps ==
  ASSUME LockInv, NEW e \in Executor, NEW s \in Scenario, FinishedWrites(e, s)
  PROVE  LockInv' /\ UNCHANGED <<job, row>>
  <1> DEFINE c == Child(e, s)
  <1>1. /\ Pc(c) = "judge" /\ Free(c)
        /\ UNCHANGED <<job, row, jobLock, stalls>>
    BY DEF FinishedWrites
  <1>2. CASE row[s] # "running"
    <2>1. raised' = [raised EXCEPT ![e] = TRUE] /\ Move(c, "done") /\ UNCHANGED rowLock
      BY <1>2 DEF FinishedWrites, Raise
    <2> QED
      BY <1>1, <2>1, TaskMoves
  <1>3. CASE row[s] = "running"
    <2>1. rowLock' = [rowLock EXCEPT ![s] = c] /\ Move(c, "count") /\ UNCHANGED raised
      BY <1>3 DEF FinishedWrites
    <2>2. Pc(c)' = "count" /\ OthersStay(c) /\ session' \in Sessions
      BY <2>1, Moved, Apart DEF LockInv, ChildPcs
    <2>3. rowLock[s] = None
      BY <1>1, RowIsFree
    <2> USE DEF LockInv, OthersStay
    <2>4. /\ rowLock' \in [Scenario -> Session \cup {None}] /\ rowLock'[s] = c
          /\ \A t \in Scenario : t # s => rowLock'[t] = rowLock[t]
      BY <2>1, Apart DEF ColumnTypes
    <2>5. ColumnTypes'
      BY <1>1, <2>1, <2>4 DEF ColumnTypes, RowTypes
    <2>6. Places' /\ Tasks'
      BY <1>1, <2>2, Apart DEF Places, Tasks, ChildPcs
    <2>7. JobLocked'
      BY <1>1, <2>2, Apart DEF JobLocked
    <2>8. RowsLocked'
      <3>1. \A t \in Scenario, f \in Executor :
              rowLock'[t] = Main(f) => rowLock[t] = Main(f) /\ Pc(Main(f))' = Pc(Main(f))
        BY <2>2, <2>4, Apart
      <3>2. \A t, u \in Scenario, f \in Executor :
              rowLock'[t] = Child(f, u) =>
                u = t /\ Pc(Child(f, u))' = "count" /\ row'[t] = "running"
        BY <1>1, <1>3, <2>2, <2>4, Apart DEF RowsLocked
      <3>3. \A t \in Scenario, f \in Executor : Pc(Child(f, t))' = "count" => rowLock'[t] = Child(f, t)
        BY <2>2, <2>3, <2>4, Apart DEF RowsLocked
      <3>4. \A t \in Scenario : rowLock'[t] = Delete => Pc(Delete)' = "swept" /\ row'[t] = "pending"
        BY <1>1, <2>2, <2>4, Apart DEF RowsLocked
      <3> QED
        BY <1>1, <3>1, <3>2, <3>3, <3>4 DEF RowsLocked
    <2>9. Closing'
      <3>1. \A f \in Executor : session'[Main(f)] = session[Main(f)] /\ Pc(Main(f))' = Pc(Main(f))
        BY <2>2, Apart
      <3>2. \A f \in Executor : Held(Main(f)) \subseteq Held(Main(f))'
        BY <2>3, <2>4, Apart DEF Held
      <3>3. RowsIn(Open)' = RowsIn(Open) /\ \A f \in Executor : Target(f)' = Target(f)
        BY <1>1, <2>1 DEF RowsIn, Target
      <3> QED
        BY <3>1, <3>2, <3>3 DEF Closing
    <2>10. Untouched'
      BY <1>1 DEF Untouched
    <2> QED
      BY <1>1, <2>5, <2>6, <2>7, <2>8, <2>9, <2>10
  <1> QED
    BY <1>2, <1>3

\* scenario_finished counts its verdict and commits both.
LEMMA FinishedCountsKeeps ==
  ASSUME LockInv, NEW e \in Executor, NEW s \in Scenario, FinishedCounts(e, s)
  PROVE  /\ LockInv'
         /\ row[s] = "running" /\ row' = [row EXCEPT ![s] = "passed"]
         /\ job'.completed = job.completed + 1 /\ job'.state = job.state
  <1> DEFINE c == Child(e, s)
  <1>1. /\ Pc(c) = "count" /\ Writes(c, "passed") /\ Releases(c) /\ Move(c, "done")
        /\ job' = [job EXCEPT !.completed = @ + 1]
        /\ UNCHANGED <<raised, stalls>>
    BY DEF FinishedCounts
  <1>2. Pc(c)' = "done" /\ OthersStay(c) /\ session' \in Sessions
    BY <1>1, Moved, Apart DEF LockInv, ChildPcs
  <1>3. /\ rowLock' \in [Scenario -> Session \cup {None}]
        /\ \A t \in Scenario : rowLock'[t] = IF rowLock[t] = c THEN None ELSE rowLock[t]
        /\ jobLock' = jobLock
    BY <1>1, Released, Apart DEF LockInv, JobLocked
  <1> USE DEF LockInv, OthersStay
  <1>4. \A t \in Scenario : rowLock[t] = c <=> t = s
    BY <1>1, Apart DEF RowsLocked
  <1>5. row[s] = "running"
    BY <1>4 DEF RowsLocked
  <1>6. row' = [row EXCEPT ![s] = "passed"]
    BY <1>1, <1>4 DEF Writes, ColumnTypes, RowTypes
  <1>7. /\ job'.completed = job.completed + 1 /\ job'.state = job.state /\ job'.cancel = job.cancel
        /\ job' \in [state : {"queued", "running", "cancelling"} \cup Terminal,
                     cancel : BOOLEAN, owner : Executor \cup {None}, live : BOOLEAN,
                     completed : Nat]
    BY <1>1 DEF ColumnTypes
  <1>8. ColumnTypes'
    BY <1>1, <1>3, <1>6, <1>7 DEF ColumnTypes, RowTypes, Judged
  <1>9. Places' /\ Tasks'
    BY <1>1, <1>2, Apart DEF Places, Tasks, ChildPcs
  <1>10. JobLocked'
    BY <1>2, <1>3, <1>7, Apart DEF JobLocked
  <1>11. RowsLocked'
    <2>1. /\ \A t \in Scenario : t # s => rowLock'[t] = rowLock[t] /\ row'[t] = row[t]
          /\ rowLock'[s] = None
      BY <1>3, <1>4, <1>6 DEF ColumnTypes, RowTypes
    <2>2. \A t \in Scenario, f \in Executor :
            rowLock'[t] = Main(f) =>
              rowLock[t] = Main(f) /\ row'[t] = row[t] /\ Pc(Main(f))' = Pc(Main(f))
      BY <1>2, <2>1, Apart
    <2>3. \A t, u \in Scenario, f \in Executor :
            rowLock'[t] = Child(f, u) =>
              u = t /\ Pc(Child(f, u))' = "count" /\ row'[t] = "running"
      BY <1>2, <2>1, Apart DEF RowsLocked
    <2>4. \A t \in Scenario, f \in Executor : Pc(Child(f, t))' = "count" => rowLock'[t] = Child(f, t)
      BY <1>2, <1>4, <2>1, Apart DEF RowsLocked
    <2>5. \A t \in Scenario : rowLock'[t] = Delete => Pc(Delete)' = "swept" /\ row'[t] = "pending"
      BY <1>2, <2>1, Apart DEF RowsLocked
    <2> QED
      BY <2>2, <2>3, <2>4, <2>5 DEF RowsLocked
  <1>12. Closing'
    <2>1. \A f \in Executor : session'[Main(f)] = session[Main(f)] /\ Pc(Main(f))' = Pc(Main(f))
      BY <1>2, Apart
    <2>2. \A f \in Executor : Held(Main(f))' = Held(Main(f)) /\ Target(f)' = Target(f)
      BY <1>1, <1>3, <1>7, Apart DEF Held, Target
    <2>3. RowsIn(Open)' \subseteq RowsIn(Open)
      BY <1>5, <1>6 DEF RowsIn, Open, ColumnTypes, RowTypes
    <2> QED
      BY <2>1, <2>2, <2>3 DEF Closing
  <1>13. Untouched'
    BY <1>1, <1>7 DEF Untouched
  <1> QED
    BY <1>5, <1>6, <1>7, <1>8, <1>9, <1>10, <1>11, <1>12, <1>13

\* A task that is cut short rolls back: its lock goes, its row stays.
LEMMA TaskStops ==
  ASSUME LockInv, NEW e \in Executor, NEW s \in Scenario,
         Pc(Child(e, s)) \notin {"off", "done"},
         Releases(Child(e, s)), Move(Child(e, s), "done"),
         raised' = raised \/ raised' = [raised EXCEPT ![e] = TRUE],
         UNCHANGED <<job, row, stalls>>
  PROVE  LockInv'
  <1> DEFINE c == Child(e, s)
  <1>1. Pc(c)' = "done" /\ OthersStay(c) /\ session' \in Sessions
    BY Moved, Apart DEF LockInv, ChildPcs
  <1>2. /\ rowLock' \in [Scenario -> Session \cup {None}]
        /\ \A t \in Scenario : rowLock'[t] = IF rowLock[t] = c THEN None ELSE rowLock[t]
        /\ jobLock' = jobLock
    BY Released, Apart DEF LockInv, JobLocked
  <1> USE DEF LockInv, OthersStay
  <1>3. Pc(Main(e)) \notin Claiming \cup Finishing
    BY DEF Tasks
  <1>4. raised' \in [Executor -> BOOLEAN] /\ \A f \in Executor : f # e => raised'[f] = raised[f]
    BY DEF ColumnTypes
  <1>5. ColumnTypes'
    BY <1>2, <1>4 DEF ColumnTypes, RowTypes
  <1>6. Places'
    BY <1>1, Apart DEF Places, ChildPcs
  <1>7. Tasks'
    BY <1>1, <1>3, Apart DEF Tasks
  <1>8. JobLocked'
    BY <1>1, <1>2, Apart DEF JobLocked
  <1>9. RowsLocked'
    BY <1>1, <1>2, Apart DEF RowsLocked
  <1>10. Closing'
    <2>1. \A f \in Executor : session'[Main(f)] = session[Main(f)] /\ Pc(Main(f))' = Pc(Main(f))
      BY <1>1, Apart
    <2>2. \A f \in Executor : Held(Main(f))' = Held(Main(f))
      BY <1>2, Apart DEF Held
    <2>3. RowsIn(Open)' = RowsIn(Open)
      BY DEF RowsIn
    <2>4. \A f \in Executor : Pc(Main(f)) = "end" => Target(f)' = Target(f)
      BY <1>3, <1>4 DEF Target, Finishing
    <2> QED
      BY <2>1, <2>2, <2>3, <2>4 DEF Closing
  <1>11. Untouched'
    BY DEF Untouched
  <1> QED
    BY <1>5, <1>6, <1>7, <1>8, <1>9, <1>10, <1>11

\* gather cancels a task.
LEMMA ChildStopsKeeps ==
  ASSUME LockInv, NEW e \in Executor, NEW s \in Scenario, ChildStops(e, s)
  PROVE  LockInv' /\ UNCHANGED <<job, row>>
  BY TaskStops DEF ChildStops

(***************************************************************************)
(* finish                                                                  *)
(***************************************************************************)

\* All tasks of the executor have ended.
LEMMA GathersKeeps ==
  ASSUME LockInv, NEW e \in Executor, Gathers(e)
  PROVE  LockInv' /\ UNCHANGED <<job, row>>
  <1> DEFINE c == Main(e)
  <1>1. /\ Pc(c) = "gather" /\ Move(c, "finish")
        /\ \A s \in Scenario : Pc(Child(e, s)) = "done"
        /\ UNCHANGED <<job, row, jobLock, rowLock, raised, stalls>>
    BY DEF Gathers
  <1>2. Pc(c)' = "finish" /\ OthersStay(c) /\ session' \in Sessions
    BY <1>1, Moved, Apart DEF LockInv, MainPcs
  <1> USE DEF LockInv, OthersStay
  <1>3. ColumnTypes'
    BY <1>1 DEF ColumnTypes, RowTypes
  <1>4. Places' /\ Tasks'
    BY <1>1, <1>2, Apart DEF Places, Tasks, MainPcs, Claiming, Finishing
  <1>5. JobLocked'
    BY <1>1, <1>2, Apart DEF JobLocked, HoldsJob
  <1>6. RowsLocked'
    BY <1>1, <1>2, Apart DEF RowsLocked
  <1>7. Closing'
    BY <1>1, <1>2, Apart DEF Closing, RowsIn, Target, Held
  <1>8. Untouched'
    BY <1>1, <1>2, Apart DEF Untouched, Held
  <1> QED
    BY <1>1, <1>3, <1>4, <1>5, <1>6, <1>7, <1>8

\* finish holds the job row, or is refused: it ends there when all went well.
LEMMA FinishLocksKeeps ==
  ASSUME LockInv, NEW e \in Executor, FinishLocks(e)
  PROVE  LockInv' /\ UNCHANGED <<job, row>>
  <1> DEFINE c == Main(e)
  <1>1. /\ Pc(c) = "finish" /\ jobLock \in {None, c}
        /\ \/ jobLock' = c /\ Move(c, "end") /\ Target(e) = "completed"
           \/ jobLock' = c /\ Move(c, "lookOpen")
           \/ jobLock' = jobLock /\ Move(c, "off")
        /\ UNCHANGED <<job, row, rowLock, raised, stalls>>
    BY DEF FinishLocks, Free, Blockers, NeedsJob
  <1>2. /\ \/ jobLock' = c /\ Pc(c)' = "end" /\ Target(e) = "completed"
           \/ jobLock' = c /\ Pc(c)' = "lookOpen"
           \/ jobLock' = jobLock /\ Pc(c)' = "off"
        /\ OthersStay(c) /\ session' \in Sessions
    BY <1>1, Moved, Apart DEF LockInv, MainPcs
  <1> USE DEF LockInv, OthersStay
  <1>3. jobLock = None
    BY <1>1 DEF JobLocked, HoldsJob
  <1>4. ColumnTypes'
    BY <1>1 DEF ColumnTypes, RowTypes
  <1>5. Places' /\ Tasks'
    BY <1>1, <1>2, Apart DEF Places, Tasks, MainPcs, Claiming, Finishing
  <1>6. JobLocked'
    BY <1>1, <1>2, <1>3, Apart DEF JobLocked, HoldsJob
  <1>7. RowsLocked'
    BY <1>1, <1>2, Apart DEF RowsLocked
  <1>8. Closing'
    BY <1>1, <1>2, Apart DEF Closing, RowsIn, Target, Held
  <1>9. Untouched'
    BY <1>1, <1>2, Apart DEF Untouched, Held
  <1> QED
    BY <1>1, <1>4, <1>5, <1>6, <1>7, <1>8, <1>9

\* The rows still open are looked up.
LEMMA FinishLooksKeeps ==
  ASSUME LockInv, NEW e \in Executor, FinishLooks(e)
  PROVE  LockInv' /\ UNCHANGED <<job, row>>
  <1> DEFINE c == Main(e)
  <1>1. /\ Pc(c) = "lookOpen" /\ Looks(c, "close", RowsIn(Open))
        /\ UNCHANGED <<job, row, jobLock, rowLock, raised, stalls>>
    BY DEF FinishLooks, Open
  <1>2. /\ Pc(c)' = "close" /\ session'[c].seen = RowsIn(Open)
        /\ OthersStay(c) /\ session' \in Sessions
    BY <1>1, Looked, Apart DEF LockInv, MainPcs, RowsIn
  <1> USE DEF LockInv, OthersStay
  <1>3. ColumnTypes'
    BY <1>1 DEF ColumnTypes, RowTypes
  <1>4. Places' /\ Tasks'
    BY <1>1, <1>2, Apart DEF Places, Tasks, MainPcs, Claiming, Finishing
  <1>5. JobLocked'
    BY <1>1, <1>2, Apart DEF JobLocked, HoldsJob
  <1>6. RowsLocked'
    BY <1>1, <1>2, Apart DEF RowsLocked
  <1>7. Closing'
    BY <1>1, <1>2, Apart DEF Closing, RowsIn, Target, Held
  <1>8. Untouched'
    BY <1>1, <1>2, Apart DEF Untouched, Held
  <1> QED
    BY <1>1, <1>3, <1>4, <1>5, <1>6, <1>7, <1>8

\* The closing UPDATE holds every row that is open: those it looked up, as none
\* opened since.
LEMMA FinishClosesKeeps ==
  ASSUME LockInv, NEW e \in Executor, FinishCloses(e)
  PROVE  LockInv' /\ UNCHANGED <<job, row>>
  <1> DEFINE c == Main(e)
  <1>1. /\ Pc(c) = "close" /\ Free(c) /\ LocksMatching(c, Open) /\ Move(c, "end")
        /\ UNCHANGED <<job, row, jobLock, raised, stalls>>
    BY DEF FinishCloses, Open
  <1>2. Pc(c)' = "end" /\ OthersStay(c) /\ session' \in Sessions
    BY <1>1, Moved, Apart DEF LockInv, MainPcs
  <1>3. /\ rowLock' \in [Scenario -> Session \cup {None}]
        /\ \A s \in Scenario :
             \/ /\ s \in session[c].seen /\ row[s] \in Open
                /\ rowLock[s] \in {None, c} /\ rowLock'[s] = c
             \/ /\ ~(s \in session[c].seen /\ row[s] \in Open)
                /\ rowLock'[s] = rowLock[s]
    BY <1>1, Locked, Apart
  <1> USE DEF LockInv, OthersStay
  <1>4. ColumnTypes'
    BY <1>1, <1>3 DEF ColumnTypes, RowTypes
  <1>5. Places' /\ Tasks'
    BY <1>1, <1>2, Apart DEF Places, Tasks, MainPcs, Claiming, Finishing
  <1>6. JobLocked'
    BY <1>1, <1>2, Apart DEF JobLocked, HoldsJob
  <1>7. RowsLocked'
    BY <1>1, <1>2, <1>3, Apart DEF RowsLocked
  <1>8. Closing'
    <2>1. RowsIn(Open) \subseteq session[c].seen
      BY <1>1 DEF Closing
    <2>2. RowsIn(Open)' \subseteq Held(c)'
      BY <1>1, <1>3, <2>1 DEF RowsIn, Held
    <2>3. \A f \in Executor : f # e => Pc(Main(f))' \notin {"close", "end"}
      BY <1>1, <1>2, Apart DEF JobLocked, HoldsJob
    <2> QED
      BY <1>2, <2>2, <2>3 DEF Closing
  <1>9. Untouched'
    <2>1. Pc(Delete) = "swept" => job.state # "queued"
      BY <1>1, Apart DEF JobLocked, HoldsJob, Cancelling
    <2> QED
      BY <1>1, <1>2, <2>1, Apart DEF Untouched
  <1> QED
    BY <1>1, <1>4, <1>5, <1>6, <1>7, <1>8, <1>9

\* The job ends, the rows held are closed, and the counts are taken anew.
LEMMA FinishCommitsKeeps ==
  ASSUME LockInv, NEW e \in Executor, FinishCommits(e)
  PROVE  /\ LockInv'
         /\ job'.state = Target(e)
         /\ job'.completed = Cardinality(RowsIn(Judged)')
         /\ \A s \in Scenario : row[s] \in Judged => row'[s] = row[s]
         /\ Target(e) # "completed" => RowsIn(Open)' = {}
  <1> DEFINE c == Main(e)
             closed == IF Target(e) = "cancelled" THEN "cancelled" ELSE "error"
             counted == Cardinality({s \in Scenario : row'[s] \in Judged})
  <1>1. /\ Pc(c) = "end" /\ Writes(c, closed) /\ Releases(c) /\ Move(c, "off")
        /\ job' = [job EXCEPT !.state = Target(e), !.owner = None, !.live = FALSE,
                              !.completed = counted]
        /\ UNCHANGED <<raised, stalls>>
    BY DEF FinishCommits
  <1>2. Pc(c)' = "off" /\ OthersStay(c) /\ session' \in Sessions
    BY <1>1, Moved, Apart DEF LockInv, MainPcs
  <1>3. /\ rowLock' \in [Scenario -> Session \cup {None}]
        /\ \A s \in Scenario : rowLock'[s] = IF rowLock[s] = c THEN None ELSE rowLock[s]
        /\ jobLock' = IF jobLock = c THEN None ELSE jobLock
    BY <1>1, Released, Apart
  <1>4. \A s \in Scenario : row'[s] = IF rowLock[s] = c THEN closed ELSE row[s]
    BY <1>1, Written
  <1> USE DEF LockInv, OthersStay
  <1>5. \A s \in Scenario : rowLock[s] = c => row[s] \in Open
    BY <1>1 DEF RowsLocked, Open
  <1>6. jobLock = c /\ jobLock' = None
    BY <1>1, <1>3 DEF JobLocked, HoldsJob
  <1>7. counted \in Nat
    <2>1. IsFiniteSet({s \in Scenario : row'[s] \in Judged})
      BY SetsAssumption, FS_Subset
    <2> QED
      BY <2>1, FS_CardinalityType
  <1> HIDE DEF counted
  <1>8. Target(e) \in Terminal
    BY DEF Target, Terminal
  <1>9. /\ job'.state = Target(e) /\ job'.completed = counted
        /\ job' \in [state : {"queued", "running", "cancelling"} \cup Terminal,
                     cancel : BOOLEAN, owner : Executor \cup {None}, live : BOOLEAN,
                     completed : Nat]
    BY <1>1, <1>7, <1>8 DEF ColumnTypes
  <1>10. RowTypes'
    BY <1>1 DEF ColumnTypes, RowTypes, Writes, Judged
  <1>11. ColumnTypes'
    BY <1>1, <1>3, <1>9, <1>10 DEF ColumnTypes
  <1>12. Places' /\ Tasks'
    BY <1>1, <1>2, Apart DEF Places, Tasks, MainPcs, Claiming, Finishing
  <1>13. \A f \in Executor : Pc(Main(f))' \notin HoldsJob
    BY <1>2, <1>6, Apart DEF JobLocked, HoldsJob
  <1>14. JobLocked'
    <2>1. job'.state \notin {"queued", "running"}
      BY <1>8, <1>9 DEF Terminal
    <2>2. \A f \in Executor : Pc(Main(f))' \notin {"lookRunning", "reset", "take"}
      BY <1>13 DEF HoldsJob
    <2> QED
      BY <1>6, <1>13, <2>1, <2>2, Apart DEF JobLocked
  <1>15. RowsLocked'
    <2>1. \A s \in Scenario : rowLock'[s] # None =>
            rowLock'[s] = rowLock[s] /\ rowLock[s] # c /\ row'[s] = row[s]
      BY <1>3, <1>4
    <2> QED
      BY <1>2, <1>3, <2>1, Apart DEF RowsLocked
  <1>16. Closing'
    BY <1>13 DEF Closing, HoldsJob
  <1>17. Untouched'
    BY <1>8, <1>9 DEF Untouched, Terminal
  <1>18. \A s \in Scenario : row[s] \in Judged => row'[s] = row[s]
    BY <1>4, <1>5 DEF Judged, Open
  <1>19. Target(e) # "completed" => RowsIn(Open)' = {}
    BY <1>1, <1>4 DEF Closing, RowsIn, Held, Open
  <1> QED
    BY <1>9, <1>11, <1>12, <1>14, <1>15, <1>16, <1>17, <1>18, <1>19 DEF counted, RowsIn

(***************************************************************************)
(* request_cancel                                                          *)
(***************************************************************************)

\* SELECT ... FOR UPDATE of a job that may still be cancelled.
LEMMA CancelLocksKeeps ==
  ASSUME LockInv, CancelLocks
  PROVE  LockInv' /\ UNCHANGED <<job, row>>
  <1>1. /\ Pc(Delete) = "cancel" /\ jobLock \in {None, Delete} /\ Move(Delete, "lookPending")
        /\ jobLock' = IF job.state \in {"queued", "running"} THEN Delete ELSE jobLock
        /\ UNCHANGED <<job, row, rowLock, raised, stalls>>
    BY DEF CancelLocks, Free, Blockers, NeedsJob
  <1>2. Pc(Delete)' = "lookPending" /\ OthersStay(Delete) /\ session' \in Sessions
    BY <1>1, Moved, Apart DEF LockInv, DeletePcs
  <1> USE DEF LockInv, OthersStay
  <1>3. jobLock = None
    BY <1>1 DEF JobLocked, Cancelling
  <1>4. ColumnTypes'
    BY <1>1 DEF ColumnTypes, RowTypes
  <1>5. Places' /\ Tasks'
    BY <1>1, <1>2, Apart DEF Places, Tasks, DeletePcs
  <1>6. JobLocked'
    BY <1>1, <1>2, <1>3, Apart DEF JobLocked, Cancelling
  <1>7. RowsLocked'
    BY <1>1, <1>2, Apart DEF RowsLocked
  <1>8. Closing'
    BY <1>1, <1>2, Apart DEF Closing, RowsIn, Target, Held
  <1>9. Untouched'
    BY <1>1, <1>2, Apart DEF Untouched, Held
  <1> QED
    BY <1>1, <1>4, <1>5, <1>6, <1>7, <1>8, <1>9

\* The pending rows are looked up: all of them, if the job is queued.
LEMMA CancelLooksKeeps ==
  ASSUME LockInv, CancelLooks
  PROVE  LockInv' /\ UNCHANGED <<job, row>>
  <1>1. /\ Pc(Delete) = "lookPending" /\ Looks(Delete, "sweep", RowsIn({"pending"}))
        /\ UNCHANGED <<job, row, jobLock, rowLock, raised, stalls>>
    BY DEF CancelLooks
  <1>2. /\ Pc(Delete)' = "sweep" /\ session'[Delete].seen = RowsIn({"pending"})
        /\ OthersStay(Delete) /\ session' \in Sessions
    BY <1>1, Looked, Apart DEF LockInv, DeletePcs, RowsIn
  <1> USE DEF LockInv, OthersStay
  <1>3. ColumnTypes'
    BY <1>1 DEF ColumnTypes, RowTypes
  <1>4. Places' /\ Tasks'
    BY <1>1, <1>2, Apart DEF Places, Tasks, DeletePcs
  <1>5. JobLocked'
    BY <1>1, <1>2, Apart DEF JobLocked, Cancelling
  <1>6. RowsLocked'
    BY <1>1, <1>2, Apart DEF RowsLocked
  <1>7. Closing'
    BY <1>1, <1>2, Apart DEF Closing, RowsIn, Target, Held
  <1>8. Untouched'
    <2>1. job.state = "queued" => RowsIn({"pending"}) = Scenario
      BY DEF Untouched, RowsIn
    <2> QED
      BY <1>1, <1>2, <2>1, Apart DEF Untouched
  <1> QED
    BY <1>1, <1>3, <1>4, <1>5, <1>6, <1>7, <1>8

\* The rows that are pending still are held.
LEMMA CancelSweepsKeeps ==
  ASSUME LockInv, CancelSweeps
  PROVE  LockInv' /\ UNCHANGED <<job, row>>
  <1>1. /\ Pc(Delete) = "sweep" /\ Free(Delete) /\ LocksMatching(Delete, {"pending"})
        /\ Move(Delete, "swept")
        /\ UNCHANGED <<job, row, jobLock, raised, stalls>>
    BY DEF CancelSweeps
  <1>2. Pc(Delete)' = "swept" /\ OthersStay(Delete) /\ session' \in Sessions
    BY <1>1, Moved, Apart DEF LockInv, DeletePcs
  <1>3. /\ rowLock' \in [Scenario -> Session \cup {None}]
        /\ \A s \in Scenario :
             \/ /\ s \in session[Delete].seen /\ row[s] = "pending"
                /\ rowLock[s] \in {None, Delete} /\ rowLock'[s] = Delete
             \/ /\ ~(s \in session[Delete].seen /\ row[s] = "pending")
                /\ rowLock'[s] = rowLock[s]
    BY <1>1, Locked, Apart
  <1> USE DEF LockInv, OthersStay
  <1>4. ColumnTypes'
    BY <1>1, <1>3 DEF ColumnTypes, RowTypes
  <1>5. Places' /\ Tasks'
    BY <1>1, <1>2, Apart DEF Places, Tasks, DeletePcs
  <1>6. JobLocked'
    BY <1>1, <1>2, Apart DEF JobLocked, Cancelling
  <1>7. RowsLocked'
    BY <1>1, <1>2, <1>3, Apart DEF RowsLocked
  <1>8. Closing'
    <2>1. \A f \in Executor : Held(Main(f))' = Held(Main(f))
      BY <1>3, Apart DEF Held
    <2> QED
      BY <1>1, <1>2, <2>1, Apart DEF Closing, RowsIn, Target
  <1>9. Untouched'
    <2>1. job.state = "queued" => Held(Delete)' = Scenario
      BY <1>1, <1>3 DEF Untouched, Held
    <2> QED
      BY <1>1, <1>2, <2>1, Apart DEF Untouched
  <1> QED
    BY <1>1, <1>4, <1>5, <1>6, <1>7, <1>8, <1>9

\* The flag is set and the held rows are cancelled.
LEMMA CancelCommitsKeeps ==
  ASSUME LockInv, CancelCommits
  PROVE  /\ LockInv'
         /\ job'.completed = job.completed
         /\ \A s \in Scenario : \/ row'[s] = row[s]
                                \/ row[s] = "pending" /\ row'[s] = "cancelled"
         /\ \/ job'.state = job.state
            \/ job'.state = "cancelling"
            \/ job'.state = "cancelled" /\ RowsIn(Open)' = {}
  <1>1. /\ Pc(Delete) = "swept" /\ Writes(Delete, "cancelled") /\ Releases(Delete)
        /\ Move(Delete, "off")
        /\ UNCHANGED <<raised, stalls>>
        /\ job' = IF jobLock # Delete THEN job
                  ELSE [job EXCEPT !.cancel = TRUE,
                                   !.state = IF @ = "queued" THEN "cancelled" ELSE "cancelling"]
    BY DEF CancelCommits
  <1>2. Pc(Delete)' = "off" /\ OthersStay(Delete) /\ session' \in Sessions
    BY <1>1, Moved, Apart DEF LockInv, DeletePcs
  <1>3. /\ rowLock' \in [Scenario -> Session \cup {None}]
        /\ \A s \in Scenario : rowLock'[s] = IF rowLock[s] = Delete THEN None ELSE rowLock[s]
        /\ jobLock' = IF jobLock = Delete THEN None ELSE jobLock
    BY <1>1, Released, Apart
  <1>4. \A s \in Scenario : row'[s] = IF rowLock[s] = Delete THEN "cancelled" ELSE row[s]
    BY <1>1, Written
  <1> USE DEF LockInv, OthersStay
  <1>5. \A s \in Scenario : rowLock[s] = Delete => row[s] = "pending"
    BY DEF RowsLocked
  <1>6. /\ job'.completed = job.completed
        /\ jobLock = Delete => \/ job.state = "queued" /\ job'.state = "cancelled"
                               \/ job.state = "running" /\ job'.state = "cancelling"
        /\ jobLock # Delete => job' = job
        /\ job' \in [state : {"queued", "running", "cancelling"} \cup Terminal,
                     cancel : BOOLEAN, owner : Executor \cup {None}, live : BOOLEAN,
                     completed : Nat]
    BY <1>1 DEF ColumnTypes, JobLocked, Terminal
  <1>7. ColumnTypes'
    <2>1. RowTypes'
      BY <1>1 DEF ColumnTypes, RowTypes, Writes
    <2> QED
      BY <1>1, <1>3, <1>6, <2>1 DEF ColumnTypes
  <1>8. Places' /\ Tasks'
    BY <1>1, <1>2, Apart DEF Places, Tasks, DeletePcs
  <1>9. \A f \in Executor : /\ Pc(Main(f))' = Pc(Main(f))
                            /\ Pc(Main(f)) \in HoldsJob => jobLock # Delete
    BY <1>2, Apart DEF JobLocked
  <1>10. JobLocked'
    BY <1>1, <1>2, <1>3, <1>6, <1>9, Apart DEF JobLocked, HoldsJob, Cancelling
  <1>11. RowsLocked'
    <2>1. \A s \in Scenario : rowLock'[s] # None =>
            rowLock'[s] = rowLock[s] /\ rowLock[s] # Delete /\ row'[s] = row[s]
      BY <1>3, <1>4
    <2> QED
      BY <1>2, <1>3, <2>1, Apart DEF RowsLocked
  <1>12. Closing'
    <2>1. RowsIn(Open)' \subseteq RowsIn(Open)
      BY <1>4 DEF RowsIn, Open
    <2>2. \A f \in Executor : /\ Held(Main(f))' = Held(Main(f))
                              /\ session'[Main(f)] = session[Main(f)]
      BY <1>2, <1>3, Apart DEF Held
    <2>3. \A f \in Executor : Pc(Main(f)) = "end" => Target(f)' = Target(f)
      BY <1>1, <1>6, <1>9 DEF Target, HoldsJob
    <2> QED
      BY <1>9, <2>1, <2>2, <2>3 DEF Closing
  <1>13. job'.state # "queued"
    BY <1>1, <1>6 DEF JobLocked, Cancelling
  <1>14. Untouched'
    BY <1>13 DEF Untouched
  <1>15. jobLock = Delete /\ job.state = "queued" => RowsIn(Open)' = {}
    BY <1>1, <1>4 DEF Untouched, Held, RowsIn, Open
  <1> QED
    BY <1>4, <1>5, <1>6, <1>7, <1>8, <1>10, <1>11, <1>12, <1>14, <1>15

(***************************************************************************)
(* Deadlocks                                                               *)
(***************************************************************************)

\* Who blocks a transaction is one that holds a lock.
LEMMA BlockerHolds ==
  ASSUME LockInv, NEW c \in Session, NEW d \in Blockers(c)
  PROVE  d \in Session /\ (jobLock = d \/ \E s \in Scenario : rowLock[s] = d)
  <1> USE DEF LockInv
  <1>1. d # None /\ (d = jobLock \/ \E s \in NeedsRows(c) : d = rowLock[s])
    BY DEF Blockers
  <1>2. jobLock \in Session \cup {None}
    BY Apart DEF JobLocked
  <1>3. NeedsRows(c) \subseteq Scenario /\ rowLock \in [Scenario -> Session \cup {None}]
    BY DEF NeedsRows, ColumnTypes, Places, Sessions
  <1> QED
    BY <1>1, <1>2, <1>3

\* The victim of a deadlock loses its locks, and its rows stay as they were; a
\* task that is the victim raises.
LEMMA AbortsKeeps ==
  ASSUME LockInv, NEW c \in Session, Aborts(c)
  PROVE  LockInv' /\ UNCHANGED <<job, row>>
  <1>1. /\ jobLock = c \/ \E s \in Scenario : rowLock[s] = c
        /\ Releases(c) /\ UNCHANGED <<job, row, stalls>>
    BY BlockerHolds DEF Aborts
  <1>2. /\ rowLock' \in [Scenario -> Session \cup {None}]
        /\ \A s \in Scenario : rowLock'[s] = IF rowLock[s] = c THEN None ELSE rowLock[s]
        /\ jobLock' = IF jobLock = c THEN None ELSE jobLock
    BY <1>1, Released
  <1> USE DEF LockInv
  <1>3. CASE c = Delete
    <2>1. Move(Delete, "off") /\ UNCHANGED raised
      <3>1. Pc(Delete) # "reset"
        BY DEF Places, DeletePcs
      <3> QED
        BY <1>3, <3>1, Apart DEF Aborts
    <2>2. Pc(Delete)' = "off" /\ OthersStay(Delete) /\ session' \in Sessions
      BY <2>1, Moved, Apart DEF DeletePcs
    <2> USE DEF OthersStay
    <2>3. ColumnTypes'
      BY <1>1, <1>2, <2>1 DEF ColumnTypes, RowTypes
    <2>4. Places' /\ Tasks'
      BY <2>2, Apart DEF Places, Tasks, DeletePcs
    <2>5. JobLocked'
      BY <1>1, <1>2, <1>3, <2>2, Apart DEF JobLocked, HoldsJob, Cancelling
    <2>6. RowsLocked'
      BY <1>1, <1>2, <1>3, <2>2, Apart DEF RowsLocked
    <2>7. Closing'
      <3>1. \A f \in Executor : Held(Main(f))' = Held(Main(f))
        BY <1>2, <1>3, Apart DEF Held
      <3> QED
        BY <1>1, <2>1, <2>2, <3>1, Apart DEF Closing, RowsIn, Target
    <2>8. Untouched'
      BY <1>1, <2>2, Apart DEF Untouched
    <2> QED
      BY <1>1, <2>3, <2>4, <2>5, <2>6, <2>7, <2>8
  <1>4. ASSUME NEW e \in Executor, c = Main(e)
        PROVE  LockInv'
    <2>1. c # Delete
      BY <1>4, Apart
    <2>2. \/ Move(c, "claim") /\ Pc(c) = "reset" /\ raised' = raised
          \/ /\ Move(c, "off") \/ Move(c, "finish")
             /\ Pc(c) # "reset" /\ raised' = [raised EXCEPT ![e] = TRUE]
      BY <1>4, <2>1, Apart DEF Aborts
    <2>3. /\ \/ Pc(c)' = "claim" /\ Pc(c) = "reset"
             \/ Pc(c)' = "off"
             \/ Pc(c)' = "finish" /\ Pc(c) \in Finishing
          /\ OthersStay(c) /\ session' \in Sessions
      <3>1. Pc(c) \in {"reset", "take", "close", "end", "lookRunning", "lookOpen"}
        BY <1>1, <1>4, Apart DEF JobLocked, RowsLocked, HoldsJob
      <3>2. Pc(c) # "reset" => Pc(c) \in Finishing
        <4>1. NeedsJob(c) \/ NeedsRows(c) # {}
          BY DEF Aborts, Blockers
        <4> QED
          BY <3>1, <4>1 DEF NeedsJob, NeedsRows, Finishing
      <3> QED
        BY <2>2, <3>2, Moved, Apart DEF MainPcs
    <2>0. raised' \in [Executor -> BOOLEAN] /\ \A f \in Executor : f # e => raised'[f] = raised[f]
      BY <2>2 DEF ColumnTypes
    <2> USE DEF OthersStay
    <2>4. ColumnTypes'
      BY <1>1, <1>2, <2>0 DEF ColumnTypes, RowTypes
    <2>5. Places' /\ Tasks'
      BY <1>4, <2>3, Apart DEF Places, Tasks, MainPcs, Claiming, Finishing
    <2>6. JobLocked'
      BY <1>1, <1>2, <1>4, <2>3, Apart DEF JobLocked, HoldsJob
    <2>7. RowsLocked'
      BY <1>1, <1>2, <1>4, <2>3, Apart DEF RowsLocked
    <2>8. Closing'
      <3>1. \A f \in Executor : f # e => Held(Main(f))' = Held(Main(f))
        BY <1>2, <1>4, Apart DEF Held
      <3> QED
        BY <1>1, <1>4, <2>0, <2>3, <3>1, Apart DEF Closing, RowsIn, Target
    <2>9. Untouched'
      <3>1. Held(Delete)' = Held(Delete)
        BY <1>2, <2>1, Apart DEF Held
      <3> QED
        BY <1>1, <1>4, <2>3, <3>1, Apart DEF Untouched
    <2> QED
      BY <2>4, <2>5, <2>6, <2>7, <2>8, <2>9
  <1>5. ASSUME NEW e \in Executor, NEW s \in Scenario, c = Child(e, s)
        PROVE  LockInv'
    <2>1. Pc(c) = "count"
      BY <1>1, <1>5, Apart DEF JobLocked, RowsLocked
    <2>2. raised' = [raised EXCEPT ![e] = TRUE] /\ Move(c, "done")
      BY <1>5, <2>1, Apart DEF Aborts, Raise
    <2> QED
      BY <1>1, <1>5, <2>1, <2>2, TaskStops
  <1> QED
    BY <1>1, <1>3, <1>4, <1>5, Kinds

(***************************************************************************)
(* The invariant                                                           *)
(***************************************************************************)

\* A queued job, nobody at work.
LEMMA InitLocks == Init => LockInv
  <1> SUFFICES ASSUME Init
               PROVE  LockInv
    OBVIOUS
  <1>1. ColumnTypes
    BY StallsAssumption DEF Init, ColumnTypes, RowTypes, Open
  <1>2. /\ session \in Sessions
        /\ \A e \in Executor : Pc(Main(e)) = "claim"
        /\ \A e \in Executor, s \in Scenario : Pc(Child(e, s)) = "off"
        /\ Pc(Delete) = "cancel"
    <2>1. \A e \in Executor : Main(e)[1] = "executor"
      BY DEF Main
    <2>2. \A e \in Executor, s \in Scenario : Child(e, s)[1] # "executor"
      BY DEF Child
    <2>3. session = [c \in Session |->
                      [pc |-> IF c = Delete THEN "cancel"
                              ELSE IF c[1] = "executor" THEN "claim" ELSE "off",
                       seen |-> {}]]
      BY DEF Init
    <2>4. session \in Sessions
      BY <2>3 DEF Sessions, MainPcs, DeletePcs
    <2> QED
      BY <2>1, <2>2, <2>3, <2>4, Apart DEF Pc
  <1>3. Places /\ Tasks
    BY <1>2 DEF Places, Tasks, MainPcs, ChildPcs, DeletePcs, Claiming, Finishing
  <1>4. JobLocked
    BY <1>2, Apart DEF Init, JobLocked, HoldsJob, Cancelling
  <1>5. RowsLocked
    BY <1>2, Apart DEF Init, RowsLocked
  <1>6. Closing /\ Untouched
    BY <1>2 DEF Init, Closing, Untouched
  <1> QED
    BY <1>1, <1>3, <1>4, <1>5, <1>6 DEF LockInv

\* Counting the rows that are judged in two tables, one with a verdict more.
LEMMA OneMoreVerdict ==
  ASSUME row \in [Scenario -> Open \cup {"cancelled"} \cup Judged],
         NEW s \in Scenario, row[s] = "running", row' = [row EXCEPT ![s] = "passed"]
  PROVE  Cardinality(RowsIn(Judged)') = Cardinality(RowsIn(Judged)) + 1
  <1>1. RowsIn(Judged)' = RowsIn(Judged) \cup {s}
    BY DEF RowsIn, Judged
  <1>2. s \notin RowsIn(Judged)
    BY DEF RowsIn, Judged
  <1>3. IsFiniteSet(RowsIn(Judged))
    BY SetsAssumption, FS_Subset DEF RowsIn
  <1> QED
    BY <1>1, <1>2, <1>3, FS_AddElement

\* Every statement, commit and abort keeps the discipline of the locks, and with
\* it the count, the verdicts and the rows of an ended job.
LEMMA SqlStep ==
  ASSUME SqlInv, [Next]_fencingVars
  PROVE  /\ SqlInv'
         /\ \A s \in Scenario : row[s] \in Judged => row'[s] = row[s]
  <1> DEFINE VerdictsStay == \A s \in Scenario : row[s] \in Judged => row'[s] = row[s]
  <1> USE DEF SqlInv
  <1>1. ASSUME LockInv', UNCHANGED row,
               job'.completed = job.completed, job'.state = job.state
        PROVE  SqlInv' /\ VerdictsStay
    BY <1>1 DEF CountsCommittedVerdicts, EndClosesRows, RowsIn
  <1>2. ASSUME NEW e \in Executor, ClaimCommits(e)
        PROVE  SqlInv' /\ VerdictsStay
    <2>1. /\ LockInv' /\ job'.completed = job.completed /\ job'.state = "running"
          /\ \A s \in Scenario : row[s] \in Judged <=> row'[s] \in Judged
      BY <1>2, ClaimCommitsKeeps
    <2>2. VerdictsStay
      BY <1>2 DEF ClaimCommits, Writes, LockInv, RowsLocked, Judged
    <2>3. RowsIn(Judged)' = RowsIn(Judged)
      BY <2>1 DEF RowsIn
    <2> QED
      BY <2>1, <2>2, <2>3 DEF CountsCommittedVerdicts, EndClosesRows
  <1>3. ASSUME NEW e \in Executor, NEW s \in Scenario, StartWrites(e, s)
        PROVE  SqlInv' /\ VerdictsStay
    <2>1. /\ LockInv' /\ job' = job
          /\ \/ row' = row
             \/ row[s] = "pending" /\ row' = [row EXCEPT ![s] = "running"]
      <3>1. LockInv
        OBVIOUS
      <3> QED
        BY <1>3, <3>1, StartWritesKeeps
    <2>2. CASE row[s] = "pending" /\ row' = [row EXCEPT ![s] = "running"]
      <3>1. \A t \in Scenario : t # s => row'[t] = row[t]
        BY <2>2 DEF LockInv, ColumnTypes, RowTypes
      <3>2. row'[s] = "running"
        BY <2>2 DEF LockInv, ColumnTypes, RowTypes
      <3>3. RowsIn(Judged)' = RowsIn(Judged)
        BY <2>2, <3>1, <3>2 DEF RowsIn, Judged
      <3>4. job.state \notin {"cancelled", "failed"}
        BY <2>2 DEF EndClosesRows, RowsIn
      <3>5. VerdictsStay
        BY <2>2, <3>1 DEF Judged
      <3> QED
        BY <2>1, <3>3, <3>4, <3>5 DEF CountsCommittedVerdicts, EndClosesRows
    <2> QED
      BY <1>1, <2>1, <2>2
  <1>4. ASSUME NEW e \in Executor, NEW s \in Scenario, FinishedCounts(e, s)
        PROVE  SqlInv' /\ VerdictsStay
    <2>1. /\ LockInv' /\ row[s] = "running" /\ row' = [row EXCEPT ![s] = "passed"]
          /\ job'.completed = job.completed + 1 /\ job'.state = job.state
      BY <1>4, FinishedCountsKeeps
    <2>2. CountsCommittedVerdicts'
      BY <2>1, OneMoreVerdict DEF CountsCommittedVerdicts, LockInv, ColumnTypes, RowTypes
    <2>3. EndClosesRows'
      BY <2>1 DEF EndClosesRows, RowsIn
    <2>4. VerdictsStay
      BY <2>1 DEF Judged
    <2> QED
      BY <2>1, <2>2, <2>3, <2>4
  <1>5. ASSUME NEW e \in Executor, FinishCommits(e)
        PROVE  SqlInv' /\ VerdictsStay
    <2>1. /\ LockInv' /\ job'.state = Target(e)
          /\ job'.completed = Cardinality(RowsIn(Judged)')
          /\ VerdictsStay
          /\ Target(e) # "completed" => RowsIn(Open)' = {}
      BY <1>5, FinishCommitsKeeps
    <2> QED
      BY <2>1 DEF CountsCommittedVerdicts, EndClosesRows, Open
  <1>6. CASE CancelCommits
    <2>1. /\ LockInv' /\ job'.completed = job.completed
          /\ \A s \in Scenario : \/ row'[s] = row[s]
                                 \/ row[s] = "pending" /\ row'[s] = "cancelled"
          /\ \/ job'.state = job.state
             \/ job'.state = "cancelling"
             \/ job'.state = "cancelled" /\ RowsIn(Open)' = {}
      BY <1>6, CancelCommitsKeeps
    <2>2. RowsIn(Judged)' = RowsIn(Judged) /\ RowsIn(Open)' \subseteq RowsIn(Open)
      BY <2>1 DEF RowsIn, Judged, Open
    <2>3. VerdictsStay
      BY <2>1 DEF Judged
    <2> QED
      BY <2>1, <2>2, <2>3 DEF CountsCommittedVerdicts, EndClosesRows, Open
  <1>7. CASE LeaseLapses
    BY <1>1, <1>7, LeaseLapsesKeeps
  <1>8. CASE UNCHANGED fencingVars
    <2>1. LockInv'
      BY <1>8 DEF fencingVars, LockInv, ColumnTypes, RowTypes, Places, Tasks, JobLocked, RowsLocked,
                  Closing, Untouched, Pc, Target, Held, RowsIn
    <2> QED
      BY <1>1, <1>8, <2>1 DEF fencingVars
  <1>9. ASSUME NEW e \in Executor,
               \/ ClaimLocks(e) \/ ClaimLooks(e) \/ ClaimResets(e)
               \/ Gathers(e) \/ FinishLocks(e) \/ FinishLooks(e) \/ FinishCloses(e)
        PROVE  SqlInv' /\ VerdictsStay
    <2>1. UNCHANGED <<job, row>>
      BY <1>9 DEF ClaimLocks, ClaimLooks, ClaimResets, Gathers, FinishLocks, FinishLooks, FinishCloses
    <2>2. LockInv'
      BY <1>9, ClaimLocksKeeps, ClaimLooksKeeps, ClaimResetsKeeps, GathersKeeps, FinishLocksKeeps,
         FinishLooksKeeps, FinishClosesKeeps
    <2> QED
      BY <1>1, <2>1, <2>2
  <1>10. ASSUME NEW e \in Executor, NEW s \in Scenario,
                \/ StartLooks(e, s) \/ FinishedLooks(e, s) \/ FinishedWrites(e, s)
                \/ ChildStops(e, s)
         PROVE  SqlInv' /\ VerdictsStay
    BY <1>1, <1>10, StartLooksKeeps, FinishedLooksKeeps, FinishedWritesKeeps, ChildStopsKeeps
  <1>11. CASE CancelLocks \/ CancelLooks \/ CancelSweeps
    BY <1>1, <1>11, CancelLocksKeeps, CancelLooksKeeps, CancelSweepsKeeps
  <1>12. ASSUME NEW c \in Session, Aborts(c)
         PROVE  SqlInv' /\ VerdictsStay
    BY <1>1, <1>12, AbortsKeeps
  <1> QED
    BY <1>2, <1>3, <1>4, <1>5, <1>6, <1>7, <1>8, <1>9, <1>10, <1>11, <1>12 DEF Next

\* The invariant holds in every reachable state, however the statements of claims,
\* verdicts, finishes and cancellations interleave, wait and abort.
THEOREM SqlSafety == Spec => []SqlInv
  <1>1. Init => SqlInv
    <2>1. ASSUME Init
          PROVE  CountsCommittedVerdicts /\ EndClosesRows
      <3>1. RowsIn(Judged) = {} /\ job.completed = 0 /\ job.state = "queued"
        BY <2>1 DEF Init, RowsIn, Judged
      <3> QED
        BY <3>1, FS_EmptySet DEF CountsCommittedVerdicts, EndClosesRows
    <2> QED
      BY <2>1, InitLocks DEF SqlInv
  <1>2. SqlInv /\ [Next]_fencingVars => SqlInv'
    BY SqlStep
  <1> QED
    BY <1>1, <1>2, PTL DEF Spec

\* Columns, locks and transactions keep their types, locks are held in open
\* transactions only, and a claim or a finish holds the job from its SELECT FOR
\* UPDATE to its end.
THEOREM SqlTypes == Spec => []TypeOK
  <1>1. SqlInv => TypeOK
    <2> SUFFICES ASSUME SqlInv
                 PROVE  TypeOK
      OBVIOUS
    <2> USE DEF SqlInv, LockInv
    <2>1. jobLock \in Session \cup {None}
      BY Apart DEF JobLocked
    <2>2. \A c \in Session : session[c].seen \subseteq Scenario
      BY DEF Places, Sessions
    <2>3. ASSUME NEW c \in Session, jobLock = c
          PROVE  Pc(c) \in {"lookRunning", "reset", "take", "lookOpen", "close", "end",
                            "lookPending", "sweep", "swept"}
      <3>1. c # None
        BY NoneAssumption
      <3>2. c = Delete \/ \E e \in Executor : c = Main(e)
        BY <2>3, <3>1 DEF JobLocked
      <3> QED
        BY <2>3, <3>2 DEF JobLocked, HoldsJob, Cancelling
    <2>4. ASSUME NEW c \in Session, NEW s \in Scenario, rowLock[s] = c
          PROVE  Pc(c) \in {"take", "count", "end", "swept"}
      BY <2>4, Kinds DEF RowsLocked
    <2>5. \A e \in Executor :
            Pc(Main(e)) \in {"lookRunning", "reset", "take", "lookOpen", "close", "end"} =>
              jobLock = Main(e)
      BY DEF JobLocked, HoldsJob
    <2> QED
      BY <2>1, <2>2, <2>3, <2>4, <2>5 DEF TypeOK, ColumnTypes, RowTypes, Open, Pc
  <1> QED
    BY <1>1, SqlSafety, PTL

\* The counter scenario_finished increments equals the committed verdicts.
THEOREM SqlCounts == Spec => []CountsCommittedVerdicts
  BY SqlSafety, PTL DEF SqlInv

\* A cancelled or failed job leaves no row open.
THEOREM SqlEndsClosed == Spec => []EndClosesRows
  BY SqlSafety, PTL DEF SqlInv

\* No row that was judged is ever judged, reset or cancelled again.
THEOREM SqlVerdictsStay == Spec => VerdictsCommitOnce
  <1>1. SqlInv /\ [Next]_fencingVars => [\A s \in Scenario : row[s] \in Judged => row'[s] = row[s]]_fencingVars
    BY SqlStep
  <1> QED
    BY <1>1, SqlSafety, PTL DEF Spec, VerdictsCommitOnce

=============================================================================
