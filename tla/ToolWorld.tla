------------------------------ MODULE ToolWorld ------------------------------
(***************************************************************************)
(* How an enterprise world executes mutations, whatever its domain.  A call  *)
(* runs under the world's invoke lock, in one database transaction that      *)
(* looks for the idempotency key, lets the domain handler read and change    *)
(* the state, appends one event and stores the answer under the key.         *)
(* PostgresWorld does this tool by tool, JsonPostgresWorld in _execute.      *)
(*                                                                           *)
(* An answer is abstracted to the number of the event it reports (entity ids *)
(* are derived from that number).  Two calls are the same request if tool,   *)
(* arguments and authorization agree, which is what the fingerprint covers:  *)
(* a call here is what is fingerprinted.  Its envelope only says whether the *)
(* call is looked at.  Read-only tools and refused calls change nothing.     *)
(***************************************************************************)
EXTENDS Integers, Sequences, FiniteSets

CONSTANTS
  Call,            \* fingerprinted requests: records with fields key and fails
  Key,             \* idempotency keys
  Fixture,         \* states reset can seed
  Offered(_),      \* requests the scenario makes of a world in this state
  Effect(_, _),    \* the handler: {} if it rejects, else possible results
  Injected(_),     \* results of the scheduled injections
  MaxInjections,   \* scenario.limits.injections
  MaxLost          \* bound: answers that do not reach the caller

ASSUME CallAssumption ==
  /\ \A c \in Call : c.key \in Key /\ c.fails \in BOOLEAN
  /\ MaxInjections \in Nat /\ MaxLost \in Nat

VARIABLES
  doc,       \* the domain state
  answers,   \* table idempotency: per key nothing, or one request and its answer
  log,       \* table world_events; by is the request, or nothing if injected
  tx,        \* the open transaction: nothing, or its request and its writes
  told,      \* answers that reached the caller
  lost       \* how many did not

worldVars == <<doc, answers, log, tx, told, lost>>

Init ==
  /\ doc \in Fixture
  /\ answers = [k \in Key |-> {}]
  /\ log = <<>>
  /\ tx = {}
  /\ told = {}
  /\ lost = 0

-----------------------------------------------------------------------------
(* One call *)

Entry(by, result) == [by |-> by, event |-> result.event]
Answer(c, n) == [call |-> c, answer |-> n]

\* The row of the key is looked up under an advisory lock.
Fresh(c) == answers[c.key] = {}
RepeatsKey(c) == answers[c.key] # {}                 \* mutant: key alone
Repeats(c) == \E a \in answers[c.key] : a.call = c

\* The handler ran: state, event and answer are written, not yet committed.
WriteAll(c, r) ==
  tx' = {[call |-> c, doc |-> r.doc,
          log |-> Append(log, Entry({c}, r)),
          answers |-> [answers EXCEPT ![c.key] = {Answer(c, Len(log) + 1)}]]}

\* A repeated request reads the stored answer.
ReadAnswer(c) ==
  tx' = {[call |-> c, doc |-> doc, log |-> log, answers |-> answers]}

Execute(c) ==
  /\ tx = {}
  /\ \/ Fresh(c) /\ \E r \in Effect(c, doc) : WriteAll(c, r)
     \/ Repeats(c) /\ ReadAnswer(c)
  /\ UNCHANGED <<doc, answers, log, told, lost>>

\* What the caller of an open transaction is told when it commits.
Heard(t) == {Answer(t.call, a.answer) : a \in t.answers[t.call.key]}

\* The writes of a transaction become visible together.
Install(t) ==
  /\ doc' = t.doc
  /\ log' = t.log
  /\ answers' = t.answers
  /\ tx' = {}

MayCommitAny(t) == TRUE                                \* mutant: raised too late
MayCommit(t) == ~t.call.fails                          \* inject_failure raises

CommitAnswered ==
  \E t \in tx :
    /\ MayCommit(t)
    /\ Install(t)
    /\ told' = told \cup Heard(t)
    /\ UNCHANGED lost

\* The caller is cancelled (tool timeout) when the commit is on its way.
CommitUnheard ==
  \E t \in tx :
    /\ MayCommit(t)
    /\ lost < MaxLost
    /\ Install(t)
    /\ lost' = lost + 1
    /\ UNCHANGED told

\* inject_failure, a database error, or the caller is cancelled.
Rollback ==
  /\ tx # {}
  /\ tx' = {}
  /\ UNCHANGED <<doc, answers, log, told, lost>>

-----------------------------------------------------------------------------
(* The scheduler *)

\* Only commerce accepts injections; they take the invoke lock too.
Inject ==
  /\ tx = {}
  /\ Cardinality({i \in DOMAIN log : log[i].by = {}}) < MaxInjections
  /\ \E r \in Injected(doc) :
       /\ doc' = r.doc
       /\ log' = Append(log, Entry({}, r))
  /\ UNCHANGED <<answers, tx, told, lost>>

Next ==
  \/ \E c \in Offered(doc) \cap Call : Execute(c)
  \/ CommitAnswered
  \/ CommitUnheard
  \/ Rollback
  \/ Inject

Spec == Init /\ [][Next]_worldVars

-----------------------------------------------------------------------------
(* Properties *)

\* inject_failure raises after everything was written: a call it fails is
\* neither in the event log nor remembered under its key.
FailuresLeaveNoTrace ==
  /\ \A i \in DOMAIN log : \A c \in log[i].by : ~c.fails
  /\ \A k \in Key : \A a \in answers[k] : ~a.call.fails

\* Mutations take effect at most once whatever is retried or goes unheard, and
\* every answer a caller ever gets is that of the effect that happened.
Promised == INSTANCE KeyedEffects WITH
  effects <- {e \in [call : Call, answer : DOMAIN log] : e.call \in log[e.answer].by},
  told <- told
ExactlyOnce == Promised!Spec

=============================================================================
