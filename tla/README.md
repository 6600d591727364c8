# TLA+ verification of Worker Worlds

Worker Worlds runs AI workers against simulated business worlds and grades what
they did. This directory holds TLA+ models of its durable core, the TLC
configurations that check them, and TLAPS proofs about them. Paths below are
relative to the repository root; `ww/` stands for `src/worker_worlds/`.

To check a model: `tlc -config X.cfg M`. To check the proofs: `tlapm M.tla` for each of
`SuiteJobsProofs`, `SuiteServiceProofs`, `SqlFencingProofs`, `ToolWorldProofs`,
`WorldsProofs`, `LedgerProofs`, `RunPathProofs` and `ComparisonProofs`.

## 1. Inventory

### The durable suite path (modelled)

| Part | State | Operations | Talks to |
|---|---|---|---|
| `PostgresSuiteJobRepository` (`ww/suite_jobs.py`) | rows of `suite_jobs`, `suite_job_scenarios`, `suite_run_evidence` | `create`, `claim`, `heartbeat`, `scenario_started/retrying/finished`, `register_run_evidence`, `request_cancel`, `finalize_abandoned_cancellation`, `finish`, `attach_evidence`, `recoverable`, `terminal_without_evidence` | PostgreSQL, one transaction per method, READ COMMITTED |
| `DurableSuiteService` (`ww/suite_service.py`) | one execution task per job, a child task per scenario, a heartbeat task, a publication directory per executor id | `run_scenario`, `_execute`, `_heartbeat`, `cancel`, `ensure_terminal_evidence` | the repository, the Runner, the artifact directory |
| Suite endpoints and recovery loop (`ww/api.py`) | the process's table of services | POST, DELETE, `recover_suite_jobs` | services, the repository |

What is hard here: several API processes share the database and the artifact
directory; each executor is fenced only by an executor id and a lease in the
`WHERE` clauses; a stalled executor is not a dead one; asyncio cancellation is
delivered at whatever await a task has reached, and the Runner turns it into an
ordinary record; a process may die between any two database calls; the last step,
publication, is idempotent only because of `attach_evidence`'s guard.
What makes it correct: an executor that lost its job writes nothing more, a
verdict is written once and by the latest attempt, the counters a client polls
are the tally of the rows, a job ends exactly once, a completed job judged every
scenario, and every job ends and gets its evidence.

### The run path (modelled)

| Part | State | Operations | What is hard; what makes it correct |
|---|---|---|---|
| Runner (`ww/runner.py`) | one run: turns, calls, limits, injections | `Runner.run` | limits raced by timeouts and cancellation; exactly one record whatever happens, world always cleaned up |
| Run leases (`ww/database.py`) | `run_leases` rows, schemas `run_*` | create, renew, cleanup, close | renewal races cleanup, so that a run may lose its schema between two calls; a record that claims complete evidence saw its world to the end and left no schema |
| Commerce world (`ww/postgres_world.py`) | orders, refunds, replacements, tickets, inventory, idempotency keys, an event log | `reset`, `invoke` (15 mutations, 3 read-only tools), `inject`, `snapshot`, `close` | retries with idempotency keys, a caller cancelled by a timeout, injected failures that roll back, scheduled injections; a request takes effect at most once, money and stock agree with the log |
| JSON worlds (`ww/json_world.py`, `ww/insurance.py`, `ww/marketing.py`, `ww/supply_chain.py`) | a JSON document per run, idempotency keys, an event log | the tools of three domains | the same execution; claims and campaigns are decided, paid and closed over several calls in any order; limits at exact boundaries, computed twice: by an adviser and by a handler |
| Native bridge (`ww/native_bridge.py`), adapters (`ww/adapters.py`) and SDK runtimes | queue of requests, a future per callback, the SDK's task | `call`, `next_call`, `resolve`, `close`, `next_turn`, `cancel` | a callback cancelled while its request is queued or executing, an SDK that ends with callbacks pending, a cancellation that is itself awaited; requests served once and in order, no task left behind |

### The judgement of runs (modelled)

| Part | State | Operations | What is hard; what makes it correct |
|---|---|---|---|
| Scenario libraries (`ww/enterprise_scenarios.py`, `ww/scenario_library.py`, `ww/scenario_prompts.py`) | none; data | the calls a scenario asks for, the statuses and assertions derived from them | written far from the handlers they predict; a worker may reorder and repeat calls: a scenario can be won, and is not passed by another outcome |
| Grading and policies (`ww/grading.py`, `ww/policies.py`) | none | pure functions of a record | judge from the log what the handlers decided from the state; both must agree |
| Comparison (`ww/comparison.py`, `ww/comparison_context.py`), suites (`ww/suite.py`) | none | pure functions of two sets of records | counts against rates, suites of different sizes; a regression must not pass, nor evidence that is missing |

### The rest

Contracts, catalog, configuration, agent registry, reporting, schema and OpenAPI
commands, stubs, command line and dashboard hold no state
that changes or are data and rendering. `PROJECT.json` lists them with reasons.

## 2. Modules

| Module | Models | Built on |
|---|---|---|
| `JobLifecycle` | what a job promises a client: the abstract specification | |
| `SuiteJobs` | the job's rows and every repository method, each an atomic action, callers unconstrained | implements `JobLifecycle` |
| `SuiteJobsProofs` | theorems about `SuiteJobs` | `SuiteJobs`, TLAPS |
| `SuiteService` | the processes: POST, DELETE, execution, children, heartbeat, recovery loop, crash and restart | extends `SuiteJobs`: every database step is one of its actions |
| `SuiteServiceProofs` | theorems about `SuiteService` | `SuiteService`, `SuiteJobsProofs` |
| `SqlFencing` | the racing repository methods statement by statement at READ COMMITTED | stands alone: it checks the atomicity `SuiteJobs` takes for granted |
| `SqlFencingProofs` | theorems about `SqlFencing` | `SqlFencing`, TLAPS |
| `SuiteRecovery` | the recovery loop over many jobs, with unreadable run records | stands alone |
| `KeyedEffects` | what a tool world promises of mutations: the abstract specification | |
| `ToolWorld` | how any enterprise world executes a mutation: lock, transaction, idempotency key, event, answer | implements `KeyedEffects`; the domain is a parameter |
| `ToolWorldProofs` | theorems about `ToolWorld` | `ToolWorld`, TLAPS |
| `WorldCalls`, `Commerce`, `SupplyChain`, `Insurance`, `Marketing` | the handlers and fixtures of each domain, as operators | |
| `EnterpriseWorlds` | the four worlds: `ToolWorld` with those handlers, and their properties | extends the above and `Policies` |
| `WorldsProofs` | theorems about `EnterpriseWorlds` | `EnterpriseWorlds`, `ToolWorldProofs` |
| `LedgerProofs` | the theorems that the audit log accounts for the state and that log, tables and balances agree on money | `WorldsProofs`, `WellFoundedInduction` |
| `SerialTools` | what an SDK that calls tools concurrently is promised: the abstract specification | |
| `NativeBridge` | the queue and the futures between an SDK and the runner | |
| `RunLease` | the schema of a run, its lease, the renewal task and the cleanup | |
| `RunPath` | a run: runner, adapter, SDK, timers, injections, cancellation, evidence | extends `NativeBridge` and `RunLease`, implements `SerialTools` |
| `RunPathProofs` | theorems about `RunPath` | `RunPath`, TLAPS |
| `Policies`, `Grading` | the policies and assertions a record is graded by, as operators | `WorldCalls` |
| `Scripts`, `EnterpriseLibrary`, `CommerceLibrary` | the scenarios: calls, statuses, assertions | `WorldCalls` |
| `ScriptedRuns` | a worker makes a scenario's calls in any order, the world answers, the grader judges | extends the libraries, `Grading` and three domains |
| `Comparison` | two suites, their differences, the classification and the gate | stands alone |
| `ComparisonProofs` | theorems about `Comparison` | `Comparison`, TLAPS |
| `MCSuiteJobs`, `MCSuiteService`, `MCWorlds`, `MCRunPath`, `MCScriptedRuns`, `MCComparison` | small instances | |

### SuiteJobs

Each column is a variable of the same name (`executor_id` is `owner`,
`executor_expires_at` is `lease`: none, live or expired against the clock;
`suite_record_path` is `path`: whose publication directory it points into).
Each method is an action of the same name; its `WHERE` clause is the operator
named `Can...` (`Claimable` for `claim`), so a refused call, which writes
nothing, is a stuttering step. `finalize_abandoned_cancellation` runs two
transactions and is two actions, `TakeOverCancellation` and `Finish`. Any
instance may call anything at any time: what the properties show does not depend
on callers behaving. `create` is the initial state; POST's idempotency key is
not modelled.

The records are data: run ids and scenario ids are model values, and files,
digests and timestamps are left out.

### SuiteService

A process `p` has an execution task (`task[p]`, its place in `_execute`), a child
task per scenario (`child[p][s]`, its place in `run_scenario`), a heartbeat, the
recovery loop (`loop[p]`) and a DELETE handler. An asyncio process switches tasks
only at an await, so the code between two awaits is one action and the order of
actions of the tasks is free. Cancellation is modelled where it is delivered:
`Interrupt` gives what a `CancelledError` does at each place of `_execute`,
`Cancelled` what it does to a child (a child inside `Runner.run` survives it and
its record says cancelled, `ww/runner.py:161`), `Raise` what an exception of one
child does to `gather`. A call whose caller was cancelled while the database
answered is the call followed by the cancellation.

A crash forgets everything a process knows; a restart draws new executor ids,
which is what fences the former ones. `LeaseLapses` needs nobody to hold the
lease, unless one of `MaxStalls` stalls is spent: a blocked event loop or a long
database outage. `HeartbeatFails` is the database error that the heartbeat treats
as a lost lease.

A cancelled run may be stored as passed or as failed (`StatusesOf`): `RunRecord.passed`
does not look at the terminal reason.

Data that is abstracted: a run is its scenario, its attempt and its outcome; the
budgets' amounts are a nondeterministic `BudgetExceeded` and `DeadlineExpires`;
a publication is the job status in its manifest and its set of runs.

### SqlFencing

`SuiteJobs` is sound only if each method behaves as one step. Most do, because
their conditions concern the row they lock. `claim`, `scenario_started`,
`scenario_finished`, `finish` and `request_cancel` touch two tables, and at READ
COMMITTED a condition on a row that is not locked is read in the snapshot of the
statement. This module has those five as the statements they consist of, with
snapshots, row locks, waits, and the abort of one of two transactions that wait
for each other. It shows which promises survive (no verdict is counted twice or
lost, an end closes every row it saw, a verdict commits once) and one that does
not (finding 1 of section 6). A transaction that is aborted raises in its caller: a child's
exception reaches `gather`, and an executor whose `finish` failed calls it again with
that exception, once (`ww/suite_service.py:324-332`).

### SuiteRecovery

`SuiteService` follows one job; here are `N` jobs as the recovery loop sees them,
in the creation order of its two queries, with an exception of one job ending the
iteration.

### ToolWorld

`PostgresWorld` and `JsonPostgresWorld` execute a mutation in the same way, so
there is one module for it. `doc` is the state, `answers` the table `idempotency`,
`log` the table `world_events`. A call holds the invoke lock from its first
statement to its commit, so at most one transaction is open; `tx` holds what it
has written, invisible until `Install`. `Execute` is everything up to the commit: the key
is looked up, a new request runs its handler and writes state, event and answer, a
repeated one reads the stored answer, any other use of a used key is refused. Then the
transaction commits with its answer delivered (`CommitAnswered`), commits while
its caller is being cancelled (`CommitUnheard`), or does not commit (`Rollback`:
an injected failure, a database error, a cancellation). A refused call changes
nothing and is a stuttering step.

An answer is the number of the event it reports: the code derives the ids of
created entities from it, and two different effects never share one. A request is what the
fingerprint covers, tool, arguments and authorization; equality of requests is
equality of fingerprints. The Runner ends a run at its first tool timeout, so it
does not itself repeat a call it was not answered; the model lets a caller do so, since keys
exist for that.

### The domains

A handler is an operator from a request and a state to the set of its outcomes:
empty if it rejects, one state and event otherwise, several for
`adjust_inventory`, whose query does not say which row it wants. The order of the
guards does not matter, as each rejection leaves everything unchanged. `rows` is
one sequence for all the tables that are only appended to; amounts are scaled
down (2 units of money for the commerce order, thousands in the others), keeping
which limit exceeds which. Fixtures are the seed bands of `build_fixture`,
`build_insurance_state`, `build_marketing_state` and
`build_supply_chain_state`. The bands that only start a claim or a campaign in a
status that a draft or open one reaches by itself, and the insurance band with a
shared incident, are left out. A tool that a world does not have is refused
(`ToolNotFound`), and `RequestAssumption` is what the input models guarantee of a
number before a handler sees it: an integer, positive for the tools of `Quantified`.

Of the read-only tools there are the three that advise a mutation
(`Recommended`, `Payable`/`Eligible`, `Deployable`/`Launchable`), for
`AdviceIsExecutable`.

### RunPath

The runner is one asyncio task, so what it does between two awaits is one action;
`pc` says at which await it stands. Around it move the SDK's task
(`ProviderSubmits`, `ProviderAbandons`, `ProviderEnds`), the tool
(`Invocation`), a native runtime's decision (`Decide`), the timers (`Timeouts`),
a cancellation by whoever awaits the run (`RunCancelled`), and the lease
(`LeaseMoves`). The variables of the record have the names of `Runner.run`'s
locals; `callTrace` and `resultTrace` are the calls and results of the turns;
`held` is the result the worker has yet to be given; `draft` the turn that joins
the trace only after the worker was cancelled, as the runner does for a turn over
the token or cost budget.

The ways out of the body are operators: `Return` (a terminal reason, then the
final snapshot), `Raise` (a handler that takes the snapshot without cancelling
the worker), `CancelForEvidence` (a handler that cancels it first),
`RaiseUnexpected` (the handler that takes no snapshot). Cancelling the worker is
spelled out because that is where cancellations meet: `NativeAdapter.cancel`
closes the bridge, asks the runtime to cancel (and takes any exception, also its
own cancellation, for the runtime's failure), cancels the SDK's task and gathers
it. `cut` remembers a timer that fired while the SDK's task is gathered: such a
cancellation is passed on to that task and reaches the runner once the task has
ended. `Obedient` says whether an SDK's task ends when it is cancelled.

`reset` has two awaits, the creation of the world (`ResetWorld`) and its first
snapshot (`FirstSnapshot`); either may fail. The bridge takes requests until it is closed,
and only `cancel` closes it, so a callback that outlives the SDK's task can still
submit one: `late` remembers those. After a run that completed nobody answers them.

A mutating tool commits (`ToolCommits`) before it is answered, and may be timed
out, cancelled or refused (`ToolRejects`: the reply to its COMMIT is lost) in
between: its effect stands, and no result or an error is in the trace.
What a tool computes, and the rollback inside the world, is `ToolWorld`'s.

### ScriptedRuns

One action per call of the worker. `Serve` is input validation, then the
idempotency key, then the handler of the domain, the operators `CommerceEffect`,
`SupplyEffect` and `InsuranceEffect` that `EnterpriseWorlds` uses; `Serve` and
`ToolWorld` differ in that a call here is neither lost nor made to fail. A
scenario is a record of its calls, the event it must or must not leave, and its
extra assertions; `AssertionsOf` derives the assertions as
`expected_tool_statuses` and the helpers of the libraries do. The state a run
starts from depends on its seed, and `SeedOf` is the seed of a repetition.

### Comparison

A suite is a bag of outcomes. An outcome is what the gate reads of a run record: its verdicts
(pass, fail or error, by assertion), whether evidence is incomplete, whether the
run ended in an infrastructure error, and the course it took, one value for the tools,
events and authorizations of the signature. Durations, tokens and costs are
represented by the thresholds they exceed. `LetPass` is the tolerance of
`RunRecord.passed` (`ww/contracts.py:484`): a failure of a medium or info assertion,
or an assertion that is not required and could not be evaluated; a run without a
verdict does not pass. `Failures` is `_failed`, which counts a failure and an error
alike. The difference of the two is why counts of failures need not determine the pass rate.
The runs of a suite are told apart by their outcome and a number, so that what the
code counts over records is a `Cardinality` here. Rates are fractions, so that
thresholds are exact where the code has floats. `Primary` is the first of
`PrimaryOrder` that was found, the `next()` of the code.

### Mutants

An operator with the comment `mutant` is a plausible bug: a dropped condition, a
missing reset, an off-by-one. Nothing in the specifications uses it. Putting one
in the place of the operator that follows it makes the property
named beside it in `PROJECT.json` fail, which shows that the property is sensitive to that line
of the code.

## 3. Runs

| Run | Instance | Shows |
|---|---|---|
| `suite_jobs` | 2 scenarios, 2 executors, 2 runs, 2 attempts, 4 revisions before the last claim | the invariants and action properties of the record against callers who do anything, and `KeepsLifecycle` |
| `service_fencing` | 2 processes, 1 scenario, 1 stall, 1 DELETE, no crash | the fencing of a stalled executor by a live one: verdicts and evidence come from the latest attempt, a completed job is judged, publications are complete, and a DELETE that comes late leaves the rows of a finished job alone |
| `service_retries` | 1 process, 2 scenarios, 1 retry, 1 stall, 1 DELETE | retries of concurrent children: an infrastructure failure becomes a verdict only after every retry, and none is made twice |
| `service_liveness` | 1 process, 1 scenario; 1 crash, 1 stall, 1 heartbeat fault, 1 DELETE | under fairness every job is published |
| `sql_fencing` | 2 scenarios, 2 executors, 1 lapse | counters, closed rows and verdicts at statement level |
| `recovery` | 3 jobs | the recovery loop: every job ends, and is published unless an older or its own record is lost |
| `worlds` | 22 fixtures; 4 to 10 requests on 4 keys each, 1 injection, 1 answer lost | the log explains the state, money and stock add up, failed calls leave no trace, advice can be followed, the policies a handler enforces hold of every log, a request takes effect at most once |
| `run_path` | 2 mutating calls, 2 injections of which 1 is allowed, 4 choices of limits, an SDK or a native runtime, every timer, one cancellation at any await | the requests are served in order, complete evidence is what happened, ends are settled, a run is a serial tool server, and every run ends |
| `scripted_runs` | the 345 scenarios of the supply chain (13), claims (132) and commerce (200) libraries with the seeds they were reviewed with; their calls in any order, one of them twice | the listed order passes; what passes left what the listed order leaves |
| `comparison` | every pair of suites of up to 3 runs with 9 outcomes, 5 drifts, 2 excesses | a new critical failure and missing evidence fail the gate; what stays unclassified |
| `sql_fencing_stale`, `run_path_unbounded` | as small as shows it | the two findings of section 6 |

Run `service_manifest`, `service_interrupted`, `recovery_blocked`, `marketing_budget`
and `scripted_reseeded` by hand, with the configurations named in section 6: they
show what section 6 lists as observed.

Why the bounds are enough. Fencing is a matter of pairs: a stale executor and its
replacement, a row and the job, two publishers; two of each give every pair, and
one stall is what makes an executor stale. `MaxRevision` and `MaxAttempts` in
`MCSuiteService` are computed so that they never refuse a step: a job is claimed
once and again after each crash, stall or fault. In `SuiteJobs` they do cut the behaviours
off, after two takeovers, which is where the proofs take over: the theorems hold
for every bound. In `service_retries` the concurrency equals the number of
scenarios, so children overlap; with a smaller one they would only wait.
Processes are interchangeable in `service_fencing`, whose properties are
invariants and box-action properties, so symmetry is sound there; the liveness
run uses none.

In `worlds` every fixture is offered the requests of `MCWorlds`, in any order, any
number of times. Four keys allow four effects per run, and the keys are shared on purpose:
requests with the same key exclude each other, and each combination includes the
ones where an earlier request is refused, rolled back or repeated. The amounts
are chosen at the limits: exactly the balance and one more, safety stock and one
less. `MaxInjections` is the scenario's own limit; `MaxLost` bounds the answers
that get lost, which would otherwise only repeat.

In `run_path` two calls make every pair: concurrent callbacks, one abandoned while
the other executes, one served and one queued at the end. The limits leave room
for both calls, or run out at the turns, the tool calls or the mutations. The
schedule has an injection after an event and one before the terminal turn, and a
limit of one, so that delivering both exceeds it. The theorems hold for any
number of calls, tools, limits and injections. The run has 2,149,364 states and no symmetry, since it
checks liveness.

In `scripted_runs` the instance is the program's own data, nothing is cut but the
number of repeated calls. In `comparison` three runs are the smallest suites in
which two candidates of different sizes can have equal counts on either side of
the smallest sample (2) or both above it, with a majority outcome or without one. Of the assertions one is critical, one high and not
required, one medium. Each fails in a run of its own; besides, one run fails two at once, one
cannot evaluate the medium assertion (which blocks it, where a failure would not), one
has no verdict, one cannot evaluate the advisory assertion and ends in an infrastructure
error on another course, one lacks evidence. The first three of these are the ways in
which equal counts in suites of one size go with different pass rates. World, policy,
scenario or context may differ. The theorems hold for any
outcomes, severities, configuration and sizes.

`CHECK_DEADLOCK FALSE`: a published job has nothing more to do, a world may
have no request left that it would accept, a run or a comparison ends, and in
`SqlFencing` the program ends with its last transaction. `SuiteRecovery`'s loop
never stops, and its runs check deadlock.

## 4. Fairness

`FairSpec` assumes weak fairness of each task of a process that is up (one event
loop runs them all, and each awaits only calls that return), of each child (the
Runner bounds a run by `wall_time_s`), of the restart of a crashed process, and
of the lapse of a lease that nobody renews (`LeaseLapses /\ ~OwnerAlive`). It
assumes nothing of crashes, stalls, faults, cancellations, budgets or deadlines,
which are bounded instead. Weak fairness is enough since a task stays enabled
until it moves. Liveness also needs that the disturbances end: with a stall for
every claim a job would be taken over for ever.
`SuiteRecovery` assumes that the loop runs and that every execution ends, which
`EventuallyPublished` shows.

In `RunPath`, `FairSpec` assumes `WF(RunnerStep)`, the event loop running the
runner whenever it can go on (the database answers what is under no timer), and
`WF(Timeouts)`, timers firing. It assumes nothing of tools, native runtimes, the
SDK, its callbacks, the lease or a cancellation: a tool that hangs is timed out,
a runtime that hangs is cut by the wall clock, and a run still ends. One step of `RunnerStep` belongs to
the SDK, `ProviderObeys`: a task that ends when cancelled. The run
`run_path_unbounded` takes it away.

## 5. Proofs

`SuiteJobsProofs` proves, for every set of scenarios (finite), executors and runs and for
every bound, all the invariants and action properties that run `suite_jobs` checks, that a
stored verdict has a run and an attempt behind it (`VerdictsAreEarned`, which has no run of its own), and the
refinement `ImplementsLifecycle`. The assumptions are those of `SuiteJobs`:
`ScenarioAssumption` (a suite is finite, so rows can be counted) and
`NoneAssumption` (NULL is no executor and no run).

The argument. `JobInv` is inductive and has five parts:

- `TypeOK`;
- `ControlInv`: the cancellation flag agrees with the state, exactly an active
  job has an owner and a lease, and only a terminal job has a publication
  (`PublishedOnlyWhenTerminal`). The parts need each other: `finish` clears the
  publication and decides by the flag, and that it ends the job once
  follows from ownership;
- `RowsFollowJob`: needs the control part, since `finish` closes rows by the
  target it computed from the flag;
- `ProgressMatchesRows`: rests on the counting lemmas (`CountSame`,
  `CountOneMore`, `CountNone`) and on `scenario_finished` moving exactly one row
  from outside the results into them;
- `VerdictsHaveRuns`.

Each part has a lemma per step (`ControlStep`, `RowsStep`, `ProgressStep`,
`VerdictStep`), and `JobSafety` puts them together. The action properties follow
from `JobInv` and the step. `ImplementsLifecycle` maps a state to its phase, a row
to its verdict, and shows each action to be a step of `JobLifecycle` or a stutter:
a takeover, an attempt, a lease, evidence and a second cancellation are
stutters, which is why a client need not know of them.

`ToolWorldProofs` proves, for every handler, set of requests, keys, fixtures and
bound, that a failed call is never remembered (`FailedCallsVanish`), that a key
has at most one effect (`OneEffectPerKey`), that whoever was told of success was
told the truth (`ToldTheTruth`), and that `ToolWorld` implements `KeyedEffects`
(`WorldsKeepTheirPromise`). The only assumption is `CallAssumption`: a request
has a key and a failure flag. Nothing is assumed of the handlers: these are
results about the transaction around them.

The invariant is `SpineInv`. That the log holds at most one event per key is not inductive: whether a
second one is written depends on the table `idempotency`. So `Coherent(answers,
log)` states the correspondence both ways: each stored answer is the number of an
event its request caused, and each event of a request is remembered under its
key. It must hold of the committed tables and of what an open transaction is about to
install (`CoherentAfterCommit`), and since `Rollback` may take that away, the
committed ones may not depend on it. `told` needs a conjunct of its own, as an answer outlives
the transaction it came from. The refinement then needs that `Install` adds
either one effect with a fresh key or none (`Installed`).

`WorldsProofs` is about the handlers: any set of requests, any number of them and of
injections, on every fixture. Its hypothesis is `TheseWorlds`, which gives the
parameters of `ToolWorld` the values of `Worlds.cfg`; `RequestAssumption` is what it
assumes of a request. It proves `WorldTypeOK`, `PoliciesHold`,
`TransfersKeepSafetyStock`, `AdviceIsExecutable`, and the bounds on balances that hold
of the state alone (`BalancesStayBounded`). The invariant `WorldInv`
says of the committed state, and of the one an open transaction would install, that
it is a state of its fixture whose balances are bounded (`CommerceOK`, `SupplyOK`,
`InsuranceOK`, `MarketingOK`), and of every event that it is one a handler records
(`CommerceEntryOK`). The limits and the statuses need each other: a refund is bounded
since `refunded` and the captured amount decide the status from which refunds are
accepted, a payment since only an approved claim has an approved amount. There is a
lemma per handler (`RefundStep`, `IssuePaymentStep`, ...), one per world that collects
them (`CommerceStep`, ...), and `EffectOK` over all. The policies then read the log entry by entry, but for the
duplicate refund, which is a fact about keys: it comes from `SpineInv` of
`ToolWorldProofs`. An adviser recomputes a limit from the claim or campaign, and the
lemmas `PayableApprovable`, `DeployableAllocatable` and `RecommendedAllowed` compare
it with the handler's.

`LedgerProofs` proves `EventsExplain` under the same hypothesis (`EventsAlwaysExplain`):
the audit log accounts for stock, refunds, shipments, claims and campaigns. What a log
leaves of a value is a fold over it, defined by recursion. That the recursion has a
value, and only one, is an induction; it is had from the library's theorem that `<` is
well founded on the naturals, applied to the set of lengths at which the claim fails
(`LeastNat`, `FoldExists`, `FoldsAgree`). Three facts come out of it: what no event
leaves (`LeftByNone`), what one more event makes of it (`LeftByOneMore`), and that a
longer log leaves the same at each of its beginnings (`LeftByFirst`). The rest is
about single steps. `Tells` says that an event states the value before it and leads to
the value after it, and tells nothing of anything else; each handler's event tells of
every balance and status it changes (`RefundTells`, `TransferTells`, `IssuePaymentTells`,
...), which is where a `before` read too early or a second location forgotten would
show. `OneMoreExplained` adds such an event to a log that explained the old value. The
invariant `LedgerInv` is needed of the open transaction as well as of the committed
tables, on top of `WorldInv` and `SpineInv`.

It also proves `MoneyReconciles` (`MoneyAlwaysReconciles`), whose sums are `MapThenSumSet`
over positions of the log and of the tables: again a recursion, which takes the
elements of a set in an order nobody chose. `AddsUpTo(f, S, v)` says the same without an
order (some function on the subsets of `S` is 0 on the empty one and loses `f[x]` with
each `x` taken away); it grows by one number with one more position (`OneMoreAdds`), and
on a finite set the library's sum is that value (`SumsAgree`, by induction on the
cardinality). What a handler writes is then compared with what it records: `Posts` and
`RefundsTold` say that a row is appended exactly when its event is, of the same thing and
amount, and `Posting` and `RefundsStillAddUp` that both sums move with the balance. That
the sums agree is not enough for the rest, so `LedgerInv` carries more
(`MoneyAgrees`): an order with a row in `refunds` has a positive `refunded`, without which
"refunded" and "captured nothing" look the same; the pending rows of an order are as
many as its `refund.pending` events less its `refund.completed` ones (`PendingTold`); a
decided claim is no longer undecided (`ClaimDecided`); a live campaign was seeded so or has
a launch in the log, and an allocation that reaches the approved budget left the campaign
completed (`CampaignCourse`). The limits come from `WorldInv`. The count of pending
refunds showed that `CompleteRefund` was modelled wrongly: it took the order of its
event from the request, but a `complete_refund` request names a refund and nothing else
(`ww/postgres_world.py:1070`), so the order is now that of the row.

`RunPathProofs` proves, for any calls, tools, injection schedule, limits and SDKs,
obedient or not: types (`RunTypes`), the order of service
(`RequestsServedInOrder`), that a run implements `SerialTools`
(`RunsServeSerially`), and what complete evidence means (`CompleteEvidence`). The
assumptions are those of `RunPath` and `NativeBridge`: `CallsAssumption`,
`LimitsAssumption`, `SdksAssumption`, `NoCallIsNoCall`.

The invariant is `RunInv`. That a callback is answered only when its call is over
is not inductive: one has to know whose result `held` is. So `ServingInv` says
where the runner stands: the current call and the held result are those of the
last call taken (`CurrentIsLast`, `HeldIsLast`), a draft exists only while the
worker is cancelled (`DraftAwaitsCancel`), a closed bridge has an empty queue, a
bridge is closed before the runtime is cancelled, and no request is submitted
twice. `OrderInv` is then the property itself with `Taken \o queue = seen` while
the bridge is open, and `Taken` a prefix of `seen` for ever
(`TakenFirst`). `EffectsTraced` is a part of its own, since a committed effect
whose run was cut has no result. `QuietOrNot` reduces the nearly forty disjuncts of
`Next` to the ten that touch trace, bridge or effects. For the refinement, the
place of a call in the trace is its place among the requests (`PlaceOfServed`), so
the last one taken comes after all that was applied or answered
(`LastServedLast`); `SerialStep` then maps `TakeCall` to a stutter, `EnterTurn` to
`Answer`, `ToolCommits` to `Apply`. `CompleteEvidence` adds `EvidenceInv`: no
event follows the snapshot (`SnapshotSawAll`), and no schema is left by a close
that succeeded (`WorldIsGone`).

`RunsEndSettled` proves `EndsSettled` with two more parts. `CutInv` is about runs that
are cut short: `cancelled` is set only on the way out, closes the bridge, fails every
callback that waits, and is needed by every terminal reason that means a cut
(`CutCancels`); the SDK's task is then over, or the run is still in `join`, where the
disobedient SDK keeps it. `AnswerInv` is about runs that complete: in the loop the
trace has the result of every call but the one that is invoked or whose result is
held (`ResultsFollow`), and whatever has a result was answered (`ResultsAnswered`);
an SDK that completes has nothing pending, so both traces coincide, and hold every
request but those its callbacks submit after it (`CompletesWhole`). It needs `OrderInv`, since "every request" is "every call taken"
only because none is skipped.

`SqlFencingProofs` proves, for any number of scenarios and executors, fenced or not,
that the aggregate equals the committed verdicts (`SqlCounts`), that an end as
cancelled or failed left no row open (`SqlEndsClosed`), and that a verdict commits once
(`SqlVerdictsStay`). The assumptions are `SetsAssumption`, `StallsAssumption` and
`NoneAssumption` (no lock holder is called None). None of these properties is
inductive, since each speaks of committed tables while a step acts on what a
transaction read and locked earlier. `LockInv` therefore ties program places to locks
and locks to rows: who holds the job row where (`JobLocked`), which rows a
transaction holds and the state it locked them in (`RowsLocked`), that the rows still
open when `finish` closes them are the ones it looked up, and later holds
(`Closing`), and that a queued job is untouched, so that a DELETE of it sweeps every
row (`Untouched`). `finish` is safe because its children are done (`Tasks`) and the job
row it locked keeps others from claiming or cancelling. What the proof does not find is the
finding: with a stale executor a completed job may hold a row that was never
judged, since `scenario_started` takes no job lock. That `claim` and `finish` hold the job row
until they end is a conjunct of `TypeOK`.

`SuiteServiceProofs` is about the composition: any number of processes,
crashes, stalls, faults, retries. First the refinement: every step of a process is
a call of the repository or leaves the job alone, so `Spec` implies
`SuiteJobs!Spec` (`ServiceUsesJobs`) and every theorem of `SuiteJobsProofs` carries
over. Then `ServiceInv`, whose core is `Ownership`: if `p` `Holds` the job (it is
running and the owner in the row is the executor of `p`'s task), the rows are in the hands
of its children (`RowHeld`). That this survives other processes is the fencing
argument, and it has four steps. An executor id names its process, life and role
(`ExecutorAssumption`), so no other process acts under it. A process holds the job
only through `Claim`, made from `scheduled`, where it has no children yet.
A takeover by `TakeOverCancellation` needs state `cancelling`, in which nobody holds
the job. And the rows of a job another process holds are written only by calls
that its guard refuses. `Children` remembers the attempts a child has behind it, each
registered as retryable, which is what `RetriesExhausted` needs when the last becomes
the verdict. For the evidence, `Closed` (the job is past running) freezes the set of
registered runs (`EvidenceStays`), and every publisher publishes when it is closed
(`TaskOk`, `LoopPub`, `DeletePub`), so each bundle it attaches is whole. A job is completed
only in `settling`, where every child is done, so `CompletedMeansJudged` follows from
`RowHeld`, and from it that `request_cancel`, which cancels pending rows whatever the state
of the job, finds none in a finished one (`FinishedRowsAreFrozen`). The guards of the
repository alone give less (`TerminalIsFinal`): a caller who completes a job it did not
judge leaves rows that a cancellation may close. The assumptions are those of `SuiteJobs` and `OutcomeAssumption`,
`ExecutorAssumption`, `RunAssumption`, `ServiceAssumption` (the ranges the code
validates), `BundleAssumption` (an empty directory is no publication).

`ComparisonProofs` proves the three properties of the gate for any outcomes,
severities, configuration and sizes. The state machine is one step; the
arguments are about counting. `OccurrencesCount` injects a mode's failing runs into
the pairs that are counted; `RateGrows` compares rates by cross products;
`PrimaryFound` takes the first finding from a well-founded order. That suites of one
size are classified, `TiedRates`, is had from `CountsDecide`: if every run has a verdict and
at most one assertion that blocks it, and no assertion blocks one run and is let pass in
another, then `BlockedTie` pairs off, assertion by assertion, the runs it blocks in the two
suites, and the pairs make a bijection of all runs that do not pass. Without that premise it
is false of the code (section 6), which is what the proof and the states of the run show.
The assumptions are `OutcomesAssumption` (finite sets, verdicts are pass, fail or error),
`DifferencesAssumption`, `MaxRunsAssumption` and `ConfigAssumption` (percentages are not
negative).

Only model-checked: `ScriptedRuns` (`ReferenceEarnsItsVerdict`,
`PassedMeansReferenceOutcome`), which is finite data that TLC enumerates in full; and
liveness (`RunEnds`, `EventuallyPublished`, and `EveryJobEnds` and `PublishedUnlessBlocked` of
`SuiteRecovery`), which is out of the prover's reach. Every other property a passing run
checks is also a theorem.

## 6. Findings

1. **`scenario_started` is not fenced against a takeover that commits while the
   statement runs** (`sql_fencing_stale`): a completed job may hold a scenario
   that was never judged.
2. **The bound on cancelling a worker does not hold for an SDK whose task does not
   end when cancelled** (`run_path_unbounded`): `NativeAdapter.cancel` swallows
   the timer's cancellation and then awaits the task.

Observed while modelling. Five of these have a configuration that shows them,
to be run by hand:

- `ServiceManifest.cfg` (`MCSuiteService`, `AttachedManifestTerminal`): a publication whose manifest
  shows an unfinished job. `finalize_abandoned_cancellation` returns the job as it is
  when its update matches nothing (`ww/suite_jobs.py:330`), and the recovery loop publishes what it
  returned (`ww/api.py:424`), against "terminal database job snapshot" of `ww/suite_service.py:347`.
- `ServiceInterrupted.cfg` (`MCSuiteService`, `InterruptedRunsAreReset`): a failed heartbeat turns a
  run into a verdict. The executor still owns the job, so what its cancelled children
  record is accepted, and a resumed job completes with it (`docs/operations.md:15-17` promises a reset).
- `SuiteRecoveryBlocked.cfg` (`SuiteRecovery`, `TerminalJobsPublished`): a job whose records
  cannot be reloaded blocks the publication of every later job by the loop (`ww/api.py:430`).
- `MarketingBudget.cfg` (`MCWorlds`, `SpentWithinProposed`): repeated allocations exceed a
  campaign's proposed budget; each is compared with the proposed budget as a whole (`ww/marketing.py:929`).
- `ScriptedReseeded.cfg` (`MCScriptedRuns`, `ReferenceEarnsEveryRepetition`): the repetitions of a
  suite get seeds of their own unless the scenario is of the release matrix
  (`ww/suite.py:106-121`); claims and supply scenarios are not, and some depend on
  the seed they were reviewed with: the listed calls of supply chain scenario 8 fail at repetition 1,
  where the east warehouse has stock enough for the transfer that should be refused.
  `docs/claims-analyst-review-rubric.md:54` asks that a "Full batch passes 5/5 repetitions".

Without a run:

- `_deliver_injections` (`ww/runner.py:461`): its first disjunct holds for every
  injection with trigger `after_tool` after any tool, whatever `after_tool` names.
- After an injection error, or any exception but a timeout, a cancellation or
  pending callbacks, the runner does not cancel the worker: an SDK's task runs on.
- A run that ends over a budget or out of turns loses the last tool result from its
  trace. An SDK that ends in `CancelledError` makes its run count as cancelled.
- A suite's definitions are verified when it is admitted and read again by the
  executor that takes over.
- Grading does not look at the terminal reason, and the assertions of the libraries
  do not fix the order of calls: two claims scenarios (056, 069) pass in either order.
- `mutation_requires_idempotency_key` fails for any run with an injected event, and
  `ticket_closure_requires_resolution` for any that closes a ticket, since
  `update_ticket` never reports a resolution (`ww/postgres_world.py:606`). Refunds
  that are pending are of another event type, so refund policies do not see them.
- `compare_suites` raises `StopIteration` when no finding applies
  (`ww/comparison.py:422`): pass rates differ and every failure mode occurs equally
  often, in suites of different sizes, or in suites of one size where the counts do not
  tell how many runs pass: one run failing two assertions against two runs failing one
  each; a medium assertion that fails in one suite, which is let pass, and, required, cannot
  be evaluated in the other, which is not (`_failed` counts both, `ww/comparison.py:187`;
  `RunRecord.passed` does not, `ww/contracts.py:486`); a run without verdicts, which
  does not pass and fails no assertion. For the same reason a critical mode that
  occurs equally often in a smaller candidate is not flagged.
- `escalate` moves a closed ticket, past `validate_ticket_transition`;
  `adjust_inventory` lets the database choose between the locations of a SKU; where
  backorders are allowed, a negative balance is accepted by its handler and refused
  by the table.

## 7. Not modelled, and why

- POST's idempotency key: a repeated POST returns the stored job and schedules
  it, which is what the recovery loop's scheduling already does.
- The amounts of budgets and the suite deadline: whether they are exceeded is
  nondeterministic, so the models show what follows, not when it happens.
- The files of a publication directory: a publication is one value. Two
  publishers of one executor id write the same directory; that is a module of its own in the plan.
- Of the worlds: the clock, free text, `inject_delay_ms`, and read-only tools other
  than the three advisers. They do not influence what a mutation does.
- Of the run: a COMMIT that is still under way on the server when its connection is lost
  (here it has happened or it has not when the error is returned); a second cancellation
  while it cancels, collects or closes; `advance_time`; the token and cost amounts
  (whether they are exceeded is nondeterministic); the SDKs' message formats.
- The analyst libraries (`campaign_analyst`, `claims_analyst`): their assertions are
  about the text and the figures read-only tools answer, so a model of them would be a copy of those tools.
- The assertion types no modelled scenario uses, several scenarios in one
  report, the files of a baseline.
- Comparison statistics (Wilson intervals, percentiles) are floats; rendering,
  schemas and validation have no state.
- Contracts, catalog, configuration, registry, command line, dashboard: immutable
  values and entry points.

## 8. Plan

Done: the durable suite path with its abstract specification and proofs, the
worlds with theirs, the run path with its, scenarios, grading and comparison.
What would add most next:

1. `EvidencePublication`: the files of a publication directory, rename by rename,
   with two publishers of one executor id.
2. The composition of `RunPath` with `ToolWorld`: `ToolCommits` as the
   transaction of a domain handler, with injections from `inject`.
3. Several scenarios in one comparison, and the baseline store.

Proofs: none of the safety properties of the present modules is left but those of
`ScriptedRuns`; a new module brings its own.
