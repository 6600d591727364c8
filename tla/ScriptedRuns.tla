----------------------------- MODULE ScriptedRuns -----------------------------
(***************************************************************************)
(* Scenarios of the libraries, run and graded: SuiteRunner picks the seed   *)
(* of a repetition, a worker makes the calls the scenario lists (a scripted *)
(* one in order, a live one in any order and some more than once), the      *)
(* world answers them one after the other, and the grader judges the        *)
(* evidence.  RunPath has the run itself; here a call is one step.          *)
(***************************************************************************)
EXTENDS EnterpriseLibrary, CommerceLibrary, Grading, Commerce, SupplyChain, Insurance

CONSTANTS
  Scenarios,     \* the scenarios run, a sequence
  Repetitions,   \* the repetitions of a suite, numbered from 0
  MaxRepeats     \* bound: how often a worker repeats a listed call

ASSUME RepetitionsAssumption == Repetitions \subseteq Nat /\ MaxRepeats \in Nat

VARIABLES
  case,          \* which scenario
  repetition,
  doc,           \* the domain state
  log,           \* the world's events, each with the request that caused it
  turns,         \* the trace: which listed call, and how it was answered
  ended          \* "no", "complete" or "incomplete" evidence

vars == <<case, repetition, doc, log, turns, ended>>

-----------------------------------------------------------------------------
(* The world of a run *)

\* SuiteRunner derives a seed for each repetition unless the fixture is pinned.
SeedOf(s, rep) == IF s.pinned THEN s.seed ELSE s.seed + rep

\* _build_legacy_insurance_state, in minor units
ClaimsState(seed) ==
  [AdjusterFixture EXCEPT !.limit = 500000 + (seed % 3) * 10000,
                          !.claims.clm_100.requested = 200000 + (seed % 5) * 1000]

\* build_supply_chain_state
SupplyState(seed) ==
  [SupplyFixture EXCEPT !.supplier.sup_primary = IF seed % 3 = 0 THEN "delayed" ELSE "active",
                        !.stock.wh_west.available = 2 + (seed % 3),
                        !.stock.wh_east.available = 18 + (seed % 5)]

StateFor(s, rep) ==
  CASE s.world = "insurance" -> ClaimsState(SeedOf(s, rep))
    [] s.world = "supply" -> SupplyState(SeedOf(s, rep))
    [] s.world = "commerce" -> CommerceFixture

EffectOf(c, d) ==
  CASE d.world = "commerce" -> CommerceEffect(c, d)
    [] d.world = "supply" -> SupplyEffect(c, d)
    [] d.world = "insurance" -> InsuranceEffect(c, d)

\* The schema of a tool's input.
ValidInput(c) ==
  /\ c.tool \notin ReadOnly => c.key # Unusable
  /\ c.opt \notin {"empty", "oversized"}
  /\ c.tool = "decide_claim" => c.opt \in {"approve", "reject"}
  /\ c.tool = "issue_claim_payment" => c.n > 0 /\ c.currency # "usd"

\* The read-only tools; a claimant reads only what is theirs.
Readable(c) ==
  /\ c.on # "missing"
  /\ c.tool \in {"get_policy", "inspect_claim"} => c.customer = "owner"
  /\ c.tool \in {"get_order", "search_orders"} => c.customer \in {"owner", "none"}

\* What can come of one call: the state and log it leaves, and its status.
Result(d, entries, status) == [doc |-> d, log |-> entries, status |-> status]

Serve(c, d, entries) ==
  LET used == {i \in DOMAIN entries : \E x \in entries[i].by : x.key = c.key}
      refused == {Result(d, entries, "error")}
      accepted == {Result(d, entries, "success")}
      effects == EffectOf(c, d)
  IN  CASE ~ValidInput(c) -> refused
        [] ValidInput(c) /\ c.tool \in ReadOnly -> IF Readable(c) THEN accepted ELSE refused
        [] ValidInput(c) /\ c.tool \notin ReadOnly /\ used # {} ->
             IF \E i \in used : c \in entries[i].by THEN accepted ELSE refused
        [] OTHER ->
             IF effects = {} THEN refused
             ELSE {Result(r.doc, Append(entries, [by |-> {c}, event |-> r.event]), "success") :
                     r \in effects}

-----------------------------------------------------------------------------
(* A run *)

Running == Scenarios[case]

Init ==
  /\ case \in DOMAIN Scenarios
  /\ repetition \in Repetitions
  /\ doc = StateFor(Running, repetition)
  /\ log = <<>>
  /\ turns = <<>>
  /\ ended = "no"

Made(i) == Cardinality({t \in DOMAIN turns : turns[t].call = i})
Repeats == Len(turns) - Cardinality({turns[t].call : t \in DOMAIN turns})

\* The worker makes the i-th call of the list, for the first time or again.
Invoke(i) ==
  /\ ended = "no"
  /\ Made(i) > 0 => Repeats < MaxRepeats
  /\ \E r \in Serve(Authorized(Running, Running.calls[i]), doc, log) :
       /\ doc' = r.doc
       /\ log' = r.log
       /\ turns' = Append(turns, [call |-> i, status |-> r.status])
  /\ UNCHANGED <<case, repetition, ended>>

\* The worker is done; or the run breaks off and its evidence is incomplete.
Finish ==
  /\ ended = "no"
  /\ ended' \in {"complete", "incomplete"}
  /\ UNCHANGED <<case, repetition, doc, log, turns>>

Next == (\E i \in DOMAIN Running.calls : Invoke(i)) \/ Finish

Spec == Init /\ [][Next]_vars

-----------------------------------------------------------------------------
(* What the run is worth *)

Gathered ==
  [incomplete |-> ended = "incomplete",
   orders |-> CommerceFixture.orders,
   final |-> doc,
   log |-> log,
   turns |-> [t \in DOMAIN turns |-> [call |-> Running.calls[turns[t].call],
                                      status |-> turns[t].status]]]

RunPassed == Passed(Grade(AssertionsOf(Running), Gathered), Gathered)

\* The calls as listed, each once: what StubWorkerAdapter does.
AsScripted == [t \in DOMAIN turns |-> turns[t].call] = [i \in DOMAIN Running.calls |-> i]

\* Where the listed calls lead from the fixture of this run.
Scripted ==
  FoldLeft(LAMBDA results, c :
             UNION {Serve(Authorized(Running, c), r.doc, r.log) : r \in results},
           {Result(StateFor(Running, repetition), <<>>, "success")}, Running.calls)

\* What a run is judged to have left: tables as bags, since rows have no order
\* but that of their ids.  Asking for evidence and escalating may follow each
\* other either way and both leave the claim undecided; no assertion tells
\* which came last.
Unsettled(status) == IF status \in Undecided THEN "undecided" ELSE status
Outcome(d) ==
  [rows |-> ToBag(d.rows),
   rest |-> IF d.world # "insurance" THEN [d EXCEPT !.rows = <<>>]
            ELSE [d EXCEPT !.rows = <<>>,
                           !.claims = [x \in DOMAIN @ |->
                              [@[x] EXCEPT !.status = Unsettled(@)]]]]

-----------------------------------------------------------------------------
(* Properties *)

\* A worker that makes the listed calls in the listed order passes: the
\* statuses expected_tool_statuses derives, the events and the balances the
\* authors wrote down are what the worlds answer, record and keep.  Stated for
\* the seed a scenario was reviewed with.
ReferenceEarnsItsVerdict ==
  ended = "complete" /\ AsScripted /\ SeedOf(Running, repetition) = Running.seed => RunPassed

\* A run passes only with complete evidence, and, whatever the order and the
\* repetitions of the worker's calls, only if it left what the listed order
\* leaves.
PassedMeansReferenceOutcome ==
  ended # "no" /\ RunPassed =>
    /\ ended = "complete"
    /\ Outcome(doc) \in {Outcome(r.doc) : r \in Scripted}

\* SuiteRunner reseeds the repetitions of every scenario the release matrix does
\* not pin.  enterprise_scenarios.py calls its scenarios reviewed and
\* deterministic, and docs/claims-analyst-review-rubric.md expects a full batch
\* to pass all its repetitions.
ReferenceEarnsEveryRepetition == ended = "complete" /\ AsScripted => RunPassed

=============================================================================
