------------------------------ MODULE Comparison ------------------------------
(***************************************************************************)
(* The regression gate, comparison.py and comparison_context.py: two suites *)
(* of one scenario are compared, the difference is classified, and the      *)
(* candidate passes or not.                                                 *)
(*                                                                          *)
(* A suite is a bag of outcomes.  An outcome is what a run record says of   *)
(* the run's verdicts, by the identity of their assertion, of its evidence, *)
(* of an infrastructure error as its end, and the course it took: its       *)
(* tools, events and authorizations, one value for what the signature tells *)
(* apart.  An assertion has one severity and is required or not in both     *)
(* suites.  Rates are fractions, where the code has floats.  Durations,     *)
(* tokens and costs are represented by which of their thresholds the        *)
(* candidate exceeds, and a scenario's own overrides of the configuration   *)
(* are taken to be applied.                                                 *)
(***************************************************************************)
EXTENDS Integers, FiniteSets, FiniteSetsExt, Sequences

CONSTANTS
  Outcomes,     \* the outcomes a run may have
  Outcome,      \* of each, [verdicts, incomplete, infrastructure, course]
  Severity,     \* the severity of each assertion
  Required,     \* the assertions that are required
  Config,       \* ComparisonConfig; rates in percent
  Drifts,       \* what may differ besides: sets of "world", "policy", "scenario",
                \* "worker" and "context"
  Excesses,     \* thresholds the candidate may exceed: sets of "p50", "p95", "tokens", "cost"
  MaxRuns       \* bound: runs in a suite

Verdict(o, a) == Outcome[o].verdicts[a]

ASSUME OutcomesAssumption ==
  /\ IsFiniteSet(Outcomes) /\ IsFiniteSet(DOMAIN Severity)
  /\ \A o \in Outcomes :
       /\ DOMAIN Outcome[o].verdicts \subseteq DOMAIN Severity
       /\ \A a \in DOMAIN Outcome[o].verdicts : Verdict(o, a) \in {"pass", "fail", "error"}
       /\ Outcome[o].incomplete \in BOOLEAN /\ Outcome[o].infrastructure \in BOOLEAN
ASSUME DifferencesAssumption ==
  /\ \A d \in Drifts : d \subseteq {"world", "policy", "scenario", "worker", "context"}
  /\ \A e \in Excesses : e \subseteq {"p50", "p95", "tokens", "cost"}
ASSUME MaxRunsAssumption == MaxRuns \in Nat
ASSUME ConfigAssumption ==
  /\ Config.minimum_repetitions \in Nat \ {0}
  /\ Config.pass_rate_decrease \in Nat /\ Config.flakiness_increase \in Nat
  /\ Config.minimum_pass_rate \in Nat /\ Config.low_sample_fails \in BOOLEAN
  /\ Config.infrastructure_rate \in Nat
  /\ Config.critical_allowed \in Nat /\ Config.high_allowed \in Nat
  /\ Config.allow_hash_mismatch \in BOOLEAN
  /\ Config.excluded \subseteq {"latency", "tokens", "cost"}

VARIABLES
  baseline, candidate,   \* the suites
  drift,                 \* in what they differ otherwise
  excess,                \* the thresholds the candidate exceeds
  report                 \* nothing, or what the comparison says

vars == <<baseline, candidate, drift, excess, report>>

-----------------------------------------------------------------------------
(* summarize and aggregate_scenario *)

\* The runs of a suite are told apart by their outcome and a number.
Runs(suite, outcomes) == UNION {{o} \X (1..suite[o]) : o \in outcomes}
RunsWith(suite, outcomes) == Cardinality(Runs(suite, outcomes))
Completed(suite) == RunsWith(suite, Outcomes)

\* _failed: the assertions with a verdict that is not PASS
Failures(o) == {a \in DOMAIN Outcome[o].verdicts : Verdict(o, a) # "pass"}

\* RunRecord.passed: a failure of low severity is let pass, and an assertion that
\* could not be evaluated unless it is required.
LetPass(o, a) ==
  \/ Verdict(o, a) = "pass"
  \/ Verdict(o, a) = "fail" /\ Severity[a] \in {"medium", "info"}
  \/ Verdict(o, a) = "error" /\ a \notin Required
Blocking(o) == {a \in Failures(o) : ~LetPass(o, a)}
PassedOutcomes ==
  {o \in Outcomes : /\ ~Outcome[o].incomplete
                    /\ DOMAIN Outcome[o].verdicts # {} /\ Blocking(o) = {}}
IncompleteOutcomes == {o \in Outcomes : Outcome[o].incomplete}
InfrastructureOutcomes == {o \in Outcomes : Outcome[o].infrastructure}

\* outcome_signature: it names the assertions that did not pass, not their status.
Signature(o) ==
  [passed |-> o \in PassedOutcomes, incomplete |-> Outcome[o].incomplete,
   failed |-> Failures(o), infrastructure |-> Outcome[o].infrastructure,
   course |-> Outcome[o].course]
Alike == {{p \in Outcomes : Signature(p) = Signature(o)} : o \in Outcomes}

\* Fractions with a positive denominator
Rate(n, total) == IF total = 0 THEN <<0, 1>> ELSE <<n, total>>
Minus(p, q) == <<p[1] * q[2] - q[1] * p[2], p[2] * q[2]>>
Exceeds(p, q) == p[1] * q[2] > q[1] * p[2]
Percent(n) == <<n, 100>>

PassRate(suite) == Rate(RunsWith(suite, PassedOutcomes), Completed(suite))
AllPass(suite) == PassRate(suite)[1] = PassRate(suite)[2]

InfrastructureRate(suite) ==
  Rate(RunsWith(suite, InfrastructureOutcomes), Completed(suite))

\* The share of runs that do not have the most frequent signature.
Variability(suite) ==
  LET most == Max({RunsWith(suite, outcomes) : outcomes \in Alike})
  IN  IF Completed(suite) = 0 THEN <<0, 1>>
      ELSE <<Completed(suite) - most, Completed(suite)>>

LowSample(suite) == Completed(suite) < Config.minimum_repetitions

-----------------------------------------------------------------------------
(* _failure_deltas and _compatibility *)

Failed == [a \in DOMAIN Severity |-> {o \in Outcomes : a \in Failures(o)}]
Failing(suite, a) == RunsWith(suite, Failed[a])
Modes(suite) == {a \in DOMAIN Severity : Failing(suite, a) > 0}

\* Modes are compared by how many runs show them.
FailureDeltas == {a \in DOMAIN Severity : Failing(baseline, a) # Failing(candidate, a)}

FailsMoreKnown(a) ==                      \* mutant: only modes the baseline has, too
  /\ a \in FailureDeltas /\ a \in Modes(baseline)
  /\ Exceeds(Rate(Failing(candidate, a), Completed(candidate)),
             Rate(Failing(baseline, a), Completed(baseline)))

FailsMore(a) ==
  /\ a \in FailureDeltas
  /\ Exceeds(Rate(Failing(candidate, a), Completed(candidate)),
             Rate(Failing(baseline, a), Completed(baseline)))

\* new_critical and new_high: the candidate's runs with such a mode
Occurrences(severity) ==
  LET modes == {a \in DOMAIN Severity : Severity[a] = severity /\ FailsMore(a)}
  IN  Cardinality(UNION {{a} \X Runs(candidate, Failed[a]) : a \in modes})

IncompleteCandidate == RunsWith(candidate, IncompleteOutcomes) > 0        \* mutant
IncompleteEvidence ==
  RunsWith(baseline, IncompleteOutcomes) + RunsWith(candidate, IncompleteOutcomes) > 0

Incompatible ==
  \/ IncompleteEvidence
  \/ Completed(baseline) = 0 \/ Completed(candidate) = 0
  \/ {"world", "policy"} \cap drift # {}
  \/ "scenario" \in drift /\ ~Config.allow_hash_mismatch

-----------------------------------------------------------------------------
(* compare_suites and _report *)

If(condition, finding) == IF condition THEN {finding} ELSE {}

FlakinessDelta == Minus(Variability(candidate), Variability(baseline))
Falls(p, percent) == Exceeds(<<0 - p[1], p[2]>>, Percent(percent))

PassRatesEqual == Minus(PassRate(candidate), PassRate(baseline))[1] = 0

\* One finding on the pass rates, if any.
PassFinding ==
  CASE AllPass(baseline) /\ ~AllPass(candidate) -> {"new_failure"}
    [] ~AllPass(baseline) /\ AllPass(candidate) -> {"fixed"}
    [] AllPass(baseline) /\ AllPass(candidate) -> {"unchanged_pass"}
    [] ~AllPass(baseline) /\ ~AllPass(candidate) /\ PassRatesEqual -> {"unchanged_failure"}
    [] OTHER -> If(FailureDeltas # {}, "failure_mode_changed")

\* Beyond the threshold and the baseline, whichever is higher
InfrastructureRegressed ==
  /\ Exceeds(InfrastructureRate(candidate), InfrastructureRate(baseline))
  /\ Exceeds(InfrastructureRate(candidate), Percent(Config.infrastructure_rate))

Findings ==
  LET flake == FlakinessDelta IN
  PassFinding
  \cup If(Incompatible, "incompatible")
  \cup If(~Incompatible /\ (LowSample(candidate) \/ LowSample(baseline)),
          "insufficient_evidence")
  \cup If(Exceeds(flake, Percent(Config.flakiness_increase)), "flakiness_increased")
  \cup If(Falls(flake, Config.flakiness_increase), "flakiness_decreased")
  \cup If("p95" \in excess, "performance_regressed")
  \cup If("cost" \in excess, "cost_regressed")
  \cup If(InfrastructureRegressed, "infrastructure_regressed")

PrimaryOrderShort ==               \* mutant: failing alike is not in the list
  <<"incompatible", "new_failure", "infrastructure_regressed", "failure_mode_changed",
    "flakiness_increased", "performance_regressed", "cost_regressed", "fixed",
    "flakiness_decreased", "insufficient_evidence", "unchanged_pass">>
PrimaryOrder ==
  <<"incompatible", "new_failure", "infrastructure_regressed", "failure_mode_changed",
    "flakiness_increased", "performance_regressed", "cost_regressed", "fixed",
    "flakiness_decreased", "insufficient_evidence", "unchanged_failure", "unchanged_pass">>

\* next() raises if no finding applies.
Primary ==
  LET found == Findings
      ranks == {i \in DOMAIN PrimaryOrder : PrimaryOrder[i] \in found}
  IN  IF ranks = {} THEN "raises" ELSE PrimaryOrder[Min(ranks)]

\* The name by which the configuration excludes a metric from the gate
Metric(e) == IF e \in {"p50", "p95"} THEN "latency" ELSE e

Reasons ==
  If(Incompatible, "incompatible artifacts")
  \cup If(Occurrences("critical") > Config.critical_allowed, "new critical failure modes")
  \cup If(Occurrences("high") > Config.high_allowed, "new high failure modes")
  \cup If(Falls(Minus(PassRate(candidate), PassRate(baseline)), Config.pass_rate_decrease),
          "pass-rate decrease")
  \cup If(Exceeds(Percent(Config.minimum_pass_rate), PassRate(candidate)), "pass rate")
  \cup If(Exceeds(InfrastructureRate(candidate), Percent(Config.infrastructure_rate)),
          "infrastructure error rate")
  \cup If(Config.low_sample_fails /\ (LowSample(baseline) \/ LowSample(candidate)),
          "low sample")
  \cup {e \in excess : Metric(e) \notin Config.excluded}

\* compare_contextual_suites: the context must agree and evidence be complete
ContextualPassed == "context" \notin drift /\ ~IncompleteEvidence /\ Reasons = {}

-----------------------------------------------------------------------------
(* One comparison *)

\* The runs of the scenario in a suite record, counted
Counted(runs) == [o \in Outcomes |-> Cardinality({i \in DOMAIN runs : runs[i] = o})]
Suites == {Counted(runs) : runs \in UNION {[1..n -> Outcomes] : n \in 0..MaxRuns}}

Init ==
  /\ baseline \in Suites /\ candidate \in Suites
  /\ drift \in Drifts /\ excess \in Excesses
  /\ report = {}

Compare ==
  /\ report = {}
  /\ \E primary \in {Primary} \ {"raises"} :
       report' = {[primary |-> primary, passed |-> Reasons = {},
                   contextual |-> ContextualPassed]}
  /\ UNCHANGED <<baseline, candidate, drift, excess>>

\* The comparison ends in StopIteration; the CLI reports an internal error.
CompareRaises ==
  /\ report = {}
  /\ Primary = "raises"
  /\ report' = {[primary |-> "raises", passed |-> FALSE, contextual |-> FALSE]}
  /\ UNCHANGED <<baseline, candidate, drift, excess>>

Next == Compare \/ CompareRaises

Spec == Init /\ [][Next]_vars

-----------------------------------------------------------------------------
(* Properties *)

\* README.md: "New critical violations fail with a nonzero exit code", whatever
\* else improved: a critical assertion that fails in more of the candidate's runs
\* than are allowed, and failed in no run of the baseline, fails the gate, and so
\* does one that fails in more of the runs unless as many runs of a larger
\* baseline failed it.
NewCriticalFails ==
  \A r \in report : \A a \in Modes(candidate) :
    /\ Severity[a] = "critical" /\ Failing(candidate, a) > Config.critical_allowed
    /\ \/ a \notin Modes(baseline)
       \/ /\ Failing(candidate, a) # Failing(baseline, a)
          /\ Completed(candidate) <= Completed(baseline)
          /\ Failing(candidate, a) > Failing(baseline, a)
    => ~r.passed /\ ~r.contextual

\* Nothing passes on evidence that is incomplete or missing on either side, or
\* that stems from another world, policy or scenario, unless it was told to let
\* scenarios differ; and what the contextual comparison passes, the plain one
\* passes too.
EvidenceFailsClosed ==
  \A r \in report :
    /\ r.passed =>
         /\ \A o \in IncompleteOutcomes : baseline[o] = 0 /\ candidate[o] = 0
         /\ Completed(baseline) > 0 /\ Completed(candidate) > 0
         /\ drift \subseteq {"worker", "context"} \cup If(Config.allow_hash_mismatch, "scenario")
    /\ r.contextual => r.passed /\ "context" \notin drift

\* The suites whose counts may tie though their pass rates differ: some run has
\* no verdict at all or several that keep it from passing, or an assertion keeps
\* one run from passing and is let pass, failed or unevaluated, in another.
Occurring == {o \in Outcomes : baseline[o] > 0 \/ candidate[o] > 0}
BlockedOnce(o) == DOMAIN Outcome[o].verdicts # {} /\ \A a, b \in Blocking(o) : a = b
SameEverywhere(a) ==
  \A o, p \in Occurring :
    a \in Failures(o) \cap Failures(p) => (LetPass(o, a) <=> LetPass(p, a))
CountsDecide ==
  /\ \A o \in Occurring : BlockedOnce(o)
  /\ \A a \in DOMAIN Severity : SameEverywhere(a)

\* Every pair of suites is classified, with one exception: suites in which every
\* assertion fails or errs equally often although they differ in size, or
\* although the counts do not tell how many runs pass.  Where neither a low rate,
\* a low sample nor infrastructure errors are a reason to fail, a suite compared
\* with itself passes as unchanged, or as too small to say.
ClassifiedUnlessCountsTie ==
  \A r \in report :
    /\ r.primary = "raises" =>
         /\ FailureDeltas = {}
         /\ Completed(baseline) # Completed(candidate) \/ ~CountsDecide
    /\ baseline = candidate /\ drift = {} /\ excess = {} /\ ~Incompatible
       /\ ~Exceeds(InfrastructureRate(candidate), Percent(Config.infrastructure_rate))
       /\ Config.minimum_pass_rate = 0 /\ ~Config.low_sample_fails =>
         /\ r.passed /\ r.contextual
         /\ r.primary \in {"unchanged_pass", "unchanged_failure", "insufficient_evidence"}

=============================================================================
