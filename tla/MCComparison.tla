---------------------------- MODULE MCComparison ----------------------------
(* Assertions of three severities, the high one not required; runs that fail     *)
(* each or two at once, cannot evaluate a required or an advisory one, have no   *)
(* verdict, miss evidence or take another course; and the default configuration  *)
(* but for the smallest sample, 2 for 5, and the variability allowed, 20% for    *)
(* 10%, so that suites of two and of three runs can be told apart by rates only. *)
EXTENDS Comparison, TLC

MCSeverity == [a |-> "critical", b |-> "high", c |-> "medium"]
MCRequired == {"a", "c"}

Passing == [a |-> "pass", b |-> "pass", c |-> "pass"]
Run(verdicts) ==
  [verdicts |-> verdicts @@ Passing, incomplete |-> FALSE, infrastructure |-> FALSE,
   course |-> "direct"]

MCOutcome ==
  [passes |-> Run(<<>>), failsCritical |-> Run([a |-> "fail"]), failsHigh |-> Run([b |-> "fail"]),
   failsMedium |-> Run([c |-> "fail"]), failsTwo |-> Run([a |-> "fail", b |-> "fail"]),
   unevaluated |-> Run([c |-> "error"]),
   ungraded |-> [Run(<<>>) EXCEPT !.verdicts = <<>>],
   advisory |-> [Run([b |-> "error"]) EXCEPT !.course = "detour", !.infrastructure = TRUE],
   missing |-> [Run([a |-> "error"]) EXCEPT !.incomplete = TRUE]]
MCOutcomes == DOMAIN MCOutcome
MCConfig == [minimum_repetitions |-> 2, pass_rate_decrease |-> 2, flakiness_increase |-> 20,
             minimum_pass_rate |-> 0, infrastructure_rate |-> 1, low_sample_fails |-> FALSE,
             critical_allowed |-> 0, high_allowed |-> 0, allow_hash_mismatch |-> FALSE,
             excluded |-> {}]
MCDrifts == {{}, {"world"}, {"policy"}, {"scenario"}, {"context"}}
MCExcesses == {{}, {"p50"}}

=============================================================================
