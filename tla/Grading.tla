------------------------------- MODULE Grading -------------------------------
(***************************************************************************)
(* The deterministic grader, grading.py, on the evidence of one run: its    *)
(* final snapshot, its event log and the calls and results of its trace.    *)
(* Modelled are the assertion types the scenario libraries use; a verdict   *)
(* is its status.                                                           *)
(***************************************************************************)
EXTENDS Scripts, Policies

\* evidence: [incomplete, orders, final, log, turns]; a turn is [call, status].

\* resolve_path: the value at a path, or none.
ResolvePath(state, path) ==
  FoldLeft(LAMBDA found, component :
             UNION {IF component \in DOMAIN v THEN {v[component]} ELSE {} : v \in found},
           {state}, path)

PassIf(condition) == IF condition THEN "pass" ELSE "fail"

StateEquals(a, evidence) ==
  LET found == ResolvePath(evidence.final, a.path)
  IN  IF found = {} THEN "error" ELSE PassIf(found = {a.expected})

\* state_matches, operation length
StateMatches(a, evidence) ==
  LET found == ResolvePath(evidence.final, a.path)
  IN  IF found = {} THEN "error"
      ELSE PassIf(\A rows \in found : Cardinality(DOMAIN rows) = a.expected)

MatchingEvents(a, evidence) == Cardinality(EntriesOf(evidence.log, a.event))

ActionExists(a, evidence) == PassIf(MatchingEvents(a, evidence) > 0)
NoAction(a, evidence) == PassIf(MatchingEvents(a, evidence) = 0)
ActionCount(a, evidence) == PassIf(MatchingEvents(a, evidence) = a.count)

ToolCalled(a, evidence) ==                     \* mutant: the status is not looked at
  PassIf(a.count = Cardinality({i \in DOMAIN evidence.turns :
                                  Said(evidence.turns[i].call) = a.call}))

\* Exactly count calls said this and were answered with this status.
ToolResultMatches(a, evidence) ==
  PassIf(a.count = Cardinality({i \in DOMAIN evidence.turns :
                                  /\ Said(evidence.turns[i].call) = a.call
                                  /\ evidence.turns[i].status = a.status}))

GradeAssertion(a, evidence) ==
  CASE a.type = "state_equals" -> StateEquals(a, evidence)
    [] a.type = "state_matches" -> StateMatches(a, evidence)
    [] a.type = "action_exists" -> ActionExists(a, evidence)
    [] a.type = "no_action" -> NoAction(a, evidence)
    [] a.type = "action_count" -> ActionCount(a, evidence)
    [] a.type = "tool_result_matches" -> ToolResultMatches(a, evidence)
    [] a.type = "policy" -> PassIf(HoldsPolicy(a.rule, evidence.log, evidence.orders))

\* One required verdict that cannot pass if evidence is incomplete.
Grade(assertions, evidence) ==
  IF evidence.incomplete THEN <<"error">>
  ELSE [i \in DOMAIN assertions |-> GradeAssertion(assertions[i], evidence)]

\* RunRecord.passed; every assertion of the libraries is critical or high.
Passed(verdicts, evidence) ==
  /\ ~evidence.incomplete
  /\ verdicts # <<>>
  /\ \A i \in DOMAIN verdicts : verdicts[i] = "pass"

=============================================================================
