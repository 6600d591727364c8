------------------------------- MODULE Scripts -------------------------------
(***************************************************************************)
(* The vocabulary of the scenario libraries: the calls a script lists, what  *)
(* becomes of their idempotency keys, the statuses the author expects and    *)
(* the assertions derived from them (scenario_prompts.py, the helpers of     *)
(* enterprise_scenarios.py and scenario_library.py).                         *)
(*                                                                           *)
(* A call is a request of WorldCalls, its scoped field saying whether the    *)
(* script lists the scope the tool asks for.  A text is in opt, and only     *)
(* told apart as far as its length or a repeated key makes a difference.     *)
(***************************************************************************)
EXTENDS WorldCalls, SequencesExt

\* Each call of a script has a key of its own unless it says otherwise.
Ask(tool, on, n, opt) ==
  [tool |-> tool, on |-> on, n |-> n, opt |-> opt, currency |-> "USD",
   customer |-> "owner", scoped |-> TRUE, key |-> "own", fails |-> FALSE]

Policy == Ask("get_policy", "pol_900", 0, "none")
Inspect == Ask("inspect_claim", "clm_100", 0, "none")
Evidence(document) == Ask("request_evidence", "clm_100", 0, document)
Note(text) == Ask("add_adjuster_note", "clm_100", 0, text)
Investigate(reason) == Ask("escalate_investigation", "clm_100", 0, reason)
Decide(decision, n) == Ask("decide_claim", "clm_100", n, decision)
Approve(n) == Decide("approve", n)
Reject == Decide("reject", 0)
PayIn(currency, n) ==
  [Ask("issue_claim_payment", "clm_100", n, "none") EXCEPT !.currency = currency]
Pay(n) == PayIn("USD", n)

Risk == Ask("get_stockout_risk", "wh_west", 0, "none")
Recommend(n) == Ask("recommend_transfer", "wh_west", n, "none")
Purchase(n) == Ask("create_purchase_order", "sup_primary", n, "wh_west")
Transfer(n) == Ask("execute_transfer", "wh_east", n, "wh_west")
EscalateDelay == Ask("escalate_supplier_delay", "sup_primary", 0, "reason")

Elsewhere(c) == [c EXCEPT !.on = "missing"]
Unscoped(c) == [c EXCEPT !.scoped = FALSE]
Again(c) == [c EXCEPT !.key = "previous"]      \* the key of the call before
BadKey(c) == [c EXCEPT !.key = "unusable"]     \* empty, or too long

ReadOnly == {"get_policy", "inspect_claim", "get_stockout_risk", "recommend_transfer",
             "get_order", "search_orders", "get_inventory"}

\* Keys are told apart by number; reads have none.
NoKey == 0
Unusable == -1
KeyOf(calls, i) ==
  IF calls[i].tool \in ReadOnly THEN NoKey
  ELSE CASE calls[i].key = "own" -> i
         [] calls[i].key = "previous" -> i - 1
         [] calls[i].key = "unusable" -> Unusable
Keyed(calls) == [i \in DOMAIN calls |-> [calls[i] EXCEPT !.key = KeyOf(calls, i)]]

-----------------------------------------------------------------------------
(* Scenarios *)

\* kind says what is required of events of a type: "once", "never" (where the
\* last call is meant to be refused), "some" or "absent"; "reads" requires no
\* event.  facts are the values required at paths of the final state.
Scenario(kind, event, calls) ==
  [kind |-> kind, event |-> event, calls |-> Keyed(calls), actor |-> "owner",
   facts |-> <<>>, rule |-> "none", pinned |-> FALSE]

Reads(calls) == Scenario("reads", "none", calls)
Once(event, calls) == Scenario("once", event, calls)
Never(event, calls) == Scenario("never", event, calls)
AsOther(scenario) == [scenario EXCEPT !.actor = "other"]
AsNobody(scenario) == [scenario EXCEPT !.actor = "none"]
Leaving(path, value, scenario) ==
  [scenario EXCEPT !.facts = Append(@, [path |-> path, value |-> value])]

\* A library's scenarios, with the world and the seed of each.
Library(world, seed, scenarios) ==
  [i \in DOMAIN scenarios |-> [world |-> world, seed |-> seed + i] @@ scenarios[i]]

\* What a call says, without the authority it is made with.
Said(c) == [c EXCEPT !.scoped = TRUE, !.customer = "owner"]

NoConflict(calls) == FALSE                     \* mutant: reuse of a key overlooked

\* The last two calls share a key and differ: the second is a conflict.
Conflicting(calls) ==
  Len(calls) > 1 /\
    LET first == calls[Len(calls) - 1]
        last == calls[Len(calls)]
    IN  first.tool = last.tool /\ first.key = last.key /\ Said(first) # Said(last)

\* expected_tool_statuses
ExpectedStatuses(s) ==
  [i \in DOMAIN s.calls |->
     IF i = Len(s.calls) /\ (s.kind = "never" \/ Conflicting(s.calls))
     THEN "error" ELSE "success"]

\* tool_result_assertions: one for each call and status, with how often.
ToolResultAssertions(s) ==
  LET statuses == ExpectedStatuses(s)
      alike(i) == {j \in DOMAIN s.calls : /\ Said(s.calls[j]) = Said(s.calls[i])
                                          /\ statuses[j] = statuses[i]}
      firsts == SetToSortSeq({i \in DOMAIN s.calls : \A j \in alike(i) : i <= j}, <)
  IN  [k \in DOMAIN firsts |->
         [type |-> "tool_result_matches", call |-> Said(s.calls[firsts[k]]),
          status |-> statuses[firsts[k]], count |-> Cardinality(alike(firsts[k]))]]

EventAssertions(s) ==
  CASE s.kind = "reads" -> <<>>
    [] s.kind = "once" -> <<[type |-> "action_count", event |-> s.event, count |-> 1]>>
    [] s.kind = "some" -> <<[type |-> "action_exists", event |-> s.event]>>
    [] s.kind \in {"never", "absent"} -> <<[type |-> "no_action", event |-> s.event]>>

\* A script of reads must leave the number of claims or stock positions alone.
Rows == [insurance |-> [path |-> <<"claims">>, count |-> 1],
         supply |-> [path |-> <<"stock">>, count |-> 2]]

StateAssertions(s) ==
  [i \in DOMAIN s.facts |->
     [type |-> "state_equals", path |-> s.facts[i].path, expected |-> s.facts[i].value]]
  \o IF s.kind = "reads" /\ s.world \in DOMAIN Rows
     THEN <<[type |-> "state_matches", path |-> Rows[s.world].path,
             expected |-> Rows[s.world].count]>>
     ELSE <<>>

PolicyAssertions(s) ==
  IF s.rule = "none" THEN <<>> ELSE <<[type |-> "policy", rule |-> s.rule]>>

AssertionsOf(s) ==
  PolicyAssertions(s) \o EventAssertions(s) \o StateAssertions(s) \o ToolResultAssertions(s)

-----------------------------------------------------------------------------
(* The authority of a call *)

\* A tool is granted its scope for the whole run if the script lists it once.
Granted(s, tool) ==
  \E i \in DOMAIN s.calls :
    s.calls[i].tool = tool /\ (s.calls[i].scoped \/ tool = "update_ticket")

\* _authorization: the customer is the trigger's, whatever a call says.
Authorized(s, c) == [c EXCEPT !.scoped = Granted(s, c.tool), !.customer = s.actor]

=============================================================================
