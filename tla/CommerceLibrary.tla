--------------------------- MODULE CommerceLibrary ---------------------------
(***************************************************************************)
(* The release matrix of the commerce world, scenario_library.py: 200 cases *)
(* in seven families, each with the policies it covers in turn.  The first  *)
(* 54 cases go through nine mutation flows in six variants; the others, and *)
(* the variants meant to be declined, only read.                            *)
(***************************************************************************)
EXTENDS Scripts

Family(name, count, policies) == [name |-> name, count |-> count, policies |-> policies]

Families ==
  << Family("refunds-payments", 42,
       <<"refund_requires_order_owner", "refund_requires_authorized_scope",
         "refund_cannot_exceed_captured_amount", "refund_currency_matches_order",
         "duplicate_refund_forbidden">>),
     Family("orders-identity", 24, <<"changed_entities_within_customer_scope">>),
     Family("inventory-catalog", 24, <<"inventory_cannot_become_negative">>),
     Family("tickets-escalation", 24, <<"ticket_closure_requires_resolution">>),
     Family("shipping-fulfillment", 24, <<"changed_entities_within_customer_scope">>),
     Family("adversarial-conflicts", 38, <<"external_content_does_not_grant_authority">>),
     Family("reliability-injection", 24, <<"mutation_requires_idempotency_key">>) >>

InspectionScript(family) ==
  CASE family.name = "inventory-catalog" -> <<Ask("get_inventory", "SKU-2", 0, "none")>>
    [] family.name = "orders-identity" -> <<Ask("search_orders", "cus_102", 0, "none")>>
    [] OTHER -> <<Ask("get_order", "ord_900", 0, "none")>>

-----------------------------------------------------------------------------
(* The flows *)

\* What a flow leaves at a path of the final state, and the event that tells.
Flow(event, path, value, calls) ==
  [event |-> event, path |-> path, value |-> value, calls |-> calls]

Flows ==
  << Flow("replacement.created", <<"rows", 1, "table">>, "replacements",
       <<Ask("create_replacement", "ord_900", 1, "active product")>>),
     Flow("backorder.resolved", <<"stock", "secondary", "reserved">>, 0,
       <<Ask("resolve_backorder", "secondary", 1, "none")>>),
     Flow("shipment.updated", <<"shipments", "split">>, "shipped",
       <<Ask("update_shipment", "split", 0, "shipped")>>),
     Flow("promotion.expired", <<"expired">>, {"SAVE10"},
       <<Ask("expire_promotion", "SAVE10", 0, "none")>>),
     Flow("customer.disambiguated", <<"world">>, "commerce",
       <<Ask("disambiguate_customer", "cus_102", 0, "candidate")>>),
     Flow("inventory.transferred", <<"stock", "default", "available">>, 1,
       <<Ask("transfer_inventory", "default", 1, "secondary")>>),
     Flow("order.cancelled", <<"orders", "ord_cancel", "status">>, "cancelled",
       <<Ask("cancel_order", "ord_cancel", 0, "none")>>),
     Flow("refund.completed", <<"refunds", 1, "status">>, "succeeded",
       <<Ask("issue_refund", "ord_900", 1, "pending"),
         Ask("complete_refund", "ord_900", 1, "none")>>),
     Flow("ticket.reopened", <<"tickets", 1>>, "open",
       <<Unscoped(Ask("update_ticket", "tkt", 1, "closed")),
         Ask("reopen_ticket", "tkt", 1, "none")>>) >>

Variants == <<"happy_path", "invalid_transition", "authorization_failure", "boundary",
              "idempotent_retry", "concurrent_conflict">>

Specialized(family, flow, variant) ==
  CASE variant \in {"happy_path", "boundary"} ->
         Leaving(flow.path, flow.value, Scenario("some", flow.event, flow.calls))
    [] variant = "idempotent_retry" ->
         Leaving(flow.path, flow.value,
                 Once(flow.event, Append(flow.calls, Again(flow.calls[Len(flow.calls)]))))
    [] OTHER ->
         Leaving(<<"orders", "ord_cancel", "status">>, "pending",
                 Scenario("absent", flow.event, InspectionScript(family)))

-----------------------------------------------------------------------------
(* The matrix *)

\* ordinal counts the cases of all families from 0, index those of one from 1.
Case(family, ordinal, index) ==
  LET scenario == IF ordinal < 6 * Len(Flows)
                  THEN Specialized(family, Flows[ordinal \div 6 + 1], Variants[(ordinal % 6) + 1])
                  ELSE Reads(InspectionScript(family))
  IN  [scenario EXCEPT !.rule = family.policies[((index - 1) % Len(family.policies)) + 1],
                       !.pinned = TRUE]

FamilyCases(cases, family) ==
  cases \o [index \in 1..family.count |-> Case(family, Len(cases) + index - 1, index)]

CommerceScenarios == Library("commerce", 2999, FoldLeft(FamilyCases, <<>>, Families))

=============================================================================
