------------------------------ MODULE MCWorlds ------------------------------
(* The worlds on their fixtures, with the requests each scenario may make.  Two *)
(* requests of a scenario with the same key are a conflict for the code.       *)
EXTENDS EnterpriseWorlds

CONSTANTS k1, k2, k3, k4

MCKey == {k1, k2, k3, k4}

Ask(tool, on, n, opt, key) ==
  [tool |-> tool, on |-> on, n |-> n, opt |-> opt, currency |-> "USD",
   customer |-> "owner", scoped |-> TRUE, key |-> key, fails |-> FALSE]

Failing(c) == [c EXCEPT !.fails = TRUE]
Foreign(c) == [c EXCEPT !.customer = "other"]
Unscoped(c) == [c EXCEPT !.scoped = FALSE]
Euro(c) == [c EXCEPT !.currency = "EUR"]

RefundCalls ==
  {Ask("issue_refund", "ord_900", 2, "pending", k1),
   Euro(Ask("issue_refund", "ord_900", 1, "none", k1)),
   Ask("issue_refund", "ord_900", 2, "none", k2),
   Foreign(Ask("issue_refund", "ord_900", 1, "none", k2)),
   Ask("issue_refund", "ord_900", 1, "none", k3),
   Failing(Ask("issue_refund", "ord_900", 1, "none", k3)),
   Ask("complete_refund", "ord_900", 1, "none", k4),
   Ask("cancel_order", "ord_900", 0, "none", k4),
   Ask("cancel_order", "ord_cancel", 0, "none", k4),
   Ask("create_replacement", "ord_900", 1, "active product", k4)}

StockCalls ==
  {Ask("adjust_inventory", "SKU-2", -2, "none", k1),
   Failing(Ask("adjust_inventory", "SKU-2", 1, "none", k1)),
   Ask("adjust_inventory", "SKU-2", 1, "none", k2),
   Ask("update_shipment", "split", 0, "delivered", k2),
   Ask("transfer_inventory", "default", 2, "secondary", k3),
   Ask("transfer_inventory", "secondary", 2, "default", k3),
   Unscoped(Ask("transfer_inventory", "default", 1, "secondary", k3)),
   Ask("resolve_backorder", "secondary", 2, "none", k4),
   Ask("update_shipment", "split", 0, "shipped", k4)}

CareCalls ==
  {Ask("update_ticket", "tkt", 1, "closed", k1),
   Ask("update_ticket", "tkt", 1, "in_progress", k2),
   Ask("reopen_ticket", "tkt", 1, "none", k2),
   Ask("escalate", "tkt", 1, "none", k3),
   Ask("expire_promotion", "SAVE10", 0, "none", k3),
   Ask("create_ticket", "ord_900", 0, "none", k4),
   Ask("send_email", "cus_102", 0, "none", k4),
   Ask("disambiguate_customer", "cus_102", 0, "candidate", k4)}

SupplyCalls ==
  {Ask("execute_transfer", "wh_east", 11, "wh_west", k1),
   Ask("execute_transfer", "wh_east", 12, "wh_west", k1),
   Ask("execute_transfer", "wh_east", 10, "wh_west", k2),
   Failing(Ask("execute_transfer", "wh_east", 3, "wh_west", k2)),
   Ask("execute_transfer", "wh_west", 9, "wh_east", k3),
   Ask("execute_transfer", "wh_west", 3, "wh_east", k3),
   Ask("create_purchase_order", "sup_primary", 20, "wh_west", k4),
   Ask("create_purchase_order", "sup_primary", 20, "wh_north", k4),
   Ask("escalate_supplier_delay", "sup_primary", 0, "none", k4)}

ClaimCalls ==
  {Ask("decide_claim", "clm_100", 185, "approve", k1),
   Ask("decide_claim", "clm_100", 550, "approve", k1),
   Ask("decide_claim", "clm_100", 200, "approve", k2),
   Ask("decide_claim", "clm_100", 0, "reject", k2),
   Ask("escalate_investigation", "clm_100", 0, "none", k2),
   Ask("issue_claim_payment", "clm_100", 100, "none", k3),
   Failing(Ask("issue_claim_payment", "clm_100", 85, "none", k3)),
   Foreign(Ask("issue_claim_payment", "clm_100", 85, "none", k4)),
   Ask("issue_claim_payment", "clm_100", 85, "none", k4),
   Ask("request_evidence", "clm_100", 0, "none", k4)}

ClaimNotes ==
  {Ask("add_analyst_note", "clm_101", 0, "none", k1),
   Ask("record_claim_recommendation", "clm_100", 150, "none", k2),
   Ask("flag_claim_for_review", "clm_100", 0, "none", k3),
   Ask("add_adjuster_note", "clm_100", 0, "none", k4)}

CampaignCalls ==
  {Ask("allocate_campaign_budget", "cmp_100", 150, "none", k1),
   Failing(Ask("allocate_campaign_budget", "cmp_100", 8, "none", k1)),
   Ask("allocate_campaign_budget", "cmp_100", 120, "none", k2),
   Ask("allocate_campaign_budget", "cmp_101", 120, "none", k2),
   Ask("launch_campaign", "cmp_100", 0, "none", k3),
   Ask("request_suppression_update", "cmp_100", 0, "none", k3),
   Ask("send_campaign_communication", "cmp_100", 0, "none", k4),
   Ask("escalate_compliance_review", "cmp_100", 0, "none", k4)}

CampaignNotes ==
  {Ask("add_campaign_note", "cmp_100", 0, "none", k1),
   Ask("record_launch_recommendation", "cmp_100", 180, "none", k2),
   Unscoped(Ask("flag_campaign_for_review", "cmp_100", 0, "none", k3)),
   Ask("flag_campaign_for_review", "cmp_101", 0, "none", k3)}

MCOffered(d) ==
  CASE d.scenario = "refunds" -> RefundCalls
    [] d.scenario = "stock" -> StockCalls
    [] d.scenario = "care" -> CareCalls
    [] d.world = "supply" -> SupplyCalls
    [] d.scenario = "uncovered" -> ClaimNotes
    [] d.world = "insurance" -> ClaimCalls
    [] d.scenario = "disordered" -> CampaignNotes
    [] d.world = "marketing" -> CampaignCalls

MCCall == RefundCalls \cup StockCalls \cup CareCalls \cup SupplyCalls \cup ClaimCalls
            \cup ClaimNotes \cup CampaignCalls \cup CampaignNotes

=============================================================================
