-------------------------- MODULE EnterpriseWorlds --------------------------
(***************************************************************************)
(* The four enterprise worlds on the spine they share: ToolWorld with the    *)
(* domain handlers as Effect.  world_registry.py picks the world by name;    *)
(* here the fixture says which one it is.                                    *)
(***************************************************************************)
EXTENDS ToolWorld, Commerce, SupplyChain, Insurance, Marketing, Policies, SequencesExt

\* The state reset builds for a scenario's world and seed.
Build ==
  [refunds |-> CommerceFixture, stock |-> CommerceFixture, care |-> CommerceFixture,
   transfers |-> SupplyFixture,
   adjuster |-> AdjusterFixture, small |-> SmallFixture, over_limit |-> OverLimitFixture,
   glass |-> GlassFixture, approved |-> ApprovedFixture, lapsed |-> LapsedFixture,
   uncovered |-> UncoveredFixture, untimely |-> UntimelyFixture,
   draft |-> DraftFixture, below_fee |-> BelowFeeFixture, over_cap |-> OverCapFixture,
   display |-> DisplayFixture, live |-> LiveFixture, completed |-> CompletedFixture,
   late |-> LateFixture, disordered |-> DisorderedFixture, shared |-> SharedFixture,
   suspended |-> SuspendedFixture]

WorldFixture ==
  {[k \in DOMAIN Build[s] \cup {"scenario"} |-> IF k = "scenario" THEN s ELSE Build[s][k]] :
     s \in DOMAIN Build}

WorldEffect(c, d) ==
  CASE d.world = "commerce" -> CommerceEffect(c, d)
    [] d.world = "supply" -> SupplyEffect(c, d)
    [] d.world = "insurance" -> InsuranceEffect(c, d)
    [] d.world = "marketing" -> MarketingEffect(c, d)

\* Tools whose handlers rely on the Field(gt=0) of their input model.
Quantified == {"issue_refund", "resolve_backorder", "transfer_inventory",
               "issue_claim_payment", "allocate_campaign_budget"}

\* What the input models let through to a handler.
ASSUME RequestAssumption ==
  \A c \in Call : c.n \in Int /\ (c.tool \in Quantified => c.n > 0)

\* json_world.inject raises: only commerce takes injections.
WorldInjected(d) == IF d.world = "commerce" THEN CommerceInjected(d) ELSE {}

-----------------------------------------------------------------------------
(* Readings of the log *)

Seeded == Build[doc.scenario]

EventsOf(types, on) ==
  {i \in DOMAIN log : log[i].event.type \in types /\ log[i].event.on = on}

AmountIn(types, on) == MapThenSumSet(LAMBDA i : log[i].event.n, EventsOf(types, on))

RowsOf(table, on) == {i \in DOMAIN doc.rows : doc.rows[i].table = table /\ doc.rows[i].of = on}
AmountOf(table, on) == MapThenSumSet(LAMBDA i : doc.rows[i].amount, RowsOf(table, on))

\* What the first n events leave of a value that started as from.
Left(types, on, from, n) ==
  FoldLeft(LAMBDA value, e :
             CASE e.type \in types /\ e.on = on -> e.after
               [] e.type \in types /\ e.on # on /\ e.to = on -> value + e.n
               [] OTHER -> value,
           from, [i \in 1..n |-> log[i].event])

\* Each event starts from what its predecessors left, and together they lead
\* from the value at reset to the present one.
Explained(types, on, from, now) ==
  /\ now = Left(types, on, from, Len(log))
  /\ \A i \in EventsOf(types, on) : log[i].event.before = Left(types, on, from, i - 1)

StockEvents == {"inventory.adjusted", "backorder.resolved", "inventory.transferred",
                "inventory.stockout"}
RefundEvents == {"refund.issued", "refund.pending"}
ClaimEvents == {"claim.evidence_requested", "claim.investigation_escalated", "claim.decided"}
CampaignEvents == {"campaign.data_requested", "campaign.compliance_review_escalated",
                   "campaign.launched"}

-----------------------------------------------------------------------------
(* Properties *)

\* Types, and the CHECKs of the commerce schema.
WorldTypeOK ==
  /\ doc.scenario \in DOMAIN Build
  /\ DOMAIN doc = DOMAIN Build[doc.scenario] \cup {"scenario"}
  /\ \A k \in Key : Cardinality(answers[k]) <= 1 /\ \A a \in answers[k] : a.call \in Call
  /\ \A i \in DOMAIN log : log[i].by \subseteq Call /\ Cardinality(log[i].by) <= 1
  /\ Cardinality(tx) <= 1 /\ lost \in 0..MaxLost
  /\ doc.world = "commerce" =>
       /\ \A l \in DOMAIN doc.stock : doc.stock[l].available >= 0 /\ doc.stock[l].reserved >= 0
       /\ \A n \in DOMAIN doc.tickets : doc.tickets[n] \in DOMAIN LegalTicket
       /\ \A s \in DOMAIN doc.shipments : doc.shipments[s] \in DOMAIN LegalShipment

\* The audit log accounts for the state: for stock, refunds, shipments, claims
\* and campaigns the before of every event is the after of the previous one, and
\* the last after is what the state holds.  A write without its event, an event
\* of work rolled back, or a balance read before another write would break it.
EventsExplain ==
  /\ doc.world \in {"commerce", "supply"} =>
       \A l \in DOMAIN doc.stock :
         Explained(StockEvents, l, Seeded.stock[l].available, doc.stock[l].available)
  /\ doc.world = "commerce" =>
       /\ \A o \in DOMAIN doc.orders :
            Explained(RefundEvents, o, Seeded.orders[o].refunded, doc.orders[o].refunded)
       /\ \A s \in DOMAIN doc.shipments :
            Explained({"shipment.updated"}, s, Seeded.shipments[s], doc.shipments[s])
  /\ doc.world = "insurance" =>
       \A x \in DOMAIN doc.claims :
         /\ Explained({"claim.payment_issued"}, x, 0, doc.claims[x].paid)
         /\ Explained(ClaimEvents, x, Seeded.claims[x].status,
                      IF doc.claims[x].status = "paid" THEN "approved" ELSE doc.claims[x].status)
  /\ doc.world = "marketing" =>
       \A x \in DOMAIN doc.campaigns :
         /\ Explained({"campaign.budget_allocated"}, x, 0, doc.campaigns[x].spent)
         /\ doc.campaigns[x].status # "completed" =>
              Explained(CampaignEvents, x, Seeded.campaigns[x].status, doc.campaigns[x].status)

\* Refunds, payments and allocations add up.
RefundsReconcile(o) ==
  LET order == doc.orders[o]
      mine == {i \in DOMAIN doc.refunds : doc.refunds[i].order = o}
  IN  /\ order.refunded = AmountIn(RefundEvents, o)
      /\ order.refunded = MapThenSumSet(LAMBDA i : doc.refunds[i].amount, mine)
      /\ order.refunded <= order.captured
      /\ order.status = "refunded" <=> order.refunded = order.captured /\ mine # {}
      /\ order.status = "partially_refunded" <=> order.refunded \in 1..(order.captured - 1)
      /\ Cardinality({i \in mine : doc.refunds[i].status = "pending"})
           = Cardinality(EventsOf({"refund.pending"}, o))
             - Cardinality(EventsOf({"refund.completed"}, o))

ClaimReconciles(x) ==
  LET claim == doc.claims[x]
  IN  /\ Cardinality(EventsOf({"claim.decided"}, x)) <= 1
      /\ claim.paid = AmountOf("payments", x)
      /\ claim.paid = AmountIn({"claim.payment_issued"}, x)
      /\ claim.paid <= claim.approved
      /\ claim.approved <= claim.requested /\ claim.approved <= doc.limit
      /\ claim.status = "paid" <=> claim.paid = claim.approved /\ claim.paid > 0
      /\ claim.approved > 0 <=> claim.status \in {"approved", "paid"}

CampaignReconciles(x) ==
  LET campaign == doc.campaigns[x]
      allocations == EventsOf({"campaign.budget_allocated"}, x)
      sent == EventsOf({"campaign.communication_sent"}, x)
      launched == EventsOf({"campaign.launched"}, x)
      used == {i \in allocations : campaign.approved > 0
                                    /\ log[i].event.after >= campaign.approved}
  IN  /\ campaign.spent = AmountOf("budget_allocations", x)
      /\ campaign.spent = AmountIn({"campaign.budget_allocated"}, x)
      /\ \A i \in sent : Seeded.campaigns[x].status = "live" \/ \E j \in launched : j < i
      /\ \A i \in used : \A j \in allocations \cup sent : j <= i

\* What the tables, the balances and the audit log say of money agrees.  An
\* order's refunded total is what its refunds add up to in the table and in the
\* log, is never more than was captured, and the order's status says whether
\* nothing, a part or all of it was refunded: a cancelled order was not refunded
\* and is not refunded later.  A claim is decided at most once and never for
\* more than was requested or is covered; its payments add up to what was paid,
\* never more than was approved, and close it when they are all of that.  A
\* campaign's allocations add up to what it spent; nothing is sent before its
\* launch and nothing is sent or allocated once the approved budget is used up.
MoneyReconciles ==
  /\ doc.world = "commerce" => \A o \in DOMAIN doc.orders : RefundsReconcile(o)
  /\ doc.world = "insurance" => \A x \in DOMAIN doc.claims : ClaimReconciles(x)
  /\ doc.world = "marketing" => \A x \in DOMAIN doc.campaigns : CampaignReconciles(x)

\* The rules of policies.py that a handler of commerce enforces
EnforcedPolicies ==
  {"refund_requires_order_owner", "refund_requires_authorized_scope",
   "refund_cannot_exceed_captured_amount", "refund_currency_matches_order",
   "duplicate_refund_forbidden", "inventory_cannot_become_negative",
   "external_content_does_not_grant_authority", "changed_entities_within_customer_scope"}

\* The policies every commerce run is graded by, read from the log alone, hold
\* of every log the handlers can produce, whatever was asked of them: what a
\* handler refuses and what the log records of what it accepts are written in
\* two places.  Two policies are left out since they do fail: no injected event
\* has the key mutation_requires_idempotency_key asks for, and no ticket.updated
\* says resolved, which ticket_closure_requires_resolution asks of a closure.
PoliciesHold ==
  doc.world = "commerce" =>
    \A rule \in EnforcedPolicies : HoldsPolicy(rule, log, Seeded.orders)

\* Transfers only move stock between warehouses, and one that was ever drawn
\* below its stock at reset still has its safety stock free.
TransfersKeepSafetyStock ==
  doc.world = "supply" =>
    LET total(stock) == MapThenSumSet(LAMBDA w : stock[w].available, DOMAIN stock)
    IN  /\ total(doc.stock) = total(Seeded.stock)
        /\ \A w \in DOMAIN doc.stock :
             doc.stock[w].available < Seeded.stock[w].available =>
               Free(doc.stock[w]) >= doc.stock[w].safety

\* What the read-only tools advise, the mutations accept, in every state they
\* can be asked in: a transfer is recommended exactly when execute_transfer
\* allows it (each has a test of its own), an undecided claim can be approved
\* for what the coverage analysis calls payable, and an eligible campaign that
\* is not over can be allocated what the budget exposure calls deployable.
AdviceIsExecutable ==
  /\ doc.world = "supply" =>
       \A w \in DOMAIN doc.stock : \A destination \in DOMAIN doc.stock \ {w} : \A q \in 1..16 :
         w \in Recommended(doc, destination, q) <=> TransferAllowed(doc.stock[w], q)
  /\ doc.world = "insurance" =>
       \A x \in DOMAIN doc.claims :
         LET claim == doc.claims[x]
         IN  claim.status \in Undecided /\ Eligible(doc, claim) =>
               Payable(doc, claim) \in 1..Approvable(doc, claim)
  /\ doc.world = "marketing" =>
       \A x \in DOMAIN doc.campaigns :
         LET campaign == doc.campaigns[x]
         IN  campaign.status \in Unlaunched \cup {"live"} /\ Launchable(doc, campaign) =>
               Deployable(doc, campaign) \in 1..Allocatable(campaign)

\* marketing.py calls a campaign's budgets "strictly bounded" and the rule of
\* allocate_campaign_budget "budget_allocation_within_proposed_budget".
SpentWithinProposed ==
  doc.world = "marketing" =>
    \A x \in DOMAIN doc.campaigns : doc.campaigns[x].spent <= doc.campaigns[x].proposed

=============================================================================
