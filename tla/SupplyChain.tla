----------------------------- MODULE SupplyChain -----------------------------
(***************************************************************************)
(* The supply-chain world, supply_chain.py: one SKU at two warehouses, a     *)
(* supplier, and a reorder policy per warehouse of which transfers read the  *)
(* safety stock.  A transfer names its source in on and its destination in   *)
(* opt; the other mutations name the supplier in on, a purchase order its    *)
(* warehouse in opt.                                                         *)
(***************************************************************************)
EXTENDS WorldCalls

\* build_supply_chain_state, seeds 2 (mod 3) and 0 (mod 5)
SupplyFixture ==
  [world |-> "supply",
   supplier |-> [sup_primary |-> "active"],
   stock |-> [wh_west |-> [available |-> 4, reserved |-> 1, safety |-> 3],
              wh_east |-> [available |-> 18, reserved |-> 2, safety |-> 5]],
   rows |-> <<>>]

Free(s) == s.available - s.reserved

\* validate_transfer_policy: the stock must be free, and what remains safe.
IgnoresReserved(s, quantity) == s.available - quantity >= s.safety  \* mutant
TransferAllowed(s, quantity) ==
  /\ quantity > 0
  /\ Free(s) >= quantity
  /\ Free(s) - quantity >= s.safety

ExecuteTransfer(c, d) ==
  When(/\ c.scoped
       /\ c.on # c.opt /\ {c.on, c.opt} \subseteq DOMAIN d.stock
       /\ TransferAllowed(d.stock[c.on], c.n),
       [d EXCEPT !.stock[c.on].available = @ - c.n, !.stock[c.opt].available = @ + c.n],
       [Event("inventory.transferred", c.on, c.n, d.stock[c.on].available,
              d.stock[c.on].available - c.n) EXCEPT !.to = c.opt])

RecommendedIfFree(d, destination, quantity) ==                      \* mutant
  {w \in DOMAIN d.stock \ {destination} : Free(d.stock[w]) >= quantity}

\* recommend_transfer: a read-only tool with a test of its own; the first
\* candidate by warehouse id is answered.
Recommended(d, destination, quantity) ==
  {w \in DOMAIN d.stock \ {destination} : Free(d.stock[w]) - quantity >= d.stock[w].safety}

CreatePurchaseOrder(c, d) ==
  When(/\ c.scoped
       /\ c.on \in DOMAIN d.supplier /\ c.opt \in DOMAIN d.stock
       /\ d.supplier[c.on] # "suspended",
       AddRow(d, "purchase_orders", c),
       Event("purchase_order.created", c.on, c.n, "none", "submitted"))

EscalateSupplierDelay(c, d) ==
  When(c.scoped /\ c.on \in DOMAIN d.supplier,
       AddRow(d, "escalations", c),
       Event("supplier.delay_escalated", c.on, 0, "none", "escalated"))

SupplyEffect(c, d) ==
  CASE c.tool = "execute_transfer" -> ExecuteTransfer(c, d)
    [] c.tool = "create_purchase_order" -> CreatePurchaseOrder(c, d)
    [] c.tool = "escalate_supplier_delay" -> EscalateSupplierDelay(c, d)
    [] OTHER -> {}                        \* ToolNotFound

=============================================================================
