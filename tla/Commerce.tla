------------------------------ MODULE Commerce ------------------------------
(***************************************************************************)
(* The mutation handlers of the commerce world, postgres_world.py, over the  *)
(* fixture of seeding.py.  Rows are locked FOR UPDATE and every handler runs *)
(* in one transaction under the invoke lock, so a handler is an operator     *)
(* from a request and a state to its possible outcomes.  Where the code      *)
(* checks ownership before it looks up the key, the check reads what never   *)
(* changes, so its place makes no difference.                                *)
(*                                                                           *)
(* on and n name an order and an amount; for a ticket or a refund n is its   *)
(* position in its table.                                                    *)
(***************************************************************************)
EXTENDS WorldCalls

CommerceFixture ==
  [world |-> "commerce",
   orders |-> [ord_900 |-> [status |-> "paid", captured |-> 3, refunded |-> 0],
               ord_cancel |-> [status |-> "pending", captured |-> 0, refunded |-> 0]],
   refunds |-> <<>>,
   shipments |-> [first |-> "delivered", split |-> "pending"],  \* of ord_900
   stock |-> [default |-> [available |-> 2, reserved |-> 0, backorder |-> FALSE],
              secondary |-> [available |-> 0, reserved |-> 1, backorder |-> TRUE]],
   tickets |-> <<"open">>,
   expired |-> {},
   rows |-> <<>>]

ShipmentOrder == [first |-> "ord_900", split |-> "ord_900"]

-----------------------------------------------------------------------------
(* Money *)

RefundableCaptured(o) == o.captured                  \* mutant: earlier refunds forgotten
Refundable(o) == o.captured - o.refunded

IssueRefund(c, d) ==
  LET o == d.orders[c.on]
      refunded == o.refunded + c.n
      status == IF refunded = o.captured THEN "refunded" ELSE "partially_refunded"
      processor == IF c.opt = "pending" THEN "pending" ELSE "succeeded"
  IN  When(/\ c.on \in DOMAIN d.orders /\ OwnerScoped(c)
           /\ c.currency = "USD"
           /\ o.status \in {"paid", "partially_refunded"}
           /\ c.n <= Refundable(o),
           [d EXCEPT !.orders[c.on] = [@ EXCEPT !.refunded = refunded, !.status = status],
                     !.refunds = Append(@, [order |-> c.on, amount |-> c.n,
                                            status |-> processor])],
           Event(IF processor = "pending" THEN "refund.pending" ELSE "refund.issued",
                 c.on, c.n, o.refunded, refunded))

\* The request names a refund and nothing else: the order is that of its row.
CompleteRefund(c, d) ==
  When(/\ c.scoped
       /\ c.n \in DOMAIN d.refunds
       /\ d.refunds[c.n].status = "pending",
       [d EXCEPT !.refunds[c.n].status = "succeeded"],
       Event("refund.completed", d.refunds[c.n].order, c.n, "pending", "succeeded"))

CancelOrder(c, d) ==
  When(/\ c.on \in DOMAIN d.orders /\ OwnerScoped(c)
       /\ d.orders[c.on].status \in {"pending", "paid"}
       /\ \A s \in DOMAIN d.shipments :
            ShipmentOrder[s] = c.on => d.shipments[s] \notin {"shipped", "delivered"},
       [d EXCEPT !.orders[c.on].status = "cancelled"],
       Event("order.cancelled", c.on, 0, d.orders[c.on].status, "cancelled"))

CreateReplacement(c, d) ==
  When(c.on \in DOMAIN d.orders /\ OwnerScoped(c) /\ c.opt = "active product",
       AddRow(d, "replacements", c),
       Event("replacement.created", c.on, c.n, "none", "pending"))

-----------------------------------------------------------------------------
(* Stock *)

\* The row is selected by SKU alone, so with several locations any of them.
\* Where backorders are allowed the handler lets a negative balance pass and
\* the CHECK of the table rejects it.
AdjustInventory(c, d) ==
  UNION {LET available == d.stock[l].available + c.n
         IN  When(c.scoped /\ available >= 0,
                  [d EXCEPT !.stock[l].available = available],
                  Event("inventory.adjusted", l, c.n, d.stock[l].available, available)) :
         l \in DOMAIN d.stock}

ResolveBackorder(c, d) ==
  LET s == d.stock[c.on]
      reserved == IF s.reserved > c.n THEN s.reserved - c.n ELSE 0
  IN  When(c.on \in DOMAIN d.stock /\ c.scoped /\ s.backorder,
           [d EXCEPT !.stock[c.on].available = s.available + c.n,
                     !.stock[c.on].reserved = reserved],
           Event("backorder.resolved", c.on, c.n, s.available, s.available + c.n))

CanMoveBackordered(s, n) == s.backorder \/ s.available >= n   \* mutant
CanMove(s, n) == s.available >= n

\* The event reports the quantity and what each location had, not what it has.
TransferInventory(c, d) ==
  When(/\ c.scoped
       /\ c.on # c.opt /\ {c.on, c.opt} \subseteq DOMAIN d.stock
       /\ CanMove(d.stock[c.on], c.n),
       [d EXCEPT !.stock[c.on].available = @ - c.n, !.stock[c.opt].available = @ + c.n],
       [Event("inventory.transferred", c.on, c.n, d.stock[c.on].available,
              d.stock[c.on].available - c.n) EXCEPT !.to = c.opt])

LegalShipment == [pending |-> {"shipped"}, shipped |-> {"delivered", "lost"},
                  delivered |-> {}, lost |-> {}]

UpdateShipment(c, d) ==
  When(c.on \in DOMAIN d.shipments /\ c.scoped /\ c.opt \in LegalShipment[d.shipments[c.on]],
       [d EXCEPT !.shipments[c.on] = c.opt],
       Event("shipment.updated", c.on, 0, d.shipments[c.on], c.opt))

-----------------------------------------------------------------------------
(* Customer care *)

CreateTicket(c, d) ==
  When(OwnerScoped(c) /\ c.on \in DOMAIN d.orders,
       [d EXCEPT !.tickets = Append(@, "open")],
       Event("ticket.created", c.on, Len(d.tickets) + 1, "none", "open"))

\* domain.validate_ticket_transition
LegalTicket == [open |-> {"in_progress", "escalated", "closed"},
                in_progress |-> {"escalated", "closed"},
                escalated |-> {"in_progress", "closed"},
                closed |-> {}]

SetTicket(c, d, status, type) ==
  When(c.n \in DOMAIN d.tickets,
       [d EXCEPT !.tickets[c.n] = status],
       Event(type, c.on, c.n, d.tickets[c.n], status))

UpdateTicket(c, d) ==
  {r \in SetTicket(c, d, c.opt, "ticket.updated") :
     OwnerScoped(c) /\ c.opt \in LegalTicket[d.tickets[c.n]]}

ReopenTicket(c, d) ==
  {r \in SetTicket(c, d, "open", "ticket.reopened") : c.scoped /\ d.tickets[c.n] = "closed"}

\* escalate sets the status without validate_ticket_transition
Escalate(c, d) ==
  {r \in SetTicket(c, AddRow(d, "escalations", c), "escalated", "ticket.escalated") :
     OwnerScoped(c)}

SendEmail(c, d) ==
  When(OwnerScoped(c), AddRow(d, "emails", c), Event("email.sent", c.on, 0, "none", "sent"))

\* Records a choice among customers that exist; no table changes.
DisambiguateCustomer(c, d) ==
  When(c.scoped /\ c.opt = "candidate", d,
       Event("customer.disambiguated", c.on, 0, "none", "selected"))

ExpirePromotion(c, d) ==
  When(c.scoped, [d EXCEPT !.expired = @ \cup {c.on}],
       Event("promotion.expired", c.on, 0,
             IF c.on \in d.expired THEN "expired" ELSE "none", "expired"))

-----------------------------------------------------------------------------
CommerceEffect(c, d) ==
  CASE c.tool = "issue_refund" -> IssueRefund(c, d)
    [] c.tool = "complete_refund" -> CompleteRefund(c, d)
    [] c.tool = "cancel_order" -> CancelOrder(c, d)
    [] c.tool = "create_replacement" -> CreateReplacement(c, d)
    [] c.tool = "adjust_inventory" -> AdjustInventory(c, d)
    [] c.tool = "resolve_backorder" -> ResolveBackorder(c, d)
    [] c.tool = "transfer_inventory" -> TransferInventory(c, d)
    [] c.tool = "update_shipment" -> UpdateShipment(c, d)
    [] c.tool = "create_ticket" -> CreateTicket(c, d)
    [] c.tool = "update_ticket" -> UpdateTicket(c, d)
    [] c.tool = "reopen_ticket" -> ReopenTicket(c, d)
    [] c.tool = "escalate" -> Escalate(c, d)
    [] c.tool = "send_email" -> SendEmail(c, d)
    [] c.tool = "disambiguate_customer" -> DisambiguateCustomer(c, d)
    [] c.tool = "expire_promotion" -> ExpirePromotion(c, d)
    [] OTHER -> {}                        \* ToolNotFound

CommerceInjectedSilently(d) ==                 \* mutant: the stockout goes unrecorded
  {[doc |-> [d EXCEPT !.stock[l].available = 0], event |-> Event("notice", l, 0, 0, 0)] :
   l \in DOMAIN d.stock}

\* inject: a stockout empties one location, any other event is only recorded.
CommerceInjected(d) ==
  {[doc |-> [d EXCEPT !.stock[l].available = 0],
    event |-> Event("inventory.stockout", l, 0, d.stock[l].available, 0)] :
   l \in DOMAIN d.stock}
  \cup {[doc |-> d, event |-> Event("notice", "scheduled", 0, 0, 0)]}

=============================================================================
