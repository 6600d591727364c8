---------------------------- MODULE WorldsProofs ----------------------------
(***************************************************************************)
(* Machine-checked proofs about EnterpriseWorlds: whatever requests and      *)
(* injections, any number of them, in any order, retried, failed or not      *)
(* heard, the handlers of the four worlds keep their balances, the policies, *)
(* the safety stock, and what their advisers say.                            *)
(***************************************************************************)
EXTENDS EnterpriseWorlds, ToolWorldProofs, FiniteSetTheorems

(***************************************************************************)
(* Shapes                                                                  *)
(***************************************************************************)

\* What a handler leaves of a state whatever it does.
Keeps(d, e) == DOMAIN e = DOMAIN d /\ e.world = d.world /\ e.scenario = d.scenario

Orders == {"ord_900", "ord_cancel"}
Locations == {"default", "secondary"}
Shipments == {"first", "split"}
CommerceFields == {"world", "orders", "refunds", "shipments", "stock", "tickets", "expired",
                   "rows", "scenario"}

OrderStates == {"pending", "paid", "partially_refunded", "refunded", "cancelled"}
Order == [status : OrderStates, captured : Nat, refunded : Int]

\* No order is refunded more than was captured, and its status says how much was.
OrderBalanced(o) ==
  /\ o.refunded \in 0..o.captured
  /\ o.status = "refunded" <=> o.refunded = o.captured /\ o.refunded > 0
  /\ o.status = "partially_refunded" <=> o.refunded \in 1..(o.captured - 1)

Stock == [available : Nat, reserved : Nat, backorder : BOOLEAN]

RefundRow == [order : Orders, amount : Int, status : {"pending", "succeeded"}]

CommerceOK(d) ==
  /\ DOMAIN d = CommerceFields
  /\ d.orders \in [Orders -> Order]
  /\ \A o \in Orders :
       /\ d.orders[o].captured = CommerceFixture.orders[o].captured
       /\ OrderBalanced(d.orders[o])
  /\ d.refunds \in Seq(RefundRow)
  /\ d.stock \in [Locations -> Stock]
  /\ d.tickets \in Seq(DOMAIN LegalTicket)
  /\ d.shipments \in [Shipments -> DOMAIN LegalShipment]

\* What the log says of an event a handler of commerce appends.
CommerceEntryOK(entry) ==
  LET event == entry.event
  IN  /\ event.type = "refund.issued" =>
           /\ event.on \in Orders /\ event.after <= CommerceFixture.orders[event.on].captured
           /\ \E c \in entry.by : c.customer = "owner"
           /\ \E c \in entry.by : c.scoped
           /\ \A c \in entry.by : c.currency = "USD"
      /\ event.type \in NamesOrder => \A c \in entry.by : c.customer = "owner"
      /\ event.type = "inventory.adjusted" => event.after >= 0

CommerceResult(by, d, r) ==
  Keeps(d, r.doc) /\ CommerceOK(r.doc) /\ CommerceEntryOK(Entry(by, r))

(***************************************************************************)
(* Updates                                                                 *)
(***************************************************************************)

\* A handler that does something passed its guard.
LEMMA WhenTakes ==
  ASSUME NEW guard, NEW x, NEW event, NEW r \in When(guard, x, event)
  PROVE  guard /\ r.doc = x /\ r.event = event
  BY DEF When

\* What a handler writes.
PutsOrders(d, e, x) == e = [d EXCEPT !.orders = x]
PutsStock(d, e, x) == e = [d EXCEPT !.stock = x]
PutsTickets(d, e, x) == e = [d EXCEPT !.tickets = x]
PutsShipments(d, e, x) == e = [d EXCEPT !.shipments = x]
PutsRefunds(d, e, x) == e = [d EXCEPT !.refunds = x]
\* What the properties do not look at.
PutsOther(d, e, x) ==
  \/ e = [d EXCEPT !.rows = x]
  \/ e = [d EXCEPT !.expired = x]

LEMMA SetOrders ==
  ASSUME NEW d, DOMAIN d = CommerceFields, NEW x, NEW e, PutsOrders(d, e, x)
  PROVE  /\ Keeps(d, e) /\ e.orders = x
         /\ e.stock = d.stock /\ e.tickets = d.tickets /\ e.shipments = d.shipments
         /\ e.refunds = d.refunds
  BY Zenon DEF CommerceFields, Keeps, PutsOrders

LEMMA SetStock ==
  ASSUME NEW d, DOMAIN d = CommerceFields, NEW x, NEW e, PutsStock(d, e, x)
  PROVE  /\ Keeps(d, e) /\ e.stock = x
         /\ e.orders = d.orders /\ e.tickets = d.tickets /\ e.shipments = d.shipments
         /\ e.refunds = d.refunds
  BY Zenon DEF CommerceFields, Keeps, PutsStock

LEMMA SetTickets ==
  ASSUME NEW d, DOMAIN d = CommerceFields, NEW x, NEW e, PutsTickets(d, e, x)
  PROVE  /\ Keeps(d, e) /\ e.tickets = x
         /\ e.orders = d.orders /\ e.stock = d.stock /\ e.shipments = d.shipments
         /\ e.refunds = d.refunds
  BY Zenon DEF CommerceFields, Keeps, PutsTickets

LEMMA SetShipments ==
  ASSUME NEW d, DOMAIN d = CommerceFields, NEW x, NEW e, PutsShipments(d, e, x)
  PROVE  /\ Keeps(d, e) /\ e.shipments = x
         /\ e.orders = d.orders /\ e.stock = d.stock /\ e.tickets = d.tickets
         /\ e.refunds = d.refunds
  BY Zenon DEF CommerceFields, Keeps, PutsShipments

LEMMA SetRefunds ==
  ASSUME NEW d, DOMAIN d = CommerceFields, NEW x, NEW e, PutsRefunds(d, e, x)
  PROVE  /\ Keeps(d, e) /\ e.refunds = x /\ e.orders = d.orders
         /\ e.stock = d.stock /\ e.tickets = d.tickets /\ e.shipments = d.shipments
  BY Zenon DEF CommerceFields, Keeps, PutsRefunds

LEMMA SetOther ==
  ASSUME NEW d, DOMAIN d = CommerceFields, NEW x, NEW e,
         PutsOther(d, e, x)
  PROVE  /\ Keeps(d, e) /\ e.orders = d.orders
         /\ e.stock = d.stock /\ e.tickets = d.tickets /\ e.shipments = d.shipments
         /\ e.refunds = d.refunds
  <1>1. \/ e = [d EXCEPT !.rows = x]
        \/ e = [d EXCEPT !.expired = x]
    BY Zenon DEF PutsOther
  <1>2. CASE e = [d EXCEPT !.rows = x]
    BY <1>2, Zenon DEF CommerceFields, Keeps
  <1>3. CASE e = [d EXCEPT !.expired = x]
    BY <1>3, Zenon DEF CommerceFields, Keeps
  <1> QED
    BY <1>1, <1>2, <1>3, Zenon

LEMMA RefundsOK ==
  ASSUME NEW d, CommerceOK(d), NEW x \in Seq(RefundRow), NEW e, PutsRefunds(d, e, x)
  PROVE  Keeps(d, e) /\ CommerceOK(e)
  <1>1. DOMAIN d = CommerceFields
    BY DEF CommerceOK
  <1>2. /\ Keeps(d, e) /\ e.refunds = x /\ e.orders = d.orders
        /\ e.stock = d.stock /\ e.tickets = d.tickets /\ e.shipments = d.shipments
    BY <1>1, SetRefunds
  <1> QED
    BY <1>2 DEF CommerceOK, Keeps

LEMMA OtherOK ==
  ASSUME NEW d, CommerceOK(d), NEW x, NEW e,
         PutsOther(d, e, x)
  PROVE  Keeps(d, e) /\ CommerceOK(e)
  <1>1. DOMAIN d = CommerceFields
    BY DEF CommerceOK
  <1>2. /\ Keeps(d, e) /\ e.orders = d.orders
        /\ e.stock = d.stock /\ e.tickets = d.tickets /\ e.shipments = d.shipments
        /\ e.refunds = d.refunds
    BY <1>1, SetOther
  <1> QED
    BY <1>2 DEF CommerceOK, Keeps

LEMMA OrdersOK ==
  ASSUME NEW d, CommerceOK(d), NEW o \in Orders, NEW order \in Order,
         order.captured = d.orders[o].captured, OrderBalanced(order),
         NEW e, PutsOrders(d, e, [d.orders EXCEPT ![o] = order])
  PROVE  Keeps(d, e) /\ CommerceOK(e)
  <1> DEFINE x == [d.orders EXCEPT ![o] = order]
  <1>1. DOMAIN d = CommerceFields
    BY DEF CommerceOK
  <1>2. /\ Keeps(d, e) /\ e.orders = x
        /\ e.stock = d.stock /\ e.tickets = d.tickets /\ e.shipments = d.shipments
        /\ e.refunds = d.refunds
    BY <1>1, SetOrders
  <1>3. /\ x \in [Orders -> Order]
        /\ \A p \in Orders : x[p].captured = d.orders[p].captured /\ OrderBalanced(x[p])
    BY DEF CommerceOK
  <1> HIDE DEF x
  <1> QED
    BY <1>2, <1>3 DEF CommerceOK, Keeps

LEMMA StockOK ==
  ASSUME NEW d, CommerceOK(d), NEW x \in [Locations -> Stock], NEW e, PutsStock(d, e, x)
  PROVE  Keeps(d, e) /\ CommerceOK(e)
  <1>1. DOMAIN d = CommerceFields
    BY DEF CommerceOK
  <1>2. /\ Keeps(d, e) /\ e.stock = x
        /\ e.orders = d.orders /\ e.tickets = d.tickets /\ e.shipments = d.shipments
        /\ e.refunds = d.refunds
    BY <1>1, SetStock
  <1> QED
    BY <1>2 DEF CommerceOK, Keeps

LEMMA TicketsOK ==
  ASSUME NEW d, CommerceOK(d), NEW x \in Seq(DOMAIN LegalTicket), NEW e, PutsTickets(d, e, x)
  PROVE  Keeps(d, e) /\ CommerceOK(e)
  <1>1. DOMAIN d = CommerceFields
    BY DEF CommerceOK
  <1>2. /\ Keeps(d, e) /\ e.tickets = x
        /\ e.orders = d.orders /\ e.stock = d.stock /\ e.shipments = d.shipments
        /\ e.refunds = d.refunds
    BY <1>1, SetTickets
  <1> QED
    BY <1>2 DEF CommerceOK, Keeps

LEMMA ShipmentsOK ==
  ASSUME NEW d, CommerceOK(d), NEW x \in [Shipments -> DOMAIN LegalShipment],
         NEW e, PutsShipments(d, e, x)
  PROVE  Keeps(d, e) /\ CommerceOK(e)
  <1>1. DOMAIN d = CommerceFields
    BY DEF CommerceOK
  <1>2. /\ Keeps(d, e) /\ e.shipments = x
        /\ e.orders = d.orders /\ e.stock = d.stock /\ e.tickets = d.tickets
        /\ e.refunds = d.refunds
    BY <1>1, SetShipments
  <1> QED
    BY <1>2 DEF CommerceOK, Keeps

\* Records
PutsRefunded(o, e, n, s) == e = [o EXCEPT !.refunded = n, !.status = s]
PutsStatus(o, e, s) == e = [o EXCEPT !.status = s]

LEMMA SetRefunded ==
  ASSUME NEW o \in Order, NEW n \in Int, NEW s \in OrderStates, NEW e, PutsRefunded(o, e, n, s)
  PROVE  e \in Order /\ e.captured = o.captured /\ e.refunded = n /\ e.status = s
  BY Zenon DEF Order, PutsRefunded

LEMMA SetOrderStatus ==
  ASSUME NEW o \in Order, NEW s \in OrderStates, NEW e, PutsStatus(o, e, s)
  PROVE  e \in Order /\ e.captured = o.captured /\ e.refunded = o.refunded /\ e.status = s
  BY Zenon DEF Order, PutsStatus

LEMMA StockFields ==
  ASSUME NEW s \in Stock, NEW n \in Nat, NEW m \in Nat
  PROVE  /\ [s EXCEPT !.available = n] \in Stock
         /\ [s EXCEPT !.available = n].available = n
         /\ [s EXCEPT !.reserved = m] \in Stock
  BY Zenon DEF Stock

(***************************************************************************)
(* The handlers of commerce                                                *)
(***************************************************************************)

LEMMA RefundStep ==
  ASSUME NEW c, c.n \in Int, c.n > 0, NEW d, CommerceOK(d), NEW r \in IssueRefund(c, d)
  PROVE  CommerceResult({c}, d, r)
  <1> DEFINE o == d.orders[c.on]
             refunded == o.refunded + c.n
             status == IF refunded = o.captured THEN "refunded" ELSE "partially_refunded"
             processor == IF c.opt = "pending" THEN "pending" ELSE "succeeded"
             type == IF processor = "pending" THEN "refund.pending" ELSE "refund.issued"
             row == [order |-> c.on, amount |-> c.n, status |-> processor]
             guard == /\ c.on \in DOMAIN d.orders /\ OwnerScoped(c)
                      /\ c.currency = "USD"
                      /\ o.status \in {"paid", "partially_refunded"}
                      /\ c.n <= Refundable(o)
             e == [d EXCEPT !.orders[c.on] = [@ EXCEPT !.refunded = refunded, !.status = status],
                            !.refunds = Append(@, row)]
             event == Event(type, c.on, c.n, o.refunded, refunded)
             order == [o EXCEPT !.refunded = refunded, !.status = status]
             d1 == [d EXCEPT !.orders = [d.orders EXCEPT ![c.on] = order]]
             refunds == Append(d.refunds, row)
  <1>1. r \in When(guard, e, event)
    BY Zenon DEF IssueRefund
  <1>2. guard /\ r.doc = e /\ r.event = event
    <2> HIDE DEF guard, e, event
    <2> QED
      BY <1>1, WhenTakes
  <1>3. PutsOrders(d, d1, [d.orders EXCEPT ![c.on] = order]) /\ PutsRefunds(d1, e, refunds)
    BY Zenon DEF PutsOrders, PutsRefunds
  <1>4. /\ c.on \in Orders /\ o \in Order /\ OrderBalanced(o)
        /\ o.captured = CommerceFixture.orders[c.on].captured
    BY <1>2 DEF CommerceOK
  <1>5. refunded \in Int /\ refunded > 0 /\ refunded <= o.captured
    BY <1>2, <1>4 DEF Order, OrderBalanced, Refundable
  <1>6. order \in Order /\ order.captured = d.orders[c.on].captured /\ OrderBalanced(order)
    <2> HIDE DEF refunded, o
    <2>1. /\ status \in OrderStates
          /\ status = "refunded" <=> refunded = o.captured
          /\ status = "partially_refunded" <=> refunded # o.captured
      BY DEF OrderStates
    <2> HIDE DEF status
    <2>2. PutsRefunded(o, order, refunded, status)
      BY Zenon DEF PutsRefunded
    <2> HIDE DEF order
    <2>3. /\ order \in Order /\ order.captured = o.captured
          /\ order.refunded = refunded /\ order.status = status
      BY <1>4, <1>5, <2>1, <2>2, SetRefunded
    <2>4. o.captured \in Nat
      BY <1>4 DEF Order
    <2>5. OrderBalanced(order)
      BY <1>5, <2>1, <2>4, <2>3 DEF OrderBalanced
    <2> QED
      BY <2>3, <2>5 DEF o
  <1>7. Keeps(d, d1) /\ CommerceOK(d1)
    <2> HIDE DEF order, d1
    <2> QED
      BY <1>3, <1>4, <1>6, OrdersOK
  <1>8. Keeps(d1, e) /\ CommerceOK(e)
    <2>1. refunds \in Seq(RefundRow)
      <3>1. row \in RefundRow
        BY <1>4 DEF RefundRow
      <3> HIDE DEF row
      <3> QED
        BY <3>1, AppendProperties DEF CommerceOK
    <2> HIDE DEF d1, refunds, e
    <2> QED
      BY <1>3, <1>7, <2>1, RefundsOK
  <1>9. CommerceEntryOK(Entry({c}, r))
    <2> HIDE DEF e, refunded, o
    <2>1. r.event.type \in {"refund.pending", "refund.issued"} /\ r.event.on = c.on
          /\ r.event.after = refunded
      BY <1>2 DEF Event
    <2>2. Entry({c}, r).event = r.event /\ Entry({c}, r).by = {c}
      BY DEF Entry
    <2>3. c.customer = "owner" /\ c.scoped /\ c.currency = "USD"
      BY <1>2 DEF OwnerScoped
    <2> QED
      BY <1>4, <1>5, <2>1, <2>2, <2>3 DEF CommerceEntryOK
  <1> HIDE DEF d1, e
  <1> QED
    BY <1>2, <1>7, <1>8, <1>9 DEF CommerceResult, Keeps

\* Every other event of commerce: no refund is issued, and what it names is its own.
LEMMA QuietEntry ==
  ASSUME NEW by, NEW r, NEW type, NEW on, NEW n, NEW before, NEW after,
         r.event = Event(type, on, n, before, after),
         type \notin {"refund.issued", "inventory.adjusted"} \cup NamesOrder
  PROVE  CommerceEntryOK(Entry(by, r))
  <1>1. r.event.type = type
    BY DEF Event
  <1>2. Entry(by, r).event = r.event
    BY DEF Entry
  <1> QED
    BY <1>1, <1>2 DEF CommerceEntryOK

\* An event that names an order, of a request of its owner.
LEMMA OwnersEntry ==
  ASSUME NEW c, OwnerScoped(c), NEW r, NEW type, NEW on, NEW n, NEW before, NEW after,
         r.event = Event(type, on, n, before, after),
         type \notin {"refund.issued", "inventory.adjusted"}
  PROVE  CommerceEntryOK(Entry({c}, r))
  <1>1. r.event.type = type
    BY DEF Event
  <1>2. Entry({c}, r).event = r.event /\ Entry({c}, r).by = {c} /\ c.customer = "owner"
    BY DEF Entry, OwnerScoped
  <1> QED
    BY <1>1, <1>2 DEF CommerceEntryOK

\* A row of the refunds table is completed.
LEMMA RefundSucceeds ==
  ASSUME NEW d, CommerceOK(d), NEW k \in DOMAIN d.refunds, NEW row,
         PutsStatus(d.refunds[k], row, "succeeded"),
         NEW refunds, refunds = [d.refunds EXCEPT ![k] = row]
  PROVE  /\ row \in RefundRow /\ row.order = d.refunds[k].order
         /\ row.amount = d.refunds[k].amount /\ row.status = "succeeded"
         /\ refunds \in Seq(RefundRow) /\ DOMAIN refunds = DOMAIN d.refunds
         /\ refunds[k] = row
         /\ \A i \in DOMAIN d.refunds \ {k} : refunds[i] = d.refunds[i]
  <1> DEFINE old == d.refunds
             o == old[k]
  <1>1. old \in Seq(RefundRow)
    BY DEF CommerceOK
  <1>2. o \in RefundRow /\ k \in 1..Len(old) /\ DOMAIN old = 1..Len(old)
    <2> HIDE DEF old
    <2> QED
      BY <1>1 DEF old
  <1> HIDE DEF o
  <1>3. /\ row \in RefundRow /\ row.order = o.order /\ row.amount = o.amount
        /\ row.status = "succeeded"
    BY <1>2, Zenon DEF PutsStatus, RefundRow, o
  <1>4. refunds = [old EXCEPT ![k] = row]
    OBVIOUS
  <1> HIDE DEF old
  <1>5. /\ refunds \in Seq(RefundRow) /\ Len(refunds) = Len(old)
        /\ \A i \in 1..Len(old) : refunds[i] = IF i = k THEN row ELSE old[i]
    <2> DEFINE new == [old EXCEPT ![k] = row]
    <2>1. /\ new \in Seq(RefundRow) /\ Len(new) = Len(old)
          /\ \A i \in 1..Len(old) : new[i] = IF i = k THEN row ELSE old[i]
      BY <1>1, <1>2, <1>3
    <2> QED
      BY <1>4, <2>1, Zenon
  <1>6. DOMAIN refunds = DOMAIN old
    BY <1>2, <1>5
  <1> QED
    BY <1>2, <1>3, <1>5, <1>6 DEF old, o

LEMMA CompleteStep ==
  ASSUME NEW c, NEW d, CommerceOK(d), NEW r \in CompleteRefund(c, d)
  PROVE  CommerceResult({c}, d, r)
  <1> DEFINE guard == /\ c.scoped
                      /\ c.n \in DOMAIN d.refunds
                      /\ d.refunds[c.n].status = "pending"
             e == [d EXCEPT !.refunds[c.n].status = "succeeded"]
             row == [d.refunds[c.n] EXCEPT !.status = "succeeded"]
             refunds == [d.refunds EXCEPT ![c.n] = row]
             event == Event("refund.completed", d.refunds[c.n].order, c.n, "pending", "succeeded")
  <1>1. r \in When(guard, e, event)
    BY Zenon DEF CompleteRefund
  <1>2. PutsRefunds(d, e, refunds) /\ PutsStatus(d.refunds[c.n], row, "succeeded")
    BY Zenon DEF PutsRefunds, PutsStatus
  <1>3. guard /\ r.doc = e /\ r.event = event
    <2> HIDE DEF guard, e, event
    <2> QED
      BY <1>1, WhenTakes
  <1> HIDE DEF row, e
  <1>4. refunds \in Seq(RefundRow)
    BY <1>2, <1>3, RefundSucceeds
  <1> HIDE DEF refunds, guard
  <1> QED
    BY <1>2, <1>3, <1>4, RefundsOK, QuietEntry DEF CommerceResult, NamesOrder

LEMMA CancelOrderStep ==
  ASSUME NEW c, NEW d, CommerceOK(d), NEW r \in CancelOrder(c, d)
  PROVE  CommerceResult({c}, d, r)
  <1> DEFINE o == d.orders[c.on]
             guard == /\ c.on \in DOMAIN d.orders /\ OwnerScoped(c)
                      /\ d.orders[c.on].status \in {"pending", "paid"}
                      /\ \A s \in DOMAIN d.shipments :
                           ShipmentOrder[s] = c.on => d.shipments[s] \notin {"shipped", "delivered"}
             order == [o EXCEPT !.status = "cancelled"]
             e == [d EXCEPT !.orders[c.on].status = "cancelled"]
             event == Event("order.cancelled", c.on, 0, d.orders[c.on].status, "cancelled")
  <1>1. r \in When(guard, e, event)
    BY Zenon DEF CancelOrder
  <1>2. PutsOrders(d, e, [d.orders EXCEPT ![c.on] = order])
    BY Zenon DEF PutsOrders
  <1>3. guard /\ r.doc = e /\ r.event = event
    <2> HIDE DEF guard, e, event
    <2> QED
      BY <1>1, WhenTakes
  <1>4. c.on \in Orders /\ o \in Order /\ OrderBalanced(o) /\ o.status \in {"pending", "paid"}
    BY <1>3 DEF CommerceOK
  <1>5. order \in Order /\ order.captured = o.captured /\ OrderBalanced(order)
    <2> HIDE DEF o
    <2>1. PutsStatus(o, order, "cancelled") /\ "cancelled" \in OrderStates
      BY Zenon DEF PutsStatus, OrderStates
    <2> HIDE DEF order
    <2>2. /\ order \in Order /\ order.captured = o.captured
          /\ order.refunded = o.refunded /\ order.status = "cancelled"
      BY <1>4, <2>1, SetOrderStatus
    <2>3. o.captured \in Nat /\ o.refunded \in Int
      BY <1>4 DEF Order
    <2> QED
      BY <1>4, <2>2, <2>3 DEF OrderBalanced
  <1> HIDE DEF e, order
  <1>6. Keeps(d, e) /\ CommerceOK(e)
    BY <1>2, <1>4, <1>5, OrdersOK
  <1> QED
    BY <1>3, <1>6, QuietEntry DEF CommerceResult, NamesOrder

\* Handlers that append to the tables nobody reads.
LEMMA RowsOK ==
  ASSUME NEW c, NEW d, CommerceOK(d), NEW table, NEW e, e = AddRow(d, table, c)
  PROVE  Keeps(d, e) /\ CommerceOK(e)
  <1>1. \E x : PutsOther(d, e, x)
    BY Zenon DEF PutsOther, AddRow
  <1> QED
    BY <1>1, OtherOK

LEMMA ReplacementStep ==
  ASSUME NEW c, NEW d, CommerceOK(d), NEW r \in CreateReplacement(c, d)
  PROVE  CommerceResult({c}, d, r)
  <1> DEFINE guard == c.on \in DOMAIN d.orders /\ OwnerScoped(c) /\ c.opt = "active product"
             e == AddRow(d, "replacements", c)
             event == Event("replacement.created", c.on, c.n, "none", "pending")
  <1>1. r \in When(guard, e, event)
    BY DEF CreateReplacement
  <1>2. guard /\ r.doc = e /\ r.event = event
    <2> HIDE DEF guard, e, event
    <2> QED
      BY <1>1, WhenTakes
  <1>3. OwnerScoped(c)
    BY <1>2
  <1> HIDE DEF guard
  <1>4. CommerceEntryOK(Entry({c}, r))
    BY <1>2, <1>3, OwnersEntry
  <1> QED
    BY <1>2, <1>4, RowsOK DEF CommerceResult

LEMMA EmailStep ==
  ASSUME NEW c, NEW d, CommerceOK(d), NEW r \in SendEmail(c, d)
  PROVE  CommerceResult({c}, d, r)
  <1> DEFINE e == AddRow(d, "emails", c)
             event == Event("email.sent", c.on, 0, "none", "sent")
  <1>1. r \in When(OwnerScoped(c), e, event)
    BY DEF SendEmail
  <1>2. OwnerScoped(c) /\ r.doc = e /\ r.event = event
    <2> HIDE DEF e, event
    <2> QED
      BY <1>1, WhenTakes
  <1>3. CommerceEntryOK(Entry({c}, r))
    BY <1>2, OwnersEntry
  <1> QED
    BY <1>2, <1>3, RowsOK DEF CommerceResult

LEMMA DisambiguateStep ==
  ASSUME NEW c, NEW d, CommerceOK(d), NEW r \in DisambiguateCustomer(c, d)
  PROVE  CommerceResult({c}, d, r)
  <1>1. r.doc = d /\ r.event = Event("customer.disambiguated", c.on, 0, "none", "selected")
    BY WhenTakes DEF DisambiguateCustomer
  <1> QED
    BY <1>1, QuietEntry DEF CommerceResult, Keeps, NamesOrder

LEMMA PromotionStep ==
  ASSUME NEW c, NEW d, CommerceOK(d), NEW r \in ExpirePromotion(c, d)
  PROVE  CommerceResult({c}, d, r)
  <1> DEFINE e == [d EXCEPT !.expired = @ \cup {c.on}]
             before == IF c.on \in d.expired THEN "expired" ELSE "none"
  <1>1. r \in When(c.scoped, e, Event("promotion.expired", c.on, 0, before, "expired"))
    BY Zenon DEF ExpirePromotion
  <1>2. \E x : PutsOther(d, e, x)
    BY Zenon DEF PutsOther
  <1> HIDE DEF e, before
  <1>3. r.doc = e /\ r.event = Event("promotion.expired", c.on, 0, before, "expired")
    BY <1>1, WhenTakes
  <1> QED
    BY <1>2, <1>3, OtherOK, QuietEntry DEF CommerceResult, NamesOrder

\* Stock
LEMMA AdjustStep ==
  ASSUME NEW c, c.n \in Int, NEW d, CommerceOK(d), NEW r \in AdjustInventory(c, d)
  PROVE  CommerceResult({c}, d, r)
  <1> DEFINE left(l) == d.stock[l].available + c.n
             guard(l) == c.scoped /\ left(l) >= 0
             state(l) == [d EXCEPT !.stock[l].available = left(l)]
             adjusted(l) == Event("inventory.adjusted", l, c.n, d.stock[l].available, left(l))
  <1>1. PICK l \in DOMAIN d.stock : r \in When(guard(l), state(l), adjusted(l))
    BY Zenon DEF AdjustInventory
  <1> DEFINE n == left(l)
             cell == [d.stock[l] EXCEPT !.available = n]
             e == state(l)
             event == adjusted(l)
  <1>2. c.scoped /\ n >= 0 /\ r.doc = e /\ r.event = event
    <2>1. guard(l) /\ r.doc = state(l) /\ r.event = adjusted(l)
      <3> HIDE DEF guard, state, adjusted
      <3> QED
        BY <1>1, WhenTakes
    <2>2. c.scoped /\ left(l) >= 0
      BY <2>1
    <2> HIDE DEF guard, left, state, adjusted
    <2> QED
      BY <2>1, <2>2
  <1>3. PutsStock(d, e, [d.stock EXCEPT ![l] = cell])
    BY Zenon DEF PutsStock
  <1>4. d.stock \in [Locations -> Stock] /\ d.stock[l] \in Stock /\ d.stock[l].available \in Nat
    BY DEF CommerceOK, Stock
  <1>5. n \in Nat
    BY <1>2, <1>4
  <1>6. cell \in Stock
    <2> HIDE DEF n
    <2> QED
      BY <1>4, <1>5, StockFields
  <1> HIDE DEF e, cell
  <1>7. Keeps(d, e) /\ CommerceOK(e)
    BY <1>3, <1>4, <1>6, StockOK
  <1> HIDE DEF state, guard
  <1>8. CommerceEntryOK(Entry({c}, r))
    <2>1. r.event.type = "inventory.adjusted" /\ r.event.after = n
      BY <1>2 DEF Event
    <2>2. Entry({c}, r).event = r.event
      BY DEF Entry
    <2> QED
      BY <1>5, <2>1, <2>2 DEF CommerceEntryOK, NamesOrder
  <1> QED
    BY <1>2, <1>7, <1>8 DEF CommerceResult

LEMMA SetCell ==
  ASSUME NEW stock \in [Locations -> Stock], NEW l \in Locations, NEW cell \in Stock
  PROVE  [stock EXCEPT ![l] = cell] \in [Locations -> Stock]
  OBVIOUS

LEMMA BackorderStep ==
  ASSUME NEW c, c.n \in Int, c.n > 0, NEW d, CommerceOK(d), NEW r \in ResolveBackorder(c, d)
  PROVE  CommerceResult({c}, d, r)
  <1> DEFINE s == d.stock[c.on]
             reserved == IF s.reserved > c.n THEN s.reserved - c.n ELSE 0
             available == s.available + c.n
             guard == c.on \in DOMAIN d.stock /\ c.scoped /\ s.backorder
             cell == [s EXCEPT !.available = available, !.reserved = reserved]
             e == [d EXCEPT !.stock[c.on].available = s.available + c.n,
                            !.stock[c.on].reserved = reserved]
             event == Event("backorder.resolved", c.on, c.n, s.available, s.available + c.n)
             one == [s EXCEPT !.available = available]
             d1 == [d EXCEPT !.stock[c.on].available = available]
  <1>1. r \in When(guard, e, event)
    BY Zenon DEF ResolveBackorder
  <1>2. guard /\ r.doc = e /\ r.event = event
    <2> HIDE DEF guard, e, event
    <2> QED
      BY <1>1, WhenTakes
  <1>3. PutsStock(d, d1, [d.stock EXCEPT ![c.on] = one])
    BY Zenon DEF PutsStock
  <1>4. PutsStock(d1, e, [d1.stock EXCEPT ![c.on] = [d1.stock[c.on] EXCEPT !.reserved = reserved]])
    BY Zenon DEF PutsStock
  <1>5. c.on \in Locations /\ s \in Stock /\ s.available \in Nat /\ s.reserved \in Nat
    BY <1>2 DEF CommerceOK, Stock
  <1>6. available \in Nat /\ reserved \in Nat
    <2> HIDE DEF s
    <2> QED
      BY <1>5
  <1>7. one \in Stock
    <2> HIDE DEF s, available
    <2> QED
      BY <1>5, <1>6, StockFields
  <1>8. Keeps(d, d1) /\ CommerceOK(d1)
    <2>1. d.stock \in [Locations -> Stock]
      BY DEF CommerceOK
    <2> HIDE DEF d1, one
    <2> QED
      BY <1>3, <1>5, <1>7, <2>1, SetCell, StockOK
  <1>9. Keeps(d1, e) /\ CommerceOK(e)
    <2> HIDE DEF d1, e, reserved
    <2>1. d1.stock \in [Locations -> Stock] /\ d1.stock[c.on] \in Stock
      BY <1>5, <1>8 DEF CommerceOK
    <2>2. [d1.stock[c.on] EXCEPT !.reserved = reserved] \in Stock
      BY <1>6, <2>1, StockFields
    <2> QED
      BY <1>4, <1>5, <1>8, <2>1, <2>2, SetCell, StockOK
  <1> HIDE DEF d1, e
  <1>10. CommerceEntryOK(Entry({c}, r))
    BY <1>2, QuietEntry DEF NamesOrder
  <1> QED
    BY <1>2, <1>8, <1>9, <1>10 DEF CommerceResult, Keeps

LEMMA TransferStep ==
  ASSUME NEW c, c.n \in Int, c.n > 0, NEW d, CommerceOK(d), NEW r \in TransferInventory(c, d)
  PROVE  CommerceResult({c}, d, r)
  <1> DEFINE from == d.stock[c.on]
             guard == /\ c.scoped
                      /\ c.on # c.opt /\ {c.on, c.opt} \subseteq DOMAIN d.stock
                      /\ CanMove(d.stock[c.on], c.n)
             less == from.available - c.n
             d1 == [d EXCEPT !.stock[c.on].available = d.stock[c.on].available - c.n]
             more == d.stock[c.opt].available + c.n
             e == [d EXCEPT !.stock[c.on].available = @ - c.n,
                            !.stock[c.opt].available = @ + c.n]
             event == [Event("inventory.transferred", c.on, c.n, d.stock[c.on].available,
                             d.stock[c.on].available - c.n) EXCEPT !.to = c.opt]
  <1>1. r \in When(guard, e, event)
    BY Zenon DEF TransferInventory
  <1>2. guard /\ r.doc = e /\ r.event = event
    <2> HIDE DEF guard, e, event
    <2> QED
      BY <1>1, WhenTakes
  <1>3. PutsStock(d, d1, [d.stock EXCEPT ![c.on] = [d.stock[c.on] EXCEPT !.available = less]])
    BY Zenon DEF PutsStock
  <1>4. PutsStock(d1, e, [d1.stock EXCEPT ![c.opt] = [d1.stock[c.opt] EXCEPT !.available = more]])
    BY Zenon DEF PutsStock
  <1>5. /\ c.on \in Locations /\ c.opt \in Locations
        /\ from \in Stock /\ from.available \in Nat /\ less \in Nat /\ more \in Nat
    <2> DEFINE to == d.stock[c.opt]
    <2>1. d.stock \in [Locations -> Stock]
      BY DEF CommerceOK
    <2>2. c.on \in Locations /\ c.opt \in Locations /\ from.available >= c.n
      BY <1>2, <2>1 DEF CanMove
    <2>3. from \in Stock /\ to \in Stock
      BY <2>1, <2>2
    <2> HIDE DEF from, to
    <2>4. from.available \in Nat /\ to.available \in Nat
      BY <2>3 DEF Stock
    <2>5. less \in Nat /\ to.available + c.n \in Nat
      BY <2>2, <2>4
    <2> QED
      BY <2>2, <2>3, <2>4, <2>5 DEF to
  <1> HIDE DEF d1, e, less, more
  <1>6. Keeps(d, d1) /\ CommerceOK(d1)
    <2>1. d.stock \in [Locations -> Stock] /\ [from EXCEPT !.available = less] \in Stock
      BY <1>5, StockFields DEF CommerceOK
    <2> QED
      BY <1>3, <1>5, <2>1, SetCell, StockOK
  <1>7. Keeps(d1, e) /\ CommerceOK(e)
    <2>1. d1.stock \in [Locations -> Stock] /\ d1.stock[c.opt] \in Stock
      BY <1>5, <1>6 DEF CommerceOK
    <2>2. [d1.stock[c.opt] EXCEPT !.available = more] \in Stock
      BY <1>5, <2>1, StockFields
    <2> QED
      BY <1>4, <1>5, <1>6, <2>1, <2>2, SetCell, StockOK
  <1>8. CommerceEntryOK(Entry({c}, r))
    <2>1. r.event.type = "inventory.transferred"
      BY <1>2 DEF Event
    <2>2. Entry({c}, r).event = r.event
      BY DEF Entry
    <2> QED
      BY <2>1, <2>2 DEF CommerceEntryOK, NamesOrder
  <1> QED
    BY <1>2, <1>6, <1>7, <1>8 DEF CommerceResult, Keeps

LEMMA ShipmentStep ==
  ASSUME NEW c, NEW d, CommerceOK(d), NEW r \in UpdateShipment(c, d)
  PROVE  CommerceResult({c}, d, r)
  <1> DEFINE guard == /\ c.on \in DOMAIN d.shipments /\ c.scoped
                      /\ c.opt \in LegalShipment[d.shipments[c.on]]
             e == [d EXCEPT !.shipments[c.on] = c.opt]
             event == Event("shipment.updated", c.on, 0, d.shipments[c.on], c.opt)
  <1>1. r \in When(guard, e, event)
    BY Zenon DEF UpdateShipment
  <1>2. guard /\ r.doc = e /\ r.event = event
    <2> HIDE DEF guard, e, event
    <2> QED
      BY <1>1, WhenTakes
  <1>3. PutsShipments(d, e, [d.shipments EXCEPT ![c.on] = c.opt])
    BY Zenon DEF PutsShipments
  <1>4. c.on \in Shipments /\ d.shipments \in [Shipments -> DOMAIN LegalShipment]
    BY <1>2 DEF CommerceOK
  <1>5. c.opt \in DOMAIN LegalShipment
    <2>1. \A s \in DOMAIN LegalShipment : LegalShipment[s] \subseteq DOMAIN LegalShipment
      BY DEF LegalShipment
    <2> QED
      BY <1>2, <1>4, <2>1
  <1> HIDE DEF e, guard
  <1>6. Keeps(d, e) /\ CommerceOK(e)
    BY <1>3, <1>4, <1>5, ShipmentsOK
  <1> QED
    BY <1>2, <1>6, QuietEntry DEF CommerceResult, NamesOrder

\* Customer care
LEMMA CreateTicketStep ==
  ASSUME NEW c, NEW d, CommerceOK(d), NEW r \in CreateTicket(c, d)
  PROVE  CommerceResult({c}, d, r)
  <1> DEFINE guard == OwnerScoped(c) /\ c.on \in DOMAIN d.orders
             e == [d EXCEPT !.tickets = Append(@, "open")]
             event == Event("ticket.created", c.on, Len(d.tickets) + 1, "none", "open")
  <1>1. r \in When(guard, e, event)
    BY Zenon DEF CreateTicket
  <1>2. guard /\ r.doc = e /\ r.event = event
    <2> HIDE DEF guard, e, event
    <2> QED
      BY <1>1, WhenTakes
  <1>3. PutsTickets(d, e, Append(d.tickets, "open"))
    BY Zenon DEF PutsTickets
  <1>4. Append(d.tickets, "open") \in Seq(DOMAIN LegalTicket)
    BY DEF CommerceOK, LegalTicket
  <1> HIDE DEF e
  <1>5. Keeps(d, e) /\ CommerceOK(e)
    BY <1>3, <1>4, TicketsOK
  <1> QED
    BY <1>2, <1>5, OwnersEntry DEF CommerceResult

\* Whatever status a ticket is set to, of whatever state.
LEMMA SetTicketOK ==
  ASSUME NEW c, NEW d, CommerceOK(d), NEW status \in DOMAIN LegalTicket,
         NEW type, type \notin {"refund.issued", "inventory.adjusted"} \cup NamesOrder,
         NEW r \in SetTicket(c, d, status, type)
  PROVE  CommerceResult({c}, d, r)
  <1> DEFINE guard == c.n \in DOMAIN d.tickets
             e == [d EXCEPT !.tickets[c.n] = status]
             event == Event(type, c.on, c.n, d.tickets[c.n], status)
  <1>1. r \in When(guard, e, event)
    BY Zenon DEF SetTicket
  <1>2. guard /\ r.doc = e /\ r.event = event
    <2> HIDE DEF guard, e, event
    <2> QED
      BY <1>1, WhenTakes
  <1>3. PutsTickets(d, e, [d.tickets EXCEPT ![c.n] = status])
    BY Zenon DEF PutsTickets
  <1>4. [d.tickets EXCEPT ![c.n] = status] \in Seq(DOMAIN LegalTicket)
    <2>1. d.tickets \in Seq(DOMAIN LegalTicket)
      BY DEF CommerceOK
    <2> QED
      BY <1>2, <2>1
  <1> HIDE DEF e
  <1>5. Keeps(d, e) /\ CommerceOK(e)
    BY <1>3, <1>4, TicketsOK
  <1>6. CommerceEntryOK(Entry({c}, r))
    BY <1>2, QuietEntry
  <1> QED
    BY <1>2, <1>5, <1>6 DEF CommerceResult

LEMMA UpdateTicketStep ==
  ASSUME NEW c, NEW d, CommerceOK(d), NEW r \in UpdateTicket(c, d)
  PROVE  CommerceResult({c}, d, r)
  <1>1. /\ r \in SetTicket(c, d, c.opt, "ticket.updated")
        /\ c.opt \in LegalTicket[d.tickets[c.n]]
    BY Zenon DEF UpdateTicket
  <1>2. c.n \in DOMAIN d.tickets
    <2> DEFINE guard == c.n \in DOMAIN d.tickets
               e == [d EXCEPT !.tickets[c.n] = c.opt]
               event == Event("ticket.updated", c.on, c.n, d.tickets[c.n], c.opt)
    <2>1. r \in When(guard, e, event)
      BY <1>1, Zenon DEF SetTicket
    <2> HIDE DEF guard, e, event
    <2>2. guard
      BY <2>1, WhenTakes
    <2> QED
      BY <2>2 DEF guard
  <1>3. d.tickets[c.n] \in DOMAIN LegalTicket
    BY <1>2 DEF CommerceOK
  <1>4. \A s \in DOMAIN LegalTicket : LegalTicket[s] \subseteq DOMAIN LegalTicket
    BY DEF LegalTicket
  <1>5. c.opt \in DOMAIN LegalTicket
    BY <1>1, <1>3, <1>4
  <1> QED
    BY <1>1, <1>5, SetTicketOK DEF NamesOrder

LEMMA ReopenTicketStep ==
  ASSUME NEW c, NEW d, CommerceOK(d), NEW r \in ReopenTicket(c, d)
  PROVE  CommerceResult({c}, d, r)
  <1>1. r \in SetTicket(c, d, "open", "ticket.reopened")
    BY Zenon DEF ReopenTicket
  <1>2. "open" \in DOMAIN LegalTicket
    BY DEF LegalTicket
  <1> QED
    BY <1>1, <1>2, SetTicketOK DEF NamesOrder

LEMMA EscalateStep ==
  ASSUME NEW c, NEW d, CommerceOK(d), NEW r \in Escalate(c, d)
  PROVE  CommerceResult({c}, d, r)
  <1> DEFINE d1 == AddRow(d, "escalations", c)
  <1>1. r \in SetTicket(c, d1, "escalated", "ticket.escalated")
    BY Zenon DEF Escalate
  <1>2. "escalated" \in DOMAIN LegalTicket
    BY DEF LegalTicket
  <1>3. Keeps(d, d1) /\ CommerceOK(d1)
    BY RowsOK
  <1> HIDE DEF d1
  <1>4. CommerceResult({c}, d1, r)
    BY <1>1, <1>2, <1>3, SetTicketOK DEF NamesOrder
  <1> QED
    BY <1>3, <1>4 DEF CommerceResult, Keeps

\* What a scheduled injection does to commerce.
LEMMA StockoutStep ==
  ASSUME NEW d, CommerceOK(d), NEW r \in CommerceInjected(d)
  PROVE  CommerceResult({}, d, r)
  <1> DEFINE e(l) == [d EXCEPT !.stock[l].available = 0]
             stockout(l) == Event("inventory.stockout", l, 0, d.stock[l].available, 0)
  <1>1. \/ \E l \in DOMAIN d.stock : r = [doc |-> e(l), event |-> stockout(l)]
        \/ r = [doc |-> d, event |-> Event("notice", "scheduled", 0, 0, 0)]
    BY Zenon DEF CommerceInjected
  <1>2. ASSUME NEW l \in DOMAIN d.stock, r = [doc |-> e(l), event |-> stockout(l)]
        PROVE  CommerceResult({}, d, r)
    <2> DEFINE cell == [d.stock[l] EXCEPT !.available = 0]
    <2>1. PutsStock(d, e(l), [d.stock EXCEPT ![l] = cell])
      BY Zenon DEF PutsStock
    <2>2. d.stock \in [Locations -> Stock] /\ l \in Locations /\ cell \in Stock
      <3>1. d.stock \in [Locations -> Stock] /\ l \in Locations /\ 0 \in Nat
        BY DEF CommerceOK
      <3>2. d.stock[l] \in Stock
        BY <3>1
      <3>3. cell \in Stock
        BY <3>1, <3>2, StockFields
      <3> QED
        BY <3>1, <3>3
    <2> HIDE DEF cell
    <2>3. r.doc = e(l) /\ r.event = stockout(l)
      BY <1>2, Zenon
    <2> HIDE DEF e
    <2>4. Keeps(d, e(l)) /\ CommerceOK(e(l))
      BY <2>1, <2>2, SetCell, StockOK
    <2>5. CommerceEntryOK(Entry({}, r))
      BY <2>3, QuietEntry DEF NamesOrder
    <2> QED
      BY <2>3, <2>4, <2>5 DEF CommerceResult
  <1>3. CASE r = [doc |-> d, event |-> Event("notice", "scheduled", 0, 0, 0)]
    <2>1. r.doc = d /\ r.event = Event("notice", "scheduled", 0, 0, 0)
      BY <1>3
    <2>2. CommerceEntryOK(Entry({}, r))
      BY <2>1, QuietEntry DEF NamesOrder
    <2> QED
      BY <2>1, <2>2 DEF CommerceResult, Keeps
  <1> QED
    BY <1>1, <1>2, <1>3

\* Whatever is asked of commerce.
LEMMA CommerceStep ==
  ASSUME NEW c \in Call, NEW d, CommerceOK(d), NEW r \in CommerceEffect(c, d)
  PROVE  CommerceResult({c}, d, r)
  <1>1. c.n \in Int /\ (c.tool \in Quantified => c.n > 0)
    BY RequestAssumption
  <1>2. CASE c.tool = "issue_refund"
    BY <1>1, <1>2, RefundStep DEF CommerceEffect, Quantified
  <1>3. CASE c.tool = "complete_refund"
    BY <1>3, CompleteStep DEF CommerceEffect
  <1>4. CASE c.tool = "cancel_order"
    BY <1>4, CancelOrderStep DEF CommerceEffect
  <1>5. CASE c.tool = "create_replacement"
    BY <1>5, ReplacementStep DEF CommerceEffect
  <1>6. CASE c.tool = "adjust_inventory"
    BY <1>1, <1>6, AdjustStep DEF CommerceEffect
  <1>7. CASE c.tool = "resolve_backorder"
    BY <1>1, <1>7, BackorderStep DEF CommerceEffect, Quantified
  <1>8. CASE c.tool = "transfer_inventory"
    BY <1>1, <1>8, TransferStep DEF CommerceEffect, Quantified
  <1>9. CASE c.tool = "update_shipment"
    BY <1>9, ShipmentStep DEF CommerceEffect
  <1>10. CASE c.tool = "create_ticket"
    BY <1>10, CreateTicketStep DEF CommerceEffect
  <1>11. CASE c.tool = "update_ticket"
    BY <1>11, UpdateTicketStep DEF CommerceEffect
  <1>12. CASE c.tool = "reopen_ticket"
    BY <1>12, ReopenTicketStep DEF CommerceEffect
  <1>13. CASE c.tool = "escalate"
    BY <1>13, EscalateStep DEF CommerceEffect
  <1>14. CASE c.tool = "send_email"
    BY <1>14, EmailStep DEF CommerceEffect
  <1>15. CASE c.tool = "disambiguate_customer"
    BY <1>15, DisambiguateStep DEF CommerceEffect
  <1>16. CASE c.tool = "expire_promotion"
    BY <1>16, PromotionStep DEF CommerceEffect
  <1> QED
    BY <1>2, <1>3, <1>4, <1>5, <1>6, <1>7, <1>8, <1>9, <1>10, <1>11, <1>12, <1>13, <1>14, <1>15,
       <1>16, Zenon DEF CommerceEffect

(***************************************************************************)
(* The handlers of the supply chain                                        *)
(***************************************************************************)

Warehouses == {"wh_west", "wh_east"}
Shelf == [available : Int, reserved : Nat, safety : Nat]
SupplyFields == {"world", "supplier", "stock", "rows", "scenario"}

\* A warehouse drawn below its stock at reset still has its safety stock free.
ShelfSafe(s, seeded) ==
  /\ s.reserved = seeded.reserved /\ s.safety = seeded.safety
  /\ s.available < seeded.available => Free(s) >= s.safety

SupplyOK(d) ==
  /\ DOMAIN d = SupplyFields
  /\ d.stock \in [Warehouses -> Shelf]
  /\ \A w \in Warehouses : ShelfSafe(d.stock[w], SupplyFixture.stock[w])
  /\ d.stock["wh_west"].available + d.stock["wh_east"].available = 22

PutsRows(d, e, x) == e = [d EXCEPT !.rows = x]

LEMMA AddRowPuts ==
  ASSUME NEW d, NEW table, NEW c
  PROVE  \E x : PutsRows(d, AddRow(d, table, c), x)
  BY Zenon DEF PutsRows, AddRow

LEMMA SetSupplyRows ==
  ASSUME NEW d, SupplyOK(d), NEW e, NEW x, PutsRows(d, e, x)
  PROVE  Keeps(d, e) /\ SupplyOK(e)
  <1>1. DOMAIN d = SupplyFields
    BY DEF SupplyOK
  <1>2. Keeps(d, e) /\ e.stock = d.stock
    BY <1>1, Zenon DEF SupplyFields, Keeps, PutsRows
  <1> QED
    BY <1>2 DEF SupplyOK, Keeps

LEMMA SetShelves ==
  ASSUME NEW d, DOMAIN d = SupplyFields, NEW e, NEW x, PutsStock(d, e, x)
  PROVE  Keeps(d, e) /\ e.stock = x
  BY Zenon DEF SupplyFields, Keeps, PutsStock

PutsAvailable(s, e, n) == e = [s EXCEPT !.available = n]

LEMMA SetAvailable ==
  ASSUME NEW s \in Shelf, NEW n \in Int, NEW e, PutsAvailable(s, e, n)
  PROVE  e \in Shelf /\ e.available = n /\ e.reserved = s.reserved /\ e.safety = s.safety
  BY Zenon DEF Shelf, PutsAvailable

LEMMA ExecuteTransferStep ==
  ASSUME NEW c, c.n \in Int, NEW d, SupplyOK(d), NEW r \in ExecuteTransfer(c, d)
  PROVE  Keeps(d, r.doc) /\ SupplyOK(r.doc)
  <1> DEFINE from == d.stock[c.on]
             to == d.stock[c.opt]
             guard == /\ c.scoped
                      /\ c.on # c.opt /\ {c.on, c.opt} \subseteq DOMAIN d.stock
                      /\ TransferAllowed(d.stock[c.on], c.n)
             less == from.available - c.n
             more == to.available + c.n
             d1 == [d EXCEPT !.stock[c.on].available = d.stock[c.on].available - c.n]
             source == [from EXCEPT !.available = less]
             e == [d EXCEPT !.stock[c.on].available = @ - c.n,
                            !.stock[c.opt].available = @ + c.n]
             event == [Event("inventory.transferred", c.on, c.n, d.stock[c.on].available,
                             d.stock[c.on].available - c.n) EXCEPT !.to = c.opt]
  <1>1. r \in When(guard, e, event)
    BY Zenon DEF ExecuteTransfer
  <1>2. guard /\ r.doc = e
    <2> HIDE DEF guard, e, event
    <2> QED
      BY <1>1, WhenTakes
  <1>3. PutsStock(d, d1, [d.stock EXCEPT ![c.on] = source])
    BY Zenon DEF PutsStock
  <1>4. PutsStock(d1, e, [d1.stock EXCEPT ![c.opt] = [d1.stock[c.opt] EXCEPT !.available = more]])
    BY Zenon DEF PutsStock
  <1>5. /\ c.on \in Warehouses /\ c.opt \in Warehouses /\ c.on # c.opt
        /\ from \in Shelf /\ to \in Shelf
        /\ d.stock \in [Warehouses -> Shelf] /\ DOMAIN d = SupplyFields
        /\ TransferAllowed(from, c.n)
    BY <1>2 DEF SupplyOK
  <1>6. /\ less \in Int /\ more \in Int
        /\ from.available \in Int /\ to.available \in Int
        /\ from.reserved \in Nat /\ from.safety \in Nat
        /\ to.reserved \in Nat /\ to.safety \in Nat
    BY <1>5 DEF Shelf
  <1>7. PutsAvailable(from, source, less)
    BY Zenon DEF PutsAvailable
  <1> HIDE DEF d1, e, source
  <1>8. Keeps(d, d1) /\ d1.stock = [d.stock EXCEPT ![c.on] = source]
    BY <1>3, <1>5, SetShelves
  <1>9. /\ source \in Shelf /\ source.available = less
        /\ source.reserved = from.reserved /\ source.safety = from.safety
    BY <1>5, <1>6, <1>7, SetAvailable
  <1>10. d1.stock[c.opt] = to /\ d1.stock[c.on] = source /\ d1.stock \in [Warehouses -> Shelf]
    BY <1>5, <1>8, <1>9
  <1> DEFINE target == [to EXCEPT !.available = more]
  <1>11. Keeps(d1, e) /\ e.stock = [d1.stock EXCEPT ![c.opt] = target]
    <2>1. DOMAIN d1 = SupplyFields
      BY <1>5, <1>8 DEF Keeps
    <2>2. PutsStock(d1, e, [d1.stock EXCEPT ![c.opt] = target])
      BY <1>4, <1>10
    <2> HIDE DEF target
    <2> QED
      BY <2>1, <2>2, SetShelves
  <1>12. PutsAvailable(to, target, more)
    BY Zenon DEF PutsAvailable
  <1> HIDE DEF target
  <1>13. /\ target \in Shelf /\ target.available = more
         /\ target.reserved = to.reserved /\ target.safety = to.safety
    BY <1>5, <1>6, <1>12, SetAvailable
  <1>14. e.stock \in [Warehouses -> Shelf] /\ e.stock[c.on] = source /\ e.stock[c.opt] = target
    BY <1>5, <1>10, <1>11, <1>13
  <1>15. Keeps(d, e)
    BY <1>8, <1>11 DEF Keeps
  <1>16. SupplyFixture.stock[c.on].available \in Int /\ SupplyFixture.stock[c.opt].available \in Int
    BY <1>5 DEF SupplyFixture, Warehouses
  <1> DEFINE on == SupplyFixture.stock[c.on]
             opt == SupplyFixture.stock[c.opt]
  <1>17. ShelfSafe(from, on) /\ ShelfSafe(to, opt)
    BY <1>5 DEF SupplyOK
  <1> HIDE DEF from, to, on, opt
  <1>18. ShelfSafe(source, on)
    BY <1>5, <1>6, <1>9, <1>17 DEF ShelfSafe, Free, TransferAllowed
  <1>19. ShelfSafe(target, opt)
    <2>1. more > to.available
      BY <1>5, <1>6 DEF TransferAllowed
    <2>2. opt.available \in Int
      BY <1>16 DEF opt
    <2> HIDE DEF more
    <2> QED
      BY <1>6, <1>13, <1>17, <2>1, <2>2 DEF ShelfSafe, Free
  <1>20. e.stock["wh_west"].available + e.stock["wh_east"].available = 22
    <2>1. from.available + to.available = 22
      <3>1. d.stock["wh_west"].available + d.stock["wh_east"].available = 22
        BY DEF SupplyOK
      <3>2. \/ from = d.stock["wh_west"] /\ to = d.stock["wh_east"]
            \/ from = d.stock["wh_east"] /\ to = d.stock["wh_west"]
        BY <1>5 DEF from, to, Warehouses
      <3> QED
        BY <1>6, <3>1, <3>2
    <2>2. less + more = from.available + to.available
      BY <1>6
    <2> HIDE DEF less, more
    <2>3. source.available + target.available = 22
      BY <1>9, <1>13, <2>1, <2>2
    <2>4. \/ source = e.stock["wh_west"] /\ target = e.stock["wh_east"]
          \/ source = e.stock["wh_east"] /\ target = e.stock["wh_west"]
      BY <1>5, <1>14 DEF Warehouses
    <2> QED
      BY <1>6, <1>9, <1>13, <2>3, <2>4
  <1>21. \A w \in Warehouses : w = c.on \/ w = c.opt
    BY <1>5 DEF Warehouses
  <1>22. \A w \in Warehouses : ShelfSafe(e.stock[w], SupplyFixture.stock[w])
    BY <1>14, <1>18, <1>19, <1>21 DEF on, opt
  <1>23. SupplyOK(e)
    BY <1>5, <1>14, <1>15, <1>20, <1>22 DEF SupplyOK, Keeps
  <1> QED
    BY <1>2, <1>15, <1>23

\* Whatever is asked of the supply chain.
LEMMA SupplyStep ==
  ASSUME NEW c \in Call, NEW d, SupplyOK(d), NEW r \in SupplyEffect(c, d)
  PROVE  Keeps(d, r.doc) /\ SupplyOK(r.doc)
  <1>1. c.n \in Int
    BY RequestAssumption
  <1>2. CASE c.tool = "execute_transfer"
    BY <1>1, <1>2, ExecuteTransferStep DEF SupplyEffect
  <1>3. CASE c.tool = "create_purchase_order"
    <2>1. r \in CreatePurchaseOrder(c, d)
      BY <1>3 DEF SupplyEffect
    <2>2. r.doc = AddRow(d, "purchase_orders", c)
      <3> DEFINE guard == /\ c.scoped
                          /\ c.on \in DOMAIN d.supplier /\ c.opt \in DOMAIN d.stock
                          /\ d.supplier[c.on] # "suspended"
                 event == Event("purchase_order.created", c.on, c.n, "none", "submitted")
      <3>1. r \in When(guard, AddRow(d, "purchase_orders", c), event)
        BY <2>1 DEF CreatePurchaseOrder
      <3> HIDE DEF guard, event
      <3> QED
        BY <3>1, WhenTakes
    <2> QED
      BY <2>2, AddRowPuts, SetSupplyRows
  <1>4. CASE c.tool = "escalate_supplier_delay"
    <2>1. r \in EscalateSupplierDelay(c, d)
      BY <1>4 DEF SupplyEffect
    <2>2. r.doc = AddRow(d, "escalations", c)
      BY <2>1, WhenTakes DEF EscalateSupplierDelay
    <2> QED
      BY <2>2, AddRowPuts, SetSupplyRows
  <1> QED
    BY <1>2, <1>3, <1>4, Zenon DEF SupplyEffect

(***************************************************************************)
(* The handlers of insurance                                               *)
(***************************************************************************)

LEMMA LeastOf ==
  ASSUME NEW S, S \subseteq Int, NEW m \in S, \A y \in S : m <= y
  PROVE  Min(S) = m
  <1>1. \A x \in S : (\A y \in S : x <= y) => x = m
    OBVIOUS
  <1> QED
    BY <1>1 DEF Min

LEMMA GreatestOf ==
  ASSUME NEW S, S \subseteq Int, NEW m \in S, \A y \in S : m >= y
  PROVE  Max(S) = m
  <1>1. \A x \in S : (\A y \in S : x >= y) => x = m
    OBVIOUS
  <1> QED
    BY <1>1 DEF Max

LEMMA MinOfTwo ==
  ASSUME NEW m \in Int, NEW n \in Int, NEW S, S = {m, n}
  PROVE  /\ Min(S) \in Int /\ Min(S) <= m /\ Min(S) <= n
         /\ Min(S) = m \/ Min(S) = n
  <1>1. CASE m <= n
    <2>1. Min(S) = m
      BY <1>1, LeastOf
    <2> QED
      BY <1>1, <2>1
  <1>2. CASE n <= m
    <2>1. Min(S) = n
      BY <1>2, LeastOf
    <2> QED
      BY <1>2, <2>1
  <1> QED
    BY <1>1, <1>2

ClaimStates == {"open", "evidence_requested", "investigating", "approved", "rejected", "paid"}
ClaimRecord ==
  [status : ClaimStates, requested : Nat, approved : Nat, paid : Nat,
   sublimit : {{}, {100}}, covered : BOOLEAN, timely : BOOLEAN]
InsuranceFields == {"world", "policy", "limit", "deductible", "claims", "rows", "scenario"}

\* A claim is paid for at most what was approved, and is approved for at most
\* what was asked and is covered; its status says which of it happened.
ClaimBalanced(claim) ==
  /\ claim.paid <= claim.approved
  /\ claim.approved <= claim.requested /\ claim.approved <= 500
  /\ claim.status = "paid" <=> claim.paid = claim.approved /\ claim.paid > 0
  /\ claim.approved > 0 <=> claim.status \in {"approved", "paid"}

InsuranceOK(d) ==
  /\ DOMAIN d = InsuranceFields
  /\ d.limit = 500 /\ d.deductible = 50
  /\ d.claims \in [DOMAIN d.claims -> ClaimRecord]
  /\ \A x \in DOMAIN d.claims : ClaimBalanced(d.claims[x])

PutsClaims(d, e, x) == e = [d EXCEPT !.claims = x]

LEMMA SetClaims ==
  ASSUME NEW d, DOMAIN d = InsuranceFields, NEW e, NEW x, PutsClaims(d, e, x)
  PROVE  /\ Keeps(d, e) /\ e.claims = x /\ e.rows = d.rows
         /\ e.limit = d.limit /\ e.deductible = d.deductible
  BY Zenon DEF InsuranceFields, Keeps, PutsClaims

LEMMA SetInsuranceRows ==
  ASSUME NEW d, InsuranceOK(d), NEW e, NEW x, PutsRows(d, e, x)
  PROVE  Keeps(d, e) /\ InsuranceOK(e) /\ e.claims = d.claims
  <1>1. DOMAIN d = InsuranceFields
    BY DEF InsuranceOK
  <1>2. /\ Keeps(d, e) /\ e.claims = d.claims
        /\ e.limit = d.limit /\ e.deductible = d.deductible
    BY <1>1, Zenon DEF InsuranceFields, Keeps, PutsRows
  <1> QED
    BY <1>2 DEF InsuranceOK, Keeps

\* One claim changes, however often it is written.
LEMMA OneClaim ==
  ASSUME NEW d, InsuranceOK(d), NEW x \in DOMAIN d.claims,
         NEW claim \in ClaimRecord, ClaimBalanced(claim),
         NEW e, PutsClaims(d, e, [d.claims EXCEPT ![x] = claim])
  PROVE  Keeps(d, e) /\ InsuranceOK(e)
  <1> DEFINE claims == [d.claims EXCEPT ![x] = claim]
  <1>1. DOMAIN d = InsuranceFields /\ d.claims \in [DOMAIN d.claims -> ClaimRecord]
    BY DEF InsuranceOK
  <1>2. /\ claims \in [DOMAIN claims -> ClaimRecord]
        /\ \A y \in DOMAIN claims : ClaimBalanced(claims[y])
    BY <1>1 DEF InsuranceOK
  <1> HIDE DEF claims
  <1>3. /\ Keeps(d, e) /\ e.claims = claims
        /\ e.limit = d.limit /\ e.deductible = d.deductible
    BY <1>1, SetClaims DEF claims
  <1> QED
    BY <1>2, <1>3 DEF InsuranceOK, Keeps

LEMMA OneClaimTwice ==
  ASSUME NEW d, InsuranceOK(d), NEW x \in DOMAIN d.claims, NEW middle,
         NEW claim \in ClaimRecord, ClaimBalanced(claim),
         NEW d1, PutsClaims(d, d1, [d.claims EXCEPT ![x] = middle]),
         NEW e, PutsClaims(d1, e, [d1.claims EXCEPT ![x] = claim])
  PROVE  Keeps(d, e) /\ InsuranceOK(e)
  <1>1. DOMAIN d = InsuranceFields /\ d.claims \in [DOMAIN d.claims -> ClaimRecord]
    BY DEF InsuranceOK
  <1>2. /\ Keeps(d, d1) /\ d1.claims = [d.claims EXCEPT ![x] = middle]
        /\ d1.limit = d.limit /\ d1.deductible = d.deductible
    BY <1>1, SetClaims
  <1>3. [d1.claims EXCEPT ![x] = claim] = [d.claims EXCEPT ![x] = claim]
    BY <1>1, <1>2
  <1> DEFINE claims == [d.claims EXCEPT ![x] = claim]
  <1>4. /\ claims \in [DOMAIN claims -> ClaimRecord]
        /\ \A y \in DOMAIN claims : ClaimBalanced(claims[y])
    BY <1>1 DEF InsuranceOK
  <1>5. PutsClaims(d1, e, claims) /\ DOMAIN d1 = InsuranceFields
    BY <1>1, <1>2, <1>3 DEF Keeps
  <1> HIDE DEF claims
  <1>6. /\ Keeps(d1, e) /\ e.claims = claims
        /\ e.limit = d1.limit /\ e.deductible = d1.deductible
    BY <1>5, SetClaims
  <1> QED
    BY <1>2, <1>4, <1>6 DEF InsuranceOK, Keeps

PutsApproved(o, e, n) == e = [o EXCEPT !.approved = n]
PutsPaid(o, e, n) == e = [o EXCEPT !.paid = n]

LEMMA SetClaimStatus ==
  ASSUME NEW claim \in ClaimRecord, NEW s \in ClaimStates, NEW e, PutsStatus(claim, e, s)
  PROVE  /\ e \in ClaimRecord /\ e.status = s /\ e.requested = claim.requested
         /\ e.approved = claim.approved /\ e.paid = claim.paid
  BY Zenon DEF ClaimRecord, PutsStatus

LEMMA SetClaimApproved ==
  ASSUME NEW claim \in ClaimRecord, NEW n \in Nat, NEW e, PutsApproved(claim, e, n)
  PROVE  /\ e \in ClaimRecord /\ e.status = claim.status /\ e.requested = claim.requested
         /\ e.approved = n /\ e.paid = claim.paid
  BY Zenon DEF ClaimRecord, PutsApproved

LEMMA SetClaimPaid ==
  ASSUME NEW claim \in ClaimRecord, NEW n \in Nat, NEW e, PutsPaid(claim, e, n)
  PROVE  /\ e \in ClaimRecord /\ e.status = claim.status /\ e.requested = claim.requested
         /\ e.approved = claim.approved /\ e.paid = n
  BY Zenon DEF ClaimRecord, PutsPaid

LEMMA ClaimRowStep ==
  ASSUME NEW c, NEW d, InsuranceOK(d), NEW table, NEW type, NEW r \in ClaimRow(c, d, table, type)
  PROVE  Keeps(d, r.doc) /\ InsuranceOK(r.doc)
  <1>1. r.doc = AddRow(d, table, c)
    BY WhenTakes DEF ClaimRow
  <1> QED
    BY <1>1, AddRowPuts, SetInsuranceRows

LEMMA MoveClaimStep ==
  ASSUME NEW c, NEW d, InsuranceOK(d), NEW from, from \subseteq Undecided,
         NEW to \in {"evidence_requested", "investigating"}, NEW table, NEW type,
         NEW r \in MoveClaim(c, d, from, to, table, type)
  PROVE  Keeps(d, r.doc) /\ InsuranceOK(r.doc)
  <1> DEFINE d1 == AddRow(d, table, c)
             guard == OnClaim(c, d) /\ d.claims[c.on].status \in from
             e == [AddRow(d, table, c) EXCEPT !.claims[c.on].status = to]
             event == Event(type, c.on, 0, d.claims[c.on].status, to)
             claim == [d1.claims[c.on] EXCEPT !.status = to]
  <1>1. r \in When(guard, e, event)
    BY Zenon DEF MoveClaim
  <1>2. guard /\ r.doc = e
    <2> HIDE DEF guard, e, event
    <2> QED
      BY <1>1, WhenTakes
  <1>3. PutsClaims(d1, e, [d1.claims EXCEPT ![c.on] = claim])
    BY Zenon DEF PutsClaims
  <1>4. PutsStatus(d1.claims[c.on], claim, to)
    BY Zenon DEF PutsStatus
  <1>5. c.on \in DOMAIN d.claims /\ d.claims[c.on].status \in Undecided
    BY <1>2 DEF OnClaim
  <1> HIDE DEF d1, e, claim
  <1>6. Keeps(d, d1) /\ InsuranceOK(d1) /\ d1.claims = d.claims
    BY AddRowPuts, SetInsuranceRows DEF d1
  <1> DEFINE old == d1.claims[c.on]
  <1>7. old \in ClaimRecord /\ ClaimBalanced(old) /\ old.status \in Undecided
    BY <1>5, <1>6 DEF InsuranceOK
  <1>8. to \in ClaimStates
    BY DEF ClaimStates
  <1> HIDE DEF old
  <1>9. /\ claim \in ClaimRecord /\ claim.status = to /\ claim.requested = old.requested
        /\ claim.approved = old.approved /\ claim.paid = old.paid
    BY <1>4, <1>7, <1>8, SetClaimStatus DEF old
  <1>10. old.approved \in Nat /\ old.paid \in Nat /\ old.requested \in Nat
    BY <1>7 DEF ClaimRecord
  <1>11. ClaimBalanced(claim)
    BY <1>7, <1>9, <1>10 DEF ClaimBalanced, Undecided
  <1>12. Keeps(d1, e) /\ InsuranceOK(e)
    BY <1>3, <1>5, <1>6, <1>9, <1>11, OneClaim
  <1> QED
    BY <1>2, <1>6, <1>12 DEF Keeps

LEMMA DecideClaimStep ==
  ASSUME NEW c, c.n \in Int, NEW d, InsuranceOK(d), NEW r \in DecideClaim(c, d)
  PROVE  Keeps(d, r.doc) /\ InsuranceOK(r.doc)
  <1> DEFINE old == d.claims[c.on]
             approves == c.opt = "approve"
             status == IF approves THEN "approved" ELSE "rejected"
             approved == IF approves THEN c.n ELSE old.approved
             guard == /\ OnClaim(c, d)
                      /\ old.status \in Undecided
                      /\ IF approves THEN c.n > 0 /\ c.n <= Approvable(d, old) ELSE c.n = 0
             d1 == [d EXCEPT !.claims[c.on].status = status]
             middle == [old EXCEPT !.status = status]
             e == [d EXCEPT !.claims[c.on].status = status,
                            !.claims[c.on].approved = IF approves THEN c.n ELSE @]
             event == Event("claim.decided", c.on, c.n, old.status, status)
             claim == [d1.claims[c.on] EXCEPT !.approved = approved]
  <1>1. r \in When(guard, e, event)
    BY Zenon DEF DecideClaim
  <1>2. guard /\ r.doc = e
    <2> HIDE DEF guard, e, event
    <2> QED
      BY <1>1, WhenTakes
  <1>3. /\ PutsClaims(d, d1, [d.claims EXCEPT ![c.on] = middle])
        /\ PutsClaims(d1, e, [d1.claims EXCEPT ![c.on] = claim])
    BY Zenon DEF PutsClaims
  <1>4. /\ PutsStatus(old, middle, status)
        /\ PutsApproved(d1.claims[c.on], claim, approved)
    BY Zenon DEF PutsStatus, PutsApproved
  <1>5. /\ c.on \in DOMAIN d.claims /\ old.status \in Undecided
        /\ old \in ClaimRecord /\ ClaimBalanced(old)
        /\ approves => c.n > 0 /\ c.n <= Approvable(d, old)
    <2>1. c.on \in DOMAIN d.claims /\ old.status \in Undecided
      BY <1>2 DEF OnClaim
    <2>2. old \in ClaimRecord /\ ClaimBalanced(old)
      BY <2>1 DEF InsuranceOK
    <2>3. approves => c.n > 0 /\ c.n <= Approvable(d, old)
      <3> HIDE DEF old
      <3> QED
        BY <1>2
    <2> QED
      BY <2>1, <2>2, <2>3
  <1> HIDE DEF d1, e, claim, middle
  <1>6. d1.claims = [d.claims EXCEPT ![c.on] = middle] /\ d1.claims[c.on] = middle
    <2>1. DOMAIN d = InsuranceFields
      BY DEF InsuranceOK
    <2>2. d1.claims = [d.claims EXCEPT ![c.on] = middle]
      BY <1>3, <2>1, SetClaims
    <2>3. d.claims \in [DOMAIN d.claims -> ClaimRecord]
      BY DEF InsuranceOK
    <2> QED
      BY <1>5, <2>2, <2>3
  <1> HIDE DEF old
  <1>7. old.approved \in Nat /\ old.paid \in Nat /\ old.requested \in Nat
    BY <1>5 DEF ClaimRecord
  <1>8. old.approved = 0 /\ old.paid = 0
    BY <1>5, <1>7 DEF ClaimBalanced, Undecided
  <1>9. approves => c.n <= old.requested /\ c.n <= 500
    <2>1. d.limit = 500
      BY DEF InsuranceOK
    <2> DEFINE least == Approvable(d, old)
               limit == d.limit
    <2>2. least = Min({old.requested, limit})
      BY DEF Approvable
    <2>3. limit \in Int /\ limit = 500 /\ old.requested \in Int
      BY <1>7, <2>1
    <2> HIDE DEF limit
    <2>4. least \in Int /\ least <= old.requested /\ least <= 500
      BY <2>2, <2>3, MinOfTwo
    <2>5. approves => c.n <= least
      BY <1>5
    <2> HIDE DEF approves, least
    <2> QED
      BY <1>7, <2>4, <2>5
  <1>10. /\ status \in ClaimStates /\ approved \in Nat
         /\ status = "approved" <=> approves
         /\ status = "rejected" <=> ~approves
    BY <1>5, <1>7 DEF ClaimStates
  <1>11. /\ approves => approved = c.n
         /\ ~approves => approved = 0
    BY <1>8
  <1> HIDE DEF status, approved, approves
  <1>12. /\ middle \in ClaimRecord /\ middle.status = status
         /\ middle.requested = old.requested /\ middle.paid = old.paid
    BY <1>4, <1>5, <1>10, SetClaimStatus
  <1>13. /\ claim \in ClaimRecord /\ claim.status = status
         /\ claim.requested = old.requested /\ claim.approved = approved /\ claim.paid = old.paid
    BY <1>4, <1>6, <1>10, <1>12, SetClaimApproved
  <1>14. ClaimBalanced(claim)
    BY <1>5, <1>7, <1>8, <1>9, <1>10, <1>11, <1>13 DEF ClaimBalanced
  <1>15. Keeps(d, e) /\ InsuranceOK(e)
    BY <1>3, <1>5, <1>13, <1>14, OneClaimTwice
  <1> QED
    BY <1>2, <1>15

LEMMA IssuePaymentStep ==
  ASSUME NEW c, c.n \in Int, c.n > 0, NEW d, InsuranceOK(d), NEW r \in IssueClaimPayment(c, d)
  PROVE  Keeps(d, r.doc) /\ InsuranceOK(r.doc)
  <1> DEFINE old == d.claims[c.on]
             paid == old.paid + c.n
             guard == /\ OnClaim(c, d)
                      /\ old.status = "approved"
                      /\ d.policy = "active"
                      /\ c.currency = "USD"
                      /\ c.n <= old.approved - old.paid
             d0 == AddRow(d, "payments", c)
             status == IF paid = old.approved THEN "paid" ELSE d0.claims[c.on].status
             d1 == [d0 EXCEPT !.claims[c.on].paid = paid]
             middle == [d0.claims[c.on] EXCEPT !.paid = paid]
             e == [AddRow(d, "payments", c) EXCEPT
                     !.claims[c.on].paid = paid,
                     !.claims[c.on].status = IF paid = old.approved THEN "paid" ELSE @]
             event == Event("claim.payment_issued", c.on, c.n, old.paid, paid)
             claim == [d1.claims[c.on] EXCEPT !.status = status]
  <1>1. r \in When(guard, e, event)
    BY Zenon DEF IssueClaimPayment
  <1>2. guard /\ r.doc = e
    <2> HIDE DEF guard, e, event
    <2> QED
      BY <1>1, WhenTakes
  <1>3. /\ PutsClaims(d0, d1, [d0.claims EXCEPT ![c.on] = middle])
        /\ PutsClaims(d1, e, [d1.claims EXCEPT ![c.on] = claim])
    BY Zenon DEF PutsClaims
  <1>4. /\ PutsPaid(d0.claims[c.on], middle, paid)
        /\ PutsStatus(d1.claims[c.on], claim, status)
    BY Zenon DEF PutsStatus, PutsPaid
  <1>5. /\ c.on \in DOMAIN d.claims /\ old.status = "approved"
        /\ old \in ClaimRecord /\ ClaimBalanced(old)
        /\ c.n <= old.approved - old.paid
    <2>1. c.on \in DOMAIN d.claims /\ old.status = "approved"
      BY <1>2 DEF OnClaim
    <2>2. old \in ClaimRecord /\ ClaimBalanced(old)
      BY <2>1 DEF InsuranceOK
    <2> QED
      BY <1>2, <2>1, <2>2
  <1> HIDE DEF d0, d1, e, claim, middle
  <1>6. Keeps(d, d0) /\ InsuranceOK(d0) /\ d0.claims = d.claims
    BY AddRowPuts, SetInsuranceRows DEF d0
  <1>7. d1.claims[c.on] = middle
    <2>1. DOMAIN d0 = InsuranceFields
      BY <1>6 DEF InsuranceOK
    <2>2. d1.claims = [d0.claims EXCEPT ![c.on] = middle]
      BY <1>3, <2>1, SetClaims
    <2>3. d0.claims \in [DOMAIN d0.claims -> ClaimRecord]
      BY <1>6 DEF InsuranceOK
    <2> QED
      BY <1>5, <1>6, <2>2, <2>3
  <1>8. d0.claims[c.on] = old
    BY <1>6
  <1> HIDE DEF old
  <1>9. old.approved \in Nat /\ old.paid \in Nat /\ old.requested \in Nat
    BY <1>5 DEF ClaimRecord
  <1>10. paid \in Nat /\ paid > 0 /\ paid <= old.approved
    BY <1>5, <1>9
  <1>11. /\ status \in ClaimStates
         /\ status = "paid" <=> paid = old.approved
         /\ status = "approved" <=> paid # old.approved
    BY <1>5, <1>8 DEF ClaimStates
  <1> HIDE DEF paid, status
  <1>12. /\ middle \in ClaimRecord /\ middle.approved = old.approved
         /\ middle.requested = old.requested /\ middle.paid = paid
    BY <1>4, <1>5, <1>8, <1>10, SetClaimPaid
  <1>13. /\ claim \in ClaimRecord /\ claim.status = status
         /\ claim.requested = old.requested /\ claim.approved = old.approved
         /\ claim.paid = paid
    BY <1>4, <1>7, <1>11, <1>12, SetClaimStatus
  <1>14. ClaimBalanced(claim)
    BY <1>5, <1>9, <1>10, <1>11, <1>13 DEF ClaimBalanced
  <1>15. Keeps(d0, e) /\ InsuranceOK(e)
    BY <1>3, <1>5, <1>6, <1>13, <1>14, OneClaimTwice
  <1> QED
    BY <1>2, <1>6, <1>15 DEF Keeps

\* Whatever is asked of insurance.
LEMMA InsuranceStep ==
  ASSUME NEW c \in Call, NEW d, InsuranceOK(d), NEW r \in InsuranceEffect(c, d)
  PROVE  Keeps(d, r.doc) /\ InsuranceOK(r.doc)
  <1>1. c.n \in Int /\ (c.tool \in Quantified => c.n > 0)
    BY RequestAssumption
  <1>2. CASE c.tool \in {"add_analyst_note", "record_claim_recommendation",
                         "flag_claim_for_review", "add_adjuster_note"}
    <2>1. \E table, type : r \in ClaimRow(c, d, table, type)
      BY <1>2 DEF InsuranceEffect
    <2> QED
      BY <2>1, ClaimRowStep
  <1>3. CASE c.tool \in {"request_evidence", "escalate_investigation"}
    <2>1. \/ r \in MoveClaim(c, d, {"open", "investigating"}, "evidence_requested",
                             "documents", "claim.evidence_requested")
          \/ r \in MoveClaim(c, d, Undecided, "investigating",
                             "investigations", "claim.investigation_escalated")
      BY <1>3 DEF InsuranceEffect
    <2>2. {"open", "investigating"} \subseteq Undecided
      BY DEF Undecided
    <2> QED
      BY <2>1, <2>2, MoveClaimStep
  <1>4. CASE c.tool = "decide_claim"
    BY <1>1, <1>4, DecideClaimStep DEF InsuranceEffect
  <1>5. CASE c.tool = "issue_claim_payment"
    BY <1>1, <1>5, IssuePaymentStep DEF InsuranceEffect, Quantified
  <1> QED
    BY <1>2, <1>3, <1>4, <1>5, Zenon DEF InsuranceEffect

(***************************************************************************)
(* The handlers of marketing                                               *)
(***************************************************************************)

CampaignStates == Unlaunched \cup {"live", "completed"}
CampaignRecord ==
  [status : CampaignStates, proposed : Nat, spent : Nat, approved : Nat,
   segment : {"seg_paid_social", "seg_paid_social_prior"}, subcap : {{}, {100}},
   activated : BOOLEAN, timely : BOOLEAN]
MarketingFields ==
  {"world", "advertiser", "segments", "cap", "fee", "campaigns", "rows", "scenario"}

\* A campaign that used up what was approved is over.
CampaignBalanced(campaign) == UsedUp(campaign, campaign.spent) => campaign.status = "completed"

MarketingOK(d) ==
  /\ DOMAIN d = MarketingFields
  /\ d.cap = 500 /\ d.fee = 20
  /\ d.campaigns \in [DOMAIN d.campaigns -> CampaignRecord]
  /\ \A x \in DOMAIN d.campaigns : CampaignBalanced(d.campaigns[x])

PutsCampaigns(d, e, x) == e = [d EXCEPT !.campaigns = x]

LEMMA SetCampaigns ==
  ASSUME NEW d, DOMAIN d = MarketingFields, NEW e, NEW x, PutsCampaigns(d, e, x)
  PROVE  /\ Keeps(d, e) /\ e.campaigns = x /\ e.rows = d.rows
         /\ e.cap = d.cap /\ e.fee = d.fee
  BY Zenon DEF MarketingFields, Keeps, PutsCampaigns

LEMMA SetMarketingRows ==
  ASSUME NEW d, MarketingOK(d), NEW e, NEW x, PutsRows(d, e, x)
  PROVE  Keeps(d, e) /\ MarketingOK(e) /\ e.campaigns = d.campaigns
  <1>1. DOMAIN d = MarketingFields
    BY DEF MarketingOK
  <1>2. /\ Keeps(d, e) /\ e.campaigns = d.campaigns
        /\ e.cap = d.cap /\ e.fee = d.fee
    BY <1>1, Zenon DEF MarketingFields, Keeps, PutsRows
  <1> QED
    BY <1>2 DEF MarketingOK, Keeps

LEMMA OneCampaign ==
  ASSUME NEW d, MarketingOK(d), NEW x \in DOMAIN d.campaigns,
         NEW campaign \in CampaignRecord, CampaignBalanced(campaign),
         NEW e, PutsCampaigns(d, e, [d.campaigns EXCEPT ![x] = campaign])
  PROVE  Keeps(d, e) /\ MarketingOK(e)
  <1> DEFINE campaigns == [d.campaigns EXCEPT ![x] = campaign]
  <1>1. DOMAIN d = MarketingFields /\ d.campaigns \in [DOMAIN d.campaigns -> CampaignRecord]
    BY DEF MarketingOK
  <1>2. /\ campaigns \in [DOMAIN campaigns -> CampaignRecord]
        /\ \A y \in DOMAIN campaigns : CampaignBalanced(campaigns[y])
    BY <1>1 DEF MarketingOK
  <1> HIDE DEF campaigns
  <1>3. /\ Keeps(d, e) /\ e.campaigns = campaigns
        /\ e.cap = d.cap /\ e.fee = d.fee
    BY <1>1, SetCampaigns DEF campaigns
  <1> QED
    BY <1>2, <1>3 DEF MarketingOK, Keeps

LEMMA OneCampaignTwice ==
  ASSUME NEW d, MarketingOK(d), NEW x \in DOMAIN d.campaigns, NEW middle,
         NEW campaign \in CampaignRecord, CampaignBalanced(campaign),
         NEW d1, PutsCampaigns(d, d1, [d.campaigns EXCEPT ![x] = middle]),
         NEW e, PutsCampaigns(d1, e, [d1.campaigns EXCEPT ![x] = campaign])
  PROVE  Keeps(d, e) /\ MarketingOK(e)
  <1>1. DOMAIN d = MarketingFields /\ d.campaigns \in [DOMAIN d.campaigns -> CampaignRecord]
    BY DEF MarketingOK
  <1>2. /\ Keeps(d, d1) /\ d1.campaigns = [d.campaigns EXCEPT ![x] = middle]
        /\ d1.cap = d.cap /\ d1.fee = d.fee
    BY <1>1, SetCampaigns
  <1>3. [d1.campaigns EXCEPT ![x] = campaign] = [d.campaigns EXCEPT ![x] = campaign]
    BY <1>1, <1>2
  <1> DEFINE campaigns == [d.campaigns EXCEPT ![x] = campaign]
  <1>4. /\ campaigns \in [DOMAIN campaigns -> CampaignRecord]
        /\ \A y \in DOMAIN campaigns : CampaignBalanced(campaigns[y])
    BY <1>1 DEF MarketingOK
  <1>5. PutsCampaigns(d1, e, campaigns) /\ DOMAIN d1 = MarketingFields
    BY <1>1, <1>2, <1>3 DEF Keeps
  <1> HIDE DEF campaigns
  <1>6. /\ Keeps(d1, e) /\ e.campaigns = campaigns
        /\ e.cap = d1.cap /\ e.fee = d1.fee
    BY <1>5, SetCampaigns
  <1> QED
    BY <1>2, <1>4, <1>6 DEF MarketingOK, Keeps

PutsSpent(o, e, n) == e = [o EXCEPT !.spent = n]

LEMMA SetCampaignStatus ==
  ASSUME NEW campaign \in CampaignRecord, NEW s \in CampaignStates,
         NEW e, PutsStatus(campaign, e, s)
  PROVE  /\ e \in CampaignRecord /\ e.status = s
         /\ e.approved = campaign.approved /\ e.spent = campaign.spent
  BY Zenon DEF CampaignRecord, PutsStatus

LEMMA SetSpent ==
  ASSUME NEW campaign \in CampaignRecord, NEW n \in Nat, NEW e, PutsSpent(campaign, e, n)
  PROVE  /\ e \in CampaignRecord /\ e.status = campaign.status
         /\ e.approved = campaign.approved /\ e.spent = n
  BY Zenon DEF CampaignRecord, PutsSpent

LEMMA CampaignRowStep ==
  ASSUME NEW c, NEW d, MarketingOK(d), NEW table, NEW type,
         NEW r \in CampaignRow(c, d, table, type)
  PROVE  Keeps(d, r.doc) /\ MarketingOK(r.doc)
  <1>1. r.doc = AddRow(d, table, c)
    BY WhenTakes DEF CampaignRow
  <1> QED
    BY <1>1, AddRowPuts, SetMarketingRows

LEMMA SendStep ==
  ASSUME NEW c, NEW d, MarketingOK(d), NEW r \in SendCommunication(c, d)
  PROVE  Keeps(d, r.doc) /\ MarketingOK(r.doc)
  <1> DEFINE guard == OnCampaign(c, d) /\ d.campaigns[c.on].status = "live"
             event == Event("campaign.communication_sent", c.on, 0, "none", "sent")
  <1>1. r \in When(guard, AddRow(d, "communications", c), event)
    BY DEF SendCommunication
  <1> HIDE DEF guard, event
  <1>2. r.doc = AddRow(d, "communications", c)
    BY <1>1, WhenTakes
  <1> QED
    BY <1>2, AddRowPuts, SetMarketingRows

LEMMA MoveCampaignStep ==
  ASSUME NEW c, NEW d, MarketingOK(d), NEW from, from \subseteq Unlaunched,
         NEW to \in CampaignStates, NEW table, NEW type,
         NEW r \in MoveCampaign(c, d, from, to, table, type)
  PROVE  Keeps(d, r.doc) /\ MarketingOK(r.doc)
  <1> DEFINE d1 == AddRow(d, table, c)
             guard == OnCampaign(c, d) /\ d.campaigns[c.on].status \in from
             e == [AddRow(d, table, c) EXCEPT !.campaigns[c.on].status = to]
             event == Event(type, c.on, 0, d.campaigns[c.on].status, to)
             campaign == [d1.campaigns[c.on] EXCEPT !.status = to]
  <1>1. r \in When(guard, e, event)
    BY Zenon DEF MoveCampaign
  <1>2. guard /\ r.doc = e
    <2> HIDE DEF guard, e, event
    <2> QED
      BY <1>1, WhenTakes
  <1>3. PutsCampaigns(d1, e, [d1.campaigns EXCEPT ![c.on] = campaign])
    BY Zenon DEF PutsCampaigns
  <1>4. PutsStatus(d1.campaigns[c.on], campaign, to)
    BY Zenon DEF PutsStatus
  <1>5. c.on \in DOMAIN d.campaigns /\ d.campaigns[c.on].status \in Unlaunched
    BY <1>2 DEF OnCampaign
  <1> HIDE DEF d1, e, campaign
  <1>6. Keeps(d, d1) /\ MarketingOK(d1) /\ d1.campaigns = d.campaigns
    BY AddRowPuts, SetMarketingRows DEF d1
  <1> DEFINE old == d1.campaigns[c.on]
  <1>7. old \in CampaignRecord /\ CampaignBalanced(old) /\ old.status \in Unlaunched
    BY <1>5, <1>6 DEF MarketingOK
  <1> HIDE DEF old
  <1>8. /\ campaign \in CampaignRecord
        /\ campaign.approved = old.approved /\ campaign.spent = old.spent
    BY <1>4, <1>7, SetCampaignStatus DEF old
  <1>9. CampaignBalanced(campaign)
    BY <1>7, <1>8 DEF CampaignBalanced, UsedUp, Unlaunched
  <1>10. Keeps(d1, e) /\ MarketingOK(e)
    BY <1>3, <1>5, <1>6, <1>8, <1>9, OneCampaign
  <1> QED
    BY <1>2, <1>6, <1>10 DEF Keeps

LEMMA AllocateStep ==
  ASSUME NEW c, c.n \in Int, c.n > 0, NEW d, MarketingOK(d), NEW r \in AllocateBudget(c, d)
  PROVE  Keeps(d, r.doc) /\ MarketingOK(r.doc)
  <1> DEFINE old == d.campaigns[c.on]
             spent == old.spent + c.n
             guard == /\ OnCampaign(c, d)
                      /\ old.status \in Unlaunched \cup {"live"}
                      /\ old.segment \in d.segments
                      /\ d.advertiser = "active"
                      /\ c.currency = "USD"
                      /\ c.n <= Allocatable(old)
             d0 == AddRow(d, "budget_allocations", c)
             status == IF UsedUp(old, spent) THEN "completed" ELSE d0.campaigns[c.on].status
             d1 == [d0 EXCEPT !.campaigns[c.on].spent = spent]
             middle == [d0.campaigns[c.on] EXCEPT !.spent = spent]
             e == [AddRow(d, "budget_allocations", c) EXCEPT
                     !.campaigns[c.on].spent = spent,
                     !.campaigns[c.on].status = IF UsedUp(old, spent) THEN "completed" ELSE @]
             event == Event("campaign.budget_allocated", c.on, c.n, old.spent, spent)
             campaign == [d1.campaigns[c.on] EXCEPT !.status = status]
  <1>1. r \in When(guard, e, event)
    BY Zenon DEF AllocateBudget
  <1>2. guard /\ r.doc = e
    <2> HIDE DEF guard, e, event
    <2> QED
      BY <1>1, WhenTakes
  <1>3. /\ PutsCampaigns(d0, d1, [d0.campaigns EXCEPT ![c.on] = middle])
        /\ PutsCampaigns(d1, e, [d1.campaigns EXCEPT ![c.on] = campaign])
    BY Zenon DEF PutsCampaigns
  <1>4. /\ PutsSpent(d0.campaigns[c.on], middle, spent)
        /\ PutsStatus(d1.campaigns[c.on], campaign, status)
    BY Zenon DEF PutsStatus, PutsSpent
  <1>5. c.on \in DOMAIN d.campaigns /\ old \in CampaignRecord
    BY <1>2 DEF OnCampaign, MarketingOK
  <1> HIDE DEF d0, d1, e, campaign, middle
  <1>6. Keeps(d, d0) /\ MarketingOK(d0) /\ d0.campaigns = d.campaigns
    BY AddRowPuts, SetMarketingRows DEF d0
  <1>7. d1.campaigns[c.on] = middle
    <2>1. DOMAIN d0 = MarketingFields
      BY <1>6 DEF MarketingOK
    <2>2. d1.campaigns = [d0.campaigns EXCEPT ![c.on] = middle]
      BY <1>3, <2>1, SetCampaigns
    <2>3. d0.campaigns \in [DOMAIN d0.campaigns -> CampaignRecord]
      BY <1>6 DEF MarketingOK
    <2> QED
      BY <1>5, <1>6, <2>2, <2>3
  <1>8. d0.campaigns[c.on] = old
    BY <1>6
  <1> HIDE DEF old
  <1>9. spent \in Nat
    <2>1. old.spent \in Nat
      BY <1>5 DEF CampaignRecord
    <2> QED
      BY <2>1
  <1> HIDE DEF spent
  <1>10. status \in CampaignStates /\ (UsedUp(old, spent) => status = "completed")
    <2>1. old.status \in CampaignStates
      BY <1>5 DEF CampaignRecord
    <2> QED
      BY <1>8, <2>1 DEF CampaignStates
  <1> HIDE DEF status
  <1>11. middle \in CampaignRecord /\ middle.approved = old.approved /\ middle.spent = spent
    BY <1>4, <1>5, <1>8, <1>9, SetSpent
  <1>12. /\ campaign \in CampaignRecord /\ campaign.status = status
         /\ campaign.approved = old.approved /\ campaign.spent = spent
    BY <1>4, <1>7, <1>10, <1>11, SetCampaignStatus
  <1>13. CampaignBalanced(campaign)
    BY <1>10, <1>12 DEF CampaignBalanced, UsedUp
  <1>14. Keeps(d0, e) /\ MarketingOK(e)
    BY <1>3, <1>5, <1>6, <1>12, <1>13, OneCampaignTwice
  <1> QED
    BY <1>2, <1>6, <1>14 DEF Keeps

\* Whatever is asked of marketing.
LEMMA MarketingStep ==
  ASSUME NEW c \in Call, NEW d, MarketingOK(d), NEW r \in MarketingEffect(c, d)
  PROVE  Keeps(d, r.doc) /\ MarketingOK(r.doc)
  <1>1. c.n \in Int /\ (c.tool \in Quantified => c.n > 0)
    BY RequestAssumption
  <1>2. CASE c.tool \in {"add_campaign_note", "record_launch_recommendation",
                         "flag_campaign_for_review"}
    <2>1. \E table, type : r \in CampaignRow(c, d, table, type)
      BY <1>2 DEF MarketingEffect
    <2> QED
      BY <2>1, CampaignRowStep
  <1>3. CASE c.tool \in {"request_suppression_update", "escalate_compliance_review",
                         "launch_campaign"}
    <2>1. \/ r \in MoveCampaign(c, d, {"draft", "under_review"}, "data_requested",
                                "documents", "campaign.data_requested")
          \/ r \in MoveCampaign(c, d, Unlaunched, "under_review",
                                "compliance_reviews", "campaign.compliance_review_escalated")
          \/ r \in MoveCampaign(c, d, Unlaunched, "live", "launches", "campaign.launched")
      BY <1>3 DEF MarketingEffect
    <2>2. /\ {"draft", "under_review"} \subseteq Unlaunched
          /\ {"data_requested", "under_review", "live"} \subseteq CampaignStates
      BY DEF Unlaunched, CampaignStates
    <2> QED
      BY <2>1, <2>2, MoveCampaignStep
  <1>4. CASE c.tool = "send_campaign_communication"
    BY <1>4, SendStep DEF MarketingEffect
  <1>5. CASE c.tool = "allocate_campaign_budget"
    BY <1>1, <1>5, AllocateStep DEF MarketingEffect, Quantified
  <1> QED
    BY <1>2, <1>3, <1>4, <1>5, Zenon DEF MarketingEffect

(***************************************************************************)
(* The fixtures                                                            *)
(***************************************************************************)

\* A claim as reset seeds it.
SeedClaim(claim) == claim \in ClaimRecord /\ ClaimBalanced(claim) /\ claim.paid = 0

LEMMA SeedClaimVariants ==
  ASSUME NEW claim, SeedClaim(claim), NEW e,
         \/ e = [claim EXCEPT !.covered = FALSE]
         \/ e = [claim EXCEPT !.timely = FALSE]
         \/ e = [claim EXCEPT !.sublimit = {100}]
  PROVE  SeedClaim(e)
  <1>1. claim \in ClaimRecord
    BY DEF SeedClaim
  <1> DEFINE Same == /\ e \in ClaimRecord /\ e.status = claim.status
                     /\ e.requested = claim.requested /\ e.approved = claim.approved
                     /\ e.paid = claim.paid
  <1>2. CASE e = [claim EXCEPT !.covered = FALSE]
    <2>1. Same
      BY <1>1, <1>2, Zenon DEF ClaimRecord
    <2> QED
      BY <2>1 DEF SeedClaim, ClaimBalanced
  <1>3. CASE e = [claim EXCEPT !.timely = FALSE]
    <2>1. Same
      BY <1>1, <1>3, Zenon DEF ClaimRecord
    <2> QED
      BY <2>1 DEF SeedClaim, ClaimBalanced
  <1>4. CASE e = [claim EXCEPT !.sublimit = {100}]
    <2>1. Same
      BY <1>1, <1>4, Zenon DEF ClaimRecord
    <2> QED
      BY <2>1 DEF SeedClaim, ClaimBalanced
  <1> QED
    BY <1>2, <1>3, <1>4, Zenon

LEMMA SeededClaims ==
  /\ \A n \in {20, 130, 185, 200, 600} : SeedClaim(Claim("open", n, 0))
  /\ SeedClaim(PriorClaim)
  /\ SeedClaim([Claim("open", 130, 0) EXCEPT !.sublimit = {100}])
  /\ SeedClaim([Claim("open", 200, 0) EXCEPT !.covered = FALSE])
  /\ SeedClaim([Claim("open", 200, 0) EXCEPT !.timely = FALSE])
  /\ SeedClaim(Claim("approved", 200, Min({200, 500})))
  <1>1. ASSUME NEW n \in {20, 130, 185, 200, 600}
        PROVE  SeedClaim(Claim("open", n, 0))
    BY DEF SeedClaim, Claim, ClaimRecord, ClaimStates, ClaimBalanced
  <1>2. /\ SeedClaim(Claim("open", 185, 0)) /\ SeedClaim(Claim("open", 130, 0))
        /\ SeedClaim(Claim("open", 200, 0))
    BY <1>1
  <1>3. SeedClaim(PriorClaim)
    BY <1>2, SeedClaimVariants, Zenon DEF PriorClaim
  <1>4. /\ SeedClaim([Claim("open", 130, 0) EXCEPT !.sublimit = {100}])
        /\ SeedClaim([Claim("open", 200, 0) EXCEPT !.covered = FALSE])
        /\ SeedClaim([Claim("open", 200, 0) EXCEPT !.timely = FALSE])
    BY <1>2, SeedClaimVariants, Zenon
  <1>5. SeedClaim(Claim("approved", 200, Min({200, 500})))
    <2>1. Min({200, 500}) = 200
      BY LeastOf
    <2>2. SeedClaim(Claim("approved", 200, 200))
      BY DEF SeedClaim, Claim, ClaimRecord, ClaimStates, ClaimBalanced
    <2> QED
      BY <2>1, <2>2
  <1> QED
    BY <1>1, <1>3, <1>4, <1>5

\* A campaign as reset seeds it.
SeedCampaign(campaign) ==
  campaign \in CampaignRecord /\ CampaignBalanced(campaign) /\ campaign.spent = 0

LEMMA SeedCampaignVariants ==
  ASSUME NEW campaign, SeedCampaign(campaign), NEW e,
         \/ e = [campaign EXCEPT !.activated = FALSE]
         \/ e = [campaign EXCEPT !.timely = FALSE]
         \/ e = [campaign EXCEPT !.subcap = {100}]
         \/ e = [campaign EXCEPT !.segment = "seg_paid_social_prior"]
  PROVE  SeedCampaign(e)
  <1>1. campaign \in CampaignRecord
    BY DEF SeedCampaign
  <1> DEFINE Same == /\ e \in CampaignRecord /\ e.status = campaign.status
                     /\ e.approved = campaign.approved /\ e.spent = campaign.spent
  <1>2. CASE e = [campaign EXCEPT !.activated = FALSE]
    <2>1. Same
      BY <1>1, <1>2, Zenon DEF CampaignRecord
    <2> QED
      BY <2>1 DEF SeedCampaign, CampaignBalanced, UsedUp
  <1>3. CASE e = [campaign EXCEPT !.timely = FALSE]
    <2>1. Same
      BY <1>1, <1>3, Zenon DEF CampaignRecord
    <2> QED
      BY <2>1 DEF SeedCampaign, CampaignBalanced, UsedUp
  <1>4. CASE e = [campaign EXCEPT !.subcap = {100}]
    <2>1. Same
      BY <1>1, <1>4, Zenon DEF CampaignRecord
    <2> QED
      BY <2>1 DEF SeedCampaign, CampaignBalanced, UsedUp
  <1>5. CASE e = [campaign EXCEPT !.segment = "seg_paid_social_prior"]
    <2>1. Same
      BY <1>1, <1>5, Zenon DEF CampaignRecord
    <2> QED
      BY <2>1 DEF SeedCampaign, CampaignBalanced, UsedUp
  <1> QED
    BY <1>2, <1>3, <1>4, <1>5, Zenon

LEMMA SeededCampaigns ==
  /\ \A s \in {"draft", "live", "completed"}, n \in {8, 130, 185, 200, 600} :
       SeedCampaign(Campaign(s, n))
  /\ SeedCampaign(PriorCampaign)
  /\ SeedCampaign([Campaign("draft", 130) EXCEPT !.subcap = {100}])
  /\ SeedCampaign([Campaign("draft", 200) EXCEPT !.activated = FALSE])
  /\ SeedCampaign([Campaign("draft", 200) EXCEPT !.timely = FALSE])
  <1>1. ASSUME NEW s \in {"draft", "live", "completed"}, NEW n \in {8, 130, 185, 200, 600}
        PROVE  SeedCampaign(Campaign(s, n))
    <2> DEFINE cap == 500
               approved == IF s = "live" THEN Min({n, cap}) ELSE 0
    <2>1. cap \in Int /\ cap > 0 /\ n \in Int /\ n > 0
      OBVIOUS
    <2>2. Campaign(s, n) =
            [status |-> s, proposed |-> n, spent |-> 0, approved |-> approved,
             segment |-> "seg_paid_social", subcap |-> {}, activated |-> TRUE, timely |-> TRUE]
      BY DEF Campaign
    <2> HIDE DEF cap
    <2>3. Min({n, cap}) \in Nat /\ Min({n, cap}) > 0
      BY <2>1, MinOfTwo
    <2>4. approved \in Nat /\ (approved > 0 => s = "live")
      BY <2>3
    <2> HIDE DEF approved
    <2>5. s \in CampaignStates
      BY DEF CampaignStates, Unlaunched
    <2> QED
      BY <2>1, <2>2, <2>4, <2>5 DEF SeedCampaign, CampaignRecord, CampaignBalanced, UsedUp
  <1>2. /\ SeedCampaign(Campaign("draft", 185)) /\ SeedCampaign(Campaign("draft", 130))
        /\ SeedCampaign(Campaign("draft", 200))
    BY <1>1
  <1>3. SeedCampaign(PriorCampaign)
    <2> DEFINE middle == [Campaign("draft", 185) EXCEPT !.segment = "seg_paid_social_prior"]
    <2>1. SeedCampaign(middle)
      BY <1>2, SeedCampaignVariants, Zenon
    <2>2. SeedCampaign([middle EXCEPT !.activated = FALSE])
      BY <2>1, SeedCampaignVariants, Zenon
    <2> QED
      BY <2>2, Zenon DEF PriorCampaign
  <1>4. /\ SeedCampaign([Campaign("draft", 130) EXCEPT !.subcap = {100}])
        /\ SeedCampaign([Campaign("draft", 200) EXCEPT !.activated = FALSE])
        /\ SeedCampaign([Campaign("draft", 200) EXCEPT !.timely = FALSE])
    BY <1>2, SeedCampaignVariants, Zenon
  <1> QED
    BY <1>1, <1>3, <1>4

\* The four kinds of state reset seeds.
Seedling(b) ==
  \/ b = CommerceFixture
  \/ b = SupplyFixture
  \/ \E policy, claims :
       /\ b = InsuranceState(policy, claims)
       /\ claims \in [DOMAIN claims -> ClaimRecord]
       /\ \A x \in DOMAIN claims : SeedClaim(claims[x])
  \/ \E advertiser, first, second :
       b = MarketingState(advertiser, first, second) /\ SeedCampaign(first) /\ SeedCampaign(second)

LEMMA AnalystSeedling ==
  ASSUME NEW policy, NEW first, SeedClaim(first)
  PROVE  Seedling(AnalystFixture(policy, first))
  <1> DEFINE claims == [clm_100 |-> first, clm_101 |-> PriorClaim]
  <1>1. AnalystFixture(policy, first) = InsuranceState(policy, claims)
    BY DEF AnalystFixture
  <1>2. /\ claims \in [DOMAIN claims -> ClaimRecord]
        /\ \A x \in DOMAIN claims : SeedClaim(claims[x])
    <2>1. SeedClaim(PriorClaim)
      BY SeededClaims
    <2> QED
      BY <2>1 DEF SeedClaim
  <1> HIDE DEF claims
  <1> QED
    BY <1>1, <1>2 DEF Seedling

LEMMA AdjusterSeedling == Seedling(AdjusterFixture)
  <1> DEFINE claims == [clm_100 |-> Claim("open", 200, 0)]
  <1>1. AdjusterFixture = InsuranceState("active", claims)
    BY DEF AdjusterFixture
  <1>2. /\ claims \in [DOMAIN claims -> ClaimRecord]
        /\ \A x \in DOMAIN claims : SeedClaim(claims[x])
    <2>1. SeedClaim(Claim("open", 200, 0))
      BY SeededClaims
    <2> QED
      BY <2>1 DEF SeedClaim
  <1> HIDE DEF claims
  <1> QED
    BY <1>1, <1>2 DEF Seedling

LEMMA MarketingSeedling ==
  ASSUME NEW advertiser, NEW first, SeedCampaign(first), NEW second, SeedCampaign(second)
  PROVE  Seedling(MarketingState(advertiser, first, second))
  BY Zenon DEF Seedling

LEMMA FirstSeedling ==
  ASSUME NEW first, SeedCampaign(first)
  PROVE  Seedling(FirstFixture(first))
  <1>1. SeedCampaign(PriorCampaign)
    BY SeededCampaigns, Zenon
  <1> QED
    BY <1>1, MarketingSeedling, Zenon DEF FirstFixture

LEMMA EveryFixture == \A s \in DOMAIN Build : Seedling(Build[s])
  <1>1. \A s \in DOMAIN Build :
          Build[s] \in {CommerceFixture, SupplyFixture, AdjusterFixture, SmallFixture,
                        OverLimitFixture, GlassFixture, ApprovedFixture, LapsedFixture,
                        UncoveredFixture, UntimelyFixture, DraftFixture, BelowFeeFixture,
                        OverCapFixture, DisplayFixture, LiveFixture, CompletedFixture,
                        LateFixture, DisorderedFixture, SharedFixture, SuspendedFixture}
    BY DEF Build
  <1>2. Seedling(CommerceFixture) /\ Seedling(SupplyFixture)
    BY DEF Seedling
  <1>3. /\ Seedling(SmallFixture) /\ Seedling(OverLimitFixture) /\ Seedling(GlassFixture)
        /\ Seedling(ApprovedFixture) /\ Seedling(LapsedFixture)
        /\ Seedling(UncoveredFixture) /\ Seedling(UntimelyFixture)
    <2>1. /\ SeedClaim(Claim("open", 20, 0)) /\ SeedClaim(Claim("open", 600, 0))
          /\ SeedClaim(Claim("open", 200, 0))
      BY SeededClaims
    <2>2. Seedling(SmallFixture)
      BY <2>1, AnalystSeedling, Zenon DEF SmallFixture
    <2>3. Seedling(OverLimitFixture)
      <3> DEFINE first == Claim("open", 600, 0)
      <3>1. OverLimitFixture = AnalystFixture("active", first) /\ SeedClaim(first)
        BY <2>1, Zenon DEF OverLimitFixture
      <3> HIDE DEF first
      <3> QED
        BY <3>1, AnalystSeedling, Zenon
    <2>4. Seedling(GlassFixture)
      <3>1. SeedClaim([Claim("open", 130, 0) EXCEPT !.sublimit = {100}])
        BY SeededClaims, Zenon
      <3> QED
        BY <3>1, AnalystSeedling, Zenon DEF GlassFixture
    <2>5. Seedling(ApprovedFixture)
      <3> DEFINE first == Claim("approved", 200, Min({200, 500}))
      <3>1. SeedClaim(first)
        BY SeededClaims, Zenon
      <3>2. ApprovedFixture = AnalystFixture("active", first)
        BY Zenon DEF ApprovedFixture
      <3> HIDE DEF first
      <3> QED
        BY <3>1, <3>2, AnalystSeedling, Zenon
    <2>6. Seedling(LapsedFixture)
      BY <2>1, AnalystSeedling, Zenon DEF LapsedFixture
    <2>7. Seedling(UncoveredFixture)
      <3>1. SeedClaim([Claim("open", 200, 0) EXCEPT !.covered = FALSE])
        BY SeededClaims, Zenon
      <3> QED
        BY <3>1, AnalystSeedling, Zenon DEF UncoveredFixture
    <2>8. Seedling(UntimelyFixture)
      <3>1. SeedClaim([Claim("open", 200, 0) EXCEPT !.timely = FALSE])
        BY SeededClaims, Zenon
      <3> QED
        BY <3>1, AnalystSeedling, Zenon DEF UntimelyFixture
    <2> QED
      BY <2>2, <2>3, <2>4, <2>5, <2>6, <2>7, <2>8
  <1>4. /\ Seedling(DraftFixture) /\ Seedling(BelowFeeFixture) /\ Seedling(OverCapFixture)
        /\ Seedling(DisplayFixture) /\ Seedling(LiveFixture) /\ Seedling(CompletedFixture)
        /\ Seedling(LateFixture) /\ Seedling(DisorderedFixture)
    <2>1. /\ SeedCampaign(Campaign("draft", 200)) /\ SeedCampaign(Campaign("draft", 8))
          /\ SeedCampaign(Campaign("draft", 600)) /\ SeedCampaign(Campaign("live", 200))
          /\ SeedCampaign(Campaign("completed", 200))
      BY SeededCampaigns
    <2>2. Seedling(DraftFixture)
      BY <2>1, FirstSeedling, Zenon DEF DraftFixture
    <2>3. Seedling(BelowFeeFixture)
      BY <2>1, FirstSeedling, Zenon DEF BelowFeeFixture
    <2>4. Seedling(OverCapFixture)
      BY <2>1, FirstSeedling, Zenon DEF OverCapFixture
    <2>5. Seedling(DisplayFixture)
      <3>1. SeedCampaign([Campaign("draft", 130) EXCEPT !.subcap = {100}])
        BY SeededCampaigns, Zenon
      <3> QED
        BY <3>1, FirstSeedling, Zenon DEF DisplayFixture
    <2>6. Seedling(LiveFixture)
      BY <2>1, FirstSeedling, Zenon DEF LiveFixture
    <2>7. Seedling(CompletedFixture)
      BY <2>1, FirstSeedling, Zenon DEF CompletedFixture
    <2>8. Seedling(LateFixture)
      <3>1. SeedCampaign([Campaign("draft", 200) EXCEPT !.activated = FALSE])
        BY SeededCampaigns, Zenon
      <3> QED
        BY <3>1, FirstSeedling, Zenon DEF LateFixture
    <2>9. Seedling(DisorderedFixture)
      <3>1. SeedCampaign([Campaign("draft", 200) EXCEPT !.timely = FALSE])
        BY SeededCampaigns, Zenon
      <3> QED
        BY <3>1, FirstSeedling, Zenon DEF DisorderedFixture
    <2> QED
      BY <2>2, <2>3, <2>4, <2>5, <2>6, <2>7, <2>8, <2>9
  <1>5. Seedling(SharedFixture) /\ Seedling(SuspendedFixture)
    <2>1. /\ SeedCampaign(Campaign("draft", 200)) /\ SeedCampaign(Campaign("draft", 185))
          /\ SeedCampaign(PriorCampaign)
      BY SeededCampaigns
    <2> QED
      BY <2>1, MarketingSeedling, Zenon DEF SharedFixture, SuspendedFixture
  <1> QED
    BY <1>1, <1>2, <1>3, <1>4, <1>5, AdjusterSeedling, Zenon

(***************************************************************************)
(* The state of a world                                                    *)
(***************************************************************************)

DocOK(d) ==
  /\ d.scenario \in DOMAIN Build
  /\ DOMAIN d = DOMAIN Build[d.scenario] \cup {"scenario"}
  /\ d.world = Build[d.scenario].world
  /\ d.world \in {"commerce", "supply", "insurance", "marketing"}
  /\ d.world = "commerce" => CommerceOK(d)
  /\ d.world = "supply" => SupplyOK(d)
  /\ d.world = "insurance" => InsuranceOK(d)
  /\ d.world = "marketing" => MarketingOK(d)

LEMMA SeedWorlds ==
  ASSUME NEW s \in DOMAIN Build
  PROVE  /\ Build[s].world = "commerce" => Build[s] = CommerceFixture
         /\ Build[s].world = "supply" => Build[s] = SupplyFixture
  <1>1. Seedling(Build[s])
    BY EveryFixture
  <1>2. \A b : Seedling(b) => /\ b.world = "commerce" => b = CommerceFixture
                              /\ b.world = "supply" => b = SupplyFixture
    BY DEF Seedling, CommerceFixture, SupplyFixture, InsuranceState, MarketingState
  <1> HIDE DEF Build
  <1> QED
    BY <1>1, <1>2, Zenon

\* A state that was just seeded.
SeededBy(s, b, d) ==
  /\ DOMAIN d = DOMAIN b \cup {"scenario"}
  /\ d.scenario = s
  /\ \A k \in DOMAIN b \ {"scenario"} : d[k] = b[k]

LEMMA CommerceSeeded ==
  ASSUME NEW s, NEW d, SeededBy(s, CommerceFixture, d)
  PROVE  CommerceOK(d) /\ d.world = "commerce"
  <1> DEFINE b == CommerceFixture
  <1>1. DOMAIN b = CommerceFields \ {"scenario"}
    BY DEF CommerceFixture, CommerceFields
  <1>2. /\ d.orders = b.orders /\ d.stock = b.stock /\ d.tickets = b.tickets
        /\ d.shipments = b.shipments /\ d.refunds = b.refunds /\ d.world = b.world
    <2> HIDE DEF b
    <2> QED
      BY <1>1, Zenon DEF SeededBy, CommerceFields, b
  <1>3. DOMAIN d = CommerceFields
    BY <1>1 DEF SeededBy, CommerceFields
  <1>4. /\ b.orders \in [Orders -> Order]
        /\ \A o \in Orders : OrderBalanced(b.orders[o])
    <2> DEFINE paid == [status |-> "paid", captured |-> 3, refunded |-> 0]
               pending == [status |-> "pending", captured |-> 0, refunded |-> 0]
    <2>1. b.orders = [ord_900 |-> paid, ord_cancel |-> pending]
      BY DEF CommerceFixture
    <2>2. /\ paid \in Order /\ OrderBalanced(paid)
          /\ pending \in Order /\ OrderBalanced(pending)
      BY DEF Order, OrderStates, OrderBalanced
    <2> HIDE DEF paid, pending, b
    <2> QED
      BY <2>1, <2>2 DEF Orders
  <1>5. b.stock \in [Locations -> Stock]
    <2> DEFINE first == [available |-> 2, reserved |-> 0, backorder |-> FALSE]
               second == [available |-> 0, reserved |-> 1, backorder |-> TRUE]
    <2>1. b.stock = [default |-> first, secondary |-> second]
      BY DEF CommerceFixture
    <2>2. first \in Stock /\ second \in Stock
      BY DEF Stock
    <2> HIDE DEF first, second, b
    <2> QED
      BY <2>1, <2>2 DEF Locations
  <1>6. b.tickets \in Seq(DOMAIN LegalTicket)
    BY DEF CommerceFixture, LegalTicket
  <1>7. b.shipments \in [Shipments -> DOMAIN LegalShipment]
    BY DEF CommerceFixture, Shipments, LegalShipment
  <1>8. b.world = "commerce"
    BY DEF CommerceFixture
  <1>9. b.refunds \in Seq(RefundRow)
    BY DEF CommerceFixture
  <1>10. \A o \in Orders : b.orders[o].captured = CommerceFixture.orders[o].captured
    BY Zenon
  <1> HIDE DEF b
  <1> QED
    BY <1>2, <1>3, <1>4, <1>5, <1>6, <1>7, <1>8, <1>9, <1>10 DEF CommerceOK

LEMMA SupplySeeded ==
  ASSUME NEW s, NEW d, SeededBy(s, SupplyFixture, d)
  PROVE  SupplyOK(d) /\ d.world = "supply"
  <1> DEFINE b == SupplyFixture
  <1>1. DOMAIN b = SupplyFields \ {"scenario"}
    BY DEF SupplyFixture, SupplyFields
  <1>2. d.stock = b.stock /\ d.world = b.world
    <2> HIDE DEF b
    <2> QED
      BY <1>1, Zenon DEF SeededBy, SupplyFields, b
  <1>3. DOMAIN d = SupplyFields
    BY <1>1 DEF SeededBy, SupplyFields
  <1>4. /\ b.stock \in [Warehouses -> Shelf]
        /\ b.stock["wh_west"].available + b.stock["wh_east"].available = 22
        /\ \A w \in Warehouses : ShelfSafe(b.stock[w], b.stock[w])
    BY DEF SupplyFixture, Warehouses, Shelf, ShelfSafe, Free
  <1>5. b.world = "supply"
    BY DEF SupplyFixture
  <1> QED
    BY <1>2, <1>3, <1>4, <1>5 DEF SupplyOK

LEMMA InsuranceSeeded ==
  ASSUME NEW s, NEW d, NEW policy, NEW claims, SeededBy(s, InsuranceState(policy, claims), d),
         claims \in [DOMAIN claims -> ClaimRecord],
         \A x \in DOMAIN claims : ClaimBalanced(claims[x])
  PROVE  InsuranceOK(d) /\ d.world = "insurance"
  <1> DEFINE b == InsuranceState(policy, claims)
  <1>1. DOMAIN b = InsuranceFields \ {"scenario"}
    BY DEF InsuranceState, InsuranceFields
  <1>2. /\ d.claims = b.claims /\ d.limit = b.limit /\ d.deductible = b.deductible
        /\ d.world = b.world
    <2> HIDE DEF b
    <2> QED
      BY <1>1, Zenon DEF SeededBy, InsuranceFields, b
  <1>3. DOMAIN d = InsuranceFields
    BY <1>1 DEF SeededBy, InsuranceFields
  <1>4. b.claims = claims /\ b.limit = 500 /\ b.deductible = 50 /\ b.world = "insurance"
    BY DEF InsuranceState
  <1> QED
    BY <1>2, <1>3, <1>4 DEF InsuranceOK

LEMMA MarketingSeeded ==
  ASSUME NEW s, NEW d, NEW advertiser, NEW first, NEW second,
         SeededBy(s, MarketingState(advertiser, first, second), d),
         SeedCampaign(first), SeedCampaign(second)
  PROVE  MarketingOK(d) /\ d.world = "marketing"
  <1> DEFINE b == MarketingState(advertiser, first, second)
             campaigns == [cmp_100 |-> first, cmp_101 |-> second]
  <1>1. DOMAIN b = MarketingFields \ {"scenario"}
    BY DEF MarketingState, MarketingFields
  <1>2. /\ d.campaigns = b.campaigns /\ d.cap = b.cap /\ d.fee = b.fee
        /\ d.world = b.world
    <2> HIDE DEF b
    <2> QED
      BY <1>1, Zenon DEF SeededBy, MarketingFields, b
  <1>3. DOMAIN d = MarketingFields
    BY <1>1 DEF SeededBy, MarketingFields
  <1>4. b.campaigns = campaigns /\ b.cap = 500 /\ b.fee = 20 /\ b.world = "marketing"
    BY DEF MarketingState
  <1>5. /\ campaigns \in [DOMAIN campaigns -> CampaignRecord]
        /\ \A x \in DOMAIN campaigns : CampaignBalanced(campaigns[x])
    BY DEF SeedCampaign
  <1> HIDE DEF campaigns
  <1> QED
    BY <1>2, <1>3, <1>4, <1>5 DEF MarketingOK

LEMMA ResetOK ==
  ASSUME NEW d \in WorldFixture
  PROVE  DocOK(d)
  <1>1. PICK s \in DOMAIN Build :
          d = [k \in DOMAIN Build[s] \cup {"scenario"} |->
                 IF k = "scenario" THEN s ELSE Build[s][k]]
    BY Zenon DEF WorldFixture
  <1> DEFINE b == Build[s]
  <1>2. SeededBy(s, b, d)
    <2> HIDE DEF b
    <2>1. d = [k \in DOMAIN b \cup {"scenario"} |-> IF k = "scenario" THEN s ELSE b[k]]
      BY <1>1 DEF b
    <2> QED
      BY <2>1, Zenon DEF SeededBy
  <1>3. Seedling(b)
    BY EveryFixture
  <1>4. /\ d.world \in {"commerce", "supply", "insurance", "marketing"}
        /\ d.world = "commerce" => CommerceOK(d)
        /\ d.world = "supply" => SupplyOK(d)
        /\ d.world = "insurance" => InsuranceOK(d)
        /\ d.world = "marketing" => MarketingOK(d)
        /\ "world" \in DOMAIN b
    <2> HIDE DEF b
    <2>1. CASE b = CommerceFixture
      <3>1. CommerceOK(d) /\ d.world = "commerce"
        BY <1>2, <2>1, CommerceSeeded
      <3>2. "world" \in DOMAIN b
        BY <2>1 DEF CommerceFixture
      <3> QED
        BY <3>1, <3>2
    <2>2. CASE b = SupplyFixture
      <3>1. SupplyOK(d) /\ d.world = "supply"
        BY <1>2, <2>2, SupplySeeded
      <3>2. "world" \in DOMAIN b
        BY <2>2 DEF SupplyFixture
      <3> QED
        BY <3>1, <3>2
    <2>3. ASSUME NEW policy, NEW claims, b = InsuranceState(policy, claims),
                 claims \in [DOMAIN claims -> ClaimRecord],
                 \A x \in DOMAIN claims : SeedClaim(claims[x])
          PROVE  InsuranceOK(d) /\ d.world = "insurance" /\ "world" \in DOMAIN b
      <3>0. \A x \in DOMAIN claims : ClaimBalanced(claims[x])
        BY <2>3 DEF SeedClaim
      <3>1. InsuranceOK(d) /\ d.world = "insurance"
        BY <1>2, <2>3, <3>0, InsuranceSeeded
      <3>2. "world" \in DOMAIN b
        BY <2>3 DEF InsuranceState
      <3> QED
        BY <3>1, <3>2
    <2>4. ASSUME NEW advertiser, NEW first, NEW second,
                 b = MarketingState(advertiser, first, second),
                 SeedCampaign(first), SeedCampaign(second)
          PROVE  MarketingOK(d) /\ d.world = "marketing" /\ "world" \in DOMAIN b
      <3>1. MarketingOK(d) /\ d.world = "marketing"
        BY <1>2, <2>4, MarketingSeeded
      <3>2. "world" \in DOMAIN b
        BY <2>4 DEF MarketingState
      <3> QED
        BY <3>1, <3>2
    <2> QED
      BY <1>3, <2>1, <2>2, <2>3, <2>4 DEF Seedling
  <1>5. d.scenario = s /\ DOMAIN d = DOMAIN b \cup {"scenario"} /\ d.world = b.world
    <2> HIDE DEF b
    <2> QED
      BY <1>2, <1>4, Zenon DEF SeededBy
  <1> QED
    BY <1>4, <1>5 DEF DocOK

LEMMA ResultOK ==
  ASSUME NEW d, DocOK(d), NEW e, Keeps(d, e),
         d.world = "commerce" => CommerceOK(e),
         d.world = "supply" => SupplyOK(e),
         d.world = "insurance" => InsuranceOK(e),
         d.world = "marketing" => MarketingOK(e)
  PROVE  DocOK(e)
  BY DEF DocOK, Keeps

(***************************************************************************)
(* The inductive invariant of the enterprise worlds                        *)
(***************************************************************************)

\* The worlds of this module, for the parameters ToolWorld leaves open.
TheseWorlds ==
  /\ Fixture = WorldFixture
  /\ \A c, d : Effect(c, d) = WorldEffect(c, d)
  /\ \A d : Injected(d) = WorldInjected(d)

\* An event is of one call, or of the scheduler.
EntryOK(world, entry) ==
  /\ entry.by = {} \/ \E c \in Call : entry.by = {c}
  /\ world = "commerce" => CommerceEntryOK(entry)

LogOK(world, lg) == \A i \in DOMAIN lg : EntryOK(world, lg[i])

\* What holds of the state, of the log, and of what the open transaction would
\* make of them.
WorldInv ==
  /\ DocOK(doc)
  /\ LogOK(doc.world, log)
  /\ tx = {} \/ \E t : tx = {t}
  /\ \A t \in tx : DocOK(t.doc) /\ t.doc.world = doc.world /\ LogOK(doc.world, t.log)
  /\ lost \in 0..MaxLost

\* Whatever is asked of a world.
LEMMA EffectOK ==
  ASSUME TheseWorlds, NEW c \in Call, NEW d, DocOK(d), NEW r \in Effect(c, d)
  PROVE  DocOK(r.doc) /\ r.doc.world = d.world /\ EntryOK(d.world, Entry({c}, r))
  <1>1. r \in WorldEffect(c, d)
    BY DEF TheseWorlds
  <1>2. Entry({c}, r).by = {c}
    BY DEF Entry
  <1>3. CASE d.world = "commerce"
    <2>1. CommerceOK(d) /\ r \in CommerceEffect(c, d)
      BY <1>1, <1>3 DEF WorldEffect, DocOK
    <2>2. Keeps(d, r.doc) /\ CommerceOK(r.doc) /\ CommerceEntryOK(Entry({c}, r))
      BY <2>1, CommerceStep DEF CommerceResult
    <2>3. DocOK(r.doc)
      BY <1>3, <2>2, ResultOK
    <2> QED
      BY <1>2, <2>2, <2>3 DEF EntryOK, Keeps
  <1>4. CASE d.world = "supply"
    <2>1. SupplyOK(d) /\ r \in SupplyEffect(c, d)
      BY <1>1, <1>4 DEF WorldEffect, DocOK
    <2>2. Keeps(d, r.doc) /\ SupplyOK(r.doc)
      BY <2>1, SupplyStep
    <2>3. DocOK(r.doc)
      BY <1>4, <2>2, ResultOK
    <2> QED
      BY <1>2, <1>4, <2>2, <2>3 DEF EntryOK, Keeps
  <1>5. CASE d.world = "insurance"
    <2>1. InsuranceOK(d) /\ r \in InsuranceEffect(c, d)
      BY <1>1, <1>5 DEF WorldEffect, DocOK
    <2>2. Keeps(d, r.doc) /\ InsuranceOK(r.doc)
      BY <2>1, InsuranceStep
    <2>3. DocOK(r.doc)
      BY <1>5, <2>2, ResultOK
    <2> QED
      BY <1>2, <1>5, <2>2, <2>3 DEF EntryOK, Keeps
  <1>6. CASE d.world = "marketing"
    <2>1. MarketingOK(d) /\ r \in MarketingEffect(c, d)
      BY <1>1, <1>6 DEF WorldEffect, DocOK
    <2>2. Keeps(d, r.doc) /\ MarketingOK(r.doc)
      BY <2>1, MarketingStep
    <2>3. DocOK(r.doc)
      BY <1>6, <2>2, ResultOK
    <2> QED
      BY <1>2, <1>6, <2>2, <2>3 DEF EntryOK, Keeps
  <1>7. d.world \in {"commerce", "supply", "insurance", "marketing"}
    BY DEF DocOK
  <1> QED
    BY <1>3, <1>4, <1>5, <1>6, <1>7

\* Whatever is injected into a world.
LEMMA InjectedOK ==
  ASSUME TheseWorlds, NEW d, DocOK(d), NEW r \in Injected(d)
  PROVE  DocOK(r.doc) /\ r.doc.world = d.world /\ EntryOK(d.world, Entry({}, r))
  <1>1. d.world = "commerce" /\ r \in CommerceInjected(d)
    BY DEF TheseWorlds, WorldInjected
  <1>2. Entry({}, r).by = {}
    BY DEF Entry
  <1>3. Keeps(d, r.doc) /\ CommerceOK(r.doc) /\ CommerceEntryOK(Entry({}, r))
    BY <1>1, StockoutStep DEF CommerceResult, DocOK
  <1>4. DocOK(r.doc)
    BY <1>1, <1>3, ResultOK
  <1> QED
    BY <1>2, <1>3, <1>4 DEF EntryOK, Keeps

\* The log with one more entry.
LEMMA LogGrows ==
  ASSUME Coherent(answers, log), NEW world, LogOK(world, log),
         NEW by \in SUBSET Call, NEW r, EntryOK(world, Entry(by, r))
  PROVE  LogOK(world, Append(log, Entry(by, r)))
  <1> DEFINE entry == Entry(by, r)
  <1>1. PICK E : log \in Seq(Entries(E))
    BY DEF Coherent
  <1>2. entry \in Entries({r.event})
    BY DEF Entry, Entries
  <1> HIDE DEF entry
  <1>3. /\ Len(log) \in Nat
        /\ DOMAIN log = 1..Len(log)
        /\ DOMAIN Append(log, entry) = 1..(Len(log) + 1)
        /\ \A i \in DOMAIN log : Append(log, entry)[i] = log[i]
        /\ Append(log, entry)[Len(log) + 1] = entry
    BY <1>1, <1>2, AppendEntry
  <1>4. EntryOK(world, entry)
    BY DEF entry
  <1>5. ASSUME NEW i \in DOMAIN Append(log, entry)
        PROVE  EntryOK(world, Append(log, entry)[i])
    <2>1. CASE i = Len(log) + 1
      BY <1>3, <1>4, <2>1
    <2>2. CASE i # Len(log) + 1
      <3>1. i \in DOMAIN log
        BY <1>3, <2>2
      <3> QED
        BY <1>3, <3>1 DEF LogOK
    <2> QED
      BY <2>1, <2>2
  <1> QED
    BY <1>5 DEF LogOK, entry

LEMMA InitWorlds == TheseWorlds /\ Init => WorldInv
  <1> SUFFICES ASSUME TheseWorlds, Init
               PROVE  WorldInv
    OBVIOUS
  <1>1. doc \in WorldFixture /\ log = <<>> /\ tx = {} /\ lost = 0
    BY DEF TheseWorlds, Init
  <1>2. DocOK(doc)
    BY <1>1, ResetOK
  <1>3. LogOK(doc.world, log)
    BY <1>1 DEF LogOK
  <1> QED
    BY <1>1, <1>2, <1>3, CallAssumption DEF WorldInv

LEMMA ExecuteWorlds ==
  ASSUME TheseWorlds, WorldInv, SpineInv, NEW c \in Call, Execute(c)
  PROVE  WorldInv'
  <1>1. UNCHANGED <<doc, log, lost>>
    BY DEF Execute
  <1>2. ASSUME NEW r \in Effect(c, doc), WriteAll(c, r)
        PROVE  WorldInv'
    <2>1. DocOK(r.doc) /\ r.doc.world = doc.world /\ EntryOK(doc.world, Entry({c}, r))
      BY <1>2, EffectOK DEF WorldInv
    <2>2. LogOK(doc.world, Append(log, Entry({c}, r)))
      BY <2>1, LogGrows DEF WorldInv, SpineInv
    <2>3. \E t : tx' = {t} /\ t.doc = r.doc /\ t.log = Append(log, Entry({c}, r))
      <3> DEFINE t == [call |-> c, doc |-> r.doc, log |-> Append(log, Entry({c}, r)),
                       answers |-> [answers EXCEPT ![c.key] = {Answer(c, Len(log) + 1)}]]
      <3>1. tx' = {t}
        BY <1>2, Zenon DEF WriteAll
      <3>2. t.doc = r.doc /\ t.log = Append(log, Entry({c}, r))
        BY Zenon
      <3> HIDE DEF t
      <3> QED
        BY <3>1, <3>2
    <2>4. (DocOK(doc) /\ LogOK(doc.world, log))'
      BY <1>1 DEF WorldInv
    <2>5. ASSUME NEW t \in tx'
          PROVE  DocOK(t.doc) /\ t.doc.world = doc'.world /\ LogOK(doc'.world, t.log)
      BY <1>1, <2>1, <2>2, <2>3
    <2> QED
      BY <1>1, <2>3, <2>4, <2>5 DEF WorldInv
  <1>3. CASE ReadAnswer(c)
    <2>1. \E t : tx' = {t} /\ t.doc = doc /\ t.log = log
      <3> DEFINE t == [call |-> c, doc |-> doc, log |-> log, answers |-> answers]
      <3>1. tx' = {t}
        BY <1>3, Zenon DEF ReadAnswer
      <3>2. t.doc = doc /\ t.log = log
        BY Zenon
      <3> HIDE DEF t
      <3> QED
        BY <3>1, <3>2
    <2>2. (DocOK(doc) /\ LogOK(doc.world, log))'
      BY <1>1 DEF WorldInv
    <2>3. ASSUME NEW t \in tx'
          PROVE  DocOK(t.doc) /\ t.doc.world = doc'.world /\ LogOK(doc'.world, t.log)
      BY <1>1, <2>1 DEF WorldInv
    <2> QED
      BY <1>1, <2>1, <2>2, <2>3 DEF WorldInv
  <1> QED
    BY <1>2, <1>3 DEF Execute

LEMMA NextWorlds == TheseWorlds /\ WorldInv /\ SpineInv /\ [Next]_worldVars => WorldInv'
  <1> SUFFICES ASSUME TheseWorlds, WorldInv, SpineInv, [Next]_worldVars
               PROVE  WorldInv'
    OBVIOUS
  <1>1. ASSUME NEW c \in Offered(doc) \cap Call, Execute(c)
        PROVE  WorldInv'
    BY <1>1, ExecuteWorlds
  <1>2. ASSUME NEW t \in tx, Install(t), lost' \in 0..MaxLost
        PROVE  WorldInv'
    <2>1. DocOK(t.doc) /\ t.doc.world = doc.world /\ LogOK(doc.world, t.log)
      BY DEF WorldInv
    <2>2. doc' = t.doc /\ log' = t.log /\ tx' = {}
      BY <1>2 DEF Install
    <2>3. (DocOK(doc) /\ LogOK(doc.world, log))'
      BY <2>1, <2>2
    <2> QED
      BY <1>2, <2>2, <2>3 DEF WorldInv
  <1>3. CASE CommitAnswered
    BY <1>2, <1>3 DEF CommitAnswered, WorldInv
  <1>4. CASE CommitUnheard
    <2>1. lost' \in 0..MaxLost
      BY <1>4, CallAssumption DEF CommitUnheard, WorldInv
    <2> QED
      BY <1>2, <1>4, <2>1 DEF CommitUnheard
  <1>5. CASE Rollback
    BY <1>5 DEF Rollback, WorldInv
  <1>6. CASE Inject
    <2>1. PICK r \in Injected(doc) : doc' = r.doc /\ log' = Append(log, Entry({}, r))
      BY <1>6 DEF Inject
    <2>2. UNCHANGED <<tx, lost>> /\ tx = {}
      BY <1>6 DEF Inject
    <2>3. DocOK(r.doc) /\ r.doc.world = doc.world /\ EntryOK(doc.world, Entry({}, r))
      BY InjectedOK DEF WorldInv
    <2>4. LogOK(doc.world, Append(log, Entry({}, r)))
      BY <2>3, LogGrows DEF WorldInv, SpineInv
    <2>5. (DocOK(doc) /\ LogOK(doc.world, log))'
      BY <2>1, <2>3, <2>4
    <2> QED
      BY <2>2, <2>5 DEF WorldInv
  <1>7. CASE UNCHANGED worldVars
    BY <1>7 DEF worldVars, WorldInv
  <1> QED
    BY <1>1, <1>3, <1>4, <1>5, <1>6, <1>7 DEF Next

\* The state and the log agree with the handlers' rules in every reachable state.
LEMMA WorldInvariant == ASSUME TheseWorlds PROVE Spec => [](WorldInv /\ SpineInv)
  <1>1. Init => WorldInv
    BY InitWorlds
  <1>2. WorldInv /\ SpineInv /\ [Next]_worldVars => WorldInv'
    BY NextWorlds
  <1> QED
    BY <1>1, <1>2, SpineInvariant, PTL DEF Spec

(***************************************************************************)
(* What the enterprise worlds keep                                         *)
(***************************************************************************)

\* The fixture a state of commerce or of the supply chain started from.
LEMMA SeededFixture ==
  ASSUME DocOK(doc)
  PROVE  /\ doc.world = "commerce" => Seeded = CommerceFixture
         /\ doc.world = "supply" => Seeded = SupplyFixture
  <1>1. doc.scenario \in DOMAIN Build /\ doc.world = Build[doc.scenario].world
    BY DEF DocOK
  <1> QED
    BY <1>1, SeedWorlds DEF Seeded

LEMMA AtMostOne ==
  ASSUME NEW S, S = {} \/ \E x : S = {x}
  PROVE  Cardinality(S) <= 1
  <1>1. CASE S = {}
    BY <1>1, FS_EmptySet
  <1>2. ASSUME NEW x, S = {x}
        PROVE  Cardinality(S) <= 1
    <2>1. Cardinality({x}) = 1
      BY FS_Singleton
    <2> QED
      BY <1>2, <2>1
  <1> QED
    BY <1>1, <1>2

\* The state has the tables of its fixture, and no stock or reservation of
\* commerce is negative, nor is any ticket or shipment in a status its table of
\* transitions does not know, whatever was asked in whatever order; a key has at
\* most one answer, an event at most one call, a world at most one transaction.
THEOREM WorldTypesHold == ASSUME TheseWorlds PROVE Spec => []WorldTypeOK
  <1>1. WorldInv /\ SpineInv => WorldTypeOK
    <2> SUFFICES ASSUME WorldInv, SpineInv
                 PROVE  WorldTypeOK
      OBVIOUS
    <2>1. /\ DocOK(doc) /\ LogOK(doc.world, log) /\ lost \in 0..MaxLost
          /\ tx = {} \/ \E t : tx = {t}
          /\ Coherent(answers, log)
      BY DEF WorldInv, SpineInv
    <2>2. doc.scenario \in DOMAIN Build /\ DOMAIN doc = DOMAIN Build[doc.scenario] \cup {"scenario"}
      BY <2>1 DEF DocOK
    <2>3. ASSUME NEW k \in Key
          PROVE  Cardinality(answers[k]) <= 1 /\ \A a \in answers[k] : a.call \in Call
      <3>1. answers[k] \subseteq [call : Call, answer : Nat]
        BY <2>1, <2>3 DEF Coherent
      <3>2. ASSUME NEW a \in answers[k]
            PROVE  answers[k] = {Answer(a.call, a.answer)}
        <4>1. a.call.key = k /\ a.answer \in DOMAIN log /\ a.call \in log[a.answer].by
          BY <2>1, <2>3, <3>2 DEF Coherent
        <4> QED
          BY <2>1, <4>1 DEF Coherent
      <3>3. answers[k] = {} \/ \E x : answers[k] = {x}
        BY <3>2
      <3> QED
        BY <3>1, <3>3, AtMostOne
    <2>4. ASSUME NEW i \in DOMAIN log
          PROVE  log[i].by \subseteq Call /\ Cardinality(log[i].by) <= 1
      <3>1. log[i].by = {} \/ \E c \in Call : log[i].by = {c}
        BY <2>1, <2>4 DEF LogOK, EntryOK
      <3> QED
        BY <3>1, AtMostOne
    <2>5. Cardinality(tx) <= 1
      BY <2>1, AtMostOne
    <2>6. ASSUME doc.world = "commerce"
          PROVE  /\ \A l \in DOMAIN doc.stock :
                      doc.stock[l].available >= 0 /\ doc.stock[l].reserved >= 0
                 /\ \A n \in DOMAIN doc.tickets : doc.tickets[n] \in DOMAIN LegalTicket
                 /\ \A s \in DOMAIN doc.shipments : doc.shipments[s] \in DOMAIN LegalShipment
      <3>1. /\ doc.stock \in [Locations -> Stock]
            /\ doc.tickets \in Seq(DOMAIN LegalTicket)
            /\ doc.shipments \in [Shipments -> DOMAIN LegalShipment]
        BY <2>1, <2>6 DEF DocOK, CommerceOK
      <3>2. \A x \in Stock : x.available >= 0 /\ x.reserved >= 0
        BY DEF Stock
      <3>3. \A n \in DOMAIN doc.tickets : doc.tickets[n] \in DOMAIN LegalTicket
        BY <3>1, ElementOfSeq
      <3> QED
        BY <3>1, <3>2, <3>3
    <2> QED
      BY <2>1, <2>2, <2>3, <2>4, <2>5, <2>6 DEF WorldTypeOK
  <1> QED
    BY <1>1, WorldInvariant, PTL

\* The eight policies that the handlers of commerce enforce hold of every log
\* they can produce: a grader that finds one broken found a run that went around
\* the handlers.
THEOREM PoliciesAlwaysHold == ASSUME TheseWorlds PROVE Spec => []PoliciesHold
  <1>1. WorldInv /\ SpineInv => PoliciesHold
    <2> SUFFICES ASSUME WorldInv, SpineInv, doc.world = "commerce",
                        NEW rule \in EnforcedPolicies
                 PROVE  HoldsPolicy(rule, log, Seeded.orders)
      BY DEF PoliciesHold
    <2>1. Seeded = CommerceFixture
      BY SeededFixture DEF WorldInv
    <2>2. \A i \in DOMAIN log :
            CommerceEntryOK(log[i]) /\ (log[i].by = {} \/ \E c \in Call : log[i].by = {c})
      BY DEF WorldInv, LogOK, EntryOK
    <2> DEFINE orders == Seeded.orders
    <2>3. orders = CommerceFixture.orders
      BY <2>1
    <2>4. ASSUME NEW i \in Refunds(log)
          PROVE  /\ i \in DOMAIN log
                 /\ log[i].event.after <= orders[log[i].event.on].captured
                 /\ \A c \in log[i].by : c.customer = "owner" /\ c.scoped /\ c.currency = "USD"
                 /\ \E c \in log[i].by : c.customer = "owner"
                 /\ \E c \in log[i].by : c.scoped
      <3>1. i \in DOMAIN log /\ log[i].event.type = "refund.issued"
        BY <2>4 DEF Refunds, EntriesOf
      <3>2. CommerceEntryOK(log[i]) /\ (log[i].by = {} \/ \E c \in Call : log[i].by = {c})
        BY <2>2, <3>1
      <3> HIDE DEF orders
      <3> QED
        BY <2>3, <3>1, <3>2 DEF CommerceEntryOK
    <2>5. Owner(log, orders) /\ Scope(log, orders) /\ Captured(log, orders)
          /\ Currency(log, orders)
      <3> HIDE DEF orders
      <3> QED
        BY <2>4 DEF Owner, Scope, Captured, Currency
    <2>6. DuplicateRefund(log, orders)
      <3> HIDE DEF orders
      <3> SUFFICES ASSUME NEW i \in Refunds(log), NEW j \in Refunds(log),
                          log[i].by = log[j].by, log[i].by # {}
                   PROVE  i = j
        BY DEF DuplicateRefund
      <3>1. i \in DOMAIN log /\ j \in DOMAIN log
        BY <2>4
      <3>2. PICK c : c \in log[i].by /\ c \in log[j].by
        OBVIOUS
      <3>3. answers[c.key] = {Answer(c, i)} /\ answers[c.key] = {Answer(c, j)}
        BY <3>1, <3>2 DEF SpineInv, Coherent
      <3>4. Answer(c, i) = Answer(c, j)
        BY <3>3
      <3> QED
        BY <3>4 DEF Answer
    <2>7. Inventory(log, orders)
      <3> HIDE DEF orders
      <3> QED
        BY <2>2 DEF Inventory, EntriesOf, CommerceEntryOK
    <2>8. CustomerScope(log, orders)
      <3> HIDE DEF orders
      <3> QED
        BY <2>2 DEF CustomerScope, CommerceEntryOK
    <2>9. ExternalAuthority(log, orders)
      BY DEF ExternalAuthority
    <2> HIDE DEF orders
    <2>10. HoldsPolicy(rule, log, orders)
      BY <2>5, <2>6, <2>7, <2>8, <2>9 DEF HoldsPolicy, EnforcedPolicies
    <2> QED
      BY <2>10 DEF orders
  <1> QED
    BY <1>1, WorldInvariant, PTL

\* Balances stay within their bounds: an order is refunded for at most what was
\* captured, a claim is paid for at most what was approved and is covered, and
\* the status says when the bound is reached; a campaign that used up its
\* approved budget is over.
BalancesBounded ==
  /\ doc.world = "commerce" => \A o \in DOMAIN doc.orders : OrderBalanced(doc.orders[o])
  /\ doc.world = "insurance" => \A x \in DOMAIN doc.claims : ClaimBalanced(doc.claims[x])
  /\ doc.world = "marketing" => \A x \in DOMAIN doc.campaigns : CampaignBalanced(doc.campaigns[x])

THEOREM BalancesStayBounded == ASSUME TheseWorlds PROVE Spec => []BalancesBounded
  <1>1. WorldInv => BalancesBounded
    <2> SUFFICES ASSUME WorldInv
                 PROVE  BalancesBounded
      OBVIOUS
    <2>1. ASSUME doc.world = "commerce", NEW o \in DOMAIN doc.orders
          PROVE  OrderBalanced(doc.orders[o])
      <3>1. DOMAIN doc.orders = Orders /\ \A p \in Orders : OrderBalanced(doc.orders[p])
        BY <2>1 DEF WorldInv, DocOK, CommerceOK
      <3> QED
        BY <2>1, <3>1
    <2>2. doc.world = "insurance" => \A x \in DOMAIN doc.claims : ClaimBalanced(doc.claims[x])
      BY DEF WorldInv, DocOK, InsuranceOK
    <2>3. doc.world = "marketing" =>
            \A x \in DOMAIN doc.campaigns : CampaignBalanced(doc.campaigns[x])
      BY DEF WorldInv, DocOK, MarketingOK
    <2> QED
      BY <2>1, <2>2, <2>3 DEF BalancesBounded
  <1> QED
    BY <1>1, WorldInvariant, PTL

(***************************************************************************)
(* The advice of the read-only tools                                       *)
(***************************************************************************)

LEMMA MinBelow ==
  ASSUME NEW m \in Int, NEW n \in Int, NEW T, T = {} \/ \E k \in Int : T = {k},
         NEW S, S = {m, n} \cup T
  PROVE  /\ Min(S) \in S /\ Min(S) \in Int
         /\ Min(S) <= m /\ Min(S) <= n
  <1>1. CASE T = {}
    <2>1. S = {m, n}
      BY <1>1
    <2> QED
      BY <2>1, MinOfTwo
  <1>2. ASSUME NEW k \in Int, T = {k}
        PROVE  /\ Min(S) \in S /\ Min(S) \in Int
               /\ Min(S) <= m /\ Min(S) <= n
    <2>1. S \subseteq Int /\ m \in S /\ n \in S /\ k \in S
          /\ \A y \in S : y = m \/ y = n \/ y = k
      BY <1>2
    <2>2. CASE m <= n /\ m <= k
      BY <2>1, <2>2, LeastOf
    <2>3. CASE n <= m /\ n <= k
      BY <2>1, <2>3, LeastOf
    <2>4. CASE k <= m /\ k <= n
      BY <2>1, <2>4, LeastOf
    <2> QED
      BY <2>2, <2>3, <2>4
  <1> QED
    BY <1>1, <1>2

LEMMA MaxWithZero ==
  ASSUME NEW n \in Int, NEW z, z = 0, NEW S, S = {z, n}
  PROVE  Max(S) \in Int /\ Max(S) >= n /\ Max(S) >= 0 /\ (Max(S) = n \/ Max(S) = 0)
  <1>1. CASE n >= 0
    BY <1>1, GreatestOf
  <1>2. CASE n < 0
    BY <1>2, GreatestOf
  <1> QED
    BY <1>1, <1>2

\* The larger of two.
LEMMA MaxOfTwo ==
  ASSUME NEW m \in Int, NEW n \in Int, NEW S, S = {m, n}
  PROVE  Max(S) \in Int /\ Max(S) >= m /\ Max(S) >= n
  <1>1. CASE m >= n
    BY <1>1, GreatestOf
  <1>2. CASE n >= m
    BY <1>2, GreatestOf
  <1> QED
    BY <1>1, <1>2

\* What is left of an amount, cut down to its limits, after a deduction.
LEMMA NetWithin ==
  ASSUME NEW asked \in Int, NEW limit \in Int,
         NEW T, T = {} \/ \E k \in Int : T = {k},
         NEW deducted \in Nat, asked > deducted, limit > deducted, \A k \in T : k > deducted,
         NEW zero, zero = 0
  PROVE  /\ Max({zero, Min({asked, limit} \cup T) - deducted}) \in Int
         /\ Max({zero, Min({asked, limit} \cup T) - deducted}) > 0
         /\ Max({zero, Min({asked, limit} \cup T) - deducted}) <= asked
         /\ Max({zero, Min({asked, limit} \cup T) - deducted}) <= Min({asked, limit})
         /\ Min({asked, limit}) \in Int
  <1> DEFINE least == Min({asked, limit})
             all == {asked, limit} \cup T
             lowest == Min(all)
             net == lowest - deducted
  <1>1. least \in Int /\ (least = asked \/ least = limit)
    BY MinOfTwo
  <1>2. lowest \in all /\ lowest \in Int /\ lowest <= asked /\ lowest <= limit
    BY MinBelow
  <1> HIDE DEF least, lowest
  <1>3. lowest > deducted
    BY <1>2
  <1>4. net \in Int /\ net > 0 /\ net <= least /\ net <= asked
    BY <1>1, <1>2, <1>3
  <1> HIDE DEF net
  <1>5. Max({zero, net}) \in Int /\ (Max({zero, net}) = net \/ Max({zero, net}) = 0)
        /\ Max({zero, net}) >= net
    BY <1>4, MaxWithZero
  <1> QED
    BY <1>1, <1>4, <1>5 DEF net, lowest, least

\* What the coverage analysis calls payable of an eligible claim can be approved.
LEMMA PayableApprovable ==
  ASSUME NEW d, NEW claim \in ClaimRecord, d.limit = 500, d.deductible = 50, Eligible(d, claim)
  PROVE  Payable(d, claim) \in 1..Approvable(d, claim)
  <1> DEFINE asked == claim.requested
             limit == d.limit
             deducted == d.deductible
             T == claim.sublimit
             zero == 0
  <1>1. /\ asked \in Int /\ limit \in Int /\ deducted \in Nat
        /\ T = {} \/ \E k \in Int : T = {k}
        /\ asked > deducted /\ limit > deducted /\ (\A k \in T : k > deducted)
        /\ zero = 0
    BY DEF ClaimRecord, Eligible
  <1>2. /\ Payable(d, claim) = Max({zero, Min({asked, limit} \cup T) - deducted})
        /\ Approvable(d, claim) = Min({asked, limit})
    BY DEF Payable, Approvable
  <1> HIDE DEF asked, limit, deducted, T, zero
  <1> DEFINE net == Max({zero, Min({asked, limit} \cup T) - deducted})
  <1>3. net \in Int /\ net > 0 /\ net <= Min({asked, limit}) /\ Min({asked, limit}) \in Int
    BY <1>1, NetWithin, Zenon
  <1> HIDE DEF net
  <1> QED
    BY <1>2, <1>3 DEF net

\* What the exposure of an eligible campaign calls deployable can be allocated.
LEMMA DeployableAllocatable ==
  ASSUME NEW d, NEW campaign \in CampaignRecord, d.cap = 500, d.fee = 20,
         Launchable(d, campaign)
  PROVE  Deployable(d, campaign) \in 1..Allocatable(campaign)
  <1> DEFINE asked == campaign.proposed
             limit == d.cap
             deducted == d.fee
             T == campaign.subcap
             left == campaign.approved - campaign.spent
             zero == 0
  <1>1. /\ asked \in Int /\ limit \in Int /\ deducted \in Nat /\ left \in Int
        /\ T = {} \/ \E k \in Int : T = {k}
        /\ asked > deducted /\ limit > deducted /\ (\A k \in T : k > deducted)
        /\ zero = 0
    BY DEF CampaignRecord, Launchable
  <1>2. /\ Deployable(d, campaign) = Max({zero, Min({asked, limit} \cup T) - deducted})
        /\ Allocatable(campaign) = Max({left, asked})
    BY DEF Deployable, Allocatable
  <1> HIDE DEF asked, limit, deducted, T, left, zero
  <1>3. Allocatable(campaign) \in Int /\ Allocatable(campaign) >= asked
    BY <1>1, <1>2, MaxOfTwo
  <1> DEFINE net == Max({zero, Min({asked, limit} \cup T) - deducted})
  <1>4. net \in Int /\ net > 0 /\ net <= asked
    BY <1>1, NetWithin, Zenon
  <1> HIDE DEF net
  <1> QED
    BY <1>1, <1>2, <1>3, <1>4 DEF net

\* A transfer is recommended exactly when it would be executed.
LEMMA RecommendedAllowed ==
  ASSUME NEW d, SupplyOK(d), NEW w \in Warehouses, NEW destination \in Warehouses \ {w},
         NEW q \in Nat, q > 0
  PROVE  w \in Recommended(d, destination, q) <=> TransferAllowed(d.stock[w], q)
  <1>1. DOMAIN d.stock = Warehouses /\ d.stock[w] \in Shelf
    BY DEF SupplyOK
  <1>2. Free(d.stock[w]) \in Int /\ d.stock[w].safety \in Nat
    BY <1>1 DEF Free, Shelf
  <1> QED
    BY <1>1, <1>2 DEF Recommended, TransferAllowed

\* The read-only tools recompute limits of their own, and the mutations check
\* theirs: what the former advise of a state any calls can lead to, the latter
\* accept, and a transfer is recommended exactly when it is allowed.
THEOREM AdviceAlwaysExecutable == ASSUME TheseWorlds PROVE Spec => []AdviceIsExecutable
  <1>1. WorldInv => AdviceIsExecutable
    <2> SUFFICES ASSUME WorldInv
                 PROVE  AdviceIsExecutable
      OBVIOUS
    <2>1. ASSUME doc.world = "supply", NEW w \in DOMAIN doc.stock,
                 NEW destination \in DOMAIN doc.stock \ {w}, NEW q \in 1..16
          PROVE  w \in Recommended(doc, destination, q) <=> TransferAllowed(doc.stock[w], q)
      <3>1. SupplyOK(doc) /\ DOMAIN doc.stock = Warehouses
        BY <2>1 DEF WorldInv, DocOK, SupplyOK
      <3> QED
        BY <2>1, <3>1, RecommendedAllowed
    <2>2. ASSUME doc.world = "insurance", NEW x \in DOMAIN doc.claims,
                 Eligible(doc, doc.claims[x])
          PROVE  Payable(doc, doc.claims[x]) \in 1..Approvable(doc, doc.claims[x])
      <3>1. InsuranceOK(doc)
        BY <2>2 DEF WorldInv, DocOK
      <3>2. doc.claims[x] \in ClaimRecord /\ doc.limit = 500 /\ doc.deductible = 50
        BY <2>2, <3>1 DEF InsuranceOK
      <3> QED
        BY <2>2, <3>2, PayableApprovable
    <2>3. ASSUME doc.world = "marketing", NEW x \in DOMAIN doc.campaigns,
                 Launchable(doc, doc.campaigns[x])
          PROVE  Deployable(doc, doc.campaigns[x]) \in 1..Allocatable(doc.campaigns[x])
      <3>1. MarketingOK(doc)
        BY <2>3 DEF WorldInv, DocOK
      <3>2. doc.campaigns[x] \in CampaignRecord /\ doc.cap = 500 /\ doc.fee = 20
        BY <2>3, <3>1 DEF MarketingOK
      <3> QED
        BY <2>3, <3>2, DeployableAllocatable
    <2> QED
      BY <2>1, <2>2, <2>3 DEF AdviceIsExecutable
  <1> QED
    BY <1>1, WorldInvariant, PTL

(***************************************************************************)
(* Stock moves between two warehouses                                      *)
(***************************************************************************)

\* The sum over two places, by the definition of the fold.
LEMMA TwoSum ==
  ASSUME NEW stock, NEW a, NEW b, a # b,
         stock[a].available \in Int, stock[b].available \in Int
  PROVE  MapThenSumSet(LAMBDA w : stock[w].available, {a, b})
           = stock[a].available + stock[b].available
  <1> DEFINE S == {a, b}
             pick(s) == CHOOSE x \in s : TRUE
             v(x) == stock[x].available
             F(g) == [s \in SUBSET S |-> IF s = {} THEN 0 ELSE v(pick(s)) + g[s \ {pick(s)}]]
             iter == CHOOSE g : g = F(g)
             sum == [s \in SUBSET S |->
                       IF s = {} THEN 0
                       ELSE IF s = {a} THEN v(a)
                       ELSE IF s = {b} THEN v(b) ELSE v(a) + v(b)]
  <1>1. MapThenSumSet(LAMBDA w : stock[w].available, S) = iter[S]
    BY Zenon DEF MapThenSumSet, MapThenFoldSet
  <1>2. \A s \in SUBSET S : s # {} => pick(s) \in s
    OBVIOUS
  <1>3. v(a) \in Int /\ v(b) \in Int
    OBVIOUS
  <1>4. \A s \in SUBSET S : s = {} \/ s = {a} \/ s = {b} \/ s = S
    OBVIOUS
  <1> HIDE DEF v, pick
  <1>5. sum[{}] = 0 /\ sum[{a}] = v(a) /\ sum[{b}] = v(b)
    <2>1. {} \in SUBSET S /\ {a} \in SUBSET S /\ {b} \in SUBSET S /\ {a} # {b}
      OBVIOUS
    <2> QED
      BY <2>1
  <1>6. sum = F(sum)
    <2>1. \A s \in SUBSET S : sum[s] = IF s = {} THEN 0 ELSE v(pick(s)) + sum[s \ {pick(s)}]
      <3> SUFFICES ASSUME NEW s \in SUBSET S, s # {}
                   PROVE  sum[s] = v(pick(s)) + sum[s \ {pick(s)}]
        OBVIOUS
      <3>1. CASE s = {a}
        <4>1. pick(s) = a /\ s \ {pick(s)} = {}
          BY <1>2, <3>1
        <4> QED
          <5> HIDE DEF sum
          <5>1. sum[s] = v(a)
            BY <1>5, <3>1, Zenon
          <5>2. v(pick(s)) = v(a)
            BY <4>1, Zenon
          <5>3. sum[s \ {pick(s)}] = 0
            BY <1>5, <4>1, Zenon
          <5> QED
            BY <1>3, <5>1, <5>2, <5>3
      <3>2. CASE s = {b}
        <4>1. pick(s) = b /\ s \ {pick(s)} = {}
          BY <1>2, <3>2
        <4> QED
          <5> HIDE DEF sum
          <5>1. sum[s] = v(b)
            BY <1>5, <3>2, Zenon
          <5>2. v(pick(s)) = v(b)
            BY <4>1, Zenon
          <5>3. sum[s \ {pick(s)}] = 0
            BY <1>5, <4>1, Zenon
          <5> QED
            BY <1>3, <5>1, <5>2, <5>3
      <3>3. CASE s = S
        <4>1. s # {} /\ s # {a} /\ s # {b}
          BY <3>3
        <4>2. sum[s] = v(a) + v(b)
          BY <4>1
        <4>3. pick(s) \in {a, b}
          BY <1>2, <3>3
        <4>4. CASE pick(s) = a
          <5>1. s \ {pick(s)} = {b}
            BY <3>3, <4>4
          <5> QED
            BY <1>3, <1>5, <4>2, <4>4, <5>1
        <4>5. CASE pick(s) = b
          <5>1. s \ {pick(s)} = {a}
            BY <3>3, <4>5
          <5> QED
            BY <1>3, <1>5, <4>2, <4>5, <5>1
        <4> QED
          BY <4>3, <4>4, <4>5
      <3> QED
        BY <1>4, <3>1, <3>2, <3>3
    <2> QED
      BY <2>1, Zenon
  <1>7. iter = F(iter)
    <2> HIDE DEF sum, F
    <2> QED
      BY <1>6, Zenon
  <1>8. \A s \in SUBSET S : iter[s] = IF s = {} THEN 0 ELSE v(pick(s)) + iter[s \ {pick(s)}]
    <2> HIDE DEF iter
    <2> QED
      BY <1>7, Zenon
  <1> HIDE DEF iter
  <1>9. iter[{}] = 0
    BY <1>8
  <1>10. iter[{a}] = v(a) /\ iter[{b}] = v(b)
    <2>1. pick({a}) = a /\ pick({b}) = b
      BY <1>2
    <2>2. {a} \ {a} = {} /\ {b} \ {b} = {}
      OBVIOUS
    <2> QED
      BY <1>3, <1>8, <1>9, <2>1, <2>2
  <1>11. iter[S] = v(a) + v(b)
    <2>1. pick(S) \in S /\ S # {} /\ S \in SUBSET S
      BY <1>2
    <2>2. S \ {a} = {b} /\ S \ {b} = {a}
      OBVIOUS
    <2> QED
      BY <1>3, <1>8, <1>10, <2>1, <2>2
  <1> QED
    BY <1>1, <1>11 DEF v

\* A transfer takes from one warehouse what it adds to the other, and one that
\* was ever drawn below its stock at reset still has its safety stock free:
\* for any transfers, in any order, repeated or failed.
THEOREM TransfersSafe == ASSUME TheseWorlds PROVE Spec => []TransfersKeepSafetyStock
  <1>1. WorldInv => TransfersKeepSafetyStock
    <2> SUFFICES ASSUME WorldInv, doc.world = "supply"
                 PROVE  TransfersKeepSafetyStock
      BY DEF TransfersKeepSafetyStock
    <2> DEFINE total(stock) == MapThenSumSet(LAMBDA w : stock[w].available, DOMAIN stock)
    <2>1. SupplyOK(doc) /\ Seeded = SupplyFixture
      BY SeededFixture DEF WorldInv, DocOK
    <2>2. ASSUME NEW stock \in [Warehouses -> Shelf],
                 stock["wh_west"].available + stock["wh_east"].available = 22
          PROVE  total(stock) = 22
      <3>1. DOMAIN stock = {"wh_west", "wh_east"}
        BY <2>2 DEF Warehouses
      <3>2. stock["wh_west"].available \in Int /\ stock["wh_east"].available \in Int
        BY <2>2 DEF Warehouses, Shelf
      <3>3. MapThenSumSet(LAMBDA w : stock[w].available, {"wh_west", "wh_east"})
              = stock["wh_west"].available + stock["wh_east"].available
        BY <3>2, TwoSum
      <3> QED
        BY <2>2, <3>1, <3>3
    <2>3. total(doc.stock) = 22
      BY <2>1, <2>2 DEF SupplyOK
    <2>4. total(Seeded.stock) = 22
      <3> DEFINE seeded == SupplyFixture.stock
      <3>1. /\ seeded \in [Warehouses -> Shelf]
            /\ seeded["wh_west"].available + seeded["wh_east"].available = 22
        BY DEF SupplyFixture, Warehouses, Shelf
      <3> HIDE DEF seeded
      <3>2. total(seeded) = 22
        BY <2>2, <3>1
      <3> QED
        BY <2>1, <3>2 DEF seeded
    <2>5. ASSUME NEW w \in DOMAIN doc.stock, doc.stock[w].available < Seeded.stock[w].available
          PROVE  Free(doc.stock[w]) >= doc.stock[w].safety
      <3>1. w \in Warehouses /\ ShelfSafe(doc.stock[w], SupplyFixture.stock[w])
        BY <2>1, <2>5 DEF SupplyOK
      <3> QED
        BY <2>1, <2>5, <3>1 DEF ShelfSafe
    <2> QED
      BY <2>3, <2>4, <2>5 DEF TransfersKeepSafetyStock
  <1> QED
    BY <1>1, WorldInvariant, PTL

=============================================================================
