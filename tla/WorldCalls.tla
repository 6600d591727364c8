----------------------------- MODULE WorldCalls -----------------------------
(***************************************************************************)
(* What the four domains share: the shape of a mutation request, of a        *)
(* handler's outcome and of the event it appends.                            *)
(*                                                                           *)
(* A request is [tool, on, n, opt, currency, customer, scoped, key, fails]:  *)
(* the entity and the number it names, a choice (a status, a second          *)
(* location, a decision), whose authority it carries ("owner", "other" or    *)
(* "none", relative to the one customer or advertiser of a fixture) and      *)
(* whether that authority includes the scope the tool asks for; fails is     *)
(* inject_failure.  Free text is left out.                                   *)
(*                                                                           *)
(* A state is a record; its field rows is the sequence of rows appended to   *)
(* the tables no handler reads.                                              *)
(***************************************************************************)
EXTENDS Integers, Sequences

\* A handler returns state and event, or rejects and returns nothing.
When(guard, doc, event) == IF guard THEN {[doc |-> doc, event |-> event]} ELSE {}

\* n, to, before and after are what the event's payload says.
Event(type, on, n, before, after) ==
  [type |-> type, on |-> on, to |-> on, n |-> n, before |-> before, after |-> after]

Row(table, c) == [table |-> table, of |-> c.on, amount |-> c.n]
AddRow(d, table, c) == [d EXCEPT !.rows = Append(@, Row(table, c))]

OwnerScopedAlone(c) == c.scoped           \* mutant: whoever's row it is
\* _require_customer_scope of commerce: the scope and the row's own customer
OwnerScoped(c) == c.scoped /\ c.customer = "owner"

\* _require_scope and _authorize_mutation of insurance and marketing: an
\* authority bound to no customer passes
DeskScoped(c) == c.scoped /\ c.customer \in {"owner", "none"}

=============================================================================
