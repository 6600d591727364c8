----------------------------- MODULE MCRunPath -----------------------------
(* RunPath on a small instance: two calls of a mutating tool, limits that     *)
(* leave room for both or end the run at either budget, and a schedule whose *)
(* two injections may both be due.                                           *)
EXTENDS RunPath, TLC

CONSTANTS refund, again

MCCalls == {refund, again}
MCToolOf == (refund :> "issue_refund") @@ (again :> "issue_refund")
MCSchedule ==
  << [trigger |-> "after_event", after_event |-> "issue_refund", event_type |-> "stockout"],
     [trigger |-> "before_terminal", event_type |-> "delay"] >>

MCLimit(t, c, m) ==
  [worker_turns |-> t, tool_calls |-> c, mutations |-> m, injections |-> 1]
MCLimits == {MCLimit(3, 2, 2), MCLimit(2, 1, 2), MCLimit(3, 2, 1), MCLimit(1, 1, 1)}
=============================================================================
