------------------------------- MODULE RunPath -------------------------------
(***************************************************************************)
(* One evaluation run, from the creation of its world to its record:       *)
(* Runner.run and Runner._execute, the adapter that drives an agent SDK     *)
(* through a NativeBridge (or asks a native runtime for one decision after  *)
(* the other), and the world the tool calls act on, whose schema lives and  *)
(* dies by RunLease.                                                        *)
(*                                                                          *)
(* The runner is one asyncio task: what it does between two awaits is one   *)
(* step.  The SDK's task, its callbacks, the timers, the renewal task and   *)
(* an operator's cleanup move in between.  Left out: what a tool computes   *)
(* (WorldCalls models the invocation), the trace's formatting, and the      *)
(* cancellation of a run that has begun to cancel, to collect or to close.  *)
(***************************************************************************)
EXTENDS NativeBridge, RunLease, Integers, FiniteSets

CONSTANTS
  MutationCalls,   \* the calls whose tool mutates the world
  ToolOf,          \* the tool of each call
  Schedule,        \* the scenario's injections, a sequence
  Limits,          \* the limits a scenario may set: worker_turns, tool_calls,
                   \* mutations and injections
  Sdks,            \* the adapters that may run: SDK names, or "direct"
  Obedient         \* whether an SDK's task ends when it is cancelled

ASSUME CallsAssumption ==
  /\ MutationCalls \subseteq Calls
  /\ DOMAIN ToolOf = Calls
ASSUME LimitsAssumption ==
  Limits \subseteq [worker_turns : Nat, tool_calls : Nat, mutations : Nat, injections : Nat]
ASSUME SdksAssumption == Sdks \subseteq {"langgraph", "openai-agents", "direct"}
ASSUME ObedientAssumption == Obedient \in BOOLEAN

VARIABLES
  sdk,             \* the adapter of this run
  limits,          \* the scenario's limits
  provider,        \* the adapter's task that runs the SDK's loop
  late,            \* history: the requests submitted after that task had ended
  endedPending,    \* _provider_ended_with_pending
  cancelled,       \* the adapter's _cancelled
  cancelFailed,    \* the adapter's _cancellation_failed
  pc,              \* where the runner awaits
  held,            \* tool_result: the call whose result the worker has yet to get
  current,         \* the call being invoked
  draft,           \* a turn that joins the trace once the worker is cancelled
  after,           \* what the runner does once the worker is cancelled
  timers,          \* the timers that may still fire
  cut,             \* the timer whose cancellation awaits the end of the SDK's task
  callTrace,       \* the calls of the trace, in order
  resultTrace,     \* the results given with the trace's turns, in order
  used,            \* turns, tool calls and mutations counted against the limits
  due,             \* the injections yet to deliver where the runner stands
  delivered,       \* the injections delivered, by their place in the schedule
  events,          \* the world's event log
  terminal,        \* terminal_reason
  incomplete,      \* incomplete_evidence
  snapshot,        \* the events the final snapshot saw
  cleaned          \* cleanup_succeeded

adapterVars == <<sdk, limits, late, provider, endedPending, cancelled, cancelFailed>>
traceVars == <<callTrace, resultTrace, used, held, current, draft>>
worldVars == <<due, delivered, events>>
recordVars == <<terminal, incomplete, snapshot, cleaned>>
vars == <<bridgeVars, leaseVars, adapterVars, traceVars, worldVars, recordVars,
          pc, after, timers, cut>>

Bridged == sdk # "direct"
ProviderEnded == provider \notin {"none", "running"}
NoTurn == [call |-> NoCall, result |-> NoCall]
NoSnapshot == <<NoCall>>

\* s, and x unless it is no call.
Noted(s, x) == IF x = NoCall THEN s ELSE Append(s, x)

\* The calls the runner took from the worker, in the order of the trace.
Taken == Noted(callTrace, draft.call)

Init ==
  /\ BridgeInit
  /\ LeaseInit
  /\ sdk \in Sdks /\ limits \in Limits
  /\ provider = "none" /\ late = {}
  /\ endedPending = FALSE /\ cancelled = FALSE /\ cancelFailed = FALSE
  /\ pc = "reset"
  /\ held = NoCall /\ current = NoCall /\ draft = NoTurn
  /\ after = "none"
  /\ timers = {"wall"} /\ cut = "none"
  /\ callTrace = <<>> /\ resultTrace = <<>>
  /\ used = [turns |-> 0, calls |-> 0, mutations |-> 0]
  /\ due = {} /\ delivered = {} /\ events = <<>>
  /\ terminal = "infrastructure_error" /\ incomplete = FALSE
  /\ snapshot = NoSnapshot /\ cleaned = FALSE

-----------------------------------------------------------------------------
(* The ways out of the run's body.                                         *)

\* An exception that needs no cancellation: the handler goes on to the final
\* snapshot, and the SDK's task is left as it is.
Raise(reason) ==
  /\ terminal' = reason
  /\ pc' = "evidence"
  /\ UNCHANGED <<after, incomplete>>

\* The runner cancels the worker, for at most two seconds, and then does `next`.
StartCancel(next) ==
  /\ pc' = "cancel"
  /\ after' = next

CancelForEvidence(reason, flagged) ==
  /\ terminal' = reason
  /\ incomplete' = (incomplete \/ flagged)
  /\ StartCancel("evidence")

\* Anything else: no snapshot is taken.
RaiseUnexpected ==
  /\ terminal' = "infrastructure_error"
  /\ incomplete' = TRUE
  /\ pc' = "close"
  /\ UNCHANGED after

Return(reason) ==
  /\ terminal' = reason
  /\ pc' = "collect"
  /\ UNCHANGED <<after, incomplete>>

-----------------------------------------------------------------------------
(* Injections.                                                             *)

EventType(e) == IF e.kind = "call" THEN ToolOf[e.of] ELSE Schedule[e.of].event_type
CallEvent(c) == [kind |-> "call", of |-> c]
InjectionEventNext(i) == [kind |-> "injection", of |-> i + 1]   \* mutant: one too far
InjectionEvent(i) == [kind |-> "injection", of |-> i]

\* The first disjunct already holds for every after_tool injection after any
\* tool, whatever tool the injection names.
Matches(i, point, tool, count) ==
  LET injection == Schedule[i] IN
  \/ injection.trigger = point
  \/ /\ point = "after_tool"
     /\ \/ injection.trigger = "after_tool" /\ injection.after_tool = tool
        \/ injection.trigger = "after_nth_tool" /\ injection.after_nth_tool = count
        \/ /\ injection.trigger = "after_event"
           /\ injection.after_event \in {EventType(e) : e \in Elements(events)}
  \/ point = "before_worker" /\ injection.trigger = "at_time"

Due(point, tool, count) ==
  {i \in DOMAIN Schedule \ delivered : Matches(i, point, tool, count)}

InjectionPoints == {"before_worker", "after_tool", "before_terminal"}

\* One after the other, in the order of the schedule.
DeliverInjection ==
  /\ pc \in InjectionPoints
  /\ schema = "live"
  /\ \E i \in due :
       /\ \A j \in due : i <= j
       /\ due' = due \ {i}
       /\ delivered' = delivered \cup {i}
       /\ events' = Append(events, InjectionEvent(i))
  /\ UNCHANGED <<bridgeVars, leaseVars, adapterVars, traceVars, recordVars,
                 pc, after, timers, cut>>

\* All are delivered; the schedule may have exceeded its limit.
InjectionsDelivered ==
  /\ pc \in InjectionPoints
  /\ due = {}
  /\ \/ Cardinality(delivered) > limits.injections /\ Raise("injection_budget_exceeded")
     \/ /\ Cardinality(delivered) <= limits.injections
        /\ \/ pc = "before_terminal" /\ Return("completed")
           \/ /\ pc # "before_terminal"
              /\ pc' = IF pc = "before_worker" THEN "start" ELSE "turn"
              /\ UNCHANGED <<after, terminal, incomplete>>
  /\ current' = NoCall
  /\ UNCHANGED <<bridgeVars, leaseVars, adapterVars, callTrace, resultTrace, used, held,
                 draft, worldVars, snapshot, cleaned, timers, cut>>

\* One of them fails; those before it stay delivered.
InjectionFails ==
  /\ pc \in InjectionPoints
  /\ due # {}
  /\ Raise("injection_error")
  /\ due' = {}
  /\ current' = NoCall
  /\ UNCHANGED <<bridgeVars, leaseVars, adapterVars, callTrace, resultTrace, used, held,
                 draft, delivered, events, snapshot, cleaned, timers, cut>>

\* After a tool, the world's events are read first: their types trigger
\* injections, and so do the tool just called and the number of calls.
ReadEvents ==
  /\ pc = "read_events"
  /\ schema = "live"
  /\ due' = Due("after_tool", ToolOf[current], used.calls)
  /\ pc' = "after_tool"
  /\ UNCHANGED <<bridgeVars, leaseVars, adapterVars, traceVars, delivered, events,
                 recordVars, after, timers, cut>>

EventsUnreadable ==
  /\ pc = "read_events"
  /\ RaiseUnexpected
  /\ current' = NoCall
  /\ UNCHANGED <<bridgeVars, leaseVars, adapterVars, callTrace, resultTrace, used, held, draft,
                 worldVars, snapshot, cleaned, timers, cut>>

-----------------------------------------------------------------------------
(* Getting ready.                                                          *)

\* PostgresWorld.reset creates the world and then reads its first snapshot, with
\* which the runner goes on to the injections due before the worker.
ResetWorld ==
  /\ pc = "reset"
  /\ CreateWorld
  /\ pc' = "first_snapshot"
  /\ UNCHANGED <<bridgeVars, adapterVars, traceVars, worldVars, recordVars, after, timers, cut>>

FirstSnapshot ==
  /\ pc = "first_snapshot"
  /\ schema = "live"
  /\ due' = Due("before_worker", "none", 0)
  /\ pc' = "before_worker"
  /\ UNCHANGED <<bridgeVars, leaseVars, adapterVars, traceVars, delivered, events, recordVars,
                 after, timers, cut>>

\* Either half fails: the world was never created, or it is left to close.
ResetFails ==
  /\ pc \in {"reset", "first_snapshot"}
  /\ RaiseUnexpected
  /\ UNCHANGED <<bridgeVars, leaseVars, adapterVars, traceVars, worldVars,
                 snapshot, cleaned, timers, cut>>

\* The adapter's start: an SDK that owns its loop runs in a task of its own.
StartWorker ==
  /\ pc = "start"
  /\ provider' = IF Bridged THEN "running" ELSE "none"
  /\ pc' = "turn"
  /\ UNCHANGED <<bridgeVars, leaseVars, sdk, limits, late, endedPending, cancelled, cancelFailed,
                 traceVars, worldVars, recordVars, after, timers, cut>>

-----------------------------------------------------------------------------
(* The SDK's side.                                                         *)

\* The SDK's callbacks may outlive its task: the bridge takes their requests
\* until it is closed.
ProviderSubmits(c) ==
  /\ provider # "none"
  /\ Submit(c)
  /\ late' = late \cup {d \in {c} : provider # "running"}
  /\ UNCHANGED <<leaseVars, sdk, limits, provider, endedPending, cancelled, cancelFailed,
                 traceVars, worldVars, recordVars, pc, after, timers, cut>>

ProviderAbandons(c) ==
  /\ provider # "none"
  /\ Abandon(c)
  /\ UNCHANGED <<leaseVars, adapterVars, traceVars, worldVars, recordVars, pc, after, timers, cut>>

\* What each SDK's exceptions become (LangGraphRuntime and OpenAIAgentsRuntime,
\* run_with_tools): failures of the model service are the provider's, all
\* others the adapter's; a cancellation stays one.
SdkFailures == {"service", "internal_server", "behaviour", "other"}
FailureOf(failure) ==
  IF failure = "service" \/ (failure = "internal_server" /\ sdk = "openai-agents")
    THEN "provider_error" ELSE "adapter_error"

ProviderEnds ==
  /\ provider = "running"
  /\ provider' \in {"completed", "cancelled"} \cup {FailureOf(f) : f \in SdkFailures}
  /\ UNCHANGED <<bridgeVars, leaseVars, sdk, limits, late, endedPending, cancelled, cancelFailed,
                 traceVars, worldVars, recordVars, pc, after, timers, cut>>

-----------------------------------------------------------------------------
(* One turn of the worker.                                                 *)

RecordTurn(call, result) ==
  /\ callTrace' = Noted(callTrace, call)
  /\ resultTrace' = Noted(resultTrace, result)

Counted(calls, mutations) ==
  used' = [turns |-> used.turns + 1, calls |-> used.calls + calls,
           mutations |-> used.mutations + mutations]

\* The call of a turn, unless it is one too many.
CallTool(c) ==
  LET mutates == c \in MutationCalls
      invoked == /\ used.calls < limits.tool_calls
                 /\ mutates => used.mutations < limits.mutations
  IN  /\ UNCHANGED due
      /\ \/ /\ invoked
            /\ Counted(1, IF mutates THEN 1 ELSE 0)
            /\ current' = c
            /\ pc' = "invoke"
            /\ UNCHANGED <<after, terminal, incomplete>>
         \/ /\ ~invoked
            /\ Counted(1, 0)
            /\ current' = NoCall
            /\ StartCancel("budget_exceeded")
            /\ UNCHANGED <<terminal, incomplete>>

\* A turn without a call: the last one, or not even that; or the adapter says
\* that the SDK ended with calls pending.
NoToolCalled(turn, final) ==
  /\ Counted(0, 0)
  /\ current' = NoCall
  /\ \/ endedPending' /\ CancelForEvidence("adapter_error", TRUE) /\ UNCHANGED due
     \/ /\ ~endedPending' /\ final
        /\ due' = Due("before_terminal", "none", 0)
        /\ pc' = "before_terminal"
        /\ UNCHANGED <<after, terminal, incomplete>>
     \/ /\ ~endedPending' /\ ~final /\ turn.call = NoCall
        /\ Return("worker_error")
        /\ UNCHANGED due

\* A turn reaches the runner.  The token and cost budgets come first, and what
\* they refuse joins the trace only when the worker is cancelled; any other
\* turn joins it before a tool is invoked.
OverTokensOrCost(turn) ==
  /\ StartCancel("budget_exceeded")
  /\ draft' = turn
  /\ Counted(0, 0)
  /\ UNCHANGED <<callTrace, resultTrace, current, due, terminal, incomplete>>

HandleTurn(turn, final) ==
  \/ OverTokensOrCost(turn)
  \/ /\ RecordTurn(turn.call, turn.result)
     /\ UNCHANGED draft
     /\ \/ NoToolCalled(turn, final)
        \/ ~endedPending' /\ ~final /\ turn.call # NoCall /\ CallTool(turn.call)

\* next_turn raised: the result it was given still joins the trace.
TurnRaises ==
  /\ RecordTurn(NoCall, held)
  /\ UNCHANGED <<used, current, draft>>

CanTurn == pc = "turn" /\ used.turns < limits.worker_turns

NoTurnsLeft ==
  /\ pc = "turn"
  /\ used.turns >= limits.worker_turns
  /\ StartCancel("budget_exceeded")
  /\ UNCHANGED <<bridgeVars, leaseVars, adapterVars, traceVars, worldVars, recordVars, timers, cut>>

\* The first half of _next_bridge_turn: hand over the result, then wait for a
\* request or for the end of the SDK's task.
EnterTurn ==
  /\ CanTurn
  /\ Bridged
  /\ held # NoCall => CanResolve(held)
  /\ endedPending' = (endedPending \/ (ProviderEnded /\ Pending # {}))
  /\ IF held = NoCall THEN UNCHANGED bridgeVars ELSE Resolve(held)
  /\ IF endedPending'
       THEN CancelForEvidence("adapter_error", TRUE) /\ TurnRaises
       ELSE /\ pc' = "waiting"
            /\ UNCHANGED <<callTrace, resultTrace, used, current, draft, after, terminal,
                           incomplete>>
  /\ UNCHANGED <<leaseVars, sdk, limits, late, provider, cancelled, cancelFailed, held, worldVars,
                 snapshot, cleaned, timers, cut>>

\* The callback the result is for was cancelled in the meantime.
ResultUnwanted ==
  /\ CanTurn
  /\ Bridged
  /\ held # NoCall /\ ~CanResolve(held)
  /\ endedPending' = (endedPending \/ (ProviderEnded /\ Pending # {}))
  /\ TurnRaises
  /\ Raise("adapter_error")
  /\ UNCHANGED <<bridgeVars, leaseVars, sdk, limits, late, provider, cancelled, cancelFailed, held,
                 worldVars, snapshot, cleaned, timers, cut>>

TakeCall ==
  /\ pc = "waiting"
  /\ Bridged
  /\ NextCall
  /\ endedPending' = ProviderEnded
  /\ HandleTurn([call |-> Head(queue), result |-> held], FALSE)
  /\ held' = NoCall
  /\ UNCHANGED <<leaseVars, sdk, limits, late, provider, cancelled, cancelFailed, delivered, events,
                 snapshot, cleaned, timers, cut>>

\* The SDK's task ended first.  A callback that still waits, or a request that
\* came meanwhile, spoils the evidence; otherwise the task's own outcome is the
\* last turn, or is raised.
ProviderDone ==
  /\ pc = "waiting"
  /\ ProviderEnded
  /\ endedPending' = (Pending # {} \/ queue # <<>>)
  /\ \/ /\ provider = "completed" /\ ~endedPending'
        /\ HandleTurn([call |-> NoCall, result |-> held], TRUE)
     \/ /\ endedPending'
        /\ CancelForEvidence("adapter_error", TRUE)
        /\ TurnRaises
        /\ UNCHANGED due
     \/ /\ provider = "cancelled" /\ ~endedPending'
        /\ CancelForEvidence("cancelled", FALSE)
        /\ UNCHANGED <<callTrace, resultTrace, used, current, draft, due>>
     \/ /\ provider \in {"provider_error", "adapter_error"} /\ ~endedPending'
        /\ Raise(provider)
        /\ TurnRaises
        /\ UNCHANGED due
  /\ held' = NoCall
  /\ UNCHANGED <<bridgeVars, leaseVars, sdk, limits, late, provider, cancelled, cancelFailed,
                 delivered, events, snapshot, cleaned, timers, cut>>

\* Without a bridge the runtime decides: a call, a message that ends the run or
\* one that does not.
Decide ==
  /\ CanTurn
  /\ ~Bridged
  /\ UNCHANGED endedPending
  /\ \E c \in (Calls \ Elements(Taken)) \cup {NoCall}, final \in BOOLEAN :
       HandleTurn([call |-> c, result |-> held], final)
  /\ held' = NoCall
  /\ UNCHANGED <<bridgeVars, leaseVars, sdk, limits, late, provider, cancelled, cancelFailed,
                 delivered, events, snapshot, cleaned, timers, cut>>

DecideFails ==
  /\ CanTurn
  /\ ~Bridged
  /\ TurnRaises
  /\ Raise("adapter_error")
  /\ UNCHANGED <<bridgeVars, leaseVars, adapterVars, held, worldVars, snapshot, cleaned, timers, cut>>

-----------------------------------------------------------------------------
(* The tool call.                                                          *)

Committed(c) == CallEvent(c) \in Elements(events)

\* The transaction of a mutating tool: its effect and its event.
ToolCommits ==
  /\ pc = "invoke"
  /\ current \in MutationCalls
  /\ ~Committed(current)
  /\ schema = "live"
  /\ events' = Append(events, CallEvent(current))
  /\ UNCHANGED <<bridgeVars, leaseVars, adapterVars, traceVars, due, delivered, recordVars,
                 pc, after, timers, cut>>

ToolSucceeds ==
  /\ pc = "invoke"
  /\ schema = "live"
  /\ current \in MutationCalls => Committed(current)
  /\ held' = current
  /\ pc' = "read_events"
  /\ UNCHANGED <<bridgeVars, leaseVars, adapterVars, callTrace, resultTrace, used, current,
                 draft, worldVars, recordVars, after, timers, cut>>

\* An error result: a rejection, a database that refuses, or one whose reply to
\* COMMIT is lost, and then the effect stands.  Only an SDK's own loop gets to see
\* it, and no injection is delivered after it.
ToolRejects ==
  /\ pc = "invoke"
  /\ current' = NoCall
  /\ IF Bridged
       THEN /\ held' = current
            /\ pc' = "turn"
            /\ UNCHANGED <<callTrace, resultTrace, after, terminal, incomplete>>
       ELSE /\ RecordTurn(NoCall, current)
            /\ Return("tool_error")
            /\ UNCHANGED held
  /\ UNCHANGED <<bridgeVars, leaseVars, adapterVars, used, draft, worldVars,
                 snapshot, cleaned, timers, cut>>

ToolBreaks ==
  /\ pc = "invoke"
  /\ current' = NoCall
  /\ RaiseUnexpected
  /\ UNCHANGED <<bridgeVars, leaseVars, adapterVars, callTrace, resultTrace, used, held, draft,
                 worldVars, snapshot, cleaned, timers, cut>>

\* tool_timeout_s: the invocation is cancelled, before or after its commit.
ToolTimesOut ==
  /\ pc = "invoke"
  /\ current' = NoCall
  /\ StartCancel("tool_timeout")
  /\ UNCHANGED <<bridgeVars, leaseVars, adapterVars, callTrace, resultTrace, used, held, draft,
                 worldVars, recordVars, timers, cut>>

-----------------------------------------------------------------------------
(* Cancelling the worker: NativeAdapter.cancel under a two second timer.   *)

InBody == after # "evidence"      \* _cancel_or_raise, not the handler's

\* The adapter cancels once; the bridge closes before the runtime is asked.
CancelBegins ==
  /\ pc = "cancel"
  /\ cancelled' = TRUE
  /\ IF cancelled
       THEN pc' = "cancelled" /\ UNCHANGED <<bridgeVars, timers>>
       ELSE /\ pc' = "cancel_runtime"
            /\ timers' = timers \cup {"cancel"}
            /\ IF provider # "none" THEN CloseBridge ELSE UNCHANGED bridgeVars
  /\ UNCHANGED <<leaseVars, sdk, limits, late, provider, endedPending, cancelFailed, traceVars,
                 worldVars, recordVars, after, cut>>

\* The runtime's cancel returns, or raises, which the adapter keeps to itself.
RuntimeCancels ==
  /\ pc = "cancel_runtime"
  /\ cancelFailed' \in {cancelFailed, TRUE}
  /\ pc' = "join"
  /\ UNCHANGED <<bridgeVars, leaseVars, sdk, limits, late, provider, endedPending, cancelled, traceVars,
                 worldVars, recordVars, after, timers, cut>>

\* The SDK's task is cancelled and awaited.  An obedient one ends.
ProviderObeys ==
  /\ Obedient
  /\ pc = "join"
  /\ provider = "running"
  /\ provider' = "cancelled"
  /\ UNCHANGED <<bridgeVars, leaseVars, sdk, limits, late, endedPending, cancelled, cancelFailed,
                 traceVars, worldVars, recordVars, pc, after, timers, cut>>

ProviderJoined ==
  /\ pc = "join"
  /\ provider # "running"
  /\ cut' = "none"
  /\ \/ /\ cut = "none"
        /\ pc' = "cancelled"
        /\ UNCHANGED <<after, draft, terminal, incomplete, timers, current>>
     \/ /\ cut = "cancel"
        /\ pc' = "evidence"
        /\ draft' = NoTurn
        /\ terminal' = IF InBody THEN "adapter_error" ELSE terminal
        /\ incomplete' = (incomplete \/ ~InBody)
        /\ UNCHANGED <<after, timers, current>>
     \/ /\ cut = "wall"
        /\ CancelForEvidence("timeout", FALSE)
        /\ draft' = NoTurn
        /\ timers' = timers \ {"cancel"}
        /\ UNCHANGED current
  /\ UNCHANGED <<bridgeVars, leaseVars, adapterVars, callTrace, resultTrace, used, held, worldVars,
                 snapshot, cleaned>>

\* The worker is cancelled: on to what the runner had in mind.
CancelReturns ==
  /\ pc = "cancelled"
  /\ timers' = timers \ {"cancel"}
  /\ draft' = NoTurn
  /\ RecordTurn(draft.call, draft.result)
  /\ IF InBody
       THEN terminal' = after /\ pc' = "collect"
       ELSE pc' = "evidence" /\ UNCHANGED terminal
  /\ UNCHANGED <<bridgeVars, leaseVars, adapterVars, used, held, current, worldVars,
                 after, incomplete, snapshot, cleaned, cut>>

\* Mutant: the timer does not cover the runtime's own cancel.
CancelTimesOutInJoin ==
  /\ "cancel" \in timers
  /\ pc = "join"
  /\ timers' = timers \ {"cancel"}
  /\ cut' = IF cut = "none" THEN "cancel" ELSE cut
  /\ UNCHANGED <<bridgeVars, leaseVars, adapterVars, traceVars, worldVars, recordVars,
                 pc, after>>

\* Two seconds passed.  A runtime that hangs is cut short, and the timer is
\* spent.  While the adapter gathers the SDK's task, the cancellation is passed
\* on to that task and reaches the runner only once the task has ended: then
\* the body raises it (its turn is lost) and the handler records it.
CancelTimesOut ==
  /\ "cancel" \in timers
  /\ timers' = timers \ {"cancel"}
  /\ \/ /\ pc = "cancel_runtime"
        /\ cancelFailed' = TRUE
        /\ pc' = "join"
        /\ UNCHANGED cut
     \/ /\ pc = "join"
        /\ cut' = IF cut = "none" THEN "cancel" ELSE cut
        /\ UNCHANGED <<pc, cancelFailed>>
  /\ UNCHANGED <<bridgeVars, leaseVars, sdk, limits, late, provider, endedPending, cancelled,
                 traceVars, worldVars, recordVars, after>>

-----------------------------------------------------------------------------
(* The wall clock and an outer cancellation.                               *)

\* limits.wall_time_s bounds _execute.  While the adapter waits for its
\* runtime's cancel, it takes the cancellation for the runtime's failure; while
\* it gathers the SDK's task, the cancellation waits for that task.
WallTimesOut ==
  /\ "wall" \in timers
  /\ \/ /\ \/ pc \in {"waiting", "invoke", "read_events", "after_tool", "before_terminal"}
           \/ pc = "turn" /\ ~Bridged
        /\ CancelForEvidence("timeout", FALSE)
        /\ due' = {}
        /\ current' = NoCall
        /\ UNCHANGED <<cancelFailed, cut>>
     \/ /\ pc = "cancel_runtime"
        /\ InBody
        /\ cancelFailed' = TRUE
        /\ pc' = "join"
        /\ UNCHANGED <<terminal, incomplete, after, current, due, cut>>
     \/ /\ pc = "join"
        /\ InBody
        /\ cut' = "wall"
        /\ UNCHANGED <<terminal, incomplete, after, current, due, cancelFailed, pc>>
  /\ timers' = timers \ {"wall"}
  /\ UNCHANGED <<bridgeVars, leaseVars, sdk, limits, late, provider, endedPending, cancelled,
                 callTrace, resultTrace, used, held, draft, delivered, events, snapshot,
                 cleaned>>

\* Whoever awaits the run cancels it; the handler swallows the cancellation.
RunCancelled ==
  /\ \/ pc \in {"reset", "first_snapshot", "before_worker", "start", "waiting", "invoke", "read_events",
                "after_tool", "before_terminal", "collect"}
     \/ pc = "turn" /\ ~Bridged
  /\ CancelForEvidence("cancelled", FALSE)
  /\ due' = {}
  /\ timers' = timers \ {"wall"}
  /\ current' = NoCall
  /\ UNCHANGED <<bridgeVars, leaseVars, adapterVars, callTrace, resultTrace, used, held,
                 draft, delivered, events, snapshot, cleaned, cut>>

-----------------------------------------------------------------------------
(* The evidence and the end.                                               *)

TakeSnapshot ==
  /\ pc \in {"collect", "evidence"}
  /\ schema = "live"
  /\ snapshot' = events
  /\ pc' = "close"
  /\ timers' = timers \ {"wall"}
  /\ UNCHANGED <<bridgeVars, leaseVars, adapterVars, traceVars, worldVars, terminal,
                 incomplete, cleaned, after, cut>>

\* Mutant: a handler's failure leaves the evidence complete.
SnapshotFailsUnnoticed ==
  /\ pc \in {"collect", "evidence"}
  /\ terminal' = IF pc = "collect" THEN "infrastructure_error" ELSE terminal
  /\ pc' = "close"
  /\ timers' = timers \ {"wall"}
  /\ UNCHANGED <<bridgeVars, leaseVars, adapterVars, traceVars, worldVars, incomplete,
                 snapshot, cleaned, after, cut>>

\* After a normal end the failure is the run's; a handler only notes it.
SnapshotFails ==
  /\ pc \in {"collect", "evidence"}
  /\ terminal' = IF pc = "collect" THEN "infrastructure_error" ELSE terminal
  /\ incomplete' = TRUE
  /\ pc' = "close"
  /\ timers' = timers \ {"wall"}
  /\ UNCHANGED <<bridgeVars, leaseVars, adapterVars, traceVars, worldVars, snapshot,
                 cleaned, after, cut>>

\* close, and what becomes of its failure and of the adapter's.
CloseWorld ==
  /\ pc = "close"
  /\ pc' = "done"
  /\ \/ CloseDrops /\ cleaned' = TRUE /\ incomplete' = (incomplete \/ cancelFailed)
     \/ CloseRaises /\ cleaned' = FALSE /\ incomplete' = TRUE
  /\ UNCHANGED <<bridgeVars, adapterVars, traceVars, worldVars, terminal, snapshot,
                 after, timers, cut>>

\* The lease, its renewal and the operator's cleanup go their own way.
LeaseMoves ==
  /\ Renew \/ RenewalFails \/ LeaseExpires \/ CleanupAbandoned
  /\ UNCHANGED <<bridgeVars, adapterVars, traceVars, worldVars, recordVars, pc, after, timers, cut>>

-----------------------------------------------------------------------------
Preparation == ResetWorld \/ FirstSnapshot \/ ResetFails \/ StartWorker
Injecting == DeliverInjection \/ InjectionsDelivered \/ InjectionFails
               \/ ReadEvents \/ EventsUnreadable
Turn == NoTurnsLeft \/ EnterTurn \/ ResultUnwanted \/ TakeCall \/ ProviderDone
Cancellation == CancelBegins \/ ProviderObeys \/ ProviderJoined \/ CancelReturns
Ending == TakeSnapshot \/ SnapshotFails \/ CloseWorld
RunnerStep == Preparation \/ Injecting \/ Turn \/ Cancellation \/ Ending

Timeouts == ToolTimesOut \/ CancelTimesOut \/ WallTimesOut

\* What a tool, a native runtime, an SDK and the operator do, or never do.
Invocation == ToolCommits \/ ToolSucceeds \/ ToolRejects \/ ToolBreaks
Runtime == Decide \/ DecideFails \/ RuntimeCancels
Provider == ProviderEnds \/ \E c \in Calls : ProviderSubmits(c) \/ ProviderAbandons(c)

Next == RunnerStep \/ Timeouts \/ Invocation \/ Runtime \/ Provider
        \/ RunCancelled \/ LeaseMoves

Spec == Init /\ [][Next]_vars

\* The event loop runs the runner's task whenever it can go on, the database
\* answers what is not under a timer, and timers fire.  Nothing else is fair.
FairSpec == Spec /\ WF_vars(RunnerStep) /\ WF_vars(Timeouts)

-----------------------------------------------------------------------------
(* Properties.                                                             *)

PCs == {"reset", "first_snapshot", "before_worker", "start", "turn", "waiting", "invoke",
        "read_events", "after_tool", "before_terminal", "cancel", "cancel_runtime", "join", "cancelled", "collect",
        "evidence", "close", "done"}
TerminalReasons ==
  {"completed", "worker_error", "tool_error", "tool_timeout", "timeout", "cancelled",
   "budget_exceeded", "injection_budget_exceeded", "injection_error", "adapter_error",
   "provider_error", "infrastructure_error"}
Turns == [call : Calls \cup {NoCall}, result : Calls \cup {NoCall}]
Events == [kind : {"call"}, of : Calls] \cup [kind : {"injection"}, of : DOMAIN Schedule]

AdapterTypeOK ==
  /\ sdk \in Sdks /\ limits \in Limits
  /\ provider \in {"none", "running", "completed", "cancelled", "provider_error",
                   "adapter_error"}
  /\ late \subseteq Calls
  /\ endedPending \in BOOLEAN /\ cancelled \in BOOLEAN /\ cancelFailed \in BOOLEAN
TraceTypeOK ==
  /\ callTrace \in Seq(Calls) /\ resultTrace \in Seq(Calls)
  /\ used \in [turns : Nat, calls : Nat, mutations : Nat]
  /\ held \in Calls \cup {NoCall} /\ current \in Calls \cup {NoCall}
  /\ draft \in Turns
InjectionTypeOK ==
  /\ due \subseteq DOMAIN Schedule /\ delivered \subseteq DOMAIN Schedule
  /\ events \in Seq(Events)
RecordTypeOK ==
  /\ terminal \in TerminalReasons
  /\ incomplete \in BOOLEAN /\ cleaned \in BOOLEAN
  /\ snapshot \in Seq(Events) \cup {NoSnapshot}
FlowTypeOK ==
  /\ pc \in PCs
  /\ after \in {"none", "budget_exceeded", "tool_timeout", "evidence"}
  /\ timers \subseteq {"wall", "cancel"}
  /\ cut \in {"none", "cancel", "wall"}

\* Types of the run's state (Runner.run's locals, NativeAdapter, NativeToolBridge).
RunTypeOK ==
  /\ BridgeTypeOK /\ LeaseTypeOK /\ AdapterTypeOK /\ TraceTypeOK
  /\ InjectionTypeOK /\ RecordTypeOK /\ FlowTypeOK

\* The runner serves an SDK's requests in the order of their submission, none
\* twice and none skipped, and a callback is answered only once its own call is
\* over (NativeToolBridge.submit, next_call and resolve; _next_bridge_turn).
ServedInOrder ==
  Bridged =>
    /\ ~closed => Taken \o queue = seen
    /\ Len(Taken) <= Len(seen) /\ \A i \in DOMAIN Taken : Taken[i] = seen[i]
    /\ \A c \in Calls : callback[c] = "answered" => c \in Elements(Taken) \ {current}

\* A record whose evidence is complete saw all of its world: the final snapshot
\* has every event there ever was, every effect belongs to a call of the trace,
\* and neither schema nor lease is left (Runner.run; close; cleanup_abandoned
\* may have dropped the schema, the renewal task may have died).
CompleteRecordsSawTheirWorld ==
  pc = "done" /\ ~incomplete =>
    /\ snapshot = events
    /\ \A c \in Calls : Committed(c) => c \in Elements(callTrace)
    /\ schema = "absent" /\ lease = "none" /\ cleaned

\* A run that completed has the SDK's whole conversation: its task returned, and
\* every request, but those that came after its end, is in the trace with its
\* result, in order, and answered.  A run that was cut short by a budget, a timer
\* or a cancellation leaves no task of the SDK and no callback behind
\* (Runner._execute; NativeAdapter.cancel).
EndsSettled ==
  pc = "done" /\ ~incomplete =>
    /\ terminal = "completed" /\ Bridged =>
         /\ provider = "completed"
         /\ resultTrace = callTrace
         /\ Elements(seen) \ late \subseteq Elements(callTrace)
         /\ \A c \in Elements(callTrace) : callback[c] = "answered"
    /\ terminal \in {"timeout", "cancelled", "budget_exceeded", "tool_timeout"} =>
         provider # "running" /\ Pending = {}

\* What the run makes of an SDK that calls tools concurrently is one serial
\* tool server: effects in the order of the requests, answers in that order, and
\* no effect after the answer (Runner._execute, _next_bridge_turn, the bridge).
Serial == INSTANCE SerialTools WITH
            asked <- IF Bridged THEN seen ELSE <<>>,
            applied <- IF Bridged THEN {c \in Calls : Committed(c)} ELSE {},
            answered <- IF Bridged THEN {c \in Calls : callback[c] = "answered"} ELSE {}

ImplementsSerialTools == Serial!SerialSpec

\* Every run ends and yields a record, whatever its world, its timers and its
\* cancellation do and however its SDK fails, hangs or ends, as long as the SDK's
\* task ends when it is cancelled (Runner.run; _cancel_for_evidence is bounded "so
\* a broken adapter cannot hang evidence finalization").
RunEnds == <>(pc = "done")
=============================================================================
