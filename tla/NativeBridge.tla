---------------------------- MODULE NativeBridge ----------------------------
(***************************************************************************)
(* The bridge between an agent SDK and the runner of one evaluation        *)
(* (native_bridge.NativeToolBridge).  The SDK owns its model loop and calls *)
(* tools concurrently; each tool callback submits a request and waits on a *)
(* future.  The runner takes the requests one at a time, in the order of   *)
(* their submission, and hands each result to the callback that asked.     *)
(***************************************************************************)
EXTENDS Naturals, Sequences

CONSTANTS
  Calls,       \* the request ids an SDK may use for its tool calls
  NoCall       \* the absence of a call (None in the code)

ASSUME NoCallIsNoCall == NoCall \notin Calls

VARIABLES
  seen,        \* the request ids ever submitted, in the order of submission
  queue,       \* the requests the runner has not taken
  callback,    \* the future of every request id
  closed       \* the bridge was closed

bridgeVars == <<seen, queue, callback, closed>>

\* What the future of a request can be: a callback of a request id that was
\* never submitted is "new"; "abandoned" is a callback the SDK cancelled.
CallbackState == {"new", "waiting", "answered", "interrupted", "abandoned"}

Elements(s) == {s[i] : i \in DOMAIN s}

BridgeTypeOK ==
  /\ seen \in Seq(Calls) /\ queue \in Seq(Calls)
  /\ callback \in [Calls -> CallbackState]
  /\ closed \in BOOLEAN

BridgeInit ==
  /\ seen = <<>>
  /\ queue = <<>>
  /\ callback = [c \in Calls |-> "new"]
  /\ closed = FALSE

\* pending_count: the callbacks that wait for a result.
Pending == {c \in Calls : callback[c] = "waiting"}

\* A closed bridge and a request id that was seen before raise in the
\* callback and leave the bridge as it is.
Submit(c) ==
  /\ ~closed
  /\ c \notin Elements(seen)
  /\ seen' = Append(seen, c)
  /\ queue' = Append(queue, c)
  /\ callback' = [callback EXCEPT ![c] = "waiting"]
  /\ UNCHANGED closed

\* The SDK cancels a callback; its request stays in the queue.
Abandon(c) ==
  /\ callback[c] = "waiting"
  /\ callback' = [callback EXCEPT ![c] = "abandoned"]
  /\ UNCHANGED <<seen, queue, closed>>

\* Mutant: the latest request first.
NextCallLast ==
  /\ queue # <<>>
  /\ queue' = SubSeq(queue, 1, Len(queue) - 1)
  /\ UNCHANGED <<seen, callback, closed>>

NextCall ==
  /\ queue # <<>>
  /\ queue' = Tail(queue)
  /\ UNCHANGED <<seen, callback, closed>>

\* resolve raises when the callback of the result no longer waits.
CanResolve(c) == callback[c] = "waiting"

\* Mutant: the result goes to any callback that waits.
ResolveAny(c) ==
  /\ \E d \in Pending : callback' = [callback EXCEPT ![d] = "answered"]
  /\ UNCHANGED <<seen, queue, closed>>

Resolve(c) ==
  /\ callback' = [callback EXCEPT ![c] = "answered"]
  /\ UNCHANGED <<seen, queue, closed>>

\* Mutant: the callbacks are left waiting.
CloseBridgeQuietly ==
  /\ closed' = TRUE
  /\ queue' = IF closed THEN queue ELSE <<>>
  /\ UNCHANGED <<seen, callback>>

\* Idempotent: every waiting callback fails and the queue is drained.
CloseBridge ==
  /\ closed' = TRUE
  /\ callback' = [c \in Calls |->
                    IF ~closed /\ callback[c] = "waiting" THEN "interrupted"
                    ELSE callback[c]]
  /\ queue' = IF closed THEN queue ELSE <<>>
  /\ UNCHANGED seen
=============================================================================
