---------------------------- MODULE RunPathProofs ----------------------------
(***************************************************************************)
(* Machine-checked proofs about RunPath: for any tools, schedule, limits and *)
(* SDKs, obedient or not, the runner serves an SDK as one serial tool server *)
(* and a record that claims complete evidence saw all of its world.          *)
(***************************************************************************)
EXTENDS RunPath, SequenceTheorems, TLAPS

(***************************************************************************)
(* Types                                                                   *)
(***************************************************************************)

Cancelling == {"cancel", "cancel_runtime", "join", "cancelled"}

\* A cancellation always knows what it is for.
TypeInv == RunTypeOK /\ (pc \in Cancelling => after # "none")

\* What joins a trace keeps its type.
LEMMA NotedType ==
  ASSUME NEW s \in Seq(Calls), NEW x \in Calls \cup {NoCall}
  PROVE  Noted(s, x) \in Seq(Calls)
  BY DEF Noted

\* One turn that reached the runner keeps the types, whatever it holds.
LEMMA HandleTurnType ==
  ASSUME TypeInv, NEW turn \in Turns, NEW final \in BOOLEAN,
         endedPending' \in BOOLEAN, UNCHANGED delivered, HandleTurn(turn, final)
  PROVE  /\ callTrace' \in Seq(Calls) /\ resultTrace' \in Seq(Calls)
         /\ draft' \in Turns /\ current' \in Calls \cup {NoCall}
         /\ used' \in [turns : Nat, calls : Nat, mutations : Nat]
         /\ due' \subseteq DOMAIN Schedule
         /\ pc' \in PCs /\ terminal' \in TerminalReasons /\ incomplete' \in BOOLEAN
         /\ after' \in {"none", "budget_exceeded", "tool_timeout", "evidence"}
         /\ pc' \in Cancelling => after' # "none"
  <1> USE DEF TypeInv, RunTypeOK, TraceTypeOK, InjectionTypeOK, RecordTypeOK, FlowTypeOK
  <1>1. turn.call \in Calls \cup {NoCall} /\ turn.result \in Calls \cup {NoCall}
    BY DEF Turns
  <1>2. Noted(callTrace, turn.call) \in Seq(Calls) /\ Noted(resultTrace, turn.result) \in Seq(Calls)
    BY <1>1, NotedType
  <1>3. CASE OverTokensOrCost(turn)
    BY <1>3 DEF OverTokensOrCost, Counted, StartCancel, PCs, Cancelling
  <1>4. CASE RecordTurn(turn.call, turn.result) /\ UNCHANGED draft /\ NoToolCalled(turn, final)
    BY <1>2, <1>4
       DEF RecordTurn, NoToolCalled, Counted, CancelForEvidence, StartCancel, Return, Due, PCs,
           TerminalReasons, Cancelling
  <1>5. CASE /\ RecordTurn(turn.call, turn.result) /\ UNCHANGED draft
             /\ turn.call # NoCall /\ CallTool(turn.call)
    BY <1>1, <1>2, <1>5
       DEF RecordTurn, CallTool, Counted, StartCancel, PCs, TerminalReasons, Cancelling
  <1> QED
    BY <1>3, <1>4, <1>5 DEF HandleTurn

\* The new run is well typed.
LEMMA InitTyped == Init => TypeInv
  <1> SUFFICES ASSUME Init
               PROVE  TypeInv
    OBVIOUS
  <1> USE DEF Init
  <1>1. BridgeTypeOK
    <2>1. seen \in Seq(Calls) /\ queue \in Seq(Calls)
      BY DEF BridgeInit
    <2>2. callback \in [Calls -> CallbackState] /\ closed \in BOOLEAN
      BY DEF BridgeInit, CallbackState
    <2> QED
      BY <2>1, <2>2 DEF BridgeTypeOK
  <1>2. LeaseTypeOK
    BY DEF LeaseInit, LeaseTypeOK
  <1>3. AdapterTypeOK
    BY DEF AdapterTypeOK
  <1>4. TraceTypeOK
    BY DEF TraceTypeOK, Turns, NoTurn
  <1>5. InjectionTypeOK
    BY DEF InjectionTypeOK, Events
  <1>6. RecordTypeOK
    BY DEF RecordTypeOK, TerminalReasons, NoSnapshot
  <1>7. FlowTypeOK
    BY DEF FlowTypeOK, PCs
  <1> QED
    BY <1>1, <1>2, <1>3, <1>4, <1>5, <1>6, <1>7 DEF TypeInv, RunTypeOK, Cancelling

\* Every step keeps the types.
LEMMA TypeStep ==
  ASSUME TypeInv, [Next]_vars
  PROVE  TypeInv'
  <1> USE DEF TypeInv, RunTypeOK, BridgeTypeOK, LeaseTypeOK, AdapterTypeOK, TraceTypeOK, InjectionTypeOK,
              RecordTypeOK, FlowTypeOK, CallbackState, PCs, TerminalReasons, Turns, Events, Cancelling,
              bridgeVars, leaseVars, adapterVars, traceVars, worldVars, recordVars
  <1>1. CASE ResetWorld
    BY <1>1 DEF ResetWorld, CreateWorld, Due
  <1>s. CASE FirstSnapshot
    BY <1>s DEF FirstSnapshot, Due
  <1>2. CASE ResetFails
    BY <1>2 DEF ResetFails, RaiseUnexpected
  <1>3. CASE StartWorker
    BY <1>3 DEF StartWorker
  <1>4. CASE DeliverInjection
    BY <1>4 DEF DeliverInjection, InjectionEvent, InjectionPoints
  <1>5. CASE InjectionsDelivered
    BY <1>5 DEF InjectionsDelivered, Raise, Return
  <1>6. CASE InjectionFails
    BY <1>6 DEF InjectionFails, Raise
  <1>7. CASE ReadEvents
    BY <1>7 DEF ReadEvents, Due
  <1>8. CASE EventsUnreadable
    BY <1>8 DEF EventsUnreadable, RaiseUnexpected
  <1>9. CASE NoTurnsLeft
    BY <1>9 DEF NoTurnsLeft, StartCancel
  <1>10. CASE EnterTurn
    <2>1. /\ BridgeTypeOK' /\ LeaseTypeOK' /\ AdapterTypeOK'
      <3>1. UNCHANGED <<leaseVars, sdk, limits, late, provider, cancelled, cancelFailed>>
        BY <1>10 DEF EnterTurn
      <3>2. endedPending' \in BOOLEAN
        BY <1>10 DEF EnterTurn
      <3>3. UNCHANGED bridgeVars \/ Resolve(held)
        BY <1>10 DEF EnterTurn
      <3>4. BridgeTypeOK'
        BY <3>3 DEF Resolve, CanResolve
      <3> QED
        BY <3>1, <3>2, <3>4
    <2>2. TraceTypeOK' /\ RecordTypeOK' /\ FlowTypeOK' /\ InjectionTypeOK'
          /\ (pc \in Cancelling => after # "none")'
      <3>1. UNCHANGED <<held, due, delivered, events, snapshot, cleaned, timers, cut>>
        BY <1>10 DEF EnterTurn
      <3>2. CASE endedPending'
        <4>1. CancelForEvidence("adapter_error", TRUE) /\ TurnRaises
          BY <1>10, <3>2 DEF EnterTurn
        <4>2. callTrace' \in Seq(Calls) /\ resultTrace' \in Seq(Calls)
          BY <4>1, NotedType DEF TurnRaises, RecordTurn
        <4>3. UNCHANGED <<used, current, draft>>
          BY <4>1 DEF TurnRaises
        <4> QED
          BY <3>1, <4>1, <4>2, <4>3 DEF CancelForEvidence, StartCancel
      <3>3. CASE ~endedPending'
        <4>1. /\ pc' = "waiting"
              /\ UNCHANGED <<callTrace, resultTrace, used, current, draft, after, terminal, incomplete>>
          BY <1>10, <3>3 DEF EnterTurn
        <4> QED
          BY <3>1, <4>1
      <3> QED
        BY <3>2, <3>3
    <2> QED
      BY <2>1, <2>2
  <1>11. CASE ResultUnwanted
    <2>1. RecordTurn(NoCall, held) => callTrace' \in Seq(Calls) /\ resultTrace' \in Seq(Calls)
      BY NotedType DEF RecordTurn
    <2> QED
      BY <1>11, <2>1 DEF ResultUnwanted, TurnRaises, Raise, RecordTurn
  <1>12. CASE TakeCall
    <2>1. Head(queue) \in Calls /\ queue' \in Seq(Calls) /\ endedPending' \in BOOLEAN
      BY <1>12, HeadTailProperties DEF TakeCall, NextCall, ProviderEnded
    <2>2. [call |-> Head(queue), result |-> held] \in Turns
      BY <2>1
    <2>3. BridgeTypeOK'
      BY <1>12, <2>1, <2>2, HandleTurnType DEF TakeCall, NextCall
    <2>4. LeaseTypeOK'
      BY <1>12, <2>1, <2>2, HandleTurnType DEF TakeCall, NextCall
    <2>5. AdapterTypeOK'
      BY <1>12, <2>1, <2>2, HandleTurnType DEF TakeCall, NextCall
    <2>6. TraceTypeOK'
      BY <1>12, <2>1, <2>2, HandleTurnType DEF TakeCall, NextCall
    <2>7. InjectionTypeOK'
      BY <1>12, <2>1, <2>2, HandleTurnType DEF TakeCall, NextCall
    <2>8. RecordTypeOK'
      BY <1>12, <2>1, <2>2, HandleTurnType DEF TakeCall, NextCall
    <2>9. FlowTypeOK'
      BY <1>12, <2>1, <2>2, HandleTurnType DEF TakeCall, NextCall
    <2>10. (pc \in Cancelling => after # "none")'
      BY <1>12, <2>1, <2>2, HandleTurnType DEF TakeCall, NextCall
    <2> QED
      BY <2>3, <2>4, <2>5, <2>6, <2>7, <2>8, <2>9, <2>10
  <1>13. CASE ProviderDone
    <2>1. [call |-> NoCall, result |-> held] \in Turns /\ endedPending' \in BOOLEAN
      BY <1>13 DEF ProviderDone
    <2>2. CASE HandleTurn([call |-> NoCall, result |-> held], TRUE)
      <3>1. BridgeTypeOK'
        BY <1>13, <2>1, <2>2, HandleTurnType DEF ProviderDone
      <3>2. LeaseTypeOK'
        BY <1>13, <2>1, <2>2, HandleTurnType DEF ProviderDone
      <3>3. AdapterTypeOK'
        BY <1>13, <2>1, <2>2, HandleTurnType DEF ProviderDone
      <3>4. TraceTypeOK'
        BY <1>13, <2>1, <2>2, HandleTurnType DEF ProviderDone
      <3>5. InjectionTypeOK'
        BY <1>13, <2>1, <2>2, HandleTurnType DEF ProviderDone
      <3>6. RecordTypeOK'
        BY <1>13, <2>1, <2>2, HandleTurnType DEF ProviderDone
      <3>7. FlowTypeOK'
        BY <1>13, <2>1, <2>2, HandleTurnType DEF ProviderDone
      <3>8. (pc \in Cancelling => after # "none")'
        BY <1>13, <2>1, <2>2, HandleTurnType DEF ProviderDone
      <3> QED
        BY <3>1, <3>2, <3>3, <3>4, <3>5, <3>6, <3>7, <3>8
    <2>3. CASE ~HandleTurn([call |-> NoCall, result |-> held], TRUE)
      <3>1. RecordTurn(NoCall, held) => callTrace' \in Seq(Calls) /\ resultTrace' \in Seq(Calls)
        BY NotedType DEF RecordTurn
      <3>2. BridgeTypeOK'
        BY <1>13, <2>1, <2>3, <3>1 DEF ProviderDone, TurnRaises, Raise, CancelForEvidence, StartCancel,
             RecordTurn
      <3>3. LeaseTypeOK'
        BY <1>13, <2>1, <2>3, <3>1 DEF ProviderDone, TurnRaises, Raise, CancelForEvidence, StartCancel,
             RecordTurn
      <3>4. AdapterTypeOK'
        BY <1>13, <2>1, <2>3, <3>1 DEF ProviderDone, TurnRaises, Raise, CancelForEvidence, StartCancel,
             RecordTurn
      <3>5. TraceTypeOK'
        BY <1>13, <2>1, <2>3, <3>1 DEF ProviderDone, TurnRaises, Raise, CancelForEvidence, StartCancel,
             RecordTurn
      <3>6. InjectionTypeOK'
        BY <1>13, <2>1, <2>3, <3>1 DEF ProviderDone, TurnRaises, Raise, CancelForEvidence, StartCancel,
             RecordTurn
      <3>7. RecordTypeOK'
        BY <1>13, <2>1, <2>3, <3>1 DEF ProviderDone, TurnRaises, Raise, CancelForEvidence, StartCancel,
             RecordTurn
      <3>8. FlowTypeOK'
        BY <1>13, <2>1, <2>3, <3>1 DEF ProviderDone, TurnRaises, Raise, CancelForEvidence, StartCancel,
             RecordTurn
      <3>9. (pc \in Cancelling => after # "none")'
        BY <1>13, <2>1, <2>3, <3>1 DEF ProviderDone, TurnRaises, Raise, CancelForEvidence, StartCancel,
             RecordTurn
      <3> QED
        BY <3>2, <3>3, <3>4, <3>5, <3>6, <3>7, <3>8, <3>9
    <2> QED
      BY <2>2, <2>3
  <1>14. CASE Decide
    <2>1. PICK c \in Calls \cup {NoCall}, final \in BOOLEAN :
            HandleTurn([call |-> c, result |-> held], final)
      BY <1>14 DEF Decide
    <2>2. [call |-> c, result |-> held] \in Turns /\ endedPending' \in BOOLEAN
      BY <1>14 DEF Decide
    <2> QED
      BY <1>14, <2>1, <2>2, HandleTurnType DEF Decide
  <1>15. CASE DecideFails
    <2>1. RecordTurn(NoCall, held) => callTrace' \in Seq(Calls) /\ resultTrace' \in Seq(Calls)
      BY NotedType DEF RecordTurn
    <2> QED
      BY <1>15, <2>1 DEF DecideFails, TurnRaises, Raise, RecordTurn
  <1>16. CASE ToolCommits
    <2>1. BridgeTypeOK'
      BY <1>16, CallsAssumption DEF ToolCommits, CallEvent
    <2>2. LeaseTypeOK'
      BY <1>16, CallsAssumption DEF ToolCommits, CallEvent
    <2>3. AdapterTypeOK'
      BY <1>16, CallsAssumption DEF ToolCommits, CallEvent
    <2>4. TraceTypeOK'
      BY <1>16, CallsAssumption DEF ToolCommits, CallEvent
    <2>5. InjectionTypeOK'
      BY <1>16, CallsAssumption DEF ToolCommits, CallEvent
    <2>6. RecordTypeOK'
      BY <1>16, CallsAssumption DEF ToolCommits, CallEvent
    <2>7. FlowTypeOK'
      BY <1>16, CallsAssumption DEF ToolCommits, CallEvent
    <2>8. (pc \in Cancelling => after # "none")'
      BY <1>16, CallsAssumption DEF ToolCommits, CallEvent
    <2> QED
      BY <2>1, <2>2, <2>3, <2>4, <2>5, <2>6, <2>7, <2>8
  <1>17. CASE ToolSucceeds
    BY <1>17 DEF ToolSucceeds
  <1>18. CASE ToolRejects
    <2>1. RecordTurn(NoCall, current) => callTrace' \in Seq(Calls) /\ resultTrace' \in Seq(Calls)
      BY NotedType DEF RecordTurn
    <2> QED
      BY <1>18, <2>1 DEF ToolRejects, Return, RecordTurn
  <1>19. CASE ToolBreaks
    BY <1>19 DEF ToolBreaks, RaiseUnexpected
  <1>20. CASE ToolTimesOut
    BY <1>20 DEF ToolTimesOut, StartCancel
  <1>21. CASE CancelBegins
    <2>1. BridgeTypeOK'
      <3>1. seen' \in Seq(Calls) /\ queue' \in Seq(Calls)
        <4>1. seen' = seen /\ (queue' = queue \/ queue' = <<>>)
          BY <1>21 DEF CancelBegins, CloseBridge
        <4>2. <<>> \in Seq(Calls)
          BY EmptySeq
        <4> QED
          BY <4>1, <4>2
      <3>2. callback' \in [Calls -> CallbackState] /\ closed' \in BOOLEAN
        BY <1>21 DEF CancelBegins, CloseBridge
      <3> QED
        BY <3>1, <3>2
    <2>2. LeaseTypeOK'
      BY <1>21 DEF CancelBegins, CloseBridge
    <2>3. AdapterTypeOK'
      BY <1>21 DEF CancelBegins, CloseBridge
    <2>4. TraceTypeOK'
      BY <1>21 DEF CancelBegins, CloseBridge
    <2>5. InjectionTypeOK'
      BY <1>21 DEF CancelBegins, CloseBridge
    <2>6. RecordTypeOK'
      BY <1>21 DEF CancelBegins, CloseBridge
    <2>7. FlowTypeOK'
      BY <1>21 DEF CancelBegins, CloseBridge
    <2>8. (pc \in Cancelling => after # "none")'
      BY <1>21 DEF CancelBegins, CloseBridge
    <2> QED
      BY <2>1, <2>2, <2>3, <2>4, <2>5, <2>6, <2>7, <2>8
  <1>22. CASE RuntimeCancels
    <2>1. BridgeTypeOK'
      BY <1>22 DEF RuntimeCancels
    <2>2. LeaseTypeOK'
      BY <1>22 DEF RuntimeCancels
    <2>3. AdapterTypeOK'
      BY <1>22 DEF RuntimeCancels
    <2>4. TraceTypeOK'
      BY <1>22 DEF RuntimeCancels
    <2>5. InjectionTypeOK'
      BY <1>22 DEF RuntimeCancels
    <2>6. RecordTypeOK'
      BY <1>22 DEF RuntimeCancels
    <2>7. FlowTypeOK'
      BY <1>22 DEF RuntimeCancels
    <2>8. (pc \in Cancelling => after # "none")'
      BY <1>22 DEF RuntimeCancels
    <2> QED
      BY <2>1, <2>2, <2>3, <2>4, <2>5, <2>6, <2>7, <2>8
  <1>23. CASE ProviderObeys
    BY <1>23 DEF ProviderObeys
  <1>24. CASE ProviderJoined
    <2>1. CASE cut = "none"
      <3>1. BridgeTypeOK'
        BY <1>24, <2>1 DEF ProviderJoined, InBody
      <3>2. LeaseTypeOK'
        BY <1>24, <2>1 DEF ProviderJoined, InBody
      <3>3. AdapterTypeOK'
        BY <1>24, <2>1 DEF ProviderJoined, InBody
      <3>4. TraceTypeOK'
        BY <1>24, <2>1 DEF ProviderJoined, InBody
      <3>5. InjectionTypeOK'
        BY <1>24, <2>1 DEF ProviderJoined, InBody
      <3>6. RecordTypeOK'
        BY <1>24, <2>1 DEF ProviderJoined, InBody
      <3>7. FlowTypeOK'
        BY <1>24, <2>1 DEF ProviderJoined, InBody
      <3>8. (pc \in Cancelling => after # "none")'
        BY <1>24, <2>1 DEF ProviderJoined, InBody
      <3> QED
        BY <3>1, <3>2, <3>3, <3>4, <3>5, <3>6, <3>7, <3>8
    <2>2. CASE cut = "cancel"
      <3>1. BridgeTypeOK'
        BY <1>24, <2>2 DEF ProviderJoined, InBody, NoTurn
      <3>2. LeaseTypeOK'
        BY <1>24, <2>2 DEF ProviderJoined, InBody, NoTurn
      <3>3. AdapterTypeOK'
        BY <1>24, <2>2 DEF ProviderJoined, InBody, NoTurn
      <3>4. TraceTypeOK'
        BY <1>24, <2>2 DEF ProviderJoined, InBody, NoTurn
      <3>5. InjectionTypeOK'
        BY <1>24, <2>2 DEF ProviderJoined, InBody, NoTurn
      <3>6. RecordTypeOK'
        BY <1>24, <2>2 DEF ProviderJoined, InBody, NoTurn
      <3>7. FlowTypeOK'
        BY <1>24, <2>2 DEF ProviderJoined, InBody, NoTurn
      <3>8. (pc \in Cancelling => after # "none")'
        BY <1>24, <2>2 DEF ProviderJoined, InBody, NoTurn
      <3> QED
        BY <3>1, <3>2, <3>3, <3>4, <3>5, <3>6, <3>7, <3>8
    <2>3. CASE cut = "wall"
      <3>1. BridgeTypeOK'
        BY <1>24, <2>3 DEF ProviderJoined, CancelForEvidence, StartCancel, NoTurn
      <3>2. LeaseTypeOK'
        BY <1>24, <2>3 DEF ProviderJoined, CancelForEvidence, StartCancel, NoTurn
      <3>3. AdapterTypeOK'
        BY <1>24, <2>3 DEF ProviderJoined, CancelForEvidence, StartCancel, NoTurn
      <3>4. TraceTypeOK'
        BY <1>24, <2>3 DEF ProviderJoined, CancelForEvidence, StartCancel, NoTurn
      <3>5. InjectionTypeOK'
        BY <1>24, <2>3 DEF ProviderJoined, CancelForEvidence, StartCancel, NoTurn
      <3>6. RecordTypeOK'
        BY <1>24, <2>3 DEF ProviderJoined, CancelForEvidence, StartCancel, NoTurn
      <3>7. FlowTypeOK'
        BY <1>24, <2>3 DEF ProviderJoined, CancelForEvidence, StartCancel, NoTurn
      <3>8. (pc \in Cancelling => after # "none")'
        BY <1>24, <2>3 DEF ProviderJoined, CancelForEvidence, StartCancel, NoTurn
      <3> QED
        BY <3>1, <3>2, <3>3, <3>4, <3>5, <3>6, <3>7, <3>8
    <2> QED
      BY <2>1, <2>2, <2>3
  <1>25. CASE CancelReturns
    <2>1. callTrace' \in Seq(Calls) /\ resultTrace' \in Seq(Calls)
      BY <1>25, NotedType DEF CancelReturns, RecordTurn
    <2> QED
      BY <1>25, <2>1 DEF CancelReturns, InBody, NoTurn
  <1>26. CASE CancelTimesOut
    <2>1. BridgeTypeOK'
      BY <1>26 DEF CancelTimesOut
    <2>2. LeaseTypeOK'
      BY <1>26 DEF CancelTimesOut
    <2>3. AdapterTypeOK'
      BY <1>26 DEF CancelTimesOut
    <2>4. TraceTypeOK'
      BY <1>26 DEF CancelTimesOut
    <2>5. InjectionTypeOK'
      BY <1>26 DEF CancelTimesOut
    <2>6. RecordTypeOK'
      BY <1>26 DEF CancelTimesOut
    <2>7. FlowTypeOK'
      BY <1>26 DEF CancelTimesOut
    <2>8. (pc \in Cancelling => after # "none")'
      BY <1>26 DEF CancelTimesOut
    <2> QED
      BY <2>1, <2>2, <2>3, <2>4, <2>5, <2>6, <2>7, <2>8
  <1>27. CASE WallTimesOut
    <2>1. BridgeTypeOK'
      BY <1>27 DEF WallTimesOut, CancelForEvidence, StartCancel
    <2>2. LeaseTypeOK'
      BY <1>27 DEF WallTimesOut, CancelForEvidence, StartCancel
    <2>3. AdapterTypeOK'
      BY <1>27 DEF WallTimesOut, CancelForEvidence, StartCancel
    <2>4. TraceTypeOK'
      BY <1>27 DEF WallTimesOut, CancelForEvidence, StartCancel
    <2>5. InjectionTypeOK'
      BY <1>27 DEF WallTimesOut, CancelForEvidence, StartCancel
    <2>6. RecordTypeOK'
      BY <1>27 DEF WallTimesOut, CancelForEvidence, StartCancel
    <2>7. FlowTypeOK'
      BY <1>27 DEF WallTimesOut, CancelForEvidence, StartCancel
    <2>8. (pc \in Cancelling => after # "none")'
      BY <1>27 DEF WallTimesOut, CancelForEvidence, StartCancel
    <2> QED
      BY <2>1, <2>2, <2>3, <2>4, <2>5, <2>6, <2>7, <2>8
  <1>28. CASE RunCancelled
    BY <1>28 DEF RunCancelled, CancelForEvidence, StartCancel
  <1>29. CASE TakeSnapshot
    BY <1>29 DEF TakeSnapshot
  <1>30. CASE SnapshotFails
    BY <1>30 DEF SnapshotFails
  <1>31. CASE CloseWorld
    <2>1. BridgeTypeOK'
      BY <1>31 DEF CloseWorld, CloseDrops, CloseRaises
    <2>2. LeaseTypeOK'
      BY <1>31 DEF CloseWorld, CloseDrops, CloseRaises
    <2>3. AdapterTypeOK'
      BY <1>31 DEF CloseWorld, CloseDrops, CloseRaises
    <2>4. TraceTypeOK'
      BY <1>31 DEF CloseWorld, CloseDrops, CloseRaises
    <2>5. InjectionTypeOK'
      BY <1>31 DEF CloseWorld, CloseDrops, CloseRaises
    <2>6. RecordTypeOK'
      BY <1>31 DEF CloseWorld, CloseDrops, CloseRaises
    <2>7. FlowTypeOK'
      BY <1>31 DEF CloseWorld, CloseDrops, CloseRaises
    <2>8. (pc \in Cancelling => after # "none")'
      BY <1>31 DEF CloseWorld, CloseDrops, CloseRaises
    <2> QED
      BY <2>1, <2>2, <2>3, <2>4, <2>5, <2>6, <2>7, <2>8
  <1>32. CASE LeaseMoves
    BY <1>32 DEF LeaseMoves, Renew, RenewalFails, LeaseExpires, CleanupAbandoned
  <1>33. CASE ProviderEnds
    BY <1>33 DEF ProviderEnds, FailureOf, SdkFailures
  <1>34. ASSUME NEW c \in Calls, ProviderSubmits(c)
         PROVE  TypeInv'
    BY <1>34 DEF ProviderSubmits, Submit
  <1>35. ASSUME NEW c \in Calls, ProviderAbandons(c)
         PROVE  TypeInv'
    BY <1>35 DEF ProviderAbandons, Abandon
  <1>36. CASE UNCHANGED vars
    BY <1>36 DEF vars
  <1> QED
    BY <1>1, <1>s, <1>2, <1>3, <1>4, <1>5, <1>6, <1>7, <1>8, <1>9, <1>10, <1>11, <1>12, <1>13,
       <1>14, <1>15, <1>16, <1>17, <1>18, <1>19, <1>20, <1>21, <1>22, <1>23, <1>24, <1>25,
       <1>26, <1>27, <1>28, <1>29, <1>30, <1>31, <1>32, <1>33, <1>34, <1>35, <1>36
       DEF Next, RunnerStep, Preparation, Injecting, Turn, Cancellation, Ending, Timeouts,
           Invocation, Runtime, Provider

\* The run's state keeps its types, for any tools, schedule, limits and SDKs.
THEOREM RunTypes == Spec => []RunTypeOK
  <1>1. TypeInv => RunTypeOK
    BY DEF TypeInv
  <1> QED
    BY <1>1, InitTyped, TypeStep, PTL DEF Spec

(***************************************************************************)
(* Where the runner stands                                                 *)
(***************************************************************************)

IsLast(c) == callTrace # <<>> /\ c = callTrace[Len(callTrace)]

\* The call being invoked and the one whose result is held are the last of the
\* trace; a turn that waits for the cancellation holds no result back.
CurrentIsLast ==
  current # NoCall => pc \in {"invoke", "read_events", "after_tool"} /\ IsLast(current)
HeldIsLast == held # NoCall => IsLast(held)
DraftAwaitsCancel == draft # NoTurn => pc \in Cancelling /\ held = NoCall

\* Only an SDK's task submits, each request once; a closed bridge is empty, and
\* it is closed before the task is cancelled.
OnlySdksAsk == (~Bridged => provider = "none") /\ (provider = "none" => seen = <<>>)
ClosedIsEmpty == closed => queue = <<>>
CancelCloses == pc \in {"cancel_runtime", "join"} /\ provider # "none" => closed
AskedOnce == \A i, j \in DOMAIN seen : seen[i] = seen[j] => i = j

ServingInv ==
  /\ CurrentIsLast /\ HeldIsLast /\ DraftAwaitsCancel
  /\ OnlySdksAsk /\ ClosedIsEmpty /\ CancelCloses /\ AskedOnce

\* A call that joins a trace is its last one.
LEMMA NotedLast ==
  ASSUME NEW s \in Seq(Calls), NEW x \in Calls
  PROVE  Noted(s, x) = Append(s, x) /\ Noted(s, x) # <<>> /\ Noted(s, x)[Len(Noted(s, x))] = x
  BY NoCallIsNoCall, AppendProperties DEF Noted

\* What handling a turn does to the trace and to the flow.
LEMMA HandleTurnOrder ==
  ASSUME TypeInv, ServingInv, pc \in {"turn", "waiting"},
         NEW turn \in Turns, NEW final \in BOOLEAN, HandleTurn(turn, final)
  PROVE  /\ Taken' = Noted(callTrace, turn.call)
         /\ draft' = NoTurn => callTrace' = Noted(callTrace, turn.call)
         /\ draft' # NoTurn => draft' = turn /\ callTrace' = callTrace /\ pc' \in Cancelling
         /\ current' \in {NoCall, turn.call}
         /\ current' # NoCall => pc' = "invoke" /\ draft' = NoTurn
         /\ pc' \notin {"cancel_runtime", "join"}
  <1>1. current = NoCall /\ draft = NoTurn
    BY DEF ServingInv, CurrentIsLast, DraftAwaitsCancel, Cancelling
  <1>2. CASE OverTokensOrCost(turn)
    BY <1>1, <1>2 DEF OverTokensOrCost, StartCancel, Taken, Cancelling, Noted, NoTurn, Turns
  <1>3. CASE RecordTurn(turn.call, turn.result) /\ UNCHANGED draft /\ NoToolCalled(turn, final)
    BY <1>1, <1>3
       DEF RecordTurn, NoToolCalled, Taken, Noted, NoTurn, CancelForEvidence, StartCancel, Return
  <1>4. CASE RecordTurn(turn.call, turn.result) /\ UNCHANGED draft /\ CallTool(turn.call)
    BY <1>1, <1>4 DEF RecordTurn, CallTool, Taken, Noted, NoTurn, StartCancel
  <1> QED
    BY <1>2, <1>3, <1>4 DEF HandleTurn

\* A new run stands at its beginning.
LEMMA InitServing == Init => ServingInv
  BY DEF Init, BridgeInit, ServingInv, CurrentIsLast, HeldIsLast, DraftAwaitsCancel, OnlySdksAsk,
         ClosedIsEmpty, CancelCloses, AskedOnce

\* Every step keeps the runner's place.
LEMMA ServingStep ==
  ASSUME TypeInv, ServingInv, [Next]_vars
  PROVE  ServingInv'
  <1> USE DEF ServingInv, CurrentIsLast, HeldIsLast, DraftAwaitsCancel, OnlySdksAsk,
              ClosedIsEmpty, CancelCloses, AskedOnce, IsLast, Bridged, Cancelling, bridgeVars,
              adapterVars, traceVars
  <1>0. callTrace \in Seq(Calls) /\ seen \in Seq(Calls) /\ queue \in Seq(Calls)
        /\ held \in Calls \cup {NoCall} /\ current \in Calls \cup {NoCall} /\ draft \in Turns
    BY DEF TypeInv, RunTypeOK, BridgeTypeOK, TraceTypeOK
  <1>1. CASE ResetWorld
    BY <1>1, <1>0 DEF ResetWorld, CreateWorld, Due
  <1>s. CASE FirstSnapshot
    BY <1>s, <1>0 DEF FirstSnapshot, Due
  <1>2. CASE ResetFails
    BY <1>2, <1>0 DEF ResetFails, RaiseUnexpected
  <1>3. CASE StartWorker
    BY <1>3, <1>0 DEF StartWorker
  <1>4. CASE DeliverInjection
    BY <1>4, <1>0 DEF DeliverInjection, InjectionPoints
  <1>5. CASE InjectionsDelivered
    BY <1>5, <1>0 DEF InjectionsDelivered, InjectionPoints, Raise, Return
  <1>6. CASE InjectionFails
    BY <1>6, <1>0 DEF InjectionFails, InjectionPoints, Raise
  <1>7. CASE ReadEvents
    BY <1>7, <1>0 DEF ReadEvents, Due
  <1>8. CASE EventsUnreadable
    BY <1>8, <1>0 DEF EventsUnreadable, RaiseUnexpected
  <1>9. CASE NoTurnsLeft
    BY <1>9, <1>0 DEF NoTurnsLeft, StartCancel
  <1>10. CASE EnterTurn
    BY <1>10, <1>0 DEF EnterTurn, Resolve, CanTurn, TurnRaises, RecordTurn, Noted, CancelForEvidence, StartCancel
  <1>11. CASE ResultUnwanted
    BY <1>11, <1>0 DEF ResultUnwanted, CanTurn, TurnRaises, RecordTurn, Noted, Raise
  <1>12. CASE TakeCall
    <2>1. Head(queue) \in Calls /\ queue # <<>> /\ queue' \in Seq(Calls)
      BY <1>12, <1>0 DEF TakeCall, NextCall
    <2>2. [call |-> Head(queue), result |-> held] \in Turns
      BY <2>1, <1>0 DEF Turns
    <2> DEFINE turn == [call |-> Head(queue), result |-> held]
    <2>3. /\ draft' = NoTurn => callTrace' = Noted(callTrace, turn.call)
          /\ draft' # NoTurn => draft' = turn /\ callTrace' = callTrace /\ pc' \in Cancelling
          /\ current' \in {NoCall, turn.call}
          /\ current' # NoCall => pc' = "invoke" /\ draft' = NoTurn
          /\ pc' \notin {"cancel_runtime", "join"}
      BY <1>12, <2>2, HandleTurnOrder DEF TakeCall
    <2>4. held' = NoCall /\ turn.call \in Calls
      BY <1>12, <2>1 DEF TakeCall
    <2> HIDE DEF turn
    <2>5. CurrentIsLast'
      BY <2>3, <2>4, <1>0, NotedLast
    <2> QED
      BY <1>12, <2>3, <2>4, <2>5 DEF TakeCall, NextCall
  <1>13. CASE ProviderDone
    <2>1. held' = NoCall /\ callTrace' = callTrace /\ current' = NoCall
          /\ (draft' # NoTurn => pc' \in Cancelling) /\ pc' \notin {"cancel_runtime", "join"}
      <3>1. [call |-> NoCall, result |-> held] \in Turns
        BY <1>0 DEF Turns
      <3>2. CASE HandleTurn([call |-> NoCall, result |-> held], TRUE)
        BY <1>13, <3>1, <3>2, HandleTurnOrder DEF ProviderDone, Noted
      <3>3. CASE ~HandleTurn([call |-> NoCall, result |-> held], TRUE)
        BY <1>13, <3>3 DEF ProviderDone, TurnRaises, RecordTurn, Noted, Raise, CancelForEvidence,
                         StartCancel
      <3> QED
        BY <3>2, <3>3
    <2> QED
      BY <1>13, <2>1 DEF ProviderDone
  <1>14. CASE Decide
    <2>1. PICK c \in Calls \cup {NoCall}, final \in BOOLEAN :
            HandleTurn([call |-> c, result |-> held], final)
      BY <1>14 DEF Decide
    <2> DEFINE turn == [call |-> c, result |-> held]
    <2>2. turn \in Turns /\ turn.call = c
      BY <1>0 DEF Turns
    <2>3. /\ draft' = NoTurn => callTrace' = Noted(callTrace, turn.call)
          /\ draft' # NoTurn => draft' = turn /\ callTrace' = callTrace /\ pc' \in Cancelling
          /\ current' \in {NoCall, turn.call}
          /\ current' # NoCall => pc' = "invoke" /\ draft' = NoTurn
          /\ pc' \notin {"cancel_runtime", "join"}
      BY <1>14, <2>1, <2>2, HandleTurnOrder DEF Decide, CanTurn
    <2>4. held' = NoCall
      BY <1>14 DEF Decide
    <2> HIDE DEF turn
    <2>5. CurrentIsLast'
      BY <2>2, <2>3, <2>4, <1>0, NotedLast
    <2> QED
      BY <1>14, <2>3, <2>4, <2>5 DEF Decide
  <1>15. CASE DecideFails
    BY <1>15, <1>0 DEF DecideFails, CanTurn, TurnRaises, RecordTurn, Noted, Raise
  <1>16. CASE ToolCommits
    BY <1>16, <1>0 DEF ToolCommits, CallEvent
  <1>17. CASE ToolSucceeds
    BY <1>17, <1>0 DEF ToolSucceeds
  <1>18. CASE ToolRejects
    BY <1>18, <1>0 DEF ToolRejects, RecordTurn, Noted, Return
  <1>19. CASE ToolBreaks
    BY <1>19, <1>0 DEF ToolBreaks, RaiseUnexpected
  <1>20. CASE ToolTimesOut
    BY <1>20, <1>0 DEF ToolTimesOut, StartCancel
  <1>21. CASE CancelBegins
    BY <1>21, <1>0 DEF CancelBegins, CloseBridge
  <1>22. CASE RuntimeCancels
    BY <1>22, <1>0 DEF RuntimeCancels
  <1>23. CASE ProviderObeys
    BY <1>23, <1>0 DEF ProviderObeys
  <1>24. CASE ProviderJoined
    BY <1>24, <1>0 DEF ProviderJoined, CancelForEvidence, StartCancel, InBody, NoTurn
  <1>25. CASE CancelReturns
    <2>1. draft = NoTurn => callTrace' = callTrace
      BY <1>25 DEF CancelReturns, RecordTurn, Noted, NoTurn
    <2>2. draft # NoTurn => held = NoCall
      OBVIOUS
    <2> QED
      BY <1>25, <2>1, <2>2 DEF CancelReturns
  <1>26. CASE CancelTimesOut
    BY <1>26, <1>0 DEF CancelTimesOut
  <1>27. CASE WallTimesOut
    BY <1>27, <1>0 DEF WallTimesOut, CancelForEvidence, StartCancel
  <1>28. CASE RunCancelled
    BY <1>28, <1>0 DEF RunCancelled, CancelForEvidence, StartCancel
  <1>29. CASE TakeSnapshot
    BY <1>29, <1>0 DEF TakeSnapshot
  <1>30. CASE SnapshotFails
    BY <1>30, <1>0 DEF SnapshotFails
  <1>31. CASE CloseWorld
    BY <1>31, <1>0 DEF CloseWorld, CloseDrops, CloseRaises
  <1>32. CASE LeaseMoves
    BY <1>32, <1>0 DEF LeaseMoves, Renew, RenewalFails, LeaseExpires, CleanupAbandoned
  <1>33. CASE ProviderEnds
    BY <1>33, <1>0 DEF ProviderEnds, FailureOf, SdkFailures
  <1>34. ASSUME NEW c \in Calls, ProviderSubmits(c)
         PROVE  ServingInv'
    BY <1>34, <1>0, AppendProperties DEF ProviderSubmits, Submit, Elements
  <1>35. ASSUME NEW c \in Calls, ProviderAbandons(c)
         PROVE  ServingInv'
    BY <1>35 DEF ProviderAbandons, Abandon
  <1>36. CASE UNCHANGED vars
    BY <1>36 DEF vars
  <1> QED
    BY <1>1, <1>s, <1>2, <1>3, <1>4, <1>5, <1>6, <1>7, <1>8, <1>9, <1>10, <1>11, <1>12, <1>13,
       <1>14, <1>15, <1>16, <1>17, <1>18, <1>19, <1>20, <1>21, <1>22, <1>23, <1>24, <1>25,
       <1>26, <1>27, <1>28, <1>29, <1>30, <1>31, <1>32, <1>33, <1>34, <1>35, <1>36
       DEF Next, RunnerStep, Preparation, Injecting, Turn, Cancellation, Ending, Timeouts,
           Invocation, Runtime, Provider

(***************************************************************************)
(* The trace and the bridge                                                *)
(***************************************************************************)

\* What the steps that neither talk to the SDK nor take a call leave alone.
Quiet ==
  /\ UNCHANGED <<sdk, seen, queue, callback, closed, callTrace>>
  /\ Taken' = Taken
  /\ current' \in {current, NoCall}
  /\ \A c \in Calls : Committed(c)' <=> Committed(c)

\* The last element joins the others.
LEMMA ElementsAppend ==
  ASSUME NEW S, NEW s \in Seq(S), NEW x \in S
  PROVE  Elements(Append(s, x)) = Elements(s) \cup {x}
  BY AppendProperties DEF Elements

\* Ten kinds of steps touch the trace, the bridge or the effects; the others are
\* quiet.
LEMMA QuietOrNot ==
  ASSUME TypeInv, ServingInv, [Next]_vars
  PROVE  \/ Quiet
         \/ EnterTurn \/ TakeCall \/ Decide \/ ToolCommits
         \/ CancelBegins \/ ProviderJoined \/ CancelReturns
         \/ \E c \in Calls : ProviderSubmits(c) \/ ProviderAbandons(c)
  <1> USE DEF Quiet, Taken, Committed, bridgeVars, adapterVars, traceVars, worldVars
  <1>0. callTrace \in Seq(Calls)
    BY DEF TypeInv, RunTypeOK, TraceTypeOK
  <1>1. CASE ResetWorld
    BY <1>1 DEF ResetWorld
  <1>s. CASE FirstSnapshot
    BY <1>s DEF FirstSnapshot
  <1>2. CASE ResetFails
    BY <1>2 DEF ResetFails
  <1>3. CASE StartWorker
    BY <1>3 DEF StartWorker
  <1>4. CASE DeliverInjection
    <2>1. PICK i \in due : events' = Append(events, InjectionEvent(i))
      BY <1>4 DEF DeliverInjection
    <2>2. InjectionEvent(i) \in Events /\ events \in Seq(Events)
      BY DEF InjectionEvent, Events, TypeInv, RunTypeOK, InjectionTypeOK
    <2>3. Elements(events') = Elements(events) \cup {InjectionEvent(i)}
      BY <2>1, <2>2, ElementsAppend
    <2>4. \A c \in Calls : CallEvent(c) # InjectionEvent(i)
      BY DEF CallEvent, InjectionEvent
    <2> QED
      BY <1>4, <2>3, <2>4 DEF DeliverInjection, CallEvent
  <1>5. CASE InjectionsDelivered
    BY <1>5 DEF InjectionsDelivered
  <1>6. CASE InjectionFails
    BY <1>6 DEF InjectionFails
  <1>7. CASE ReadEvents
    BY <1>7 DEF ReadEvents
  <1>8. CASE EventsUnreadable
    BY <1>8 DEF EventsUnreadable
  <1>9. CASE NoTurnsLeft
    BY <1>9 DEF NoTurnsLeft
  <1>10. CASE ResultUnwanted
    BY <1>10 DEF ResultUnwanted, TurnRaises, RecordTurn, Noted
  <1>11. CASE ProviderDone
    <2>1. draft = NoTurn /\ Taken = callTrace
      BY <1>11 DEF ProviderDone, ServingInv, DraftAwaitsCancel, Cancelling, NoTurn, Noted
    <2>2. CASE HandleTurn([call |-> NoCall, result |-> held], TRUE)
      <3>1. [call |-> NoCall, result |-> held] \in Turns
        BY DEF Turns, TypeInv, RunTypeOK, TraceTypeOK
      <3>2. /\ Taken' = callTrace /\ current' = NoCall
            /\ draft' = NoTurn => callTrace' = callTrace
            /\ draft' # NoTurn => callTrace' = callTrace
        BY <1>11, <2>2, <3>1, HandleTurnOrder DEF ProviderDone, Noted
      <3> QED
        BY <1>11, <2>1, <3>2 DEF ProviderDone
    <2>3. CASE ~HandleTurn([call |-> NoCall, result |-> held], TRUE)
      BY <1>11, <2>1, <2>3
         DEF ProviderDone, TurnRaises, RecordTurn, Noted, Raise, CancelForEvidence, StartCancel
    <2> QED
      BY <2>2, <2>3
  <1>12. CASE DecideFails
    BY <1>12 DEF DecideFails, TurnRaises, RecordTurn, Noted
  <1>13. CASE ToolSucceeds
    BY <1>13 DEF ToolSucceeds
  <1>14. CASE ToolRejects
    BY <1>14 DEF ToolRejects, RecordTurn, Noted
  <1>15. CASE ToolBreaks
    BY <1>15 DEF ToolBreaks
  <1>16. CASE ToolTimesOut
    BY <1>16 DEF ToolTimesOut
  <1>17. CASE RuntimeCancels
    BY <1>17 DEF RuntimeCancels
  <1>18. CASE ProviderObeys
    BY <1>18 DEF ProviderObeys
  <1>19. CASE CancelTimesOut
    BY <1>19 DEF CancelTimesOut
  <1>20. CASE WallTimesOut
    BY <1>20 DEF WallTimesOut
  <1>21. CASE RunCancelled
    BY <1>21 DEF RunCancelled
  <1>22. CASE TakeSnapshot
    BY <1>22 DEF TakeSnapshot
  <1>23. CASE SnapshotFails
    BY <1>23 DEF SnapshotFails
  <1>24. CASE CloseWorld
    BY <1>24 DEF CloseWorld
  <1>25. CASE LeaseMoves
    BY <1>25 DEF LeaseMoves
  <1>26. CASE ProviderEnds
    BY <1>26 DEF ProviderEnds
  <1>27. CASE UNCHANGED vars
    BY <1>27 DEF vars
  <1> QED
    BY <1>1, <1>s, <1>2, <1>3, <1>4, <1>5, <1>6, <1>7, <1>8, <1>9, <1>10, <1>11, <1>12, <1>13,
       <1>14, <1>15, <1>16, <1>17, <1>18, <1>19, <1>20, <1>21, <1>22, <1>23, <1>24, <1>25,
       <1>26, <1>27
       DEF Next, RunnerStep, Preparation, Injecting, Turn, Cancellation, Ending, Timeouts,
           Invocation, Runtime, Provider

(***************************************************************************)
(* Requests are served in order                                            *)
(***************************************************************************)

\* The trace has the first requests and the queue the others; a callback has
\* its answer only when its call is over.
TakenThenQueued == ~closed => Taken \o queue = seen
TakenFirst == Len(Taken) <= Len(seen) /\ \A i \in DOMAIN Taken : Taken[i] = seen[i]
AnsweredWhenOver ==
  \A c \in Calls : callback[c] = "answered" => c \in Elements(callTrace) \ {current}

OrderInv == Bridged => TakenThenQueued /\ TakenFirst /\ AnsweredWhenOver

\* Every effect belongs to a call of the trace.
EffectsTraced == \A c \in Calls : Committed(c) => c \in Elements(callTrace)

\* Taking the first of a queue moves the border between taken and queued.
LEMMA TakeFirst ==
  ASSUME NEW s \in Seq(Calls), NEW q \in Seq(Calls), q # <<>>, NEW t, t = s \o q
  PROVE  /\ Append(s, Head(q)) \o Tail(q) = t
         /\ Len(Append(s, Head(q))) <= Len(t)
         /\ \A i \in DOMAIN Append(s, Head(q)) : Append(s, Head(q))[i] = t[i]
         /\ Len(s) + 1 \in DOMAIN t /\ t[Len(s) + 1] = Head(q)
         /\ \A i \in DOMAIN s : i \in DOMAIN t /\ i # Len(s) + 1 /\ t[i] = s[i]
  <1>1. Append(s, Head(q)) \o Tail(q) = t
    OBVIOUS
  <1>2. Len(Append(s, Head(q))) <= Len(t)
    OBVIOUS
  <1>3. \A i \in DOMAIN Append(s, Head(q)) : Append(s, Head(q))[i] = t[i]
    OBVIOUS
  <1>4. Len(s) + 1 \in DOMAIN t /\ t[Len(s) + 1] = Head(q)
    OBVIOUS
  <1>5. \A i \in DOMAIN s : i \in DOMAIN t /\ i # Len(s) + 1 /\ t[i] = s[i]
    OBVIOUS
  <1> QED
    BY <1>1, <1>2, <1>3, <1>4, <1>5

\* A request that joins the queue joins what was seen.
LEMMA AskLast ==
  ASSUME NEW s \in Seq(Calls), NEW q \in Seq(Calls), NEW c \in Calls
  PROVE  s \o Append(q, c) = Append(s \o q, c)
  OBVIOUS

\* What is noted stays, and what was noted before it, too.
LEMMA NotedKeeps ==
  ASSUME NEW s \in Seq(Calls), NEW x \in Calls \cup {NoCall}
  PROVE  /\ Elements(s) \subseteq Elements(Noted(s, x))
         /\ Noted(Noted(s, x), NoCall) = Noted(s, x)
  BY AppendProperties DEF Noted, Elements

\* No step breaks the order.
LEMMA OrderStep ==
  ASSUME TypeInv, ServingInv, OrderInv, EffectsTraced, TypeInv', [Next]_vars
  PROVE  OrderInv' /\ EffectsTraced'
  <1> USE DEF Bridged, bridgeVars, adapterVars, traceVars, worldVars
  <1>0. /\ callTrace \in Seq(Calls) /\ seen \in Seq(Calls) /\ queue \in Seq(Calls)
        /\ callback \in [Calls -> CallbackState]
        /\ held \in Calls \cup {NoCall} /\ current \in Calls \cup {NoCall}
        /\ draft \in Turns /\ draft.call \in Calls \cup {NoCall}
        /\ Taken \in Seq(Calls)
    BY NotedType DEF TypeInv, RunTypeOK, BridgeTypeOK, TraceTypeOK, Turns, Taken
  <1>1. CASE Quiet
    BY <1>1, NoCallIsNoCall
       DEF Quiet, OrderInv, EffectsTraced, TakenThenQueued, TakenFirst, AnsweredWhenOver
  <1>2. CASE EnterTurn
    <2>1. /\ callTrace' = callTrace /\ Taken' = Taken /\ current' = current /\ sdk' = sdk
          /\ seen' = seen /\ queue' = queue /\ closed' = closed /\ events' = events
          /\ \A c \in Calls : callback'[c] = "answered" => callback[c] = "answered" \/ c = held
      BY <1>0, <1>2
         DEF EnterTurn, Resolve, TurnRaises, RecordTurn, Noted, Taken, CancelForEvidence, StartCancel
    <2>2. current = NoCall /\ (held # NoCall => held \in Elements(callTrace))
      BY <1>0, <1>2
         DEF EnterTurn, CanTurn, ServingInv, CurrentIsLast, HeldIsLast, IsLast, Elements
    <2> QED
      BY <2>1, <2>2, NoCallIsNoCall
         DEF OrderInv, EffectsTraced, TakenThenQueued, TakenFirst, AnsweredWhenOver, Committed
  <1>3. CASE TakeCall
    <2> DEFINE turn == [call |-> Head(queue), result |-> held]
    <2>1. queue # <<>> /\ Head(queue) \in Calls /\ queue' = Tail(queue) /\ Bridged
      BY <1>0, <1>3 DEF TakeCall, NextCall
    <2>2. turn \in Turns
      BY <1>0, <2>1 DEF Turns
    <2>3. /\ Taken' = Noted(callTrace, Head(queue))
          /\ callTrace' = callTrace \/ callTrace' = Noted(callTrace, Head(queue))
          /\ current' \in {NoCall, Head(queue)}
      BY <1>3, <2>2, HandleTurnOrder DEF TakeCall
    <2>4. seen' = seen /\ closed' = closed /\ callback' = callback /\ events' = events /\ sdk' = sdk
      BY <1>3 DEF TakeCall, NextCall
    <2>5. draft = NoTurn /\ Taken = callTrace
      BY <1>3 DEF TakeCall, ServingInv, DraftAwaitsCancel, Cancelling, Taken, Noted, NoTurn
    <2>6. ~closed /\ callTrace \o queue = seen
      BY <2>1, <2>5 DEF ServingInv, ClosedIsEmpty, OrderInv, TakenThenQueued
    <2>7. Taken' = Append(callTrace, Head(queue))
      BY <1>0, <2>1, <2>3, NotedLast
    <2>8. /\ Append(callTrace, Head(queue)) \o Tail(queue) = seen
          /\ Len(Append(callTrace, Head(queue))) <= Len(seen)
          /\ \A i \in DOMAIN Append(callTrace, Head(queue)) :
               Append(callTrace, Head(queue))[i] = seen[i]
          /\ Len(callTrace) + 1 \in DOMAIN seen /\ seen[Len(callTrace) + 1] = Head(queue)
          /\ \A i \in DOMAIN callTrace :
               i \in DOMAIN seen /\ i # Len(callTrace) + 1 /\ seen[i] = callTrace[i]
      <3>1. callTrace \in Seq(Calls) /\ queue \in Seq(Calls) /\ queue # <<>>
        BY <1>0, <2>1
      <3>2. seen = callTrace \o queue
        BY <2>6
      <3> QED
        BY <3>1, <3>2, TakeFirst, SMTT(30)
    <2>9. TakenThenQueued' /\ TakenFirst'
      BY <2>1, <2>4, <2>7, <2>8 DEF TakenThenQueued, TakenFirst
    <2>10. Head(queue) \notin Elements(callTrace)
      BY <1>0, <2>8 DEF Elements, ServingInv, AskedOnce
    <2>11. Elements(callTrace) \subseteq Elements(callTrace')
      BY <1>0, <2>1, <2>3, NotedKeeps
    <2>12. AnsweredWhenOver'
      BY <2>1, <2>3, <2>4, <2>10, <2>11, NoCallIsNoCall DEF OrderInv, AnsweredWhenOver
    <2> QED
      BY <2>4, <2>9, <2>11, <2>12 DEF OrderInv, EffectsTraced, Committed
  <1>4. CASE Decide
    <2>1. PICK c \in Calls \cup {NoCall}, final \in BOOLEAN :
            HandleTurn([call |-> c, result |-> held], final)
      BY <1>4 DEF Decide
    <2>2. [call |-> c, result |-> held] \in Turns
      BY <1>0 DEF Turns
    <2>3. callTrace' = callTrace \/ callTrace' = Noted(callTrace, c)
      BY <1>4, <2>1, <2>2, HandleTurnOrder DEF Decide, CanTurn
    <2>4. Elements(callTrace) \subseteq Elements(callTrace')
      BY <1>0, <2>3, NotedKeeps
    <2>5. ~Bridged /\ sdk' = sdk /\ events' = events
      BY <1>4 DEF Decide
    <2> QED
      BY <2>4, <2>5 DEF OrderInv, EffectsTraced, Committed
  <1>5. CASE ToolCommits
    <2>1. current \in Calls /\ current \in Elements(callTrace)
      <3>1. current \in Calls
        BY <1>5, CallsAssumption DEF ToolCommits
      <3>2. callTrace # <<>> /\ current = callTrace[Len(callTrace)]
        BY <3>1, NoCallIsNoCall DEF ServingInv, CurrentIsLast, IsLast
      <3>3. Len(callTrace) \in DOMAIN callTrace
        BY <1>0, <3>2
      <3> QED
        BY <3>1, <3>2, <3>3 DEF Elements
    <2>2. \A c \in Calls : Committed(c)' => Committed(c) \/ c = current
      <3>1. events \in Seq(Events) /\ CallEvent(current) \in Events
        BY <2>1 DEF CallEvent, Events, TypeInv, RunTypeOK, InjectionTypeOK
      <3>2. Elements(events') = Elements(events) \cup {CallEvent(current)}
        BY <1>5, <3>1, ElementsAppend DEF ToolCommits
      <3> QED
        BY <3>2 DEF Committed, CallEvent
    <2>3. OrderInv'
      BY <1>5 DEF ToolCommits, OrderInv, TakenThenQueued, TakenFirst, AnsweredWhenOver, Taken
    <2> QED
      BY <1>5, <2>1, <2>2, <2>3 DEF ToolCommits, EffectsTraced
  <1>6. CASE CancelBegins
    <2>1. /\ seen' = seen /\ callTrace' = callTrace /\ Taken' = Taken /\ current' = current
          /\ sdk' = sdk /\ events' = events
          /\ ~closed' => queue' = queue /\ ~closed
          /\ \A c \in Calls : callback'[c] = "answered" => callback[c] = "answered"
      BY <1>6 DEF CancelBegins, CloseBridge, Taken
    <2> QED
      BY <2>1 DEF OrderInv, EffectsTraced, TakenThenQueued, TakenFirst, AnsweredWhenOver, Committed
  <1>7. CASE ProviderJoined
    <2>1. /\ seen' = seen /\ queue' = queue /\ closed' = closed /\ callback' = callback
          /\ callTrace' = callTrace /\ current' = current /\ sdk' = sdk /\ events' = events
          /\ draft' = draft \/ draft' = NoTurn
      BY <1>7 DEF ProviderJoined, CancelForEvidence, StartCancel
    <2>2. CASE draft' = draft \/ draft.call = NoCall
      <3>1. Taken' = Taken
        BY <2>1, <2>2 DEF Taken, Noted, NoTurn
      <3> QED
        BY <2>1, <3>1
           DEF OrderInv, EffectsTraced, TakenThenQueued, TakenFirst, AnsweredWhenOver, Committed
    <2>3. CASE draft' = NoTurn /\ draft.call # NoCall
      <3>1. Taken = Append(callTrace, draft.call) /\ Taken' = callTrace
        BY <2>1, <2>3 DEF Taken, Noted, NoTurn
      <3>2. Bridged => closed
        <4>1. SUFFICES ASSUME Bridged
                       PROVE  closed
          OBVIOUS
        <4>2. seen # <<>>
          BY <1>0, <3>1, <4>1 DEF OrderInv, TakenFirst
        <4> QED
          BY <1>7, <4>2 DEF ProviderJoined, ServingInv, OnlySdksAsk, CancelCloses
      <3>3. Bridged => TakenFirst'
        <4>1. Len(Taken) = Len(callTrace) + 1 /\ \A i \in DOMAIN callTrace : Taken[i] = callTrace[i]
          BY <1>0, <3>1
        <4>2. DOMAIN callTrace \subseteq DOMAIN Taken /\ Len(callTrace) \in Nat /\ Len(seen) \in Nat
          BY <1>0, <3>1
        <4>3. Bridged => TakenFirst
          BY DEF OrderInv
        <4> QED
          BY <2>1, <3>1, <4>1, <4>2, <4>3 DEF TakenFirst
      <3> QED
        BY <2>1, <3>2, <3>3
           DEF OrderInv, EffectsTraced, TakenThenQueued, AnsweredWhenOver, Committed
    <2> QED
      BY <2>1, <2>2, <2>3
  <1>8. CASE CancelReturns
    <2>1. callTrace' = Noted(callTrace, draft.call)
      BY <1>8 DEF CancelReturns, RecordTurn
    <2>2. Taken' = Taken
      BY <1>0, <1>8, <2>1, NotedKeeps DEF CancelReturns, Taken, NoTurn
    <2>3. Elements(callTrace) \subseteq Elements(callTrace')
      BY <1>0, <2>1, NotedKeeps
    <2>4. /\ seen' = seen /\ queue' = queue /\ closed' = closed /\ callback' = callback
          /\ current' = current /\ sdk' = sdk /\ events' = events
      BY <1>8 DEF CancelReturns
    <2> QED
      BY <2>2, <2>3, <2>4
         DEF OrderInv, EffectsTraced, TakenThenQueued, TakenFirst, AnsweredWhenOver, Committed
  <1>9. ASSUME NEW c \in Calls, ProviderSubmits(c)
        PROVE  OrderInv' /\ EffectsTraced'
    <2>1. /\ ~closed /\ seen' = Append(seen, c) /\ queue' = Append(queue, c) /\ closed' = closed
          /\ callTrace' = callTrace /\ Taken' = Taken /\ current' = current /\ sdk' = sdk
          /\ events' = events
          /\ \A d \in Calls : callback'[d] = "answered" => callback[d] = "answered"
      BY <1>0, <1>9 DEF ProviderSubmits, Submit, Taken
    <2>2. Bridged => TakenThenQueued'
      BY <1>0, <2>1, AskLast DEF OrderInv, TakenThenQueued
    <2>3. Bridged => TakenFirst'
      BY <1>0, <2>1, AppendProperties DEF OrderInv, TakenFirst
    <2> QED
      BY <2>1, <2>2, <2>3 DEF OrderInv, AnsweredWhenOver, EffectsTraced, Committed
  <1>10. ASSUME NEW c \in Calls, ProviderAbandons(c)
         PROVE  OrderInv' /\ EffectsTraced'
    <2>1. /\ UNCHANGED <<seen, queue, closed, callTrace, current, sdk, events>> /\ Taken' = Taken
          /\ \A d \in Calls : callback'[d] = "answered" => callback[d] = "answered"
      BY <1>0, <1>10 DEF ProviderAbandons, Abandon, Taken
    <2> QED
      BY <2>1 DEF OrderInv, EffectsTraced, TakenThenQueued, TakenFirst, AnsweredWhenOver, Committed
  <1> QED
    BY <1>1, <1>2, <1>3, <1>4, <1>5, <1>6, <1>7, <1>8, <1>9, <1>10, QuietOrNot

\* A new run has neither requests nor effects.
LEMMA InitOrdered == Init => OrderInv /\ EffectsTraced
  BY DEF Init, BridgeInit, OrderInv, EffectsTraced, TakenThenQueued, TakenFirst, AnsweredWhenOver,
         Taken, Noted, NoTurn, Committed, Elements

\* The inductive invariant of a run's conversation.
RunInv == TypeInv /\ ServingInv /\ OrderInv /\ EffectsTraced

\* Every reachable run satisfies it.
THEOREM RunInvariant == Spec => []RunInv
  <1>1. Init => RunInv
    BY InitTyped, InitServing, InitOrdered DEF RunInv
  <1>2. RunInv /\ [Next]_vars => RunInv'
    BY TypeStep, ServingStep, OrderStep DEF RunInv
  <1> QED
    BY <1>1, <1>2, PTL DEF Spec

\* The runner serves the SDK's requests in the order of their submission, none
\* twice and none skipped, and answers none before its call is over, whatever
\* the SDK submits or abandons and whenever the run is cut short.
THEOREM RequestsServedInOrder == Spec => []ServedInOrder
  <1>1. RunInv => ServedInOrder
    <2> SUFFICES ASSUME RunInv, Bridged
                 PROVE  /\ ~closed => Taken \o queue = seen
                        /\ Len(Taken) <= Len(seen) /\ \A i \in DOMAIN Taken : Taken[i] = seen[i]
                        /\ \A c \in Calls : callback[c] = "answered" =>
                             c \in Elements(Taken) \ {current}
      BY DEF ServedInOrder
    <2>1. callTrace \in Seq(Calls) /\ draft.call \in Calls \cup {NoCall}
      BY DEF RunInv, TypeInv, RunTypeOK, TraceTypeOK, Turns
    <2>2. Elements(callTrace) \subseteq Elements(Taken)
      BY <2>1, NotedKeeps DEF Taken
    <2> QED
      BY <2>2 DEF RunInv, OrderInv, TakenThenQueued, TakenFirst, AnsweredWhenOver
  <1> QED
    BY <1>1, RunInvariant, PTL

(***************************************************************************)
(* One serial tool server                                                  *)
(***************************************************************************)

\* The place of a served call among the requests is its place in the trace.
LEMMA PlaceOfServed ==
  ASSUME RunInv, Bridged, NEW k \in DOMAIN callTrace
  PROVE  /\ k \in DOMAIN seen /\ seen[k] = callTrace[k]
         /\ Serial!Position(callTrace[k]) = k
         /\ Serial!Asked(callTrace[k])
  <1>0. callTrace \in Seq(Calls) /\ seen \in Seq(Calls) /\ draft.call \in Calls \cup {NoCall}
    BY DEF RunInv, TypeInv, RunTypeOK, BridgeTypeOK, TraceTypeOK, Turns
  <1>1. k \in DOMAIN Taken /\ Taken[k] = callTrace[k] /\ Len(Taken) \in Nat
    BY <1>0, AppendProperties DEF Taken, Noted
  <1>2. k \in DOMAIN seen /\ seen[k] = callTrace[k]
    <2>1. Len(Taken) <= Len(seen) /\ \A i \in DOMAIN Taken : Taken[i] = seen[i]
      BY DEF RunInv, OrderInv, TakenFirst
    <2>2. Taken \in Seq(Calls)
      BY <1>0, NotedType DEF Taken
    <2> QED
      BY <1>0, <1>1, <2>1, <2>2
  <1>3. \A i \in DOMAIN seen : seen[i] = callTrace[k] => i = k
    BY <1>2 DEF RunInv, ServingInv, AskedOnce
  <1>4. Serial!Position(callTrace[k]) = k
    BY <1>2, <1>3 DEF Serial!Position
  <1> QED
    BY <1>2, <1>4 DEF Serial!Asked

\* A call of the trace stands at most as far as the last one, and before it
\* unless it is the last one.
LEMMA LastServedLast ==
  ASSUME RunInv, Bridged, NEW c, IsLast(c), NEW d \in Elements(callTrace)
  PROVE  /\ Serial!Asked(c)
         /\ Serial!Position(d) <= Serial!Position(c)
         /\ d # c => Serial!Position(d) < Serial!Position(c)
  <1>0. callTrace \in Seq(Calls) /\ Len(callTrace) \in DOMAIN callTrace
    BY DEF RunInv, TypeInv, RunTypeOK, TraceTypeOK, IsLast
  <1>1. PICK k \in DOMAIN callTrace : d = callTrace[k]
    BY DEF Elements
  <1>2. Serial!Position(d) = k
    BY <1>1, PlaceOfServed
  <1>3. Serial!Position(c) = Len(callTrace) /\ Serial!Asked(c)
    BY <1>0, PlaceOfServed DEF IsLast
  <1>4. k <= Len(callTrace) /\ (k = Len(callTrace) => d = c)
    BY <1>0, <1>1 DEF IsLast
  <1>5. k \in Nat /\ Len(callTrace) \in Nat
    BY <1>0
  <1> QED
    BY <1>2, <1>3, <1>4, <1>5

\* Every step of a run is a step of the serial tool server, or none of its
\* business.
LEMMA SerialStep ==
  ASSUME RunInv, [Next]_vars
  PROVE  [Serial!SerialNext]_(Serial!serialVars)
  <1> USE DEF bridgeVars, adapterVars, traceVars, worldVars
  <1>0. /\ callTrace \in Seq(Calls) /\ seen \in Seq(Calls)
        /\ callback \in [Calls -> CallbackState]
        /\ held \in Calls \cup {NoCall}
        /\ events \in Seq(Events)
    BY DEF RunInv, TypeInv, RunTypeOK, BridgeTypeOK, TraceTypeOK, InjectionTypeOK
  <1> DEFINE Effects == {c \in Calls : Committed(c)}
             Answers == {c \in Calls : callback[c] = "answered"}
             Still == seen' = seen /\ Effects' = Effects /\ Answers' = Answers
  <1>1. sdk' = sdk /\ Still => UNCHANGED Serial!serialVars
    BY DEF Serial!serialVars, Bridged
  <1>2. sdk' = sdk /\ ~Bridged => UNCHANGED Serial!serialVars
    BY DEF Serial!serialVars, Bridged
  <1>3. Effects \subseteq Elements(callTrace)
    BY DEF RunInv, EffectsTraced
  <1>4. Bridged => Answers \subseteq Elements(callTrace) \ {current}
    BY DEF RunInv, OrderInv, AnsweredWhenOver
  <1>5. CASE Quiet
    <2>1. sdk' = sdk /\ Still
      BY <1>5 DEF Quiet
    <2> QED
      BY <1>1, <2>1
  <1>6. CASE EnterTurn
    <2>1. sdk' = sdk /\ seen' = seen /\ Bridged /\ Effects' = Effects
      BY <1>6 DEF EnterTurn, Resolve, Committed
    <2>2. CASE held = NoCall
      <3>1. Answers' = Answers
        BY <1>6, <2>2 DEF EnterTurn
      <3> QED
        BY <1>1, <2>1, <3>1
    <2>3. CASE held # NoCall
      <3>1. held \in Calls /\ callback[held] = "waiting"
            /\ callback' = [callback EXCEPT ![held] = "answered"]
        BY <1>0, <1>6, <2>3 DEF EnterTurn, CanResolve, Resolve
      <3>2. Answers' = Answers \cup {held} /\ held \notin Answers
        BY <1>0, <3>1
      <3>3. IsLast(held) /\ held \in Elements(callTrace)
        BY <1>0, <2>3 DEF RunInv, ServingInv, HeldIsLast, IsLast, Elements
      <3>4. Serial!Asked(held)
        BY <2>1, <3>3, LastServedLast
      <3>5. \A d \in Effects : Serial!Position(d) <= Serial!Position(held)
        BY <1>3, <2>1, <3>3, LastServedLast
      <3>6. \A d \in Answers : Serial!Position(d) < Serial!Position(held)
        BY <1>4, <2>1, <3>2, <3>3, LastServedLast
      <3>7. PICK c \in Calls : c = held
        BY <3>1
      <3>8. Serial!Answer(c)
        BY <2>1, <3>2, <3>4, <3>5, <3>6, <3>7 DEF Serial!Answer, Bridged
      <3> QED
        BY <3>8 DEF Serial!SerialNext
    <2> QED
      BY <2>2, <2>3
  <1>7. CASE TakeCall
    <2>1. sdk' = sdk /\ Still
      BY <1>7 DEF TakeCall, NextCall, Committed
    <2> QED
      BY <1>1, <2>1
  <1>8. CASE Decide
    <2>1. sdk' = sdk /\ Still
      BY <1>8 DEF Decide, Committed
    <2> QED
      BY <1>1, <2>1
  <1>9. CASE ToolCommits
    <2>1. /\ sdk' = sdk /\ seen' = seen /\ Answers' = Answers
          /\ current \in Calls /\ ~Committed(current)
      BY <1>9, CallsAssumption DEF ToolCommits
    <2>2. Effects' = Effects \cup {current}
      <3>1. CallEvent(current) \in Events
        BY <2>1 DEF CallEvent, Events
      <3>2. Elements(events') = Elements(events) \cup {CallEvent(current)}
        BY <1>0, <1>9, <3>1, ElementsAppend DEF ToolCommits
      <3>3. \A c \in Calls : Committed(c)' <=> Committed(c) \/ c = current
        BY <3>2 DEF Committed, CallEvent
      <3> QED
        BY <2>1, <3>3
    <2>3. CASE Bridged
      <3>1. IsLast(current) /\ current \in Elements(callTrace)
        <4>1. IsLast(current)
          BY <2>1, NoCallIsNoCall DEF RunInv, ServingInv, CurrentIsLast
        <4> QED
          BY <1>0, <4>1 DEF IsLast, Elements
      <3>2. Serial!Asked(current)
        BY <2>3, <3>1, LastServedLast
      <3>3. \A d \in Effects : Serial!Position(d) < Serial!Position(current)
        BY <1>3, <2>1, <2>3, <3>1, LastServedLast
      <3>4. \A d \in Answers : Serial!Position(d) < Serial!Position(current)
        BY <1>4, <2>3, <3>1, LastServedLast
      <3>5. Serial!Apply(current)
        BY <2>1, <2>2, <2>3, <3>2, <3>3, <3>4 DEF Serial!Apply, Bridged
      <3> QED
        BY <2>1, <3>5 DEF Serial!SerialNext
    <2> QED
      BY <1>2, <2>1, <2>3
  <1>10. CASE CancelBegins
    <2>1. sdk' = sdk /\ seen' = seen /\ Effects' = Effects
      BY <1>10 DEF CancelBegins, CloseBridge, Committed
    <2>2. Answers' = Answers
      BY <1>0, <1>10 DEF CancelBegins, CloseBridge
    <2> QED
      BY <1>1, <2>1, <2>2
  <1>11. CASE ProviderJoined
    <2>1. sdk' = sdk /\ Still
      BY <1>11 DEF ProviderJoined, Committed
    <2> QED
      BY <1>1, <2>1
  <1>12. CASE CancelReturns
    <2>1. sdk' = sdk /\ Still
      BY <1>12 DEF CancelReturns, Committed
    <2> QED
      BY <1>1, <2>1
  <1>13. ASSUME NEW c \in Calls, ProviderSubmits(c)
         PROVE  [Serial!SerialNext]_(Serial!serialVars)
    <2>1. /\ sdk' = sdk /\ seen' = Append(seen, c) /\ c \notin Elements(seen)
          /\ Effects' = Effects /\ callback' = [callback EXCEPT ![c] = "waiting"]
      BY <1>13 DEF ProviderSubmits, Submit, Committed
    <2>2. CASE Bridged
      <3>1. c \notin Elements(callTrace)
        <4> SUFFICES ASSUME NEW k \in DOMAIN callTrace, c = callTrace[k]
                     PROVE  FALSE
          BY DEF Elements
        <4>1. k \in DOMAIN seen /\ seen[k] = c
          BY <2>2, PlaceOfServed
        <4> QED
          BY <2>1, <4>1 DEF Elements
      <3>2. Answers' = Answers
        BY <1>0, <1>4, <2>1, <2>2, <3>1
      <3>3. ~Serial!Asked(c)
        BY <2>1, <2>2 DEF Serial!Asked, Elements
      <3>4. Serial!Ask(c)
        BY <2>1, <2>2, <3>2, <3>3 DEF Serial!Ask, Bridged
      <3> QED
        BY <3>4 DEF Serial!SerialNext
    <2> QED
      BY <1>2, <2>1, <2>2
  <1>14. ASSUME NEW c \in Calls, ProviderAbandons(c)
         PROVE  [Serial!SerialNext]_(Serial!serialVars)
    <2>1. sdk' = sdk /\ seen' = seen /\ Effects' = Effects
      BY <1>14 DEF ProviderAbandons, Abandon, Committed
    <2>2. Answers' = Answers
      BY <1>0, <1>14 DEF ProviderAbandons, Abandon
    <2> QED
      BY <1>1, <2>1, <2>2
  <1> QED
    BY <1>5, <1>6, <1>7, <1>8, <1>9, <1>10, <1>11, <1>12, <1>13, <1>14, QuietOrNot DEF RunInv

\* What a run makes of an SDK that calls its tools concurrently is one serial
\* tool server, for any calls, tools, schedule and limits.
THEOREM RunsServeSerially == Spec => ImplementsSerialTools
  <1>1. Init => Serial!SerialInit
    BY DEF Init, BridgeInit, Committed, Elements, Serial!SerialInit
  <1>2. RunInv /\ [Next]_vars => [Serial!SerialNext]_(Serial!serialVars)
    BY SerialStep
  <1> QED
    BY <1>1, <1>2, RunInvariant, PTL DEF Spec, Serial!SerialSpec, ImplementsSerialTools

(***************************************************************************)
(* Evidence                                                                *)
(***************************************************************************)

\* Once the runner closes the world, the evidence is marked incomplete or the
\* snapshot has every event; once it is done, also the schema is gone.
SnapshotSawAll == pc \in {"close", "done"} /\ ~incomplete => snapshot = events
WorldIsGone == pc = "done" /\ ~incomplete => schema = "absent" /\ lease = "none" /\ cleaned
EvidenceInv == SnapshotSawAll /\ WorldIsGone

\* A turn that reaches the runner never closes the world.
LEMMA HandleTurnGoesOn ==
  ASSUME NEW turn, NEW final, HandleTurn(turn, final)
  PROVE  pc' \notin {"close", "done"}
  BY DEF HandleTurn, OverTokensOrCost, NoToolCalled, CallTool, CancelForEvidence, StartCancel, Return

\* No step after the snapshot adds an event, and none brings a schema back.
LEMMA EvidenceStep ==
  ASSUME EvidenceInv, [Next]_vars
  PROVE  EvidenceInv'
  <1> USE DEF EvidenceInv, SnapshotSawAll, WorldIsGone, bridgeVars, leaseVars, adapterVars,
              traceVars, worldVars, recordVars
  <1>1. CASE ResetWorld
    BY <1>1 DEF ResetWorld, CreateWorld
  <1>s. CASE FirstSnapshot
    BY <1>s DEF FirstSnapshot
  <1>2. CASE ResetFails
    BY <1>2 DEF ResetFails, RaiseUnexpected
  <1>3. CASE StartWorker
    BY <1>3 DEF StartWorker
  <1>4. CASE DeliverInjection
    BY <1>4 DEF DeliverInjection, InjectionPoints
  <1>5. CASE InjectionsDelivered
    BY <1>5 DEF InjectionsDelivered, InjectionPoints, Raise, Return
  <1>6. CASE InjectionFails
    BY <1>6 DEF InjectionFails, InjectionPoints, Raise
  <1>7. CASE ReadEvents
    BY <1>7 DEF ReadEvents
  <1>8. CASE EventsUnreadable
    BY <1>8 DEF EventsUnreadable, RaiseUnexpected
  <1>9. CASE NoTurnsLeft
    BY <1>9 DEF NoTurnsLeft, StartCancel
  <1>10. CASE EnterTurn
    BY <1>10 DEF EnterTurn, CanTurn, CancelForEvidence, StartCancel
  <1>11. CASE ResultUnwanted
    BY <1>11 DEF ResultUnwanted, Raise
  <1>12. CASE TakeCall
    BY <1>12, HandleTurnGoesOn DEF TakeCall
  <1>13. CASE ProviderDone
    BY <1>13, HandleTurnGoesOn DEF ProviderDone, CancelForEvidence, StartCancel, Raise
  <1>14. CASE Decide
    BY <1>14, HandleTurnGoesOn DEF Decide
  <1>15. CASE DecideFails
    BY <1>15 DEF DecideFails, Raise
  <1>16. CASE ToolCommits
    BY <1>16 DEF ToolCommits
  <1>17. CASE ToolSucceeds
    BY <1>17 DEF ToolSucceeds
  <1>18. CASE ToolRejects
    BY <1>18 DEF ToolRejects, Return
  <1>19. CASE ToolBreaks
    BY <1>19 DEF ToolBreaks, RaiseUnexpected
  <1>20. CASE ToolTimesOut
    BY <1>20 DEF ToolTimesOut, StartCancel
  <1>21. CASE CancelBegins
    BY <1>21 DEF CancelBegins
  <1>22. CASE RuntimeCancels
    BY <1>22 DEF RuntimeCancels
  <1>23. CASE ProviderObeys
    BY <1>23 DEF ProviderObeys
  <1>24. CASE ProviderJoined
    BY <1>24 DEF ProviderJoined, CancelForEvidence, StartCancel
  <1>25. CASE CancelReturns
    BY <1>25 DEF CancelReturns
  <1>26. CASE CancelTimesOut
    BY <1>26 DEF CancelTimesOut
  <1>27. CASE WallTimesOut
    BY <1>27 DEF WallTimesOut, CancelForEvidence, StartCancel
  <1>28. CASE RunCancelled
    BY <1>28 DEF RunCancelled, CancelForEvidence, StartCancel
  <1>29. CASE TakeSnapshot
    BY <1>29 DEF TakeSnapshot
  <1>30. CASE SnapshotFails
    BY <1>30 DEF SnapshotFails
  <1>31. CASE CloseWorld
    BY <1>31 DEF CloseWorld, CloseDrops, CloseRaises
  <1>32. CASE LeaseMoves
    BY <1>32 DEF LeaseMoves, Renew, RenewalFails, LeaseExpires, CleanupAbandoned
  <1>33. CASE ProviderEnds
    BY <1>33 DEF ProviderEnds
  <1>34. ASSUME NEW c \in Calls, ProviderSubmits(c)
         PROVE  EvidenceInv'
    BY <1>34 DEF ProviderSubmits, Submit
  <1>35. ASSUME NEW c \in Calls, ProviderAbandons(c)
         PROVE  EvidenceInv'
    BY <1>35 DEF ProviderAbandons, Abandon
  <1>36. CASE UNCHANGED vars
    BY <1>36 DEF vars
  <1> QED
    BY <1>1, <1>s, <1>2, <1>3, <1>4, <1>5, <1>6, <1>7, <1>8, <1>9, <1>10, <1>11, <1>12, <1>13, <1>14,
       <1>15, <1>16, <1>17, <1>18, <1>19, <1>20, <1>21, <1>22, <1>23, <1>24, <1>25, <1>26,
       <1>27, <1>28, <1>29, <1>30, <1>31, <1>32, <1>33, <1>34, <1>35, <1>36
       DEF Next, RunnerStep, Preparation, Injecting, Turn, Cancellation, Ending, Timeouts,
           Invocation, Runtime, Provider

\* A record whose evidence is complete saw all of its world: neither a lease
\* that expired and was cleaned up, nor a renewal that died, nor a cancellation
\* at any point leaves a complete record that misses an event.
THEOREM CompleteEvidence == Spec => []CompleteRecordsSawTheirWorld
  <1>1. Init => EvidenceInv
    BY DEF Init, EvidenceInv, SnapshotSawAll, WorldIsGone
  <1>2. EvidenceInv /\ [Next]_vars => EvidenceInv'
    BY EvidenceStep
  <1>3. RunInv /\ EvidenceInv => CompleteRecordsSawTheirWorld
    BY DEF RunInv, EffectsTraced, EvidenceInv, SnapshotSawAll, WorldIsGone,
           CompleteRecordsSawTheirWorld
  <1> QED
    BY <1>1, <1>2, <1>3, RunInvariant, PTL DEF Spec

(***************************************************************************)
(* How runs end                                                            *)
(***************************************************************************)

\* The runner is still in the body of its loop: it neither cancels nor collects.
InLoop == pc \in {"reset", "first_snapshot", "before_worker", "start", "turn", "waiting", "invoke",
                  "read_events", "after_tool", "before_terminal"}

\* The worker is cancelled once the loop is left, which closes the bridge and
\* fails the callbacks, and its task has ended when the cancellation is over.
CancelledOutside == cancelled => ~InLoop
CancelsOnce == pc \in {"cancel_runtime", "join", "cancelled"} => cancelled
CancelledEnds == cancelled /\ pc \notin {"cancel_runtime", "join"} => provider # "running"
CancelledCloses == (cancelled => closed \/ provider = "none") /\ (closed => cancelled)
ClosedFails == closed => Pending = {}
AskedFirst == \A c \in Calls : callback[c] # "new" => c \in Elements(seen)
StartsLater == pc \in {"reset", "first_snapshot", "before_worker", "start"} => provider = "none"

\* A run that reports to have been cut short has cancelled its worker.
CutReasons == {"timeout", "cancelled", "budget_exceeded", "tool_timeout"}
CutCancels == terminal \in CutReasons /\ pc \in {"collect", "evidence", "close", "done"} => cancelled

CutInv ==
  /\ CancelledOutside /\ CancelsOnce /\ CancelledEnds /\ CancelledCloses
  /\ ClosedFails /\ AskedFirst /\ StartsLater /\ CutCancels

\* In the loop the trace has the result of every call but the one held or invoked,
\* and whatever result it has, the callback got.
Between == InLoop /\ pc # "invoke"
ResultsFollow ==
  /\ Between => callTrace = Noted(resultTrace, held)
  /\ pc = "invoke" => current # NoCall /\ callTrace = Append(resultTrace, current)
ResultsAnswered ==
  /\ InLoop => \A c \in Elements(resultTrace) : callback[c] = "answered"
  /\ pc = "waiting" /\ held # NoCall => callback[held] = "answered"

\* What a completed run has, from the SDK's last turn on.
WholeConversation ==
  /\ provider = "completed"
  /\ resultTrace = callTrace
  /\ Elements(seen) \ late \subseteq Elements(callTrace)
  /\ \A c \in Elements(callTrace) : callback[c] = "answered"
CompletesWhole ==
  /\ pc = "before_terminal" \/ terminal = "completed" => WholeConversation
  /\ terminal = "completed" => pc \in {"collect", "close", "done"}

AnswerInv == Bridged => ResultsFollow /\ ResultsAnswered /\ CompletesWhole

\* What handling a turn does to the loop.
LEMMA HandleTurnInLoop ==
  ASSUME NEW turn, NEW final \in BOOLEAN, HandleTurn(turn, final)
  PROVE  /\ pc' \in {"cancel", "collect", "before_terminal", "invoke"}
         /\ pc' = "collect" => terminal' = "worker_error"
         /\ pc' \in {"before_terminal", "invoke"} =>
              RecordTurn(turn.call, turn.result) /\ terminal' = terminal
         /\ pc' = "before_terminal" => final /\ ~endedPending'
         /\ pc' = "invoke" => turn.call # NoCall /\ current' = turn.call
         /\ terminal' \in {terminal, "adapter_error", "worker_error"}
  <1>1. CASE OverTokensOrCost(turn)
    BY <1>1 DEF OverTokensOrCost, StartCancel
  <1>2. CASE RecordTurn(turn.call, turn.result) /\ NoToolCalled(turn, final)
    BY <1>2 DEF NoToolCalled, CancelForEvidence, StartCancel, Return
  <1>3. CASE RecordTurn(turn.call, turn.result) /\ turn.call # NoCall /\ CallTool(turn.call)
    BY <1>3 DEF CallTool, StartCancel
  <1> QED
    BY <1>1, <1>2, <1>3 DEF HandleTurn

\* No step leaves a cancelled worker running or a callback of it waiting.
LEMMA CutStep ==
  ASSUME TypeInv, ServingInv, CutInv, [Next]_vars
  PROVE  CutInv'
  <1> USE DEF CutInv, CancelledOutside, CancelsOnce, CancelledEnds, CancelledCloses, ClosedFails,
              AskedFirst, StartsLater, CutCancels, CutReasons, InLoop, Pending, bridgeVars,
              adapterVars, recordVars
  <1>0. /\ callback \in [Calls -> CallbackState] /\ seen \in Seq(Calls)
        /\ closed \in BOOLEAN /\ cancelled \in BOOLEAN
        /\ after \in {"none", "budget_exceeded", "tool_timeout", "evidence"}
        /\ (provider = "none" => seen = <<>>)
    BY DEF TypeInv, RunTypeOK, BridgeTypeOK, AdapterTypeOK, FlowTypeOK, ServingInv, OnlySdksAsk
  <1>1. CASE ResetWorld
    BY <1>1 DEF ResetWorld, CreateWorld
  <1>s. CASE FirstSnapshot
    BY <1>s DEF FirstSnapshot
  <1>2. CASE ResetFails
    BY <1>2 DEF ResetFails, RaiseUnexpected
  <1>3. CASE StartWorker
    BY <1>3 DEF StartWorker
  <1>4. CASE DeliverInjection
    BY <1>4 DEF DeliverInjection
  <1>5. CASE InjectionsDelivered
    BY <1>5 DEF InjectionsDelivered, InjectionPoints, Raise, Return
  <1>6. CASE InjectionFails
    BY <1>6 DEF InjectionFails, InjectionPoints, Raise
  <1>7. CASE ReadEvents
    BY <1>7 DEF ReadEvents
  <1>8. CASE EventsUnreadable
    BY <1>8 DEF EventsUnreadable, RaiseUnexpected
  <1>9. CASE NoTurnsLeft
    BY <1>9 DEF NoTurnsLeft, StartCancel
  <1>10. CASE EnterTurn
    <2>1. /\ UNCHANGED <<seen, queue, closed, provider, cancelled>> /\ pc = "turn"
          /\ \/ pc' = "cancel" \/ pc' = "waiting"
      BY <1>10 DEF EnterTurn, CanTurn, Resolve, CancelForEvidence, StartCancel
    <2>2. \/ callback' = callback
          \/ held # NoCall /\ CanResolve(held) /\ callback' = [callback EXCEPT ![held] = "answered"]
      BY <1>10 DEF EnterTurn, Resolve, CancelForEvidence, StartCancel
    <2>3. \A c \in Calls : \/ callback'[c] = callback[c]
                           \/ callback[c] = "waiting" /\ callback'[c] = "answered"
      BY <1>0, <2>2 DEF CanResolve
    <2> QED
      BY <2>1, <2>3 DEF Elements
  <1>11. CASE ResultUnwanted
    BY <1>11 DEF ResultUnwanted, CanTurn, Raise
  <1>12. CASE TakeCall
    BY <1>12, HandleTurnInLoop DEF TakeCall, NextCall
  <1>13. CASE ProviderDone
    <2>1. CASE HandleTurn([call |-> NoCall, result |-> held], TRUE)
      BY <1>13, <2>1, HandleTurnInLoop DEF ProviderDone
    <2>2. CASE ~HandleTurn([call |-> NoCall, result |-> held], TRUE)
      BY <1>13, <2>2 DEF ProviderDone, CancelForEvidence, StartCancel, Raise
    <2> QED
      BY <2>1, <2>2
  <1>14. CASE Decide
    BY <1>14, HandleTurnInLoop DEF Decide, CanTurn
  <1>15. CASE DecideFails
    BY <1>15 DEF DecideFails, CanTurn, Raise
  <1>16. CASE ToolCommits
    BY <1>16 DEF ToolCommits
  <1>17. CASE ToolSucceeds
    BY <1>17 DEF ToolSucceeds
  <1>18. CASE ToolRejects
    BY <1>18 DEF ToolRejects, Return
  <1>19. CASE ToolBreaks
    BY <1>19 DEF ToolBreaks, RaiseUnexpected
  <1>20. CASE ToolTimesOut
    BY <1>20 DEF ToolTimesOut, StartCancel
  <1>21. CASE CancelBegins
    BY <1>0, <1>21 DEF CancelBegins, CloseBridge
  <1>22. CASE RuntimeCancels
    BY <1>22 DEF RuntimeCancels
  <1>23. CASE ProviderObeys
    BY <1>23 DEF ProviderObeys
  <1>24. CASE ProviderJoined
    BY <1>24 DEF ProviderJoined, CancelForEvidence, StartCancel
  <1>25. CASE CancelReturns
    BY <1>25 DEF CancelReturns
  <1>26. CASE CancelTimesOut
    BY <1>26 DEF CancelTimesOut
  <1>27. CASE WallTimesOut
    BY <1>27 DEF WallTimesOut, CancelForEvidence, StartCancel
  <1>28. CASE RunCancelled
    BY <1>28 DEF RunCancelled, CancelForEvidence, StartCancel
  <1>29. CASE TakeSnapshot
    BY <1>29 DEF TakeSnapshot
  <1>30. CASE SnapshotFails
    BY <1>30 DEF SnapshotFails
  <1>31. CASE CloseWorld
    BY <1>31 DEF CloseWorld
  <1>32. CASE LeaseMoves
    BY <1>32 DEF LeaseMoves
  <1>33. CASE ProviderEnds
    BY <1>33 DEF ProviderEnds, FailureOf
  <1>34. ASSUME NEW c \in Calls, ProviderSubmits(c)
         PROVE  CutInv'
    BY <1>0, <1>34, ElementsAppend DEF ProviderSubmits, Submit
  <1>35. ASSUME NEW c \in Calls, ProviderAbandons(c)
         PROVE  CutInv'
    BY <1>0, <1>35 DEF ProviderAbandons, Abandon
  <1>36. CASE UNCHANGED vars
    BY <1>36 DEF vars
  <1> QED
    BY <1>1, <1>s, <1>2, <1>3, <1>4, <1>5, <1>6, <1>7, <1>8, <1>9, <1>10, <1>11, <1>12, <1>13, <1>14,
       <1>15, <1>16, <1>17, <1>18, <1>19, <1>20, <1>21, <1>22, <1>23, <1>24, <1>25, <1>26,
       <1>27, <1>28, <1>29, <1>30, <1>31, <1>32, <1>33, <1>34, <1>35, <1>36
       DEF Next, RunnerStep, Preparation, Injecting, Turn, Cancellation, Ending, Timeouts,
           Invocation, Runtime, Provider

\* Who is noted joins the others.
LEMMA ElementsNoted ==
  ASSUME NEW s \in Seq(Calls), NEW x \in Calls \cup {NoCall}
  PROVE  \A c \in Elements(Noted(s, x)) : c \in Elements(s) \/ (x # NoCall /\ c = x)
  BY ElementsAppend DEF Noted

\* An answer that was given stays given.
LEMMA AnswersStay ==
  ASSUME TypeInv, ServingInv, CutInv, [Next]_vars, NEW c \in Calls, callback[c] = "answered"
  PROVE  callback'[c] = "answered"
  <1> USE DEF bridgeVars
  <1>0. callback \in [Calls -> CallbackState]
    BY DEF TypeInv, RunTypeOK, BridgeTypeOK
  <1>1. CASE Quiet
    BY <1>1 DEF Quiet
  <1>2. CASE EnterTurn
    BY <1>0, <1>2 DEF EnterTurn, Resolve
  <1>3. CASE TakeCall
    BY <1>3 DEF TakeCall, NextCall
  <1>4. CASE Decide
    BY <1>4 DEF Decide
  <1>5. CASE ToolCommits
    BY <1>5 DEF ToolCommits
  <1>6. CASE CancelBegins
    BY <1>0, <1>6 DEF CancelBegins, CloseBridge
  <1>7. CASE ProviderJoined
    BY <1>7 DEF ProviderJoined
  <1>8. CASE CancelReturns
    BY <1>8 DEF CancelReturns
  <1>9. ASSUME NEW d \in Calls, ProviderSubmits(d)
        PROVE  callback'[c] = "answered"
    BY <1>0, <1>9 DEF ProviderSubmits, Submit, CutInv, AskedFirst
  <1>10. ASSUME NEW d \in Calls, ProviderAbandons(d)
         PROVE  callback'[c] = "answered"
    BY <1>0, <1>10 DEF ProviderAbandons, Abandon
  <1> QED
    BY <1>1, <1>2, <1>3, <1>4, <1>5, <1>6, <1>7, <1>8, <1>9, <1>10, QuietOrNot

\* No step of the loop loses a result or skips an answer, and the last turn leaves
\* nothing behind.
LEMMA AnswerStep ==
  ASSUME TypeInv, ServingInv, OrderInv, CutInv, AnswerInv, [Next]_vars
  PROVE  AnswerInv'
  <1> USE DEF AnswerInv, ResultsFollow, ResultsAnswered, CompletesWhole, WholeConversation,
              Between, InLoop, Bridged, bridgeVars, adapterVars, traceVars, recordVars
  <1>0. /\ callTrace \in Seq(Calls) /\ resultTrace \in Seq(Calls) /\ seen \in Seq(Calls)
        /\ queue \in Seq(Calls) /\ callback \in [Calls -> CallbackState]
        /\ held \in Calls \cup {NoCall} /\ current \in Calls \cup {NoCall}
    BY DEF TypeInv, RunTypeOK, BridgeTypeOK, TraceTypeOK
  <1>a. \A c \in Calls : callback[c] = "answered" => callback'[c] = "answered"
    BY AnswersStay
  <1>b. Elements(resultTrace) \subseteq Calls /\ Elements(seen) \subseteq Calls
    BY <1>0 DEF Elements
  <1>c. UNCHANGED seen => UNCHANGED Elements(seen)
    BY DEF Elements
  <1>d. UNCHANGED resultTrace => UNCHANGED Elements(resultTrace)
    BY DEF Elements
  <1>e. UNCHANGED <<resultTrace, held>> => UNCHANGED Noted(resultTrace, held)
    BY DEF Noted
  <1> USE <1>a, <1>b, <1>c, <1>d, <1>e
  <1>1. CASE ResetWorld
    BY <1>1 DEF ResetWorld, CreateWorld
  <1>s. CASE FirstSnapshot
    BY <1>s DEF FirstSnapshot
  <1>2. CASE ResetFails
    BY <1>2 DEF ResetFails, RaiseUnexpected
  <1>3. CASE StartWorker
    BY <1>3 DEF StartWorker
  <1>4. CASE DeliverInjection
    BY <1>4 DEF DeliverInjection
  <1>5. CASE InjectionsDelivered
    BY <1>5 DEF InjectionsDelivered, InjectionPoints, Raise, Return
  <1>6. CASE InjectionFails
    BY <1>6 DEF InjectionFails, InjectionPoints, Raise
  <1>7. CASE ReadEvents
    BY <1>7 DEF ReadEvents
  <1>8. CASE EventsUnreadable
    BY <1>8 DEF EventsUnreadable, RaiseUnexpected
  <1>9. CASE NoTurnsLeft
    BY <1>9 DEF NoTurnsLeft, StartCancel
  <1>10. CASE EnterTurn
    <2>1. CASE endedPending'
      BY <1>10, <2>1 DEF EnterTurn, CanTurn, CancelForEvidence, StartCancel
    <2>2. CASE ~endedPending'
      BY <1>0, <1>10, <2>2 DEF EnterTurn, CanTurn, Resolve
    <2> QED
      BY <2>1, <2>2
  <1>11. CASE ResultUnwanted
    BY <1>11 DEF ResultUnwanted, CanTurn, Raise
  <1>12. CASE TakeCall
    <2> DEFINE turn == [call |-> Head(queue), result |-> held]
    <2>1. /\ pc = "waiting" /\ held' = NoCall /\ queue # <<>> /\ Head(queue) \in Calls /\ Bridged
          /\ UNCHANGED <<seen, callback, provider, sdk>>
      BY <1>0, <1>12 DEF TakeCall, NextCall
    <2>2. /\ pc' \in {"cancel", "collect", "invoke"}
          /\ pc' = "invoke" => RecordTurn(turn.call, turn.result) /\ current' = turn.call
          /\ terminal' \in {terminal, "adapter_error", "worker_error"}
      BY <1>12, HandleTurnInLoop DEF TakeCall
    <2>3. Noted(callTrace, turn.call) = Append(callTrace, turn.call)
      BY <2>1, NoCallIsNoCall DEF Noted
    <2>4. CASE pc' = "invoke"
      <3>1. resultTrace' = callTrace /\ callTrace' = Append(resultTrace', current')
        BY <2>1, <2>2, <2>3, <2>4 DEF RecordTurn
      <3>2. \A c \in Elements(callTrace) : callback[c] = "answered"
        BY <1>0, <2>1, ElementsNoted
      <3>3. Elements(resultTrace') = Elements(callTrace)
        BY <3>1
      <3> QED
        BY <2>1, <2>2, <2>4, <3>1, <3>2, <3>3, NoCallIsNoCall
    <2>5. CASE pc' # "invoke"
      BY <2>1, <2>2, <2>5
    <2> QED
      BY <2>4, <2>5
  <1>13. CASE ProviderDone
    <2>1. /\ pc = "waiting" /\ held' = NoCall /\ UNCHANGED <<seen, queue, callback, provider, sdk, closed>>
          /\ endedPending' = (Pending # {} \/ queue # <<>>)
      BY <1>13 DEF ProviderDone
    <2>2. CASE HandleTurn([call |-> NoCall, result |-> held], TRUE)
      <3> DEFINE turn == [call |-> NoCall, result |-> held]
      <3>0. /\ pc' \in {"cancel", "collect", "before_terminal", "invoke"}
            /\ pc' = "before_terminal" => RecordTurn(turn.call, turn.result) /\ ~endedPending'
            /\ pc' # "invoke" \/ turn.call # NoCall
            /\ terminal' \in {terminal, "adapter_error", "worker_error"}
        BY <2>2, HandleTurnInLoop
      <3>1. /\ pc' \in {"cancel", "collect", "before_terminal"}
            /\ pc' = "before_terminal" => RecordTurn(NoCall, held) /\ ~endedPending'
            /\ terminal' \in {terminal, "adapter_error", "worker_error"}
        BY <3>0
      <3>2. CASE pc' = "before_terminal" /\ Bridged
        <4>1. queue = <<>> /\ provider = "completed"
          BY <1>13, <2>1, <3>1, <3>2 DEF ProviderDone, CancelForEvidence, StartCancel, Raise
        <4>2. callTrace' = callTrace /\ resultTrace' = callTrace
          BY <2>1, <3>1, <3>2 DEF RecordTurn, Noted
        <4>3. callTrace = seen
          <5>1. draft = NoTurn /\ ~closed
            BY <2>1 DEF ServingInv, DraftAwaitsCancel, Cancelling, CutInv, CancelledOutside,
                        CancelledCloses
          <5>2. callTrace \o queue = seen
            BY <3>2, <5>1 DEF OrderInv, TakenThenQueued, Taken, Noted, NoTurn
          <5> QED
            BY <1>0, <4>1, <5>2
        <4>4. \A c \in Elements(callTrace) : callback[c] = "answered"
          BY <1>0, <2>1, <3>2, ElementsNoted
        <4>5. Elements(resultTrace') = Elements(callTrace) /\ Elements(seen') = Elements(callTrace)
          BY <2>1, <4>2, <4>3
        <4> QED
          BY <2>1, <3>1, <3>2, <4>1, <4>2, <4>3, <4>4, <4>5 DEF Noted
      <3>3. CASE pc' # "before_terminal" /\ Bridged
        BY <2>1, <3>1, <3>3
      <3> QED
        BY <2>1, <3>2, <3>3
    <2>3. CASE ~HandleTurn([call |-> NoCall, result |-> held], TRUE)
      BY <1>13, <2>1, <2>3 DEF ProviderDone, CancelForEvidence, StartCancel, Raise
    <2> QED
      BY <2>2, <2>3
  <1>14. CASE Decide
    BY <1>14 DEF Decide
  <1>15. CASE DecideFails
    BY <1>15 DEF DecideFails
  <1>16. CASE ToolCommits
    BY <1>16 DEF ToolCommits
  <1>17. CASE ToolSucceeds
    BY <1>17 DEF ToolSucceeds, Noted
  <1>18. CASE ToolRejects
    BY <1>18 DEF ToolRejects, Noted
  <1>19. CASE ToolBreaks
    BY <1>19 DEF ToolBreaks, RaiseUnexpected
  <1>20. CASE ToolTimesOut
    BY <1>20 DEF ToolTimesOut, StartCancel
  <1>21. CASE CancelBegins
    BY <1>21 DEF CancelBegins, CloseBridge
  <1>22. CASE RuntimeCancels
    BY <1>22 DEF RuntimeCancels
  <1>23. CASE ProviderObeys
    BY <1>23 DEF ProviderObeys
  <1>24. CASE ProviderJoined
    BY <1>24 DEF ProviderJoined, CancelForEvidence, StartCancel
  <1>25. CASE CancelReturns
    <2>1. after \in {"none", "budget_exceeded", "tool_timeout", "evidence"}
      BY DEF TypeInv, RunTypeOK, FlowTypeOK
    <2> QED
      BY <1>25, <2>1 DEF CancelReturns
  <1>26. CASE CancelTimesOut
    BY <1>26 DEF CancelTimesOut
  <1>27. CASE WallTimesOut
    BY <1>27 DEF WallTimesOut, CancelForEvidence, StartCancel
  <1>28. CASE RunCancelled
    BY <1>28 DEF RunCancelled, CancelForEvidence, StartCancel
  <1>29. CASE TakeSnapshot
    BY <1>29 DEF TakeSnapshot
  <1>30. CASE SnapshotFails
    BY <1>30 DEF SnapshotFails
  <1>31. CASE CloseWorld
    BY <1>31 DEF CloseWorld
  <1>32. CASE LeaseMoves
    BY <1>32 DEF LeaseMoves
  <1>33. CASE ProviderEnds
    BY <1>33 DEF ProviderEnds
  <1>34. ASSUME NEW c \in Calls, ProviderSubmits(c)
         PROVE  AnswerInv'
    <2>1. /\ UNCHANGED <<pc, sdk, provider, terminal, held, current, callTrace, resultTrace>>
          /\ seen' = Append(seen, c)
          /\ provider # "running" => late' = late \cup {c}
          /\ late \subseteq late'
      BY <1>34 DEF ProviderSubmits, Submit
    <2>2. Elements(seen') = Elements(seen) \cup {c} /\ Elements(callTrace') = Elements(callTrace)
      BY <1>0, <2>1, ElementsAppend
    <2>3. WholeConversation => WholeConversation'
      <3>1. WholeConversation => Elements(callTrace) \subseteq Calls
        BY <1>b DEF WholeConversation
      <3> QED
        BY <2>1, <2>2, <3>1 DEF WholeConversation
    <2>4. ResultsFollow => ResultsFollow'
      BY <2>1 DEF ResultsFollow
    <2>5. ResultsAnswered => ResultsAnswered'
      BY <1>0, <2>1 DEF ResultsAnswered
    <2> HIDE DEF WholeConversation, ResultsFollow, ResultsAnswered
    <2> QED
      BY <2>1, <2>3, <2>4, <2>5
  <1>35. ASSUME NEW c \in Calls, ProviderAbandons(c)
         PROVE  AnswerInv'
    BY <1>35 DEF ProviderAbandons, Abandon
  <1>36. CASE UNCHANGED vars
    BY <1>36 DEF vars
  <1> QED
    BY <1>1, <1>s, <1>2, <1>3, <1>4, <1>5, <1>6, <1>7, <1>8, <1>9, <1>10, <1>11, <1>12, <1>13, <1>14,
       <1>15, <1>16, <1>17, <1>18, <1>19, <1>20, <1>21, <1>22, <1>23, <1>24, <1>25, <1>26,
       <1>27, <1>28, <1>29, <1>30, <1>31, <1>32, <1>33, <1>34, <1>35, <1>36
       DEF Next, RunnerStep, Preparation, Injecting, Turn, Cancellation, Ending, Timeouts,
           Invocation, Runtime, Provider

\* A completed run has the SDK's whole conversation, and a run that was cut short
\* leaves neither a task nor a callback of the SDK behind, whenever and however
\* often it is cut.
THEOREM RunsEndSettled == Spec => []EndsSettled
  <1>1. Init => CutInv /\ AnswerInv
    BY DEF Init, BridgeInit, CutInv, CancelledOutside, CancelsOnce, CancelledEnds, CancelledCloses,
           ClosedFails, AskedFirst, StartsLater, CutCancels, CutReasons, InLoop, Pending,
           AnswerInv, ResultsFollow, ResultsAnswered, CompletesWhole, Between, Noted, Elements
  <1>2. RunInv /\ CutInv /\ AnswerInv /\ [Next]_vars => CutInv' /\ AnswerInv'
    BY CutStep, AnswerStep DEF RunInv
  <1>3. RunInv /\ CutInv /\ AnswerInv => EndsSettled
    <2> SUFFICES ASSUME RunInv, CutInv, AnswerInv, pc = "done"
                 PROVE  /\ terminal = "completed" /\ Bridged => WholeConversation
                        /\ terminal \in CutReasons => provider # "running" /\ Pending = {}
      BY DEF EndsSettled, WholeConversation, CutReasons
    <2>1. terminal = "completed" /\ Bridged => WholeConversation
      BY DEF AnswerInv, CompletesWhole
    <2>2. ASSUME terminal \in CutReasons
          PROVE  provider # "running" /\ Pending = {}
      <3>1. cancelled /\ provider # "running" /\ (closed \/ provider = "none")
        BY <2>2 DEF CutInv, CutCancels, CancelledEnds, CancelledCloses
      <3>2. provider = "none" => Pending = {}
        BY DEF RunInv, ServingInv, OnlySdksAsk, CutInv, AskedFirst, Pending, Elements
      <3> QED
        BY <3>1, <3>2 DEF CutInv, ClosedFails
    <2> QED
      BY <2>1, <2>2
  <1> QED
    BY <1>1, <1>2, <1>3, RunInvariant, PTL DEF Spec

=============================================================================
