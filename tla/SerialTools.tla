---------------------------- MODULE SerialTools ----------------------------
(***************************************************************************)
(* What the runner promises an agent SDK that calls tools concurrently: one *)
(* serial tool server.  Every request is its own; effects happen one at a   *)
(* time, in the order of the requests; a request is answered when all that   *)
(* precede it are over, and none that was passed over ever comes back.       *)
(***************************************************************************)
EXTENDS Naturals, Sequences

CONSTANT Calls

VARIABLES
  asked,     \* the requests, in order
  applied,   \* the requests that changed the world
  answered   \* the requests whose callback has its result

serialVars == <<asked, applied, answered>>

Position(c) == CHOOSE i \in DOMAIN asked : asked[i] = c
Asked(c) == \E i \in DOMAIN asked : asked[i] = c

SerialInit == asked = <<>> /\ applied = {} /\ answered = {}

Ask(c) ==
  /\ ~Asked(c)
  /\ asked' = Append(asked, c)
  /\ UNCHANGED <<applied, answered>>

\* Nothing later was applied, nothing as late was answered.
Apply(c) ==
  /\ Asked(c)
  /\ \A d \in applied : Position(d) < Position(c)
  /\ \A d \in answered : Position(d) < Position(c)
  /\ applied' = applied \cup {c}
  /\ UNCHANGED <<asked, answered>>

Answer(c) ==
  /\ Asked(c)
  /\ \A d \in applied : Position(d) <= Position(c)
  /\ \A d \in answered : Position(d) < Position(c)
  /\ answered' = answered \cup {c}
  /\ UNCHANGED <<asked, applied>>

SerialNext == \E c \in Calls : Ask(c) \/ Apply(c) \/ Answer(c)

SerialSpec == SerialInit /\ [][SerialNext]_serialVars
=============================================================================
