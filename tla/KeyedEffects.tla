---------------------------- MODULE KeyedEffects ----------------------------
(***************************************************************************)
(* What a tool world promises of the mutations a worker asks for: a request  *)
(* takes effect at most once, an idempotency key stands for one request, and *)
(* whoever is told of success is told of an effect that happened, always by  *)
(* the same answer.  Nothing is said of what an effect does.                 *)
(***************************************************************************)
EXTENDS Integers

CONSTANT Call   \* mutation requests; each is a record with a field key

VARIABLES
  effects,   \* requests that took effect, each with the answer it produced
  told       \* what callers were told

Answered == [call : Call, answer : Nat]

Init == effects = {} /\ told = {}

\* A request takes effect; its caller may never hear of it.
Take ==
  \E e \in effects' \ effects :
    /\ e \in Answered
    /\ \A x \in effects : x.call.key # e.call.key
    /\ effects' = effects \cup {e}
    /\ told' \in {told, told \cup {e}}

\* A request that already took effect is answered, again or at last.
Tell ==
  /\ \E e \in effects : told' = told \cup {e}
  /\ UNCHANGED effects

Next == Take \/ Tell

Spec == Init /\ [][Next]_<<effects, told>>

=============================================================================
