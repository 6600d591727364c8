---------------------------- MODULE JobLifecycle ----------------------------
(***************************************************************************)
(* What a suite job promises to the client who watches it, with none of the *)
(* machinery (executors, leases, attempts, retries, takeovers) that keeps   *)
(* the promise: the job begins once and ends once, a scenario is judged at  *)
(* most once and its verdict stays, the progress shown is at every moment   *)
(* the tally of the verdicts, a cancelled job judges nothing more, and the  *)
(* evidence is published once, after the end.                               *)
(***************************************************************************)
EXTENDS Integers, FiniteSets

CONSTANT Scenario

VARIABLES
  phase,      \* "waiting", "active", "stopping", or how the job ended
  verdict,    \* the judgement of each scenario, or "open"
  progress,   \* the tally shown to the client
  published   \* evidence can be downloaded

lifeVars == <<phase, verdict, progress, published>>

Ended == {"cancelled", "completed", "failed"}
Verdict == {"passed", "failed", "error"}

\* How many scenarios are judged, and how many each way.
Tally(v) ==
  LET judged(S) == Cardinality({s \in Scenario : v[s] \in S})
  IN  [completed |-> judged(Verdict),
       passed |-> judged({"passed"}),
       failed |-> judged({"failed", "error"})]

Init ==
  /\ phase = "waiting"
  /\ verdict = [s \in Scenario |-> "open"]
  /\ progress = [completed |-> 0, passed |-> 0, failed |-> 0]
  /\ published = FALSE

Begin ==
  /\ phase = "waiting"
  /\ phase' = "active"
  /\ UNCHANGED <<verdict, progress, published>>

Judge(s, v) ==
  /\ phase = "active"
  /\ verdict[s] = "open"
  /\ verdict' = [verdict EXCEPT ![s] = v]
  /\ progress' = Tally(verdict')
  /\ UNCHANGED <<phase, published>>

\* A job that has not begun is over at once.
Cancel ==
  /\ \/ phase = "waiting" /\ phase' = "cancelled"
     \/ phase = "active" /\ phase' = "stopping"
  /\ UNCHANGED <<verdict, progress, published>>

\* A stopping job can only end cancelled; a failed one judges what it left open.
End ==
  /\ \/ phase = "active" /\ phase' \in {"completed", "failed"}
     \/ phase = "stopping" /\ phase' = "cancelled"
  /\ verdict' = [s \in Scenario |->
                   IF phase' = "failed" /\ verdict[s] = "open"
                     THEN "error" ELSE verdict[s]]
  /\ progress' = Tally(verdict')
  /\ UNCHANGED published

Publish ==
  /\ phase \in Ended
  /\ ~published
  /\ published' = TRUE
  /\ UNCHANGED <<phase, verdict, progress>>

Next ==
  \/ Begin
  \/ \E s \in Scenario, v \in Verdict : Judge(s, v)
  \/ Cancel
  \/ End
  \/ Publish

Spec == Init /\ [][Next]_lifeVars

=============================================================================
