------------------------------ MODULE Insurance ------------------------------
(***************************************************************************)
(* The insurance world, insurance.py: claims on one policy with one          *)
(* coverage.  The fixture's shape is chosen by the band of the seed; amounts *)
(* are in thousands of minor units.  A request names a claim; opt is the     *)
(* decision.                                                                 *)
(***************************************************************************)
EXTENDS WorldCalls, FiniteSetsExt

\* sublimit: what the coverage grants at most for claims of this type, if it
\* says so; covered: opened within the policy's period; timely: loss, report
\* and opening follow each other.
Claim(status, requested, approved) ==
  [status |-> status, requested |-> requested, approved |-> approved, paid |-> 0,
   sublimit |-> {}, covered |-> TRUE, timely |-> TRUE]

InsuranceState(policy, claims) ==
  [world |-> "insurance", policy |-> policy, limit |-> 500, deductible |-> 50,
   claims |-> claims, rows |-> <<>>]

\* seeds below 8000: the adjuster's single claim
AdjusterFixture == InsuranceState("active", [clm_100 |-> Claim("open", 200, 0)])

\* The analyst's fixtures have a second claim, opened before the policy began;
\* bands of 100 seeds from 8500.
PriorClaim == [Claim("open", 185, 0) EXCEPT !.covered = FALSE]
AnalystFixture(policy, first) == InsuranceState(policy, [clm_100 |-> first, clm_101 |-> PriorClaim])

SmallFixture == AnalystFixture("active", Claim("open", 20, 0))
OverLimitFixture == AnalystFixture("active", Claim("open", 600, 0))
GlassFixture == AnalystFixture("active", [Claim("open", 130, 0) EXCEPT !.sublimit = {100}])
ApprovedFixture == AnalystFixture("active", Claim("approved", 200, Min({200, 500})))
UncoveredFixture == AnalystFixture("active", [Claim("open", 200, 0) EXCEPT !.covered = FALSE])
UntimelyFixture == AnalystFixture("active", [Claim("open", 200, 0) EXCEPT !.timely = FALSE])
LapsedFixture == AnalystFixture("lapsed", Claim("open", 200, 0))

-----------------------------------------------------------------------------
(* The handlers; each is entered with the claim looked up *)

OnClaim(c, d) == c.on \in DOMAIN d.claims /\ DeskScoped(c)

\* add_analyst_note, record_claim_recommendation, flag_claim_for_review and
\* add_adjuster_note add a row whatever the claim's status.
ClaimRow(c, d, table, type) ==
  When(OnClaim(c, d), AddRow(d, table, c), Event(type, c.on, c.n, "none", "added"))

Undecided == {"open", "evidence_requested", "investigating"}

\* request_evidence and escalate_investigation move the claim and add a row.
MoveClaim(c, d, from, to, table, type) ==
  When(OnClaim(c, d) /\ d.claims[c.on].status \in from,
       [AddRow(d, table, c) EXCEPT !.claims[c.on].status = to],
       Event(type, c.on, 0, d.claims[c.on].status, to))

ApprovableRequested(d, claim) == claim.requested       \* mutant: coverage forgotten
Approvable(d, claim) == Min({claim.requested, d.limit})

DecideClaim(c, d) ==
  LET claim == d.claims[c.on]
      approves == c.opt = "approve"
      status == IF approves THEN "approved" ELSE "rejected"
  IN  When(/\ OnClaim(c, d)
           /\ claim.status \in Undecided
           /\ IF approves THEN c.n > 0 /\ c.n <= Approvable(d, claim) ELSE c.n = 0,
           [d EXCEPT !.claims[c.on].status = status,
                     !.claims[c.on].approved = IF approves THEN c.n ELSE @],
           Event("claim.decided", c.on, c.n, claim.status, status))

IssueClaimPayment(c, d) ==
  LET claim == d.claims[c.on]
      paid == claim.paid + c.n
  IN  When(/\ OnClaim(c, d)
           /\ claim.status = "approved"
           /\ d.policy = "active"
           /\ c.currency = "USD"
           /\ c.n <= claim.approved - claim.paid,
           [AddRow(d, "payments", c) EXCEPT
              !.claims[c.on].paid = paid,
              !.claims[c.on].status = IF paid = claim.approved THEN "paid" ELSE @],
           Event("claim.payment_issued", c.on, c.n, claim.paid, paid))

\* calculate_coverage_analysis, a read-only tool
Payable(d, claim) ==
  Max({0, Min({claim.requested, d.limit} \cup claim.sublimit) - d.deductible})
Eligible(d, claim) ==
  d.policy = "active" /\ claim.covered /\ claim.timely /\ claim.requested > d.deductible

InsuranceEffect(c, d) ==
  CASE c.tool = "add_analyst_note" ->
         ClaimRow(c, d, "analyst_notes", "claim.analyst_note_added")
    [] c.tool = "record_claim_recommendation" ->
         ClaimRow(c, d, "recommendations", "claim.recommendation_recorded")
    [] c.tool = "flag_claim_for_review" ->
         ClaimRow(c, d, "risk_flags", "claim.risk_flagged")
    [] c.tool = "add_adjuster_note" -> ClaimRow(c, d, "notes", "claim.note_added")
    [] c.tool = "request_evidence" ->
         MoveClaim(c, d, {"open", "investigating"}, "evidence_requested",
                   "documents", "claim.evidence_requested")
    [] c.tool = "escalate_investigation" ->
         MoveClaim(c, d, Undecided, "investigating",
                   "investigations", "claim.investigation_escalated")
    [] c.tool = "decide_claim" -> DecideClaim(c, d)
    [] c.tool = "issue_claim_payment" -> IssueClaimPayment(c, d)
    [] OTHER -> {}                        \* ToolNotFound

=============================================================================
