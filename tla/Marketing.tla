------------------------------ MODULE Marketing ------------------------------
(***************************************************************************)
(* The marketing world, marketing.py: campaigns of one advertiser, each      *)
(* against an audience segment.  The fixture's shape is chosen by the band   *)
(* of the seed; amounts are in thousands of minor units.  A request names a  *)
(* campaign.                                                                 *)
(***************************************************************************)
EXTENDS WorldCalls, FiniteSetsExt

\* subcap: the segment's cap for the campaign's channel, if it has one;
\* activated: submitted after the advertiser's activation; timely: flight
\* start, brief and submission follow each other.
Campaign(status, proposed) ==
  [status |-> status, proposed |-> proposed, spent |-> 0,
   approved |-> IF status = "live" THEN Min({proposed, 500}) ELSE 0,
   segment |-> "seg_paid_social", subcap |-> {}, activated |-> TRUE,
   timely |-> TRUE]

\* The second campaign's segment exists only when it shares the first one's.
PriorCampaign ==
  [Campaign("draft", 185) EXCEPT !.segment = "seg_paid_social_prior", !.activated = FALSE]

MarketingState(advertiser, first, second) ==
  [world |-> "marketing", advertiser |-> advertiser,
   segments |-> {"seg_paid_social"}, cap |-> 500, fee |-> 20,
   campaigns |-> [cmp_100 |-> first, cmp_101 |-> second], rows |-> <<>>]

FirstFixture(first) == MarketingState("active", first, PriorCampaign)

DraftFixture == FirstFixture(Campaign("draft", 200))
BelowFeeFixture == FirstFixture(Campaign("draft", 8))
OverCapFixture == FirstFixture(Campaign("draft", 600))
DisplayFixture == FirstFixture([Campaign("draft", 130) EXCEPT !.subcap = {100}])
LiveFixture == FirstFixture(Campaign("live", 200))
CompletedFixture == FirstFixture(Campaign("completed", 200))
LateFixture == FirstFixture([Campaign("draft", 200) EXCEPT !.activated = FALSE])
DisorderedFixture == FirstFixture([Campaign("draft", 200) EXCEPT !.timely = FALSE])
SharedFixture == MarketingState("active", Campaign("draft", 200), Campaign("draft", 185))
SuspendedFixture == MarketingState("suspended", Campaign("draft", 200), PriorCampaign)

-----------------------------------------------------------------------------
(* The handlers; each is entered with the campaign looked up *)

OnCampaign(c, d) == c.on \in DOMAIN d.campaigns /\ DeskScoped(c)

\* add_campaign_note, record_launch_recommendation and
\* flag_campaign_for_review add a row whatever the campaign's status.
CampaignRow(c, d, table, type) ==
  When(OnCampaign(c, d), AddRow(d, table, c), Event(type, c.on, c.n, "none", "added"))

Unlaunched == {"draft", "data_requested", "under_review"}

\* request_suppression_update, escalate_compliance_review and launch_campaign
\* move the campaign and add a row.
MoveCampaign(c, d, from, to, table, type) ==
  When(OnCampaign(c, d) /\ d.campaigns[c.on].status \in from,
       [AddRow(d, table, c) EXCEPT !.campaigns[c.on].status = to],
       Event(type, c.on, 0, d.campaigns[c.on].status, to))

SendCommunication(c, d) ==
  When(OnCampaign(c, d) /\ d.campaigns[c.on].status = "live",
       AddRow(d, "communications", c),
       Event("campaign.communication_sent", c.on, 0, "none", "sent"))

\* One allocation is held against the proposed budget (or what is left of the
\* approved one, if more), whatever earlier allocations spent.
Allocatable(campaign) == Max({campaign.approved - campaign.spent, campaign.proposed})

UsedUpExactly(campaign, spent) == spent = campaign.approved  \* mutant
UsedUp(campaign, spent) == spent >= campaign.approved /\ campaign.approved > 0

AllocateBudget(c, d) ==
  LET campaign == d.campaigns[c.on]
      spent == campaign.spent + c.n
  IN  When(/\ OnCampaign(c, d)
           /\ campaign.status \in Unlaunched \cup {"live"}
           /\ campaign.segment \in d.segments
           /\ d.advertiser = "active"
           /\ c.currency = "USD"
           /\ c.n <= Allocatable(campaign),
           [AddRow(d, "budget_allocations", c) EXCEPT
              !.campaigns[c.on].spent = spent,
              !.campaigns[c.on].status = IF UsedUp(campaign, spent) THEN "completed" ELSE @],
           Event("campaign.budget_allocated", c.on, c.n, campaign.spent, spent))

\* calculate_budget_exposure, a read-only tool; it fails without the segment.
Deployable(d, campaign) ==
  Max({0, Min({campaign.proposed, d.cap} \cup campaign.subcap) - d.fee})
Launchable(d, campaign) ==
  /\ campaign.segment \in d.segments
  /\ d.advertiser = "active" /\ campaign.activated /\ campaign.timely
  /\ campaign.proposed > d.fee
  /\ \A cap \in {d.cap} \cup campaign.subcap : campaign.proposed <= cap

MarketingEffect(c, d) ==
  CASE c.tool = "add_campaign_note" ->
         CampaignRow(c, d, "analyst_notes", "campaign.analyst_note_added")
    [] c.tool = "record_launch_recommendation" ->
         CampaignRow(c, d, "recommendations", "campaign.recommendation_recorded")
    [] c.tool = "flag_campaign_for_review" ->
         CampaignRow(c, d, "risk_flags", "campaign.risk_flagged")
    [] c.tool = "request_suppression_update" ->
         MoveCampaign(c, d, {"draft", "under_review"}, "data_requested",
                      "documents", "campaign.data_requested")
    [] c.tool = "escalate_compliance_review" ->
         MoveCampaign(c, d, Unlaunched, "under_review",
                      "compliance_reviews", "campaign.compliance_review_escalated")
    [] c.tool = "launch_campaign" ->
         MoveCampaign(c, d, Unlaunched, "live", "launches", "campaign.launched")
    [] c.tool = "send_campaign_communication" -> SendCommunication(c, d)
    [] c.tool = "allocate_campaign_budget" -> AllocateBudget(c, d)
    [] OTHER -> {}                        \* ToolNotFound

=============================================================================
