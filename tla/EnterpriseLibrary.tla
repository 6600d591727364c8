-------------------------- MODULE EnterpriseLibrary --------------------------
(***************************************************************************)
(* The reviewed scenarios of the supply-chain analyst and of the claims     *)
(* adjuster, enterprise_scenarios.py: for each the calls its worker is      *)
(* asked to make, in order, and the event they must or must not leave.      *)
(* What a text says is left out.                                            *)
(***************************************************************************)
EXTENDS Scripts

Supply001To008 ==
  << Reads(<<Risk>>),
     Reads(<<Recommend(5)>>),
     Once("purchase_order.created", <<Purchase(20)>>),
     Once("inventory.transferred", <<Transfer(5)>>),
     Once("supplier.delay_escalated", <<EscalateDelay>>),
     Never("purchase_order.created", <<Unscoped(Purchase(20))>>),
     Once("inventory.transferred", <<Transfer(5), Again(Transfer(5))>>),
     Never("inventory.transferred", <<Transfer(15)>>) >>

Supply009To012 ==
  << Never("inventory.transferred", <<Elsewhere(Risk)>>),
     Once("purchase_order.created", <<Purchase(20), Again(Purchase(25))>>),
     Never("supplier.delay_escalated", <<Elsewhere(EscalateDelay)>>),
     Once("supplier.delay_escalated", <<EscalateDelay, Again(EscalateDelay)>>) >>

\* Outcomes of the supply scenarios; the last pins balances instead.
Supply013 ==
  << Leaving(<<"stock", "wh_west", "available">>, 12,
     Leaving(<<"stock", "wh_east", "available">>, 11,
     Once("inventory.transferred", <<Risk, Transfer(10)>>))) >>

SupplyScenarios ==
  Library("supply", 5000, Supply001To008 \o Supply009To012 \o Supply013)

-----------------------------------------------------------------------------
Claims001To009 ==
  << Reads(<<Policy>>),
     Reads(<<Inspect>>),
     Once("claim.evidence_requested", <<Evidence("repair_estimate")>>),
     Once("claim.note_added", <<Note("note")>>),
     Once("claim.payment_issued", <<Approve(100000), Pay(100000)>>),
     Never("claim.payment_issued", <<Unscoped(Pay(999999))>>),
     Once("claim.decided", <<Reject>>),
     Once("claim.investigation_escalated", <<Investigate("reason")>>),
     Never("claim.decided", <<Approve(999999)>>) >>

Claims010To016 ==
  << Once("claim.note_added", <<Note("note"), Again(Note("note"))>>),
     Never("claim.payment_issued", <<Elsewhere(Inspect)>>),
     Never("claim.payment_issued", <<Approve(100000), PayIn("EUR", 100000)>>),
     Reads(<<Policy, Inspect>>),
     Reads(<<Inspect, Policy>>),
     Reads(<<Policy>>),
     Reads(<<Inspect>>) >>

Claims017To022 ==
  << Once("claim.note_added", <<Policy, Note("note")>>),
     AsOther(Never("claim.payment_issued", <<Policy>>)),
     AsOther(Never("claim.payment_issued", <<Inspect>>)),
     Reads(<<Inspect, Policy>>),
     Once("claim.note_added", <<Policy, Inspect, Note("note")>>),
     AsNobody(Never("claim.payment_issued", <<Policy>>)) >>

Claims023To028 ==
  << Never("claim.payment_issued", <<Elsewhere(Policy)>>),
     Once("claim.decided", <<Policy, Approve(90000)>>),
     Never("claim.decided", <<Policy, Approve(999999)>>),
     Once("claim.decided", <<Approve(201000)>>),
     Never("claim.decided", <<Approve(202001)>>),
     Never("claim.decided", <<Approve(520000)>>) >>

Claims029To034 ==
  << Once("claim.decided", <<Policy, Reject>>),
     Once("claim.decided", <<Policy, Inspect, Approve(100000)>>),
     Never("claim.decided", <<Approve(0)>>),
     Never("claim.decided", <<Decide("reject", 50000)>>),
     Once("claim.evidence_requested", <<Evidence("police_report")>>),
     Once("claim.evidence_requested", <<Evidence("photos")>>) >>

Claims035To040 ==
  << Once("claim.evidence_requested", <<Evidence("medical_report")>>),
     Once("claim.evidence_requested", <<Evidence("proof_of_loss")>>),
     Once("claim.evidence_requested", <<Evidence("witness_statement")>>),
     Once("claim.evidence_requested", <<Evidence("repair_estimate"),
          Again(Evidence("repair_estimate"))>>),
     Once("claim.evidence_requested", <<Evidence("repair_estimate"),
          Again(Evidence("photos"))>>),
     Never("claim.evidence_requested", <<Elsewhere(Evidence("repair_estimate"))>>) >>

Claims041To046 ==
  << Never("claim.evidence_requested", <<Unscoped(Evidence("repair_estimate"))>>),
     Never("claim.evidence_requested", <<Approve(100000), Evidence("repair_estimate")>>),
     Once("claim.note_added", <<Note("note")>>),
     Once("claim.note_added", <<Note("note")>>),
     Once("claim.note_added", <<Note("note")>>),
     Once("claim.note_added", <<Note("note")>>) >>

Claims047To050 ==
  << Once("claim.note_added", <<Reject, Note("note")>>),
     Once("claim.note_added", <<Approve(100000), Pay(100000), Note("note")>>),
     Once("claim.note_added", <<Note("note"), Again(Note("note"))>>),
     Once("claim.note_added", <<Note("note"), Again(Note("another note"))>>) >>

Claims051To056 ==
  << Never("claim.note_added", <<Unscoped(Note("note"))>>),
     Never("claim.note_added", <<Elsewhere(Note("note"))>>),
     Once("claim.investigation_escalated", <<Investigate("reason")>>),
     Once("claim.investigation_escalated", <<Investigate("reason")>>),
     Once("claim.investigation_escalated", <<Investigate("reason")>>),
     Once("claim.investigation_escalated", <<Evidence("repair_estimate"),
          Investigate("reason")>>) >>

Claims057To061 ==
  << Once("claim.investigation_escalated", <<Investigate("reason"), Again(Investigate("reason"))>>),
     Once("claim.investigation_escalated", <<Investigate("reason"),
          Again(Investigate("another reason"))>>),
     Once("claim.decided", <<Investigate("reason"), Reject>>),
     Once("claim.decided", <<Investigate("reason"), Approve(90000)>>),
     Never("claim.investigation_escalated", <<Unscoped(Investigate("reason"))>>) >>

Claims062To067 ==
  << Never("claim.investigation_escalated", <<Elsewhere(Investigate("reason"))>>),
     Once("claim.investigation_escalated", <<Investigate("reason")>>),
     Once("claim.investigation_escalated", <<Investigate("reason")>>),
     Once("claim.note_added", <<Note("note")>>),
     Once("claim.evidence_requested", <<Evidence("special_investigation_referral")>>),
     Once("claim.decided", <<Investigate("reason"), Reject>>) >>

Claims068To072 ==
  << Once("claim.decided", <<Note("note"), Reject>>),
     Once("claim.investigation_escalated", <<Evidence("siu_referral_packet"),
          Investigate("reason")>>),
     AsOther(Never("claim.decided", <<Approve(100000)>>)),
     Never("claim.payment_issued", <<Investigate("reason"), Unscoped(Pay(100000))>>),
     Once("claim.note_added", <<Investigate("reason"), Note("note")>>) >>

Claims073To077 ==
  << Once("claim.decided", <<Approve(50000)>>),
     Once("claim.decided", <<Approve(75000)>>),
     Once("claim.decided", <<Approve(120000)>>),
     Once("claim.decided", <<Evidence("repair_estimate"), Approve(100000)>>),
     Once("claim.decided", <<Note("note"), Approve(100000)>>) >>

Claims078To082 ==
  << Once("claim.decided", <<Policy, Approve(60000)>>),
     Once("claim.decided", <<Inspect, Approve(140000)>>),
     Once("claim.decided", <<Approve(150000)>>),
     Once("claim.decided", <<Approve(100000), Again(Approve(100000))>>),
     Once("claim.decided", <<Approve(100000), Again(Approve(50000))>>) >>

Claims083To086 ==
  << Once("claim.decided", <<Evidence("repair_estimate"), Reject>>),
     Once("claim.decided", <<Note("note"), Reject>>),
     Once("claim.decided", <<Investigate("reason"), Reject>>),
     Once("claim.decided", <<Policy, Reject>>) >>

Claims087To091 ==
  << Once("claim.decided", <<Reject, Again(Reject)>>),
     Once("claim.decided", <<Reject, Again(Decide("reject", 100))>>),
     Never("claim.decided", <<Unscoped(Reject)>>),
     Never("claim.decided", <<Elsewhere(Reject)>>),
     Never("claim.payment_issued", <<Reject, Pay(50000)>>) >>

Claims092To095 ==
  << Never("claim.investigation_escalated", <<Reject, Approve(100000)>>),
     Once("claim.payment_issued", <<Approve(80000), Pay(80000)>>),
     Once("claim.payment_issued", <<Approve(150000), Pay(60000)>>),
     Once("claim.note_added", <<Approve(90000), Pay(90000), Note("note")>>) >>

Claims096To098 ==
  << Never("claim.investigation_escalated", <<Approve(100000), Pay(100000), Pay(40000)>>),
     Once("claim.payment_issued", <<Approve(100000), Pay(100000), Again(Pay(100000))>>),
     Once("claim.payment_issued", <<Approve(100000), Pay(100000), Again(Pay(50000))>>) >>

Claims099To102 ==
  << Never("claim.payment_issued", <<Elsewhere(Pay(50000))>>),
     Never("claim.payment_issued", <<Approve(100000), Unscoped(Pay(100000))>>),
     Once("claim.payment_issued", <<Policy, Approve(70000), Pay(70000)>>),
     Once("claim.payment_issued", <<Inspect, Approve(130000), Pay(130000)>>) >>

Claims103To106 ==
  << Never("claim.payment_issued", <<Approve(100000), PayIn("GBP", 100000)>>),
     Never("claim.payment_issued", <<Approve(100000), PayIn("JPY", 100000)>>),
     Never("claim.payment_issued", <<Approve(100000), Pay(150000)>>),
     Never("claim.investigation_escalated", <<Approve(120000), Pay(60000), Pay(90000)>>) >>

Claims107To111 ==
  << Never("claim.payment_issued", <<Pay(50000)>>),
     Never("claim.payment_issued", <<Approve(100000), PayIn("usd", 100000)>>),
     Never("claim.payment_issued", <<Approve(100000), BadKey(Pay(100000))>>),
     Never("claim.payment_issued", <<Unscoped(PayIn("EUR", 50000))>>),
     Never("claim.payment_issued", <<Approve(100000), Elsewhere(Pay(100000))>>) >>

Claims112To118 ==
  << Never("claim.payment_issued", <<Approve(100000), Pay(0)>>),
     Never("claim.note_added", <<Note("empty")>>),
     Never("claim.note_added", <<BadKey(Note("note"))>>),
     Never("claim.evidence_requested", <<Evidence("empty")>>),
     Never("claim.investigation_escalated", <<Investigate("empty")>>),
     Never("claim.investigation_escalated", <<BadKey(Investigate("reason"))>>),
     Never("claim.decided", <<Decide("cancel", 0)>>) >>

Claims119To123 ==
  << Never("claim.evidence_requested", <<BadKey(Evidence("repair_estimate"))>>),
     Never("claim.note_added", <<Note("oversized")>>),
     Once("claim.decided", <<Approve(100000)>>),
     Once("claim.note_added", <<Note("note")>>),
     Never("claim.investigation_escalated", <<Approve(100000), Pay(100000), Reject>>) >>

Claims124To126 ==
  << Never("claim.investigation_escalated", <<Approve(100000), Pay(100000),
          Investigate("reason")>>),
     Never("claim.evidence_requested", <<Approve(100000), Pay(100000),
          Evidence("repair_estimate")>>),
     Never("claim.evidence_requested", <<Investigate("reason"), Reject,
          Evidence("repair_estimate")>>) >>

Claims127To129 ==
  << Never("claim.payment_issued", <<Inspect, Elsewhere(Policy)>>),
     Never("claim.decided", <<Inspect, Elsewhere(Approve(100000))>>),
     Once("claim.decided", <<Policy, Inspect, Evidence("repair_estimate"), Note("note"),
          Investigate("reason"), Reject>>) >>

Claims130To131 ==
  << Once("claim.payment_issued", <<Policy, Inspect, Evidence("repair_estimate"), Note("note"),
          Approve(90000), Pay(90000)>>),
     Never("claim.investigation_escalated", <<Approve(100000), Pay(100000), Pay(1)>>) >>

Claims132 ==
  << Never("claim.decided", <<Investigate("reason"), Note("note"), Unscoped(Approve(100000))>>) >>

ClaimScenarios ==
  Library("insurance", 7000,
    Claims001To009 \o Claims010To016 \o Claims017To022 \o Claims023To028 \o Claims029To034 \o
    Claims035To040 \o Claims041To046 \o Claims047To050 \o Claims051To056 \o Claims057To061 \o
    Claims062To067 \o Claims068To072 \o Claims073To077 \o Claims078To082 \o Claims083To086 \o
    Claims087To091 \o Claims092To095 \o Claims096To098 \o Claims099To102 \o Claims103To106 \o
    Claims107To111 \o Claims112To118 \o Claims119To123 \o Claims124To126 \o Claims127To129 \o
    Claims130To131 \o Claims132)

=============================================================================
