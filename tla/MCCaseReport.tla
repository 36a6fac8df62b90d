---------------------------- MODULE MCCaseReport ----------------------------
(***************************************************************************)
(* Small instances of CaseReport for TLC: two entities a case may be       *)
(* resolved to, two people, one of them the contact, and a handful of      *)
(* facts that set off every rule, let a report be Strong, and take the     *)
(* Companies House and the SEC path.                                       *)
(***************************************************************************)
EXTENDS CaseReport

CONSTANTS e1, e2, ann, bob

OneEntity == {e1}
TwoEntities == {e1, e2}
TwoPeople == {ann, bob}
Nobody == {}
AnnOnly == {ann}

\* Operating since year 2, in GB, under e1's number, with both as directors.
SomeClaims ==
    [since |-> 2, incorporated |-> None, directors |-> TwoPeople, jurisdiction |-> <<"GB">>,
     number |-> e1, licence |-> FALSE, email |-> "site", website |-> "site"]

Company(jurisdiction, incorporated, officers, appointed, pscs, lei) ==
    [jurisdiction |-> jurisdiction, incorporated |-> incorporated, officers |-> officers,
     appointed |-> appointed, pscs |-> pscs, lei |-> lei, related |-> lei, filer |-> TRUE]

\* The registers disagree on the contact: Companies House alone lists ann in the
\* first, the registry adapter alone in the second.
Open == Company(<<"GB">>, 3, {bob}, {ann, bob}, {}, TRUE)
Controlled == Company(<<"GB">>, 3, {ann}, {bob}, {ann}, FALSE)
American == Company(<<"US", "DE">>, 5, {ann}, {}, {}, TRUE)

BritishFacts == {Open}
SomeFacts == {Open, Controlled, American}
LateYear == {5}
NoYear == {}

NoOutage == {}
SomeOutages == {"registry_officers", "profile", "officers"}
LeiOutage == {"gleif"}
Verdicts == {"NO_MATERIAL_MATCH", "POTENTIAL_MATCH"}
Clear == {"NO_MATERIAL_MATCH"}
Page == {{"web"}}
Lead == {{"lead"}}

=============================================================================
