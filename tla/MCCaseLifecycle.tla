-------------------------- MODULE MCCaseLifecycle --------------------------
(***************************************************************************)
(* Small instances of CaseLifecycle for TLC: two usable candidates and one *)
(* without an authoritative identifier.  The outages explored are one      *)
(* material source before a supplementary one, one after it, and the       *)
(* registry, so that each can be the last to speak.                        *)
(***************************************************************************)
EXTENDS CaseLifecycle

CONSTANTS c1, c2, c3, a1, a2, w1, w2

OneCandidate == {c1}
TwoCandidates == {c1, c2}
ThreeCandidates == {c1, c2, c3}
NoneIncomplete == {}
ThirdIncomplete == {c3}

OneAnalyst == {a1}
TwoAnalysts == {a1, a2}
OneWorker == {w1}
TwoWorkers == {w1, w2}

Outages == {"corporate_registry", "screening", "gdelt", "companies_house"}
NoOutages == {}

=============================================================================
