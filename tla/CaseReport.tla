----------------------------- MODULE CaseReport -----------------------------
(***************************************************************************)
(* What the board, the relationship graph and the report headline derive   *)
(* from the committed rows of one case: services/board.py, graph.py and    *)
(* reports.py.  They are computed on read, so each is an operator over the *)
(* state of EvidenceGathering.  A row or an edge keeps its state and the   *)
(* sources it cites; labels and wording are left out.                      *)
(***************************************************************************)
EXTENDS EvidenceGathering

CONSTANT Directors  \* people whose officer records give a director's position

Row(state, cites) == [state |-> state, cites |-> cites]
RowIf(holds, state, otherwise, cites) ==
    IF holds THEN Row(state, cites) ELSE Row(otherwise, {})

Cited(kinds) == {r \in case.records : r.kind \in kinds}
OpenFindings == {f \in case.findings : f.open}
OpenContradictions == {f \in OpenFindings : f.title \in Rules}

\* _resolved_candidate: the first resolution, where Counterparty is the last.
Resolved == IF case.resolved = <<>> THEN None ELSE Head(case.resolved)

-----------------------------------------------------------------------------
(* The board                                                               *)

LegalIdentity ==
    Row(IF case.resolved # <<>> THEN "CONFIRMED"
        ELSE IF case.found # {} THEN "REPORTED" ELSE "UNVERIFIED",
        Cited(CorporateRegistry))

\* Registration and status come from the counterparty, incorporation and the
\* registered address from the resolved candidate.
Registration ==
    RowIf(Counterparty # None, "CONFIRMED", "UNVERIFIED", Cited({"candidate"}))
Incorporation ==
    RowIf(Resolved # None /\ about[Resolved].incorporated # None, "REPORTED", "NOT_ASSESSED",
          Cited({"candidate"}))

\* Any register's officers count, those of the registry adapter are cited.
DirectorsOfficers ==
    Row(IF Officers(case.records) # {} THEN "CORROBORATED" ELSE "NOT_ASSESSED",
        Cited({"registry_officer"}))

HasLei == Counterparty # None /\ Counterparty \in leis
Lei == RowIf(HasLei, "CONFIRMED", "UNVERIFIED", Cited({"gleif"}))

ContactCompany ==
    Row(IF case.contact = "VERIFIED" THEN "CONFIRMED" ELSE "UNVERIFIED", {})

DomainWebsite ==
    RowIf(Cited({"rdap"}) # {}, "CORROBORATED",
          IF Claims.website # None THEN "CLAIMED" ELSE "NOT_ASSESSED", Cited({"rdap"}))

\* No adapter stores a regulator's verification of a licence.
RegulatoryFootprint == Row("NOT_ASSESSED", {})

Sanctions ==
    Row(IF case.screening = None THEN "SOURCE_UNAVAILABLE" ELSE case.screening,
        Cited({"screening"}))

PublicFootprint == RowIf(Cited({"web", "lead"}) # {}, "REPORTED", "NOT_ASSESSED",
                         Cited({"web", "lead"}))

\* Discovery that found candidates counts as an assessment.
EvidenceCoverage ==
    Row(IF case.found = {} /\ case.done = {} THEN "NOT_ASSESSED"
        ELSE IF case.completeness = "MATERIAL_SOURCE_UNAVAILABLE" THEN "SOURCE_UNAVAILABLE"
        ELSE IF case.records = {} THEN "UNVERIFIED" ELSE "REPORTED", {})

\* build_board, without the rows of a contact that was not supplied.
Board ==
    [legal_identity |-> LegalIdentity,
     registration |-> Registration,
     incorporation |-> Incorporation,
     directors_officers |-> DirectorsOfficers,
     lei |-> Lei,
     contact_company |-> IF Contact = None THEN Row("NOT_ASSESSED", {}) ELSE ContactCompany,
     domain_website |-> DomainWebsite,
     regulatory_footprint |-> RegulatoryFootprint,
     sanctions |-> Sanctions,
     public_footprint |-> PublicFootprint,
     contradictions |->
        Row(IF OpenContradictions # {} THEN "CONTRADICTED" ELSE "NOT_ASSESSED", {}),
     evidence_coverage |-> EvidenceCoverage]

-----------------------------------------------------------------------------
(* The relationship graph                                                  *)

Edge(from, type, to, state, cites) ==
    [from |-> from, type |-> type, to |-> to, state |-> state, cites |-> cites]

\* The first registry record with an address; which comes first is the
\* database's choice.
AddressEdges ==
    LET listed == Cited({"candidate", "profile"}) IN
    IF listed = {} THEN {}
    ELSE {Edge("company", "REGISTERED_AT", "address", "REPORTED", {CHOOSE r \in listed : TRUE})}

OfficerTypes == {"DIRECTOR_OF", "OFFICER_OF"}

OfficerEdges ==
    {Edge(r.who, IF r.who \in Directors THEN "DIRECTOR_OF" ELSE "OFFICER_OF", "company",
          "CORROBORATED", {r}) : r \in Officers(case.records)}

ControlEdges ==
    {Edge(r.who, "PERSON_WITH_SIGNIFICANT_CONTROL_OF", "company", "CORROBORATED", {r}) :
        r \in Cited({"psc"})}

\* A verified contact is drawn as the officer it is; any other with the state
\* of its relationship and the officer records of its name.
ContactEdges ==
    LET named == {r \in Officers(case.records) : r.who = Contact} IN
    CASE Contact = None -> {}
      [] case.contact = "VERIFIED" /\ named # {} -> {}
      [] case.contact = "VERIFIED" /\ named = {} ->
            {Edge(Contact, "OFFICER_OF", "company", "CONFIRMED", {})}
      [] OTHER -> {Edge(Contact, "CLAIMS_TO_REPRESENT", "company", "UNVERIFIED", named)}

DomainEdges ==
    {Edge("company", "USES_DOMAIN", Claims.website, "REPORTED", {r}) : r \in Cited({"rdap"})}

LeiEdges ==
    LET gleif == Cited({"gleif"}) IN
    IF ~HasLei THEN {}
    ELSE {Edge("company", "HAS_LEI", Counterparty,
               IF gleif # {} THEN "CONFIRMED" ELSE "REPORTED", gleif)}

ParentEdges ==
    {Edge("parent", "PARENT_OF", "company", "CONFIRMED", {r}) :
        r \in Cited({"gleif_relationships"})}

MatchEdges ==
    {Edge("company", "MATCHED_TO", e, "POTENTIAL_MATCH",
          {r \in Cited({"screening"}) : r.of = e}) : e \in case.hits}

\* build_graph
Graph == AddressEdges \cup OfficerEdges \cup ControlEdges \cup ContactEdges \cup DomainEdges
         \cup LeiEdges \cup ParentEdges \cup MatchEdges

-----------------------------------------------------------------------------
(* The report's headline                                                   *)

\* The rows report_headline counts as corroboration.
CorroboratingKeys ==
    {"directors_officers", "domain_website", "regulatory_footprint", "contact_company", "lei"}
Corroborating == {k \in CorroboratingKeys : Board[k].state \in {"CONFIRMED", "CORROBORATED"}}

\* Three corroborating rows make a headline strong.  Mutant: two.
EnoughOfTwo(rows) == Cardinality(rows) >= 2
Enough(rows) == Cardinality(rows) >= 3

Corroboration ==
    CASE LegalIdentity.state # "CONFIRMED" \/ OpenContradictions # {} -> "Limited"
      [] OTHER -> IF Enough(Corroborating) THEN "Strong" ELSE "Partial"

-----------------------------------------------------------------------------
(* Properties                                                              *)

\* The board and the graph, which read different rows, say the same of the
\* contact: CONFIRMED exactly when an officer edge joins it to the company.
ContactRowMatchesGraph ==
    Contact # None =>
        (ContactCompany.state = "CONFIRMED" <=>
            \E e \in Graph : e.from = Contact /\ e.type \in OfficerTypes)

\* A Strong report rests on an officer record and on a second, independent
\* kind of evidence: a domain registration or an identifier.
StrongBacked ==
    Corroboration = "Strong" =>
        /\ Cited(OfficerKinds) # {}
        /\ Cited({"rdap"}) # {} \/ HasLei

\* A row that confirms or corroborates cites the sources it is derived from
\* (board.py: "Every row is derived from stored records and carries the source
\* ids behind it").
RowsCiteSources ==
    \A k \in {"legal_identity", "registration", "directors_officers", "lei", "domain_website"} :
        Board[k].state \in {"CONFIRMED", "CORROBORATED"} => Board[k].cites # {}

\* An edge backed by evidence carries its sources (graph.py: "Evidence-backed
\* relations (VERIFIED/CORROBORATED) carry the officer source ids").
EdgesCiteSources ==
    \A e \in Graph : e.state \in {"CONFIRMED", "CORROBORATED"} => e.cites # {}

\* The board and the graph agree on the LEI.
LeiRowMatchesGraph ==
    Lei.state = "CONFIRMED" <=> \E e \in Graph : e.type = "HAS_LEI" /\ e.state = "CONFIRMED"

=============================================================================
