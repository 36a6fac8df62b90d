-------------------------- MODULE EvidenceGathering --------------------------
(***************************************************************************)
(* The evidence one case gathers: the runs of run_enrichment, and of       *)
(* _run_unresolved_checks when no entity was found, source by source.      *)
(*                                                                         *)
(* A run is one transaction of the worker.  Its session does not flush     *)
(* before a query (autoflush=False): each source row is flushed when it is *)
(* added, which also writes what was pending, but the evidence row added   *)
(* after it waits for the next flush, and no query sees it until then.     *)
(* A record here is a source and the evidence taken from it.  Runs of one  *)
(* case follow each other, as they do with one worker.                     *)
(***************************************************************************)
EXTENDS Contradictions, FiniteSets

CONSTANTS
    Entities,      \* the candidates of the registry search
    People,        \* people registers may list
    Contact,       \* the contact named at intake, or None
    Untitled,      \* people whose officer record gives no position
    Claims,        \* what the intake claims
    Facts,         \* bound: what the sources may hold about an entity
    Years,         \* bound: years the claimed domain may be registered in
    MayFail,       \* bound: sources whose outages are explored
    Screenings,    \* bound: results of a screening, None with incomplete coverage
    WebAnswers,    \* bound: kinds of sources a web search yields
    MaxReviews,    \* bound: findings reviewed
    MaxResolutions \* resolutions: two requests may pass the 409 check

ASSUME ConstantsAssumption ==
    /\ None \notin Entities \cup People
    /\ None \notin Years /\ None \notin {"UNVERIFIED", "VERIFIED"}
    /\ Contact \in People \cup {None}
    /\ Untitled \subseteq People
    /\ DOMAIN Claims = ClaimFields
    /\ Claims.directors \subseteq People
    /\ \A fact \in Facts : fact.officers \cup fact.appointed \cup fact.pscs \subseteq People
    /\ Screenings \subseteq {"POTENTIAL_MATCH", "NO_MATERIAL_MATCH", None}
    /\ WebAnswers \subseteq SUBSET {"web", "lead"}
    /\ MaxReviews \in Nat
    /\ MaxResolutions \in Nat

VARIABLES
    about,         \* what the sources hold about each entity
    lists,         \* the deployment's registry adapter lists officers
    registered,    \* the year RDAP gives for the claimed domain, None if unknown
    case,          \* the case's committed rows
    leis,          \* counterparties with a stored LEI identifier
    run            \* the transaction under way

world == <<about, lists, registered>>
vars == <<world, case, leis, run>>

CorporateRegistry == {"candidate", "registry_officer", "gleif", "gleif_relationships", "sec",
                      "profile", "ch_officer", "psc"}
Kinds == CorporateRegistry \cup {"screening", "web", "lead", "rdap"}
OfficerKinds == {"registry_officer", "ch_officer"}

\* A source of the case, the person it names, and the entity it was read for.
Record(kind, who, of) == [kind |-> kind, who |-> who, of |-> of]
Records == [kind : Kinds, who : People \cup {None}, of : Entities \cup {None}]

Finding(title, of, missing) ==
    [title |-> title, of |-> of, missing |-> missing, open |-> TRUE]

NoRun == [at |-> "idle", entity |-> None, counterparty |-> None, added |-> {},
          unflushed |-> {}, contact |-> None, completeness |-> None, screening |-> None,
          hits |-> {}, findings |-> {}, lei |-> FALSE]

Stages == {"idle", "screening", "contact", "gleif", "web", "domain", "news", "sec",
           "profile", "officers", "psc", "check"}

Counterparty == IF case.resolved = <<>> THEN None ELSE Last(case.resolved)

-----------------------------------------------------------------------------
(* Discovery has committed its candidates, or has found none and runs the  *)
(* checks that need no entity.                                             *)
Init ==
    /\ about \in [Entities -> Facts]
    /\ lists \in BOOLEAN
    /\ registered \in Years \cup {None}
    /\ \E found \in {Entities, {}} :
          case = [found |-> found, resolved |-> <<>>, done |-> {},
                  records |-> {Record("candidate", None, e) : e \in found},
                  contact |-> IF Contact = None THEN None ELSE "UNVERIFIED",
                  findings |-> {}, completeness |-> "COMPLETE_WITH_LIMITATIONS",
                  screening |-> None, hits |-> {}]
    /\ leis = {}
    /\ run = NoRun

(* resolve_entity: the newest resolution decides the counterparty.  The    *)
(* completeness it assigns is the one the request loaded before any        *)
(* resolution, so the column is not written.                               *)
Resolve(e) ==
    /\ e \in case.found \ Range(case.resolved)
    /\ Len(case.resolved) < MaxResolutions
    /\ case' = [case EXCEPT !.resolved = Append(@, e)]
    /\ UNCHANGED <<world, leis, run>>

Begin(entity) ==
    run' = [NoRun EXCEPT !.at = "screening", !.entity = entity,
                         !.counterparty = Counterparty, !.contact = case.contact,
                         !.completeness = case.completeness, !.screening = case.screening]

StartEnrichment(e) ==
    /\ run.at = "idle"
    /\ e \in Range(case.resolved) \ case.done
    /\ Begin(e)
    /\ UNCHANGED <<world, case, leis>>

StartUnresolved ==
    /\ run.at = "idle"
    /\ case.found = {}
    /\ None \notin case.done
    /\ Begin(None)
    /\ UNCHANGED <<world, case, leis>>

-----------------------------------------------------------------------------
(* What a source's answer or outage does to the run                        *)

\* Sources flushed one after another: only the last one's evidence waits.
Save(t, records, last) ==
    [t EXCEPT !.added = @ \cup records, !.unflushed = last]

\* Records in some order of the source's answer.
SaveAll(t, records) ==
    IF records = {} THEN {t} ELSE {Save(t, records, {r}) : r \in records}

Material(t) == [t EXCEPT !.completeness = "MATERIAL_SOURCE_UNAVAILABLE"]

Supplementary(t) ==
    [t EXCEPT !.completeness = IF @ = "MATERIAL_SOURCE_UNAVAILABLE" THEN @
                               ELSE "COMPLETE_WITH_LIMITATIONS"]

\* The run at the given stage goes on to another.
Advance(from, to, outcomes) ==
    /\ run.at = from
    /\ \E t \in outcomes : run' = [t EXCEPT !.at = to]
    /\ UNCHANGED <<world, case, leis>>

Outage(source, t) == IF source \in MayFail THEN {t} ELSE {}

\* The jurisdiction and register the run routes by: the counterparty's.
In(country) ==
    /\ run.counterparty # None
    /\ Head(about[run.counterparty].jurisdiction) = country

-----------------------------------------------------------------------------
(* The sources, in the order of run_enrichment                             *)

\* The verdict of a screening, and the hits it keeps.
Screened(t, verdict) ==
    [t EXCEPT !.screening = verdict,
              !.hits = IF verdict = "POTENTIAL_MATCH" THEN {t.entity} ELSE {}]

(* _run_screening: a search for the company and one for the contact; a     *)
(* clearance needs complete coverage.                                      *)
Screen ==
    LET searches == {Record("screening", who, run.entity) : who \in {None, Contact}} IN
    Advance("screening", IF run.entity = None THEN "web" ELSE "contact",
        Outage("screening", Material(Screened(run, None))) \cup
        {Screened(t, verdict) : t \in SaveAll(run, searches), verdict \in Screenings})

\* The contact is linked to the company by an officer record.
Verified(t) == [t EXCEPT !.contact = "VERIFIED"]

(* _corroborate_contact: only the officers with the contact's name are     *)
(* kept, from a registry that lists officers.                              *)
CorroborateContact ==
    LET r == Record("registry_officer", Contact, run.entity) IN
    Advance("contact", "gleif",
        IF Contact = None \/ ~lists THEN {run}
        ELSE Outage("registry_officers", Material(run)) \cup
             {IF Contact \in about[run.entity].officers THEN Verified(Save(run, {r}, {r}))
              ELSE run})

(* The LEI record, the counterparty's identifier, and the relationships,   *)
(* whose outage is silent.                                                 *)
LookUpLei ==
    LET of == run.entity
        lei == Record("gleif", None, of)
        known == [Save(run, {lei}, {lei}) EXCEPT !.lei = TRUE]
        related == Record("gleif_relationships", None, of)
    IN
    Advance("gleif", "web",
        IF ~about[of].lei THEN {run}
        ELSE Outage("gleif", Supplementary(run)) \cup Outage("gleif_relationships", known) \cup
             {IF about[of].related THEN Save(known, {related}, {related}) ELSE known})

(* _run_public_intelligence, its web searches: a captured page is evidence *)
(* and flushed, a lead is a source without evidence.                       *)
SearchWeb ==
    LET Found(kinds) == Save(run, {Record(k, None, run.entity) : k \in kinds}, {}) IN
    Advance("web", "domain",
        Outage("web", Material(run)) \cup
        {IF kinds = {} THEN run ELSE Found(kinds) : kinds \in WebAnswers})

\* The contact after public intelligence: without an officer record it is
\* UNVERIFIED and a finding says so.  Mutants: an officer record of an earlier
\* run is forgotten; the finding is left to the registry's outage.
ConcludeContactAnew(t) ==
    IF t.contact = None THEN t
    ELSE [t EXCEPT !.contact = "UNVERIFIED",
                   !.findings = @ \cup {Finding("contact_not_established", t.entity, {})}]
ConcludeContactUnlessOutage(t) ==
    IF t.contact \in {None, "VERIFIED"} \/ t.completeness = "MATERIAL_SOURCE_UNAVAILABLE" THEN t
    ELSE [t EXCEPT !.findings = @ \cup {Finding("contact_not_established", t.entity, {})}]
ConcludeContact(t) ==
    IF t.contact \in {None, "VERIFIED"} THEN t
    ELSE [t EXCEPT !.contact = "UNVERIFIED",
                   !.findings = @ \cup {Finding("contact_not_established", t.entity, {})}]

(* RDAP for the claimed domain, then what is concluded of the contact.     *)
LookUpDomain ==
    LET r == Record("rdap", None, run.entity) IN
    Advance("domain", "news",
        {ConcludeContact(t) : t \in
            IF Claims.website = None THEN {run}
            ELSE Outage("rdap", Material(run)) \cup {run, Save(run, {r}, {r})}})

(* GDELT: leads are added without a flush.                                 *)
SearchNews ==
    Advance("news", "sec",
        Outage("news", Supplementary(run)) \cup
        {[run EXCEPT !.added = @ \cup {Record("lead", None, run.entity) : k \in kinds \cap {"lead"}}] :
            kinds \in WebAnswers})

(* SEC EDGAR, for a US counterparty.                                       *)
SearchFilings ==
    LET r == Record("sec", None, run.counterparty) IN
    Advance("sec", "profile",
        IF ~In("US") THEN {run}
        ELSE Outage("sec", Supplementary(run)) \cup
             {IF about[run.counterparty].filer THEN Save(run, {r}, {r}) ELSE run})

(* The Companies House profile of a GB counterparty: without one, or after *)
(* an outage, neither officers nor controllers are asked for.              *)
ReadProfile ==
    LET r == Record("profile", None, run.counterparty) IN
    IF In("GB")
    THEN \/ Advance("profile", "check", Outage("profile", Material(run)) \cup {run})
         \/ Advance("profile", "officers", {Save(run, {r}, {r})})
    ELSE Advance("profile", "check", {run})

\* What the officers' names make of the contact.  Mutants: nothing; any
\* officer will do.
CorroboratedNever(t, officers) == t
CorroboratedAlways(t, officers) == IF Contact # None /\ officers # {} THEN Verified(t) ELSE t
Corroborated(t, officers) == IF Contact \in officers THEN Verified(t) ELSE t

(* _run_companies_house_officers: every officer is kept; its list need not *)
(* be the registry adapter's.                                              *)
ReadOfficers ==
    LET officers == about[run.counterparty].appointed
        kept == {Record("ch_officer", p, run.counterparty) : p \in officers}
    IN
    Advance("officers", "psc",
        Outage("officers", Supplementary(run)) \cup
        {Corroborated(t, officers) : t \in SaveAll(run, kept)})

(* _run_companies_house_psc.                                               *)
ReadControllers ==
    LET kept == {Record("psc", p, run.counterparty) : p \in about[run.counterparty].pscs} IN
    Advance("psc", "check", Outage("psc", Supplementary(run)) \cup SaveAll(run, kept))

-----------------------------------------------------------------------------
(* Contradictions, and the commit                                          *)

\* The evidence the engine's query returns: all of the case's but the pending.
\* Mutant: only this run's.
VisibleThisRun == run.added \ run.unflushed
Visible == case.records \cup (run.added \ run.unflushed)

Officers(records) == {r \in records : r.kind \in OfficerKinds /\ r.who \notin Untitled}

\* build_context
Context ==
    [claims |-> Claims,
     entity |-> IF run.entity = None THEN NoEntity
                ELSE [incorporated |-> about[run.entity].incorporated,
                      jurisdiction |-> about[run.entity].jurisdiction,
                      number |-> run.entity],
     officers |-> {r.who : r \in Officers(Visible)},
     domains |-> {[name |-> Claims.website, registered |-> registered] :
                     r \in {v \in Visible : v.kind = "rdap"}},
     regulator |-> FALSE]

\* run_contradiction_checks: a title the case has is not added again.
\* Mutant: it is.
NewContradictionsAgain ==
    {Finding(rule, run.entity, IF rule = "claimed_director_not_found"
                               THEN MissingDirectors(Context) ELSE {}) :
        rule \in Evaluate(Context)}
NewContradictions ==
    {Finding(rule, run.entity, IF rule = "claimed_director_not_found"
                               THEN MissingDirectors(Context) ELSE {}) :
        rule \in Evaluate(Context) \ {f.title : f \in case.findings}}

(* The checks, the completion event, and the commit of the whole run.      *)
Conclude ==
    /\ run.at = "check"
    /\ case' = [case EXCEPT !.records = @ \cup run.added,
                            !.contact = run.contact,
                            !.findings = @ \cup run.findings \cup NewContradictions,
                            !.completeness = run.completeness,
                            !.screening = run.screening,
                            !.hits = @ \cup run.hits,
                            !.done = @ \cup {run.entity}]
    /\ leis' = IF run.lei THEN leis \cup {run.counterparty} ELSE leis
    /\ run' = NoRun
    /\ UNCHANGED world

(* A technical failure rolls the run back; the job is tried again.         *)
RollBack ==
    /\ run.at # "idle"
    /\ run' = NoRun
    /\ UNCHANGED <<world, case, leis>>

-----------------------------------------------------------------------------
(* Elsewhere: another case stores the LEI of the counterparty it shares,   *)
(* and an analyst reviews a finding.                                       *)

LeiElsewhere(e) ==
    /\ about[e].lei
    /\ leis' = leis \cup {e}
    /\ UNCHANGED <<world, case, run>>

ReviewFinding(f) ==
    /\ f.open
    /\ Cardinality({g \in case.findings : ~g.open}) < MaxReviews
    /\ case' = [case EXCEPT !.findings = (@ \ {f}) \cup {[f EXCEPT !.open = FALSE]}]
    /\ UNCHANGED <<world, leis, run>>

-----------------------------------------------------------------------------
Gather ==
    \/ Screen \/ CorroborateContact \/ LookUpLei \/ SearchWeb \/ LookUpDomain \/ SearchNews
    \/ SearchFilings \/ ReadProfile \/ ReadOfficers \/ ReadControllers \/ Conclude

Next ==
    \/ \E e \in Entities : Resolve(e) \/ StartEnrichment(e) \/ LeiElsewhere(e)
    \/ StartUnresolved
    \/ Gather
    \/ RollBack
    \/ \E f \in case.findings : ReviewFinding(f)

Spec == Init /\ [][Next]_vars

-----------------------------------------------------------------------------
(* Properties                                                              *)

TypeOK ==
    /\ about \in [Entities -> Facts]
    /\ registered \in Years \cup {None}
    /\ case.found \in SUBSET Entities
    /\ Range(case.resolved) \subseteq case.found
    /\ case.records \subseteq Records
    /\ case.contact \in {None, "UNVERIFIED", "VERIFIED"}
    /\ \A f \in case.findings : f.title \in Rules \cup {"contact_not_established"}
    /\ case.done \subseteq Range(case.resolved) \cup {None}
    /\ leis \subseteq Entities
    /\ run.at \in Stages
    /\ run.unflushed \subseteq run.added

\* After a run the contact is either linked to the company or the subject of
\* a finding: no outage lets the question drop (_run_public_intelligence).
ContactAccountedFor ==
    Contact # None /\ case.done # {} =>
        \/ case.contact = "VERIFIED"
        \/ \E f \in case.findings : f.title = "contact_not_established"

\* A VERIFIED contact has an officer record in the case that names it, however
\* many sources failed (_corroborate_contact, _run_companies_house_officers).
VerifiedHasRecord ==
    case.contact = "VERIFIED" =>
        \E r \in case.records : r.kind \in OfficerKinds /\ r.who = Contact

\* A contact once VERIFIED stays so: a later run whose sources are silent does
\* not withdraw what a register showed (_run_public_intelligence).
VerificationStands ==
    [][case.contact = "VERIFIED" => case'.contact = "VERIFIED"]_vars

\* A contradiction is in the case once, whatever number of runs finds it and
\* whether or not an analyst has reviewed it (run_contradiction_checks).
ContradictionsUnique ==
    \A f, g \in case.findings : f.title = g.title /\ f.title \in Rules => f = g

\* A director is never newly reported missing when a titled officer record of
\* that name was in the case before the run (build_context reads all of them).
StoredOfficersCount ==
    [][\A f \in case'.findings \ case.findings :
          f.open => f.missing \cap {r.who : r \in Officers(case.records)} = {}]_vars

\* People whose link to the company a finding denies.
DeniedBy(f) == IF f.title = "contact_not_established" THEN {Contact} ELSE f.missing

\* No open finding denies a link that an officer record of the case shows: the
\* contact is not both VERIFIED and without corroboration, and nobody a register
\* lists is reported missing from it (run_contradiction_checks).
FindingsMatchRecords ==
    \A f \in case.findings :
        f.open => DeniedBy(f) \cap {r.who : r \in Officers(case.records)} = {}

\* The case does not show a clearance while it holds a hit nobody reviewed.
HitsVisible == case.hits # {} => case.screening # "NO_MATERIAL_MATCH"

=============================================================================
