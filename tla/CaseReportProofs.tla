--------------------------- MODULE CaseReportProofs ---------------------------
(***************************************************************************)
(* Theorems about what CaseReport derives from a case, for every set of    *)
(* entities and people, every answer and outage of the sources, and every  *)
(* number of runs.                                                         *)
(***************************************************************************)
EXTENDS CaseReport, EvidenceGatheringProofs, FiniteSetTheorems

-----------------------------------------------------------------------------
(* The inductive invariant                                                 *)

\* VerifiedHasRecord is one direction: a VERIFIED contact is in an officer
\* record.  The board and the graph agree because of the other one too: an
\* officer record that names the contact, of the case or of the run, has made
\* it VERIFIED.
Linked(t) ==
    Contact # None /\ Backed(case.records \cup t.added) => t.contact = "VERIFIED"

LInv ==
    /\ Contact # None /\ Backed(case.records) => case.contact = "VERIFIED"
    /\ run.at # "idle" => Linked(run)

-----------------------------------------------------------------------------
(* What the sources do to a linked run                                     *)

LEMMA SaveLinked ==
    ASSUME NEW t \in Runs, Linked(t), NEW records, NEW last, ~Backed(records)
    PROVE  Linked(Save(t, records, last))
<1>1. /\ Save(t, records, last).added = t.added \cup records
      /\ Save(t, records, last).contact = t.contact
    BY DEF Save, Runs
<1> QED
    BY <1>1 DEF Linked, Backed

LEMMA SaveAllLinked ==
    ASSUME NEW t \in Runs, Linked(t), NEW records, ~Backed(records)
    PROVE  \A u \in SaveAll(t, records) : Linked(u)
<1>1. CASE records = {}
    BY <1>1 DEF SaveAll
<1>2. CASE records # {}
    BY <1>2, SaveLinked DEF SaveAll
<1> QED
    BY <1>1, <1>2

LEMMA OutageLinked ==
    ASSUME NEW t \in Runs, Linked(t)
    PROVE  Linked(Material(t)) /\ Linked(Supplementary(t))
<1>1. ASSUME NEW u, u \in {Material(t), Supplementary(t)}
      PROVE  u.added = t.added /\ u.contact = t.contact
    BY <1>1 DEF Material, Supplementary, Runs
<1> QED
    BY <1>1 DEF Linked

LEMMA VerifiedLinked == ASSUME NEW t \in Runs PROVE Linked(Verified(t))
BY DEF Linked, Verified, Runs

\* A record of another kind does not back the contact.
LEMMA OtherKind ==
    ASSUME NEW records, \A r \in records : r.kind \notin OfficerKinds
    PROVE  ~Backed(records)
BY DEF Backed

\* A stage that leaves the run linked preserves the invariant.
LEMMA AdvanceLInv ==
    ASSUME LInv, NEW from, NEW to, NEW outcomes, Advance(from, to, outcomes),
           \A t \in outcomes : t \in Runs /\ Linked(t)
    PROVE  LInv'
<1>1. PICK t \in outcomes : run' = [t EXCEPT !.at = to]
    BY DEF Advance
<1>2. run'.added = t.added /\ run'.contact = t.contact
    BY <1>1 DEF Runs
<1>3. case' = case
    BY DEF Advance
<1> QED
    BY <1>2, <1>3 DEF LInv, Linked, Backed

-----------------------------------------------------------------------------
(* The stages preserve the invariant                                       *)

\* Of the run a stage starts from.
LEMMA UnderWay ==
    ASSUME IInv, LInv, NEW from, NEW to, NEW outcomes, Advance(from, to, outcomes), from # "idle"
    PROVE  run \in Runs /\ Sound(run) /\ Linked(run)
BY DEF Advance, IInv, LInv, Sound

LEMMA ScreenLInv == IInv /\ LInv /\ Screen => LInv'
<1> SUFFICES ASSUME IInv, LInv, Screen PROVE LInv'
    OBVIOUS
<1> DEFINE to == IF run.entity = None THEN "web" ELSE "contact"
           searches == {Record("screening", who, run.entity) : who \in {None, Contact}}
           outcomes == Outage("screening", Material(Screened(run, None))) \cup
                       {Screened(t, verdict) : t \in SaveAll(run, searches), verdict \in Screenings}
<1> HIDE DEF to, searches, outcomes
<1>1. Advance("screening", to, outcomes)
    BY DEF Screen, to, searches, outcomes
<1>2. run \in Runs /\ Sound(run) /\ Linked(run)
    BY <1>1, UnderWay
<1>3. searches \in SUBSET Records /\ ~Backed(searches)
    <2>1. "screening" \in Kinds /\ run.entity \in Subjects
        BY <1>2 DEF Kinds, Runs
    <2>2. \A r \in searches : r.kind \notin OfficerKinds
        BY DEF searches, Record, OfficerKinds
    <2> QED
        BY <2>1, <2>2, OtherKind, RecordsTyped, ConstantsAssumption DEF searches
<1>4. ASSUME NEW t, Sound(t), Linked(t), NEW verdict \in Verdicts
      PROVE  Screened(t, verdict) \in Runs /\ Linked(Screened(t, verdict))
    <2>1. Screened(t, verdict) \in Runs
        BY <1>4, ScreenedSound DEF Sound
    <2>2. Screened(t, verdict).added = t.added /\ Screened(t, verdict).contact = t.contact
        BY <1>4 DEF Screened, Sound, Runs
    <2> QED
        BY <1>4, <2>1, <2>2 DEF Linked
<1>5. None \in Verdicts /\ Screenings \subseteq Verdicts
    BY ConstantsAssumption DEF Verdicts
<1>6. ASSUME NEW t \in outcomes PROVE t \in Runs /\ Linked(t)
    <2>1. CASE t = Material(Screened(run, None))
        <3>1. Sound(Screened(run, None))
            BY <1>2, <1>5, ScreenedSound
        <3>2. Sound(t)
            BY <2>1, <3>1, OutageSound
        <3> QED
            BY <1>2, <1>4, <1>5, <2>1, <3>2, OutageLinked DEF Sound
    <2>2. ASSUME NEW v \in SaveAll(run, searches), NEW verdict \in Screenings,
                 t = Screened(v, verdict)
          PROVE  t \in Runs /\ Linked(t)
        <3>1. Sound(v) /\ Linked(v)
            BY <1>2, <1>3, SaveAllSound, SaveAllLinked
        <3> QED
            BY <1>4, <1>5, <2>2, <3>1
    <2> QED
        BY <2>1, <2>2 DEF outcomes, Outage
<1> QED
    BY <1>1, <1>6, AdvanceLInv

LEMMA CorroborateLInv == IInv /\ LInv /\ CorroborateContact => LInv'
<1> SUFFICES ASSUME IInv, LInv, CorroborateContact PROVE LInv'
    OBVIOUS
<1> DEFINE r == Record("registry_officer", Contact, run.entity)
           saved == Save(run, {r}, {r})
           outcomes == IF Contact = None \/ ~lists THEN {run}
                       ELSE Outage("registry_officers", Material(run)) \cup
                            {IF Contact \in about[run.entity].officers THEN Verified(saved)
                             ELSE run}
<1> HIDE DEF r, saved, outcomes
<1>1. Advance("contact", "gleif", outcomes)
    BY DEF CorroborateContact, r, saved, outcomes
<1>2. run \in Runs /\ Sound(run) /\ Linked(run)
    BY <1>1, UnderWay
<1>3. saved \in Runs /\ Verified(saved) \in Runs
    <2>1. "registry_officer" \in Kinds
        BY DEF Kinds, CorporateRegistry
    <2>2. Sound(saved)
        BY <1>2, <2>1, SaveOneSound, ConstantsAssumption DEF saved, r, Runs
    <2> QED
        BY <2>2 DEF Sound, Verified, Runs, Contacts
<1>4. \A t \in outcomes : t \in {run, Material(run), Verified(saved)}
    BY DEF outcomes, Outage
<1>5. Material(run) \in Runs
    BY <1>2, OutageSound DEF Sound
<1> QED
    BY <1>1, <1>2, <1>3, <1>4, <1>5, OutageLinked, VerifiedLinked, AdvanceLInv

\* One record of a source that is no officer.
LEMMA SaveOneLinked ==
    ASSUME NEW t, Sound(t), Linked(t), NEW kind \in Kinds \ OfficerKinds,
           NEW who \in People \cup {None}, NEW of \in Subjects
    PROVE  LET u == Save(t, {Record(kind, who, of)}, {Record(kind, who, of)}) IN
           u \in Runs /\ Sound(u) /\ Linked(u)
<1> DEFINE r == Record(kind, who, of)
<1>1. ~Backed({r})
    BY DEF Backed, Record
<1>2. Sound(Save(t, {r}, {r}))
    BY SaveOneSound
<1> HIDE DEF r
<1>3. Linked(Save(t, {r}, {r}))
    BY <1>1, SaveLinked DEF Sound
<1> QED
    BY <1>2, <1>3 DEF Sound, r

LEMMA LookUpLeiLInv == IInv /\ LInv /\ LookUpLei => LInv'
<1> SUFFICES ASSUME IInv, LInv, LookUpLei PROVE LInv'
    OBVIOUS
<1> DEFINE lei == Record("gleif", None, run.entity)
           saved == Save(run, {lei}, {lei})
           known == [saved EXCEPT !.lei = TRUE]
           related == Record("gleif_relationships", None, run.entity)
           both == Save(known, {related}, {related})
           outcomes == IF ~about[run.entity].lei THEN {run}
                       ELSE Outage("gleif", Supplementary(run)) \cup
                            Outage("gleif_relationships", known) \cup
                            {IF about[run.entity].related THEN both ELSE known}
<1> HIDE DEF lei, saved, known, related, both, outcomes
<1>1. Advance("gleif", "web", outcomes)
    BY DEF LookUpLei, lei, saved, known, related, both, outcomes
<1>2. run \in Runs /\ Sound(run) /\ Linked(run)
    BY <1>1, UnderWay
<1>3. run.counterparty # None
    BY <1>1 DEF Advance, IInv, Due, Sound
<1>k. {"gleif", "gleif_relationships"} \subseteq Kinds \ OfficerKinds /\ run.entity \in Subjects
    BY <1>2 DEF Kinds, CorporateRegistry, OfficerKinds, Runs
<1>4. saved \in Runs /\ Sound(saved) /\ Linked(saved) /\ saved.counterparty = run.counterparty
    <2>1. saved \in Runs /\ Sound(saved) /\ Linked(saved)
        BY <1>2, <1>k, SaveOneLinked DEF saved, lei
    <2> QED
        BY <1>2, <2>1 DEF saved, Save, Runs
<1>5. Sound(known) /\ Linked(known)
    <2>1. /\ known \in Runs
          /\ known.entity = saved.entity /\ known.counterparty = saved.counterparty
          /\ known.added = saved.added /\ known.unflushed = saved.unflushed
          /\ known.contact = saved.contact /\ known.findings = saved.findings
        BY <1>4 DEF known, Runs
    <2> QED
        BY <1>3, <1>4, <2>1 DEF Sound, Linked
<1>6. both \in Runs /\ Linked(both)
    BY <1>5, <1>k, SaveOneLinked DEF both, related
<1>7. \A t \in outcomes : t \in {run, Supplementary(run), known, both}
    BY DEF outcomes, Outage
<1>8. Supplementary(run) \in Runs /\ known \in Runs
    BY <1>2, <1>5, OutageSound DEF Sound
<1> QED
    BY <1>1, <1>2, <1>5, <1>6, <1>7, <1>8, OutageLinked, AdvanceLInv

LEMMA SearchWebLInv == IInv /\ LInv /\ SearchWeb => LInv'
<1> SUFFICES ASSUME IInv, LInv, SearchWeb PROVE LInv'
    OBVIOUS
<1> DEFINE kept(kinds) == {Record(k, None, run.entity) : k \in kinds}
           outcomes == Outage("web", Material(run)) \cup
                       {IF kinds = {} THEN run ELSE Save(run, kept(kinds), {}) :
                          kinds \in WebAnswers}
<1> HIDE DEF kept, outcomes
<1>1. Advance("web", "domain", outcomes)
    BY DEF SearchWeb, kept, outcomes
<1>2. run \in Runs /\ Sound(run) /\ Linked(run)
    BY <1>1, UnderWay
<1>3. ASSUME NEW kinds \in WebAnswers
      PROVE  Save(run, kept(kinds), {}) \in Runs /\ Linked(Save(run, kept(kinds), {}))
    <2>1. kinds \subseteq Kinds \ OfficerKinds
        BY ConstantsAssumption DEF Kinds, OfficerKinds
    <2>2. kept(kinds) \in SUBSET Records
        BY <1>2, <2>1, RecordsTyped DEF kept, Runs
    <2>3. ~Backed(kept(kinds))
        BY <2>1 DEF Backed, Record, kept
    <2> QED
        BY <1>2, <2>2, <2>3, SaveSound, SaveLinked DEF Sound
<1>4. ASSUME NEW t \in outcomes PROVE t \in Runs /\ Linked(t)
    BY <1>2, <1>3, OutageSound, OutageLinked DEF outcomes, Outage, Sound
<1> QED
    BY <1>1, <1>4, AdvanceLInv

LEMMA LookUpDomainLInv == IInv /\ LInv /\ LookUpDomain => LInv'
<1> SUFFICES ASSUME IInv, LInv, LookUpDomain PROVE LInv'
    OBVIOUS
<1> DEFINE r == Record("rdap", None, run.entity)
           saved == Save(run, {r}, {r})
           looked == IF Claims.website = None THEN {run}
                     ELSE Outage("rdap", Material(run)) \cup {run, saved}
           outcomes == {ConcludeContact(t) : t \in looked}
<1> HIDE DEF r, saved, looked, outcomes
<1>1. Advance("domain", "news", outcomes)
    BY DEF LookUpDomain, r, saved, looked, outcomes
<1>2. run \in Runs /\ Sound(run) /\ Linked(run)
    BY <1>1, UnderWay
<1>3. Sound(saved) /\ Linked(saved)
    <2>1. "rdap" \in Kinds \ OfficerKinds /\ run.entity \in Subjects
        BY <1>2 DEF Kinds, OfficerKinds, Runs
    <2> QED
        BY <1>2, <2>1, SaveOneLinked DEF saved, r
<1>4. ASSUME NEW t \in looked PROVE Sound(t) /\ Linked(t)
    BY <1>2, <1>3, OutageSound, OutageLinked DEF looked, Outage
<1>5. ASSUME NEW t \in outcomes PROVE t \in Runs /\ Linked(t)
    <2>1. PICK v \in looked : t = ConcludeContact(v)
        BY DEF outcomes
    <2>2. Sound(v) /\ Linked(v)
        BY <1>4
    <2>3. t \in Runs
        BY <2>1, <2>2, ConcludeSound DEF Sound
    <2>4. t.added = v.added /\ (v.contact = "VERIFIED" => t.contact = "VERIFIED")
        BY <2>1, <2>2 DEF ConcludeContact, Sound, Runs
    <2> QED
        BY <2>2, <2>3, <2>4 DEF Linked
<1> QED
    BY <1>1, <1>5, AdvanceLInv

LEMMA SearchNewsLInv == IInv /\ LInv /\ SearchNews => LInv'
<1> SUFFICES ASSUME IInv, LInv, SearchNews PROVE LInv'
    OBVIOUS
<1> DEFINE kept(kinds) == {Record("lead", None, run.entity) : k \in kinds \cap {"lead"}}
           outcomes == Outage("news", Supplementary(run)) \cup
                       {[run EXCEPT !.added = @ \cup kept(kinds)] : kinds \in WebAnswers}
<1> HIDE DEF kept, outcomes
<1>1. Advance("news", "sec", outcomes)
    BY DEF SearchNews, kept, outcomes
<1>2. run \in Runs /\ Sound(run) /\ Linked(run)
    BY <1>1, UnderWay
<1>3. ASSUME NEW kinds, NEW t, t = [run EXCEPT !.added = @ \cup kept(kinds)]
      PROVE  t \in Runs /\ Linked(t)
    <2>1. kept(kinds) \in SUBSET Records
        <3>1. "lead" \in Kinds /\ run.entity \in Subjects
            BY <1>2 DEF Kinds, Runs
        <3> QED
            BY <3>1, RecordsTyped DEF kept
    <2>2. ~Backed(kept(kinds))
        BY DEF Backed, Record, OfficerKinds, kept
    <2>3. t \in Runs /\ t.added = run.added \cup kept(kinds) /\ t.contact = run.contact
        BY <1>2, <1>3, <2>1 DEF Runs
    <2> QED
        BY <1>2, <2>2, <2>3 DEF Linked, Backed
<1>4. ASSUME NEW t \in outcomes PROVE t \in Runs /\ Linked(t)
    BY <1>2, <1>3, OutageSound, OutageLinked DEF outcomes, Outage, Sound
<1> QED
    BY <1>1, <1>4, AdvanceLInv

LEMMA SearchFilingsLInv == IInv /\ LInv /\ SearchFilings => LInv'
<1> SUFFICES ASSUME IInv, LInv, SearchFilings PROVE LInv'
    OBVIOUS
<1> DEFINE r == Record("sec", None, run.counterparty)
           saved == Save(run, {r}, {r})
           outcomes == IF ~In("US") THEN {run}
                       ELSE Outage("sec", Supplementary(run)) \cup
                            {IF about[run.counterparty].filer THEN saved ELSE run}
<1> HIDE DEF r, saved, outcomes
<1>1. Advance("sec", "profile", outcomes)
    BY DEF SearchFilings, r, saved, outcomes
<1>2. run \in Runs /\ Sound(run) /\ Linked(run)
    BY <1>1, UnderWay
<1>3. saved \in Runs /\ Linked(saved)
    <2>1. "sec" \in Kinds \ OfficerKinds /\ run.counterparty \in Subjects
        BY <1>2 DEF Kinds, CorporateRegistry, OfficerKinds, Runs
    <2> QED
        BY <1>2, <2>1, SaveOneLinked DEF saved, r
<1>4. \A t \in outcomes : t \in {run, Supplementary(run), saved}
    BY DEF outcomes, Outage
<1>5. Supplementary(run) \in Runs
    BY <1>2, OutageSound DEF Sound
<1> QED
    BY <1>1, <1>2, <1>3, <1>4, <1>5, OutageLinked, AdvanceLInv

LEMMA ReadProfileLInv == IInv /\ LInv /\ ReadProfile => LInv'
<1> SUFFICES ASSUME IInv, LInv, ReadProfile PROVE LInv'
    OBVIOUS
<1> DEFINE r == Record("profile", None, run.counterparty)
           saved == Save(run, {r}, {r})
           without == Outage("profile", Material(run)) \cup {run}
<1> HIDE DEF r, saved, without
<1>1. \/ Advance("profile", "check", without)
      \/ Advance("profile", "officers", {saved})
      \/ Advance("profile", "check", {run})
    BY DEF ReadProfile, r, saved, without
<1>2. run \in Runs /\ Sound(run) /\ Linked(run)
    BY <1>1, UnderWay
<1>3. saved \in Runs /\ Linked(saved)
    <2>1. "profile" \in Kinds \ OfficerKinds /\ run.counterparty \in Subjects
        BY <1>2 DEF Kinds, CorporateRegistry, OfficerKinds, Runs
    <2> QED
        BY <1>2, <2>1, SaveOneLinked DEF saved, r
<1>4. ASSUME NEW t \in without PROVE t \in Runs /\ Linked(t)
    BY <1>2, OutageSound, OutageLinked DEF without, Outage, Sound
<1>5. (\A t \in {saved} : t \in Runs /\ Linked(t)) /\ (\A t \in {run} : t \in Runs /\ Linked(t))
    BY <1>2, <1>3
<1> QED
    BY <1>1, <1>4, <1>5, AdvanceLInv

LEMMA ReadOfficersLInv == IInv /\ LInv /\ ReadOfficers => LInv'
<1> SUFFICES ASSUME IInv, LInv, ReadOfficers PROVE LInv'
    OBVIOUS
<1> DEFINE officers == about[run.counterparty].appointed
           kept == {Record("ch_officer", p, run.counterparty) : p \in officers}
           outcomes == Outage("officers", Supplementary(run)) \cup
                       {Corroborated(t, officers) : t \in SaveAll(run, kept)}
<1> HIDE DEF officers, kept, outcomes
<1>1. Advance("officers", "psc", outcomes)
    BY DEF ReadOfficers, officers, kept, outcomes
<1>2. run \in Runs /\ Sound(run) /\ Linked(run) /\ run.counterparty \in Entities
    BY <1>1, UnderWay DEF Advance, IInv, Runs, Due, Subjects
<1>3. kept \in SUBSET Records
    <2>1. "ch_officer" \in Kinds
        BY DEF Kinds, CorporateRegistry
    <2>2. officers \subseteq People
        BY <1>2, ConstantsAssumption DEF officers, IInv, CaseTyped
    <2> QED
        BY <1>2, <2>1, <2>2, RecordsTyped DEF kept, Subjects
<1>4. ASSUME NEW t \in SaveAll(run, kept)
      PROVE  Corroborated(t, officers) \in Runs /\ Linked(Corroborated(t, officers))
    <2>1. t \in Runs
        BY <1>2, <1>3, SaveAllSound DEF Sound
    <2>2. CASE Contact \in officers
        <3>1. Verified(t) \in Runs
            BY <2>1 DEF Verified, Runs, Contacts
        <3> QED
            BY <2>1, <2>2, <3>1, VerifiedLinked DEF Corroborated
    <2>3. CASE Contact \notin officers
        <3>1. ~Backed(kept)
            BY <2>3 DEF Backed, Record, kept
        <3> QED
            BY <1>2, <2>1, <2>3, <3>1, SaveAllLinked DEF Corroborated
    <2> QED
        BY <2>2, <2>3
<1>5. ASSUME NEW t \in outcomes PROVE t \in Runs /\ Linked(t)
    BY <1>2, <1>4, OutageSound, OutageLinked DEF outcomes, Outage, Sound
<1> QED
    BY <1>1, <1>5, AdvanceLInv

LEMMA ReadControllersLInv == IInv /\ LInv /\ ReadControllers => LInv'
<1> SUFFICES ASSUME IInv, LInv, ReadControllers PROVE LInv'
    OBVIOUS
<1> DEFINE pscs == about[run.counterparty].pscs
           kept == {Record("psc", p, run.counterparty) : p \in pscs}
           outcomes == Outage("psc", Supplementary(run)) \cup SaveAll(run, kept)
<1> HIDE DEF pscs, kept, outcomes
<1>1. Advance("psc", "check", outcomes)
    BY DEF ReadControllers, pscs, kept, outcomes
<1>2. run \in Runs /\ Sound(run) /\ Linked(run) /\ run.counterparty \in Entities
    BY <1>1, UnderWay DEF Advance, IInv, Runs, Due, Subjects
<1>3. kept \in SUBSET Records
    <2>1. "psc" \in Kinds /\ pscs \subseteq People
        BY <1>2, ConstantsAssumption DEF Kinds, CorporateRegistry, pscs, IInv, CaseTyped
    <2> QED
        BY <1>2, <2>1, RecordsTyped DEF kept, Subjects
<1>4. ~Backed(kept)
    BY DEF Backed, Record, OfficerKinds, kept
<1>5. ASSUME NEW t \in outcomes PROVE t \in Runs /\ Linked(t)
    <2>1. CASE t = Supplementary(run)
        BY <1>2, <2>1, OutageSound, OutageLinked DEF Sound
    <2>2. CASE t \in SaveAll(run, kept)
        <3>1. Sound(t)
            BY <1>2, <1>3, <2>2, SaveAllSound
        <3>2. Linked(t)
            BY <1>2, <1>4, <2>2, SaveAllLinked
        <3> QED
            BY <3>1, <3>2 DEF Sound
    <2> QED
        BY <2>1, <2>2 DEF outcomes, Outage
<1> QED
    BY <1>1, <1>5, AdvanceLInv

-----------------------------------------------------------------------------
(* The other steps                                                         *)

LEMMA InitLInv == Init => LInv
<1> SUFFICES ASSUME Init PROVE LInv
    OBVIOUS
<1>1. case.records \subseteq {Record("candidate", None, e) : e \in Entities}
    BY DEF Init
<1>2. ~Backed(case.records)
    BY <1>1 DEF Backed, Record, OfficerKinds
<1>3. run.at = "idle"
    BY DEF Init, NoRun
<1> QED
    BY <1>2, <1>3 DEF LInv

LEMMA ConcludeLInv == IInv /\ LInv /\ Conclude => LInv'
<1> SUFFICES ASSUME IInv, LInv, Conclude PROVE LInv'
    OBVIOUS
<1>1. case'.records = case.records \cup run.added /\ case'.contact = run.contact
    BY DEF Conclude, IInv, CaseTyped, Cases
<1>2. run.at = "check" /\ run'.at = "idle"
    BY DEF Conclude, NoRun
<1> QED
    BY <1>1, <1>2 DEF LInv, Linked, Backed

LEMMA StepLInv == IInv /\ LInv /\ [Next]_vars => LInv'
<1> SUFFICES ASSUME IInv, LInv, [Next]_vars PROVE LInv'
    OBVIOUS
<1>1. CASE Gather
    BY <1>1, ScreenLInv, CorroborateLInv, LookUpLeiLInv, SearchWebLInv, LookUpDomainLInv,
       SearchNewsLInv, SearchFilingsLInv, ReadProfileLInv, ReadOfficersLInv,
       ReadControllersLInv, ConcludeLInv DEF Gather
<1>2. ASSUME NEW entity, Begin(entity), UNCHANGED case PROVE LInv'
    <2>1. run'.added = {} /\ run'.contact = case.contact
        BY <1>2 DEF Begin, NoRun
    <2> QED
        BY <1>2, <2>1 DEF LInv, Linked, Backed
<1>3. ASSUME NEW e \in Entities, Resolve(e) PROVE LInv'
    <2>1. case'.records = case.records /\ case'.contact = case.contact /\ run' = run
        BY <1>3 DEF Resolve, IInv, CaseTyped, Cases
    <2> QED
        BY <2>1 DEF LInv, Linked, Backed
<1>4. ASSUME NEW f \in case.findings, ReviewFinding(f) PROVE LInv'
    <2>1. case'.records = case.records /\ case'.contact = case.contact /\ run' = run
        BY <1>4 DEF ReviewFinding, IInv, CaseTyped, Cases
    <2> QED
        BY <2>1 DEF LInv, Linked, Backed
<1>5. CASE RollBack
    BY <1>5 DEF RollBack, NoRun, LInv, Backed
<1>6. CASE UNCHANGED <<case, run>>
    BY <1>6 DEF LInv, Linked, Backed
<1> QED
    BY <1>1, <1>2, <1>3, <1>4, <1>5, <1>6
    DEF Next, StartEnrichment, StartUnresolved, LeiElsewhere, vars

LEMMA LInvHolds == Spec => [](IInv /\ LInv)
<1>1. Init => IInv /\ LInv
    BY InitIInv, InitLInv
<1>2. IInv /\ LInv /\ [Next]_vars => (IInv /\ LInv)'
    BY StepIInv, StepLInv
<1> QED
    BY <1>1, <1>2, PTL DEF Spec

-----------------------------------------------------------------------------
(* How many rows corroborate                                               *)

LEMMA AtMostTwo ==
    ASSUME NEW a, NEW b
    PROVE  IsFiniteSet({a, b}) /\ Cardinality({a, b}) \in 0..2
<1>1. IsFiniteSet({}) /\ Cardinality({}) = 0
    BY FS_EmptySet
<1>2. IsFiniteSet({a}) /\ Cardinality({a}) = 1
    <2>1. {a} = {} \cup {a} /\ a \notin {}
        OBVIOUS
    <2> QED
        BY <1>1, <2>1, FS_AddElement
<1>3. CASE b = a
    <2>1. {a, b} = {a}
        BY <1>3
    <2> QED
        BY <1>2, <2>1
<1>4. CASE b # a
    <2>1. {a, b} = {a} \cup {b} /\ b \notin {a}
        BY <1>4
    <2> QED
        BY <1>2, <2>1, FS_AddElement
<1> QED
    BY <1>3, <1>4

\* Two rows are not enough.
LEMMA TwoAreFew == ASSUME NEW a, NEW b, NEW rows \in SUBSET {a, b} PROVE ~Enough(rows)
<1>1. IsFiniteSet({a, b}) /\ Cardinality({a, b}) \in 0..2
    BY AtMostTwo
<1>2. IsFiniteSet(rows) /\ Cardinality(rows) <= Cardinality({a, b})
    BY <1>1, FS_Subset
<1>3. Cardinality(rows) \in Nat
    BY <1>2, FS_CardinalityType
<1> QED
    BY <1>1, <1>2, <1>3 DEF Enough

-----------------------------------------------------------------------------
(* Theorems                                                                *)

\* The board and the graph say the same of the contact, although the one reads
\* the state of the relationship and the other the officer records: the two
\* are written by different stages of different runs (board.py, graph.py).
THEOREM BoardAndGraphAgree == Spec => []ContactRowMatchesGraph
<1>1. IInv /\ LInv => ContactRowMatchesGraph
    <2> SUFFICES ASSUME IInv, LInv, Contact # None
                 PROVE  ContactCompany.state = "CONFIRMED" <=>
                           \E e \in Graph : e.from = Contact /\ e.type \in OfficerTypes
        BY DEF ContactRowMatchesGraph
    <2>1. ContactCompany.state = "CONFIRMED" <=> case.contact = "VERIFIED"
        BY DEF ContactCompany, Row
    <2> DEFINE named == {r \in Officers(case.records) : r.who = Contact}
               joining == {e \in Graph : e.from = Contact /\ e.type \in OfficerTypes}
               type(r) == IF r.who \in Directors THEN "DIRECTOR_OF" ELSE "OFFICER_OF"
    <2>2. ASSUME case.contact = "VERIFIED" PROVE joining # {}
        <3>1. CASE named = {}
            <4> DEFINE e == Edge(Contact, "OFFICER_OF", "company", "CONFIRMED", {})
            <4>1. e \in ContactEdges
                BY <2>2, <3>1 DEF ContactEdges
            <4>2. e.from = Contact /\ e.type \in OfficerTypes
                BY DEF Edge, OfficerTypes
            <4> QED
                BY <4>1, <4>2 DEF Graph
        <3>2. CASE named # {}
            <4>1. PICK r \in Officers(case.records) : r.who = Contact
                BY <3>2
            <4> DEFINE e == Edge(r.who, type(r), "company", "CORROBORATED", {r})
            <4>2. e \in OfficerEdges
                BY DEF OfficerEdges
            <4>3. e.from = Contact /\ e.type \in OfficerTypes
                BY <4>1 DEF Edge, OfficerTypes
            <4> QED
                BY <4>2, <4>3 DEF Graph
        <3> QED
            BY <3>1, <3>2
    <2>3. ASSUME NEW e \in joining PROVE case.contact = "VERIFIED"
        <3>1. e \in OfficerEdges \cup ContactEdges
            <4>1. e \notin AddressEdges \cup ControlEdges \cup DomainEdges
                BY DEF AddressEdges, ControlEdges, DomainEdges, Edge, OfficerTypes
            <4>2. e \notin LeiEdges \cup ParentEdges \cup MatchEdges
                BY DEF LeiEdges, ParentEdges, MatchEdges, Edge, OfficerTypes
            <4> QED
                BY <4>1, <4>2 DEF Graph
        <3>2. CASE e \in OfficerEdges
            <4>1. PICK r \in Officers(case.records) :
                     e = Edge(r.who, type(r), "company", "CORROBORATED", {r})
                BY <3>2 DEF OfficerEdges
            <4>2. r.who = Contact
                BY <4>1 DEF Edge
            <4> QED
                BY <4>1, <4>2 DEF Officers, LInv, Backed
        <3>3. CASE e \in ContactEdges
            BY <3>3 DEF ContactEdges, Edge, OfficerTypes
        <3> QED
            BY <3>1, <3>2, <3>3
    <2> QED
        BY <2>1, <2>2, <2>3
<1> QED
    BY <1>1, LInvHolds, PTL

\* Three corroborating rows are never of one kind of evidence: those that rest
\* on officer records are two, and those that rest on a domain or an identifier
\* are two, so a Strong report has both kinds (report_headline).
THEOREM StrongReportsAreBacked == Spec => []StrongBacked
<1>1. IInv => StrongBacked
    <2> SUFFICES ASSUME IInv, Enough(Corroborating)
                 PROVE  Cited(OfficerKinds) # {} /\ (Cited({"rdap"}) # {} \/ HasLei)
        BY DEF StrongBacked, Corroboration
    <2>1. Corroborating \subseteq {"directors_officers", "domain_website", "contact_company", "lei"}
        BY DEF Corroborating, CorroboratingKeys, Board, RegulatoryFootprint, Row
    <2>2. ASSUME Cited(OfficerKinds) = {} PROVE FALSE
        <3>1. "directors_officers" \notin Corroborating
            <4>1. Officers(case.records) = {}
                BY <2>2 DEF Cited, Officers
            <4> QED
                BY <4>1 DEF Corroborating, Board, DirectorsOfficers, Row
        <3>2. "contact_company" \notin Corroborating
            <4>1. case.contact # "VERIFIED"
                BY <2>2 DEF Cited, IInv, VerifiedHasRecord
            <4> QED
                BY <4>1 DEF Corroborating, Board, ContactCompany, Row
        <3>3. Corroborating \in SUBSET {"domain_website", "lei"}
            BY <2>1, <3>1, <3>2
        <3> QED
            BY <3>3, TwoAreFew
    <2>3. ASSUME Cited({"rdap"}) = {}, ~HasLei PROVE FALSE
        <3>1. "domain_website" \notin Corroborating
            BY <2>3 DEF Corroborating, Board, DomainWebsite, RowIf, Row
        <3>2. "lei" \notin Corroborating
            BY <2>3 DEF Corroborating, Board, Lei, RowIf, Row
        <3>3. Corroborating \in SUBSET {"directors_officers", "contact_company"}
            BY <2>1, <3>1, <3>2
        <3> QED
            BY <3>3, TwoAreFew
    <2> QED
        BY <2>2, <2>3
<1> QED
    BY <1>1, IInvHolds, PTL

=============================================================================
