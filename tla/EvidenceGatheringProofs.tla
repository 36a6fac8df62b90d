----------------------- MODULE EvidenceGatheringProofs -----------------------
(***************************************************************************)
(* Theorems about EvidenceGathering for every set of entities, people and  *)
(* claims, every answer and outage of the sources, and every number of     *)
(* runs.                                                                   *)
(***************************************************************************)
EXTENDS EvidenceGathering, TLAPS

-----------------------------------------------------------------------------
(* The inductive invariant                                                 *)

Subjects == Entities \cup {None}
Contacts == {None, "UNVERIFIED", "VERIFIED"}
Completenesses == {"COMPLETE_WITH_LIMITATIONS", "MATERIAL_SOURCE_UNAVAILABLE", None}
Verdicts == {"POTENTIAL_MATCH", "NO_MATERIAL_MATCH", None}
Findings == [title : Rules \cup {"contact_not_established"}, of : Subjects,
             missing : SUBSET People, open : BOOLEAN]

Cases == [found : SUBSET Entities, resolved : Seq(Entities), done : SUBSET Subjects,
          records : SUBSET Records, contact : Contacts, findings : SUBSET Findings,
          completeness : Completenesses, screening : Verdicts, hits : SUBSET Subjects]

Runs == [at : Stages, entity : Subjects, counterparty : Subjects, added : SUBSET Records,
         unflushed : SUBSET Records, contact : Contacts, completeness : Completenesses,
         screening : Verdicts, hits : SUBSET Subjects, findings : SUBSET Findings,
         lei : BOOLEAN]

\* The contact is in an officer record.
Backed(records) == \E r \in records : r.kind \in OfficerKinds /\ r.who = Contact

\* What has become of the contact is on record.
Accounted(contact, findings) ==
    Contact # None =>
        \/ contact = "VERIFIED"
        \/ \E f \in findings : f.title = "contact_not_established"

\* Of a run under way, wherever it is.
Sound(t) ==
    /\ t \in Runs
    /\ t.unflushed \subseteq t.added
    /\ t.entity \in Range(case.resolved) \cup {None}
    /\ t.entity # None => t.counterparty # None
    /\ t.contact = None => Contact = None
    /\ t.contact = "VERIFIED" => Backed(case.records \cup t.added)
    /\ case.contact = "VERIFIED" => t.contact = "VERIFIED"
    /\ \A f \in t.findings : /\ f.title = "contact_not_established"
                             /\ f.missing = {}
    /\ t.lei => t.counterparty # None

\* The stages after the contact was concluded on.
Later == {"news", "sec", "profile", "officers", "psc", "check"}

\* What a run must have behind it to be at a stage.
Due(t, at) ==
    /\ at \in {"contact", "gleif"} => t.entity # None
    /\ at \in {"officers", "psc"} => t.counterparty # None
    /\ at \in Later => Accounted(t.contact, t.findings)

CaseTyped ==
    /\ about \in [Entities -> Facts]
    /\ registered \in Years \cup {None}
    /\ case \in Cases
    /\ Range(case.resolved) \subseteq case.found
    /\ case.done \subseteq Range(case.resolved) \cup {None}
    /\ leis \subseteq Entities

\* The properties of the case are not inductive alone: a commit is right only
\* if what the run holds of the contact and the findings is.
IInv ==
    /\ CaseTyped
    /\ case.contact = None => Contact = None
    /\ VerifiedHasRecord
    /\ ContactAccountedFor
    /\ ContradictionsUnique
    /\ run \in Runs /\ run.unflushed \subseteq run.added
    /\ run.at # "idle" => Sound(run) /\ Due(run, run.at)

-----------------------------------------------------------------------------
(* Sequences of entities                                                   *)

LEMMA AppendRange ==
    ASSUME NEW s \in Seq(Entities), NEW e \in Entities
    PROVE  Append(s, e) \in Seq(Entities) /\ Range(Append(s, e)) = Range(s) \cup {e}
<1>1. /\ Append(s, e) \in Seq(Entities)
      /\ Len(Append(s, e)) = Len(s) + 1
      /\ \A i \in 1..Len(s) : Append(s, e)[i] = s[i]
      /\ Append(s, e)[Len(s) + 1] = e
    OBVIOUS
<1>2. /\ DOMAIN s = 1..Len(s)
      /\ DOMAIN Append(s, e) = 1..(Len(s) + 1)
      /\ 1..(Len(s) + 1) = 1..Len(s) \cup {Len(s) + 1}
    BY <1>1
<1> QED
    BY <1>1, <1>2 DEF Range

LEMMA RangeEmpty == Range(<<>>) = {}
BY DEF Range

LEMMA LastEntity ==
    ASSUME NEW s \in Seq(Entities), s # <<>>
    PROVE  Last(s) \in Entities
<1>1. Len(s) \in 1..Len(s)
    OBVIOUS
<1> QED
    BY <1>1 DEF Last

-----------------------------------------------------------------------------
(* What the sources do to a sound run                                      *)

\* u goes on from t: nothing it had is lost.
Continues(t, u) ==
    /\ u.entity = t.entity
    /\ u.counterparty = t.counterparty
    /\ Accounted(t.contact, t.findings) => Accounted(u.contact, u.findings)

LEMMA SaveSound ==
    ASSUME NEW t, Sound(t), NEW records \in SUBSET Records, NEW last \in SUBSET records
    PROVE  /\ Sound(Save(t, records, last)) /\ Continues(t, Save(t, records, last))
           /\ Save(t, records, last).added = t.added \cup records
<1> DEFINE u == Save(t, records, last)
<1>1. /\ u \in Runs
      /\ u.at = t.at /\ u.entity = t.entity /\ u.counterparty = t.counterparty
      /\ u.added = t.added \cup records /\ u.unflushed = last
      /\ u.contact = t.contact /\ u.findings = t.findings /\ u.lei = t.lei
    BY DEF Sound, Save, Runs
<1> HIDE DEF u
<1>2. Sound(u)
    BY <1>1 DEF Sound, Backed
<1>3. Continues(t, u)
    BY <1>1 DEF Continues
<1> QED
    BY <1>1, <1>2, <1>3 DEF u

LEMMA SaveAllSound ==
    ASSUME NEW t, Sound(t), NEW records \in SUBSET Records
    PROVE  \A u \in SaveAll(t, records) :
              Sound(u) /\ Continues(t, u) /\ u.added = t.added \cup records
<1>1. CASE records = {}
    <2>1. SaveAll(t, records) = {t}
        BY <1>1 DEF SaveAll
    <2> QED
        BY <1>1, <2>1 DEF Continues
<1>2. CASE records # {}
    <2> SUFFICES ASSUME NEW u \in SaveAll(t, records)
                 PROVE  Sound(u) /\ Continues(t, u) /\ u.added = t.added \cup records
        OBVIOUS
    <2>1. PICK r \in records : u = Save(t, records, {r})
        BY <1>2 DEF SaveAll
    <2>2. {r} \in SUBSET records
        OBVIOUS
    <2> QED
        BY <2>1, <2>2, SaveSound
<1> QED
    BY <1>1, <1>2

LEMMA OutageSound ==
    ASSUME NEW t, Sound(t)
    PROVE  /\ Sound(Material(t)) /\ Continues(t, Material(t))
           /\ Sound(Supplementary(t)) /\ Continues(t, Supplementary(t))
<1>1. ASSUME NEW u, NEW c \in Completenesses, u = [t EXCEPT !.completeness = c]
      PROVE  Sound(u) /\ Continues(t, u)
    <2>1. /\ u \in Runs
          /\ u.entity = t.entity /\ u.counterparty = t.counterparty
          /\ u.added = t.added /\ u.unflushed = t.unflushed
          /\ u.contact = t.contact /\ u.findings = t.findings /\ u.lei = t.lei
        BY <1>1 DEF Sound, Runs
    <2> QED
        BY <2>1 DEF Sound, Continues
<1> QED
    BY <1>1 DEF Material, Supplementary, Completenesses, Sound, Runs

\* A contact found in the records the run holds.
LEMMA VerifiedSound ==
    ASSUME NEW t, Sound(t), Backed(t.added)
    PROVE  Sound(Verified(t)) /\ Continues(t, Verified(t))
<1> DEFINE u == Verified(t)
<1>1. /\ u \in Runs
      /\ u.entity = t.entity /\ u.counterparty = t.counterparty
      /\ u.added = t.added /\ u.unflushed = t.unflushed
      /\ u.findings = t.findings /\ u.lei = t.lei
      /\ u.contact = "VERIFIED"
    BY DEF Sound, Runs, Verified, Contacts
<1> HIDE DEF u
<1>2. Sound(u)
    BY <1>1, ConstantsAssumption DEF Sound, Backed
<1>3. Continues(t, u)
    BY <1>1 DEF Continues, Accounted
<1> QED
    BY <1>2, <1>3 DEF u

LEMMA ConcludeSound ==
    ASSUME NEW t, Sound(t)
    PROVE  LET u == ConcludeContact(t) IN
           /\ Sound(u) /\ Continues(t, u) /\ Accounted(u.contact, u.findings)
<1> DEFINE u == ConcludeContact(t)
           finding == Finding("contact_not_established", t.entity, {})
<1>1. CASE t.contact \in {None, "VERIFIED"}
    <2>1. u = t
        BY <1>1 DEF ConcludeContact
    <2> QED
        BY <1>1, <2>1 DEF Sound, Continues, Accounted
<1>2. CASE t.contact \notin {None, "VERIFIED"}
    <2>1. finding \in Findings /\ finding.title = "contact_not_established" /\ finding.missing = {}
        BY DEF Finding, Findings, Sound, Runs
    <2> HIDE DEF finding
    <2>2. u = [t EXCEPT !.contact = "UNVERIFIED", !.findings = @ \cup {finding}]
        BY <1>2 DEF ConcludeContact, finding
    <2> HIDE DEF u
    <2>3. /\ u \in Runs
          /\ u.entity = t.entity /\ u.counterparty = t.counterparty
          /\ u.added = t.added /\ u.unflushed = t.unflushed
          /\ u.findings = t.findings \cup {finding} /\ u.lei = t.lei
          /\ u.contact = "UNVERIFIED"
        BY <2>1, <2>2 DEF Sound, Runs, Contacts
    <2>4. Sound(u)
        BY <1>2, <2>1, <2>3, ConstantsAssumption DEF Sound
    <2>5. Continues(t, u) /\ Accounted(u.contact, u.findings)
        BY <2>1, <2>3 DEF Continues, Accounted
    <2> QED
        BY <2>4, <2>5 DEF u
<1> QED
    BY <1>1, <1>2

-----------------------------------------------------------------------------
(* The stages preserve the invariant                                       *)

LEMMA InitIInv == Init => IInv
<1> SUFFICES ASSUME Init PROVE IInv
    OBVIOUS
<1>1. PICK found \in {Entities, {}} :
          case = [found |-> found, resolved |-> <<>>, done |-> {},
                  records |-> {Record("candidate", None, e) : e \in found},
                  contact |-> IF Contact = None THEN None ELSE "UNVERIFIED",
                  findings |-> {}, completeness |-> "COMPLETE_WITH_LIMITATIONS",
                  screening |-> None, hits |-> {}]
    BY DEF Init
<1>2. {Record("candidate", None, e) : e \in found} \in SUBSET Records
    <2> SUFFICES ASSUME NEW e \in found
                 PROVE  Record("candidate", None, e) \in Records
        OBVIOUS
    <2>1. "candidate" \in Kinds
        BY DEF Kinds, CorporateRegistry
    <2> QED
        BY <1>1, <2>1 DEF Record, Records
<1>3. CaseTyped
    <2>1. case \in Cases
        BY <1>1, <1>2 DEF Cases, Contacts, Completenesses, Verdicts
    <2>2. case.resolved = <<>> /\ case.done = {}
        BY <1>1
    <2> QED
        BY <2>1, <2>2, RangeEmpty DEF Init, CaseTyped
<1>4. /\ case.contact = None => Contact = None
      /\ VerifiedHasRecord /\ ContactAccountedFor /\ ContradictionsUnique
    BY <1>1, ConstantsAssumption DEF VerifiedHasRecord, ContactAccountedFor, ContradictionsUnique
<1>5. run \in Runs /\ run.unflushed \subseteq run.added /\ run.at = "idle"
    BY DEF Init, NoRun, Runs, Stages, Subjects, Contacts, Completenesses, Verdicts
<1> QED
    BY <1>3, <1>4, <1>5 DEF IInv

\* A source that leaves the run sound, and whose stage has what the next one
\* rests on, preserves the invariant.
LEMMA AdvanceIInv ==
    ASSUME IInv, NEW from \in Stages, NEW to \in Stages, NEW outcomes,
           Advance(from, to, outcomes), from # "idle", to # "idle",
           \A t \in outcomes : Sound(t) /\ Due(t, to)
    PROVE  IInv'
<1>1. PICK t \in outcomes : run' = [t EXCEPT !.at = to]
    BY DEF Advance
<1>2. Sound(t) /\ Due(t, to)
    BY <1>1
<1>3. /\ run' \in Runs
      /\ run'.at = to /\ run'.entity = t.entity /\ run'.counterparty = t.counterparty
      /\ run'.added = t.added /\ run'.unflushed = t.unflushed
      /\ run'.contact = t.contact /\ run'.findings = t.findings /\ run'.lei = t.lei
    BY <1>1, <1>2 DEF Sound, Runs
<1>4. UNCHANGED <<world, case, leis>>
    BY DEF Advance
<1>5. Sound(run)'
    BY <1>2, <1>3, <1>4 DEF Sound, Backed
<1>6. Due(run, run.at)'
    BY <1>2, <1>3 DEF Due
<1>7. CaseTyped'
    BY <1>4 DEF IInv, CaseTyped, world
<1>8. /\ case'.contact = None => Contact = None
      /\ VerifiedHasRecord' /\ ContactAccountedFor' /\ ContradictionsUnique'
    BY <1>4 DEF IInv, VerifiedHasRecord, ContactAccountedFor, ContradictionsUnique
<1> QED
    BY <1>2, <1>3, <1>5, <1>6, <1>7, <1>8 DEF IInv, Sound

\* Records of sources are records.
LEMMA RecordsTyped ==
    \A kind \in Kinds, who \in People \cup {None}, of \in Subjects :
        Record(kind, who, of) \in Records
BY DEF Record, Records, Subjects

LEMMA ScreenedSound ==
    ASSUME NEW t, Sound(t), NEW verdict \in Verdicts
    PROVE  Sound(Screened(t, verdict)) /\ Continues(t, Screened(t, verdict))
<1> DEFINE u == Screened(t, verdict)
           hits == IF verdict = "POTENTIAL_MATCH" THEN {t.entity} ELSE {}
<1>1. hits \in SUBSET Subjects
    BY DEF Sound, Runs
<1> HIDE DEF hits
<1>2. u = [t EXCEPT !.screening = verdict, !.hits = hits]
    BY DEF Screened, hits
<1> HIDE DEF u
<1>3. /\ u \in Runs
      /\ u.entity = t.entity /\ u.counterparty = t.counterparty
      /\ u.added = t.added /\ u.unflushed = t.unflushed
      /\ u.contact = t.contact /\ u.findings = t.findings /\ u.lei = t.lei
    BY <1>1, <1>2 DEF Sound, Runs
<1>4. Sound(u) /\ Continues(t, u)
    BY <1>3 DEF Sound, Continues
<1> QED
    BY <1>4 DEF u

LEMMA ScreenIInv == IInv /\ Screen => IInv'
<1> SUFFICES ASSUME IInv, Screen PROVE IInv'
    OBVIOUS
<1> DEFINE to == IF run.entity = None THEN "web" ELSE "contact"
           searches == {Record("screening", who, run.entity) : who \in {None, Contact}}
           outcomes == Outage("screening", Material(Screened(run, None))) \cup
                       {Screened(t, verdict) : t \in SaveAll(run, searches), verdict \in Screenings}
<1> HIDE DEF to, searches, outcomes
<1>1. Advance("screening", to, outcomes)
    BY DEF Screen, to, searches, outcomes
<1>2. Sound(run) /\ run.entity \in Subjects
    BY <1>1 DEF Advance, IInv, Sound, Runs
<1>3. None \in Verdicts /\ Screenings \subseteq Verdicts
    BY ConstantsAssumption DEF Verdicts
<1>4. searches \in SUBSET Records
    <2>1. "screening" \in Kinds
        BY DEF Kinds
    <2> QED
        BY <1>2, <2>1, RecordsTyped, ConstantsAssumption DEF searches
<1>5. ASSUME NEW t \in outcomes PROVE Sound(t) /\ Continues(run, t)
    <2>1. CASE t = Material(Screened(run, None))
        <3>1. Sound(Screened(run, None)) /\ Continues(run, Screened(run, None))
            BY <1>2, <1>3, ScreenedSound
        <3> QED
            BY <2>1, <3>1, OutageSound DEF Continues
    <2>2. ASSUME NEW v \in SaveAll(run, searches), NEW verdict \in Screenings,
                 t = Screened(v, verdict)
          PROVE  Sound(t) /\ Continues(run, t)
        <3>1. Sound(v) /\ Continues(run, v)
            BY <1>2, <1>4, SaveAllSound
        <3>2. Sound(t) /\ Continues(v, t)
            BY <1>3, <2>2, <3>1, ScreenedSound
        <3> QED
            BY <3>1, <3>2 DEF Continues
    <2> QED
        BY <2>1, <2>2 DEF outcomes, Outage
<1>6. \A t \in outcomes : Due(t, to)
    BY <1>5 DEF Due, Later, to, Continues
<1>7. to \in Stages /\ to # "idle" /\ "screening" \in Stages
    BY DEF Stages, to
<1> QED
    BY <1>1, <1>5, <1>6, <1>7, AdvanceIInv

\* One record of a source and its evidence.
LEMMA SaveOneSound ==
    ASSUME NEW t, Sound(t), NEW kind \in Kinds, NEW who \in People \cup {None},
           NEW of \in Subjects
    PROVE  LET r == Record(kind, who, of) IN
           /\ Sound(Save(t, {r}, {r}))
           /\ Continues(t, Save(t, {r}, {r}))
           /\ r \in Save(t, {r}, {r}).added
<1>1. {Record(kind, who, of)} \in SUBSET Records
    BY RecordsTyped
<1> QED
    BY <1>1, SaveSound

LEMMA CorroborateIInv == IInv /\ CorroborateContact => IInv'
<1> SUFFICES ASSUME IInv, CorroborateContact PROVE IInv'
    OBVIOUS
<1> DEFINE r == Record("registry_officer", Contact, run.entity)
           saved == Save(run, {r}, {r})
           outcomes == IF Contact = None \/ ~lists THEN {run}
                       ELSE Outage("registry_officers", Material(run)) \cup
                            {IF Contact \in about[run.entity].officers THEN Verified(saved)
                             ELSE run}
<1> HIDE DEF r, saved, outcomes
<1>1. Advance("contact", "gleif", outcomes)
    BY DEF CorroborateContact, r, saved, outcomes
<1>2. Sound(run) /\ run.entity \in Subjects /\ run.entity # None
    BY <1>1 DEF Advance, IInv, Sound, Runs, Due
<1>3. Sound(saved) /\ Continues(run, saved) /\ r \in saved.added
    <2>1. "registry_officer" \in Kinds
        BY DEF Kinds, CorporateRegistry
    <2> QED
        BY <1>2, <2>1, SaveOneSound, ConstantsAssumption DEF saved, r
<1>4. Sound(Verified(saved)) /\ Continues(saved, Verified(saved))
    <2>1. Backed(saved.added)
        BY <1>3 DEF Backed, r, Record, OfficerKinds
    <2> QED
        BY <1>3, <2>1, VerifiedSound
<1>5. ASSUME NEW t \in outcomes PROVE Sound(t) /\ t.entity = run.entity
    <2>1. t \in {run, Material(run), Verified(saved)}
        BY DEF outcomes, Outage
    <2> QED
        BY <1>2, <1>3, <1>4, <2>1, OutageSound DEF Continues
<1>6. \A t \in outcomes : Due(t, "gleif")
    BY <1>2, <1>5 DEF Due, Later
<1>7. {"contact", "gleif"} \subseteq Stages
    BY DEF Stages
<1> QED
    BY <1>1, <1>5, <1>6, <1>7, AdvanceIInv

LEMMA LookUpLeiIInv == IInv /\ LookUpLei => IInv'
<1> SUFFICES ASSUME IInv, LookUpLei PROVE IInv'
    OBVIOUS
<1> DEFINE lei == Record("gleif", None, run.entity)
           saved == Save(run, {lei}, {lei})
           known == [saved EXCEPT !.lei = TRUE]
           related == Record("gleif_relationships", None, run.entity)
           both == Save(known, {related}, {related})
           outcomes == IF ~about[run.entity].lei THEN {run}
                       ELSE Outage("gleif", Supplementary(run)) \cup
                            Outage("gleif_relationships", known) \cup
                            {IF about[run.entity].related THEN both ELSE known}
<1> HIDE DEF lei, saved, known, related, both, outcomes
<1>1. Advance("gleif", "web", outcomes)
    BY DEF LookUpLei, lei, saved, known, related, both, outcomes
<1>2. Sound(run) /\ run.entity \in Subjects /\ run.entity # None
    BY <1>1 DEF Advance, IInv, Sound, Runs, Due
<1>k. {"gleif", "gleif_relationships"} \subseteq Kinds
    BY DEF Kinds, CorporateRegistry
<1>3. Sound(saved) /\ Continues(run, saved)
    BY <1>2, <1>k, SaveOneSound DEF saved, lei
<1>4. Sound(known)
    <2>1. /\ known \in Runs
          /\ known.entity = saved.entity /\ known.counterparty = saved.counterparty
          /\ known.added = saved.added /\ known.unflushed = saved.unflushed
          /\ known.contact = saved.contact /\ known.findings = saved.findings
        BY <1>3 DEF known, Sound, Runs
    <2> QED
        BY <1>2, <1>3, <2>1 DEF Sound, Continues
<1>5. Sound(both)
    BY <1>2, <1>4, <1>k, SaveOneSound DEF both, related
<1>6. ASSUME NEW t \in outcomes PROVE Sound(t)
    <2>1. t \in {run, Supplementary(run), known, both}
        BY DEF outcomes, Outage
    <2> QED
        BY <1>2, <1>4, <1>5, <2>1, OutageSound
<1>7. \A t \in outcomes : Due(t, "web")
    BY DEF Due, Later
<1>8. {"gleif", "web"} \subseteq Stages
    BY DEF Stages
<1> QED
    BY <1>1, <1>6, <1>7, <1>8, AdvanceIInv

LEMMA SearchWebIInv == IInv /\ SearchWeb => IInv'
<1> SUFFICES ASSUME IInv, SearchWeb PROVE IInv'
    OBVIOUS
<1> DEFINE kept(kinds) == {Record(k, None, run.entity) : k \in kinds}
           outcomes == Outage("web", Material(run)) \cup
                       {IF kinds = {} THEN run ELSE Save(run, kept(kinds), {}) :
                          kinds \in WebAnswers}
<1> HIDE DEF kept, outcomes
<1>1. Advance("web", "domain", outcomes)
    BY DEF SearchWeb, kept, outcomes
<1>2. Sound(run) /\ run.entity \in Subjects
    BY <1>1 DEF Advance, IInv, Sound, Runs
<1>3. ASSUME NEW kinds \in WebAnswers PROVE Sound(Save(run, kept(kinds), {}))
    <2>1. kinds \subseteq Kinds
        BY ConstantsAssumption DEF Kinds
    <2>2. kept(kinds) \in SUBSET Records
        BY <1>2, <2>1, RecordsTyped DEF kept
    <2> QED
        BY <1>2, <2>2, SaveSound
<1>4. ASSUME NEW t \in outcomes PROVE Sound(t)
    BY <1>2, <1>3, OutageSound DEF outcomes, Outage
<1>5. \A t \in outcomes : Due(t, "domain")
    BY DEF Due, Later
<1>6. {"web", "domain"} \subseteq Stages
    BY DEF Stages
<1> QED
    BY <1>1, <1>4, <1>5, <1>6, AdvanceIInv

LEMMA LookUpDomainIInv == IInv /\ LookUpDomain => IInv'
<1> SUFFICES ASSUME IInv, LookUpDomain PROVE IInv'
    OBVIOUS
<1> DEFINE r == Record("rdap", None, run.entity)
           saved == Save(run, {r}, {r})
           looked == IF Claims.website = None THEN {run}
                     ELSE Outage("rdap", Material(run)) \cup {run, saved}
           outcomes == {ConcludeContact(t) : t \in looked}
<1> HIDE DEF r, saved, looked, outcomes
<1>1. Advance("domain", "news", outcomes)
    BY DEF LookUpDomain, r, saved, looked, outcomes
<1>2. Sound(run) /\ run.entity \in Subjects
    BY <1>1 DEF Advance, IInv, Sound, Runs
<1>3. Sound(saved)
    <2>1. "rdap" \in Kinds
        BY DEF Kinds
    <2> QED
        BY <1>2, <2>1, SaveOneSound DEF saved, r
<1>4. ASSUME NEW t \in looked PROVE Sound(t)
    BY <1>2, <1>3, OutageSound DEF looked, Outage
<1>5. ASSUME NEW t \in outcomes PROVE Sound(t) /\ Due(t, "news")
    BY <1>4, ConcludeSound DEF outcomes, Due
<1>6. {"domain", "news"} \subseteq Stages
    BY DEF Stages
<1> QED
    BY <1>1, <1>5, <1>6, AdvanceIInv

LEMMA SearchNewsIInv == IInv /\ SearchNews => IInv'
<1> SUFFICES ASSUME IInv, SearchNews PROVE IInv'
    OBVIOUS
<1> DEFINE kept(kinds) == {Record("lead", None, run.entity) : k \in kinds \cap {"lead"}}
           outcomes == Outage("news", Supplementary(run)) \cup
                       {[run EXCEPT !.added = @ \cup kept(kinds)] : kinds \in WebAnswers}
<1> HIDE DEF kept, outcomes
<1>1. Advance("news", "sec", outcomes)
    BY DEF SearchNews, kept, outcomes
<1>2. Sound(run) /\ run.entity \in Subjects /\ Accounted(run.contact, run.findings)
    BY <1>1 DEF Advance, IInv, Sound, Runs, Due, Later
<1>3. ASSUME NEW kinds, NEW t, t = [run EXCEPT !.added = @ \cup kept(kinds)]
      PROVE  Sound(t) /\ Continues(run, t)
    <2>1. kept(kinds) \in SUBSET Records
        <3>1. "lead" \in Kinds
            BY DEF Kinds
        <3> QED
            BY <1>2, <3>1, RecordsTyped DEF kept
    <2>2. /\ t \in Runs
          /\ t.entity = run.entity /\ t.counterparty = run.counterparty
          /\ t.added = run.added \cup kept(kinds) /\ t.unflushed = run.unflushed
          /\ t.contact = run.contact /\ t.findings = run.findings /\ t.lei = run.lei
        BY <1>2, <1>3, <2>1 DEF Sound, Runs
    <2> QED
        BY <1>2, <2>2 DEF Sound, Backed, Continues
<1>4. ASSUME NEW t \in outcomes PROVE Sound(t) /\ Continues(run, t)
    BY <1>2, <1>3, OutageSound DEF outcomes, Outage
<1>5. \A t \in outcomes : Due(t, "sec")
    BY <1>2, <1>4 DEF Due, Continues
<1>6. {"news", "sec"} \subseteq Stages
    BY DEF Stages
<1> QED
    BY <1>1, <1>4, <1>5, <1>6, AdvanceIInv

LEMMA SearchFilingsIInv == IInv /\ SearchFilings => IInv'
<1> SUFFICES ASSUME IInv, SearchFilings PROVE IInv'
    OBVIOUS
<1> DEFINE r == Record("sec", None, run.counterparty)
           saved == Save(run, {r}, {r})
           outcomes == IF ~In("US") THEN {run}
                       ELSE Outage("sec", Supplementary(run)) \cup
                            {IF about[run.counterparty].filer THEN saved ELSE run}
<1> HIDE DEF r, saved, outcomes
<1>1. Advance("sec", "profile", outcomes)
    BY DEF SearchFilings, r, saved, outcomes
<1>2. Sound(run) /\ run.counterparty \in Subjects /\ Accounted(run.contact, run.findings)
    BY <1>1 DEF Advance, IInv, Sound, Runs, Due, Later
<1>3. Sound(saved) /\ Continues(run, saved)
    <2>1. "sec" \in Kinds
        BY DEF Kinds, CorporateRegistry
    <2> QED
        BY <1>2, <2>1, SaveOneSound DEF saved, r
<1>4. ASSUME NEW t \in outcomes PROVE Sound(t) /\ Accounted(t.contact, t.findings)
    <2>1. t \in {run, Supplementary(run), saved}
        BY DEF outcomes, Outage
    <2> QED
        BY <1>2, <1>3, <2>1, OutageSound DEF Continues
<1>5. \A t \in outcomes : Due(t, "profile")
    BY <1>4 DEF Due
<1>6. {"sec", "profile"} \subseteq Stages
    BY DEF Stages
<1> QED
    BY <1>1, <1>4, <1>5, <1>6, AdvanceIInv

LEMMA ReadProfileIInv == IInv /\ ReadProfile => IInv'
<1> SUFFICES ASSUME IInv, ReadProfile PROVE IInv'
    OBVIOUS
<1> DEFINE r == Record("profile", None, run.counterparty)
           saved == Save(run, {r}, {r})
           without == Outage("profile", Material(run)) \cup {run}
<1> HIDE DEF r, saved, without
<1>1. \/ Advance("profile", "check", without)
      \/ Advance("profile", "officers", {saved}) /\ In("GB")
      \/ Advance("profile", "check", {run})
    BY DEF ReadProfile, r, saved, without
<1>2. Sound(run) /\ run.counterparty \in Subjects /\ Accounted(run.contact, run.findings)
    BY <1>1 DEF Advance, IInv, Sound, Runs, Due, Later
<1>3. Sound(saved) /\ Continues(run, saved)
    <2>1. "profile" \in Kinds
        BY DEF Kinds, CorporateRegistry
    <2> QED
        BY <1>2, <2>1, SaveOneSound DEF saved, r
<1>4. ASSUME NEW t \in without PROVE Sound(t) /\ Due(t, "check")
    <2>1. t \in {run, Material(run)}
        BY DEF without, Outage
    <2> QED
        BY <1>2, <2>1, OutageSound DEF Due, Continues
<1>5. Due(run, "check")
    BY <1>2 DEF Due
<1>6. In("GB") => Due(saved, "officers")
    BY <1>2, <1>3 DEF Due, In, Continues
<1>7. {"profile", "check", "officers"} \subseteq Stages
    BY DEF Stages
<1>8. CASE Advance("profile", "check", without)
    BY <1>4, <1>7, <1>8, AdvanceIInv
<1>9. CASE Advance("profile", "officers", {saved}) /\ In("GB")
    <2>1. \A t \in {saved} : Sound(t) /\ Due(t, "officers")
        BY <1>3, <1>6, <1>9
    <2> QED
        BY <1>7, <1>9, <2>1, AdvanceIInv
<1>10. CASE Advance("profile", "check", {run})
    <2>1. \A t \in {run} : Sound(t) /\ Due(t, "check")
        BY <1>2, <1>5
    <2> QED
        BY <1>7, <1>10, <2>1, AdvanceIInv
<1> QED
    BY <1>1, <1>8, <1>9, <1>10

LEMMA ReadOfficersIInv == IInv /\ ReadOfficers => IInv'
<1> SUFFICES ASSUME IInv, ReadOfficers PROVE IInv'
    OBVIOUS
<1> DEFINE officers == about[run.counterparty].appointed
           kept == {Record("ch_officer", p, run.counterparty) : p \in officers}
           outcomes == Outage("officers", Supplementary(run)) \cup
                       {Corroborated(t, officers) : t \in SaveAll(run, kept)}
<1> HIDE DEF officers, kept, outcomes
<1>1. Advance("officers", "psc", outcomes)
    BY DEF ReadOfficers, officers, kept, outcomes
<1>2. /\ Sound(run)
      /\ run.counterparty \in Entities
      /\ Accounted(run.contact, run.findings)
    BY <1>1 DEF Advance, IInv, Sound, Runs, Due, Later, Subjects
<1>3. officers \subseteq People
    BY <1>2, ConstantsAssumption DEF officers, IInv, CaseTyped
<1>4. kept \in SUBSET Records
    <2>1. "ch_officer" \in Kinds
        BY DEF Kinds, CorporateRegistry
    <2> QED
        BY <1>2, <1>3, <2>1, RecordsTyped DEF kept, Subjects
<1>5. ASSUME NEW t \in SaveAll(run, kept)
      PROVE  Sound(Corroborated(t, officers)) /\ Continues(run, Corroborated(t, officers))
    <2>1. Sound(t) /\ Continues(run, t) /\ t.added = run.added \cup kept
        BY <1>2, <1>4, SaveAllSound
    <2>2. CASE Contact \in officers
        <3>1. Backed(t.added)
            <4>1. Record("ch_officer", Contact, run.counterparty) \in t.added
                BY <2>1, <2>2 DEF kept
            <4> QED
                BY <4>1 DEF Backed, Record, OfficerKinds
        <3> QED
            BY <2>1, <2>2, <3>1, VerifiedSound DEF Corroborated, Continues
    <2>3. CASE Contact \notin officers
        BY <2>1, <2>3 DEF Corroborated
    <2> QED
        BY <2>2, <2>3
<1>6. ASSUME NEW t \in outcomes PROVE Sound(t) /\ Continues(run, t)
    BY <1>2, <1>5, OutageSound DEF outcomes, Outage
<1>7. \A t \in outcomes : Due(t, "psc")
    BY <1>2, <1>6, ConstantsAssumption DEF Due, Continues
<1>8. {"officers", "psc"} \subseteq Stages
    BY DEF Stages
<1> QED
    BY <1>1, <1>6, <1>7, <1>8, AdvanceIInv

LEMMA ReadControllersIInv == IInv /\ ReadControllers => IInv'
<1> SUFFICES ASSUME IInv, ReadControllers PROVE IInv'
    OBVIOUS
<1> DEFINE pscs == about[run.counterparty].pscs
           kept == {Record("psc", p, run.counterparty) : p \in pscs}
           outcomes == Outage("psc", Supplementary(run)) \cup SaveAll(run, kept)
<1> HIDE DEF pscs, kept, outcomes
<1>1. Advance("psc", "check", outcomes)
    BY DEF ReadControllers, pscs, kept, outcomes
<1>2. /\ Sound(run)
      /\ run.counterparty \in Entities
      /\ Accounted(run.contact, run.findings)
    BY <1>1 DEF Advance, IInv, Sound, Runs, Due, Later, Subjects
<1>3. kept \in SUBSET Records
    <2>1. "psc" \in Kinds /\ pscs \subseteq People
        BY <1>2, ConstantsAssumption DEF Kinds, CorporateRegistry, pscs, IInv, CaseTyped
    <2> QED
        BY <1>2, <2>1, RecordsTyped DEF kept, Subjects
<1>4. ASSUME NEW t \in outcomes PROVE Sound(t) /\ Continues(run, t)
    BY <1>2, <1>3, OutageSound, SaveAllSound DEF outcomes, Outage
<1>5. \A t \in outcomes : Due(t, "check")
    BY <1>2, <1>4 DEF Due, Continues
<1>6. {"psc", "check"} \subseteq Stages
    BY DEF Stages
<1> QED
    BY <1>1, <1>4, <1>5, <1>6, AdvanceIInv

-----------------------------------------------------------------------------
(* Contradictions and the commit                                           *)

\* What the checks add: one finding for each rule the case has none for, and
\* nobody missing whom a record of the case shows.
LEMMA ContradictionsAdded ==
    ASSUME run \in Runs
    PROVE  /\ NewContradictions \subseteq Findings
           /\ \A f, g \in NewContradictions : f.title = g.title => f = g
           /\ \A f \in NewContradictions :
                 /\ f.title \in Rules
                 /\ \A g \in case.findings : g.title # f.title
                 /\ f.missing \cap {r.who : r \in Officers(case.records)} = {}
<1> DEFINE shown == {r.who : r \in Officers(case.records)}
           missing(rule) == IF rule = "claimed_director_not_found"
                            THEN MissingDirectors(Context) ELSE {}
           titles == Evaluate(Context) \ {f.title : f \in case.findings}
<1>1. Evaluate(Context) \subseteq Rules
    BY DEF Evaluate
<1>2. /\ Context.claims = Claims
      /\ Context.officers = {r.who : r \in Officers(Visible)}
    BY DEF Context
<1>3. shown \subseteq {r.who : r \in Officers(Visible)}
    BY DEF Visible, Officers
<1>4. MissingDirectors(Context) \subseteq People /\ MissingDirectors(Context) \cap shown = {}
    BY <1>2, <1>3, ConstantsAssumption DEF MissingDirectors
<1>5. \A rule : missing(rule) \subseteq People /\ missing(rule) \cap shown = {}
    BY <1>4
<1>6. NewContradictions = {Finding(rule, run.entity, missing(rule)) : rule \in titles}
    BY DEF NewContradictions
<1> HIDE DEF missing, titles, shown
<1>7. ASSUME NEW rule \in titles
      PROVE  LET f == Finding(rule, run.entity, missing(rule)) IN
             /\ f \in Findings
             /\ f.title = rule /\ f.title \in Rules
             /\ f.missing \cap shown = {}
    <2>1. rule \in Rules /\ run.entity \in Subjects /\ missing(rule) \subseteq People
        BY <1>1, <1>5 DEF titles, Runs
    <2> QED
        BY <1>5, <2>1 DEF Finding, Findings
<1>8. \A rule \in titles : \A g \in case.findings : g.title # rule
    BY DEF titles
<1> QED
    BY <1>6, <1>7, <1>8 DEF shown

LEMMA ConcludeIInv == IInv /\ Conclude => IInv'
<1> SUFFICES ASSUME IInv, Conclude PROVE IInv'
    OBVIOUS
<1>1. /\ Sound(run) /\ run \in Runs
      /\ Accounted(run.contact, run.findings)
      /\ case \in Cases
    BY DEF Conclude, IInv, Due, Later, CaseTyped
<1> DEFINE added == NewContradictions
<1>2. /\ added \subseteq Findings
      /\ \A f, g \in added : f.title = g.title => f = g
      /\ \A f \in added : f.title \in Rules /\ \A g \in case.findings : g.title # f.title
    BY <1>1, ContradictionsAdded
<1> HIDE DEF added
<1>3. /\ case'.found = case.found /\ case'.resolved = case.resolved
      /\ case'.done = case.done \cup {run.entity}
      /\ case'.records = case.records \cup run.added
      /\ case'.contact = run.contact
      /\ case'.findings = case.findings \cup run.findings \cup added
      /\ case' \in Cases
    <2>1. case' = [case EXCEPT !.records = @ \cup run.added, !.contact = run.contact,
                               !.findings = @ \cup run.findings \cup added,
                               !.completeness = run.completeness, !.screening = run.screening,
                               !.hits = @ \cup run.hits, !.done = @ \cup {run.entity}]
        BY DEF Conclude, added
    <2>2. /\ run.added \in SUBSET Records /\ run.contact \in Contacts
          /\ run.findings \cup added \in SUBSET Findings
          /\ run.completeness \in Completenesses /\ run.screening \in Verdicts
          /\ run.hits \in SUBSET Subjects /\ run.entity \in Subjects
        BY <1>1, <1>2 DEF Runs
    <2> QED
        BY <1>1, <2>1, <2>2 DEF Cases
<1>4. CaseTyped'
    <2>1. leis' \subseteq Entities
        BY <1>1 DEF Conclude, IInv, CaseTyped, Sound, Runs, Subjects
    <2>2. UNCHANGED <<about, registered>>
        BY DEF Conclude, world
    <2> QED
        BY <1>1, <1>3, <2>1, <2>2 DEF CaseTyped, IInv, Sound
<1>5. (case'.contact = None => Contact = None) /\ VerifiedHasRecord'
    BY <1>1, <1>3 DEF Sound, Backed, VerifiedHasRecord
<1>6. ContactAccountedFor'
    BY <1>1, <1>3 DEF ContactAccountedFor, Accounted
<1>7. ContradictionsUnique'
    <2>1. \A f \in run.findings : f.title \notin Rules
        BY <1>1 DEF Sound, Rules
    <2>2. \A f, g \in case.findings : f.title = g.title /\ f.title \in Rules => f = g
        BY DEF IInv, ContradictionsUnique
    <2> QED
        BY <1>2, <1>3, <2>1, <2>2 DEF ContradictionsUnique
<1>8. run' \in Runs /\ run'.unflushed \subseteq run'.added /\ run'.at = "idle"
    BY DEF Conclude, NoRun, Runs, Stages, Subjects, Contacts, Completenesses, Verdicts
<1> QED
    BY <1>4, <1>5, <1>6, <1>7, <1>8 DEF IInv

-----------------------------------------------------------------------------
(* The other steps                                                         *)

LEMMA BeginIInv ==
    ASSUME IInv, NEW e \in Range(case.resolved) \cup {None}, Begin(e), UNCHANGED <<world, case, leis>>
    PROVE  IInv'
<1>1. case \in Cases /\ case.resolved \in Seq(Entities) /\ Range(case.resolved) \subseteq Entities
    BY DEF IInv, CaseTyped, Cases
<1>2. Counterparty \in Subjects /\ (e # None => Counterparty # None)
    <2>1. e # None => case.resolved # <<>>
        BY RangeEmpty
    <2>2. case.resolved # <<>> => Counterparty \in Entities
        BY <1>1, LastEntity DEF Counterparty
    <2> QED
        BY <2>1, <2>2, ConstantsAssumption DEF Counterparty, Subjects
<1>3. /\ run'.at = "screening" /\ run'.entity = e /\ run'.counterparty = Counterparty
      /\ run'.added = {} /\ run'.unflushed = {} /\ run'.findings = {} /\ run'.lei = FALSE
      /\ run'.contact = case.contact
    BY DEF Begin, NoRun
<1>4. run' \in Runs
    <2>1. /\ e \in Subjects /\ case.contact \in Contacts /\ case.screening \in Verdicts
          /\ case.completeness \in Completenesses
        BY <1>1 DEF Cases, Subjects
    <2> QED
        BY <1>2, <2>1 DEF Begin, NoRun, Runs, Stages
<1>5. Sound(run)'
    BY <1>2, <1>3, <1>4 DEF Sound, IInv, VerifiedHasRecord, Backed
<1>6. Due(run, run.at)'
    BY <1>3 DEF Due, Later
<1> QED
    BY <1>3, <1>4, <1>5, <1>6 DEF IInv, CaseTyped, world, VerifiedHasRecord, ContactAccountedFor,
                                  ContradictionsUnique

LEMMA ResolveIInv == ASSUME IInv, NEW e \in Entities, Resolve(e) PROVE IInv'
<1>1. case \in Cases
    BY DEF IInv, CaseTyped
<1>2. /\ case' \in Cases
      /\ case'.resolved = Append(case.resolved, e)
      /\ case'.found = case.found /\ case'.done = case.done /\ case'.records = case.records
      /\ case'.contact = case.contact /\ case'.findings = case.findings
    BY <1>1, AppendRange DEF Resolve, Cases
<1>3. Range(case'.resolved) = Range(case.resolved) \cup {e}
    BY <1>1, <1>2, AppendRange DEF Cases
<1>4. CaseTyped'
    BY <1>2, <1>3 DEF Resolve, world, IInv, CaseTyped
<1>5. (run.at # "idle" => Sound(run) /\ Due(run, run.at))'
    BY <1>2, <1>3 DEF Resolve, IInv, Sound, Backed, Due
<1> QED
    BY <1>2, <1>4, <1>5 DEF Resolve, IInv, VerifiedHasRecord, ContactAccountedFor,
                            ContradictionsUnique

LEMMA ReviewFindingIInv ==
    ASSUME IInv, NEW f \in case.findings, ReviewFinding(f)
    PROVE  IInv'
<1> DEFINE g == [f EXCEPT !.open = FALSE]
<1>1. case \in Cases /\ f \in Findings
    BY DEF IInv, CaseTyped, Cases
<1>2. g \in Findings /\ g.title = f.title
    BY <1>1 DEF Findings
<1>3. case' = [case EXCEPT !.findings = (@ \ {f}) \cup {g}]
    BY DEF ReviewFinding
<1> HIDE DEF g
<1>4. /\ case' \in Cases
      /\ case'.findings = (case.findings \ {f}) \cup {g}
      /\ case'.resolved = case.resolved
      /\ case'.found = case.found /\ case'.done = case.done /\ case'.records = case.records
      /\ case'.contact = case.contact
    BY <1>1, <1>2, <1>3 DEF Cases
<1>5. CaseTyped'
    BY <1>4 DEF ReviewFinding, world, IInv, CaseTyped
<1>6. (run.at # "idle" => Sound(run) /\ Due(run, run.at))'
    BY <1>4 DEF ReviewFinding, IInv, Sound, Backed, Due
<1>7. ContactAccountedFor' /\ ContradictionsUnique'
    BY <1>2, <1>4 DEF IInv, ContactAccountedFor, ContradictionsUnique
<1> QED
    BY <1>4, <1>5, <1>6, <1>7 DEF ReviewFinding, IInv, VerifiedHasRecord

LEMMA StepIInv == IInv /\ [Next]_vars => IInv'
<1> SUFFICES ASSUME IInv, [Next]_vars PROVE IInv'
    OBVIOUS
<1>1. ASSUME NEW e \in Entities, Resolve(e) PROVE IInv'
    BY <1>1, ResolveIInv
<1>2. ASSUME NEW e \in Entities, StartEnrichment(e) PROVE IInv'
    BY <1>2, BeginIInv DEF StartEnrichment
<1>3. CASE StartUnresolved
    BY <1>3, BeginIInv DEF StartUnresolved
<1>4. CASE Gather
    BY <1>4, ScreenIInv, CorroborateIInv, LookUpLeiIInv, SearchWebIInv, LookUpDomainIInv,
       SearchNewsIInv, SearchFilingsIInv, ReadProfileIInv, ReadOfficersIInv,
       ReadControllersIInv, ConcludeIInv DEF Gather
<1>5. ASSUME NEW e \in Entities, LeiElsewhere(e) PROVE IInv'
    BY <1>5 DEF LeiElsewhere, world, IInv, CaseTyped, Sound, Backed, Due, VerifiedHasRecord,
                ContactAccountedFor, ContradictionsUnique
<1>6. CASE RollBack
    <2>1. run' \in Runs /\ run'.unflushed \subseteq run'.added /\ run'.at = "idle"
        BY <1>6 DEF RollBack, NoRun, Runs, Stages, Subjects, Contacts, Completenesses, Verdicts
    <2> QED
        BY <1>6, <2>1 DEF RollBack, world, IInv, CaseTyped, VerifiedHasRecord,
                          ContactAccountedFor, ContradictionsUnique
<1>7. ASSUME NEW f \in case.findings, ReviewFinding(f) PROVE IInv'
    BY <1>7, ReviewFindingIInv
<1>8. CASE UNCHANGED vars
    BY <1>8 DEF vars, world, IInv, CaseTyped, Sound, Backed, Due, VerifiedHasRecord,
                ContactAccountedFor, ContradictionsUnique
<1> QED
    BY <1>1, <1>2, <1>3, <1>4, <1>5, <1>6, <1>7, <1>8 DEF Next

-----------------------------------------------------------------------------
(* Theorems                                                                *)

\* The inductive invariant holds in every reachable state.
THEOREM IInvHolds == Spec => []IInv
<1> QED
    BY InitIInv, StepIInv, PTL DEF Spec

\* The case, its counterparty's facts and the run hold values of their types.
THEOREM TypeCorrect == Spec => []TypeOK
<1>1. IInv => TypeOK
    BY DEF IInv, CaseTyped, TypeOK, Cases, Contacts, Findings, Runs
<1> QED
    BY <1>1, IInvHolds, PTL

\* Whatever the sources answer and in whatever combination they fail, a run
\* leaves the contact linked to the company or the subject of a finding
\* (_run_public_intelligence).
THEOREM ContactIsAccountedFor == Spec => []ContactAccountedFor
<1>1. IInv => ContactAccountedFor
    BY DEF IInv
<1> QED
    BY <1>1, IInvHolds, PTL

\* A VERIFIED contact has an officer record that names it
\* (_corroborate_contact, _run_companies_house_officers).
THEOREM VerificationIsBacked == Spec => []VerifiedHasRecord
<1>1. IInv => VerifiedHasRecord
    BY DEF IInv
<1> QED
    BY <1>1, IInvHolds, PTL

\* No number of runs and reviews puts a contradiction into a case twice
\* (run_contradiction_checks).
THEOREM ContradictionsOnce == Spec => []ContradictionsUnique
<1>1. IInv => ContradictionsUnique
    BY DEF IInv
<1> QED
    BY <1>1, IInvHolds, PTL

\* No run withdraws a verification (_run_public_intelligence).
THEOREM VerificationIsKept == Spec => VerificationStands
<1>1. IInv /\ [Next]_vars => [case.contact = "VERIFIED" => case'.contact = "VERIFIED"]_vars
    <2> SUFFICES ASSUME IInv, Next, case.contact = "VERIFIED" PROVE case'.contact = "VERIFIED"
        BY DEF vars
    <2>1. case \in Cases
        BY DEF IInv, CaseTyped
    <2>2. ASSUME NEW e \in Entities, Resolve(e) PROVE case'.contact = "VERIFIED"
        BY <2>1, <2>2 DEF Resolve, Cases
    <2>3. ASSUME NEW f \in case.findings, ReviewFinding(f) PROVE case'.contact = "VERIFIED"
        BY <2>1, <2>3 DEF ReviewFinding, Cases
    <2>4. CASE Conclude
        BY <2>1, <2>4 DEF Conclude, Cases, IInv, Sound
    <2>5. CASE UNCHANGED case
        BY <2>5
    <2> QED
        BY <2>2, <2>3, <2>4, <2>5
        DEF Next, Gather, StartEnrichment, StartUnresolved, LeiElsewhere, RollBack, Advance, Screen,
            CorroborateContact, LookUpLei, SearchWeb, LookUpDomain, SearchNews, SearchFilings,
            ReadProfile, ReadOfficers, ReadControllers
<1> QED
    BY <1>1, IInvHolds, PTL DEF Spec, VerificationStands

\* No run newly reports a director missing whom a stored officer record shows
\* (build_context).
THEOREM StoredOfficersAreRead == Spec => StoredOfficersCount
<1> DEFINE Shown == {r.who : r \in Officers(case.records)}
           Reported == \A f \in case'.findings \ case.findings : f.open => f.missing \cap Shown = {}
<1>1. IInv /\ [Next]_vars => [Reported]_vars
    <2> SUFFICES ASSUME IInv, Next PROVE Reported
        BY DEF vars
    <2>1. case \in Cases
        BY DEF IInv, CaseTyped
    <2>2. ASSUME NEW e \in Entities, Resolve(e) PROVE Reported
        BY <2>1, <2>2 DEF Resolve, Cases
    <2>3. ASSUME NEW f \in case.findings, ReviewFinding(f) PROVE Reported
        <3>1. case'.findings = (case.findings \ {f}) \cup {[f EXCEPT !.open = FALSE]}
            BY <2>1, <2>3 DEF ReviewFinding, Cases
        <3>2. f \in Findings
            BY <2>1 DEF Cases
        <3> QED
            BY <3>1, <3>2 DEF Findings
    <2>4. CASE Conclude
        <3>1. Sound(run) /\ run \in Runs
            BY <2>4 DEF Conclude, IInv
        <3>2. case'.findings = case.findings \cup run.findings \cup NewContradictions
            BY <2>1, <2>4 DEF Conclude, Cases
        <3>3. \A f \in run.findings : f.missing = {}
            BY <3>1 DEF Sound
        <3> QED
            BY <3>1, <3>2, <3>3, ContradictionsAdded
    <2>5. CASE UNCHANGED case
        BY <2>5
    <2> QED
        BY <2>2, <2>3, <2>4, <2>5
        DEF Next, Gather, StartEnrichment, StartUnresolved, LeiElsewhere, RollBack, Advance, Screen,
            CorroborateContact, LookUpLei, SearchWeb, LookUpDomain, SearchNews, SearchFilings,
            ReadProfile, ReadOfficers, ReadControllers
<1> QED
    BY <1>1, IInvHolds, PTL DEF Spec, StoredOfficersCount

=============================================================================
