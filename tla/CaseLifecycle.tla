--------------------------- MODULE CaseLifecycle ---------------------------
(***************************************************************************)
(* One investigation from intake to report: the request handlers of        *)
(* api/investigations.py, the services of services/investigations.py and   *)
(* the worker transactions that run them.                                  *)
(*                                                                         *)
(* The sessions are SQLAlchemy's on READ COMMITTED: a transaction loads    *)
(* the investigation row once, works on its copy, and its commit writes    *)
(* only the columns it changed from what it had loaded (Write).  Request   *)
(* and worker transactions interleave at their separate statements.  Jobs  *)
(* are those of DurableQueue, which JobQueue implements.                   *)
(*                                                                         *)
(* Of the evidence a run gathers only which sources failed is kept.        *)
(***************************************************************************)
EXTENDS Naturals, FiniteSets, SequencesExt

CONSTANTS
    Candidates,    \* legal entities the registry may return
    Incomplete,    \* those without a jurisdiction or registry identifier
    Analysts,      \* concurrent requests to resolve the entity
    Workers,
    None,
    MayFail,       \* bound: the sources whose outages are explored
    MaxAttempts,   \* job.max_attempts
    MaxCrashes,    \* bound: workers that die
    MaxTwins       \* bound: jobs started while their last run still goes on

ASSUME ConstantsAssumption ==
    /\ Incomplete \subseteq Candidates
    /\ None \notin Candidates \cup Analysts
    /\ None \notin {"discovery", "CONFIRMED", "AMBIGUOUS", "NOT_VERIFIED",
                    "COMPLETE_WITH_LIMITATIONS", "MATERIAL_SOURCE_UNAVAILABLE"}
    /\ "discovery" \notin Candidates \cup Analysts
    /\ MayFail \subseteq STRING
    /\ MaxAttempts \in Nat \ {0}
    /\ MaxCrashes \in Nat
    /\ MaxTwins \in Nat

VARIABLES
    inv,          \* the investigation row
    found,        \* entity_candidate rows
    chosen,       \* RESOLVE_IDENTITY audit events: the candidates selected
    outcome, tries,   \* the job table, as DurableQueue has it
    target,       \* payload.candidate_id of the enrichment job a request adds
    enriched,     \* "enrichment" audit events: the candidates completed
    worker,       \* what each worker executes, and the row it loaded
    analyst,      \* where each resolve request is, and what it has read
    reported,     \* legal entities of the FINALISE_REPORT events
    applied,      \* history: times the effects of each step were committed
    outage,       \* history: a material source's failure was committed
    crashes, twins

queue == <<outcome, tries>>
case == <<inv, found, chosen, target, enriched, reported, applied, outage>>
vars == <<case, queue, worker, analyst, crashes, twins>>

\* A discovery job, and the enrichment job each resolve request may add.
Jobs == {"discovery"} \cup Analysts

Queue == INSTANCE DurableQueue

NoCase == [intake |-> "NONE", state |-> "NOT_STARTED", identity |-> None,
           completeness |-> None, counterparty |-> None]

Rows == [intake : {"NONE", "SUFFICIENT_FOR_DISCOVERY", "CLARIFICATION_REQUIRED"},
         state : {"NOT_STARTED", "RUNNING", "PARTIAL_RESULTS", "SOURCE_UNAVAILABLE",
                  "COMPLETED", "FAILED"},
         identity : {None, "CONFIRMED", "AMBIGUOUS", "NOT_VERIFIED"},
         completeness : {None, "COMPLETE_WITH_LIMITATIONS", "MATERIAL_SOURCE_UNAVAILABLE"},
         counterparty : Candidates \cup {None}]

Idle == [at |-> "idle", job |-> None, row |-> NoCase, skip |-> FALSE]
Away == [at |-> "away", pick |-> None, row |-> NoCase, add |-> FALSE]

Steps == {"discovery"} \cup Candidates

-----------------------------------------------------------------------------
(* Sources                                                                 *)

\* The sources run_enrichment consults, in its order.
EnrichmentSources ==
    <<"screening", "registry_officers", "gleif", "web", "rdap", "gdelt", "sec",
      "companies_house", "ch_officers", "ch_psc">>
\* Those _run_unresolved_checks can consult: no legal entity is resolved.
UnresolvedSources == <<"screening", "web", "rdap", "gdelt">>

Material == {"corporate_registry", "screening", "registry_officers", "web", "rdap",
             "companies_house"}

\* completeness_state once a source has failed: a supplementary outage does
\* not hide a material one.  Mutant: it counts as no limitation.
AfterOutageComplete(completeness, source) ==
    IF source \in Material \/ completeness = "MATERIAL_SOURCE_UNAVAILABLE"
    THEN "MATERIAL_SOURCE_UNAVAILABLE" ELSE "COMPLETE"
AfterOutage(completeness, source) ==
    IF source \in Material \/ completeness = "MATERIAL_SOURCE_UNAVAILABLE"
    THEN "MATERIAL_SOURCE_UNAVAILABLE" ELSE "COMPLETE_WITH_LIMITATIONS"

\* completeness_state after the sources have been consulted in order.
Consult(order, failed, completeness) ==
    LET after[n \in 0..Len(order)] ==
            IF n = 0 THEN completeness
            ELSE IF order[n] \in failed THEN AfterOutage(after[n - 1], order[n])
            ELSE after[n - 1]
    IN after[Len(order)]

\* A commit: the columns that differ from the loaded row, and those flushed
\* with another value on the way.  Mutant: the whole row is written.
WriteAll(row, new, flushed) == new
Write(row, new, flushed) ==
    [col \in DOMAIN inv |->
        IF new[col] = row[col] /\ col \notin flushed THEN inv[col] ELSE new[col]]

-----------------------------------------------------------------------------
Init ==
    /\ inv = NoCase
    /\ found = {}
    /\ chosen = {}
    /\ Queue!Init
    /\ target = [a \in Analysts |-> None]
    /\ enriched = {}
    /\ worker = [w \in Workers |-> Idle]
    /\ analyst = [a \in Analysts |-> Away]
    /\ reported = {}
    /\ applied = [s \in Steps |-> 0]
    /\ outage = FALSE
    /\ crashes = 0
    /\ twins = 0

(* create_investigation: the intake gate is a hard stop.                   *)
Create ==
    /\ inv.intake = "NONE"
    /\ \/ /\ inv' = [inv EXCEPT !.intake = "SUFFICIENT_FOR_DISCOVERY"]
          /\ Queue!Submit("discovery")
       \/ /\ inv' = [inv EXCEPT !.intake = "CLARIFICATION_REQUIRED"]
          /\ UNCHANGED queue
    /\ UNCHANGED <<found, chosen, target, enriched, reported, applied, outage,
                   worker, analyst, crashes, twins>>

-----------------------------------------------------------------------------
(* The worker                                                              *)

Busy(j) == \E w \in Workers : worker[w].at = "run" /\ worker[w].job = j

\* run_enrichment has been completed for this candidate.  Mutant: not asked.
AlreadyDoneNever(j) == FALSE
AlreadyDone(j) == j \in Analysts /\ target[j] \in enriched

(* A worker claims a job, and the service loads the row.                   *)
Start(w, j) ==
    /\ worker[w].at = "idle"
    /\ Busy(j) => twins < MaxTwins
    /\ Queue!Try(j)
    /\ twins' = IF Busy(j) THEN twins + 1 ELSE twins
    /\ worker' = [worker EXCEPT ![w] =
                    [at |-> "run", job |-> j, row |-> inv, skip |-> AlreadyDone(j)]]
    /\ UNCHANGED <<case, analyst, crashes>>

\* The job's effects and its SUCCEEDED status commit together.
Succeeds(w) ==
    /\ outcome' = [outcome EXCEPT ![worker[w].job] = "done"]
    /\ worker' = [worker EXCEPT ![w] = Idle]
    /\ UNCHANGED <<tries, analyst, crashes, twins>>

\* A run of discovery concludes with the columns new.
Discovered(w, new, flushed, failed) ==
    /\ worker[w].at = "run"
    /\ worker[w].job = "discovery"
    /\ inv' = Write(worker[w].row, new, flushed)
    /\ applied' = [applied EXCEPT !["discovery"] = @ + 1]
    /\ outage' = (outage \/ failed \cap Material # {})
    /\ Succeeds(w)
    /\ UNCHANGED <<chosen, target, enriched, reported>>

\* The registry returned candidates: never confirmed, however few.
DiscoverCandidates(w, S) ==
    /\ Discovered(w, [worker[w].row EXCEPT !.identity = "AMBIGUOUS",
                                           !.completeness = "COMPLETE_WITH_LIMITATIONS",
                                           !.state = "PARTIAL_RESULTS"], {"state"}, {})
    /\ S # {}
    /\ found' = found \cup S

\* No candidate, or no registry covers the jurisdiction: the checks that need
\* no legal entity still run.
DiscoverNone(w, failed) ==
    /\ failed \subseteq ToSet(UnresolvedSources)
    /\ Discovered(w, [worker[w].row EXCEPT
                        !.identity = "NOT_VERIFIED",
                        !.completeness =
                            Consult(UnresolvedSources, failed, "COMPLETE_WITH_LIMITATIONS"),
                        !.state = "COMPLETED"], {"state"}, failed)
    /\ UNCHANGED found

\* The demo dataset does not have the company.
DiscoverUnsupported(w) ==
    /\ Discovered(w, [worker[w].row EXCEPT !.identity = None,
                                           !.completeness = "COMPLETE_WITH_LIMITATIONS",
                                           !.state = "SOURCE_UNAVAILABLE"], {}, {})
    /\ UNCHANGED found

\* The registry cannot be reached or its answer is malformed.
DiscoverUnavailable(w) ==
    /\ Discovered(w, [worker[w].row EXCEPT !.identity = "NOT_VERIFIED",
                                           !.completeness = "MATERIAL_SOURCE_UNAVAILABLE",
                                           !.state = "SOURCE_UNAVAILABLE"],
                  {}, {"corporate_registry"})
    /\ UNCHANGED found

\* run_enrichment of the job's candidate; RUNNING is flushed on the way.
Enrich(w, failed) ==
    LET row == worker[w].row
        c == target[worker[w].job]
    IN
    /\ worker[w].at = "run"
    /\ worker[w].job \in Analysts
    /\ ~worker[w].skip
    /\ row.identity = "CONFIRMED"
    /\ failed \subseteq ToSet(EnrichmentSources)
    /\ "companies_house" \in failed => "ch_officers" \notin failed
    /\ inv' = Write(row, [row EXCEPT
                            !.completeness = Consult(EnrichmentSources, failed, @),
                            !.state = "COMPLETED"], {"state"})
    /\ enriched' = enriched \cup {c}
    /\ applied' = [applied EXCEPT ![c] = @ + 1]
    /\ outage' = (outage \/ failed \cap Material # {})
    /\ Succeeds(w)
    /\ UNCHANGED <<found, chosen, target, reported>>

\* run_enrichment returns early: the candidate has been enriched.
EnrichAgain(w) ==
    /\ worker[w].at = "run"
    /\ worker[w].skip
    /\ worker[w].row.identity = "CONFIRMED"
    /\ Succeeds(w)
    /\ UNCHANGED case

\* This failure of the job is the last.  Mutant: one attempt too early.
LastTryEarly(j) == tries[j] + 1 >= MaxAttempts
LastTry(j) == tries[j] >= MaxAttempts

(* Anything raised rolls the run back; the job goes back to PENDING or, on *)
(* its last attempt, to FAILED.                                            *)
Fail(w) ==
    LET j == worker[w].job
        last == LastTry(j)
    IN
    /\ worker[w].at = "run"
    /\ outcome' = [outcome EXCEPT ![j] = IF last THEN "failed" ELSE "open"]
    /\ worker' = [worker EXCEPT ![w] = IF last THEN [Idle EXCEPT !.at = "mark", !.job = j]
                                       ELSE Idle]
    /\ UNCHANGED <<case, tries, analyst, crashes, twins>>

(* _mark_investigation_failed: only the lifecycle state moves.  Mutant: the*)
(* failure is only logged.                                                 *)
MarkFailedLogOnly(w) ==
    /\ worker[w].at = "mark"
    /\ worker' = [worker EXCEPT ![w] = Idle]
    /\ UNCHANGED <<case, queue, analyst, crashes, twins>>

MarkFailed(w) ==
    /\ worker[w].at = "mark"
    /\ inv' = [inv EXCEPT !.state = "FAILED"]
    /\ worker' = [worker EXCEPT ![w] = Idle]
    /\ UNCHANGED <<found, chosen, target, enriched, reported, applied, outage, queue,
                   analyst, crashes, twins>>

(* The worker dies; its transaction is rolled back and, once its lease has *)
(* run out, the job can be started again.                                  *)
Crash(w) ==
    /\ worker[w].at # "idle"
    /\ crashes < MaxCrashes
    /\ crashes' = crashes + 1
    /\ worker' = [worker EXCEPT ![w] = Idle]
    /\ UNCHANGED <<case, queue, analyst, twins>>

-----------------------------------------------------------------------------
(* Requests                                                                *)

\* The guard of the resolve endpoint.  Mutant: not asked.
ResolvableAlways == TRUE
Resolvable == inv.identity # "CONFIRMED"

(* The resolve endpoint has loaded the row and the candidate.              *)
Open(a, c) ==
    /\ analyst[a].at = "away"
    /\ c \in found
    /\ Resolvable
    /\ analyst' = [analyst EXCEPT ![a] = [at |-> "opened", pick |-> c, row |-> inv, add |-> FALSE]]
    /\ UNCHANGED <<case, queue, worker, crashes, twins>>

\* No enrichment job exists yet.  Mutant: the job type is not compared.
NoJobOfAnyType == \A j \in Jobs : outcome[j] = "absent"
NoEnrichmentJob == \A b \in Analysts : outcome[b] = "absent"

(* resolve_entity, up to its look for an enrichment job.  Mutant: an       *)
(* authoritative identifier is not asked for.                              *)
LookForJobUnchecked(a) ==
    /\ analyst[a].at = "opened"
    /\ analyst' = [analyst EXCEPT ![a].at = "ready", ![a].add = NoEnrichmentJob]
    /\ UNCHANGED <<case, queue, worker, crashes, twins>>

LookForJob(a) ==
    /\ analyst[a].at = "opened"
    /\ analyst[a].pick \notin Incomplete
    /\ analyst' = [analyst EXCEPT ![a].at = "ready", ![a].add = NoEnrichmentJob]
    /\ UNCHANGED <<case, queue, worker, crashes, twins>>

(* The commit of the resolve endpoint.                                     *)
Resolve(a) ==
    LET row == analyst[a].row
        c == analyst[a].pick
    IN
    /\ analyst[a].at = "ready"
    /\ inv' = Write(row, [row EXCEPT !.identity = "CONFIRMED",
                                     !.counterparty = c,
                                     !.completeness = "COMPLETE_WITH_LIMITATIONS",
                                     !.state = "PARTIAL_RESULTS"], {})
    /\ chosen' = chosen \cup {c}
    /\ \/ /\ analyst[a].add
          /\ Queue!Submit(a)
          /\ target' = [target EXCEPT ![a] = c]
       \/ ~analyst[a].add /\ UNCHANGED <<queue, target>>
    /\ analyst' = [analyst EXCEPT ![a] = Away]
    /\ UNCHANGED <<found, enriched, reported, applied, outage, worker, crashes, twins>>

(* The request ends with an error: no authoritative identifier, a          *)
(* database error, a client that went away.  Its transaction rolls back.   *)
Refuse(a) ==
    /\ analyst[a].at # "away"
    /\ analyst' = [analyst EXCEPT ![a] = Away]
    /\ UNCHANGED <<case, queue, worker, crashes, twins>>

(* A manager finalises a report on the entity resolved.                    *)
Report ==
    /\ inv.identity = "CONFIRMED"
    /\ reported' = reported \cup {inv.counterparty}
    /\ UNCHANGED <<inv, found, chosen, target, enriched, applied, outage, queue,
                   worker, analyst, crashes, twins>>

-----------------------------------------------------------------------------
Discover(w) ==
    \/ \E S \in SUBSET Candidates : DiscoverCandidates(w, S)
    \/ \E failed \in SUBSET MayFail : DiscoverNone(w, failed)
    \/ DiscoverUnsupported(w)
    \/ DiscoverUnavailable(w)

Work(w) ==
    \/ \E j \in Jobs : Start(w, j)
    \/ Discover(w)
    \/ \E failed \in SUBSET MayFail : Enrich(w, failed)
    \/ EnrichAgain(w)
    \/ Fail(w)
    \/ MarkFailed(w)

Request(a) ==
    \/ \E c \in Candidates : Open(a, c)
    \/ LookForJob(a)
    \/ Resolve(a)
    \/ Refuse(a)

Next ==
    \/ Create
    \/ \E w \in Workers : Work(w) \/ Crash(w)
    \/ \E a \in Analysts : Request(a)
    \/ Report

Spec == Init /\ [][Next]_vars

\* The workers' loops go on; nobody has to send a request.
FairSpec == Spec /\ \A w \in Workers : WF_vars(Work(w))

-----------------------------------------------------------------------------
(* Properties                                                              *)

TypeOK ==
    /\ inv \in Rows
    /\ found \subseteq Candidates
    /\ chosen \subseteq found
    /\ outcome \in [Jobs -> {"absent", "open", "done", "failed"}]
    /\ tries \in [Jobs -> Nat]
    /\ target \in [Analysts -> Candidates \cup {None}]
    /\ \A a \in Analysts : target[a] = None <=> outcome[a] = "absent"
    /\ enriched \subseteq chosen
    /\ worker \in [Workers -> [at : {"idle", "run", "mark"}, job : Jobs \cup {None},
                               row : Rows, skip : BOOLEAN]]
    /\ \A w \in Workers : worker[w].at = "idle" <=> worker[w].job = None
    /\ analyst \in [Analysts -> [at : {"away", "opened", "ready"},
                                 pick : Candidates \cup {None}, row : Rows, add : BOOLEAN]]
    /\ \A a \in Analysts : analyst[a].at = "away" <=> analyst[a].pick = None
    /\ reported \subseteq chosen
    /\ applied \in [Steps -> Nat]
    /\ outage \in BOOLEAN
    /\ crashes \in 0..MaxCrashes
    /\ twins \in 0..MaxTwins

\* An investigation names a legal entity exactly when its identity is
\* CONFIRMED, and only one that an analyst selected from the candidates
\* retained for it: nothing else, and no late commit of a row loaded earlier,
\* confirms an identity or leaves half of a resolution behind.
IdentityGrounded ==
    /\ inv.identity = "CONFIRMED" <=> inv.counterparty # None
    /\ inv.counterparty # None => inv.counterparty \in chosen \ Incomplete

\* A material source that was down stays visible on the case, whatever
\* sources fail or answer after it and whoever resolves the entity meanwhile;
\* and nothing but a material outage is shown as one.
MaterialOutageShown ==
    inv.completeness = "MATERIAL_SOURCE_UNAVAILABLE" <=> outage

\* The effects of each step are committed at most once, however often its
\* job is retried or enqueued.
StepsAppliedOnce == \A s \in Steps : applied[s] <= 1

\* A resolved case has its enrichment coming: while it shows PARTIAL_RESULTS
\* an enrichment of its entity is queued, running, or being marked failed.
ResolutionWorkedOn ==
    inv.identity = "CONFIRMED" /\ inv.state = "PARTIAL_RESULTS" =>
        \E a \in Analysts :
            /\ target[a] = inv.counterparty
            /\ \/ outcome[a] = "open"
               \/ \E w \in Workers : worker[w].at = "mark" /\ worker[w].job = a

\* What the case was enriched for and every report finalised on it are about
\* the entity it names now: no work was done for another one.
ReportsStand == enriched \cup reported \subseteq {inv.counterparty}

\* Exactly one legal entity is resolved in one case.
OneEntityResolved == Cardinality(chosen) <= 1

\* While a job of the case is executed the case shows RUNNING.
RunningIsShown == (\E j \in Jobs : Busy(j)) => inv.state = "RUNNING"

IdentityKept ==
    inv.identity = "CONFIRMED" =>
        inv'.identity = "CONFIRMED" /\ inv'.counterparty = inv.counterparty

\* A confirmed identity is never taken back or exchanged.
IdentityStands == [][IdentityKept]_vars

\* The jobs of a case are jobs as DurableQueue has them: effects are committed
\* by jobs still open, and given up only after MaxAttempts tries.
KeepsQueue == Queue!Safety

\* The phase of the case that the columns show.
Phase ==
    CASE inv.intake = "NONE" -> "absent"
      [] inv.intake = "CLARIFICATION_REQUIRED" -> "blocked"
      [] inv.state = "FAILED" -> "failed"
      [] inv.state = "SOURCE_UNAVAILABLE" -> "unavailable"
      [] inv.state = "COMPLETED" ->
            IF inv.identity = "CONFIRMED" THEN "completed" ELSE "unverified"
      [] inv.state = "PARTIAL_RESULTS" ->
            IF inv.identity = "CONFIRMED" THEN "enriching" ELSE "choosing"
      [] OTHER -> "searching"

File == INSTANCE CaseFile WITH phase <- Phase, subject <- inv.counterparty

\* Every step of the program is a step of CaseFile or does not show, and what
\* CaseFile has to do for the analyst gets done.
FileConcludes == File!Spec

=============================================================================
