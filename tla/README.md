# Arie Sentinel in TLA+

Sentinel investigates trading counterparties. An analyst enters the label of a
company and of a contact; a background worker looks the company up in free
registries; the analyst chooses the legal entity; the worker screens it against
cached official sanctions feeds and gathers public intelligence; the analyst
reviews the hits and a manager finalises a report. The program is a FastAPI
service, one or more worker processes, a PostgreSQL database through which all
of them communicate, and a React client.

This directory holds TLA+ modules of the parts of that program that are hard to
test, TLC configurations that model-check them on small instances, and proofs
checked by TLAPS. `PROJECT.json` maps every definition to the source lines it
stands for, and lists runs, mutants, hazards, findings and theorems.

## 1. The system

Paths are relative to `src/apps/api/src/arie_sentinel/` unless they say otherwise.

| Component | State | Operations | Talks to | Hard about it | Correct when |
|---|---|---|---|---|---|
| Job queue, `jobs/worker.py`, `models/ops.py` | `job` rows (status, attempts, lock); each worker's session | enqueue, reclaim stale, claim, run, record success or failure, mark the investigation | every service through `_dispatch`; requests enqueue | many workers, leases, deaths, retries, rows remembered by a session | a job runs in one worker, its effects commit once, its outcome is final, it is given up only after `max_attempts`, a failure shows |
| Investigation lifecycle, `services/investigations.py`, `api/investigations.py` | `investigation` row, candidates, audit events | create, discover, resolve, enrich, report | queue, providers, counterparties | requests and worker transactions overlap; ten sources fail independently | the identity is one an analyst chose, stands once chosen, outages stay visible, each step applies once |
| Sanctions cache, `services/sanctions_cache.py`, `jobs/refresh_sanctions.py` | `sanctions_record`, `sanctions_feed_state` | refresh (worker, cron), coverage report, load matcher | feeds over HTTP; screening | overlapping refreshes, partial failures, two reads | no required feed is emptied, a clearance rests on fresh records |
| Reviews, `api/reviews.py` | `screening_result`, `finding`, `analyst_decision`, the case's screening state | review screening, review finding | lifecycle row; worklist and board read it | concurrent reviews; a derived column kept by hand | a confirmation comes from an analyst and shows |
| Worklist and board, `api/worklist.py`, `services/board.py` | none (views) | list, build | all rows | views over other rows decide the same question | what is outstanding is listed; a row cites what it rests on; board and graph agree |
| Intake gate, `intake/gate.py` | none | `assess_intake` | create, import | overlapping word lists, order of the tests | a label is searched for exactly when a word of it can identify a company |
| Counterparty and bulk import, `services/bulk_import.py`, `get_or_create_counterparty` | `counterparty`, `import_batch` | import, deduplicate | create, resolve | concurrent imports, a unique key, savepoints, a lost transaction | one counterparty per identity, one batch per file, every row accounted for |
| Contradictions, `services/contradictions.py` | `finding` rows | seven rules, insertion keyed by title | enrichment | repeated runs, rows added but not flushed | each contradiction is found once, none by missing data |
| Providers, `providers/*` | none | search, look up, screen, parse | the internet | outages, malformed answers | an outage is never reported as absence |
| Report, graph, `services/reports.py`, `services/graph.py` | none | render | all rows | conclusions drawn from several sources of unequal weight | only on a confirmed entity; strong only if backed |
| Authentication, configuration, schemas, health | none | per request | handlers | — | — |
| Web client, `src/apps/web/src` | the query cache | poll, mutate, invalidate | the API | answers overtake each other; cached views after a mutation | a settled page shows what the server has, and follows a run to its end |

All processes share PostgreSQL at its default isolation, READ COMMITTED, through
sessions with `autoflush=False, expire_on_commit=False` (`db.py`). Three facts of
that follow through every module:

* a statement sees what has committed when it starts, so two statements of one
  transaction may see different states;
* a session loads a row once and writes at commit (or at an explicit flush) only
  the columns whose value differs from what it loaded;
* an error rolls the whole transaction back.

So the atomic steps of the modules are committed transactions, and, wherever the
code reads in one statement and acts on what it read in a later one, a step for
each.

## 2. The modules

| Module | Models | Reads as |
|---|---|---|
| `DurableQueue` | what the queue promises a caller | abstract specification |
| `JobQueue` | the job table and the workers that poll it | implements `DurableQueue` |
| `JobQueueProofs` | theorems about `JobQueue` | |
| `CaseFile` | a case as people see it: open, search, choose, enrich | abstract specification |
| `CaseLifecycle` | requests and worker transactions on one case | composes `DurableQueue`, implements `CaseFile` |
| `SanctionsCache` | refreshes and screening against the cache | |
| `ScreeningReview` | hits, findings and their reviews | |
| `Contradictions` | the seven rules, as predicates of a context | operators |
| `EvidenceGathering` | the inside of an enrichment, source by source | uses `Contradictions` |
| `CaseReport` | board, graph and report headline | operators over `EvidenceGathering`'s state |
| `IntakeGate` | what the gate makes of a label | operators |
| `Intake` | imports, single cases, counterparties | uses `IntakeGate` |
| `CaseView` | the case page and its query cache | composed with `ScreeningReview`, its server |
| `CaseLifecycleProofs`, `SanctionsCacheProofs`, `ScreeningReviewProofs`, `EvidenceGatheringProofs`, `CaseReportProofs`, `IntakeProofs`, `CaseViewProofs` | theorems about those modules | |
| `MCJobQueue`, `MCCaseLifecycle`, `MCSanctionsCache`, `MCScreeningReview`, `MCCaseReport`, `MCIntake`, `MCCaseView` | small instances for TLC | |

**JobQueue.** `status`, `attempts`, `lockedBy` are the columns of `job`;
`locked_at` is the flag `lapsed`, set by `Lapse` when the lease has run out.
Per worker there is the place in `run_pending_jobs` (`pc`), the ids
`reclaim_stale_jobs` has read (`stale`), the loop's job (`cur`), and the part of
the session's identity map that matters: the attempts of rows it holds (`held`),
the row the exception handler loaded (`loaded`) and the one the local variable
`reloaded` keeps alive. `Claim` increments what the session knows, because
`SELECT ... FOR UPDATE` does not refresh a row already in the identity map.
`StartCycle` and `Reclaim` are the two statements of `reclaim_stale_jobs`;
`Raise`, `RecordFailure` and `MarkFailed` the three transactions of a failure.
What a job does is left out: `_dispatch` either commits with the status or raises.
The history `contested` holds the jobs a worker set out to reclaim from another
that was still in them, or was reclaiming them too: nothing in the code guards
those (`MCJobQueue_rerun.cfg`), and the properties of a single job are about the
others. A job whose worker died is not contested when one worker reclaims it.

**CaseLifecycle.** `inv` is the investigation row (intake, state, identity,
completeness, counterparty). A job carries the row it loaded (`worker[w].row`),
and its conclusion, one action per outcome of `run_discovery` and
`run_enrichment`, commits through `Write`, which writes changed columns only. A
resolve request is `Open` (row and candidate loaded, 409 checked), `LookForJob`
(is there an enrichment job?) and `Resolve` (the commit), with `Refuse` for every
way it can end in an error. The job table is that of `DurableQueue`, whose
safety `JobQueue` provides as long as no job is contested; `MaxTwins` adds runs that outlive their lease. Of the evidence a run
gathers only which sources were down is kept, since that is what
`completeness_state` is computed from.

**SanctionsCache.** A feed's records are the set of refreshes that stored them
and whether they match the subject. `Download`, `Replace` and `CommitRefresh` are
the reads, the DELETEs and the commit of `refresh_feeds`, for the worker (when
due) and the cron job (always). The code goes feed by feed, a download and a
DELETE each, in one transaction; in the model all downloads come before all
DELETEs. What commits is the same, and for any one feed so is what its DELETE
may see; how the DELETEs of two feeds interleave with another refresh makes no
difference, because each property is about one feed or about states already
committed. Two histories say what overlapped: `overlaps`, the pairs of refreshes
that had both deleted before either committed, and `torn`, the workers between
whose two reads a refresh committed. `LoadRecords` and `Screen` are the two
reads of `load_sanctions_matcher` and the verdict of `_run_screening`. `Publish`
and `Age` are the world: the subject may be listed, a success may grow old.

**ScreeningReview.** A review is `Open` (result loaded), `Compare` (the other
results' states), `LoadCase` and `Commit`, which writes changed columns only. The
history `crossed` says that some review committed while another had read what it
changed.
`Screen` commits the hits and the case's state; `NeedsAction` and `Outstanding`
are the worklist's and the board's reading of the tables.

**EvidenceGathering.** `case` is what a case has committed: its candidates and
resolutions, its evidence (a *record* is a source and what was taken from it: its
kind, the person it names, the entity it was read for), the state of its contact,
its findings, completeness and screening. `run` is the transaction of an
enrichment under way, `run.at` the source it comes to next, in the order of
`run_enrichment`: screening, the registry's officers, GLEIF, web search, RDAP,
news, SEC, and the Companies House profile, officers and controllers. `about` is
the world: what each source holds of each entity; the registry adapter and
Companies House each have officers of their own, and need not agree. An action is one source's
answer or outage with everything `investigations.py` makes of it, `Conclude` is
the contradiction check and the commit, `RollBack` a failure that is retried.
Two facts of the code carry the module. The session has `autoflush=False`, so the
evidence row added last (`unflushed`) is invisible to the query of
`build_context`. And the contact is concluded on (`ConcludeContact`, within
`LookUpDomain`) before the Companies House officers are read. `CaseLifecycle`
keeps of all this only the outcome; here nothing of its concurrency is kept:
runs of one case follow each other, as with one worker.

**Contradictions.** Each rule of the engine is a predicate of a
`ContradictionContext`. Dates are years and names atoms, jurisdictions sequences,
so that "one contains the other" is a prefix. `EvidenceGathering!Context` is
`build_context`, `NewContradictions` the insertion keyed by title.

**CaseReport.** `Board`, `Graph` and `Corroboration` are `build_board`,
`build_graph` and `report_headline`: no state, each a function of the rows, a row
or edge being its state and the records it cites. `Directors` are the people whose
position reads as a director's, which decides between `DIRECTOR_OF` and `OFFICER_OF`. Because they read different
rows (the last resolution or the first, the contact's state or officers by name),
what they say can differ, and that is what the properties compare.

**Intake.** A call of `import_rows`, of `POST /investigations` or of
`resolve-entity` is one transaction. An import is `Begin` (fingerprint looked up,
batch inserted), `ImportRow` (one row in its savepoint), `CommitImport`; its rows
are in `import[i].rows`, out of others' sight, until it commits. A resolution is
`Ask`, `LookUp`, `Insert`, `CommitResolution`; the unique index on
`counterparty.identity_key` makes `Insert` wait for an open transaction that has
inserted the same key (`Held`) and fail when that one commits. A candidate's
jurisdiction and number are spellings (letters, lower case or not, blanks around
them or not), and `Key` strips and lowers both, as `identity_key` does; the colon
between them is a pair here. `LoseImport` and
`LoseResolution` are a lost connection or process: everything uncommitted goes.
`IntakeGate` knows words by the list they are on, and texts that are placeholders
as a whole.

**CaseView.** The page has, of each query, its data and the fetch under way
(`flight`): asked, failed, or the answer on its way, taken from the server's
tables when it was served. `Receive` of a state the page had not seen makes its
effect invalidate the derived queries; `Refetch` is what the query library
(external) does then: it drops a fetch under way for a new one, but only for a
query that has data. `Poll` is `refetchInterval`, `Switch` the tabs, and `Submit`,
`Handle`, `Reply` and `LoseReply` the page's own review: its request runs through
the actions of `ScreeningReview` while the page waits. The server's other steps
go on meanwhile.

## 3. What the runs check

Passing runs, with distinct states:

| Run | Instance | States | Shows |
|---|---|---|---|
| `queue__one_worker` | 1 worker, 2 jobs, 2 attempts, 2 deaths, 2 overruns, fair | 7432 | nothing is given up early, a death costs one run, every job ends; implements `DurableQueue` |
| `queue__workers` | 2 workers, 2 jobs, 2 attempts, 1 death, 1 overrun | 207541 | of jobs not contested: one worker in each, effects commit once, outcomes are final; of all: no failure is missing from its investigation but those a death took |
| `case__concludes` | 1 request, 2 workers, 3 candidates, 3 attempts, no deaths, fair | 971 | the whole life of a case implements `CaseFile`, and concludes; a resolved case has its enrichment coming; reports stand |
| `case__analysts` | 2 concurrent requests, 1 worker, 3 candidates, 2 attempts, 2 deaths | 109637 | the identity is one chosen, outages stay visible, each candidate is enriched once; jobs used as `DurableQueue` allows |
| `cache__coverage` | 2 required feeds, 2 refreshes, worker and cron | 328058 | two downloads of a feed only of refreshes that overlapped; a fresh feed has records, none is emptied; a clearance is grounded unless a refresh commits between its reads |
| `evidence__enrichment` | 2 candidates, 2 resolutions, 2 people, 3 kinds of company, outages of 3 sources, 1 review | 1845740 | what a case says of its contact, its contradictions and its strength rests on records it holds; board and graph agree on the contact |
| `intake__imports` | 2 imports of 1 file, 3 contents, 1 single case, 2 resolutions, 4 candidates, 1 loss, fair | 518300 | rows accounted for, results true, one batch unless raced, one counterparty per entity however it is spelled, every call ends |
| `review__page` | 2 results, 1 finding, 2 analysts, 3 reviews (1 of the page), 1 failed fetch or reply, fair | 1232284 | the case shows the worst unless reviews crossed; every hit's state and every confirmation is an analyst's; the page lists the hits of a completed case and its own reviews, and follows the run |

Why the bounds suffice. Two workers are the fewest that can interfere, and the
interference the code is exposed to is pairwise (two read one stale job, two run
one job). Two jobs let a cycle claim a second job while the session remembers the
first. One death and one overrun are what it takes for two workers to reclaim the same
job or one to take it from the other, and after either a second job must be left
alone. Two and three attempts cover "not yet last" and "last", and one in
between. Two candidates can be chosen against each other; the third has no
registry identifier. The outages explored are one material source consulted
before a supplementary one, one after it, and the registry: `AfterOutage` looks
only at the class of a source and at the state so far. Two required feeds
distinguish one fresh feed from all, and are interchangeable, so the run uses
their symmetry; an optional feed is beyond the time a run may take with two
processes, and only the theorems cover one. Two refreshes allow a success and a
later failure, and the overlap of the worker's with the cron's. Two candidates and
two resolutions are the fewest with which the first resolution differs from the
last, and let a second run find the records of the first; the kinds of company
set off every rule that registers can decide, lead to Companies House and to SEC,
and let a report be Strong; the outages explored are one before the contact is
concluded on, and two after it. Two imports race pairwise, and a third could only
repeat what the second found; the file's contents hold two equal rows, a row the
database refuses, one without a contact, and one row for each reason the gate
stops a label. Of the four candidates two are one entity, which the registers
spell differently, one is another, and one has no number. Two results let a review
leave another that differs; two analysts and three reviews let two reviews of one
result, or of two, cross and a third follow them.

`case__concludes` has no deaths because a worker that dies after it has committed
FAILED and before it has marked the investigation leaves the case where it is
(`MCJobQueue_crash_surface.cfg`); it has one request because two may resolve two
entities. `case__analysts` has one worker because two enrich one candidate twice.
`evidence__enrichment` explores the outages of three of the
sources: the code treats the others with the same two operators, `Material`
and `Supplementary`. `review__page` has no board query, because a review leaves
the board stale (`MCCaseView_board.cfg`).

Some properties make an exception, each kept in a history variable: contested
jobs, refreshes that overlapped, reads that a commit tore, reviews that crossed,
imports of one file that raced. Without its exception each
property is false, on the configurations below (`MCJobQueue_rerun`,
`MCSanctionsCache_replace`, `MCSanctionsCache_clearance`,
`MCScreeningReview_confirmed`, `MCIntake_same_file`), and the runs above contain
the interference that it excuses together with the jobs, feeds, screenings and
cases it must not reach.

`CHECK_DEADLOCK FALSE` appears where
the system may rest: a case nobody opens, a queue with nothing in it, the calls
made, the reviews used up, a page whose first fetch failed.

Deeper instances are kept beside the runs and pass: `MCSanctionsCache_cron.cfg`
(the four properties of `cache__coverage` with one feed and three refreshes,
192168 states) and `MCScreeningReview_analyst.cfg` (three results, two analysts and
three reviews, without the page, 3193911 states).

Violations, each of one sentence of the documentation, with a finding in
`PROJECT.json`:

| Run | What happens |
|---|---|
| `case__two_analysts` | two requests pass the 409 check; two entities are resolved |
| `cache__clearance` | a refresh between the two reads vouches for records that were not screened |
| `evidence__denials` | one enrichment leaves a contact VERIFIED by an officer record beside an open finding that nothing corroborates it, and reports missing the director whose record was flushed last |
| `review__coverage` | dismissing a hit clears a case whose coverage was incomplete |

Further instances on which TLC finds a violation are kept beside the runs; each
is one command, `tlc -config X.cfg M`:

| Configuration | Property | What happens | The sentence |
|---|---|---|---|
| `MCJobQueue_rerun` | `EffectsOnce` | two workers read the same stale job; the later UPDATE takes back a SUCCEEDED one, whose effects may then be committed again | "Safe to run as multiple concurrent processes." (`jobs/worker.py:218`) |
| `MCJobQueue_crash_attempts` | `RunsBounded` | a reclaimed job is not held to `max_attempts` | "failures retry up to max_attempts" (`jobs/worker.py:10`) |
| `MCJobQueue_shared_attempts` | `RunsBounded` | two workers that fail one job in turn count from remembered rows | the same |
| `MCJobQueue_crash_surface` | `EveryFailureSurfaced` | a death between FAILED and `_mark_investigation_failed` | "must not leave the investigation stuck" (`jobs/worker.py:144`) |
| `MCCaseLifecycle_same_entity` | `StepsAppliedOnce` | two enrichment jobs for one candidate, in two workers, both commit | "idempotent post-resolution enrichment" (`services/investigations.py:488`) |
| `MCCaseLifecycle_overrun` | `IdentityStands` | a discovery that outlives its lease takes CONFIRMED back to AMBIGUOUS | "Entity is already resolved." (`api/investigations.py:233`) |
| `MCCaseLifecycle_running` | `RunningIsShown` | RUNNING is never committed | "Jobs in progress." (`src/docs/SCREEN-STATES.md:35`) |
| `MCSanctionsCache_replace` | `OneDownload` | overlapping refreshes leave the records of both | "atomically replaces that feed's cached records" (`services/sanctions_cache.py:4`) |
| `MCScreeningReview_confirmed` | `ConfirmedShows` | a concurrent review hides a confirmation | "Match confirmed by an analyst." (`src/docs/SCREEN-STATES.md:103`) |
| `MCScreeningReview_worklist` | `WorklistShowsOutstanding` | open findings and potential matches are not on the worklist | `src/docs/ACCEPTANCE-CRITERIA.md:148` |
| `MCCaseReport_citations` | `RowsCiteSources` | the directors' row is CORROBORATED by Companies House officers and cites only the registry adapter's | "Every row is derived from stored records and carries the source ids behind it." (`services/board.py:5`) |
| `MCCaseReport_edges` | `EdgesCiteSources` | a contact verified by an officer record without a title has an edge without a source | "Evidence-backed relations (VERIFIED/CORROBORATED) carry the officer source ids" (`services/graph.py:149`) |
| `MCCaseReport_lei` | `LeiRowMatchesGraph` | an LEI stored by another case is CONFIRMED on the board and REPORTED in the graph | none: the two views disagree |
| `MCCaseReport_hits` | `HitsVisible` | the screening of a second entity overwrites the verdict of the first, whose hit nobody reviewed | none |
| `MCIntake_same_file` | `OneBatchPerFile` | two imports of one file at the same time both find no batch of it | "it does not create a second batch/investigation set" (`services/bulk_import.py:11`, and `src/docs/ACCEPTANCE-CRITERIA.md:142`) |
| `MCCaseView_overtaken` | `CompletedShowsHits` | the list's first answer, asked for before the run committed, lands after the case was seen completed and stays | "when the worker advances it, refetch the derived views so completed evidence, board rows, graph, findings and screening appear without a manual refresh" (`src/apps/web/src/routes/Investigation.tsx:69`) |
| `MCCaseView_board` | `BoardShowsReviews` | a review invalidates the list of hits only; the cached board goes on asking for it | none |

`StateWasDecided` is as much as holds of two concurrent reviews of one result:
each column is what an analyst decided for it, but the state may be that of one
review and the disposition that of the other, and no sentence of the documentation
speaks of that case.

### Fairness

`JobQueue!FairSpec`: weak fairness of every worker's `Step`, because `run_worker`
loops until its process ends and the platform restarts it, and of `Lapse`,
because time passes. Nothing is assumed of `Enqueue` or `Crash`. Weak fairness
suffices: once a worker is at a place in its loop, some step of it stays enabled
until taken. `CaseLifecycle!FairSpec`: weak fairness of each worker's `Work`;
analysts and managers may wait for ever, and faults are bounded.
`Intake!Spec`: weak fairness of the steps of each call that has begun, because the
server runs a handler to its end unless it is lost; nothing makes a call begin.
An insert that waits for an uncommitted row is enabled again when that
transaction ends, and stays enabled. `CaseView!SpecPage`: weak fairness of the
poll, while the page is visible, and of the network's delivery of what was asked;
failures are bounded, and nothing makes a run commit, so `FollowsTheRun` says
only that a page follows a run that has.

## 4. What is proved

Every safety property of a passing run, invariant or action property, is a
theorem of its module's specification, for every value of the constants. All are
proved by an inductive invariant, or from one. Where a
property fails without an assumption on who runs at the same time, either the
property itself says what it excuses (section 3), or the theorem assumes something
of the constants (who there is) or of the behaviour (`[](contested = {})`).

`JobQueueProofs`, for every set of workers and jobs and every value of the
bounds:

* `TypeCorrect`, `GivenUpOnlyAfterMax`: unconditionally. The invariant behind the
  second is that neither the attempts column, nor any session's memory of it, nor
  the row a failure handler has loaded ever exceeds the number of runs: attempts
  may lag behind the runs, as `MCJobQueue_shared_attempts.cfg` shows, but never lead.
* `ClaimIsExclusive`, `EffectsCommitOnce`, `OutcomesAreFinal`: unconditionally, for
  workers that die, overrun and reclaim each other's jobs at any point. The
  invariant `Owned` says of every job that is not contested that, being executed,
  it is RUNNING and locked by its one worker, and that a row a handler or a
  reclaimer has read is still as it was read. None of the three is inductive
  without it: that `Succeed` does not repeat an effect follows only from the row's
  status.
* `QueueIsDurable`: as long as no job is contested, `[](contested = {})`, which
  holds of every behaviour when there is one worker (`NothingContested`).
* `DeathsCostOneRunEach`, and from it `RunsAreBounded`: under `SoleWorker`. The
  runs of a job must be accounted for between two commits as well, and so must
  the jobs deaths have left behind: `Tallied` relates attempts and runs, `Loose`
  the RUNNING jobs nobody executes to the deaths, `Paid` both to the bound.
* `FailuresSurface`: unconditionally, contested jobs included. Each step that leaves
  a failure off its investigation is a death, so their number stays within the deaths.

`CaseLifecycleProofs`, for every set of candidates, analysts and workers, any
order of sources and any of them failing:

* `TypeCorrect`: unconditionally, jobs executed twice at once included.
* `IdentityIsGrounded`, `MaterialOutageIsShown`, `QueueIsKept`: under `Exclusive`,
  that a job is executed once at a time (one worker, or no lease overrun), for
  any number of concurrent analysts. The invariant `CaseInv` says what a run or a
  request that loaded the row some time ago may still overwrite with it: nothing
  that has been written since. That the completeness a run commits says whether a
  material source was down needs what `Consult` computes over the whole order
  (`ConsultShows`), which is proved by induction over its length.
* `EffectsApplyOnce`: under `OneEnrichment`, one worker, or `Exclusive` and one
  analyst at a time. `MCCaseLifecycle_same_entity.cfg` needs two of each.
* `ReportsStandFor`, `IdentityStandsFor`, `ImplementsCaseFile`: under `Exclusive`
  and `SoleAnalyst`, that resolve requests of a case do not overlap
  (`MCCaseLifecycle_overrun.cfg` refutes `IdentityStands` without the first, and in
  `MCCaseLifecycle_two_analysts.cfg` two resolutions exchange the entity). `Sole` adds to `CaseInv` that one entity at most is chosen, and
  that the state of the case is where its one enrichment job is.
* `ResolutionIsWorkedOn`: under the same, and without deaths.

`SanctionsCacheProofs`, for every set of feeds, workers and cron jobs:

* `FreshMeansCached` and `CacheNeverEmptied`, for any overlap of their refreshes.
  That a fresh feed has records says nothing of a refresh that is about to commit
  without an answer for a feed; the invariant adds that such a refresh has
  deleted nothing of it (`FailedDeletesNothing`). `TypeCorrect` needs that a
  refresh is numbered when it starts, and that a state row once there stays
  (`RefreshStarted`).
* `OneDownloadEach` and `ClearanceIsGrounded`, for any overlap as well. The first
  needs the invariant `OInv`: what is in the cache and not among the records a
  refresh has deleted was committed after its DELETEs, by a refresh it overlaps.
  The second needs `ReadsStand`: unless a commit tore its reads, the records a
  screening has read are still what the cache holds.

`ScreeningReviewProofs`, for every set of results and findings:

* `TypeCorrect` and `AnalystsConfirm`, for any number of concurrent analysts. The
  second needs that a confirmation a review has *read* was an analyst's as well,
  because it is what its commit writes on the case.
* `DecisionsAreKept` likewise. A commit writes only the columns that differ from what
  the review read, so what it leaves alone must be right too: the invariant `DInv`
  says that the state of a result is still what a review has read, or one an
  analyst has decided since.
* `WorstIsShown`: until reviews cross, what a review has read is current
  (`ReadIsCurrent`), and so is what it computes from it.

`CaseViewProofs`, for a page beside any number of other analysts, and any number
of failed fetches and lost replies:

* `PageUsesServer`: the page and its server implement the server alone, so the
  theorems of `ScreeningReviewProofs` hold of `SpecPage`.
* `PageTypeCorrect`, `RunIsListed`, `ReviewsAreListed`. A settled list is right
  only if every list that may still land is: the invariant (`HitsListed`,
  `ReviewsListed`) says so of the answer on its way, and that a list without what
  it should show is being replaced. It needs of the server what it never takes
  back (`Lasting`): a run, the hits it found, and that a result is disposed of,
  which in turn rests on what a concurrent review has read (`ReadsDisposed`). The
  page has a list before it sends a review, so the reply's invalidation always
  drops the fetch under way (`ReviewsKept`).

`EvidenceGatheringProofs`, for every set of entities, people and claims, every
answer and outage, and any number of runs: `TypeCorrect`, `ContactIsAccountedFor`,
`VerificationIsBacked`, `VerificationIsKept`, `ContradictionsOnce`,
`StoredOfficersAreRead`. All are about what a commit does, so the invariant is
about the run: `Sound` says that what it holds of the contact is backed by what
it has gathered and takes nothing back, `Due` what it must have behind it at each
source.

`CaseReportProofs`, under no assumption: `BoardAndGraphAgree` needs the converse
of `VerificationIsBacked` (`LInv`): an officer record that names the contact, of
the case or of the run under way, has made the contact VERIFIED.
`StrongReportsAreBacked` counts: the corroborating rows that rest on one kind of
evidence are two, and Strong needs three.

`IntakeProofs`, for files of any length, any number of calls and losses:

* `TypeCorrect`; `OneCounterparty`: the keys of committed rows are unique, an open
  transaction that has inserted a key is alone with it, and a link that is not
  new leads to a committed row (`KeysUnique`, `LinksHold`); committed rows and cases
  stay linked by the key of their candidate (`RowsCommitted`, `CasesLinked`), and two
  keys are equal exactly when the letters are (`KeyIsLetters`).
* `RowsAreAccounted`, `ResultsAreTrue`: an import's counts are right at its end
  only if they were after every row (`Counted`); afterwards a resolution replaces
  a case by itself, so the cardinality of a batch stays (`BatchCounted`).
* `OneBatch`: while an import of a file that was never raced is under way, there
  is no batch of it and no second import (`AloneUnlessRaced`).
* `OnlyNamedAreSearched`: the gate lets a label of any words through exactly when
  one of them can name a company (`GateNames`), and no later step changes what a
  case was created with, committed or not (`GInv`).

The assumptions on constants are each module's `ConstantsAssumption`,
`PageAssumption` of `CaseView` and `NoneAssumption` of `IntakeGate`, which TLC
evaluates on every instance; they say that `None` is no row, state or answer, and
that bounds are numbers. What a theorem assumes beyond them is in its statement.

Only model-checked: the liveness properties (`EveryJobSettles`, `FileConcludes`,
`CallsEnd`, `FollowsTheRun`: liveness and ENABLED are beyond the prover), and so
the liveness half of the two refinements. Induction over data is proved where it
is needed by taking the least counterexample from a set of naturals
(`CaseLifecycleProofs!Least`), since the library's induction theorems take an
operator as a parameter.

## 5. What is not modelled

* Wording and rendering: the text of audit events, sources and findings, labels
  of board rows and graph nodes, the evidence hierarchy, HTML and PDF.
* Providers and parsers (`providers/*`, the sanctions feeds): stateless; the
  modules take their outcomes. Name normalisation is the library `rigour`'s.
* The matcher's rule cascade (identifier, name, date of birth, fuzzy), which
  compares text: `SanctionsCache` knows whether a record matches.
* The worklist's filters and search, and the pages of the client that only render
  one query; of the case page the source, finding and graph lists, which are used
  like the two that are modelled.
* Authentication, configuration, schemas, health, migrations, deployment scripts:
  no state that handlers share.
* The fixture screening of public validation cases, which only records that no
  screening was performed, and the demo dataset.

Kept apart on purpose: `CaseLifecycle` has the concurrency of a case and nothing
of its evidence, `EvidenceGathering` the evidence and no concurrency. That two
enrichment runs of one case overlap (`MCCaseLifecycle_same_entity.cfg`) and both
insert a contradiction is therefore not explored.

## 6. Plan

Done: queue, lifecycle, cache, reviews, evidence and contradictions, views, intake
and counterparties, the page, and theorems about every safety property of the
passing runs. Next:

1. Weaker assumptions where the proofs leave room: the theorems of
   `CaseLifecycleProofs` with any number of resolve requests that do not overlap,
   instead of the one analyst of `SoleAnalyst`.
2. The lemmas about the rules of `Contradictions`: which missing data can set
   none of them off.
3. `ScreeningRules`: the matcher's cascade as operators on what two names, dates
   and identifiers agree in, checked against a reference definition.
4. Overlapping enrichment runs in `EvidenceGathering`, for the findings two of
   them insert.
