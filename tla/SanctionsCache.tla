--------------------------- MODULE SanctionsCache ---------------------------
(***************************************************************************)
(* The sanctions cache of services/sanctions_cache.py and the screening of *)
(* one subject against it (_run_screening).  Workers refresh the feeds when*)
(* due and screen; the cron entry point jobs/refresh_sanctions.py only     *)
(* refreshes.  Both are transactions at READ COMMITTED, and a transaction's*)
(* separate statements are separate steps.                                 *)
(*                                                                         *)
(* Of a feed's records only two things matter: which refresh stored them,  *)
(* and whether one of them matches the subject.                            *)
(***************************************************************************)
EXTENDS Naturals, FiniteSets

CONSTANTS
    Feeds,        \* the feeds with a URL configured
    Required,     \* sanctions_required_feeds
    Workers,      \* processes that refresh and screen
    Crons,        \* processes that only refresh
    MaxRefreshes  \* bound: refreshes begun

ASSUME ConstantsAssumption ==
    /\ Required \subseteq Feeds
    /\ Required # {}
    /\ Workers \cap Crons = {}
    /\ MaxRefreshes \in Nat

Processes == Workers \cup Crons

VARIABLES
    records,   \* records[f]: sets of records cached: which refresh, matching?
    state,     \* state[f]: the sanctions_feed_state row
    listed,    \* listed[f]: the published feed names the subject
    due,       \* the worker's refresh interval has passed
    proc,      \* what each process is doing, and what it has read
    verdict,   \* screening_state of the subject's case
    basis,     \* history: the feeds whose records were current when screened
    hits,      \* history: the feeds that had a match when screened
    overlaps,  \* history: pairs of refreshes, each of which had deleted before
               \* the other committed
    torn,      \* history: workers between whose two reads a refresh committed
    refreshes

cache == <<records, state>>
screening == <<verdict, basis, hits>>
races == <<overlaps, torn>>
vars == <<cache, listed, due, proc, screening, races, refreshes>>

NoState == [status |-> "never_refreshed", current |-> FALSE]
States == [status : {"never_refreshed", "ok", "failed"}, current : BOOLEAN]
Batches == [refresh : 1..MaxRefreshes, match : BOOLEAN]

\* What a download gives: an error, no entity, or the feed as published.
Answers == {"down", "empty", "clear", "listed"}

Idle == [at |-> "idle", refresh |-> 0, answer |-> [f \in Feeds |-> "down"],
         row |-> [f \in Feeds |-> NoState], seen |-> [f \in Feeds |-> {}]]

TypeOK ==
    /\ records \in [Feeds -> SUBSET Batches]
    /\ state \in [Feeds -> States]
    /\ \A f \in Feeds : state[f].status = "never_refreshed" => ~state[f].current
    /\ listed \in [Feeds -> BOOLEAN]
    /\ due \in [Workers -> BOOLEAN]
    /\ proc \in [Processes -> [at : {"idle", "downloaded", "replaced", "screening"},
                               refresh : 0..MaxRefreshes,
                               answer : [Feeds -> Answers],
                               row : [Feeds -> States],
                               seen : [Feeds -> SUBSET Batches]]]
    /\ verdict \in {"NONE", "NO_MATERIAL_MATCH", "POTENTIAL_MATCH", "LIMITED"}
    /\ basis \subseteq Feeds
    /\ hits \subseteq Feeds
    /\ overlaps \subseteq SUBSET (0..MaxRefreshes)
    /\ torn \subseteq Workers
    /\ refreshes \in 0..MaxRefreshes

Init ==
    /\ records = [f \in Feeds |-> {}]
    /\ state = [f \in Feeds |-> NoState]
    /\ listed \in [Feeds -> BOOLEAN]
    /\ due = [w \in Workers |-> TRUE]
    /\ proc = [p \in Processes |-> Idle]
    /\ verdict = "NONE"
    /\ basis = {}
    /\ hits = {}
    /\ overlaps = {}
    /\ torn = {}
    /\ refreshes = 0

-----------------------------------------------------------------------------
(* The world                                                               *)

\* The subject is put on a list or taken off it.
Publish(f) ==
    /\ listed' = [listed EXCEPT ![f] = ~@]
    /\ UNCHANGED <<cache, due, proc, screening, races, refreshes>>

\* The last success of f is now older than sanctions_cache_max_age_hours.
Age(f) ==
    /\ state[f].current
    /\ state' = [state EXCEPT ![f].current = FALSE]
    /\ UNCHANGED <<records, listed, due, proc, screening, races, refreshes>>

\* The refresh interval of w has passed.
Tick(w) ==
    /\ ~due[w]
    /\ due' = [due EXCEPT ![w] = TRUE]
    /\ UNCHANGED <<cache, listed, proc, screening, races, refreshes>>

-----------------------------------------------------------------------------
(* refresh_feeds                                                           *)

\* The refresh of f counts as successful.  Mutant: an empty parse of a
\* required feed does too.
UsableEmpty(f, answer) == answer # "down"
Usable(f, answer) ==
    /\ answer # "down"
    /\ f \in Required => answer # "empty"

\* What the refresh stores for f.
Stored(p, f) ==
    IF proc[p].answer[f] = "empty" THEN {}
    ELSE {[refresh |-> proc[p].refresh, match |-> proc[p].answer[f] = "listed"]}

\* The refresh is due.  The cron job does not ask.
Due(p) == p \in Workers => due[p]

(* The state rows are loaded and the feeds downloaded; the interval starts *)
(* before the network is asked.                                            *)
Download(p) ==
    /\ proc[p].at = "idle"
    /\ Due(p)
    /\ refreshes < MaxRefreshes
    /\ refreshes' = refreshes + 1
    /\ due' = [w \in Workers |-> due[w] /\ w # p]
    /\ \E answer \in [Feeds -> Answers] :
        /\ \A f \in Feeds :
              answer[f] \in {"down", "empty", IF listed[f] THEN "listed" ELSE "clear"}
        /\ proc' = [proc EXCEPT ![p] = [Idle EXCEPT !.at = "downloaded",
                                                    !.refresh = refreshes + 1,
                                                    !.answer = answer,
                                                    !.row = state]]
    /\ UNCHANGED <<cache, listed, screening, races>>

\* The batches the DELETE of f removes.  Mutants: also those of a feed whose
\* refresh failed; none.
DeletedAlways(p, f) == records[f]
DeletedNever(p, f) == {}
Deleted(p, f) == IF Usable(f, proc[p].answer[f]) THEN records[f] ELSE {}

(* The DELETE statements take the records they see, which another refresh  *)
(* may be replacing; session.merge looks again for a row there was not.    *)
Replace(p) ==
    /\ proc[p].at = "downloaded"
    /\ proc' = [proc EXCEPT
                  ![p].at = "replaced",
                  ![p].seen = [f \in Feeds |-> Deleted(p, f)],
                  ![p].row = [f \in Feeds |->
                                IF @[f].status = "never_refreshed" THEN state[f] ELSE @[f]]]
    /\ overlaps' = overlaps \cup {{proc[p].refresh, proc[q].refresh} :
                                     q \in {q \in Processes \ {p} : proc[q].at = "replaced"}}
    /\ UNCHANGED <<cache, listed, due, screening, torn, refreshes>>

\* The row of f after the commit: a column equal to what was loaded is not
\* written.
StateAfter(p, f) ==
    LET row == proc[p].row[f]
        ok == Usable(f, proc[p].answer[f])
        status == IF ok THEN "ok" ELSE "failed"
    IN [status |-> IF row.status = status THEN state[f].status ELSE status,
        current |-> ok \/ state[f].current]

\* Another refresh inserted the first row of a feed just before: the primary
\* key is violated.
Conflict(p) ==
    \E f \in Feeds : proc[p].row[f].status = "never_refreshed"
                     /\ state[f].status # "never_refreshed"

(* Records and states commit together.                                     *)
CommitRefresh(p) ==
    /\ proc[p].at = "replaced"
    /\ ~Conflict(p)
    /\ records' = [f \in Feeds |->
                     (records[f] \ proc[p].seen[f])
                       \cup (IF Usable(f, proc[p].answer[f]) THEN Stored(p, f) ELSE {})]
    /\ state' = [f \in Feeds |-> StateAfter(p, f)]
    /\ proc' = [proc EXCEPT ![p] = Idle]
    /\ torn' = torn \cup {w \in Workers : proc[w].at = "screening"}
    /\ UNCHANGED <<listed, due, screening, overlaps, refreshes>>

(* Any other error rolls the whole refresh back, and so does a process that*)
(* dies; the worker is not due again before its interval.                  *)
AbortRefresh(p) ==
    /\ proc[p].at \in {"downloaded", "replaced"}
    /\ proc' = [proc EXCEPT ![p] = Idle]
    /\ UNCHANGED <<cache, listed, due, screening, races, refreshes>>

-----------------------------------------------------------------------------
(* Screening                                                               *)

\* coverage_report: the required feeds that count as fresh.
Fresh(f) == state[f].status = "ok" /\ state[f].current

\* coverage.is_complete.  Mutant: one required feed is enough.
CompleteAny == \E f \in Required : Fresh(f)
Complete == \A f \in Required : Fresh(f)

(* load_sanctions_matcher, first statement: the records.                   *)
LoadRecords(w) ==
    /\ proc[w].at = "idle"
    /\ proc' = [proc EXCEPT ![w] = [Idle EXCEPT !.at = "screening", !.seen = records,
                                                !.row = state]]
    /\ torn' = torn \ {w}
    /\ UNCHANGED <<cache, listed, due, screening, overlaps, refreshes>>

\* The feeds in which w found the subject.
Matches(w) == {f \in Feeds : \E b \in proc[w].seen[f] : b.match}

(* Second statement, the feed states; then the verdict: a hit always       *)
(* shows, no hit is a clearance only when the coverage is complete.        *)
Screen(w) ==
    /\ proc[w].at = "screening"
    /\ \/ /\ Matches(w) # {}
          /\ verdict' = "POTENTIAL_MATCH"
       \/ /\ Matches(w) = {}
          /\ Complete
          /\ verdict' = "NO_MATERIAL_MATCH"
       \/ /\ Matches(w) = {}
          /\ ~Complete
          /\ verdict' = "LIMITED"
    /\ basis' = {f \in Feeds : proc[w].seen[f] # {} /\ proc[w].row[f].current}
    /\ hits' = Matches(w)
    /\ proc' = [proc EXCEPT ![w] = Idle]
    /\ torn' = torn \ {w}
    /\ UNCHANGED <<cache, listed, due, overlaps, refreshes>>

-----------------------------------------------------------------------------
Refresh(p) == Download(p) \/ Replace(p) \/ CommitRefresh(p) \/ AbortRefresh(p)

Next ==
    \/ \E f \in Feeds : Publish(f) \/ Age(f)
    \/ \E w \in Workers : Tick(w) \/ LoadRecords(w) \/ Screen(w)
    \/ \E p \in Processes : Refresh(p)

Spec == Init /\ [][Next]_vars

-----------------------------------------------------------------------------
(* Properties                                                              *)

\* A required feed that counts as fresh has records: no refresh that failed,
\* was empty or lost a race passes for a successful one.
FreshFeedHasRecords == \A f \in Required : Fresh(f) => records[f] # {}

\* A clearance rests on records of every required feed that were within their
\* age when the subject was screened against them, and no record matched.  TLC
\* refutes it: a refresh may commit between the two reads.
ClearanceGrounded ==
    verdict = "NO_MATERIAL_MATCH" => Required \subseteq basis /\ hits = {}

ClearedOnRecords ==
    \A w \in Workers :
        Screen(w) /\ w \notin torn /\ verdict' = "NO_MATERIAL_MATCH" =>
            Required \subseteq basis' /\ hits' = {}

\* A clearance whose two reads no commit separated rests on current records of
\* every required feed, none matching: ageing, refreshes under way, and commits
\* before the reads or after them do not matter.
ClearanceInOrder == [][ClearedOnRecords]_vars

\* The cache holds one download of each feed.  TLC refutes it: the DELETEs of
\* overlapping refreshes do not see each other's records.
OneDownload == \A f \in Feeds : Cardinality(records[f]) <= 1

\* The cache holds two downloads of a feed only if those two refreshes had both
\* deleted before either committed: a refresh replaces everything that was
\* committed before it, the leftovers of an overlap included, all or nothing.
OneDownloadUnlessOverlap ==
    \A f \in Feeds : \A b, c \in records[f] : b # c => {b.refresh, c.refresh} \in overlaps

RecordsKept == \A f \in Required : records[f] # {} => records'[f] # {}

\* Once a required feed has been cached no refresh empties it, however many
\* refreshes fail, answer nothing or overlap.
NeverEmptied == [][RecordsKept]_vars

=============================================================================
