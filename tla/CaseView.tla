------------------------------ MODULE CaseView ------------------------------
(***************************************************************************)
(* The case page of the web client beside the server of ScreeningReview:   *)
(* routes/Investigation.tsx and the query cache of lib/queries.ts.  The    *)
(* page shows what it last received; the server goes on meanwhile.         *)
(*                                                                         *)
(* A query is fetched when its view is first shown, polled (the case, while*)
(* its state is not terminal), and fetched again when it is invalidated.   *)
(* The query library (external) cancels the fetch under way when it fetches*)
(* again after an invalidation, but only once the query has data: until    *)
(* then it waits for the answer already asked for.                         *)
(*                                                                         *)
(* Sources, findings and graph follow screening and board; they are left   *)
(* out.                                                                    *)
(***************************************************************************)
EXTENDS ScreeningReview

CONSTANTS
    BoardUsed,       \* bound: the board's query is in use
    MaxPageReviews,  \* bound: screening reviews begun while the page is open, or before
    MaxFailures      \* bound: fetches and replies that fail, retries included

\* What the page may receive of a case and of its list of hits.
CaseStates == {"PARTIAL_RESULTS", "COMPLETED"}
Lists == [Results -> {"absent", "pending", "disposed"}]

ASSUME PageAssumption ==
    /\ None \notin Analysts \cup CaseStates \cup Lists
    /\ BoardUsed \in BOOLEAN
    /\ MaxPageReviews \in Nat
    /\ MaxFailures \in Nat

VARIABLES
    tab,          \* the tab shown, "CLOSED" before the page is opened
    data,         \* data[k]: what the page has of query k, None before
    flight,       \* flight[k]: the fetch of k: asked, failed, or its answer on the way
    stale,        \* the board's data has been invalidated
    mine,         \* the review the page waits for: its request, while it runs, and result
    told,         \* history: results the page was told it has reviewed
    overtaken,    \* history: the case was seen completed before the first answer of a list
    failures

page == <<tab, data, flight, stale, mine, told, overtaken, failures>>

Keys == {"case", "screening", "board"}
Tabs == {"BOARD", "SCREENING"}

NON_TERMINAL == {"NOT_STARTED", "RUNNING", "PARTIAL_RESULTS"}

\* What the server answers, as far as the page's state goes: the run's commit
\* completes the case, and the list shows which results are disposed of.
Listed(r) ==
    IF result[r].state = "ABSENT" THEN "absent"
    ELSE IF result[r].disposition = None THEN "pending" ELSE "disposed"
Answer(k) ==
    CASE k = "case" -> IF screened THEN "COMPLETED" ELSE "PARTIAL_RESULTS"
      [] k = "screening" -> [r \in Results |-> Listed(r)]
      [] k = "board" -> Outstanding

Idle == [at |-> "idle", with |-> None]
Asked == [at |-> "asked", with |-> None]
Failed == [at |-> "failed", with |-> None]
Answered(k) == [at |-> "answered", with |-> Answer(k)]
NoReview == [request |-> None, of |-> None]

\* Nothing is screened yet, and the page is not open.
InitPage ==
    /\ Init
    /\ tab = "CLOSED"
    /\ data = [k \in Keys |-> None]
    /\ flight = [k \in Keys |-> Idle]
    /\ stale = FALSE
    /\ mine = NoReview
    /\ told = {}
    /\ overtaken = FALSE
    /\ failures = 0

-----------------------------------------------------------------------------
(* The query cache                                                         *)

Enabled(k) == k = "board" => BoardUsed /\ tab = "BOARD"
InFlight(k) == flight[k].at \in {"asked", "answered"}

\* Invalidated queries in use are fetched again; a fetch under way is dropped
\* for a new one unless it is the first.  Mutant: any fetch under way will do.
RefetchJoined(fl, keys) ==
    [k \in Keys |-> IF k \in keys /\ Enabled(k) /\ fl[k].at \in {"idle", "failed"} THEN Asked ELSE fl[k]]
Refetch(fl, keys) ==
    [k \in Keys |-> IF k \in keys /\ Enabled(k) /\ (data[k] # None \/ fl[k].at \in {"idle", "failed"})
                    THEN Asked ELSE fl[k]]

\* The keys the page's effect invalidates when the state it sees changes.
Derived == {"board", "screening"}

\* The keys a review invalidates.  Mutant: the case alone.
ReviewedCase == {"case"}
Reviewed == {"screening"}

(* The page is opened: its queries, and the effect's first invalidation.   *)
OpenPage ==
    /\ tab = "CLOSED"
    /\ reviews <= MaxPageReviews
    /\ tab' = "BOARD"
    /\ flight' = [k \in Keys |-> IF k = "board" /\ ~BoardUsed THEN Idle ELSE Asked]
    /\ UNCHANGED <<data, stale, mine, told, overtaken, failures>>

\* The page has its tabs once it has the case.
CaseShown == data["case"] # None /\ flight["case"] # Failed

\* Another tab: the board is fetched when it is shown again and is stale, by
\* an invalidation or by its age.
Switch(t, aged) ==
    /\ CaseShown
    /\ tab \in Tabs \ {t}
    /\ tab' = t
    /\ flight' = IF BoardUsed /\ t = "BOARD" /\ (stale \/ aged \/ data["board"] = None) 
                       /\ ~InFlight("board")
                 THEN [flight EXCEPT !["board"] = Asked] ELSE flight
    /\ UNCHANGED <<data, stale, mine, told, overtaken, failures>>

\* refetchInterval.  Mutant: a case with partial results is not polled.
PollRunning ==
    /\ data["case"] \in NON_TERMINAL \ {"PARTIAL_RESULTS"}
    /\ ~InFlight("case")
    /\ flight' = [flight EXCEPT !["case"] = Asked]
    /\ UNCHANGED <<tab, data, stale, mine, told, overtaken, failures>>
Poll ==
    /\ data["case"] \in NON_TERMINAL
    /\ ~InFlight("case")
    /\ flight' = [flight EXCEPT !["case"] = Asked]
    /\ UNCHANGED <<tab, data, stale, mine, told, overtaken, failures>>

\* The server reads the rows and answers.
Serve(k) ==
    /\ flight[k] = Asked
    /\ flight' = [flight EXCEPT ![k] = Answered(k)]
    /\ UNCHANGED <<tab, data, stale, mine, told, overtaken, failures>>

\* The answer is received; a state the page had not seen makes its effect
\* invalidate the derived queries.
Receive(k) ==
    LET answer == flight[k].with
        landed == [flight EXCEPT ![k] = Idle]
        turned == k = "case" /\ answer # data["case"]
    IN
    /\ flight[k].at = "answered"
    /\ data' = [data EXCEPT ![k] = answer]
    /\ flight' = IF turned THEN Refetch(landed, Derived) ELSE landed
    /\ stale' = IF turned /\ data["board"] # None THEN TRUE
                ELSE stale /\ k # "board"
    /\ overtaken' = (overtaken \/ (/\ turned
                                   /\ answer = "COMPLETED"
                                   /\ \E q \in Derived : data[q] = None /\ InFlight(q)))
    /\ UNCHANGED <<tab, mine, told, failures>>

\* A fetch has failed for good: the page keeps what it has.
Fail(k) ==
    /\ InFlight(k)
    /\ failures < MaxFailures
    /\ failures' = failures + 1
    /\ flight' = [flight EXCEPT ![k] = Failed]
    /\ UNCHANGED <<tab, data, stale, mine, told, overtaken>>

-----------------------------------------------------------------------------
(* Reviews, here and elsewhere                                             *)

\* The page offers a review of what it lists, one at a time.
Submit(a, r, disposition) ==
    /\ CaseShown
    /\ tab = "SCREENING"
    /\ mine = NoReview
    /\ data["screening"] # None
    /\ data["screening"][r] # "absent"
    /\ disposition \in {"FALSE_POSITIVE", "CONFIRMED_MATCH"}
    /\ Open(a, r, disposition)
    /\ reviews' <= MaxPageReviews
    /\ mine' = [request |-> a, of |-> r]
    /\ UNCHANGED <<tab, data, flight, stale, told, overtaken, failures>>

\* The handler of the page's review runs on, commits or fails.
Handle(a) ==
    /\ mine.request = a
    /\ \/ Compare(a) /\ UNCHANGED mine
       \/ LoadCase(a) /\ UNCHANGED mine
       \/ Commit(a) /\ mine' = [mine EXCEPT !.request = None]
       \/ Abandon(a) /\ mine' = NoReview
    /\ UNCHANGED <<tab, data, flight, stale, told, overtaken, failures>>

Committed == mine.of # None /\ mine.request = None

\* onSuccess: the reply invalidates the list.
Reply ==
    /\ Committed
    /\ told' = told \cup {mine.of}
    /\ mine' = NoReview
    /\ flight' = Refetch(flight, Reviewed)
    /\ UNCHANGED <<tab, data, stale, overtaken, failures>>

\* The reply is lost: the page reports an error and invalidates nothing.
LoseReply ==
    /\ Committed
    /\ failures < MaxFailures
    /\ failures' = failures + 1
    /\ mine' = NoReview
    /\ UNCHANGED <<tab, data, flight, stale, told, overtaken>>

-----------------------------------------------------------------------------
PageStep ==
    \/ OpenPage
    \/ \E t \in Tabs, aged \in BOOLEAN : Switch(t, aged)
    \/ Poll
    \/ \E k \in Keys : Serve(k) \/ Receive(k) \/ Fail(k)
    \/ Reply
    \/ LoseReply

Server ==
    \/ \E hit \in [Results -> {"ABSENT"} \cup HitStates], complete \in BOOLEAN,
          raised \in SUBSET Findings : Screen(hit, complete, raised)
    \/ \E a \in Analysts \ {mine.request} :
          Review(a) /\ (tab # "CLOSED" => reviews' <= MaxPageReviews)
    \/ \E f \in Findings, status \in ReviewStatuses : ReviewFinding(f, status)

NextPage ==
    \/ PageStep /\ UNCHANGED vars
    \/ Server /\ UNCHANGED page
    \/ \E a \in Analysts :
          (\E r \in Results, d \in Dispositions : Submit(a, r, d)) \/ Handle(a)

\* The page polls, and the network delivers what was asked for.
FairnessPage ==
    /\ WF_<<vars, page>>(Poll /\ UNCHANGED vars)
    /\ \A k \in Keys : WF_<<vars, page>>((Serve(k) \/ Receive(k)) /\ UNCHANGED vars)

SpecPage == InitPage /\ [][NextPage]_<<vars, page>> /\ FairnessPage

-----------------------------------------------------------------------------
(* Properties                                                              *)

TypeOKPage ==
    /\ TypeOK
    /\ tab \in Tabs \cup {"CLOSED"}
    /\ data["case"] \in {None} \cup CaseStates
    /\ data["screening"] \in {None} \cup Lists
    /\ data["board"] \in {None} \cup SUBSET (Results \cup Findings)
    /\ flight["board"] # Idle => tab # "CLOSED"
    /\ told \subseteq Results
    /\ failures \in 0..MaxFailures

Settled(k) == flight[k] = Idle /\ data[k] # None

\* A page that shows the case as completed lists the run's hits once its
\* fetches are done: no answer of before the run is left in their place.
CompletedShowsHits ==
    data["case"] = "COMPLETED" /\ Settled("screening") =>
        \A r \in Results : (data["screening"][r] = "absent") = (Listed(r) = "absent")

\* The same, unless a poll's answer overtook the first answer of a list.
CompletedShowsHitsInOrder == overtaken \/ CompletedShowsHits

\* A review the page was told of is shown once the list is settled.
OwnReviewsListed ==
    Settled("screening") =>
        \A r \in told : data["screening"][r] = "disposed"

\* The board the page shows, once settled, lists no action the analyst was
\* told is done.
BoardShowsReviews ==
    tab = "BOARD" /\ Settled("board") => told \cap data["board"] = {}

\* A page that has the case follows it to its end.
FollowsTheRun ==
    screened /\ data["case"] # None ~> data["case"] = "COMPLETED"

=============================================================================
