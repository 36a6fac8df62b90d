--------------------------- MODULE ScreeningReview ---------------------------
(***************************************************************************)
(* What becomes of the screening hits and the findings of one resolved     *)
(* case: the commit of the run that recorded them (_run_screening), the    *)
(* review requests of api/reviews.py, and what the board and the worklist  *)
(* make of the result.                                                     *)
(*                                                                         *)
(* Requests are transactions at READ COMMITTED, one step per statement; a  *)
(* commit writes the columns that differ from what the request loaded.     *)
(***************************************************************************)
EXTENDS Naturals, FiniteSets

CONSTANTS
    Results,      \* screening_result ids
    Findings,     \* finding ids
    Analysts,     \* concurrent review requests
    None,
    MaxReviews    \* bound: screening reviews begun

\* ScreeningState in the order the code compares it, mildest first.
Order == [NO_MATERIAL_MATCH |-> 0, POTENTIAL_MATCH |-> 1, MATCH_REQUIRES_REVIEW |-> 2,
          CONFIRMED_MATCH |-> 3]
ScreeningStates == DOMAIN Order
Dispositions == {"FALSE_POSITIVE", "CONFIRMED_MATCH", "NEEDS_MORE_INFORMATION"}
ReviewStatuses == {"CONFIRMED", "DISMISSED", "INFO_REQUESTED"}

ASSUME ConstantsAssumption ==
    /\ None \notin Results \cup ScreeningStates \cup Dispositions
    /\ MaxReviews \in Nat

VARIABLES
    screened,     \* the run has committed its results
    covered,      \* every required feed was fresh when it screened
    result,       \* screening_result rows
    finding,      \* review_status of the findings
    screening,    \* investigation.screening_state
    request,      \* where each review request is, and what it has read
    decisions,    \* analyst_decision rows
    reviews,
    crossed       \* history: a review committed what another had already read

table == <<result, finding, screening, decisions>>
vars == <<screened, covered, table, request, reviews, crossed>>

Absent == [state |-> "ABSENT", disposition |-> None]
Rows == [state : {"ABSENT"} \cup ScreeningStates, disposition : Dispositions \cup {None}]
Away == [at |-> "away", of |-> None, disposition |-> None, row |-> Absent,
         others |-> {}, case |-> None]

TypeOK ==
    /\ screened \in BOOLEAN
    /\ covered \in BOOLEAN
    /\ result \in [Results -> Rows]
    /\ \A r \in Results : result[r].state = "ABSENT" => result[r].disposition = None
    /\ finding \in [Findings -> {"ABSENT", "OPEN"} \cup ReviewStatuses]
    /\ screening \in ScreeningStates \cup {None}
    /\ request \in [Analysts -> [at : {"away", "opened", "compared", "loaded"},
                                 of : Results \cup {None},
                                 disposition : Dispositions \cup {None},
                                 row : Rows,
                                 others : SUBSET ScreeningStates,
                                 case : ScreeningStates \cup {None}]]
    /\ decisions \subseteq Results \X Dispositions
    /\ reviews \in 0..MaxReviews
    /\ crossed \in BOOLEAN

Init ==
    /\ screened = FALSE
    /\ covered = FALSE
    /\ result = [r \in Results |-> Absent]
    /\ finding = [f \in Findings |-> "ABSENT"]
    /\ screening = None
    /\ request = [a \in Analysts |-> Away]
    /\ decisions = {}
    /\ reviews = 0
    /\ crossed = FALSE

-----------------------------------------------------------------------------
(* The screening run                                                       *)

\* The states a provider may propose.  Mutant: it decides.
HitStatesAny == ScreeningStates \ {"NO_MATERIAL_MATCH"}
HitStates == {"POTENTIAL_MATCH", "MATCH_REQUIRES_REVIEW"}

\* The worst of a set of states.
Worst(states) == CHOOSE s \in states : \A t \in states : Order[s] >= Order[t]

(* Results, findings and the case's state commit together; no hit is a     *)
(* clearance only with complete coverage.                                  *)
Screen(hit, complete, raised) ==
    /\ ~screened
    /\ screened' = TRUE
    /\ covered' = complete
    /\ result' = [r \in Results |-> [Absent EXCEPT !.state = hit[r]]]
    /\ finding' = [f \in Findings |-> IF f \in raised THEN "OPEN" ELSE "ABSENT"]
    /\ LET states == {hit[r] : r \in Results} \ {"ABSENT"} IN
       screening' = IF states = {} THEN IF complete THEN "NO_MATERIAL_MATCH" ELSE None
                    ELSE Worst(states)
    /\ UNCHANGED <<request, decisions, reviews, crossed>>

-----------------------------------------------------------------------------
(* review_screening                                                        *)

\* The state a disposition gives a result.
StateFor(disposition) ==
    CASE disposition = "CONFIRMED_MATCH" -> "CONFIRMED_MATCH"
      [] disposition = "FALSE_POSITIVE" -> "NO_MATERIAL_MATCH"
      [] OTHER -> "MATCH_REQUIRES_REVIEW"

\* The states the new one is compared with.  Mutant: none of the others.
OthersNone(r) == {}
Others(r) == {result[q].state : q \in Results \ {r}} \ {"ABSENT"}

(* The request has loaded the result.                                      *)
Open(a, r, disposition) ==
    /\ request[a].at = "away"
    /\ result[r].state # "ABSENT"
    /\ reviews < MaxReviews
    /\ reviews' = reviews + 1
    /\ request' = [request EXCEPT ![a] = [Away EXCEPT !.at = "opened", !.of = r,
                                                      !.disposition = disposition,
                                                      !.row = result[r]]]
    /\ UNCHANGED <<screened, covered, table, crossed>>

(* The states of the case's other results; its own new state is not yet    *)
(* in the database.                                                        *)
Compare(a) ==
    /\ request[a].at = "opened"
    /\ request' = [request EXCEPT ![a].at = "compared", ![a].others = Others(request[a].of)]
    /\ UNCHANGED <<screened, covered, table, reviews, crossed>>

(* The case is loaded.                                                     *)
LoadCase(a) ==
    /\ request[a].at = "compared"
    /\ request' = [request EXCEPT ![a].at = "loaded", ![a].case = screening]
    /\ UNCHANGED <<screened, covered, table, reviews, crossed>>

\* Another review is under way and has read what the commit of a changes: it
\* holds the same result, or has gone on to compare.
Crossing(a) ==
    \E b \in Analysts \ {a} :
        /\ request[b].at # "away"
        /\ request[b].at = "opened" => request[b].of = request[a].of

\* A column is written only if it differs from what was loaded.
Written(loaded, new, current) == IF new = loaded THEN current ELSE new

(* The commit.  Mutants: the case is not brought up to date; the result is *)
(* moved by a confirmation only.                                           *)
CommitResultOnly(a) ==
    LET q == request[a] IN
    /\ q.at = "loaded"
    /\ result' = [result EXCEPT ![q.of] =
                    [state |-> Written(q.row.state, StateFor(q.disposition), @.state),
                     disposition |-> Written(q.row.disposition, q.disposition, @.disposition)]]
    /\ decisions' = decisions \cup {<<q.of, q.disposition>>}
    /\ request' = [request EXCEPT ![a] = Away]
    /\ crossed' = (crossed \/ Crossing(a))
    /\ UNCHANGED <<screened, covered, finding, screening, reviews>>

CommitConfirmationOnly(a) ==
    LET q == request[a]
        new == IF q.disposition = "CONFIRMED_MATCH" THEN "CONFIRMED_MATCH" ELSE q.row.state
    IN
    /\ q.at = "loaded"
    /\ result' = [result EXCEPT ![q.of] = [state |-> new, disposition |-> q.disposition]]
    /\ screening' = Written(q.case, Worst(q.others \cup {new}), screening)
    /\ decisions' = decisions \cup {<<q.of, q.disposition>>}
    /\ request' = [request EXCEPT ![a] = Away]
    /\ crossed' = (crossed \/ Crossing(a))
    /\ UNCHANGED <<screened, covered, finding, reviews>>

Commit(a) ==
    LET q == request[a]
        new == StateFor(q.disposition)
    IN
    /\ q.at = "loaded"
    /\ result' = [result EXCEPT ![q.of] =
                    [state |-> Written(q.row.state, new, @.state),
                     disposition |-> Written(q.row.disposition, q.disposition, @.disposition)]]
    /\ screening' = Written(q.case, Worst(q.others \cup {new}), screening)
    /\ decisions' = decisions \cup {<<q.of, q.disposition>>}
    /\ request' = [request EXCEPT ![a] = Away]
    /\ crossed' = (crossed \/ Crossing(a))
    /\ UNCHANGED <<screened, covered, finding, reviews>>

(* The request fails or is abandoned; its transaction rolls back.          *)
Abandon(a) ==
    /\ request[a].at # "away"
    /\ request' = [request EXCEPT ![a] = Away]
    /\ UNCHANGED <<screened, covered, table, reviews, crossed>>

(* review_finding.                                                         *)
ReviewFinding(f, status) ==
    /\ finding[f] # "ABSENT"
    /\ status \in ReviewStatuses
    /\ finding' = [finding EXCEPT ![f] = status]
    /\ UNCHANGED <<screened, covered, result, screening, request, decisions, reviews, crossed>>

-----------------------------------------------------------------------------
Review(a) ==
    \/ \E r \in Results, d \in Dispositions : Open(a, r, d)
    \/ Compare(a)
    \/ LoadCase(a)
    \/ Commit(a)
    \/ Abandon(a)

Next ==
    \/ \E hit \in [Results -> {"ABSENT"} \cup HitStates], complete \in BOOLEAN,
          raised \in SUBSET Findings : Screen(hit, complete, raised)
    \/ \E a \in Analysts : Review(a)
    \/ \E f \in Findings, status \in ReviewStatuses : ReviewFinding(f, status)

Spec == Init /\ [][Next]_vars

-----------------------------------------------------------------------------
(* What is shown                                                           *)

\* The worklist's needs_action, for a case whose identity is confirmed.
NeedsAction == screening = "MATCH_REQUIRES_REVIEW"

\* What the board counts as outstanding analyst actions.
Outstanding ==
    {f \in Findings : finding[f] = "OPEN"} \cup
    {r \in Results : /\ result[r].disposition = None
                     /\ result[r].state \in {"POTENTIAL_MATCH", "MATCH_REQUIRES_REVIEW"}}

-----------------------------------------------------------------------------
(* Properties                                                              *)

Retained == {r \in Results : result[r].state # "ABSENT"}

\* A case with hits shows the worst state among them, neither less nor more,
\* unless a review committed under another's reading.
CaseShowsWorst ==
    ~crossed /\ Retained # {} => screening = Worst({result[r].state : r \in Retained})

\* The states analysts have decided a result to have.
DecidedStates(r) == {StateFor(d) : d \in {d \in Dispositions : <<r, d>> \in decisions}}

\* Of a reviewed result the disposition is one an analyst decided, and so is the
\* state: reviews that overlap on a result may leave it the columns of two
\* decisions, but never the state the screening proposed under a disposition
\* that stands for another.
StateWasDecided ==
    \A r \in Results : result[r].disposition # None =>
        /\ <<r, result[r].disposition>> \in decisions
        /\ result[r].state \in DecidedStates(r)

\* A match is CONFIRMED, on a result or on the case, only when an analyst
\* decided so: screening never decides by itself.
ConfirmedByAnalyst ==
    /\ \A r \in Results : result[r].state = "CONFIRMED_MATCH" =>
          <<r, "CONFIRMED_MATCH">> \in decisions
    /\ screening = "CONFIRMED_MATCH" =>
          \E r \in Results : <<r, "CONFIRMED_MATCH">> \in decisions

\* A match an analyst has confirmed is what the case shows.
ConfirmedShows ==
    (\E r \in Results : result[r].state = "CONFIRMED_MATCH") => screening = "CONFIRMED_MATCH"

\* A case shows NO_MATERIAL_MATCH only when its screening covered every
\* required feed.
ClearanceCovered == screening = "NO_MATERIAL_MATCH" => covered

\* A case whose board has outstanding analyst actions is on the worklist of
\* cases that need action.
WorklistShowsOutstanding == Outstanding # {} => NeedsAction

=============================================================================
