------------------------ MODULE ScreeningReviewProofs ------------------------
(***************************************************************************)
(* Theorems about ScreeningReview for every set of results, findings and   *)
(* analysts, and any number of reviews: types, and that a confirmation is  *)
(* an analyst's and the columns of a reviewed result are decided ones,     *)
(* however many of them review at once; that the case shows the worst of   *)
(* its results until a review commits under another's reading.             *)
(***************************************************************************)
EXTENDS ScreeningReview, TLAPS

-----------------------------------------------------------------------------
(* The worst state                                                         *)

\* A set of screening states that is not empty has a worst member.
LEMMA WorstOfStates ==
    ASSUME NEW states \in SUBSET ScreeningStates, states # {}
    PROVE  /\ Worst(states) \in states
           /\ Worst(states) \in ScreeningStates
<1>1. ScreeningStates = {"NO_MATERIAL_MATCH", "POTENTIAL_MATCH", "MATCH_REQUIRES_REVIEW",
                         "CONFIRMED_MATCH"}
    BY DEF ScreeningStates, Order
<1>2. /\ Order["NO_MATERIAL_MATCH"] = 0
      /\ Order["POTENTIAL_MATCH"] = 1
      /\ Order["MATCH_REQUIRES_REVIEW"] = 2
      /\ Order["CONFIRMED_MATCH"] = 3
    BY DEF Order
<1>3. \E s \in states : \A t \in states : Order[s] >= Order[t]
    <2>1. CASE "CONFIRMED_MATCH" \in states
        BY <1>1, <1>2, <2>1
    <2>2. CASE "CONFIRMED_MATCH" \notin states /\ "MATCH_REQUIRES_REVIEW" \in states
        BY <1>1, <1>2, <2>2
    <2>3. CASE /\ "CONFIRMED_MATCH" \notin states
               /\ "MATCH_REQUIRES_REVIEW" \notin states
               /\ "POTENTIAL_MATCH" \in states
        BY <1>1, <1>2, <2>3
    <2>4. CASE states = {"NO_MATERIAL_MATCH"}
        BY <1>2, <2>4
    <2> QED
        BY <1>1, <2>1, <2>2, <2>3, <2>4
<1> QED
    BY <1>3 DEF Worst

\* What a disposition makes of a result is a screening state.
LEMMA StateForType == \A d \in Dispositions : StateFor(d) \in ScreeningStates
BY DEF Dispositions, StateFor, ScreeningStates, Order

\* The states a screening run compares are screening states.
LEMMA HitStatesType == HitStates \subseteq ScreeningStates /\ "ABSENT" \notin HitStates
BY DEF HitStates, ScreeningStates, Order

-----------------------------------------------------------------------------
(* Types                                                                   *)

\* A review that is open is of a result the case has; before the run has
\* committed there is none.
Requested ==
    \A a \in Analysts : request[a].at # "away" =>
        /\ request[a].of \in Results
        /\ request[a].disposition \in Dispositions
        /\ request[a].row.state # "ABSENT"
        /\ result[request[a].of].state # "ABSENT"

NothingBefore == ~screened => \A r \in Results : result[r] = Absent

\* The type invariant is not inductive without them: only then does a commit
\* leave no result with a disposition and no state.
TInv == TypeOK /\ Requested /\ NothingBefore

LEMMA NoneIsNoState ==
    None # "CONFIRMED_MATCH" /\ None \notin ScreeningStates /\ None \notin Dispositions
BY ConstantsAssumption DEF ScreeningStates, Order

LEMMA RowTypes ==
    /\ Absent \in Rows
    /\ Absent.state = "ABSENT" /\ Absent.disposition = None
    /\ "ABSENT" \notin ScreeningStates
    /\ Away = [at |-> "away", of |-> None, disposition |-> None, row |-> Absent,
               others |-> {}, case |-> None]
    /\ Away \in [at : {"away", "opened", "compared", "loaded"},
                 of : Results \cup {None},
                 disposition : Dispositions \cup {None},
                 row : Rows,
                 others : SUBSET ScreeningStates,
                 case : ScreeningStates \cup {None}]
<1>1. Absent \in Rows /\ Absent.state = "ABSENT" /\ Absent.disposition = None
    BY DEF Absent, Rows
<1>2. "ABSENT" \notin ScreeningStates
    BY DEF ScreeningStates, Order
<1> QED
    BY <1>1, <1>2 DEF Away

\* What a handler holds of one review.
ReviewRecords == [at : {"away", "opened", "compared", "loaded"},
                  of : Results \cup {None},
                  disposition : Dispositions \cup {None},
                  row : Rows,
                  others : SUBSET ScreeningStates,
                  case : ScreeningStates \cup {None}]

\* A step that only moves a review on, whatever else it has read.
LEMMA ReviewMovesOn ==
    ASSUME TInv, NEW a \in Analysts, NEW req \in ReviewRecords, request[a].at # "away",
           req.of = request[a].of, req.disposition = request[a].disposition,
           req.row = request[a].row, request' = [request EXCEPT ![a] = req],
           UNCHANGED <<screened, covered, table, reviews, crossed>>
    PROVE  TInv'
<1>1. TypeOK'
    <2>1. request' \in [Analysts -> ReviewRecords]
        BY DEF TInv, TypeOK, ReviewRecords
    <2> QED
        BY <2>1 DEF TInv, TypeOK, ReviewRecords, table
<1>2. request'[a] = req /\ \A b \in Analysts : b # a => request'[b] = request[b]
    BY DEF TInv, TypeOK
<1>3. Requested'
    BY <1>2 DEF TInv, Requested, table
<1> QED
    BY <1>1, <1>3 DEF TInv, NothingBefore, table

LEMMA InitTInv == Init => TInv
<1> SUFFICES ASSUME Init PROVE TInv
    OBVIOUS
<1>1. TypeOK
    <2>1. result \in [Results -> Rows] /\ \A r \in Results : result[r].disposition = None
        BY RowTypes DEF Init
    <2>2. finding \in [Findings -> {"ABSENT", "OPEN"} \cup ReviewStatuses]
        BY DEF Init
    <2>3. request \in [Analysts -> [at : {"away", "opened", "compared", "loaded"},
                                   of : Results \cup {None},
                                   disposition : Dispositions \cup {None},
                                   row : Rows,
                                   others : SUBSET ScreeningStates,
                                   case : ScreeningStates \cup {None}]]
        BY RowTypes DEF Init
    <2>4. reviews \in 0..MaxReviews
        BY ConstantsAssumption DEF Init
    <2> QED
        BY <2>1, <2>2, <2>3, <2>4 DEF Init, TypeOK
<1>2. Requested
    BY RowTypes DEF Init, Requested
<1>3. NothingBefore
    BY DEF Init, NothingBefore
<1> QED
    BY <1>1, <1>2, <1>3 DEF TInv

LEMMA StepTInv == TInv /\ [Next]_vars => TInv'
<1> SUFFICES ASSUME TInv, [Next]_vars PROVE TInv'
    OBVIOUS
<1> USE DEF table
<1>1. ASSUME NEW hit \in [Results -> {"ABSENT"} \cup HitStates], NEW complete \in BOOLEAN,
             NEW raised \in SUBSET Findings, Screen(hit, complete, raised)
      PROVE  TInv'
    <2>2. result' = [r \in Results |-> [state |-> hit[r], disposition |-> None]]
        <3>1. \A r \in Results :
                  [Absent EXCEPT !.state = hit[r]] = [state |-> hit[r], disposition |-> None]
            BY DEF Absent
        <3> QED
            BY <1>1, <3>1 DEF Screen
    <2>3. screening' \in ScreeningStates \cup {None}
        <3>1. {hit[r] : r \in Results} \ {"ABSENT"} \in SUBSET ScreeningStates
            BY HitStatesType
        <3>2. "NO_MATERIAL_MATCH" \in ScreeningStates
            BY DEF ScreeningStates, Order
        <3> QED
            BY <1>1, <3>1, <3>2, WorstOfStates DEF Screen
    <2>4. result' \in [Results -> Rows] /\ \A r \in Results : result'[r].disposition = None
        BY <2>2, HitStatesType DEF Rows
    <2>5. finding' \in [Findings -> {"ABSENT", "OPEN"} \cup ReviewStatuses]
        BY <1>1 DEF Screen
    <2>6. TypeOK'
        BY <1>1, <2>3, <2>4, <2>5 DEF Screen, TInv, TypeOK
    <2>7. \A a \in Analysts : request'[a].at = "away"
        BY <1>1, RowTypes DEF Screen, TInv, NothingBefore, Requested
    <2> QED
        BY <1>1, <2>6, <2>7 DEF Screen, TInv, Requested, NothingBefore
<1>2. ASSUME NEW a \in Analysts, NEW r \in Results, NEW d \in Dispositions, Open(a, r, d)
      PROVE  TInv'
    <2> DEFINE opened == [Away EXCEPT !.at = "opened", !.of = r, !.disposition = d,
                                      !.row = result[r]]
    <2>1. /\ opened.at = "opened" /\ opened.of = r /\ opened.disposition = d
          /\ opened.row = result[r]
        BY DEF Away
    <2>2. opened \in [at : {"away", "opened", "compared", "loaded"},
                      of : Results \cup {None},
                      disposition : Dispositions \cup {None},
                      row : Rows,
                      others : SUBSET ScreeningStates,
                      case : ScreeningStates \cup {None}]
        BY RowTypes DEF TInv, TypeOK
    <2>3. request' = [request EXCEPT ![a] = opened]
        BY <1>2 DEF Open
    <2> HIDE DEF opened
    <2>4. reviews' \in 0..MaxReviews
        BY <1>2, ConstantsAssumption DEF Open, TInv, TypeOK
    <2>5. TypeOK'
        BY <1>2, <2>2, <2>3, <2>4 DEF Open, TInv, TypeOK
    <2> QED
        BY <1>2, <2>1, <2>3, <2>5 DEF Open, TInv, TypeOK, Requested, NothingBefore
<1>3. ASSUME NEW a \in Analysts, Compare(a) PROVE TInv'
    <2> DEFINE req == [request[a] EXCEPT !.at = "compared", !.others = Others(request[a].of)]
    <2>1. Others(request[a].of) \in SUBSET ScreeningStates
        BY DEF Others, Rows, TInv, TypeOK
    <2>2. req \in ReviewRecords /\ req.of = request[a].of /\ req.row = request[a].row
          /\ req.disposition = request[a].disposition
        BY <2>1 DEF TInv, TypeOK, ReviewRecords
    <2>3. request[a].at # "away" /\ request' = [request EXCEPT ![a] = req]
          /\ UNCHANGED <<screened, covered, table, reviews, crossed>>
        BY <1>3 DEF Compare
    <2> HIDE DEF req
    <2> QED
        BY <2>2, <2>3, ReviewMovesOn
<1>4. ASSUME NEW a \in Analysts, LoadCase(a) PROVE TInv'
    <2> DEFINE req == [request[a] EXCEPT !.at = "loaded", !.case = screening]
    <2>1. req \in ReviewRecords /\ req.of = request[a].of /\ req.row = request[a].row
          /\ req.disposition = request[a].disposition
        BY DEF TInv, TypeOK, ReviewRecords
    <2>2. request[a].at # "away" /\ request' = [request EXCEPT ![a] = req]
          /\ UNCHANGED <<screened, covered, table, reviews, crossed>>
        BY <1>4 DEF LoadCase
    <2> HIDE DEF req
    <2> QED
        BY <2>1, <2>2, ReviewMovesOn
<1>5. ASSUME NEW a \in Analysts, Abandon(a) PROVE TInv'
    BY <1>5, RowTypes DEF Abandon, TInv, TypeOK, Requested, NothingBefore
<1>6. ASSUME NEW f \in Findings, NEW status \in ReviewStatuses, ReviewFinding(f, status)
      PROVE  TInv'
    BY <1>6 DEF ReviewFinding, TInv, TypeOK, Requested, NothingBefore
<1>7. ASSUME NEW a \in Analysts, Commit(a) PROVE TInv'
    <2> DEFINE q == request[a]
               new == StateFor(q.disposition)
               state == Written(q.row.state, new, result[q.of].state)
               disposition == Written(q.row.disposition, q.disposition, result[q.of].disposition)
    <2>1. q.of \in Results /\ q.disposition \in Dispositions /\ result[q.of].state # "ABSENT"
        BY <1>7 DEF Commit, TInv, Requested
    <2>2. new \in ScreeningStates
        BY <2>1, StateForType
    <2>3. state \in ScreeningStates /\ disposition \in Dispositions \cup {None}
        BY <2>1, <2>2 DEF Written, TInv, TypeOK, Rows
    <2>4. result' = [result EXCEPT ![q.of] = [state |-> state, disposition |-> disposition]]
        BY <1>7 DEF Commit
    <2>5. screening' \in ScreeningStates \cup {None}
        <3>1. q.others \cup {new} \in SUBSET ScreeningStates /\ q.others \cup {new} # {}
            BY <2>2 DEF TInv, TypeOK
        <3> QED
            BY <1>7, <3>1, WorstOfStates DEF Commit, Written, TInv, TypeOK
    <2>6. decisions' \subseteq Results \X Dispositions
        BY <1>7, <2>1 DEF Commit, TInv, TypeOK
    <2>7. result' \in [Results -> Rows] /\ result'[q.of].state # "ABSENT"
        <3>1. [state |-> state, disposition |-> disposition] \in Rows
            BY <2>3 DEF Rows
        <3> HIDE DEF state, disposition
        <3> QED
            BY <2>1, <2>3, <2>4, <3>1, RowTypes DEF TInv, TypeOK
    <2>8. \A r \in Results : r # q.of => result'[r] = result[r]
        BY <2>4 DEF TInv, TypeOK
    <2>9. TypeOK'
        BY <1>7, <2>5, <2>6, <2>7, <2>8, RowTypes DEF Commit, TInv, TypeOK
    <2>10. Requested'
        BY <1>7, <2>7, <2>8, RowTypes DEF Commit, TInv, TypeOK, Requested
    <2>11. NothingBefore'
        BY <1>7, <2>1, RowTypes DEF Commit, TInv, NothingBefore
    <2> QED
        BY <2>9, <2>10, <2>11 DEF TInv
<1>8. CASE UNCHANGED vars
    BY <1>8 DEF vars, TInv, TypeOK, Requested, NothingBefore
<1> QED
    BY <1>1, <1>2, <1>3, <1>4, <1>5, <1>6, <1>7, <1>8 DEF Next, Review

-----------------------------------------------------------------------------
(* Confirmations                                                           *)

\* Some result has been confirmed by an analyst.
Decided == \E r \in Results : <<r, "CONFIRMED_MATCH">> \in decisions

\* What a review has read of the other results is confirmed only if an analyst
\* did: it may be what its commit writes on the case.
ReadConfirmed == \A a \in Analysts : "CONFIRMED_MATCH" \in request[a].others => Decided

CInv == TInv /\ ConfirmedByAnalyst /\ ReadConfirmed

LEMMA InitCInv == Init => CInv
<1> SUFFICES ASSUME Init PROVE CInv
    OBVIOUS
<1>1. ConfirmedByAnalyst /\ ReadConfirmed
    BY RowTypes, NoneIsNoState DEF Init, ConfirmedByAnalyst, ReadConfirmed
<1> QED
    BY <1>1, InitTInv DEF CInv

\* No step takes a decision back; only a review confirms.
LEMMA StepCInv == CInv /\ [Next]_vars => CInv'
<1> SUFFICES ASSUME CInv, [Next]_vars PROVE CInv'
    OBVIOUS
<1>t. TInv /\ TInv'
    BY StepTInv DEF CInv
<1> SUFFICES ConfirmedByAnalyst' /\ ReadConfirmed'
    BY <1>t DEF CInv
<1> USE DEF table, CInv, ConfirmedByAnalyst, ReadConfirmed, Decided
<1>1. ASSUME NEW hit \in [Results -> {"ABSENT"} \cup HitStates], NEW complete \in BOOLEAN,
             NEW raised \in SUBSET Findings, Screen(hit, complete, raised)
      PROVE  ConfirmedByAnalyst' /\ ReadConfirmed'
    <2>1. "CONFIRMED_MATCH" \notin HitStates
        BY DEF HitStates
    <2>2. \A r \in Results : result'[r].state = hit[r]
        BY <1>1 DEF Screen, Absent
    <2>3. screening' # "CONFIRMED_MATCH"
        <3> DEFINE states == {hit[r] : r \in Results} \ {"ABSENT"}
        <3>1. states \in SUBSET ScreeningStates /\ "CONFIRMED_MATCH" \notin states
            BY <2>1, HitStatesType
        <3>2. CASE states = {}
            BY <1>1, <3>2, NoneIsNoState DEF Screen
        <3>3. CASE states # {}
            BY <1>1, <3>1, <3>3, WorstOfStates DEF Screen
        <3> QED
            BY <3>2, <3>3
    <2> QED
        BY <1>1, <2>1, <2>2, <2>3 DEF Screen
<1>2. ASSUME NEW a \in Analysts, NEW r \in Results, NEW d \in Dispositions, Open(a, r, d)
      PROVE  ConfirmedByAnalyst' /\ ReadConfirmed'
    <2>1. /\ \A b \in Analysts : b # a => request'[b] = request[b]
          /\ request'[a].others = {}
        BY <1>2, <1>t DEF Open, Away, TInv, TypeOK
    <2> QED
        BY <1>2, <2>1 DEF Open
<1>3. ASSUME NEW a \in Analysts, Compare(a) PROVE ConfirmedByAnalyst' /\ ReadConfirmed'
    <2>1. /\ \A b \in Analysts : b # a => request'[b] = request[b]
          /\ request'[a].others = Others(request[a].of)
        BY <1>3, <1>t DEF Compare, TInv, TypeOK
    <2>2. "CONFIRMED_MATCH" \in Others(request[a].of) => Decided
        BY DEF Others
    <2> QED
        BY <1>3, <2>1, <2>2 DEF Compare
<1>4. ASSUME NEW a \in Analysts, LoadCase(a) PROVE ConfirmedByAnalyst' /\ ReadConfirmed'
    <2>1. \A b \in Analysts : request'[b].others = request[b].others
        BY <1>4, <1>t DEF LoadCase, TInv, TypeOK
    <2> QED
        BY <1>4, <2>1 DEF LoadCase
<1>5. ASSUME NEW a \in Analysts, Abandon(a) PROVE ConfirmedByAnalyst' /\ ReadConfirmed'
    BY <1>5, <1>t, RowTypes DEF Abandon, TInv, TypeOK
<1>6. ASSUME NEW f \in Findings, NEW status \in ReviewStatuses, ReviewFinding(f, status)
      PROVE  ConfirmedByAnalyst' /\ ReadConfirmed'
    BY <1>6 DEF ReviewFinding
<1>7. ASSUME NEW a \in Analysts, Commit(a) PROVE ConfirmedByAnalyst' /\ ReadConfirmed'
    <2> DEFINE q == request[a]
               new == StateFor(q.disposition)
    <2>1. q.of \in Results /\ q.disposition \in Dispositions
        BY <1>7, <1>t DEF Commit, TInv, Requested
    <2>2. decisions' = decisions \cup {<<q.of, q.disposition>>}
        BY <1>7 DEF Commit
    <2>3. new = "CONFIRMED_MATCH" => <<q.of, "CONFIRMED_MATCH">> \in decisions'
        BY <2>1, <2>2 DEF StateFor, Dispositions
    <2>4. ASSUME NEW r \in Results, result'[r].state = "CONFIRMED_MATCH"
          PROVE  <<r, "CONFIRMED_MATCH">> \in decisions'
        <3>1. CASE r = q.of
            <4>1. result'[r].state \in {new, result[r].state}
                BY <1>7, <3>1, <1>t DEF Commit, Written, TInv, TypeOK
            <4> QED
                BY <2>2, <2>3, <2>4, <3>1, <4>1
        <3>2. CASE r # q.of
            BY <1>7, <1>t, <2>2, <2>4, <3>2 DEF Commit, TInv, TypeOK
        <3> QED
            BY <3>1, <3>2
    <2>5. ASSUME screening' = "CONFIRMED_MATCH" PROVE Decided'
        <3>1. q.others \cup {new} \in SUBSET ScreeningStates
            BY <2>1, <1>t, StateForType DEF TInv, TypeOK
        <3>2. screening' = screening \/ screening' \in q.others \cup {new}
            BY <1>7, <3>1, WorstOfStates DEF Commit, Written
        <3> QED
            BY <2>1, <2>2, <2>3, <2>5, <3>2
    <2>6. ReadConfirmed'
        <3>1. \A b \in Analysts : request'[b] = request[b] \/ request'[b].others = {}
            BY <1>7, <1>t, RowTypes DEF Commit, TInv, TypeOK
        <3> QED
            BY <2>2, <3>1
    <2> QED
        BY <2>4, <2>5, <2>6
<1>8. CASE UNCHANGED vars
    BY <1>8 DEF vars
<1> QED
    BY <1>1, <1>2, <1>3, <1>4, <1>5, <1>6, <1>7, <1>8 DEF Next, Review

-----------------------------------------------------------------------------
(* Decisions                                                               *)

\* What a review has loaded of a result is still its state, or an analyst has
\* decided that state since.
ReadOrDecided ==
    \A a \in Analysts : request[a].at # "away" =>
        LET r == request[a].of IN
        request[a].row.state = result[r].state \/ result[r].state \in DecidedStates(r)

\* StateWasDecided is not inductive alone: a commit that leaves a column because
\* it has the new value already had loaded it earlier.
DInv == TInv /\ StateWasDecided /\ ReadOrDecided

LEMMA InitDInv == Init => DInv
<1> SUFFICES ASSUME Init PROVE DInv
    OBVIOUS
<1>1. StateWasDecided /\ ReadOrDecided
    BY RowTypes DEF Init, StateWasDecided, ReadOrDecided
<1> QED
    BY <1>1, InitTInv DEF DInv

\* No step takes a decision back, and a commit writes only what it decides.
LEMMA StepDInv == DInv /\ [Next]_vars => DInv'
<1> SUFFICES ASSUME DInv, [Next]_vars PROVE DInv'
    OBVIOUS
<1>t. TInv /\ TInv'
    BY StepTInv DEF DInv
<1> SUFFICES StateWasDecided' /\ ReadOrDecided'
    BY <1>t DEF DInv
<1> USE DEF table
<1>i. /\ \A r \in Results : result[r].disposition # None =>
             /\ <<r, result[r].disposition>> \in decisions
             /\ result[r].state \in DecidedStates(r)
      /\ \A a \in Analysts : request[a].at # "away" =>
             \/ request[a].row.state = result[request[a].of].state
             \/ result[request[a].of].state \in DecidedStates(request[a].of)
    BY DEF DInv, StateWasDecided, ReadOrDecided
\* A step that neither decides nor writes, and reads nothing but rows as they are.
<1>s. ASSUME UNCHANGED <<result, decisions>>,
             \A b \in Analysts : request'[b].at # "away" =>
                \/ request'[b].row = result[request'[b].of]
                \/ /\ request[b].at # "away"
                   /\ request'[b].of = request[b].of /\ request'[b].row = request[b].row
      PROVE  StateWasDecided' /\ ReadOrDecided'
    <2>1. \A r : DecidedStates(r)' = DecidedStates(r)
        BY <1>s DEF DecidedStates
    <2> QED
        BY <1>i, <1>s, <2>1 DEF StateWasDecided, ReadOrDecided
<1>1. ASSUME NEW hit \in [Results -> {"ABSENT"} \cup HitStates], NEW complete \in BOOLEAN,
             NEW raised \in SUBSET Findings, Screen(hit, complete, raised)
      PROVE  StateWasDecided' /\ ReadOrDecided'
    <2>1. \A r \in Results : result'[r].disposition = None
        BY <1>1 DEF Screen, Absent
    <2>2. \A b \in Analysts : request'[b].at = "away"
        BY <1>1, <1>t, RowTypes DEF Screen, TInv, Requested, NothingBefore
    <2> QED
        BY <2>1, <2>2 DEF StateWasDecided, ReadOrDecided
<1>2. ASSUME NEW a \in Analysts, NEW r \in Results, NEW d \in Dispositions, Open(a, r, d)
      PROVE  StateWasDecided' /\ ReadOrDecided'
    <2>1. /\ request'[a].of = r /\ request'[a].row = result[r]
          /\ \A b \in Analysts : b # a => request'[b] = request[b]
        BY <1>2, <1>t DEF Open, Away, TInv, TypeOK
    <2>2. UNCHANGED <<result, decisions>>
        BY <1>2 DEF Open
    <2> QED
        BY <1>s, <2>1, <2>2
<1>3. ASSUME NEW a \in Analysts, Compare(a) \/ LoadCase(a)
      PROVE  StateWasDecided' /\ ReadOrDecided'
    <2>1. /\ request[a].at # "away"
          /\ request'[a].of = request[a].of /\ request'[a].row = request[a].row
          /\ \A b \in Analysts : b # a => request'[b] = request[b]
        BY <1>3, <1>t DEF Compare, LoadCase, TInv, TypeOK
    <2>2. UNCHANGED <<result, decisions>>
        BY <1>3 DEF Compare, LoadCase
    <2> QED
        BY <1>s, <2>1, <2>2
<1>4. ASSUME NEW a \in Analysts, Abandon(a) PROVE StateWasDecided' /\ ReadOrDecided'
    <2>1. /\ request'[a].at = "away"
          /\ \A b \in Analysts : b # a => request'[b] = request[b]
        BY <1>4, <1>t, RowTypes DEF Abandon, TInv, TypeOK
    <2>2. UNCHANGED <<result, decisions>>
        BY <1>4 DEF Abandon
    <2> QED
        BY <1>s, <2>1, <2>2
<1>5. ASSUME NEW f \in Findings, NEW status \in ReviewStatuses, ReviewFinding(f, status)
      PROVE  StateWasDecided' /\ ReadOrDecided'
    BY <1>5, <1>s DEF ReviewFinding
<1>6. ASSUME NEW a \in Analysts, Commit(a) PROVE StateWasDecided' /\ ReadOrDecided'
    <2>1. PICK q \in Results, d \in Dispositions :
              /\ request[a].at # "away"
              /\ request[a].of = q /\ request[a].disposition = d
        BY <1>6, <1>t DEF Commit, TInv, Requested
    <2>2. decisions' = decisions \cup {<<q, d>>}
        BY <1>6, <2>1 DEF Commit
    <2>3. StateFor(d) \in DecidedStates(q)' /\ \A r : DecidedStates(r) \subseteq DecidedStates(r)'
        BY <2>1, <2>2 DEF DecidedStates
    <2>4. /\ result'[q].state = Written(request[a].row.state, StateFor(d), result[q].state)
          /\ result'[q].disposition = Written(request[a].row.disposition, d, result[q].disposition)
          /\ \A r \in Results : r # q => result'[r] = result[r]
        BY <1>6, <2>1, <1>t DEF Commit, TInv, TypeOK
    <2>5. /\ request'[a].at = "away"
          /\ \A b \in Analysts : b # a => request'[b] = request[b]
        BY <1>6, <1>t, RowTypes DEF Commit, TInv, TypeOK
    <2>6. result'[q].state \in DecidedStates(q)'
        BY <1>i, <2>1, <2>3, <2>4 DEF Written
    <2>7. StateWasDecided'
        <3> SUFFICES ASSUME NEW r \in Results, result'[r].disposition # None
                     PROVE  /\ <<r, result'[r].disposition>> \in decisions'
                            /\ result'[r].state \in DecidedStates(r)'
            BY DEF StateWasDecided
        <3>1. CASE r = q
            <4>1. result'[r].disposition \in {d, result[r].disposition}
                BY <2>4, <3>1 DEF Written
            <4> QED
                BY <1>i, <2>2, <2>6, <3>1, <4>1
        <3>2. CASE r # q
            BY <1>i, <2>2, <2>3, <2>4, <3>2
        <3> QED
            BY <3>1, <3>2
    <2>8. ReadOrDecided'
        <3>1. ASSUME NEW b \in Analysts, NEW r \in Results,
                     request'[b].at # "away", request'[b].of = r
              PROVE  \/ request'[b].row.state = result'[r].state
                     \/ result'[r].state \in DecidedStates(r)'
            <4>1. request'[b] = request[b]
                BY <2>5, <3>1
            <4>2. CASE r = q
                BY <2>6, <4>2
            <4>3. CASE r # q
                BY <1>i, <2>3, <2>4, <3>1, <4>1, <4>3
            <4> QED
                BY <4>2, <4>3
        <3>2. \A b \in Analysts : request'[b].at # "away" => request'[b].of \in Results
            BY <1>t DEF TInv, Requested
        <3> QED
            BY <3>1, <3>2 DEF ReadOrDecided
    <2> QED
        BY <2>7, <2>8
<1>7. CASE UNCHANGED vars
    BY <1>7, <1>s DEF vars
<1> QED
    BY <1>1, <1>2, <1>3, <1>4, <1>5, <1>6, <1>7 DEF Next, Review

-----------------------------------------------------------------------------
(* Reviews that do not cross                                               *)

\* What a review has read is still what the database holds.
ReadIsCurrent ==
    \A a \in Analysts :
        /\ request[a].at # "away" => request[a].row = result[request[a].of]
        /\ request[a].at \in {"compared", "loaded"} =>
              request[a].others = Others(request[a].of)
        /\ request[a].at = "loaded" => request[a].case = screening

\* CaseShowsWorst is not inductive alone: a commit that writes only the columns
\* that differ from what was read is right only if they have not changed since.
OInv == TInv /\ (~crossed => ReadIsCurrent) /\ CaseShowsWorst

LEMMA InitOInv == Init => OInv
<1> SUFFICES ASSUME Init PROVE OInv
    OBVIOUS
<1>1. ReadIsCurrent
    BY RowTypes DEF Init, ReadIsCurrent
<1>2. CaseShowsWorst
    BY RowTypes DEF Init, CaseShowsWorst, Retained
<1> QED
    BY <1>1, <1>2, InitTInv DEF OInv

\* The commit of a review whose reading is current.
LEMMA CommitApart ==
    ASSUME OInv, ~crossed', NEW a \in Analysts, Commit(a)
    PROVE  ReadIsCurrent' /\ CaseShowsWorst'
<1> DEFINE q == request[a]
           new == StateFor(q.disposition)
<1>t. TInv
    BY DEF OInv
<1>c. ~crossed /\ ~Crossing(a)
    BY DEF Commit
<1>1. /\ q.of \in Results
      /\ q.disposition \in Dispositions
      /\ result[q.of].state # "ABSENT"
      /\ q.row = result[q.of]
      /\ q.others = Others(q.of)
      /\ q.case = screening
    BY <1>c, <1>t DEF Commit, TInv, Requested, OInv, ReadIsCurrent
<1>2. new \in ScreeningStates
    BY <1>1, StateForType
<1>3. result' = [result EXCEPT ![q.of] = [state |-> new, disposition |-> q.disposition]]
    BY <1>1, <1>t DEF Commit, Written, TInv, TypeOK
<1>4. screening' = Worst(Others(q.of) \cup {new})
    BY <1>1 DEF Commit, Written
<1> HIDE DEF new
<1>5. /\ result'[q.of].state = new
      /\ result'[q.of].disposition = q.disposition
      /\ \A r \in Results : r # q.of => result'[r] = result[r]
    BY <1>1, <1>3, <1>t DEF TInv, TypeOK
<1>6. {result'[r].state : r \in Retained'} = Others(q.of) \cup {new}
    BY <1>1, <1>2, <1>5, RowTypes DEF Retained, Others
<1>7. CaseShowsWorst'
    BY <1>4, <1>6 DEF CaseShowsWorst
<1>9. ReadIsCurrent'
    <2>1. /\ request'[a].at = "away"
          /\ \A b \in Analysts : b # a => request'[b] = request[b]
        BY <1>t, RowTypes DEF Commit, TInv, TypeOK
    <2>2. ASSUME NEW b \in Analysts, b # a, request[b].at # "away"
          PROVE  /\ request[b].at = "opened"
                 /\ request[b].row = result'[request[b].of]
        <3>1. request[b].at = "opened" /\ request[b].of # q.of
            BY <1>c, <2>2 DEF Crossing
        <3>2. request[b].of \in Results
            BY <1>t, <2>2 DEF TInv, Requested
        <3> QED
            BY <1>5, <1>c, <2>2, <3>1, <3>2 DEF OInv, ReadIsCurrent
    <2> QED
        BY <2>1, <2>2 DEF ReadIsCurrent
<1> QED
    BY <1>7, <1>9

\* What has crossed has crossed.
LEMMA StepCrossed == ASSUME [Next]_vars PROVE crossed => crossed'
<1>1. ASSUME NEW a \in Analysts, Commit(a) PROVE crossed => crossed'
    BY <1>1 DEF Commit
<1>2. ASSUME NEW a \in Analysts, ~Commit(a), Review(a) PROVE crossed' = crossed
    BY <1>2 DEF Review, Open, Compare, LoadCase, Abandon
<1>3. ASSUME NEW hit \in [Results -> {"ABSENT"} \cup HitStates], NEW complete \in BOOLEAN,
             NEW raised \in SUBSET Findings, Screen(hit, complete, raised)
      PROVE  crossed' = crossed
    BY <1>3 DEF Screen
<1>4. ASSUME NEW f \in Findings, NEW status \in ReviewStatuses, ReviewFinding(f, status)
      PROVE  crossed' = crossed
    BY <1>4 DEF ReviewFinding
<1>5. CASE UNCHANGED vars
    BY <1>5 DEF vars
<1> QED
    BY <1>1, <1>2, <1>3, <1>4, <1>5 DEF Next

LEMMA StepOInv == OInv /\ [Next]_vars => OInv'
<1> SUFFICES ASSUME OInv, [Next]_vars PROVE OInv'
    OBVIOUS
<1>t. TInv /\ TInv'
    BY StepTInv DEF OInv
<1> SUFFICES ASSUME ~crossed' PROVE ReadIsCurrent' /\ CaseShowsWorst'
    BY <1>t DEF OInv, CaseShowsWorst
<1> USE DEF table
<1>r. ~crossed /\ ReadIsCurrent
    BY StepCrossed DEF OInv
<1>u. ASSUME UNCHANGED <<result, screening>>
      PROVE  CaseShowsWorst'
    BY <1>r, <1>u DEF OInv, CaseShowsWorst, Retained
<1>1. ASSUME NEW hit \in [Results -> {"ABSENT"} \cup HitStates], NEW complete \in BOOLEAN,
             NEW raised \in SUBSET Findings, Screen(hit, complete, raised)
      PROVE  ReadIsCurrent' /\ CaseShowsWorst'
    <2>1. \A r \in Results : result'[r].state = hit[r] /\ result'[r].disposition = None
        BY <1>1 DEF Screen, Absent
    <2>2. {result'[r].state : r \in Retained'} = {hit[r] : r \in Results} \ {"ABSENT"}
        BY <2>1 DEF Retained
    <2>3. Retained' # {} => {hit[r] : r \in Results} \ {"ABSENT"} # {}
        BY <2>1 DEF Retained
    <2>4. CaseShowsWorst'
        BY <1>1, <2>2, <2>3 DEF Screen, CaseShowsWorst
    <2>5. \A b \in Analysts : request'[b].at = "away"
        BY <1>1, <1>t, RowTypes DEF Screen, TInv, Requested, NothingBefore
    <2> QED
        BY <1>r, <2>1, <2>4, <2>5 DEF ReadIsCurrent
<1>2. ASSUME NEW a \in Analysts, NEW r \in Results, NEW d \in Dispositions, Open(a, r, d)
      PROVE  ReadIsCurrent' /\ CaseShowsWorst'
    <2>1. /\ request'[a].at = "opened"
          /\ request'[a].of = r
          /\ request'[a].row = result[r]
          /\ \A b \in Analysts : b # a => request'[b] = request[b]
        BY <1>2, <1>t DEF Open, Away, TInv, TypeOK
    <2>2. UNCHANGED <<result, screening>> /\ \A r1 : Others(r1)' = Others(r1)
        BY <1>2 DEF Open, Others
    <2>3. ReadIsCurrent'
        BY <1>r, <2>1, <2>2 DEF ReadIsCurrent
    <2> QED
        BY <1>2, <1>u, <2>3 DEF Open
<1>3. ASSUME NEW a \in Analysts, Compare(a)
      PROVE  ReadIsCurrent' /\ CaseShowsWorst'
    <2>1. /\ request'[a].at = "compared"
          /\ request'[a].of = request[a].of
          /\ request'[a].row = request[a].row
          /\ request'[a].others = Others(request[a].of)
          /\ \A b \in Analysts : b # a => request'[b] = request[b]
        BY <1>3, <1>t DEF Compare, TInv, TypeOK
    <2>2. /\ request[a].row = result[request[a].of]
          /\ UNCHANGED <<result, screening>>
        BY <1>r, <1>3 DEF Compare, ReadIsCurrent
    <2>3. \A r : Others(r)' = Others(r)
        BY <2>2 DEF Others
    <2>5. ReadIsCurrent'
        BY <1>r, <2>1, <2>2, <2>3 DEF ReadIsCurrent
    <2> QED
        BY <1>3, <1>u, <2>5 DEF Compare
<1>4. ASSUME NEW a \in Analysts, LoadCase(a)
      PROVE  ReadIsCurrent' /\ CaseShowsWorst'
    <2>1. /\ request'[a].at = "loaded"
          /\ request'[a].of = request[a].of
          /\ request'[a].row = request[a].row
          /\ request'[a].others = request[a].others
          /\ request'[a].case = screening
          /\ \A b \in Analysts : b # a => request'[b] = request[b]
        BY <1>4, <1>t DEF LoadCase, TInv, TypeOK
    <2>2. /\ request[a].row = result[request[a].of]
          /\ request[a].others = Others(request[a].of)
          /\ result' = result
          /\ screening' = screening
        BY <1>r, <1>4 DEF LoadCase, ReadIsCurrent
    <2>3. \A r : Others(r)' = Others(r)
        BY <2>2 DEF Others
    <2>5. ReadIsCurrent'
        BY <1>r, <2>1, <2>2, <2>3 DEF ReadIsCurrent
    <2> QED
        BY <1>4, <1>u, <2>5 DEF LoadCase
<1>5. ASSUME NEW a \in Analysts, Abandon(a)
      PROVE  ReadIsCurrent' /\ CaseShowsWorst'
    <2>1. /\ request'[a].at = "away"
          /\ \A b \in Analysts : b # a => request'[b] = request[b]
        BY <1>5, <1>t, RowTypes DEF Abandon, TInv, TypeOK
    <2>2. UNCHANGED <<result, screening>> /\ \A r : Others(r)' = Others(r)
        BY <1>5 DEF Abandon, Others
    <2>3. ReadIsCurrent'
        BY <1>r, <2>1, <2>2 DEF ReadIsCurrent
    <2> QED
        BY <1>u, <2>2, <2>3
<1>6. ASSUME NEW f \in Findings, NEW status \in ReviewStatuses, ReviewFinding(f, status)
      PROVE  ReadIsCurrent' /\ CaseShowsWorst'
    BY <1>r, <1>6, <1>u DEF ReviewFinding, ReadIsCurrent, Others
<1>7. ASSUME NEW a \in Analysts, Commit(a)
      PROVE  ReadIsCurrent' /\ CaseShowsWorst'
    BY <1>7, CommitApart
<1>8. CASE UNCHANGED vars
    BY <1>r, <1>8, <1>u DEF vars, ReadIsCurrent, Others
<1> QED
    BY <1>1, <1>2, <1>3, <1>4, <1>5, <1>6, <1>7, <1>8 DEF Next, Review

-----------------------------------------------------------------------------
(* Theorems                                                                *)

\* Results, the case's state and the requests hold values of their types.
THEOREM TypeCorrect == Spec => []TypeOK
<1>1. TInv => TypeOK
    BY DEF TInv
<1> QED
    BY <1>1, InitTInv, StepTInv, PTL DEF Spec

\* A match is CONFIRMED, on a result or on the case, only when an analyst has
\* decided so, however many reviews overlap (review_screening).
THEOREM AnalystsConfirm == Spec => []ConfirmedByAnalyst
<1>1. CInv => ConfirmedByAnalyst
    BY DEF CInv
<1> QED
    BY <1>1, InitCInv, StepCInv, PTL DEF Spec

\* However many reviews overlap, a reviewed result has a disposition and a state
\* that an analyst decided for it (review_screening).
THEOREM DecisionsAreKept == Spec => []StateWasDecided
<1>1. DInv => StateWasDecided
    BY DEF DInv
<1> QED
    BY <1>1, InitDInv, StepDInv, PTL DEF Spec

\* A case with hits shows the worst of them, whatever reviews overlap, until one
\* commits while another has read what it changes (review_screening,
\* _run_screening).
THEOREM WorstIsShown == Spec => []CaseShowsWorst
<1>1. OInv => CaseShowsWorst
    BY DEF OInv
<1> QED
    BY <1>1, StepOInv, InitOInv, PTL DEF Spec

=============================================================================
