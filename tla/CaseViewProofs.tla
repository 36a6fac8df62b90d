--------------------------- MODULE CaseViewProofs ---------------------------
(***************************************************************************)
(* Theorems about CaseView for every set of results, findings and analysts *)
(* and any number of failed fetches: the page beside its server is the     *)
(* server of ScreeningReview, the lists it shows once settled are those of *)
(* the run it shows as completed, and they show the reviews the page was   *)
(* told of, however many other analysts review at the same time.           *)
(***************************************************************************)
EXTENDS CaseView, ScreeningReviewProofs

-----------------------------------------------------------------------------
(* The server behind the page                                              *)

\* Every step of the page and its server is a step of the server, or none.
LEMMA ServerStep == [NextPage]_<<vars, page>> => [Next]_vars
<1> SUFFICES ASSUME [NextPage]_<<vars, page>> PROVE [Next]_vars
    OBVIOUS
<1>1. CASE PageStep /\ UNCHANGED vars
    BY <1>1
<1>2. CASE Server
    <2>1. Next
        BY <1>2 DEF Server, Next
    <2> QED
        BY <2>1
<1>3. ASSUME NEW a \in Analysts, NEW r \in Results, NEW d \in Dispositions, Submit(a, r, d)
      PROVE  [Next]_vars
    <2>1. Review(a)
        BY <1>3 DEF Submit, Review
    <2> QED
        BY <2>1 DEF Next
<1>4. ASSUME NEW a \in Analysts, Handle(a) PROVE [Next]_vars
    <2>1. Review(a)
        BY <1>4 DEF Handle, Review
    <2> QED
        BY <2>1 DEF Next
<1>5. CASE UNCHANGED <<vars, page>>
    BY <1>5
<1> QED
    BY <1>1, <1>2, <1>3, <1>4, <1>5 DEF NextPage

\* A disposition a review has read is one the result still has.
ReadsDisposed ==
    \A a \in Analysts :
        request[a].at # "away" /\ request[a].row.disposition # None =>
            result[request[a].of].disposition # None

SInv == TInv /\ ReadsDisposed

\* What the server never takes back: the run, which hits it found, and that a
\* result is disposed of.
Lasting ==
    /\ screened => /\ screened'
                   /\ \A r \in Results :
                         (result'[r].state = "ABSENT") = (result[r].state = "ABSENT")
    /\ \A r \in Results : result[r].disposition # None => result'[r].disposition # None

LEMMA InitSInv == Init => SInv
BY InitTInv, RowTypes DEF Init, SInv, ReadsDisposed

LEMMA StepSInv == SInv /\ [Next]_vars => SInv' /\ Lasting
<1> SUFFICES ASSUME SInv, [Next]_vars PROVE ReadsDisposed' /\ Lasting
    BY StepTInv DEF SInv
<1>t. TInv /\ TInv'
    BY StepTInv DEF SInv
<1> USE DEF table
<1>u. ASSUME UNCHANGED <<screened, result>> PROVE Lasting
    BY <1>u DEF Lasting
<1>1. ASSUME NEW hit \in [Results -> {"ABSENT"} \cup HitStates], NEW complete \in BOOLEAN,
             NEW raised \in SUBSET Findings, Screen(hit, complete, raised)
      PROVE  ReadsDisposed' /\ Lasting
    <2>1. ~screened /\ \A r \in Results : result[r] = Absent
        BY <1>1, <1>t DEF Screen, TInv, NothingBefore
    <2>2. \A a \in Analysts : request'[a].at = "away"
        BY <1>1, <1>t, <2>1, RowTypes DEF Screen, TInv, Requested
    <2> QED
        BY <2>1, <2>2, RowTypes DEF ReadsDisposed, Lasting
<1>2. ASSUME NEW a \in Analysts, NEW r \in Results, NEW d \in Dispositions, Open(a, r, d)
      PROVE  ReadsDisposed' /\ Lasting
    <2>1. /\ request'[a].of = r /\ request'[a].row = result[r]
          /\ \A b \in Analysts : b # a => request'[b] = request[b]
          /\ result' = result
        BY <1>2, <1>t DEF Open, Away, TInv, TypeOK
    <2> QED
        BY <1>2, <1>u, <2>1 DEF Open, SInv, ReadsDisposed
<1>3. ASSUME NEW a \in Analysts, Compare(a) \/ LoadCase(a) PROVE ReadsDisposed' /\ Lasting
    <2>1. /\ request[a].at # "away"
          /\ request'[a].of = request[a].of /\ request'[a].row = request[a].row
          /\ \A b \in Analysts : b # a => request'[b] = request[b]
          /\ result' = result /\ screened' = screened
        BY <1>3, <1>t DEF Compare, LoadCase, TInv, TypeOK
    <2> QED
        BY <1>u, <2>1 DEF SInv, ReadsDisposed
<1>4. ASSUME NEW a \in Analysts, Abandon(a) PROVE ReadsDisposed' /\ Lasting
    <2>1. /\ request'[a].at = "away"
          /\ \A b \in Analysts : b # a => request'[b] = request[b]
          /\ result' = result /\ screened' = screened
        BY <1>4, <1>t, RowTypes DEF Abandon, TInv, TypeOK
    <2> QED
        BY <1>u, <2>1 DEF SInv, ReadsDisposed
<1>5. ASSUME NEW a \in Analysts, Commit(a) PROVE ReadsDisposed' /\ Lasting
    <2> DEFINE q == request[a]
               new == StateFor(q.disposition)
               state == Written(q.row.state, new, result[q.of].state)
               disposition == Written(q.row.disposition, q.disposition, result[q.of].disposition)
    <2>1. /\ q.of \in Results /\ q.disposition \in Dispositions
          /\ result[q.of].state # "ABSENT" /\ q.at # "away"
        BY <1>5, <1>t DEF Commit, TInv, Requested
    <2>2. new \in ScreeningStates
        BY <2>1, StateForType
    <2>3. state # "ABSENT"
        BY <2>1, <2>2, RowTypes DEF Written
    <2>4. disposition # None
        BY <2>1, NoneIsNoState DEF Written, SInv, ReadsDisposed
    <2>5. result' = [result EXCEPT ![q.of] = [state |-> state, disposition |-> disposition]]
        BY <1>5 DEF Commit
    <2> HIDE DEF state, disposition
    <2>6. /\ result'[q.of].state = state /\ result'[q.of].disposition = disposition
          /\ \A r \in Results : r # q.of => result'[r] = result[r]
        BY <1>t, <2>1, <2>5 DEF TInv, TypeOK
    <2>7. Lasting
        BY <1>5, <2>1, <2>3, <2>4, <2>6 DEF Lasting, Commit
    <2>8. /\ request'[a].at = "away"
          /\ \A b \in Analysts : b # a => request'[b] = request[b]
        BY <1>5, <1>t, RowTypes DEF Commit, TInv, TypeOK
    <2>9. ReadsDisposed'
        BY <1>t, <2>7, <2>8 DEF SInv, ReadsDisposed, Lasting, TInv, Requested
    <2> QED
        BY <2>7, <2>9
<1>6. ASSUME NEW f \in Findings, NEW status \in ReviewStatuses, ReviewFinding(f, status)
      PROVE  ReadsDisposed' /\ Lasting
    BY <1>6, <1>u DEF ReviewFinding, SInv, ReadsDisposed
<1>7. CASE UNCHANGED vars
    BY <1>7, <1>u DEF vars, SInv, ReadsDisposed
<1> QED
    BY <1>1, <1>2, <1>3, <1>4, <1>5, <1>6, <1>7 DEF Next, Review

-----------------------------------------------------------------------------
(* Types                                                                   *)

\* What the server may answer to each query.
Answers(k) ==
    CASE k = "case" -> CaseStates
      [] k = "screening" -> Lists
      [] k = "board" -> SUBSET (Results \cup Findings)

Fetches(k) == {Idle, Asked, Failed} \cup {[at |-> "answered", with |-> x] : x \in Answers(k)}

Mine == [request : Analysts \cup {None}, of : Results \cup {None}]

\* An answer of "COMPLETED" comes after the run; the page has a list before it
\* sends a review, and the review it waits for is the one its handler runs.
PTypes ==
    /\ data = [k \in Keys |-> data[k]]
    /\ \A k \in Keys : data[k] \in {None} \cup Answers(k)
    /\ flight = [k \in Keys |-> flight[k]]
    /\ \A k \in Keys : flight[k] \in Fetches(k)
    /\ tab \in Tabs \cup {"CLOSED"}
    /\ flight["board"] # Idle => tab # "CLOSED"
    /\ mine \in Mine
    /\ told \subseteq Results
    /\ failures \in 0..MaxFailures

Disposed(r) == result[r].disposition # None

ReviewsKept ==
    /\ mine.request # None =>
          /\ request[mine.request].at # "away"
          /\ mine.of = request[mine.request].of
    /\ mine.of # None => data["screening"] # None
    /\ Committed => Disposed(mine.of)
    /\ \A r \in told : Disposed(r)
    /\ told # {} => data["screening"] # None

\* A list without the reviews the page was told of is being replaced.
ReviewsListed ==
    \A r \in told :
        /\ flight["screening"] = Idle => data["screening"][r] = "disposed"
        /\ flight["screening"].at = "answered" => flight["screening"].with[r] = "disposed"

SeenComplete ==
    "COMPLETED" \in {data["case"], flight["case"].with} => screened

Fresh(list) == \A r \in Results : (list[r] = "absent") = (Listed(r) = "absent")

\* So is, once the page has seen the case complete, a list of before the run.
HitsListed ==
    ~overtaken /\ data["case"] = "COMPLETED" =>
        /\ Settled("screening") => Fresh(data["screening"])
        /\ flight["screening"].at = "answered" => Fresh(flight["screening"].with)

PInv == SInv /\ PTypes /\ ReviewsKept /\ ReviewsListed /\ SeenComplete /\ HitsListed

LEMMA Statuses ==
    /\ Idle.at = "idle" /\ Asked.at = "asked" /\ Failed.at = "failed"
    /\ Idle.with = None /\ Asked.with = None /\ Failed.with = None
    /\ None # "COMPLETED"
BY PageAssumption DEF Idle, Asked, Failed, CaseStates

LEMMA AnswerTyped == ASSUME TInv, NEW k \in Keys PROVE Answer(k) \in Answers(k)
<1>1. \A r \in Results : Listed(r) \in {"absent", "pending", "disposed"}
    BY DEF Listed
<1>2. Outstanding \subseteq Results \cup Findings
    BY DEF Outstanding
<1>3. CASE k = "case"
    BY <1>3 DEF Answer, Answers, CaseStates
<1>4. CASE k = "screening"
    BY <1>1, <1>4 DEF Answer, Answers, Lists
<1>5. CASE k = "board"
    BY <1>2, <1>5 DEF Answer, Answers
<1> QED
    BY <1>3, <1>4, <1>5 DEF Keys

LEMMA InitPInv == InitPage => PInv
<1> SUFFICES ASSUME InitPage PROVE PInv
    OBVIOUS
<1>1. SInv
    BY InitSInv DEF InitPage
<1>2. PTypes
    <2>1. "board" \in Keys
        BY DEF Keys
    <2>2. data = [k \in Keys |-> data[k]] /\ \A k \in Keys : data[k] = None
        BY DEF InitPage
    <2>3. flight = [k \in Keys |-> flight[k]] /\ \A k \in Keys : flight[k] = Idle
        BY DEF InitPage
    <2>4. mine \in Mine
        BY DEF InitPage, NoReview, Mine
    <2> QED
        BY <2>1, <2>2, <2>3, <2>4, PageAssumption DEF InitPage, PTypes, Fetches
<1>3. ReviewsKept /\ ReviewsListed
    BY DEF InitPage, ReviewsKept, ReviewsListed, Committed, NoReview
<1>4. SeenComplete /\ HitsListed
    BY Statuses DEF InitPage, SeenComplete, HitsListed, Keys
<1> QED
    BY <1>1, <1>2, <1>3, <1>4 DEF PInv

\* A refetched list is asked for, unless its first answer is on the way.
LEMMA Refetched ==
    ASSUME NEW fl, NEW keys
    PROVE  LET new == Refetch(fl, keys) IN
           /\ new = [k \in Keys |-> new[k]]
           /\ \A k \in Keys : new[k] \in {fl[k], Asked}
           /\ new["board"] = Asked /\ fl["board"] # Asked => tab = "BOARD"
           /\ "case" \notin keys => new["case"] = fl["case"]
           /\ "screening" \in keys =>
                 \/ new["screening"] = Asked
                 \/ /\ data["screening"] = None
                    /\ fl["screening"].at \notin {"idle", "failed"}
                    /\ new["screening"] = fl["screening"]
BY DEF Refetch, Enabled, Keys

-----------------------------------------------------------------------------
(* The steps of the page                                                   *)

LEMMA FlightTyped ==
    ASSUME PTypes, NEW k \in Keys
    PROVE  /\ flight[k] \in {Idle, Asked, Failed} \/ flight[k].at = "answered"
           /\ flight[k].at = "idle" <=> flight[k] = Idle
           /\ flight[k].at = "answered" => flight[k].with \in Answers(k)
           /\ flight[k].at # "answered" => flight[k].with = None
BY Statuses DEF PTypes, Fetches

\* A step of the server, or of a review: the page has its lists still.
LEMMA AsidePInv ==
    ASSUME PInv, SInv', Lasting, UNCHANGED <<tab, data, flight, told, overtaken, failures>>,
           mine' \in Mine, ReviewsKept'
    PROVE  PInv'
<1>1. PTypes' /\ ReviewsListed'
    BY DEF PInv, PTypes, ReviewsListed
<1>2. SeenComplete'
    BY DEF PInv, SeenComplete, Lasting
<1>3. HitsListed'
    <2> SUFFICES ASSUME ~overtaken, data["case"] = "COMPLETED" PROVE HitsListed'
        BY DEF HitsListed
    <2>1. screened
        BY DEF PInv, SeenComplete
    <2>2. \A r \in Results : (Listed(r) = "absent") = (result[r].state = "ABSENT")
        BY DEF Listed
    <2>3. \A r \in Results : (Listed(r)' = "absent") = (result'[r].state = "ABSENT")
        BY DEF Listed
    <2>4. \A r \in Results : (Listed(r)' = "absent") = (Listed(r) = "absent")
        BY <2>1, <2>2, <2>3 DEF Lasting
    <2>5. Settled("screening") => Fresh(data["screening"])'
        BY <2>4 DEF PInv, HitsListed, Fresh
    <2>6. flight["screening"].at = "answered" => Fresh(flight["screening"].with)'
        BY <2>4 DEF PInv, HitsListed, Fresh
    <2> QED
        BY <2>5, <2>6 DEF HitsListed, Settled
<1> QED
    BY <1>1, <1>2, <1>3 DEF PInv

LEMMA QuietSInv == ASSUME SInv, UNCHANGED vars PROVE SInv'
BY StepSInv

\* What the page's own steps leave as it is.
LEMMA QuietServer ==
    ASSUME UNCHANGED vars
    PROVE  /\ UNCHANGED <<screened, result, request>>
           /\ \A r : Listed(r)' = Listed(r)
           /\ \A r : Disposed(r)' = Disposed(r)
           /\ \A list : Fresh(list)' = Fresh(list)
<1>1. UNCHANGED <<screened, result, request>>
    BY DEF vars, table
<1>2. \A r : Listed(r)' = Listed(r)
    BY <1>1 DEF Listed
<1> QED
    BY <1>1, <1>2 DEF Disposed, Fresh

\* A fetch that begins or fails, and a review the page stops waiting for.
LEMMA FlightPInv ==
    ASSUME PInv, PTypes', UNCHANGED vars, UNCHANGED <<data, told, overtaken>>,
           mine' \in {mine, NoReview},
           flight'["screening"] \in {flight["screening"], Asked, Failed},
           flight'["case"] \in {flight["case"], Asked, Failed}
    PROVE  PInv'
<1>1. SInv'
    BY QuietSInv DEF PInv
<1>2. ReviewsKept'
    BY QuietServer DEF PInv, ReviewsKept, Committed, NoReview
<1>3. ReviewsListed'
    BY Statuses DEF PInv, ReviewsListed
<1>4. SeenComplete'
    BY Statuses, QuietServer DEF PInv, SeenComplete
<1>5. HitsListed'
    <2>1. /\ Settled("screening")' => Settled("screening")
          /\ flight'["screening"].at = "answered" => flight'["screening"] = flight["screening"]
        BY Statuses DEF Settled
    <2> QED
        BY <2>1, QuietServer DEF PInv, HitsListed
<1> QED
    BY <1>1, <1>2, <1>3, <1>4, <1>5 DEF PInv

LEMMA ServePInv ==
    ASSUME PInv, UNCHANGED vars, NEW k \in Keys, Serve(k)
    PROVE  PInv'
<1>1. SInv' /\ TInv
    BY QuietSInv DEF PInv, SInv
<1>2. /\ flight'[k] = Answered(k)
      /\ \A j \in Keys : j # k => flight'[j] = flight[j]
      /\ flight[k] = Asked
      /\ flight' = [j \in Keys |-> flight'[j]]
    BY DEF Serve, PInv, PTypes
<1>3. Answered(k).at = "answered" /\ Answered(k).with = Answer(k) /\ Answer(k) \in Answers(k)
    BY <1>1, AnswerTyped DEF Answered
<1>4. PTypes'
    <2>1. \A j \in Keys : flight'[j] \in Fetches(j)
        BY <1>2, <1>3 DEF PInv, PTypes, Fetches, Answered
    <2>2. flight'["board"] # Idle => tab # "CLOSED"
        BY <1>2, Statuses DEF PInv, PTypes, Keys
    <2> QED
        BY <1>2, <2>1, <2>2 DEF Serve, PInv, PTypes
<1>5. UNCHANGED <<data, mine, told, overtaken>>
    BY DEF Serve
<1>6. ReviewsKept'
    BY <1>5, QuietServer DEF PInv, ReviewsKept, Committed
<1>7. CASE k = "board"
    <2>1. flight'["screening"] = flight["screening"] /\ flight'["case"] = flight["case"]
        BY <1>2, <1>7 DEF Keys
    <2> QED
        BY <1>4, <1>5, <2>1, FlightPInv
<1>8. CASE k = "case"
    <2>1. flight'["screening"] = flight["screening"]
        BY <1>2, <1>8 DEF Keys
    <2>2. Answer("case") = "COMPLETED" => screened
        BY DEF Answer
    <2>3. SeenComplete'
        BY <1>2, <1>3, <1>5, <1>8, <2>2, QuietServer DEF PInv, SeenComplete
    <2>4. ReviewsListed' /\ HitsListed'
        BY <1>5, <2>1, QuietServer DEF PInv, ReviewsListed, HitsListed, Settled
    <2> QED
        BY <1>1, <1>4, <1>6, <2>3, <2>4 DEF PInv
<1>9. CASE k = "screening"
    <2>1. flight'["case"] = flight["case"]
        BY <1>2, <1>9 DEF Keys
    <2>2. flight'["screening"].with = [r \in Results |-> Listed(r)]
        BY <1>2, <1>3, <1>9 DEF Answer
    <2>3. flight'["screening"] # Idle
        BY <1>2, <1>3, <1>9, Statuses
    <2>4. SeenComplete'
        BY <1>5, <2>1, QuietServer DEF PInv, SeenComplete
    <2>5. \A r \in told : Listed(r) = "disposed"
        BY <1>1 DEF PInv, PTypes, ReviewsKept, Disposed, Listed, TInv, TypeOK
    <2>6. ReviewsListed'
        BY <1>5, <2>2, <2>3, <2>5 DEF PInv, PTypes, ReviewsListed
    <2>7. HitsListed'
        BY <2>2, <2>3, QuietServer DEF HitsListed, Settled, Fresh
    <2> QED
        BY <1>1, <1>4, <1>6, <2>4, <2>6, <2>7 DEF PInv
<1> QED
    BY <1>7, <1>8, <1>9 DEF Keys

LEMMA ReceivePInv ==
    ASSUME PInv, UNCHANGED vars, NEW k \in Keys, Receive(k)
    PROVE  PInv'
<1> DEFINE answer == flight[k].with
           landed == [flight EXCEPT ![k] = Idle]
           turned == k = "case" /\ answer # data["case"]
<1>1. SInv'
    BY QuietSInv DEF PInv
<1>2. /\ answer \in Answers(k)
      /\ flight[k].at = "answered"
    BY FlightTyped DEF Receive, PInv
<1>3. /\ data'[k] = answer
      /\ \A j \in Keys : j # k => data'[j] = data[j]
      /\ data' = [j \in Keys |-> data'[j]]
    BY DEF Receive, PInv, PTypes
<1>4. flight' = IF turned THEN Refetch(landed, Derived) ELSE landed
    BY DEF Receive
<1>5. /\ landed[k] = Idle
      /\ \A j \in Keys : j # k => landed[j] = flight[j]
      /\ landed = [j \in Keys |-> landed[j]]
    BY DEF PInv, PTypes
<1>6. UNCHANGED <<tab, mine, told, failures>> /\ (overtaken => overtaken')
    BY DEF Receive
<1> HIDE DEF answer, landed
<1>7. /\ flight' = [j \in Keys |-> flight'[j]]
      /\ \A j \in Keys : flight'[j] \in {landed[j], Asked}
      /\ flight'["board"] = Asked /\ landed["board"] # Asked => tab = "BOARD"
      /\ flight'["case"] = landed["case"]
    <2>1. CASE turned
        <3>1. PICK fl : fl = Refetch(landed, Derived)
            OBVIOUS
        <3>2. "case" \notin Derived
            BY DEF Derived
        <3> QED
            BY <1>4, <2>1, <3>1, <3>2, Refetched
    <2>2. CASE ~turned
        BY <1>4, <1>5, <2>2 DEF Keys
    <2> QED
        BY <2>1, <2>2
<1>8. PTypes'
    <2>1. \A j \in Keys : flight'[j] \in Fetches(j)
        BY <1>5, <1>7 DEF PInv, PTypes, Fetches
    <2>2. \A j \in Keys : data'[j] \in {None} \cup Answers(j)
        BY <1>2, <1>3 DEF PInv, PTypes
    <2>3. flight'["board"] # Idle => tab # "CLOSED"
        <3>1. landed["board"] \in {Idle, flight["board"]} /\ flight'["board"] \in {landed["board"], Asked}
            BY <1>5, <1>7 DEF Keys
        <3> QED
            BY <1>7, <3>1, Statuses DEF PInv, PTypes
    <2> QED
        BY <1>3, <1>6, <1>7, <2>1, <2>2, <2>3 DEF PInv, PTypes
<1>9. ASSUME data'["screening"] # None \/ data'["screening"] = data["screening"]
      PROVE  ReviewsKept'
    BY <1>6, <1>9, QuietServer DEF PInv, ReviewsKept, Committed
<1>10. CASE k = "case"
    <2>1. /\ data'["screening"] = data["screening"] /\ data'["case"] = answer
          /\ landed["screening"] = flight["screening"] /\ flight'["case"] = Idle
          /\ flight'["screening"] \in {flight["screening"], Asked}
        BY <1>3, <1>5, <1>7, <1>10 DEF Keys
    <2>2. ReviewsListed'
        BY <1>6, <2>1, Statuses DEF PInv, ReviewsListed
    <2>3. SeenComplete'
        BY <1>10, <2>1, Statuses, QuietServer DEF PInv, SeenComplete, answer
    <2>4. HitsListed'
        <3> SUFFICES ASSUME ~overtaken', answer = "COMPLETED" PROVE HitsListed'
            BY <2>1 DEF HitsListed
        <3>1. CASE ~turned
            <4>1. data["case"] = "COMPLETED" /\ ~overtaken
                BY <1>6, <1>10, <3>1
            <4>2. flight'["screening"] = flight["screening"]
                BY <1>4, <2>1, <3>1
            <4> QED
                BY <2>1, <4>1, <4>2, QuietServer DEF PInv, HitsListed, Settled
        <3>2. CASE turned
            <4>1. flight'["screening"] = Asked
                <5>1. ~(data["screening"] = None /\ InFlight("screening"))
                    BY <3>2 DEF Receive, Derived, answer
                <5>2. PICK fl : fl = Refetch(landed, Derived)
                    OBVIOUS
                <5>3. \/ fl["screening"] = Asked
                      \/ /\ data["screening"] = None
                         /\ landed["screening"].at \notin {"idle", "failed"}
                    BY <5>2, Refetched DEF Derived
                <5>4. flight["screening"].at \in {"idle", "failed", "asked", "answered"}
                    BY FlightTyped, Statuses DEF PInv, Keys
                <5> QED
                    BY <1>4, <2>1, <3>2, <5>1, <5>2, <5>3, <5>4 DEF InFlight
            <4> QED
                BY <4>1, Statuses DEF HitsListed, Settled
        <3> QED
            BY <3>1, <3>2
    <2> QED
        BY <1>1, <1>8, <1>9, <2>1, <2>2, <2>3, <2>4 DEF PInv
<1>11. CASE k = "screening"
    <2>1. /\ data'["screening"] = flight["screening"].with /\ data'["case"] = data["case"]
          /\ flight'["screening"] = Idle /\ flight'["case"] = flight["case"]
        BY <1>3, <1>4, <1>5, <1>11 DEF Keys, answer
    <2>2. data'["screening"] # None
        BY <1>2, <1>11, <2>1, PageAssumption DEF Answers, answer
    <2>3. ReviewsListed'
        BY <1>2, <1>6, <1>11, <2>1, Statuses DEF PInv, ReviewsListed
    <2>4. SeenComplete'
        BY <2>1, QuietServer DEF PInv, SeenComplete
    <2>5. HitsListed'
        BY <1>2, <1>6, <1>11, <2>1, Statuses, QuietServer DEF PInv, HitsListed
    <2> QED
        BY <1>1, <1>8, <1>9, <2>2, <2>3, <2>4, <2>5 DEF PInv
<1>12. CASE k = "board"
    <2>1. /\ data'["screening"] = data["screening"] /\ data'["case"] = data["case"]
          /\ flight'["screening"] = flight["screening"] /\ flight'["case"] = flight["case"]
        BY <1>3, <1>4, <1>5, <1>12 DEF Keys
    <2>2. ReviewsListed' /\ SeenComplete' /\ HitsListed'
        BY <1>6, <2>1, QuietServer DEF PInv, ReviewsListed, SeenComplete, HitsListed, Settled
    <2> QED
        BY <1>1, <1>8, <1>9, <2>1, <2>2 DEF PInv
<1> QED
    BY <1>10, <1>11, <1>12 DEF Keys

LEMMA ReplyPInv == ASSUME PInv, UNCHANGED vars, Reply PROVE PInv'
<1>1. SInv'
    BY QuietSInv DEF PInv
<1>2. PICK fl : fl = Refetch(flight, Reviewed)
    OBVIOUS
<1>3. /\ mine.of \in Results /\ data["screening"] # None /\ Disposed(mine.of)
      /\ told' = told \cup {mine.of} /\ mine' = NoReview
      /\ flight' = fl
      /\ UNCHANGED <<tab, data, overtaken, failures>>
    BY <1>2 DEF Reply, Committed, PInv, PTypes, Mine, ReviewsKept
<1>4. /\ fl = [j \in Keys |-> fl[j]]
      /\ \A j \in Keys : fl[j] \in {flight[j], Asked}
      /\ fl["board"] = Asked /\ flight["board"] # Asked => tab = "BOARD"
      /\ fl["case"] = flight["case"]
      /\ fl["screening"] = Asked
    BY <1>2, <1>3, Refetched DEF Reviewed
<1>5. PTypes'
    <2>1. \A j \in Keys : fl[j] \in Fetches(j)
        BY <1>4 DEF PInv, PTypes, Fetches
    <2>2. fl["board"] # Idle => tab # "CLOSED"
        BY <1>4 DEF PInv, PTypes, Keys
    <2>3. NoReview \in Mine
        BY DEF NoReview, Mine
    <2> QED
        BY <1>3, <1>4, <2>1, <2>2, <2>3 DEF PInv, PTypes
<1>6. ReviewsKept'
    BY <1>3, QuietServer DEF PInv, ReviewsKept, Committed, NoReview
<1>7. ReviewsListed'
    BY <1>3, <1>4, Statuses DEF ReviewsListed
<1>8. SeenComplete'
    BY <1>3, <1>4, QuietServer DEF PInv, SeenComplete
<1>9. HitsListed'
    BY <1>3, <1>4, Statuses DEF HitsListed, Settled
<1> QED
    BY <1>1, <1>5, <1>6, <1>7, <1>8, <1>9 DEF PInv

\* The other steps of the page begin fetches, or end one with a failure.
LEMMA FetchTyped ==
    ASSUME PTypes, UNCHANGED <<data, told>>, mine' \in Mine, failures' \in 0..MaxFailures,
           tab' \in Tabs \cup {"CLOSED"},
           flight' = [k \in Keys |-> flight'[k]],
           \A k \in Keys : flight'[k] \in {flight[k], Idle, Asked, Failed},
           flight'["board"] # Idle => tab' # "CLOSED"
    PROVE  PTypes'
<1>1. \A k \in Keys : flight'[k] \in Fetches(k)
    BY DEF PTypes, Fetches
<1> QED
    BY <1>1 DEF PTypes

LEMMA PagePInv == ASSUME PInv, PageStep, UNCHANGED vars PROVE PInv'
<1>k. "case" \in Keys /\ "screening" \in Keys /\ "board" \in Keys
    BY DEF Keys
<1>m. NoReview \in Mine
    BY DEF NoReview, Mine
<1>1. CASE OpenPage
    <2>1. /\ UNCHANGED <<data, mine, told, overtaken, failures>>
          /\ flight' = [k \in Keys |-> flight'[k]]
          /\ \A k \in Keys : flight'[k] \in {Idle, Asked}
          /\ flight'["case"] = Asked /\ flight'["screening"] = Asked
          /\ tab' \in Tabs
        BY <1>1, <1>k DEF OpenPage, Tabs
    <2>2. PTypes'
        BY <2>1, FetchTyped DEF PInv, PTypes, Tabs
    <2> QED
        BY <2>1, <2>2, FlightPInv
<1>2. ASSUME NEW t \in Tabs, NEW aged \in BOOLEAN, Switch(t, aged) PROVE PInv'
    <2>1. /\ UNCHANGED <<data, mine, told, overtaken, failures>>
          /\ tab' \in Tabs
          /\ flight' \in {flight, [flight EXCEPT !["board"] = Asked]}
        BY <1>2 DEF Switch
    <2>2. /\ flight' = [k \in Keys |-> flight'[k]]
          /\ \A k \in Keys : flight'[k] \in {flight[k], Asked}
          /\ flight'["case"] = flight["case"] /\ flight'["screening"] = flight["screening"]
        BY <1>k, <2>1 DEF PInv, PTypes
    <2>3. PTypes'
        BY <2>1, <2>2, FetchTyped DEF PInv, PTypes, Tabs
    <2> QED
        BY <2>1, <2>2, <2>3, FlightPInv
<1>3. CASE Poll
    <2>1. /\ UNCHANGED <<tab, data, mine, told, overtaken, failures>>
          /\ flight' = [flight EXCEPT !["case"] = Asked]
        BY <1>3 DEF Poll
    <2>2. /\ flight' = [k \in Keys |-> flight'[k]]
          /\ \A k \in Keys : flight'[k] \in {flight[k], Asked}
          /\ flight'["case"] = Asked
          /\ flight'["screening"] = flight["screening"] /\ flight'["board"] = flight["board"]
        BY <1>k, <2>1 DEF PInv, PTypes
    <2>3. PTypes'
        BY <2>1, <2>2, FetchTyped DEF PInv, PTypes
    <2> QED
        BY <2>1, <2>2, <2>3, FlightPInv
<1>4. ASSUME NEW k \in Keys, Serve(k) PROVE PInv'
    BY <1>4, ServePInv
<1>5. ASSUME NEW k \in Keys, Receive(k) PROVE PInv'
    BY <1>5, ReceivePInv
<1>6. ASSUME NEW k \in Keys, Fail(k) PROVE PInv'
    <2>1. /\ UNCHANGED <<tab, data, mine, told, overtaken>>
          /\ flight' = [flight EXCEPT ![k] = Failed]
          /\ InFlight(k)
        BY <1>6 DEF Fail
    <2>2. failures' \in 0..MaxFailures
        BY <1>6, PageAssumption DEF Fail, PInv, PTypes
    <2>3. /\ flight' = [j \in Keys |-> flight'[j]]
          /\ \A j \in Keys : flight'[j] \in {flight[j], Failed}
          /\ flight'["board"] # flight["board"] => flight["board"] # Idle
        BY <1>k, <2>1, Statuses DEF PInv, PTypes, InFlight
    <2>4. PTypes'
        BY <2>1, <2>2, <2>3, FetchTyped DEF PInv, PTypes
    <2> QED
        BY <1>k, <2>1, <2>3, <2>4, FlightPInv
<1>7. CASE Reply
    BY <1>7, ReplyPInv
<1>8. CASE LoseReply
    <2>1. /\ UNCHANGED <<tab, data, flight, told, overtaken>>
          /\ mine' = NoReview
        BY <1>8 DEF LoseReply
    <2>2. failures' \in 0..MaxFailures
        BY <1>8, PageAssumption DEF LoseReply, PInv, PTypes
    <2>3. PTypes'
        BY <1>m, <2>1, <2>2 DEF PInv, PTypes
    <2> QED
        BY <2>1, <2>3, FlightPInv
<1> QED
    BY <1>1, <1>2, <1>3, <1>4, <1>5, <1>6, <1>7, <1>8 DEF PageStep

-----------------------------------------------------------------------------
(* Reviews, and the server meanwhile                                       *)

LEMMA StepPInv == PInv /\ [NextPage]_<<vars, page>> => PInv'
<1> SUFFICES ASSUME PInv, [NextPage]_<<vars, page>> PROVE PInv'
    OBVIOUS
<1>s. SInv /\ SInv' /\ Lasting
    BY ServerStep, StepSInv DEF PInv
<1>t. TInv
    BY <1>s DEF SInv
<1>d. \A r \in Results : Disposed(r) => Disposed(r)'
    BY <1>s DEF Lasting, Disposed
<1>e. None \notin Analysts /\ None \notin Results
    BY ConstantsAssumption, PageAssumption
<1>1. CASE PageStep /\ UNCHANGED vars
    BY <1>1, PagePInv
<1>2. CASE Server /\ UNCHANGED page
    <2>1. UNCHANGED <<tab, data, flight, mine, told, overtaken, failures>>
        BY <1>2 DEF page
    <2>2. ASSUME mine.request # None
          PROVE  request'[mine.request] = request[mine.request]
        <3>1. mine.request \in Analysts /\ request[mine.request].at # "away"
            BY <2>2 DEF PInv, PTypes, Mine, ReviewsKept
        <3>2. ASSUME NEW a \in Analysts \ {mine.request}, Review(a)
              PROVE  request'[mine.request] = request[mine.request]
            <4>1. PICK q : request' = [request EXCEPT ![a] = q]
                BY <3>2 DEF Review, Open, Compare, LoadCase, Commit, Abandon
            <4> QED
                BY <1>t, <3>1, <4>1 DEF TInv, TypeOK
        <3>3. ~Server \/ (\E a \in Analysts \ {mine.request} : Review(a)) \/ UNCHANGED request
            BY DEF Server, Screen, ReviewFinding
        <3> QED
            BY <1>2, <3>2, <3>3
    <2>3. ReviewsKept'
        BY <1>d, <2>1, <2>2 DEF PInv, PTypes, Mine, ReviewsKept, Committed
    <2> QED
        BY <1>s, <2>1, <2>3, AsidePInv DEF PInv, PTypes
<1>3. ASSUME NEW a \in Analysts, NEW r \in Results, NEW d \in Dispositions, Submit(a, r, d)
      PROVE  PInv'
    <2>1. /\ UNCHANGED <<tab, data, flight, told, overtaken, failures>>
          /\ data["screening"] # None
          /\ Open(a, r, d)
        BY <1>3 DEF Submit
    <2>2. mine'.request = a /\ mine'.of = r /\ mine' \in Mine
        BY <1>3 DEF Submit, Mine
    <2>3. request'[a].at = "opened" /\ request'[a].of = r
        BY <1>t, <2>1 DEF Open, Away, TInv, TypeOK
    <2>4. ReviewsKept'
        BY <1>d, <1>e, <2>1, <2>2, <2>3 DEF PInv, PTypes, ReviewsKept, Committed
    <2> QED
        BY <1>s, <2>1, <2>2, <2>4, AsidePInv
<1>4. ASSUME NEW a \in Analysts, Handle(a) PROVE PInv'
    <2>1. /\ UNCHANGED <<tab, data, flight, told, overtaken, failures>>
          /\ mine.request = a /\ mine \in Mine
          /\ request[a].at # "away" /\ mine.of = request[a].of
          /\ mine.of # None => data["screening"] # None
        BY <1>4, <1>e DEF Handle, PInv, PTypes, ReviewsKept
    <2>2. CASE (Compare(a) \/ LoadCase(a)) /\ UNCHANGED mine
        <3>1. request'[a].at # "away" /\ request'[a].of = request[a].of
            BY <1>t, <2>2 DEF Compare, LoadCase, TInv, TypeOK
        <3>2. ReviewsKept'
            BY <1>d, <1>e, <2>1, <2>2, <3>1 DEF PInv, PTypes, ReviewsKept, Committed
        <3> QED
            BY <1>s, <2>1, <2>2, <3>2, AsidePInv
    <2>3. CASE Commit(a) /\ mine' = [mine EXCEPT !.request = None]
        <3>1. mine'.request = None /\ mine'.of = mine.of /\ mine' \in Mine
            BY <2>1, <2>3 DEF Mine
        <3>2. mine.of \in Results /\ request[a].disposition \in Dispositions
            BY <1>t, <2>1 DEF TInv, Requested
        <3>3. Disposed(mine.of)'
            <4>1. PICK state : result' = [result EXCEPT ![mine.of] =
                      [state |-> state,
                       disposition |-> Written(request[a].row.disposition,
                                               request[a].disposition,
                                               result[mine.of].disposition)]]
                BY <2>1, <2>3 DEF Commit
            <4>2. result'[mine.of].disposition =
                      Written(request[a].row.disposition, request[a].disposition,
                              result[mine.of].disposition)
                BY <1>t, <3>2, <4>1 DEF TInv, TypeOK
            <4> QED
                BY <1>s, <2>1, <3>1, <3>2, <4>2, NoneIsNoState
                DEF Disposed, Written, SInv, ReadsDisposed
        <3>4. ReviewsKept'
            BY <1>d, <2>1, <3>1, <3>3 DEF PInv, PTypes, ReviewsKept, Committed
        <3> QED
            BY <1>s, <2>1, <3>1, <3>4, AsidePInv
    <2>4. CASE Abandon(a) /\ mine' = NoReview
        <3>1. mine'.request = None /\ mine'.of = None /\ mine' \in Mine
            BY <2>4 DEF NoReview, Mine
        <3>2. ReviewsKept'
            BY <1>d, <2>1, <3>1 DEF PInv, PTypes, ReviewsKept, Committed
        <3> QED
            BY <1>s, <2>1, <3>1, <3>2, AsidePInv
    <2> QED
        BY <1>4, <2>2, <2>3, <2>4 DEF Handle
<1>5. CASE UNCHANGED <<vars, page>>
    <2>1. UNCHANGED <<tab, data, flight, mine, told, overtaken, failures>> /\ UNCHANGED vars
        BY <1>5 DEF page
    <2>2. ReviewsKept'
        BY <2>1, QuietServer DEF PInv, ReviewsKept, Committed
    <2> QED
        BY <1>s, <2>1, <2>2, AsidePInv DEF PInv, PTypes
<1> QED
    BY <1>1, <1>2, <1>3, <1>4, <1>5 DEF NextPage

-----------------------------------------------------------------------------
(* Theorems                                                                *)

\* The page beside its server is the server: what is proved of reviews holds
\* of those the page sends and of those it sees (routes/Investigation.tsx).
THEOREM PageUsesServer == SpecPage => Spec
<1>1. InitPage => Init
    BY DEF InitPage
<1> QED
    BY <1>1, ServerStep, PTL DEF SpecPage, Spec

\* What the page holds is of its types, and a fetch of the board is for a page
\* that is open.
THEOREM PageTypeCorrect == SpecPage => []TypeOKPage
<1>1. PInv => TypeOKPage
    <2>1. "case" \in Keys /\ "screening" \in Keys /\ "board" \in Keys
        BY DEF Keys
    <2>2. /\ Answers("case") = CaseStates /\ Answers("screening") = Lists
          /\ Answers("board") = SUBSET (Results \cup Findings)
        BY DEF Answers
    <2> QED
        BY <2>1, <2>2 DEF PInv, PTypes, SInv, TInv, TypeOKPage
<1> QED
    BY <1>1, InitPInv, StepPInv, PTL DEF SpecPage

\* A page that shows the case as completed lists the run's hits once its
\* fetches are done, whatever fails, unless a poll's answer overtook the first
\* answer of a list (useInvestigation, the page's effect).
THEOREM RunIsListed == SpecPage => []CompletedShowsHitsInOrder
<1>1. PInv => CompletedShowsHitsInOrder
    BY DEF PInv, HitsListed, Fresh, CompletedShowsHitsInOrder, CompletedShowsHits
<1> QED
    BY <1>1, InitPInv, StepPInv, PTL DEF SpecPage

\* A review the page was told of is shown once the list is settled, whatever
\* fails and however many others review (useReviewScreening).
THEOREM ReviewsAreListed == SpecPage => []OwnReviewsListed
<1>1. PInv => OwnReviewsListed
    BY DEF PInv, ReviewsListed, OwnReviewsListed, Settled
<1> QED
    BY <1>1, InitPInv, StepPInv, PTL DEF SpecPage

=============================================================================
