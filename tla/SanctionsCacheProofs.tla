------------------------ MODULE SanctionsCacheProofs ------------------------
(***************************************************************************)
(* Theorems about SanctionsCache for every set of feeds, required feeds,   *)
(* workers and cron processes, and every number of refreshes: whatever     *)
(* overlaps, no refresh empties a required feed, none without records      *)
(* counts as fresh, a feed holds two downloads only of refreshes that      *)
(* overlapped, and a clearance is grounded unless a commit came between    *)
(* its two reads.                                                          *)
(***************************************************************************)
EXTENDS SanctionsCache, TLAPS

-----------------------------------------------------------------------------
(* The inductive invariant                                                 *)

Phases == {"idle", "downloaded", "replaced", "screening"}

\* Sessions: of the type invariant, what the steps of a refresh rest on.
SessionsTyped ==
    /\ proc \in [Processes -> [at : Phases, refresh : Nat, answer : [Feeds -> Answers],
                               row : [Feeds -> States], seen : [Feeds -> SUBSET [refresh : Nat, match : BOOLEAN]]]]
    /\ records \in [Feeds -> SUBSET [refresh : Nat, match : BOOLEAN]]
    /\ state \in [Feeds -> States]
    /\ refreshes \in Nat

\* A refresh removes nothing of a feed it could not use.
FailedDeletesNothing ==
    \A p \in Processes, f \in Feeds :
        proc[p].at = "replaced" /\ ~Usable(f, proc[p].answer[f]) => proc[p].seen[f] = {}

\* FreshFeedHasRecords alone does not survive a failed refresh that commits:
\* what it deleted before must be known to be nothing.
IInv == SessionsTyped /\ FailedDeletesNothing /\ FreshFeedHasRecords

LEMMA InitIInv == Init => IInv
<1> SUFFICES ASSUME Init PROVE IInv
    OBVIOUS
<1>1. NoState \in States /\ Idle \in [at : Phases, refresh : Nat, answer : [Feeds -> Answers],
                                      row : [Feeds -> States],
                                      seen : [Feeds -> SUBSET [refresh : Nat, match : BOOLEAN]]]
    BY DEF NoState, States, Idle, Phases, Answers
<1>2. SessionsTyped
    BY <1>1 DEF Init, SessionsTyped
<1>3. FailedDeletesNothing
    BY DEF Init, FailedDeletesNothing, Idle
<1>4. FreshFeedHasRecords
    BY ConstantsAssumption DEF Init, FreshFeedHasRecords, Fresh, NoState
<1> QED
    BY <1>2, <1>3, <1>4 DEF IInv

\* What a refresh that could use the answer stores for a required feed.
LEMMA UsableStores ==
    ASSUME NEW p \in Processes, NEW f \in Required, Usable(f, proc[p].answer[f])
    PROVE  Stored(p, f) # {}
BY DEF Usable, Stored

\* A commit leaves the records of a required feed, if there were any.
LEMMA CommitKeepsRecords ==
    ASSUME IInv, NEW p \in Processes, CommitRefresh(p), NEW f \in Required
    PROVE  /\ Usable(f, proc[p].answer[f]) => records'[f] # {}
           /\ records[f] # {} => records'[f] # {}
<1>1. f \in Feeds
    BY ConstantsAssumption
<1>2. records'[f] = (records[f] \ proc[p].seen[f])
                       \cup (IF Usable(f, proc[p].answer[f]) THEN Stored(p, f) ELSE {})
    BY <1>1 DEF CommitRefresh
<1>3. CASE Usable(f, proc[p].answer[f])
    BY <1>2, <1>3, UsableStores
<1>4. CASE ~Usable(f, proc[p].answer[f])
    <2>1. proc[p].seen[f] = {}
        BY <1>1, <1>4 DEF IInv, FailedDeletesNothing, CommitRefresh
    <2> QED
        BY <1>2, <1>4, <2>1
<1> QED
    BY <1>3, <1>4

\* A commit makes a feed fresh only if it could use the answer or it was fresh.
LEMMA CommitFresh ==
    ASSUME IInv, NEW p \in Processes, CommitRefresh(p), NEW f \in Required, Fresh(f)'
    PROVE  Usable(f, proc[p].answer[f]) \/ Fresh(f)
<1>1. f \in Feeds
    BY ConstantsAssumption
<1>2. state'[f] = StateAfter(p, f)
    BY <1>1 DEF CommitRefresh
<1>3. CASE ~Usable(f, proc[p].answer[f])
    <2>1. state'[f] = [status |-> IF proc[p].row[f].status = "failed" THEN state[f].status
                                  ELSE "failed",
                       current |-> FALSE \/ state[f].current]
        BY <1>2, <1>3 DEF StateAfter
    <2>2. state'[f].status = "ok" => state[f].status = "ok"
        BY <2>1
    <2>3. state'[f].current = (FALSE \/ state[f].current)
        BY <2>1
    <2>4. state[f].current \in BOOLEAN
        BY <1>1 DEF IInv, SessionsTyped, States
    <2> QED
        BY <2>2, <2>3, <2>4 DEF Fresh
<1> QED
    BY <1>3

LEMMA StepIInv == IInv /\ [Next]_vars => IInv'
<1> SUFFICES ASSUME IInv, [Next]_vars PROVE IInv'
    OBVIOUS
<1> USE DEF IInv, cache, screening, races
<1>i. Idle \in [at : Phases, refresh : Nat, answer : [Feeds -> Answers],
                row : [Feeds -> States], seen : [Feeds -> SUBSET [refresh : Nat, match : BOOLEAN]]]
    BY DEF NoState, States, Idle, Phases, Answers
<1>1. ASSUME UNCHANGED <<cache, proc, refreshes>> PROVE IInv'
    BY <1>1 DEF SessionsTyped, FailedDeletesNothing, FreshFeedHasRecords, Fresh
<1>2. ASSUME NEW f \in Feeds, Age(f) PROVE IInv'
    <2>1. SessionsTyped'
        BY <1>2 DEF Age, SessionsTyped, States
    <2>2. FailedDeletesNothing'
        BY <1>2 DEF Age, FailedDeletesNothing
    <2>3. FreshFeedHasRecords'
        BY <1>2, ConstantsAssumption DEF Age, FreshFeedHasRecords, Fresh, SessionsTyped, States
    <2> QED
        BY <2>1, <2>2, <2>3
<1>3. ASSUME NEW p \in Processes, Download(p) PROVE IInv'
    <2>1. PICK answer \in [Feeds -> Answers] :
              proc' = [proc EXCEPT ![p] = [Idle EXCEPT !.at = "downloaded", !.refresh = refreshes + 1,
                                                       !.answer = answer, !.row = state]]
        BY <1>3 DEF Download
    <2>a. refreshes' \in Nat /\ state \in [Feeds -> States]
        BY <1>3 DEF Download, SessionsTyped
    <2>b. [Idle EXCEPT !.at = "downloaded", !.refresh = refreshes + 1, !.answer = answer,
                       !.row = state]
              \in [at : Phases, refresh : Nat, answer : [Feeds -> Answers], row : [Feeds -> States],
                   seen : [Feeds -> SUBSET [refresh : Nat, match : BOOLEAN]]]
        <3>1. refreshes + 1 \in Nat
            BY DEF SessionsTyped
        <3>2. "downloaded" \in Phases
            BY DEF Phases
        <3> QED
            BY <1>i, <2>a, <3>1, <3>2
    <2>2. SessionsTyped'
        BY <1>3, <2>a, <2>b, <2>1 DEF Download, SessionsTyped
    <2>3. FailedDeletesNothing'
        BY <2>1 DEF FailedDeletesNothing, SessionsTyped, Idle
    <2>4. FreshFeedHasRecords'
        BY <1>3 DEF Download, FreshFeedHasRecords, Fresh
    <2> QED
        BY <2>2, <2>3, <2>4
<1>4. ASSUME NEW p \in Processes, Replace(p) PROVE IInv'
    <2>1. [f \in Feeds |-> Deleted(p, f)]
              \in [Feeds -> SUBSET [refresh : Nat, match : BOOLEAN]]
        BY DEF Deleted, SessionsTyped
    <2>2. [f \in Feeds |-> IF proc[p].row[f].status = "never_refreshed"
                           THEN state[f] ELSE proc[p].row[f]] \in [Feeds -> States]
        BY DEF SessionsTyped
    <2>3. SessionsTyped'
        <3>1. PICK deleted \in [Feeds -> SUBSET [refresh : Nat, match : BOOLEAN]],
                   row \in [Feeds -> States] :
                  proc' = [proc EXCEPT ![p].at = "replaced", ![p].seen = deleted, ![p].row = row]
            BY <1>4, <2>1, <2>2 DEF Replace
        <3>a. "replaced" \in Phases
            BY DEF Phases
        <3>b. [proc[p] EXCEPT !.at = "replaced", !.seen = deleted, !.row = row]
                  \in [at : Phases, refresh : Nat, answer : [Feeds -> Answers],
                       row : [Feeds -> States],
                       seen : [Feeds -> SUBSET [refresh : Nat, match : BOOLEAN]]]
            BY <3>a DEF SessionsTyped
        <3>c. proc' = [proc EXCEPT ![p] = [proc[p] EXCEPT !.at = "replaced", !.seen = deleted,
                                                          !.row = row]]
            BY <3>1 DEF SessionsTyped
        <3>2. proc' \in [Processes -> [at : Phases, refresh : Nat, answer : [Feeds -> Answers],
                                       row : [Feeds -> States],
                                       seen : [Feeds -> SUBSET [refresh : Nat, match : BOOLEAN]]]]
            BY <3>b, <3>c DEF SessionsTyped
        <3> QED
            BY <1>4, <3>2 DEF Replace, SessionsTyped
    <2>4. FailedDeletesNothing'
        <3> SUFFICES ASSUME NEW q \in Processes, NEW f \in Feeds,
                            proc'[q].at = "replaced", ~Usable(f, proc'[q].answer[f])
                     PROVE  proc'[q].seen[f] = {}
            BY DEF FailedDeletesNothing, Usable
        <3>1. CASE q = p
            <4>1. proc'[q].answer = proc[p].answer /\ proc'[q].seen[f] = Deleted(p, f)
                BY <1>4, <3>1 DEF Replace, SessionsTyped
            <4> QED
                BY <4>1 DEF Deleted
        <3>2. CASE q # p
            BY <1>4, <3>2 DEF Replace, SessionsTyped, FailedDeletesNothing
        <3> QED
            BY <3>1, <3>2
    <2>5. FreshFeedHasRecords'
        BY <1>4 DEF Replace, FreshFeedHasRecords, Fresh
    <2> QED
        BY <2>3, <2>4, <2>5
<1>5. ASSUME NEW p \in Processes, CommitRefresh(p) PROVE IInv'
    <2>1. \A f \in Feeds : StateAfter(p, f) \in States
        BY DEF StateAfter, States, SessionsTyped, Usable
    <2>2. \A f \in Feeds : Stored(p, f) \in SUBSET [refresh : Nat, match : BOOLEAN]
        BY DEF Stored, SessionsTyped
    <2>3. SessionsTyped'
        BY <1>5, <1>i, <2>1, <2>2 DEF CommitRefresh, SessionsTyped
    <2>4. FailedDeletesNothing'
        BY <1>5 DEF CommitRefresh, FailedDeletesNothing, SessionsTyped, Idle
    <2>5. ASSUME NEW f \in Required, Fresh(f)' PROVE records'[f] # {}
        BY <1>5, <2>5, CommitKeepsRecords, CommitFresh DEF FreshFeedHasRecords
    <2> QED
        BY <2>3, <2>4, <2>5 DEF FreshFeedHasRecords
<1>6. ASSUME NEW p \in Processes, AbortRefresh(p) PROVE IInv'
    BY <1>6, <1>i DEF AbortRefresh, SessionsTyped, FailedDeletesNothing, FreshFeedHasRecords,
                      Fresh, Idle
<1>7. ASSUME NEW w \in Workers, LoadRecords(w) PROVE IInv'
    <2>1. w \in Processes
        BY DEF Processes
    <2>2. SessionsTyped'
        BY <1>7, <1>i, <2>1 DEF LoadRecords, SessionsTyped, Phases, Idle
    <2>3. FailedDeletesNothing'
        BY <1>7, <2>1 DEF LoadRecords, FailedDeletesNothing, SessionsTyped, Idle
    <2>4. FreshFeedHasRecords'
        BY <1>7 DEF LoadRecords, FreshFeedHasRecords, Fresh
    <2> QED
        BY <2>2, <2>3, <2>4
<1>8. ASSUME NEW w \in Workers, Screen(w) PROVE IInv'
    BY <1>8, <1>i DEF Screen, Processes, SessionsTyped, FailedDeletesNothing,
                      FreshFeedHasRecords, Fresh, Idle
<1>9. CASE UNCHANGED vars
    BY <1>9, <1>1 DEF vars
<1> QED
    BY <1>1, <1>2, <1>3, <1>4, <1>5, <1>6, <1>7, <1>8, <1>9 DEF Next, Refresh, Publish, Tick

-----------------------------------------------------------------------------
(* Types                                                                   *)

Sessions == [at : Phases, refresh : 0..MaxRefreshes, answer : [Feeds -> Answers],
             row : [Feeds -> States], seen : [Feeds -> SUBSET Batches]]

\* A refresh numbers what it stores from one, and a row it has loaded is there
\* for good: without the second a column left alone could be that of no row.
RefreshStarted ==
    \A p \in Processes :
        /\ proc[p].at \in {"downloaded", "replaced"} => proc[p].refresh # 0
        /\ \A f \in Feeds : proc[p].row[f].status # "never_refreshed" =>
                                state[f].status # "never_refreshed"

TInv == TypeOK /\ RefreshStarted

LEMMA IdleSession == Idle \in Sessions
BY ConstantsAssumption DEF NoState, States, Idle, Phases, Answers, Sessions

LEMMA InitTInv == Init => TInv
<1> SUFFICES ASSUME Init PROVE TInv
    OBVIOUS
<1>1. NoState \in States /\ ~NoState.current
    BY DEF NoState, States
<1>2. TypeOK
    BY <1>1, IdleSession, ConstantsAssumption DEF Init, TypeOK, Sessions, Phases
<1>3. RefreshStarted
    BY DEF Init, RefreshStarted, Idle, NoState
<1> QED
    BY <1>2, <1>3 DEF TInv

LEMMA StepTInv == TInv /\ [Next]_vars => TInv'
<1> SUFFICES ASSUME TInv, [Next]_vars PROVE TInv'
    OBVIOUS
<1> USE DEF cache, screening, races
<1>t. TypeOK /\ RefreshStarted /\ proc \in [Processes -> Sessions]
    BY DEF TInv, TypeOK, Sessions, Phases
<1>s. ASSUME proc' \in [Processes -> Sessions], UNCHANGED <<cache, listed, screening>>,
             overlaps' \subseteq SUBSET (0..MaxRefreshes), torn' \subseteq Workers,
             due' \in [Workers -> BOOLEAN], refreshes' \in 0..MaxRefreshes
      PROVE  TypeOK'
    BY <1>s, <1>t DEF TypeOK, Sessions, Phases
<1>a. ASSUME NEW p \in Processes, proc' = [proc EXCEPT ![p] = Idle], UNCHANGED state
      PROVE  proc' \in [Processes -> Sessions] /\ RefreshStarted'
    BY <1>a, <1>t, IdleSession DEF RefreshStarted, Idle, NoState
<1>1. ASSUME NEW f \in Feeds, Publish(f) PROVE TInv'
    BY <1>1, <1>t DEF Publish, TInv, TypeOK, RefreshStarted
<1>2. ASSUME NEW f \in Feeds, Age(f) PROVE TInv'
    <2>1. TypeOK'
        BY <1>2, <1>t DEF Age, TypeOK, States
    <2>2. RefreshStarted'
        BY <1>2, <1>t DEF Age, TypeOK, States, RefreshStarted
    <2> QED
        BY <2>1, <2>2 DEF TInv
<1>3. ASSUME NEW w \in Workers, Tick(w) PROVE TInv'
    BY <1>3, <1>t DEF Tick, TInv, TypeOK, RefreshStarted
<1>4. ASSUME NEW p \in Processes, Download(p) PROVE TInv'
    <2>1. PICK answer \in [Feeds -> Answers] :
              proc' = [proc EXCEPT ![p] = [Idle EXCEPT !.at = "downloaded", !.refresh = refreshes + 1,
                                                       !.answer = answer, !.row = state]]
        BY <1>4 DEF Download
    <2>2. refreshes + 1 \in 0..MaxRefreshes /\ refreshes + 1 # 0 /\ refreshes' = refreshes + 1
        BY <1>4, <1>t, ConstantsAssumption DEF Download, TypeOK
    <2>3. [Idle EXCEPT !.at = "downloaded", !.refresh = refreshes + 1, !.answer = answer,
                       !.row = state] \in Sessions
        BY <1>t, <2>2, IdleSession DEF Sessions, Phases, TypeOK
    <2>4. proc' \in [Processes -> Sessions]
        BY <1>t, <2>1, <2>3
    <2>5. TypeOK'
        BY <1>4, <1>s, <1>t, <2>2, <2>4 DEF Download, TypeOK
    <2>6. RefreshStarted'
        BY <1>4, <1>t, <2>1, <2>2 DEF Download, RefreshStarted, Idle
    <2> QED
        BY <2>5, <2>6 DEF TInv
<1>5. ASSUME NEW p \in Processes, Replace(p) PROVE TInv'
    <2>1. [f \in Feeds |-> Deleted(p, f)] \in [Feeds -> SUBSET Batches]
        BY <1>t DEF Deleted, TypeOK
    <2>2. [f \in Feeds |-> IF proc[p].row[f].status = "never_refreshed"
                           THEN state[f] ELSE proc[p].row[f]] \in [Feeds -> States]
        BY <1>t DEF TypeOK, Sessions
    <2>3. PICK deleted \in [Feeds -> SUBSET Batches], row \in [Feeds -> States] :
              /\ proc' = [proc EXCEPT ![p].at = "replaced", ![p].seen = deleted, ![p].row = row]
              /\ \A f \in Feeds : row[f] = IF proc[p].row[f].status = "never_refreshed"
                                           THEN state[f] ELSE proc[p].row[f]
        BY <1>5, <2>1, <2>2 DEF Replace
    <2>4. [proc[p] EXCEPT !.at = "replaced", !.seen = deleted, !.row = row] \in Sessions
        BY <1>t DEF Sessions, Phases
    <2>5. proc' = [proc EXCEPT ![p] = [proc[p] EXCEPT !.at = "replaced", !.seen = deleted,
                                                      !.row = row]]
        BY <1>t, <2>3
    <2>6. proc' \in [Processes -> Sessions]
        BY <1>t, <2>4, <2>5
    <2>7. TypeOK'
        <3>1. overlaps' \subseteq SUBSET (0..MaxRefreshes)
            <4>1. \A q \in Processes : {proc[p].refresh, proc[q].refresh} \in SUBSET (0..MaxRefreshes)
                BY <1>t DEF Sessions
            <4>2. overlaps' = overlaps \cup {{proc[p].refresh, proc[q].refresh} :
                                     q \in {q \in Processes \ {p} : proc[q].at = "replaced"}}
                BY <1>5 DEF Replace
            <4>3. overlaps \subseteq SUBSET (0..MaxRefreshes)
                BY <1>t DEF TypeOK
            <4>4. ASSUME NEW pair \in overlaps' PROVE pair \in SUBSET (0..MaxRefreshes)
                <5>1. pair \in overlaps
                      \/ \E q \in Processes : pair = {proc[p].refresh, proc[q].refresh}
                    BY <4>2, <4>4
                <5>2. CASE pair \in overlaps
                    BY <4>3, <5>2
                <5>3. ASSUME NEW q \in Processes, pair = {proc[p].refresh, proc[q].refresh}
                      PROVE  pair \in SUBSET (0..MaxRefreshes)
                    BY <4>1, <5>3
                <5> QED
                    BY <5>1, <5>2, <5>3
            <4> QED
                BY <4>4
        <3> QED
            BY <1>5, <1>s, <1>t, <2>6, <3>1 DEF Replace, TypeOK
    <2>8. RefreshStarted'
        <3>1. /\ proc'[p].refresh = proc[p].refresh
              /\ proc'[p].row = row
              /\ \A q \in Processes : q # p => proc'[q] = proc[q]
            BY <1>t, <2>5 DEF Sessions
        <3>2. proc[p].refresh # 0 /\ state' = state
            BY <1>5, <1>t DEF Replace, RefreshStarted
        <3> QED
            BY <1>t, <2>3, <3>1, <3>2 DEF RefreshStarted
    <2> QED
        BY <2>7, <2>8 DEF TInv
<1>6. ASSUME NEW p \in Processes, CommitRefresh(p) PROVE TInv'
    <2>1. proc[p] \in Sessions /\ proc[p].refresh # 0
        BY <1>6, <1>t DEF CommitRefresh, RefreshStarted
    <2>2. \A f \in Feeds : Stored(p, f) \in SUBSET Batches
        BY <2>1, ConstantsAssumption DEF Stored, Batches, Sessions
    <2>3. \A f \in Feeds : /\ StateAfter(p, f) \in States
                           /\ StateAfter(p, f).status # "never_refreshed"
        <3> SUFFICES ASSUME NEW f \in Feeds
                     PROVE  /\ StateAfter(p, f) \in States
                            /\ StateAfter(p, f).status # "never_refreshed"
            OBVIOUS
        <3> DEFINE status == IF Usable(f, proc[p].answer[f]) THEN "ok" ELSE "failed"
        <3>1. /\ Usable(f, proc[p].answer[f]) \in BOOLEAN
              /\ state[f] \in States
              /\ proc[p].row[f].status = status => state[f].status # "never_refreshed"
            BY <1>t DEF Usable, RefreshStarted, TypeOK
        <3>2. StateAfter(p, f) =
                [status |-> IF proc[p].row[f].status = status THEN state[f].status ELSE status,
                 current |-> Usable(f, proc[p].answer[f]) \/ state[f].current]
            BY DEF StateAfter
        <3> QED
            BY <3>1, <3>2 DEF States
    <2>4. TypeOK'
        <3>1. records' \in [Feeds -> SUBSET Batches]
            BY <1>6, <1>t, <2>2 DEF CommitRefresh, TypeOK
        <3>2. /\ state' \in [Feeds -> States]
              /\ \A f \in Feeds : state'[f].status # "never_refreshed"
            BY <1>6, <2>3 DEF CommitRefresh
        <3>3. proc' \in [Processes -> Sessions]
            BY <1>6, <1>t, IdleSession DEF CommitRefresh
        <3> QED
            BY <1>6, <1>t, <3>1, <3>2, <3>3 DEF CommitRefresh, TypeOK, Sessions, Phases
    <2>5. RefreshStarted'
        <3>1. \A f \in Feeds : state'[f].status # "never_refreshed"
            BY <1>6, <2>3 DEF CommitRefresh
        <3> QED
            BY <1>6, <1>t, <3>1 DEF CommitRefresh, RefreshStarted, Idle
    <2> QED
        BY <2>4, <2>5 DEF TInv
<1>7. ASSUME NEW p \in Processes, AbortRefresh(p) PROVE TInv'
    BY <1>7, <1>a, <1>s, <1>t DEF AbortRefresh, TInv, TypeOK
<1>8. ASSUME NEW w \in Workers, LoadRecords(w) PROVE TInv'
    <2>1. /\ w \in Processes
          /\ proc' = [proc EXCEPT ![w] = [Idle EXCEPT !.at = "screening", !.seen = records,
                                                      !.row = state]]
        BY <1>8 DEF LoadRecords, Processes
    <2>2. [Idle EXCEPT !.at = "screening", !.seen = records, !.row = state] \in Sessions
        BY <1>t, IdleSession DEF Sessions, Phases, TypeOK
    <2>3. TypeOK'
        BY <1>8, <1>s, <1>t, <2>1, <2>2 DEF LoadRecords, TypeOK
    <2>4. RefreshStarted'
        BY <1>8, <1>t, <2>1 DEF LoadRecords, RefreshStarted, Idle
    <2> QED
        BY <2>3, <2>4 DEF TInv
<1>9. ASSUME NEW w \in Workers, Screen(w) PROVE TInv'
    <2>1. w \in Processes /\ proc' = [proc EXCEPT ![w] = Idle] /\ UNCHANGED state
        BY <1>9 DEF Screen, Processes
    <2>2. proc' \in [Processes -> Sessions] /\ RefreshStarted'
        BY <1>a, <2>1
    <2>3. TypeOK'
        BY <1>9, <1>t, <2>2 DEF Screen, Matches, TypeOK, Sessions, Phases
    <2> QED
        BY <2>2, <2>3 DEF TInv
<1>10. CASE UNCHANGED vars
    BY <1>10, <1>t DEF vars, TInv, TypeOK, RefreshStarted
<1> QED
    BY <1>1, <1>2, <1>3, <1>4, <1>5, <1>6, <1>7, <1>8, <1>9, <1>10 DEF Next, Refresh

-----------------------------------------------------------------------------
(* Theorems                                                                *)

\* The cache, the feed states and the sessions hold values of their types.
THEOREM TypeCorrect == Spec => []TypeOK
<1>1. TInv => TypeOK
    BY DEF TInv
<1> QED
    BY <1>1, InitTInv, StepTInv, PTL DEF Spec

\* The inductive invariant holds in every reachable state.
THEOREM IInvHolds == Spec => []IInv
<1> QED
    BY InitIInv, StepIInv, PTL DEF Spec

\* A required feed that counts as fresh has records, whatever refreshes of
\* workers and cron jobs overlap, fail or answer nothing (refresh_feeds).
THEOREM FreshMeansCached == Spec => []FreshFeedHasRecords
<1>1. IInv => FreshFeedHasRecords
    BY DEF IInv
<1> QED
    BY <1>1, IInvHolds, PTL

\* No step of any process takes the last record of a required feed
\* (refresh_feeds).
THEOREM CacheNeverEmptied == Spec => NeverEmptied
<1>1. IInv /\ [Next]_vars => [RecordsKept]_vars
    <2> SUFFICES ASSUME IInv, Next PROVE RecordsKept
        BY DEF vars
    <2>1. ASSUME NEW p \in Processes, CommitRefresh(p) PROVE RecordsKept
        BY <2>1, CommitKeepsRecords DEF RecordsKept
    <2>2. CASE UNCHANGED records
        BY <2>2 DEF RecordsKept
    <2> QED
        BY <2>1, <2>2 DEF Next, Refresh, Publish, Age, Tick, LoadRecords, Screen, Download,
                          Replace, AbortRefresh, cache
<1> QED
    BY <1>1, IInvHolds, PTL DEF Spec, NeverEmptied

-----------------------------------------------------------------------------
(* Refreshes that overlap, and screenings between commits                  *)

\* What a process has read is still so, but for age and for what the histories
\* record: a feed holds no other batch than those a refresh has deleted and those
\* of refreshes that had deleted when it did; any two refreshes that have deleted
\* overlap; a screening no commit has torn reads what the cache holds.
ReadsStand ==
    /\ \A p \in Processes, f \in Feeds :
          proc[p].at = "replaced" /\ Usable(f, proc[p].answer[f]) =>
              \A b \in records[f] : \/ b \in proc[p].seen[f]
                                    \/ {b.refresh, proc[p].refresh} \in overlaps
    /\ \A p, q \in Processes :
          p # q /\ proc[p].at = "replaced" /\ proc[q].at = "replaced" =>
              {proc[p].refresh, proc[q].refresh} \in overlaps
    /\ \A w \in Workers, f \in Feeds :
          proc[w].at = "screening" /\ w \notin torn =>
              /\ proc[w].seen[f] = records[f]
              /\ state[f].current => proc[w].row[f].current

OInv == ReadsStand /\ OneDownloadUnlessOverlap

LEMMA StepOInv == IInv /\ OInv /\ [Next]_vars => OInv'
<1> SUFFICES ASSUME IInv, OInv, [Next]_vars PROVE OInv'
    OBVIOUS
<1> USE DEF cache, screening, races
<1>t. SessionsTyped /\ ReadsStand /\ OneDownloadUnlessOverlap
    BY DEF IInv, OInv
<1>i. Idle.at = "idle"
    BY DEF Idle
<1>w. Workers \subseteq Processes
    BY DEF Processes
<1>u. ASSUME UNCHANGED <<cache, proc, races>> PROVE OInv'
    BY <1>u, <1>t DEF OInv, ReadsStand, OneDownloadUnlessOverlap
\* A process that is done, or has just begun, has read nothing that could be wrong.
<1>r. ASSUME NEW p \in Processes, NEW s, proc' = [proc EXCEPT ![p] = s],
             s.at \in {"idle", "downloaded"}, UNCHANGED <<cache, overlaps>>,
             torn' \in {torn, torn \ {p}}
      PROVE  OInv'
    <2>1. proc'[p] = s /\ \A q \in Processes : q # p => proc'[q] = proc[q]
        BY <1>t, <1>r DEF SessionsTyped
    <2>2. \A q \in Processes : q # p /\ q \notin torn' => q \notin torn
        BY <1>r
    <2> QED
        BY <1>t, <1>r, <1>w, <2>1, <2>2 DEF OInv, ReadsStand, OneDownloadUnlessOverlap
<1>1. ASSUME NEW f \in Feeds, Publish(f) PROVE OInv'
    BY <1>1, <1>u DEF Publish
<1>2. ASSUME NEW f \in Feeds, Age(f) PROVE OInv'
    <2>1. UNCHANGED <<records, proc, races>>
        BY <1>2 DEF Age
    <2>2. \A g \in Feeds : state'[g].current => state[g].current
        BY <1>2, <1>t DEF Age, SessionsTyped, States
    <2> QED
        BY <1>t, <2>1, <2>2 DEF OInv, ReadsStand, OneDownloadUnlessOverlap
<1>3. ASSUME NEW w \in Workers, Tick(w) PROVE OInv'
    BY <1>3, <1>u DEF Tick
<1>4. ASSUME NEW p \in Processes, Download(p) PROVE OInv'
    <2>1. PICK answer \in [Feeds -> Answers] :
              proc' = [proc EXCEPT ![p] = [Idle EXCEPT !.at = "downloaded", !.refresh = refreshes + 1,
                                                       !.answer = answer, !.row = state]]
        BY <1>4 DEF Download
    <2>2. [Idle EXCEPT !.at = "downloaded", !.refresh = refreshes + 1, !.answer = answer,
                       !.row = state].at = "downloaded"
        BY DEF Idle
    <2> QED
        BY <1>4, <1>r, <2>1, <2>2 DEF Download
<1>5. ASSUME NEW p \in Processes, Replace(p) PROVE OInv'
    <2>1. \A q \in Processes : q # p => proc'[q] = proc[q]
        BY <1>5, <1>t DEF Replace, SessionsTyped
    <2>2. /\ proc'[p].at = "replaced" /\ proc'[p].answer = proc[p].answer
          /\ proc'[p].refresh = proc[p].refresh
          /\ \A f \in Feeds : proc'[p].seen[f] = Deleted(p, f)
          /\ UNCHANGED <<cache, torn>>
        BY <1>5, <1>t DEF Replace, SessionsTyped
    <2>3. /\ overlaps \subseteq overlaps'
          /\ \A q \in Processes : q # p /\ proc[q].at = "replaced" =>
                                      {proc[p].refresh, proc[q].refresh} \in overlaps'
        BY <1>5 DEF Replace
    <2>4. \A q \in Processes, f \in Feeds :
             proc'[q].at = "replaced" /\ Usable(f, proc'[q].answer[f]) =>
                 \A b \in records[f] : \/ b \in proc'[q].seen[f]
                                       \/ {b.refresh, proc'[q].refresh} \in overlaps'
        BY <1>t, <2>1, <2>2, <2>3 DEF ReadsStand, Deleted
    <2>5. ASSUME NEW q \in Processes, NEW r \in Processes, q # r,
                 proc'[q].at = "replaced", proc'[r].at = "replaced"
          PROVE  {proc'[q].refresh, proc'[r].refresh} \in overlaps'
        <3>1. CASE q = p
            BY <2>1, <2>2, <2>3, <2>5, <3>1
        <3>2. CASE r = p
            <4>1. {proc[p].refresh, proc[q].refresh} \in overlaps'
                BY <2>1, <2>3, <2>5, <3>2
            <4>2. {proc[p].refresh, proc[q].refresh} = {proc'[q].refresh, proc'[r].refresh}
                BY <2>1, <2>2, <2>5, <3>2
            <4> QED
                BY <4>1, <4>2
        <3>3. CASE q # p /\ r # p
            BY <1>t, <2>1, <2>3, <2>5, <3>3 DEF ReadsStand
        <3> QED
            BY <3>1, <3>2, <3>3
    <2>6. \A w \in Workers, f \in Feeds :
             proc'[w].at = "screening" /\ w \notin torn' =>
                 /\ proc'[w].seen[f] = records'[f]
                 /\ state'[f].current => proc'[w].row[f].current
        <3> SUFFICES ASSUME NEW w \in Workers, NEW f \in Feeds,
                            proc'[w].at = "screening", w \notin torn'
                     PROVE  /\ proc'[w].seen[f] = records'[f]
                            /\ state'[f].current => proc'[w].row[f].current
            OBVIOUS
        <3>1. w # p /\ w \in Processes
            BY <1>w, <2>2
        <3> QED
            BY <1>t, <2>1, <2>2, <3>1 DEF ReadsStand
    <2>7. ReadsStand'
        BY <2>2, <2>4, <2>5, <2>6 DEF ReadsStand, Usable
    <2>8. OneDownloadUnlessOverlap'
        BY <1>t, <2>2, <2>3 DEF OneDownloadUnlessOverlap
    <2> QED
        BY <2>7, <2>8 DEF OInv
<1>6. ASSUME NEW p \in Processes, CommitRefresh(p) PROVE OInv'
    <2>1. /\ proc'[p] = Idle /\ proc[p].at = "replaced"
          /\ \A q \in Processes : q # p => proc'[q] = proc[q]
          /\ UNCHANGED overlaps
        BY <1>6, <1>t DEF CommitRefresh, SessionsTyped
    <2>2. \A f \in Feeds :
             records'[f] = (records[f] \ proc[p].seen[f])
                             \cup (IF Usable(f, proc[p].answer[f]) THEN Stored(p, f) ELSE {})
        BY <1>6 DEF CommitRefresh
    <2>3. \A f \in Feeds : \A b \in Stored(p, f) : b.refresh = proc[p].refresh
        BY DEF Stored
    <2>4. \A f \in Feeds : \A b, c \in Stored(p, f) : b = c
        BY DEF Stored
    <2>5. ASSUME NEW q \in Processes, NEW f \in Feeds, NEW b \in records'[f],
                 proc'[q].at = "replaced", Usable(f, proc'[q].answer[f])
          PROVE  b \in proc'[q].seen[f] \/ {b.refresh, proc'[q].refresh} \in overlaps'
        <3>1. q # p /\ proc'[q] = proc[q]
            BY <1>i, <2>1, <2>5
        <3>2. CASE b \in records[f]
            BY <1>t, <2>1, <2>5, <3>1, <3>2 DEF ReadsStand
        <3>3. CASE b \in Stored(p, f)
            <4>1. {proc[p].refresh, proc[q].refresh} \in overlaps
                BY <1>t, <2>1, <2>5, <3>1 DEF ReadsStand
            <4> QED
                BY <2>1, <2>3, <3>1, <3>3, <4>1
        <3> QED
            BY <2>2, <2>5, <3>2, <3>3
    <2>6. ASSUME NEW w \in Workers, proc'[w].at = "screening" PROVE w \in torn'
        <3>1. w # p /\ proc'[w] = proc[w]
            BY <1>i, <1>w, <2>1, <2>6
        <3> QED
            BY <1>6, <2>6, <3>1 DEF CommitRefresh
    <2>7. ASSUME NEW q \in Processes, NEW r \in Processes, q # r,
                 proc'[q].at = "replaced", proc'[r].at = "replaced"
          PROVE  {proc'[q].refresh, proc'[r].refresh} \in overlaps'
        <3>1. proc'[q] = proc[q] /\ proc'[r] = proc[r]
            BY <1>i, <2>1, <2>7
        <3> QED
            BY <1>t, <2>1, <2>7, <3>1 DEF ReadsStand
    <2>8. ReadsStand'
        BY <2>5, <2>6, <2>7 DEF ReadsStand, Usable
    <2>9. ASSUME NEW f \in Feeds, NEW b \in records'[f], NEW c \in records'[f], b # c
          PROVE  {b.refresh, c.refresh} \in overlaps'
        <3>1. ASSUME NEW d \in records[f], d \notin proc[p].seen[f],
                     Usable(f, proc[p].answer[f])
              PROVE  {d.refresh, proc[p].refresh} \in overlaps
            BY <1>t, <2>1, <3>1 DEF ReadsStand
        <3>2. CASE b \in records[f] /\ c \in records[f]
            BY <1>t, <2>1, <2>9, <3>2 DEF OneDownloadUnlessOverlap
        <3>3. CASE b \notin records[f] /\ c \in records[f]
            <4>1. b \in Stored(p, f) /\ Usable(f, proc[p].answer[f])
                BY <2>2, <2>9, <3>3
            <4>2. CASE c \in proc[p].seen[f]
                BY <2>2, <2>4, <2>9, <4>1, <4>2
            <4>3. CASE c \notin proc[p].seen[f]
                <5>1. {c.refresh, proc[p].refresh} \in overlaps
                    BY <3>1, <3>3, <4>1, <4>3
                <5>2. {c.refresh, proc[p].refresh} = {b.refresh, c.refresh}
                    BY <2>3, <4>1
                <5> QED
                    BY <2>1, <5>1, <5>2
            <4> QED
                BY <4>2, <4>3
        <3>4. CASE b \in records[f] /\ c \notin records[f]
            <4>1. c \in Stored(p, f) /\ Usable(f, proc[p].answer[f])
                BY <2>2, <2>9, <3>4
            <4>2. CASE b \in proc[p].seen[f]
                BY <2>2, <2>4, <2>9, <4>1, <4>2
            <4>3. CASE b \notin proc[p].seen[f]
                <5>1. {b.refresh, proc[p].refresh} \in overlaps
                    BY <3>1, <3>4, <4>1, <4>3
                <5> QED
                    BY <2>1, <2>3, <4>1, <5>1
            <4> QED
                BY <4>2, <4>3
        <3>5. CASE b \notin records[f] /\ c \notin records[f]
            BY <2>2, <2>4, <2>9, <3>5
        <3> QED
            BY <3>2, <3>3, <3>4, <3>5
    <2> QED
        BY <2>8, <2>9 DEF OInv, OneDownloadUnlessOverlap
<1>7. ASSUME NEW p \in Processes, AbortRefresh(p) PROVE OInv'
    BY <1>7, <1>i, <1>r DEF AbortRefresh
<1>8. ASSUME NEW w \in Workers, LoadRecords(w) PROVE OInv'
    <2>1. w \in Processes /\ \A q \in Processes : q # w => proc'[q] = proc[q]
        BY <1>8, <1>t, <1>w DEF LoadRecords, SessionsTyped
    <2>2. /\ proc'[w].at = "screening" /\ proc'[w].seen = records /\ proc'[w].row = state
          /\ UNCHANGED <<cache, overlaps>> /\ torn' = torn \ {w}
        BY <1>8, <1>t, <2>1 DEF LoadRecords, SessionsTyped, Idle
    <2>3. \A v \in Workers, f \in Feeds :
             proc'[v].at = "screening" /\ v \notin torn' =>
                 /\ proc'[v].seen[f] = records'[f]
                 /\ state'[f].current => proc'[v].row[f].current
        BY <1>t, <1>w, <2>1, <2>2 DEF ReadsStand
    <2>4. \A q \in Processes : proc'[q].at = "replaced" => proc'[q] = proc[q]
        BY <2>1, <2>2
    <2>5. ReadsStand'
        BY <1>t, <2>2, <2>3, <2>4 DEF ReadsStand, Usable
    <2> QED
        BY <1>t, <2>2, <2>5 DEF OInv, OneDownloadUnlessOverlap
<1>9. ASSUME NEW w \in Workers, Screen(w) PROVE OInv'
    BY <1>9, <1>i, <1>r, <1>w DEF Screen
<1>10. CASE UNCHANGED vars
    BY <1>10, <1>u DEF vars
<1> QED
    BY <1>1, <1>2, <1>3, <1>4, <1>5, <1>6, <1>7, <1>8, <1>9, <1>10 DEF Next, Refresh

LEMMA OInvHolds == Spec => [](IInv /\ OInv)
<1>1. Init => OInv
    <2> SUFFICES ASSUME Init PROVE OInv
        OBVIOUS
    <2>1. \A p \in Processes : proc[p].at = "idle"
        BY DEF Init, Idle
    <2>2. \A w \in Workers : w \in Processes
        BY DEF Processes
    <2>3. \A f \in Feeds : records[f] = {}
        BY DEF Init
    <2> QED
        BY <2>1, <2>2, <2>3 DEF OInv, ReadsStand, OneDownloadUnlessOverlap
<1> QED
    BY <1>1, InitIInv, StepIInv, StepOInv, PTL DEF Spec

\* Whatever overlaps, fails, answers nothing or is cut short, the cache holds two
\* downloads of a feed only of refreshes that had both deleted before either
\* committed (refresh_feeds).
THEOREM OneDownloadEach == Spec => []OneDownloadUnlessOverlap
<1>1. OInv => OneDownloadUnlessOverlap
    BY DEF OInv
<1> QED
    BY <1>1, OInvHolds, PTL

\* A clearance rests on records of every required feed, all within their age when
\* it read them, unless a refresh commits between its two reads: what it reads in
\* a second statement, after the records, can otherwise only have aged
\* (load_sanctions_matcher, _run_screening).
THEOREM ClearanceIsGrounded == Spec => ClearanceInOrder
<1>1. IInv /\ OInv => [ClearedOnRecords]_vars
    <2> SUFFICES ASSUME IInv, OInv, NEW w \in Workers, Screen(w), w \notin torn,
                        verdict' = "NO_MATERIAL_MATCH"
                 PROVE  Required \subseteq basis' /\ hits' = {}
        BY DEF ClearedOnRecords
    <2>1. Matches(w) = {} /\ Complete /\ proc[w].at = "screening"
        BY DEF Screen
    <2>2. ASSUME NEW f \in Required PROVE f \in basis'
        <3>1. f \in Feeds /\ Fresh(f) /\ records[f] # {}
            BY <2>1, ConstantsAssumption DEF Complete, IInv, FreshFeedHasRecords
        <3>2. proc[w].seen[f] # {} /\ proc[w].row[f].current
            BY <2>1, <3>1 DEF OInv, ReadsStand, Fresh
        <3> QED
            BY <3>1, <3>2 DEF Screen
    <2> QED
        BY <2>1, <2>2 DEF Screen
<1> QED
    BY <1>1, OInvHolds, PTL DEF ClearanceInOrder

=============================================================================
