--------------------------- MODULE JobQueueProofs ---------------------------
(***************************************************************************)
(* Theorems about JobQueue for every set of workers and jobs, every        *)
(* max_attempts and max_jobs, and every number of faults.                  *)
(***************************************************************************)
EXTENDS JobQueue, FiniteSetTheorems, TLAPS

-----------------------------------------------------------------------------
(* Types                                                                   *)

\* The initial state is well typed.
LEMMA InitType == Init => TypeOK
<1> SUFFICES ASSUME Init PROVE TypeOK
    OBVIOUS
<1>1. NoRow \in Row
    BY DEF NoRow, Row, Status
<1>2. EmptySession \in [Jobs -> Nat]
    BY DEF EmptySession
<1> QED
    BY <1>1, <1>2, ConstantsAssumption DEF Init, TypeOK, Status

\* Every step of a worker, of a request and of time keeps the types.
LEMMA StepType == TypeOK /\ [Next]_vars => TypeOK'
<1> SUFFICES ASSUME TypeOK, [Next]_vars PROVE TypeOK'
    OBVIOUS
<1> USE DEF TypeOK, table, session, history, vars
<1>0. NoRow \in Row /\ EmptySession \in [Jobs -> Nat]
    BY DEF NoRow, Row, Status, EmptySession
<1>c. ASSUME NEW w \in Workers, CloseSession(w),
             UNCHANGED <<table, surfaced, runs, effects, contested, overruns>>,
             crashes' \in 0..MaxCrashes
      PROVE  TypeOK'
    BY <1>c, <1>0, ConstantsAssumption DEF CloseSession
<1>1. ASSUME NEW j \in Jobs, Enqueue(j) PROVE TypeOK'
    BY <1>1 DEF Enqueue, Status
<1>2. ASSUME NEW j \in Jobs, Lapse(j) PROVE TypeOK'
    BY <1>2, ConstantsAssumption DEF Lapse
<1>3. ASSUME NEW w \in Workers, StartCycle(w) PROVE TypeOK'
    BY <1>3 DEF StartCycle, StaleIds, Contested
<1>4. ASSUME NEW w \in Workers, Reclaim(w) PROVE TypeOK'
    BY <1>4 DEF Reclaim, Status
<1>5. ASSUME NEW w \in Workers, NEW j \in Jobs, Claim(w, j) PROVE TypeOK'
    <2>1. Known(w, j) \in Nat
        BY DEF Known
    <2>2. attempts' \in [Jobs -> Nat] /\ held' \in [Workers -> [Jobs -> Nat]]
        BY <1>5, <2>1 DEF Claim
    <2>3. /\ status' \in [Jobs -> Status]
          /\ lockedBy' \in [Jobs -> Workers \cup {NoWorker}]
          /\ lapsed' \in [Jobs -> BOOLEAN]
          /\ runs' \in [Jobs -> Nat]
        BY <1>5 DEF Claim, Status
    <2>4. /\ pc' \in [Workers -> {"idle", "reclaim", "poll", "execute", "record", "mark"}]
          /\ cur' \in [Workers -> Jobs \cup {NoJob}]
          /\ \A v \in Workers : pc'[v] \in {"execute", "record", "mark"} => cur'[v] \in Jobs
          /\ \A v \in Workers :
                pc'[v] \in {"execute", "record", "mark"} => processed'[v] < MaxJobs
        BY <1>5 DEF Claim, InBudget
    <2> QED
        BY <1>5, <2>2, <2>3, <2>4 DEF Claim
<1>n. ASSUME NEW w \in Workers, NextJob(w), processed[w] < MaxJobs
      PROVE  /\ pc' \in [Workers -> {"idle", "reclaim", "poll", "execute", "record", "mark"}]
             /\ cur' \in [Workers -> Jobs \cup {NoJob}]
             /\ processed' \in [Workers -> 0..MaxJobs]
             /\ \A v \in Workers : pc'[v] \in {"execute", "record", "mark"} =>
                    cur'[v] \in Jobs /\ processed'[v] < MaxJobs
    BY <1>n, ConstantsAssumption DEF NextJob
<1>6. ASSUME NEW w \in Workers, Succeed(w) PROVE TypeOK'
    <2>1. cur[w] \in Jobs /\ processed[w] < MaxJobs /\ NextJob(w)
        BY <1>6 DEF Succeed
    <2>2. /\ status' \in [Jobs -> Status]
          /\ lockedBy' \in [Jobs -> Workers \cup {NoWorker}]
          /\ lapsed' \in [Jobs -> BOOLEAN]
          /\ effects' \in [Jobs -> Nat]
        BY <1>6, <2>1 DEF Succeed, Status
    <2> QED
        BY <1>6, <1>n, <2>1, <2>2 DEF Succeed
<1>7. ASSUME NEW w \in Workers, Raise(w) PROVE TypeOK'
    BY <1>7, <1>0 DEF Raise, Row, EmptySession
<1>8. ASSUME NEW w \in Workers, RecordFailure(w) PROVE TypeOK'
    <2>1. cur[w] \in Jobs /\ processed[w] < MaxJobs
        BY <1>8 DEF RecordFailure
    <2>2. /\ status' \in [Jobs -> Status]
          /\ lockedBy' \in [Jobs -> Workers \cup {NoWorker}]
          /\ lapsed' \in [Jobs -> BOOLEAN]
          /\ loaded' \in [Workers -> Row]
        BY <1>8, <1>0, <2>1 DEF RecordFailure, Status
    <2>3. CASE NextJob(w)
        BY <1>8, <1>n, <2>1, <2>2, <2>3 DEF RecordFailure
    <2>4. CASE pc' = [pc EXCEPT ![w] = "mark"] /\ UNCHANGED <<cur, processed>>
        BY <1>8, <2>1, <2>2, <2>4 DEF RecordFailure
    <2> QED
        BY <1>8, <2>3, <2>4 DEF RecordFailure
<1>9. ASSUME NEW w \in Workers, MarkFailed(w) PROVE TypeOK'
    BY <1>9, ConstantsAssumption DEF MarkFailed, NextJob
<1>10. ASSUME NEW w \in Workers, EndCycle(w) PROVE TypeOK'
    BY <1>10, <1>c DEF EndCycle
<1>11. ASSUME NEW w \in Workers, Crash(w) PROVE TypeOK'
    BY <1>11, <1>c, ConstantsAssumption DEF Crash
<1>12. CASE UNCHANGED vars
    BY <1>12
<1> QED
    BY <1>1, <1>2, <1>3, <1>4, <1>5, <1>6, <1>7, <1>8, <1>9, <1>10, <1>11, <1>12
    DEF Next, Step

\* The job table and the workers' sessions always hold values of their types:
\* a worker that executes, records or marks has a job in hand, and has not yet
\* used up its cycle of max_jobs.
THEOREM TypeCorrect == Spec => []TypeOK
<1> QED
    BY InitType, StepType, PTL DEF Spec

-----------------------------------------------------------------------------
(* Attempts                                                                *)

\* No copy of the attempts column, in the table, in a session or in the
\* handler's hands, exceeds the number of times the job was really claimed.
Counted ==
    /\ \A j \in Jobs : attempts[j] <= runs[j]
    /\ \A w \in Workers, j \in Jobs : held[w][j] <= runs[j]
    /\ \A w \in Workers : pc[w] = "record" => loaded[w].attempts <= runs[cur[w]]

\* Stale copies can only make the count too low: a step that increments a copy
\* also claims the job.
LEMMA StepCounted == TypeOK /\ Counted /\ [Next]_vars => Counted'
<1> SUFFICES ASSUME TypeOK, Counted, [Next]_vars PROVE Counted'
    OBVIOUS
<1> USE DEF TypeOK, Counted, table, session, history, vars
<1>c. ASSUME NEW w \in Workers, CloseSession(w), UNCHANGED <<attempts, runs>>
      PROVE  Counted'
    BY <1>c DEF CloseSession, EmptySession
<1>1. ASSUME NEW j \in Jobs, Enqueue(j) PROVE Counted'
    BY <1>1 DEF Enqueue
<1>2. ASSUME NEW j \in Jobs, Lapse(j) PROVE Counted'
    BY <1>2 DEF Lapse
<1>3. ASSUME NEW w \in Workers, StartCycle(w) PROVE Counted'
    BY <1>3 DEF StartCycle
<1>4. ASSUME NEW w \in Workers, Reclaim(w) PROVE Counted'
    BY <1>4 DEF Reclaim
<1>5. ASSUME NEW w \in Workers, NEW j \in Jobs, Claim(w, j) PROVE Counted'
    <2>1. Known(w, j) \in Nat /\ Known(w, j) <= runs[j]
        BY DEF Known
    <2>2. /\ runs' = [runs EXCEPT ![j] = runs[j] + 1]
          /\ attempts' = [attempts EXCEPT ![j] = Known(w, j) + 1]
          /\ pc' = [pc EXCEPT ![w] = "execute"]
          /\ cur' = [cur EXCEPT ![w] = j]
          /\ loaded' = loaded
        BY <1>5 DEF Claim
    <2>3. \A k \in Jobs : runs[k] <= runs'[k] /\ attempts'[k] <= runs'[k]
        BY <2>1, <2>2
    <2>4. \A v \in Workers, k \in Jobs : held'[v][k] <= runs'[k]
        BY <1>5, <2>1, <2>2, <2>3 DEF Claim
    <2>5. ASSUME NEW v \in Workers, pc'[v] = "record"
          PROVE  loaded'[v].attempts <= runs'[cur'[v]]
        <3>1. v # w /\ pc[v] = "record" /\ cur'[v] = cur[v] /\ cur[v] \in Jobs
            BY <2>2, <2>5
        <3>2. loaded[v].attempts \in Nat
            BY DEF Row
        <3> QED
            BY <2>2, <2>3, <3>1, <3>2
    <2> QED
        BY <2>3, <2>4, <2>5
<1>6. ASSUME NEW w \in Workers, Succeed(w) PROVE Counted'
    BY <1>6 DEF Succeed, NextJob
<1>7. ASSUME NEW w \in Workers, Raise(w) PROVE Counted'
    BY <1>7 DEF Raise, EmptySession
<1>8. ASSUME NEW w \in Workers, RecordFailure(w) PROVE Counted'
    BY <1>8 DEF RecordFailure, NextJob
<1>9. ASSUME NEW w \in Workers, MarkFailed(w) PROVE Counted'
    BY <1>9 DEF MarkFailed, NextJob
<1>10. ASSUME NEW w \in Workers, EndCycle(w) PROVE Counted'
    BY <1>10, <1>c DEF EndCycle
<1>11. ASSUME NEW w \in Workers, Crash(w) PROVE Counted'
    BY <1>11, <1>c DEF Crash
<1>12. CASE UNCHANGED vars
    BY <1>12
<1> QED
    BY <1>1, <1>2, <1>3, <1>4, <1>5, <1>6, <1>7, <1>8, <1>9, <1>10, <1>11, <1>12
    DEF Next, Step

\* A step that makes a job FAILED has seen max_attempts reached in a copy.
LEMMA StepGivenUp == TypeOK /\ Counted /\ GivenUpAfterMax /\ [Next]_vars => GivenUpAfterMax'
<1> SUFFICES ASSUME TypeOK, Counted, GivenUpAfterMax, [Next]_vars,
                    NEW j \in Jobs, status'[j] = "FAILED"
             PROVE  runs'[j] >= MaxAttempts
    BY DEF GivenUpAfterMax
<1> USE DEF TypeOK, table, session, history, vars
<1>1. runs[j] \in Nat /\ runs'[j] \in Nat /\ runs[j] <= runs'[j]
    BY DEF Next, Step, Enqueue, Lapse, StartCycle, Reclaim, Claim, Succeed, Raise,
           RecordFailure, MarkFailed, EndCycle, Crash
<1>2. CASE status[j] = "FAILED"
    BY <1>1, <1>2, ConstantsAssumption DEF GivenUpAfterMax
<1>3. CASE status[j] # "FAILED"
    <2>1. PICK w \in Workers : RecordFailure(w) /\ cur[w] = j /\ Terminal(loaded[w])
        <3>1. ASSUME NEW w \in Workers, RecordFailure(w)
              PROVE  cur[w] = j /\ Terminal(loaded[w])
            BY <1>3, <3>1 DEF RecordFailure
        <3> QED
            BY <1>3, <3>1 DEF Next, Step, Enqueue, Lapse, StartCycle, Reclaim, Claim, Succeed,
                              Raise, MarkFailed, EndCycle, Crash
    <2>2. pc[w] = "record" /\ loaded[w].attempts \in Nat
        BY <2>1 DEF RecordFailure, Row
    <2> QED
        BY <1>1, <2>1, <2>2, ConstantsAssumption DEF Counted, Terminal
<1> QED
    BY <1>2, <1>3

\* Whatever workers crash, overrun their leases or count from stale rows, a job
\* ends FAILED only after it was run at least max_attempts times: a failure that
\* could still be retried is never made final.
THEOREM GivenUpOnlyAfterMax == Spec => []GivenUpAfterMax
<1>1. Init => Counted /\ GivenUpAfterMax
    BY DEF Init, Counted, GivenUpAfterMax, EmptySession
<1> QED
    BY <1>1, InitType, StepType, StepCounted, StepGivenUp, PTL DEF Spec

-----------------------------------------------------------------------------
(* Ownership                                                               *)

\* The row of j says who executes it, what a handler has read of it is still
\* so, and a worker about to reclaim it is the only one to touch it.
OwnedJob(j) ==
    /\ \A w \in Workers : Executing(w, j) => status[j] = "RUNNING" /\ lockedBy[j] = w
    /\ \A w \in Workers :
          pc[w] = "record" /\ cur[w] = j => loaded[w].status = "RUNNING" /\ loaded[w].locked
    /\ \A w \in Workers :
          j \in stale[w] =>
             /\ status[j] = "RUNNING" /\ lapsed[j]
             /\ \A v \in Workers : ~Executing(v, j) /\ (j \in stale[v] => v = w)

\* Only a reclaimer remembers stale ids, and every job not contested is owned.
Reclaiming == \A w \in Workers : stale[w] # {} => pc[w] = "reclaim"
Owned == Reclaiming /\ \A j \in Jobs \ contested : OwnedJob(j)

\* A session forgets its stale ids before it claims.
LEMMA StepReclaiming == ASSUME TypeOK, Reclaiming, [Next]_vars PROVE Reclaiming'
<1> USE DEF TypeOK, Reclaiming, table, session, history, vars
<1>1. ASSUME NEW j \in Jobs, Enqueue(j) \/ Lapse(j) PROVE Reclaiming'
    BY <1>1 DEF Enqueue, Lapse
<1>2. ASSUME NEW w \in Workers, StartCycle(w) PROVE Reclaiming'
    BY <1>2 DEF StartCycle
<1>3. ASSUME NEW w \in Workers, Reclaim(w) PROVE Reclaiming'
    BY <1>3 DEF Reclaim
<1>4. ASSUME NEW w \in Workers, NEW j \in Jobs, Claim(w, j) PROVE Reclaiming'
    BY <1>4 DEF Claim
<1>5. ASSUME NEW w \in Workers, Succeed(w) \/ Raise(w) \/ RecordFailure(w) \/ MarkFailed(w)
      PROVE  Reclaiming'
    BY <1>5 DEF Succeed, Raise, RecordFailure, MarkFailed, NextJob
<1>6. ASSUME NEW w \in Workers, EndCycle(w) \/ Crash(w) PROVE Reclaiming'
    BY <1>6 DEF EndCycle, Crash, CloseSession
<1> QED
    BY <1>1, <1>2, <1>3, <1>4, <1>5, <1>6 DEF Next, Step

\* Once contested, always contested.
LEMMA StepContested == ASSUME [Next]_vars PROVE contested \subseteq contested'
<1> USE DEF session, history, vars
<1>1. ASSUME NEW j \in Jobs, Enqueue(j) \/ Lapse(j) PROVE contested' = contested
    BY <1>1 DEF Enqueue, Lapse
<1>2. ASSUME NEW w \in Workers, StartCycle(w) PROVE contested \subseteq contested'
    BY <1>2 DEF StartCycle
<1>3. ASSUME NEW w \in Workers, NEW j \in Jobs, Claim(w, j) PROVE contested' = contested
    BY <1>3 DEF Claim
<1>4. ASSUME NEW w \in Workers,
             \/ Reclaim(w) \/ Succeed(w) \/ Raise(w) \/ RecordFailure(w) \/ MarkFailed(w)
             \/ EndCycle(w) \/ Crash(w)
      PROVE  contested' = contested
    BY <1>4 DEF Reclaim, Succeed, Raise, RecordFailure, MarkFailed, EndCycle, Crash
<1> QED
    BY <1>1, <1>2, <1>3, <1>4 DEF Next, Step

\* Workers respect each other's ownership of a job at every step that does not
\* start to contest it.
LEMMA StepOwnedJob ==
    ASSUME TypeOK, Reclaiming, [Next]_vars, NEW j \in Jobs, OwnedJob(j), j \notin contested'
    PROVE  OwnedJob(j)'
<1> USE DEF TypeOK, Executing, Reclaiming, table, session, history, vars
<1>0. /\ \A w \in Workers : Executing(w, j) => status[j] = "RUNNING" /\ lockedBy[j] = w
      /\ \A w \in Workers :
            pc[w] = "record" /\ cur[w] = j => loaded[w].status = "RUNNING" /\ loaded[w].locked
      /\ \A w \in Workers :
            j \in stale[w] =>
               /\ status[j] = "RUNNING" /\ lapsed[j]
               /\ \A v \in Workers : ~Executing(v, j) /\ (j \in stale[v] => v = w)
    BY DEF OwnedJob
\* A step that leaves the row alone, puts nobody new in the job and reads nothing.
<1>s. ASSUME status'[j] = status[j], lockedBy'[j] = lockedBy[j], lapsed[j] => lapsed'[j],
             \A v \in Workers : Executing(v, j)' => Executing(v, j),
             \A v \in Workers :
                pc'[v] = "record" /\ cur'[v] = j =>
                    pc[v] = "record" /\ cur[v] = j /\ loaded'[v] = loaded[v],
             \A v \in Workers : j \in stale'[v] => j \in stale[v]
      PROVE  OwnedJob(j)'
    BY <1>0, <1>s DEF OwnedJob
\* A step that ends RUNNING has left the job to nobody.
<1>e. ASSUME \A v \in Workers : ~Executing(v, j)' /\ j \notin stale'[v]
      PROVE  OwnedJob(j)'
    BY <1>e DEF OwnedJob
<1>1. ASSUME NEW k \in Jobs, Enqueue(k) PROVE OwnedJob(j)'
    BY <1>0, <1>1 DEF Enqueue, OwnedJob
<1>2. ASSUME NEW k \in Jobs, Lapse(k) PROVE OwnedJob(j)'
    <2>1. /\ UNCHANGED <<status, lockedBy, pc, cur, stale, loaded>>
          /\ lapsed[j] => lapsed'[j]
        BY <1>2 DEF Lapse
    <2> QED
        BY <1>s, <2>1
<1>3. ASSUME NEW w \in Workers, StartCycle(w) PROVE OwnedJob(j)'
    <2>1. /\ pc[w] = "idle" /\ pc' = [pc EXCEPT ![w] = pc'[w]] /\ pc'[w] \in {"poll", "reclaim"}
          /\ stale' = [stale EXCEPT ![w] = StaleIds]
          /\ UNCHANGED <<status, lockedBy, lapsed, cur, loaded>>
          /\ j \notin Contested(w)
        BY <1>3 DEF StartCycle
    <2>2. \A v \in Workers : Executing(v, j)' <=> Executing(v, j)
        BY <2>1
    <2>3. CASE j \notin StaleIds
        BY <1>s, <2>1, <2>2, <2>3
    <2>4. CASE j \in StaleIds
        <3>1. status[j] = "RUNNING" /\ lapsed[j]
            BY <2>4 DEF StaleIds
        <3>2. \A v \in Workers : ~Executing(v, j) /\ (v # w => j \notin stale[v])
            BY <2>1, <3>1 DEF Contested
        <3> QED
            BY <2>1, <2>2, <3>1, <3>2 DEF OwnedJob
    <2> QED
        BY <2>3, <2>4
<1>4. ASSUME NEW w \in Workers, Reclaim(w) PROVE OwnedJob(j)'
    <2>1. /\ pc[w] = "reclaim" /\ pc' = [pc EXCEPT ![w] = "poll"]
          /\ stale' = [stale EXCEPT ![w] = {}]
          /\ UNCHANGED <<cur, loaded>>
        BY <1>4 DEF Reclaim
    <2>2. CASE j \in stale[w]
        BY <1>0, <1>e, <2>1, <2>2
    <2>3. CASE j \notin stale[w]
        <3>1. status'[j] = status[j] /\ lockedBy'[j] = lockedBy[j] /\ lapsed'[j] = lapsed[j]
            BY <1>4, <2>3 DEF Reclaim
        <3> QED
            BY <1>s, <2>1, <3>1
    <2> QED
        BY <2>2, <2>3
<1>5. ASSUME NEW w \in Workers, NEW k \in Jobs, Claim(w, k) PROVE OwnedJob(j)'
    <2>1. /\ status[k] = "PENDING" /\ pc[w] = "poll"
          /\ status' = [status EXCEPT ![k] = "RUNNING"]
          /\ lockedBy' = [lockedBy EXCEPT ![k] = w] /\ lapsed' = [lapsed EXCEPT ![k] = FALSE]
          /\ pc' = [pc EXCEPT ![w] = "execute"] /\ cur' = [cur EXCEPT ![w] = k]
          /\ stale' = stale /\ loaded' = loaded
        BY <1>5 DEF Claim, Runnable
    <2>2. CASE k = j
        <3>1. \A v \in Workers : ~Executing(v, j) /\ j \notin stale[v]
            BY <1>0, <2>1, <2>2
        <3>2. status'[j] = "RUNNING" /\ lockedBy'[j] = w
            BY <2>1, <2>2
        <3>3. \A v \in Workers : Executing(v, j)' => v = w
            BY <2>1, <3>1
        <3>4. \A v \in Workers : ~(pc'[v] = "record" /\ cur'[v] = j)
            BY <2>1, <3>1
        <3> QED
            BY <2>1, <3>1, <3>2, <3>3, <3>4 DEF OwnedJob
    <2>3. CASE k # j
        BY <1>s, <2>1, <2>3
    <2> QED
        BY <2>2, <2>3
<1>6. ASSUME NEW w \in Workers, Succeed(w) PROVE OwnedJob(j)'
    <2>1. /\ cur[w] \in Jobs /\ pc[w] = "execute"
          /\ \A k \in Jobs : k # cur[w] =>
                 status'[k] = status[k] /\ lockedBy'[k] = lockedBy[k] /\ lapsed'[k] = lapsed[k]
          /\ pc' = [pc EXCEPT ![w] = "poll"] /\ cur' = [cur EXCEPT ![w] = NoJob]
          /\ stale' = stale /\ loaded' = loaded
        BY <1>6 DEF Succeed, NextJob
    <2>2. CASE cur[w] = j
        BY <1>0, <1>e, <2>1, <2>2
    <2>3. CASE cur[w] # j
        BY <1>s, <2>1, <2>3
    <2> QED
        BY <2>2, <2>3
<1>7. ASSUME NEW w \in Workers, Raise(w) PROVE OwnedJob(j)'
    <2>1. /\ cur[w] \in Jobs /\ pc[w] = "execute" /\ pc' = [pc EXCEPT ![w] = "record"]
          /\ loaded' = [loaded EXCEPT ![w] = [status |-> status[cur[w]],
                                              attempts |-> attempts[cur[w]],
                                              locked |-> lockedBy[cur[w]] # NoWorker]]
          /\ UNCHANGED <<status, lockedBy, lapsed, stale, cur>>
        BY <1>7 DEF Raise
    <2>2. CASE cur[w] = j
        <3>1. status[j] = "RUNNING" /\ lockedBy[j] # NoWorker
            BY <1>0, <2>1, <2>2, ConstantsAssumption
        <3>2. loaded'[w].status = "RUNNING" /\ loaded'[w].locked
            BY <2>1, <2>2, <3>1
        <3>3. \A v \in Workers : Executing(v, j)' <=> Executing(v, j)
            BY <2>1
        <3>4. \A v \in Workers : v # w => loaded'[v] = loaded[v] /\ pc'[v] = pc[v]
            BY <2>1
        <3> QED
            BY <1>0, <2>1, <3>1, <3>2, <3>3, <3>4 DEF OwnedJob
    <2>3. CASE cur[w] # j
        BY <1>s, <2>1, <2>3
    <2> QED
        BY <2>2, <2>3
<1>8. ASSUME NEW w \in Workers, RecordFailure(w) PROVE OwnedJob(j)'
    <2>1. /\ cur[w] \in Jobs /\ pc[w] = "record"
          /\ pc' = [pc EXCEPT ![w] = pc'[w]] /\ pc'[w] \in {"mark", "poll"}
          /\ \A v \in Workers : v # w => cur'[v] = cur[v] /\ loaded'[v] = loaded[v]
          /\ \A k \in Jobs : k # cur[w] =>
                 status'[k] = status[k] /\ lockedBy'[k] = lockedBy[k] /\ lapsed'[k] = lapsed[k]
          /\ stale' = stale
        BY <1>8 DEF RecordFailure, NextJob
    <2>2. \A v \in Workers : Executing(v, j)' => v # w /\ Executing(v, j)
        BY <2>1
    <2>3. CASE cur[w] = j
        BY <1>0, <1>e, <2>1, <2>2, <2>3
    <2>4. CASE cur[w] # j
        BY <1>s, <2>1, <2>2, <2>4
    <2> QED
        BY <2>3, <2>4
<1>9. ASSUME NEW w \in Workers, MarkFailed(w) PROVE OwnedJob(j)'
    BY <1>s, <1>9 DEF MarkFailed, NextJob
<1>10. ASSUME NEW w \in Workers, EndCycle(w) \/ Crash(w) PROVE OwnedJob(j)'
    <2>1. /\ pc' = [pc EXCEPT ![w] = "idle"] /\ cur' = [cur EXCEPT ![w] = NoJob]
          /\ stale' = [stale EXCEPT ![w] = {}] /\ loaded' = [loaded EXCEPT ![w] = NoRow]
          /\ UNCHANGED <<status, lockedBy, lapsed>>
        BY <1>10 DEF EndCycle, Crash, CloseSession
    <2> QED
        BY <1>s, <2>1
<1>11. CASE UNCHANGED vars
    BY <1>s, <1>11
<1> QED
    BY <1>1, <1>2, <1>3, <1>4, <1>5, <1>6, <1>7, <1>8, <1>9, <1>10, <1>11 DEF Next, Step

\* Ownership holds throughout.
LEMMA AlwaysOwned == Spec => [](TypeOK /\ Owned)
<1>1. Init => Owned
    BY DEF Init, Owned, OwnedJob, Reclaiming, Executing
<1>2. Owned /\ TypeOK /\ [Next]_vars => Owned'
    <2> SUFFICES ASSUME Owned, TypeOK, [Next]_vars PROVE Owned'
        OBVIOUS
    <2>1. Reclaiming' /\ contested \subseteq contested'
        BY StepReclaiming, StepContested DEF Owned
    <2>2. ASSUME NEW j \in Jobs, j \notin contested' PROVE OwnedJob(j)'
        BY <2>1, <2>2, StepOwnedJob DEF Owned
    <2> QED
        BY <2>1, <2>2 DEF Owned
<1> QED
    BY <1>1, <1>2, InitType, StepType, PTL DEF Spec

\* Any number of workers, dying and overrunning their leases at any points and
\* reclaiming each other's jobs, never have two of them in one job, unless one
\* set out to reclaim it from another that was still in it or was reclaiming it
\* too (claim_one_job, reclaim_stale_jobs).
THEOREM ClaimIsExclusive == Spec => []OneExecutor
<1>1. TypeOK /\ Owned => OneExecutor
    BY DEF Owned, OwnedJob, OneExecutor
<1> QED
    BY <1>1, AlwaysOwned, PTL

\* The deployment runs one worker process, which has nobody to take a job from:
\* it reclaims between its own jobs, however its leases run out and wherever it
\* dies.
SoleWorker == \A v, w \in Workers : v = w

LEMMA NothingContested == ASSUME SoleWorker PROVE Spec => [](contested = {})
<1>1. Init => contested = {}
    BY DEF Init
<1>2. contested = {} /\ [Next]_vars => (contested = {})'
    <2> SUFFICES ASSUME contested = {}, [Next]_vars PROVE contested' = {}
        OBVIOUS
    <2> USE DEF session, history, vars
    <2>1. ASSUME NEW j \in Jobs, Enqueue(j) \/ Lapse(j) PROVE contested' = contested
        BY <2>1 DEF Enqueue, Lapse
    <2>2. ASSUME NEW w \in Workers, StartCycle(w) PROVE contested' = contested
        <3>1. Contested(w) = {}
            BY DEF Contested, SoleWorker
        <3> QED
            BY <2>2, <3>1 DEF StartCycle
    <2>3. ASSUME NEW w \in Workers, NEW j \in Jobs, Claim(w, j) PROVE contested' = contested
        BY <2>3 DEF Claim
    <2>4. ASSUME NEW w \in Workers,
                 \/ Reclaim(w) \/ Succeed(w) \/ Raise(w) \/ RecordFailure(w) \/ MarkFailed(w)
                 \/ EndCycle(w) \/ Crash(w)
          PROVE  contested' = contested
        BY <2>4 DEF Reclaim, Succeed, Raise, RecordFailure, MarkFailed, EndCycle, Crash
    <2> QED
        BY <2>1, <2>2, <2>3, <2>4 DEF Next, Step
<1> QED
    BY <1>1, <1>2, PTL DEF Spec

-----------------------------------------------------------------------------
(* Outcomes and effects                                                    *)

\* A step moves the status of a job that is not contested only along ABSENT,
\* PENDING, RUNNING and on to an outcome, and commits effects exactly with
\* SUCCEEDED.
LEMMA StepOutcome ==
    ASSUME TypeOK, Owned, [Next]_vars, NEW j \in Jobs \ contested
    PROVE  \/ status'[j] = status[j] /\ effects'[j] = effects[j]
           \/ /\ status[j] \in {"ABSENT", "PENDING", "RUNNING"}
              /\ status'[j] \in {"PENDING", "RUNNING", "FAILED"}
              /\ effects'[j] = effects[j]
           \/ /\ status[j] = "RUNNING" /\ status'[j] = "SUCCEEDED"
              /\ effects'[j] = effects[j] + 1
<1> DEFINE Kept == \/ status'[j] = status[j] /\ effects'[j] = effects[j]
                   \/ /\ status[j] \in {"ABSENT", "PENDING", "RUNNING"}
                      /\ status'[j] \in {"PENDING", "RUNNING", "FAILED"}
                      /\ effects'[j] = effects[j]
<1> USE DEF TypeOK, table, session, history, vars
<1>0. OwnedJob(j)
    BY DEF Owned
<1>1. ASSUME NEW k \in Jobs, Enqueue(k) \/ Lapse(k) PROVE Kept
    BY <1>1 DEF Enqueue, Lapse
<1>2. ASSUME NEW w \in Workers, Reclaim(w) PROVE Kept
    BY <1>0, <1>2 DEF Reclaim, OwnedJob
<1>3. ASSUME NEW w \in Workers, NEW k \in Jobs, Claim(w, k) PROVE Kept
    BY <1>3 DEF Claim, Runnable
<1>4. ASSUME NEW w \in Workers, RecordFailure(w) PROVE Kept
    <2>1. cur[w] \in Jobs /\ (cur[w] = j => status[j] = "RUNNING")
        BY <1>0, <1>4 DEF RecordFailure, OwnedJob, Executing
    <2> QED
        BY <1>4, <2>1 DEF RecordFailure
<1>5. ASSUME NEW w \in Workers, Succeed(w), cur[w] # j PROVE Kept
    BY <1>5 DEF Succeed
<1>6. ASSUME NEW w \in Workers, Succeed(w), cur[w] = j
      PROVE  status[j] = "RUNNING" /\ status'[j] = "SUCCEEDED" /\ effects'[j] = effects[j] + 1
    BY <1>0, <1>6 DEF Succeed, OwnedJob, Executing
<1>7. ASSUME NEW w \in Workers,
             StartCycle(w) \/ Raise(w) \/ MarkFailed(w) \/ EndCycle(w) \/ Crash(w)
      PROVE  Kept
    BY <1>7 DEF StartCycle, Raise, MarkFailed, EndCycle, Crash
<1>8. CASE UNCHANGED vars
    BY <1>8
<1> QED
    BY <1>1, <1>2, <1>3, <1>4, <1>5, <1>6, <1>7, <1>8 DEF Next, Step

\* Whatever workers die and reclaim, a job's effects are committed exactly when
\* it is SUCCEEDED, and once: no retry, reclaim or second worker commits them
\* again, unless the job was contested.
THEOREM EffectsCommitOnce == Spec => []EffectsMatchStatus
<1>1. Init => EffectsMatchStatus
    BY DEF Init, EffectsMatchStatus
<1>2. ASSUME TypeOK, Owned, EffectsMatchStatus, [Next]_vars
      PROVE  EffectsMatchStatus'
    <2> SUFFICES ASSUME NEW j \in Jobs \ contested'
                 PROVE  effects'[j] = IF status'[j] = "SUCCEEDED" THEN 1 ELSE 0
        BY DEF EffectsMatchStatus
    <2>0. j \in Jobs \ contested
        BY <1>2, StepContested
    <2>1. effects[j] = IF status[j] = "SUCCEEDED" THEN 1 ELSE 0
        BY <1>2, <2>0 DEF EffectsMatchStatus
    <2> QED
        BY <1>2, <2>0, <2>1, StepOutcome
<1> QED
    BY <1>1, <1>2, AlwaysOwned, PTL DEF Spec

\* Whatever workers die and reclaim, the recorded outcome of a job never changes,
\* unless the job was contested before.
THEOREM OutcomesAreFinal == Spec => OutcomeIsFinal
<1>1. TypeOK /\ Owned /\ [Next]_vars => [OutcomesKept]_vars
    BY StepOutcome DEF OutcomesKept
<1> QED
    BY <1>1, AlwaysOwned, PTL DEF Spec, OutcomeIsFinal

-----------------------------------------------------------------------------
(* Terminal failures                                                       *)

\* No step but a death leaves a failure unseen, and a death that of one job.
LEMMA StepUnsurfaced ==
    ASSUME TypeOK, [Next]_vars
    PROVE  \/ Unsurfaced' \subseteq Unsurfaced /\ crashes' = crashes
           \/ /\ \E k \in Jobs \cup {NoJob} : Unsurfaced' \subseteq Unsurfaced \cup {k}
              /\ crashes' = crashes + 1
<1> USE DEF TypeOK, Unsurfaced, table, session, history, vars
<1>1. ASSUME NEW j \in Jobs, Enqueue(j) \/ Lapse(j)
      PROVE  Unsurfaced' \subseteq Unsurfaced /\ crashes' = crashes
    BY <1>1 DEF Enqueue, Lapse
<1>2. ASSUME NEW w \in Workers, StartCycle(w) \/ Reclaim(w)
      PROVE  Unsurfaced' \subseteq Unsurfaced /\ crashes' = crashes
    BY <1>2 DEF StartCycle, Reclaim
<1>3. ASSUME NEW w \in Workers, NEW j \in Jobs, Claim(w, j)
      PROVE  Unsurfaced' \subseteq Unsurfaced /\ crashes' = crashes
    BY <1>3 DEF Claim
<1>4. ASSUME NEW w \in Workers, Succeed(w) \/ Raise(w)
      PROVE  Unsurfaced' \subseteq Unsurfaced /\ crashes' = crashes
    BY <1>4 DEF Succeed, Raise, NextJob
<1>5. ASSUME NEW w \in Workers, RecordFailure(w)
      PROVE  Unsurfaced' \subseteq Unsurfaced /\ crashes' = crashes
    <2>1. /\ UNCHANGED <<surfaced, crashes>>
          /\ pc[w] = "record"
          /\ \A v \in Workers : v # w => pc'[v] = pc[v] /\ cur'[v] = cur[v]
        BY <1>5 DEF RecordFailure, NextJob
    <2>2. \A k \in Jobs : status'[k] = "FAILED" => status[k] = "FAILED" \/ k = cur[w]
        BY <1>5 DEF RecordFailure
    <2>3. \/ pc'[w] = "mark" /\ cur'[w] = cur[w]
          \/ \A k \in Jobs : status'[k] = "FAILED" => status[k] = "FAILED"
        <3>1. CASE Terminal(loaded[w])
            BY <1>5, <3>1 DEF RecordFailure
        <3>2. CASE ~Terminal(loaded[w])
            <4>1. status' = [status EXCEPT ![cur[w]] =
                               IF loaded[w].status = "PENDING" THEN @ ELSE "PENDING"]
                BY <1>5, <3>2 DEF RecordFailure
            <4> QED
                BY <4>1
        <3> QED
            BY <3>1, <3>2
    <2> HIDE DEF TypeOK, table, session, history, vars
    <2> QED
        BY <2>1, <2>2, <2>3
<1>6. ASSUME NEW w \in Workers, MarkFailed(w)
      PROVE  Unsurfaced' \subseteq Unsurfaced /\ crashes' = crashes
    BY <1>6 DEF MarkFailed, NextJob
<1>7. ASSUME NEW w \in Workers, EndCycle(w)
      PROVE  Unsurfaced' \subseteq Unsurfaced /\ crashes' = crashes
    BY <1>7 DEF EndCycle, CloseSession
<1>8. ASSUME NEW w \in Workers, Crash(w)
      PROVE  /\ \E k \in Jobs \cup {NoJob} : Unsurfaced' \subseteq Unsurfaced \cup {k}
             /\ crashes' = crashes + 1
    <2>1. /\ UNCHANGED <<status, surfaced>> /\ crashes' = crashes + 1
          /\ \A v \in Workers : v # w => pc'[v] = pc[v] /\ cur'[v] = cur[v]
        BY <1>8 DEF Crash, CloseSession
    <2>2. Unsurfaced' \subseteq Unsurfaced \cup {cur[w]}
        BY <2>1
    <2>3. cur[w] \in Jobs \cup {NoJob}
        OBVIOUS
    <2> HIDE DEF TypeOK, Unsurfaced, table, session, history, vars
    <2> QED
        BY <2>1, <2>2, <2>3
<1>9. CASE UNCHANGED vars
    BY <1>9
<1> QED
    BY <1>1, <1>2, <1>3, <1>4, <1>5, <1>6, <1>7, <1>8, <1>9 DEF Next, Step

\* Any number of workers, contested jobs included, leave at most as many failures
\* off their investigations as workers died: each one is lost to a death between
\* the commit of FAILED and _mark_investigation_failed.
THEOREM FailuresSurface == Spec => []FailureSurfaced
<1> DEFINE Few == IsFiniteSet(Unsurfaced) /\ Cardinality(Unsurfaced) <= crashes
<1>1. Init => Few
    <2>1. Init => Unsurfaced = {} /\ crashes = 0
        BY DEF Init, Unsurfaced
    <2> QED
        BY <2>1, FS_EmptySet
<1>2. TypeOK /\ Few /\ [Next]_vars => Few'
    <2> SUFFICES ASSUME TypeOK, Few, [Next]_vars PROVE Few'
        OBVIOUS
    <2>0. crashes \in Nat /\ Cardinality(Unsurfaced) \in Nat
        BY ConstantsAssumption, FS_CardinalityType DEF TypeOK
    <2>1. CASE Unsurfaced' \subseteq Unsurfaced /\ crashes' = crashes
        <3>1. IsFiniteSet(Unsurfaced') /\ Cardinality(Unsurfaced') <= Cardinality(Unsurfaced)
            BY <2>1, FS_Subset
        <3>2. Cardinality(Unsurfaced') \in Nat
            BY <3>1, FS_CardinalityType
        <3> QED
            BY <2>0, <2>1, <3>1, <3>2
    <2>2. ASSUME NEW k \in Jobs \cup {NoJob}, Unsurfaced' \subseteq Unsurfaced \cup {k},
                 crashes' = crashes + 1
          PROVE  Few'
        <3>1. /\ IsFiniteSet(Unsurfaced \cup {k})
              /\ Cardinality(Unsurfaced \cup {k}) <= Cardinality(Unsurfaced) + 1
            BY <2>0, FS_AddElement
        <3>2. /\ IsFiniteSet(Unsurfaced')
              /\ Cardinality(Unsurfaced') <= Cardinality(Unsurfaced \cup {k})
            BY <2>2, <3>1, FS_Subset
        <3>3. Cardinality(Unsurfaced') \in Nat /\ Cardinality(Unsurfaced \cup {k}) \in Nat
            BY <3>1, <3>2, FS_CardinalityType
        <3> QED
            BY <2>0, <2>2, <3>1, <3>2, <3>3
    <2> QED
        BY <2>1, <2>2, StepUnsurfaced
<1> QED
    BY <1>1, <1>2, InitType, StepType, PTL DEF Spec, FailureSurfaced

-----------------------------------------------------------------------------
(* Refinement                                                              *)

\* A RUNNING job has been claimed at least once.
Started == \A j \in Jobs : status[j] = "RUNNING" => runs[j] > 0

\* Only a claim makes a job RUNNING.
LEMMA StepStarted == ASSUME TypeOK, Started, [Next]_vars PROVE Started'
<1> USE DEF TypeOK, Started, table, session, history, vars
<1>1. ASSUME NEW w \in Workers, NEW j \in Jobs, Claim(w, j) PROVE Started'
    BY <1>1 DEF Claim
<1>2. ASSUME NEW w \in Workers, Succeed(w) \/ RecordFailure(w) PROVE Started'
    BY <1>2 DEF Succeed, RecordFailure
<1>3. ASSUME NEW w \in Workers,
             \/ StartCycle(w) \/ Reclaim(w) \/ Raise(w) \/ MarkFailed(w)
             \/ EndCycle(w) \/ Crash(w)
      PROVE  Started'
    BY <1>3 DEF StartCycle, Reclaim, Raise, MarkFailed, EndCycle, Crash
<1>4. ASSUME NEW j \in Jobs, Enqueue(j) \/ Lapse(j) PROVE Started'
    BY <1>4 DEF Enqueue, Lapse
<1> QED
    BY <1>1, <1>2, <1>3, <1>4 DEF Next, Step

\* The outcome of one job changes in DurableQueue when its status changes here.
LEMMA OutcomeOf ==
    /\ Outcome("ABSENT") = "absent"
    /\ Outcome("PENDING") = "open" /\ Outcome("RUNNING") = "open"
    /\ Outcome("SUCCEEDED") = "done"
    /\ Outcome("FAILED") = "failed"
<1> QED
    BY DEF Outcome

\* As long as no job is contested, the queue implements the safety of
\* DurableQueue: every step is a submission, a try, a completion or a giving-up
\* of one job, or changes nothing the caller sees.
THEOREM QueueIsDurable == Spec /\ [](contested = {}) => KeepsPromise
<1>1. Init => Promise!Init
    BY OutcomeOf DEF Init, Promise!Init
<1>2. ASSUME TypeOK, Owned, contested = {}, Started, GivenUpAfterMax', [Next]_vars
      PROVE  [Promise!Next]_Promise!vars
    <2> USE DEF TypeOK, table, session, history, vars
    <2>1. ASSUME NEW j \in Jobs, Enqueue(j) PROVE Promise!Submit(j)
        BY <1>2, <2>1, OutcomeOf DEF Enqueue, Promise!Submit
    <2>2. ASSUME NEW j \in Jobs, Lapse(j) PROVE UNCHANGED Promise!vars
        BY <1>2, <2>2 DEF Lapse, Promise!vars
    <2>3. ASSUME NEW w \in Workers, Reclaim(w) PROVE UNCHANGED Promise!vars
        <3>1. \A j \in Jobs : Outcome(status'[j]) = Outcome(status[j])
            BY <1>2, <2>3, OutcomeOf DEF Reclaim, Owned, OwnedJob
        <3> QED
            BY <1>2, <2>3, <3>1 DEF Reclaim, Promise!vars
    <2>4. ASSUME NEW w \in Workers, NEW j \in Jobs, Claim(w, j) PROVE Promise!Try(j)
        <3>1. status[j] = "PENDING" /\ status' = [status EXCEPT ![j] = "RUNNING"]
            BY <1>2, <2>4 DEF Claim, Runnable
        <3>2. \A k \in Jobs : Outcome(status'[k]) = Outcome(status[k])
            BY <1>2, <3>1, OutcomeOf
        <3> QED
            BY <1>2, <2>4, <3>1, <3>2, OutcomeOf DEF Claim, Promise!Try
    <2>5. ASSUME NEW w \in Workers, Succeed(w) PROVE Promise!Complete(cur[w])
        <3>1. cur[w] \in Jobs /\ status[cur[w]] = "RUNNING" /\ runs' = runs
            BY <1>2, <2>5 DEF Succeed, Owned, OwnedJob, Executing
        <3>2. runs[cur[w]] > 0
            BY <1>2, <3>1 DEF Started
        <3> QED
            BY <1>2, <2>5, <3>1, <3>2, OutcomeOf DEF Succeed, Promise!Complete
    <2>6. ASSUME NEW w \in Workers, RecordFailure(w)
          PROVE  Promise!GiveUp(cur[w]) \/ UNCHANGED Promise!vars
        <3>1. cur[w] \in Jobs /\ status[cur[w]] = "RUNNING" /\ runs' = runs
            BY <1>2, <2>6 DEF RecordFailure, Owned, OwnedJob, Executing
        <3>2. loaded[w].status = "RUNNING"
            BY <1>2, <2>6, <3>1 DEF RecordFailure, Owned, OwnedJob
        <3>3. CASE status' = [status EXCEPT ![cur[w]] = "PENDING"]
            <4>1. \A k \in Jobs : Outcome(status'[k]) = Outcome(status[k])
                BY <1>2, <3>1, <3>3, OutcomeOf
            <4> QED
                BY <1>2, <3>1, <4>1 DEF Promise!vars
        <3>4. CASE status' = [status EXCEPT ![cur[w]] = "FAILED"]
            <4>1. runs[cur[w]] >= MaxAttempts
                BY <1>2, <3>1, <3>4 DEF GivenUpAfterMax
            <4> QED
                BY <1>2, <3>1, <3>4, <4>1, OutcomeOf DEF Promise!GiveUp
        <3> QED
            BY <1>2, <2>6, <3>2, <3>3, <3>4 DEF RecordFailure
    <2>7. ASSUME NEW w \in Workers,
                 StartCycle(w) \/ Raise(w) \/ MarkFailed(w) \/ EndCycle(w) \/ Crash(w)
          PROVE  UNCHANGED Promise!vars
        BY <1>2, <2>7 DEF StartCycle, Raise, MarkFailed, EndCycle, Crash, Promise!vars
    <2>8. CASE UNCHANGED vars
        BY <1>2, <2>8 DEF Promise!vars
    <2>9. ASSUME NEW w \in Workers, Succeed(w) PROVE Promise!Next
        <3>1. cur[w] \in Jobs
            BY <1>2, <2>9 DEF Succeed
        <3> QED
            BY <1>2, <2>5, <2>9, <3>1 DEF Promise!Next
    <2>10. ASSUME NEW w \in Workers, RecordFailure(w)
           PROVE  Promise!Next \/ UNCHANGED Promise!vars
        <3>1. cur[w] \in Jobs
            BY <1>2, <2>10 DEF RecordFailure
        <3> QED
            BY <1>2, <2>6, <2>10, <3>1 DEF Promise!Next
    <2> QED
        BY <1>2, <2>1, <2>2, <2>3, <2>4, <2>7, <2>8, <2>9, <2>10 DEF Next, Step, Promise!Next
<1>3. Init => Started
    BY DEF Init, Started
<1>4. TypeOK /\ Started /\ [Next]_vars => Started'
    BY StepStarted
<1>5. TypeOK /\ Owned /\ contested = {} /\ Started /\ GivenUpAfterMax' /\ [Next]_vars =>
          [Promise!Next]_Promise!vars
    BY <1>2
<1> QED
    BY <1>1, <1>3, <1>4, <1>5, AlwaysOwned, GivenUpOnlyAfterMax, PTL
    DEF Spec, KeepsPromise, Promise!Safety

-----------------------------------------------------------------------------
(* Runs                                                                    *)

\* The only worker's copies of the attempts column are never out of date, so
\* the column counts the claims.
Tallied ==
    /\ \A j \in Jobs : attempts[j] = runs[j]
    /\ \A w \in Workers, j \in Jobs : held[w][j] \in {0, attempts[j]}
    /\ \A w \in Workers : pc[w] = "record" => loaded[w].attempts = attempts[cur[w]]

\* Nobody has the job in hand.
Loose(j) ==
    \/ status[j] \in {"ABSENT", "PENDING"}
    \/ status[j] = "RUNNING" /\ ~\E w \in Workers : Executing(w, j)

\* A job that may be claimed again has a run to spare: it failed with attempts
\* left, or a death has paid for it.
Paid ==
    \A j \in Jobs :
        /\ runs[j] <= MaxAttempts + crashes
        /\ Loose(j) => runs[j] < MaxAttempts + crashes

LEMMA StepTallied ==
    ASSUME SoleWorker, TypeOK, Tallied, [Next]_vars
    PROVE  Tallied'
<1> USE DEF TypeOK, table, session, history, vars
<1>c. ASSUME NEW w \in Workers, CloseSession(w), UNCHANGED <<attempts, runs>>
      PROVE  Tallied'
    BY <1>c DEF CloseSession, EmptySession, Tallied
<1>1. ASSUME NEW j \in Jobs, Enqueue(j) \/ Lapse(j) PROVE Tallied'
    BY <1>1 DEF Enqueue, Lapse, Tallied
<1>2. ASSUME NEW w \in Workers, StartCycle(w) \/ Reclaim(w) PROVE Tallied'
    BY <1>2 DEF StartCycle, Reclaim, Tallied
<1>3. ASSUME NEW w \in Workers, NEW j \in Jobs, Claim(w, j) PROVE Tallied'
    <2>1. Known(w, j) = attempts[j]
        BY DEF Known, Tallied
    <2>2. /\ attempts' = [attempts EXCEPT ![j] = attempts[j] + 1]
          /\ runs' = [runs EXCEPT ![j] = runs[j] + 1]
          /\ pc' = [pc EXCEPT ![w] = "execute"]
          /\ held' = [held EXCEPT ![w] =
                        [k \in Jobs |-> IF k = j THEN attempts[j] + 1
                                        ELSE IF k = reloaded[w] THEN held[w][k] ELSE 0]]
        BY <1>3, <2>1 DEF Claim
    <2>3. \A v \in Workers : v = w
        BY DEF SoleWorker
    <2>4. \A k \in Jobs : attempts'[k] = runs'[k]
        BY <2>2 DEF Tallied
    <2>5. \A k \in Jobs : held'[w][k] \in {0, attempts'[k]}
        BY <2>2 DEF Tallied
    <2>6. pc'[w] # "record"
        BY <2>2
    <2> QED
        BY <2>3, <2>4, <2>5, <2>6 DEF Tallied
<1>4. ASSUME NEW w \in Workers, Succeed(w) PROVE Tallied'
    BY <1>4 DEF Succeed, NextJob, Tallied
<1>5. ASSUME NEW w \in Workers, Raise(w) PROVE Tallied'
    BY <1>5 DEF Raise, EmptySession, Tallied
<1>6. ASSUME NEW w \in Workers, RecordFailure(w) PROVE Tallied'
    BY <1>6 DEF RecordFailure, NextJob, Tallied
<1>7. ASSUME NEW w \in Workers, MarkFailed(w) PROVE Tallied'
    BY <1>7 DEF MarkFailed, NextJob, Tallied
<1>8. ASSUME NEW w \in Workers, EndCycle(w) \/ Crash(w) PROVE Tallied'
    BY <1>8, <1>c DEF EndCycle, Crash
<1>9. CASE UNCHANGED vars
    BY <1>9 DEF Tallied
<1> QED
    BY <1>1, <1>2, <1>3, <1>4, <1>5, <1>6, <1>7, <1>8, <1>9 DEF Next, Step

LEMMA StepPaid ==
    ASSUME SoleWorker, contested = {}, TypeOK, Owned, Tallied, Paid, [Next]_vars
    PROVE  Paid'
<1> USE DEF TypeOK, Executing, table, session, history, vars
<1> SUFFICES ASSUME NEW j \in Jobs
             PROVE  /\ runs'[j] <= MaxAttempts + crashes'
                    /\ Loose(j)' => runs'[j] < MaxAttempts + crashes'
    BY DEF Paid
<1> DEFINE Kept == runs'[j] <= MaxAttempts + crashes' /\
                   (Loose(j)' => runs'[j] < MaxAttempts + crashes')
<1>0. /\ runs[j] <= MaxAttempts + crashes
      /\ Loose(j) => runs[j] < MaxAttempts + crashes
      /\ runs[j] \in Nat /\ crashes \in Nat /\ MaxAttempts \in Nat
    BY ConstantsAssumption DEF Paid
<1>1. ASSUME UNCHANGED <<runs, crashes>>, Loose(j)' => Loose(j) PROVE Kept
    BY <1>0, <1>1
<1>2. ASSUME NEW k \in Jobs, Enqueue(k) \/ Lapse(k) PROVE Kept
    BY <1>1, <1>2 DEF Enqueue, Lapse, Loose
<1>3. ASSUME NEW w \in Workers, StartCycle(w) \/ MarkFailed(w) \/ EndCycle(w) PROVE Kept
    BY <1>1, <1>3 DEF StartCycle, MarkFailed, NextJob, EndCycle, CloseSession, Loose
<1>4. ASSUME NEW w \in Workers, Reclaim(w) PROVE Kept
    <2>1. \A k \in stale[w] : Loose(k)
        BY <1>4 DEF Reclaim, Owned, OwnedJob, Loose
    <2> QED
        BY <1>1, <1>4, <2>1 DEF Reclaim, Loose
<1>5. ASSUME NEW w \in Workers, NEW k \in Jobs, Claim(w, k) PROVE Kept
    <2>1. /\ status[k] = "PENDING" /\ status' = [status EXCEPT ![k] = "RUNNING"]
          /\ pc[w] = "poll" /\ pc' = [pc EXCEPT ![w] = "execute"]
          /\ cur' = [cur EXCEPT ![w] = k]
          /\ runs' = [runs EXCEPT ![k] = runs[k] + 1] /\ crashes' = crashes
        BY <1>5 DEF Claim, Runnable
    <2>2. CASE j = k
        <3>1. Loose(j)
            BY <2>1, <2>2 DEF Loose
        <3>2. ~Loose(j)'
            BY <2>1, <2>2 DEF Loose
        <3> QED
            BY <1>0, <2>1, <2>2, <3>1, <3>2
    <2>3. CASE j # k
        <3>1. Loose(j)' => Loose(j)
            BY <2>1, <2>3 DEF Loose
        <3> QED
            BY <1>0, <2>1, <2>3, <3>1
    <2> QED
        BY <2>2, <2>3
<1>6. ASSUME NEW w \in Workers, Succeed(w) PROVE Kept
    <2>1. /\ cur[w] \in Jobs /\ pc[w] = "execute"
          /\ status' = [status EXCEPT ![cur[w]] = "SUCCEEDED"]
          /\ pc' = [pc EXCEPT ![w] = "poll"] /\ cur' = [cur EXCEPT ![w] = NoJob]
          /\ UNCHANGED <<runs, crashes>>
        BY <1>6 DEF Succeed, NextJob
    <2>2. Loose(j)' => Loose(j)
        BY <2>1 DEF Loose
    <2> QED
        BY <1>1, <2>1, <2>2
<1>7. ASSUME NEW w \in Workers, Raise(w) PROVE Kept
    BY <1>1, <1>7 DEF Raise, Loose
<1>8. ASSUME NEW w \in Workers, RecordFailure(w) PROVE Kept
    <2>1. /\ cur[w] \in Jobs /\ pc[w] = "record"
          /\ loaded[w].status = "RUNNING"
          /\ loaded[w].attempts = runs[cur[w]]
        BY <1>8 DEF RecordFailure, Owned, OwnedJob, Tallied
    <2>2. /\ status' = [status EXCEPT ![cur[w]] =
                           IF Terminal(loaded[w]) THEN "FAILED" ELSE "PENDING"]
          /\ pc' = [pc EXCEPT ![w] = pc'[w]] /\ pc'[w] \in {"mark", "poll"}
          /\ \A v \in Workers : v # w => cur'[v] = cur[v]
          /\ UNCHANGED <<runs, crashes>>
        BY <1>8, <2>1 DEF RecordFailure, NextJob
    <2>3. CASE j = cur[w]
        <3>1. CASE Terminal(loaded[w])
            BY <1>0, <2>1, <2>2, <2>3, <3>1 DEF Loose
        <3>2. CASE ~Terminal(loaded[w])
            BY <1>0, <2>1, <2>2, <2>3, <3>2 DEF Terminal
        <3> QED
            BY <3>1, <3>2
    <2>4. CASE j # cur[w]
        <3>1. Loose(j)' => Loose(j)
            BY <2>1, <2>2, <2>4 DEF Loose
        <3> QED
            BY <1>1, <2>2, <3>1
    <2> QED
        BY <2>3, <2>4
<1>9. ASSUME NEW w \in Workers, Crash(w) PROVE Kept
    <2>1. runs' = runs /\ crashes' = crashes + 1
        BY <1>9 DEF Crash
    <2> QED
        BY <1>0, <2>1
<1>10. CASE UNCHANGED vars
    BY <1>1, <1>10 DEF Loose
<1> QED
    BY <1>2, <1>3, <1>4, <1>5, <1>6, <1>7, <1>8, <1>9, <1>10 DEF Next, Step

\* With one worker a job is run at most max_attempts times and once more for
\* each death, although no attempt is refunded when a lease runs out and nothing
\* compares attempts before a claim: a reclaimed job is the one a death left
\* RUNNING, and leases that run out under the live worker cost nothing
\* (claim_one_job, reclaim_stale_jobs).
THEOREM DeathsCostOneRunEach == ASSUME SoleWorker PROVE Spec => []DeathsCostOneRun
<1>1. Init => Tallied /\ Paid
    BY ConstantsAssumption DEF Init, Tallied, Paid, EmptySession
<1>2. TypeOK /\ Tallied /\ [Next]_vars => Tallied'
    BY StepTallied
<1>3. TypeOK /\ contested = {} /\ Owned /\ Tallied /\ Paid /\ [Next]_vars => Paid'
    BY StepPaid
<1>4. Paid => DeathsCostOneRun
    BY DEF Paid, DeathsCostOneRun
<1>5. Spec => [](TypeOK /\ Owned /\ contested = {})
    BY AlwaysOwned, NothingContested, PTL
<1> QED
    BY <1>1, <1>2, <1>3, <1>4, <1>5, PTL DEF Spec

\* So a worker that never dies runs no job more often than max_attempts,
\* whatever leases run out under it.
THEOREM RunsAreBounded == ASSUME SoleWorker, MaxCrashes = 0 PROVE Spec => []RunsBounded
<1>1. TypeOK /\ DeathsCostOneRun => RunsBounded
    BY ConstantsAssumption DEF TypeOK, DeathsCostOneRun, RunsBounded
<1> QED
    BY <1>1, TypeCorrect, DeathsCostOneRunEach, PTL

=============================================================================
