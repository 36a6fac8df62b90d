------------------------------ MODULE JobQueue ------------------------------
(***************************************************************************)
(* The PostgreSQL job queue of jobs/worker.py: the job table and the       *)
(* worker processes that poll it.  One step is one committed transaction,  *)
(* or one statement where the code reads in one statement and writes in a  *)
(* later one (reclaim_stale_jobs, the exception handler): the database     *)
(* runs at READ COMMITTED and those are the points at which workers        *)
(* interleave.                                                             *)
(*                                                                         *)
(* What a job does is left out: _dispatch either commits its effects       *)
(* together with the SUCCEEDED status, or raises.  Time is left out too:   *)
(* locked_at is the flag lapsed, set once the lease has run out.           *)
(***************************************************************************)
EXTENDS Naturals, FiniteSets

CONSTANTS
    Workers,       \* worker processes
    Jobs,          \* job ids, numbered in the order of run_after
    NoWorker,      \* locked_by IS NULL
    NoJob,         \* no job in hand
    MaxAttempts,   \* job.max_attempts
    MaxJobs,       \* max_jobs, the jobs one polling cycle may process
    MaxCrashes,    \* bound: worker deaths and broken cycles
    MaxOverruns    \* bound: leases that run out under a live worker

ASSUME ConstantsAssumption ==
    /\ Jobs \subseteq Nat
    /\ NoJob \notin Jobs
    /\ NoWorker \notin Workers
    /\ MaxAttempts \in Nat \ {0}
    /\ MaxJobs \in Nat \ {0}
    /\ MaxCrashes \in Nat
    /\ MaxOverruns \in Nat

VARIABLES
    \* The job table.
    status, attempts, lockedBy,
    lapsed,      \* locked_at is older than LEASE
    \* The investigation of each job.
    surfaced,    \* its state was moved to FAILED with an audit event
    \* Each worker: where it is, and what its session and locals remember.
    pc,
    stale,       \* stale_ids read by reclaim_stale_jobs
    cur,         \* job_id of the loop of run_pending_jobs
    held,        \* attempts of the rows in the session's identity map, 0: none
    reloaded,    \* the job the variable reloaded refers to
    loaded,      \* the row as the exception handler read it
    processed,
    \* History, for the properties and the bounds.
    runs,        \* runs[j]: times j was claimed
    effects,     \* effects[j]: times a run of j committed its effects
    contested,   \* jobs a worker set out to reclaim from another that had them
    crashes, overruns

table == <<status, attempts, lockedBy, lapsed>>
session == <<stale, cur, held, reloaded, loaded, processed>>
history == <<runs, effects, contested, crashes, overruns>>
vars == <<table, surfaced, pc, session, history>>

Status == {"ABSENT", "PENDING", "RUNNING", "SUCCEEDED", "FAILED"}
Row == [status : Status, attempts : Nat, locked : BOOLEAN]
NoRow == [status |-> "ABSENT", attempts |-> 0, locked |-> FALSE]
EmptySession == [j \in Jobs |-> 0]

TypeOK ==
    /\ status \in [Jobs -> Status]
    /\ attempts \in [Jobs -> Nat]
    /\ lockedBy \in [Jobs -> Workers \cup {NoWorker}]
    /\ lapsed \in [Jobs -> BOOLEAN]
    /\ surfaced \in [Jobs -> BOOLEAN]
    /\ pc \in [Workers -> {"idle", "reclaim", "poll", "execute", "record", "mark"}]
    /\ stale \in [Workers -> SUBSET Jobs]
    /\ cur \in [Workers -> Jobs \cup {NoJob}]
    /\ \A w \in Workers : pc[w] \in {"execute", "record", "mark"} => cur[w] \in Jobs
    /\ held \in [Workers -> [Jobs -> Nat]]
    /\ reloaded \in [Workers -> Jobs \cup {NoJob}]
    /\ loaded \in [Workers -> Row]
    /\ processed \in [Workers -> 0..MaxJobs]
    /\ \A w \in Workers : pc[w] \in {"execute", "record", "mark"} => processed[w] < MaxJobs
    /\ runs \in [Jobs -> Nat]
    /\ effects \in [Jobs -> Nat]
    /\ contested \subseteq Jobs
    /\ crashes \in 0..MaxCrashes
    /\ overruns \in 0..MaxOverruns

Init ==
    /\ status = [j \in Jobs |-> "ABSENT"]
    /\ attempts = [j \in Jobs |-> 0]
    /\ lockedBy = [j \in Jobs |-> NoWorker]
    /\ lapsed = [j \in Jobs |-> FALSE]
    /\ surfaced = [j \in Jobs |-> FALSE]
    /\ pc = [w \in Workers |-> "idle"]
    /\ stale = [w \in Workers |-> {}]
    /\ cur = [w \in Workers |-> NoJob]
    /\ held = [w \in Workers |-> EmptySession]
    /\ reloaded = [w \in Workers |-> NoJob]
    /\ loaded = [w \in Workers |-> NoRow]
    /\ processed = [w \in Workers |-> 0]
    /\ runs = [j \in Jobs |-> 0]
    /\ effects = [j \in Jobs |-> 0]
    /\ contested = {}
    /\ crashes = 0
    /\ overruns = 0

-----------------------------------------------------------------------------
(* Helpers                                                                 *)

\* w is between the claim of j and the transaction that records its outcome.
Executing(w, j) == pc[w] \in {"execute", "record"} /\ cur[w] = j

\* The rows the first statement of reclaim_stale_jobs returns.  Mutants: the
\* lease is not looked at; nothing is ever reclaimed.
StaleIdsAnyLease == {j \in Jobs : status[j] = "RUNNING"}
StaleIdsNone == {}
StaleIds == {j \in Jobs : status[j] = "RUNNING" /\ lapsed[j]}

\* Jobs whose lease has run out although another worker is still in them, or is
\* about to reclaim them too: w is not alone in taking them over.
Contested(w) ==
    {j \in Jobs : /\ status[j] = "RUNNING"
                  /\ lapsed[j]
                  /\ \E v \in Workers \ {w} : Executing(v, j) \/ j \in stale[v]}

\* What claim_one_job selects from.  Mutant: a finished job is taken again.
RunnableAgain == {j \in Jobs : status[j] \in {"PENDING", "SUCCEEDED"}}
Runnable == {j \in Jobs : status[j] = "PENDING"}

\* for _ in range(max_jobs).
InBudget(w) == processed[w] < MaxJobs

\* The exception handler has decided that this failure is the last.  Mutants:
\* one attempt too early; one too late.
TerminalEarly(row) == row.attempts + 1 >= MaxAttempts
TerminalLate(row) == row.attempts > MaxAttempts
Terminal(row) == row.attempts >= MaxAttempts

\* The attempts the session increments: its own copy of the row if it still
\* holds one, because the SELECT does not refresh a row already loaded.
Known(w, j) == IF held[w][j] = 0 THEN attempts[j] ELSE held[w][j]

\* The loop of run_pending_jobs goes on to its next job.
NextJob(w) ==
    /\ pc' = [pc EXCEPT ![w] = "poll"]
    /\ cur' = [cur EXCEPT ![w] = NoJob]
    /\ processed' = [processed EXCEPT ![w] = @ + 1]

-----------------------------------------------------------------------------
(* A request commits an investigation together with its PENDING job.       *)
Enqueue(j) ==
    /\ status[j] = "ABSENT"
    /\ status' = [status EXCEPT ![j] = "PENDING"]
    /\ UNCHANGED <<attempts, lockedBy, lapsed, surfaced, pc, session, history>>

(* A cycle of run_worker opens a session; reclaim_stale_jobs reads.        *)
StartCycle(w) ==
    /\ pc[w] = "idle"
    /\ stale' = [stale EXCEPT ![w] = StaleIds]
    /\ pc' = [pc EXCEPT ![w] = IF StaleIds = {} THEN "poll" ELSE "reclaim"]
    /\ contested' = contested \cup Contested(w)
    /\ UNCHANGED <<table, surfaced, cur, held, reloaded, loaded, processed,
                   runs, effects, crashes, overruns>>

(* The UPDATE of reclaim_stale_jobs: by id only, whatever the rows have    *)
(* become since they were read.                                            *)
Reclaim(w) ==
    /\ pc[w] = "reclaim"
    /\ status' = [j \in Jobs |-> IF j \in stale[w] THEN "PENDING" ELSE status[j]]
    /\ lockedBy' = [j \in Jobs |-> IF j \in stale[w] THEN NoWorker ELSE lockedBy[j]]
    /\ lapsed' = [j \in Jobs |-> lapsed[j] /\ j \notin stale[w]]
    /\ stale' = [stale EXCEPT ![w] = {}]
    /\ pc' = [pc EXCEPT ![w] = "poll"]
    /\ UNCHANGED <<attempts, surfaced, cur, held, reloaded, loaded, processed, history>>

(* claim_one_job and the commit after it: the oldest runnable job.         *)
Claim(w, j) ==
    /\ pc[w] = "poll"
    /\ InBudget(w)
    /\ j \in Runnable
    /\ \A k \in Runnable : j <= k
    /\ status' = [status EXCEPT ![j] = "RUNNING"]
    /\ lockedBy' = [lockedBy EXCEPT ![j] = w]
    /\ lapsed' = [lapsed EXCEPT ![j] = FALSE]
    /\ attempts' = [attempts EXCEPT ![j] = Known(w, j) + 1]
    /\ held' = [held EXCEPT ![w] =
                  [k \in Jobs |-> IF k = j THEN Known(w, j) + 1
                                  ELSE IF k = reloaded[w] THEN held[w][k] ELSE 0]]
    /\ cur' = [cur EXCEPT ![w] = j]
    /\ pc' = [pc EXCEPT ![w] = "execute"]
    /\ runs' = [runs EXCEPT ![j] = @ + 1]
    /\ UNCHANGED <<surfaced, stale, reloaded, loaded, processed, effects, contested,
                   crashes, overruns>>

(* _dispatch returned: its effects and SUCCEEDED commit together.  The     *)
(* UPDATE is by primary key: nothing checks that w still owns the job.     *)
Succeed(w) ==
    /\ pc[w] = "execute"
    /\ status' = [status EXCEPT ![cur[w]] = "SUCCEEDED"]
    /\ lockedBy' = [lockedBy EXCEPT ![cur[w]] = NoWorker]
    /\ lapsed' = [lapsed EXCEPT ![cur[w]] = FALSE]
    /\ effects' = [effects EXCEPT ![cur[w]] = @ + 1]
    /\ NextJob(w)
    /\ UNCHANGED <<attempts, surfaced, stale, held, reloaded, loaded, runs, contested,
                   crashes, overruns>>

(* _dispatch raised: rollback, which expires every row the session holds,  *)
(* then session.get reads the job again.                                   *)
Raise(w) ==
    LET j == cur[w] IN
    /\ pc[w] = "execute"
    /\ loaded' = [loaded EXCEPT ![w] = [status |-> status[j], attempts |-> attempts[j],
                                        locked |-> lockedBy[j] # NoWorker]]
    /\ held' = [held EXCEPT ![w] = [EmptySession EXCEPT ![j] = attempts[j]]]
    /\ reloaded' = [reloaded EXCEPT ![w] = j]
    /\ pc' = [pc EXCEPT ![w] = "record"]
    /\ UNCHANGED <<table, surfaced, stale, cur, processed, history>>

(* The handler's commit.  The session writes only the columns it changed   *)
(* from what it had loaded.                                                *)
RecordFailure(w) ==
    LET j == cur[w]
        row == loaded[w]
        last == Terminal(row)
        outcome == IF last THEN "FAILED" ELSE "PENDING"
    IN
    /\ pc[w] = "record"
    /\ status' = [status EXCEPT ![j] = IF row.status = outcome THEN @ ELSE outcome]
    /\ lockedBy' = [lockedBy EXCEPT ![j] = IF row.locked THEN NoWorker ELSE @]
    /\ lapsed' = [lapsed EXCEPT ![j] = @ /\ ~row.locked]
    /\ loaded' = [loaded EXCEPT ![w] = NoRow]
    /\ \/ /\ last
          /\ pc' = [pc EXCEPT ![w] = "mark"]
          /\ UNCHANGED <<cur, processed>>
       \/ ~last /\ NextJob(w)
    /\ UNCHANGED <<attempts, surfaced, stale, held, reloaded, history>>

(* _mark_investigation_failed: a transaction of its own.  Mutant: the      *)
(* failure is only logged.                                                 *)
MarkFailedLogOnly(w) ==
    /\ pc[w] = "mark"
    /\ NextJob(w)
    /\ UNCHANGED <<table, surfaced, stale, held, reloaded, loaded, history>>

MarkFailed(w) ==
    /\ pc[w] = "mark"
    /\ surfaced' = [surfaced EXCEPT ![cur[w]] = TRUE]
    /\ NextJob(w)
    /\ UNCHANGED <<table, stale, held, reloaded, loaded, history>>

CloseSession(w) ==
    /\ pc' = [pc EXCEPT ![w] = "idle"]
    /\ stale' = [stale EXCEPT ![w] = {}]
    /\ cur' = [cur EXCEPT ![w] = NoJob]
    /\ held' = [held EXCEPT ![w] = EmptySession]
    /\ reloaded' = [reloaded EXCEPT ![w] = NoJob]
    /\ loaded' = [loaded EXCEPT ![w] = NoRow]
    /\ processed' = [processed EXCEPT ![w] = 0]

(* run_pending_jobs returns; run_worker closes the session and sleeps.     *)
EndCycle(w) ==
    /\ pc[w] = "poll"
    /\ Runnable = {} \/ ~InBudget(w)
    /\ CloseSession(w)
    /\ UNCHANGED <<table, surfaced, history>>

(* The process dies, or an error outside the dispatch breaks the cycle:    *)
(* either way the session is gone and the job it had claimed stays RUNNING.*)
Crash(w) ==
    /\ pc[w] # "idle"
    /\ crashes < MaxCrashes
    /\ crashes' = crashes + 1
    /\ CloseSession(w)
    /\ UNCHANGED <<table, surfaced, runs, effects, contested, overruns>>

(* LEASE has passed since the job was locked.  Under a live owner that is  *)
(* an overrun, and bounded.                                                *)
Lapse(j) ==
    LET live == \E w \in Workers : lockedBy[j] = w /\ Executing(w, j) IN
    /\ status[j] = "RUNNING"
    /\ lockedBy[j] # NoWorker
    /\ ~lapsed[j]
    /\ live => overruns < MaxOverruns
    /\ lapsed' = [lapsed EXCEPT ![j] = TRUE]
    /\ overruns' = IF live THEN overruns + 1 ELSE overruns
    /\ UNCHANGED <<status, attempts, lockedBy, surfaced, pc, session, runs, effects, contested,
                   crashes>>

-----------------------------------------------------------------------------
Step(w) ==
    \/ StartCycle(w)
    \/ Reclaim(w)
    \/ \E j \in Jobs : Claim(w, j)
    \/ Succeed(w)
    \/ Raise(w)
    \/ RecordFailure(w)
    \/ MarkFailed(w)
    \/ EndCycle(w)

Next ==
    \/ \E j \in Jobs : Enqueue(j) \/ Lapse(j)
    \/ \E w \in Workers : Step(w) \/ Crash(w)

\* run_worker loops for ever and is restarted when it dies; time passes.
Fairness ==
    /\ \A w \in Workers : WF_vars(Step(w))
    /\ \A j \in Jobs : WF_vars(Lapse(j))

Spec == Init /\ [][Next]_vars
FairSpec == Spec /\ Fairness

-----------------------------------------------------------------------------
(* Properties                                                              *)

\* A job's effects are committed exactly when the job is SUCCEEDED, and once:
\* run_pending_jobs commits them in one transaction with the status, and after a
\* death, a reclaim and a retry they are not committed again.  Of a job that is
\* contested nothing is promised.
EffectsMatchStatus ==
    \A j \in Jobs \ contested : effects[j] = IF status[j] = "SUCCEEDED" THEN 1 ELSE 0

\* The effects of no job are committed twice.
EffectsOnce == \A j \in Jobs : effects[j] <= 1

\* Never two workers in one job: a claim is exclusive until its outcome is
\* recorded or its worker dies and reclaim_stale_jobs hands the job on.  Only a
\* contested job, taken over by two workers or from one that is still in it, can
\* have two.
OneExecutor ==
    \A j \in Jobs \ contested, v, w \in Workers :
        Executing(v, j) /\ Executing(w, j) => v = w

\* A job is given up only after it really was run MaxAttempts times.  The
\* attempts column is what the code compares; runs counts the claims.
GivenUpAfterMax == \A j \in Jobs : status[j] = "FAILED" => runs[j] >= MaxAttempts

\* A job is never run more often than max_attempts allows.
RunsBounded == \A j \in Jobs : runs[j] <= MaxAttempts

\* max_attempts bounds the failures and nothing bounds the deaths, but a death
\* costs a job one more run at most: no retry or reclaim gives it a further one
\* (claim_one_job, reclaim_stale_jobs).
DeathsCostOneRun == \A j \in Jobs : runs[j] <= MaxAttempts + crashes

\* Jobs that failed for good, do not show it on their investigation, and nobody
\* is about to write it there.
Unsurfaced ==
    {j \in Jobs : /\ status[j] = "FAILED"
                  /\ ~surfaced[j]
                  /\ ~\E w \in Workers : pc[w] = "mark" /\ cur[w] = j}

\* A failure is left unseen only by a death between the commit of FAILED and
\* _mark_investigation_failed, and by each death one at most.
FailureSurfaced == Cardinality(Unsurfaced) <= crashes

\* No failure is left unseen.
EveryFailureSurfaced == Unsurfaced = {}

OutcomesKept ==
    \A j \in Jobs \ contested :
        status[j] \in {"SUCCEEDED", "FAILED"} => status'[j] = status[j]

\* What has been recorded as the outcome of a job stays: no reclaim, retry or
\* late worker takes a SUCCEEDED or FAILED job back, unless it was contested.
OutcomeIsFinal == [][OutcomesKept]_vars

\* Every enqueued job ends SUCCEEDED or FAILED: never lost, never RUNNING for
\* ever, whatever the workers and the jobs before it do.
EveryJobSettles ==
    \A j \in Jobs : status[j] = "PENDING" ~> status[j] \in {"SUCCEEDED", "FAILED"}

\* The status column as the outcome DurableQueue speaks of.
Outcome(s) ==
    CASE s = "ABSENT" -> "absent"
      [] s \in {"PENDING", "RUNNING"} -> "open"
      [] s = "SUCCEEDED" -> "done"
      [] s = "FAILED" -> "failed"

Promise == INSTANCE DurableQueue WITH
    outcome <- [j \in Jobs |-> Outcome(status[j])],
    tries <- runs

\* Every step of the queue is a step of DurableQueue or leaves it alone.
KeepsPromise == Promise!Safety

=============================================================================
