---------------------------- MODULE DurableQueue ----------------------------
(***************************************************************************)
(* What the job table promises the code that enqueues work, with the       *)
(* workers, leases and sessions of JobQueue left out: a submitted job is   *)
(* tried, ends exactly once, either with its effects committed or given up *)
(* after at least MaxAttempts tries, and what has ended never changes.     *)
(***************************************************************************)
EXTENDS Naturals

CONSTANTS Jobs, MaxAttempts

VARIABLES
    outcome,   \* outcome[j]: "absent", "open", "done" or "failed"
    tries      \* tries[j]: executions started so far

vars == <<outcome, tries>>

Init ==
    /\ outcome = [j \in Jobs |-> "absent"]
    /\ tries = [j \in Jobs |-> 0]

Submit(j) ==
    /\ outcome[j] = "absent"
    /\ outcome' = [outcome EXCEPT ![j] = "open"]
    /\ UNCHANGED tries

Try(j) ==
    /\ outcome[j] = "open"
    /\ tries' = [tries EXCEPT ![j] = @ + 1]
    /\ UNCHANGED outcome

Complete(j) ==
    /\ outcome[j] = "open"
    /\ tries[j] > 0
    /\ outcome' = [outcome EXCEPT ![j] = "done"]
    /\ UNCHANGED tries

GiveUp(j) ==
    /\ outcome[j] = "open"
    /\ tries[j] >= MaxAttempts
    /\ outcome' = [outcome EXCEPT ![j] = "failed"]
    /\ UNCHANGED tries

Next == \E j \in Jobs : Submit(j) \/ Try(j) \/ Complete(j) \/ GiveUp(j)

Safety == Init /\ [][Next]_vars

\* A submitted job is started and, once started, ends.
Fairness == \A j \in Jobs :
    /\ WF_vars(tries[j] = 0 /\ Try(j))
    /\ WF_vars(Complete(j) \/ GiveUp(j))

Spec == Safety /\ Fairness

=============================================================================
