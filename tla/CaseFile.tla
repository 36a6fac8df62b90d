------------------------------ MODULE CaseFile ------------------------------
(***************************************************************************)
(* One investigation as the people using Sentinel are to see it, with      *)
(* jobs, workers, requests and columns left out: the file is opened, the   *)
(* search concludes, an analyst chooses the legal entity once, and the     *)
(* enrichment of that entity concludes.  No phase is entered twice and the *)
(* chosen entity never changes.                                            *)
(***************************************************************************)
CONSTANTS Candidates, None

VARIABLES
    phase,
    subject    \* the legal entity the file is about, None until it is chosen

vars == <<phase, subject>>

Init ==
    /\ phase = "absent"
    /\ subject = None

Open ==
    /\ phase = "absent"
    /\ phase' \in {"blocked", "searching"}
    /\ UNCHANGED subject

\* Several plausible entities, none, a source outage, or a technical failure.
Search ==
    /\ phase = "searching"
    /\ phase' \in {"choosing", "unverified", "unavailable", "failed"}
    /\ UNCHANGED subject

Choose(c) ==
    /\ phase = "choosing"
    /\ phase' = "enriching"
    /\ subject' = c

Enrich ==
    /\ phase = "enriching"
    /\ phase' \in {"completed", "failed"}
    /\ UNCHANGED subject

Next == Open \/ Search \/ (\E c \in Candidates : Choose(c)) \/ Enrich

Safety == Init /\ [][Next]_vars

\* What Sentinel itself has to do gets done; people may wait for ever.
Spec == Safety /\ WF_vars(Search) /\ WF_vars(Enrich)

=============================================================================
