------------------------- MODULE CaseLifecycleProofs -------------------------
(***************************************************************************)
(* Theorems about CaseLifecycle for every set of candidates, analysts and  *)
(* workers, every source that may fail, and every max_attempts.            *)
(***************************************************************************)
EXTENDS CaseLifecycle, WellFoundedInduction, TLAPS

-----------------------------------------------------------------------------
(* Induction on the naturals, over a set instead of a predicate            *)

\* A nonempty set of naturals has a least element.
LEMMA Least ==
    ASSUME NEW T \in SUBSET Nat, T # {}
    PROVE  \E n \in T : \A m \in T : ~(m < n)
<1> DEFINE R == {ss \in Nat \X Nat : ss[1] < ss[2]}
<1>1. IsWellFoundedOn(R, Nat)
    BY NatLessThanWellFounded, Zenon DEF OpToRel
<1>2. \E n \in T : \A m \in T : <<m, n>> \notin R
    <2> HIDE DEF R
    <2> QED
        BY <1>1, WFMin
<1>3. \A m, n \in Nat : m < n => <<m, n>> \in R
    OBVIOUS
<1> QED
    BY <1>2, <1>3

\* A set with 0 and with the successor of each of its elements has them all.
LEMMA Induction ==
    ASSUME NEW S \in SUBSET Nat, 0 \in S, \A n \in S : n + 1 \in S
    PROVE  S = Nat
<1> SUFFICES ASSUME Nat \ S # {} PROVE FALSE
    OBVIOUS
<1>1. PICK n \in Nat \ S : \A m \in Nat \ S : ~(m < n)
    <2>1. Nat \ S \in SUBSET Nat
        OBVIOUS
    <2> QED
        BY <2>1, Least
<1>2. n # 0 /\ n - 1 \in Nat /\ n - 1 < n
    OBVIOUS
<1>3. n - 1 \in S
    BY <1>1, <1>2
<1> QED
    BY <1>2, <1>3

-----------------------------------------------------------------------------
(* What consulting the sources in order leaves of the completeness         *)

Completenesses == {None, "COMPLETE_WITH_LIMITATIONS", "MATERIAL_SOURCE_UNAVAILABLE"}

\* g[n] is the completeness after the first n sources of the order.
Progress(g, order, failed, completeness) ==
    g = [n \in 0..Len(order) |->
            IF n = 0 THEN completeness
            ELSE IF order[n] \in failed THEN AfterOutage(g[n - 1], order[n])
            ELSE g[n - 1]]

\* One more source can always be consulted.
LEMMA ProgressExists ==
    ASSUME NEW order, Len(order) \in Nat, NEW failed, NEW completeness
    PROVE  \E g : Progress(g, order, failed, completeness)
<1> DEFINE Upto(g, k) ==
        g = [n \in 0..k |->
                IF n = 0 THEN completeness
                ELSE IF order[n] \in failed THEN AfterOutage(g[n - 1], order[n])
                ELSE g[n - 1]]
    S == {k \in Nat : \E g : Upto(g, k)}
<1>1. 0 \in S
    <2> DEFINE g == [n \in 0..0 |-> completeness]
    <2>1. Upto(g, 0)
        OBVIOUS
    <2> QED
        BY <2>1
<1>2. ASSUME NEW k \in S PROVE k + 1 \in S
    <2>1. PICK g : Upto(g, k)
        OBVIOUS
    <2> DEFINE next == IF order[k + 1] \in failed THEN AfterOutage(g[k], order[k + 1]) ELSE g[k]
               h == [n \in 0..(k + 1) |-> IF n = k + 1 THEN next ELSE g[n]]
    <2>2. ASSUME NEW n \in 0..(k + 1)
          PROVE  h[n] = IF n = 0 THEN completeness
                        ELSE IF order[n] \in failed THEN AfterOutage(h[n - 1], order[n])
                        ELSE h[n - 1]
        <3>1. CASE n = 0
            BY <2>1, <3>1
        <3>2. CASE n = k + 1
            <4>1. h[n] = next /\ h[n - 1] = g[k] /\ n - 1 = k /\ n # 0
                BY <3>2
            <4> HIDE DEF h
            <4> QED
                BY <4>1, <3>2
        <3>3. CASE n \in 1..k
            <4>1. h[n] = g[n] /\ h[n - 1] = g[n - 1] /\ n # 0
                BY <3>3
            <4>2. g[n] = IF order[n] \in failed THEN AfterOutage(g[n - 1], order[n]) ELSE g[n - 1]
                BY <2>1, <3>3
            <4> HIDE DEF h
            <4> QED
                BY <4>1, <4>2
        <3> QED
            BY <3>1, <3>2, <3>3
    <2>3. Upto(h, k + 1)
        <3> DEFINE f == [n \in 0..(k + 1) |->
                            IF n = 0 THEN completeness
                            ELSE IF order[n] \in failed THEN AfterOutage(h[n - 1], order[n])
                            ELSE h[n - 1]]
        <3>1. DOMAIN h = 0..(k + 1) /\ \A n \in 0..(k + 1) : h[n] = f[n]
            <4>1. DOMAIN h = 0..(k + 1)
                OBVIOUS
            <4> HIDE DEF h
            <4> QED
                BY <4>1, <2>2
        <3>2. h = [n \in 0..(k + 1) |-> h[n]]
            OBVIOUS
        <3> HIDE DEF h
        <3> QED
            BY <3>1, <3>2
    <2>4. k + 1 \in Nat
        OBVIOUS
    <2> HIDE DEF h, Upto
    <2> QED
        BY <2>3, <2>4
<1> HIDE DEF S
<1>3. S \in SUBSET Nat
    BY DEF S
<1>4. S = Nat
    BY <1>1, <1>2, <1>3, Induction
<1>5. Len(order) \in S
    BY <1>4
<1> QED
    BY <1>5, Zenon DEF S, Progress

\* Consult is what the order's progress ends with.
LEMMA ConsultDef ==
    ASSUME NEW order, Len(order) \in Nat, NEW failed, NEW completeness
    PROVE  \E g : /\ Progress(g, order, failed, completeness)
                  /\ Consult(order, failed, completeness) = g[Len(order)]
<1>1. PICK g : g = CHOOSE h : h = [n \in 0..Len(order) |->
                                    IF n = 0 THEN completeness
                                    ELSE IF order[n] \in failed
                                         THEN AfterOutage(h[n - 1], order[n])
                                    ELSE h[n - 1]]
    OBVIOUS
<1>2. \E h : Progress(h, order, failed, completeness)
    BY ProgressExists
<1>3. Progress(g, order, failed, completeness)
    BY <1>1, <1>2, Zenon DEF Progress
<1>4. Consult(order, failed, completeness) = g[Len(order)]
    BY <1>1, Zenon DEF Consult
<1> QED
    BY <1>3, <1>4

\* Whatever fails and in whatever order, a material outage is never hidden by
\* what follows it and none is shown that did not happen.
LEMMA ConsultShows ==
    ASSUME NEW Sources, NEW order \in Seq(Sources), NEW failed \in SUBSET ToSet(order),
           NEW completeness \in Completenesses
    PROVE  /\ Consult(order, failed, completeness) \in Completenesses
           /\ Consult(order, failed, completeness) = "MATERIAL_SOURCE_UNAVAILABLE" <=>
                completeness = "MATERIAL_SOURCE_UNAVAILABLE" \/ failed \cap Material # {}
           /\ completeness # None => Consult(order, failed, completeness) # None
<1>0. Len(order) \in Nat
    OBVIOUS
<1>1. PICK g : /\ Progress(g, order, failed, completeness)
               /\ Consult(order, failed, completeness) = g[Len(order)]
    BY <1>0, ConsultDef
<1> DEFINE Shown(n) == /\ g[n] \in Completenesses
                       /\ g[n] = "MATERIAL_SOURCE_UNAVAILABLE" <=>
                            \/ completeness = "MATERIAL_SOURCE_UNAVAILABLE"
                            \/ \E i \in 1..n : order[i] \in failed \cap Material
                       /\ completeness # None => g[n] # None
    S == {n \in Nat : n <= Len(order) => Shown(n)}
<1>2. 0 \in S
    <2>1. g[0] = completeness
        BY <1>1 DEF Progress
    <2> QED
        BY <2>1
<1>3. ASSUME NEW n \in S PROVE n + 1 \in S
    <2> SUFFICES ASSUME n + 1 <= Len(order) PROVE Shown(n + 1)
        OBVIOUS
    <2>1. g[n + 1] = IF order[n + 1] \in failed THEN AfterOutage(g[n], order[n + 1]) ELSE g[n]
        BY <1>1 DEF Progress
    <2>2. Shown(n)
        OBVIOUS
    <2>3. (\E i \in 1..(n + 1) : order[i] \in failed \cap Material) <=>
            (\E i \in 1..n : order[i] \in failed \cap Material)
            \/ order[n + 1] \in failed \cap Material
        OBVIOUS
    <2>4. /\ g[n + 1] \in Completenesses
          /\ g[n + 1] = "MATERIAL_SOURCE_UNAVAILABLE" <=>
                \/ g[n] = "MATERIAL_SOURCE_UNAVAILABLE"
                \/ order[n + 1] \in failed \cap Material
          /\ g[n] # None => g[n + 1] # None
        <3>1. g[n] \in Completenesses
            BY <2>2
        <3> HIDE DEF Shown, S
        <3> QED
            BY <2>1, <3>1, ConstantsAssumption DEF AfterOutage, Completenesses
    <2> QED
        BY <2>2, <2>3, <2>4
<1>4. Shown(Len(order))
    <2> HIDE DEF S
    <2>1. S \in SUBSET Nat
        BY DEF S
    <2>2. S = Nat
        BY <1>2, <1>3, <2>1, Induction
    <2> QED
        BY <2>2, <1>0 DEF S
<1>5. failed \cap Material # {} <=> \E i \in 1..Len(order) : order[i] \in failed \cap Material
    BY DEF ToSet
<1> QED
    BY <1>1, <1>4, <1>5

-----------------------------------------------------------------------------
(* What the program writes to the investigation row                        *)

\* A commit keeps the columns the transaction left as it had loaded them and
\* sets the others, and the flushed ones, to its own values.
LEMMA Written ==
    ASSUME inv \in Rows, NEW row \in Rows, NEW new \in Rows, NEW flushed,
           NEW r, r = Write(row, new, flushed)
    PROVE  /\ r \in Rows
           /\ r.intake = IF new.intake = row.intake /\ "intake" \notin flushed
                         THEN inv.intake ELSE new.intake
           /\ r.state = IF new.state = row.state /\ "state" \notin flushed
                        THEN inv.state ELSE new.state
           /\ r.identity = IF new.identity = row.identity /\ "identity" \notin flushed
                           THEN inv.identity ELSE new.identity
           /\ r.completeness =
                IF new.completeness = row.completeness /\ "completeness" \notin flushed
                THEN inv.completeness ELSE new.completeness
           /\ r.counterparty =
                IF new.counterparty = row.counterparty /\ "counterparty" \notin flushed
                THEN inv.counterparty ELSE new.counterparty
<1>1. DOMAIN inv = {"intake", "state", "identity", "completeness", "counterparty"}
    BY DEF Rows
<1>2. r = [col \in {"intake", "state", "identity", "completeness", "counterparty"} |->
            IF new[col] = row[col] /\ col \notin flushed THEN inv[col] ELSE new[col]]
    BY <1>1 DEF Write
<1> QED
    BY <1>2 DEF Rows

\* How discovery may conclude: only its candidates leave the choice to an
\* analyst, only a material outage is shown as one, no identity is confirmed.
Conclusion(w, new, flushed, failed) ==
    /\ new \in Rows
    /\ flushed \subseteq {"state"}
    /\ Discovered(w, new, flushed, failed)
    /\ new.intake = worker[w].row.intake
    /\ new.counterparty = worker[w].row.counterparty
    /\ new.identity \in {None, "AMBIGUOUS", "NOT_VERIFIED"}
    /\ new.completeness \in {"COMPLETE_WITH_LIMITATIONS", "MATERIAL_SOURCE_UNAVAILABLE"}
    /\ new.completeness = "MATERIAL_SOURCE_UNAVAILABLE" <=> failed \cap Material # {}
    /\ \/ /\ new.identity = "AMBIGUOUS"
          /\ new.state = "PARTIAL_RESULTS"
          /\ new.completeness = "COMPLETE_WITH_LIMITATIONS"
          /\ found \subseteq found' /\ found' \subseteq Candidates
       \/ /\ new.identity # "AMBIGUOUS"
          /\ new.state \in {"COMPLETED", "SOURCE_UNAVAILABLE"}
          /\ UNCHANGED found

LEMMA DiscoverConcludes ==
    ASSUME TypeOK, NEW w \in Workers, Discover(w)
    PROVE  \E new, flushed, failed : Conclusion(w, new, flushed, failed)
<1> DEFINE row == worker[w].row
<1>0. row \in Rows /\ found \subseteq Candidates
    BY DEF TypeOK
<1>1. ASSUME NEW S \in SUBSET Candidates, DiscoverCandidates(w, S)
      PROVE  \E new, flushed, failed : Conclusion(w, new, flushed, failed)
    <2>1. PICK new : new = [row EXCEPT !.identity = "AMBIGUOUS",
                                       !.completeness = "COMPLETE_WITH_LIMITATIONS",
                                       !.state = "PARTIAL_RESULTS"]
        OBVIOUS
    <2>2. Discovered(w, new, {"state"}, {}) /\ found' = found \cup S
        BY <1>1, <2>1 DEF DiscoverCandidates
    <2>3. /\ new \in Rows
          /\ new.identity = "AMBIGUOUS" /\ new.state = "PARTIAL_RESULTS"
          /\ new.completeness = "COMPLETE_WITH_LIMITATIONS"
          /\ new.intake = row.intake /\ new.counterparty = row.counterparty
        <3> HIDE DEF row
        <3> QED
            BY <1>0, <2>1 DEF Rows
    <2>4. Conclusion(w, new, {"state"}, {})
        BY <1>0, <2>2, <2>3 DEF Conclusion
    <2> QED
        BY <2>4
<1>2. ASSUME NEW failed \in SUBSET MayFail, DiscoverNone(w, failed)
      PROVE  \E new, flushed, out : Conclusion(w, new, flushed, out)
    <2>1. PICK c : c = Consult(UnresolvedSources, failed, "COMPLETE_WITH_LIMITATIONS")
        OBVIOUS
    <2>2. PICK new : new = [row EXCEPT !.identity = "NOT_VERIFIED", !.completeness = c,
                                       !.state = "COMPLETED"]
        OBVIOUS
    <2>3. Discovered(w, new, {"state"}, failed) /\ found' = found
        BY <1>2, <2>1, <2>2 DEF DiscoverNone
    <2>4. /\ c \in {"COMPLETE_WITH_LIMITATIONS", "MATERIAL_SOURCE_UNAVAILABLE"}
          /\ c = "MATERIAL_SOURCE_UNAVAILABLE" <=> failed \cap Material # {}
        <3>1. UnresolvedSources \in Seq({"screening", "web", "rdap", "gdelt"})
            BY DEF UnresolvedSources
        <3>2. failed \in SUBSET ToSet(UnresolvedSources)
            BY <1>2 DEF DiscoverNone
        <3>3. "COMPLETE_WITH_LIMITATIONS" \in Completenesses
            BY DEF Completenesses
        <3>4. /\ c \in Completenesses /\ c # None
              /\ c = "MATERIAL_SOURCE_UNAVAILABLE" <=> failed \cap Material # {}
            BY <2>1, <3>1, <3>2, <3>3, ConsultShows, ConstantsAssumption
        <3> QED
            BY <3>4 DEF Completenesses
    <2>5. /\ new \in Rows
          /\ new.identity = "NOT_VERIFIED" /\ new.state = "COMPLETED" /\ new.completeness = c
          /\ new.intake = row.intake /\ new.counterparty = row.counterparty
        <3> HIDE DEF row
        <3> QED
            BY <1>0, <2>2, <2>4 DEF Rows
    <2>6. Conclusion(w, new, {"state"}, failed)
        BY <1>0, <2>3, <2>4, <2>5 DEF Conclusion
    <2> QED
        BY <2>6
<1>3. ASSUME DiscoverUnsupported(w)
      PROVE  \E new, flushed, failed : Conclusion(w, new, flushed, failed)
    <2>1. PICK new : new = [row EXCEPT !.identity = None,
                                       !.completeness = "COMPLETE_WITH_LIMITATIONS",
                                       !.state = "SOURCE_UNAVAILABLE"]
        OBVIOUS
    <2>2. Discovered(w, new, {}, {}) /\ found' = found
        BY <1>3, <2>1 DEF DiscoverUnsupported
    <2>3. /\ new \in Rows
          /\ new.identity = None /\ new.state = "SOURCE_UNAVAILABLE"
          /\ new.completeness = "COMPLETE_WITH_LIMITATIONS"
          /\ new.intake = row.intake /\ new.counterparty = row.counterparty
        <3> HIDE DEF row
        <3> QED
            BY <1>0, <2>1 DEF Rows
    <2>4. Conclusion(w, new, {}, {})
        BY <1>0, <2>2, <2>3, ConstantsAssumption DEF Conclusion
    <2> QED
        BY <2>4
<1>4. ASSUME DiscoverUnavailable(w)
      PROVE  \E new, flushed, failed : Conclusion(w, new, flushed, failed)
    <2>1. PICK new : new = [row EXCEPT !.identity = "NOT_VERIFIED",
                                       !.completeness = "MATERIAL_SOURCE_UNAVAILABLE",
                                       !.state = "SOURCE_UNAVAILABLE"]
        OBVIOUS
    <2>2. Discovered(w, new, {}, {"corporate_registry"}) /\ found' = found
        BY <1>4, <2>1 DEF DiscoverUnavailable
    <2>3. /\ new \in Rows
          /\ new.identity = "NOT_VERIFIED" /\ new.state = "SOURCE_UNAVAILABLE"
          /\ new.completeness = "MATERIAL_SOURCE_UNAVAILABLE"
          /\ new.intake = row.intake /\ new.counterparty = row.counterparty
        <3> HIDE DEF row
        <3> QED
            BY <1>0, <2>1 DEF Rows
    <2>4. {"corporate_registry"} \cap Material # {}
        BY DEF Material
    <2>5. Conclusion(w, new, {}, {"corporate_registry"})
        BY <1>0, <2>2, <2>3, <2>4 DEF Conclusion
    <2> QED
        BY <2>5
<1> QED
    BY <1>1, <1>2, <1>3, <1>4 DEF Discover

-----------------------------------------------------------------------------
(* Types                                                                   *)

\* What the types of a step depend on: an entity that the row or a job names
\* has been chosen, a request chooses one that was found, and what is executed
\* is a job that was submitted.
Referenced ==
    /\ inv.identity = "CONFIRMED" => inv.counterparty # None
    /\ inv.counterparty # None => inv.counterparty \in chosen
    /\ \A a \in Analysts : analyst[a].at # "away" =>
          /\ analyst[a].pick \in found
          /\ analyst[a].row.counterparty # None => inv.counterparty # None
    /\ \A a \in Analysts : target[a] # None => target[a] \in chosen
    /\ \A w \in Workers : worker[w].at = "run" => outcome[worker[w].job] # "absent"

Executions == [at : {"idle", "run", "mark"}, job : Jobs \cup {None}, row : Rows, skip : BOOLEAN]
Resolutions == [at : {"away", "opened", "ready"}, pick : Candidates \cup {None},
                row : Rows, add : BOOLEAN]

\* What a worker or a request is when it does nothing.
LEMMA AtRest ==
    /\ NoCase \in Rows
    /\ NoCase.identity = None /\ NoCase.counterparty = None /\ NoCase.completeness = None
    /\ NoCase.intake = "NONE" /\ NoCase.state = "NOT_STARTED"
    /\ Idle \in Executions /\ Idle.at = "idle" /\ Idle.job = None /\ ~Idle.skip
    /\ Away \in Resolutions /\ Away.at = "away" /\ Away.pick = None /\ ~Away.add
    /\ None \notin Jobs /\ None \notin Candidates
<1>1. NoCase \in Rows
    BY DEF NoCase, Rows
<1> QED
    BY <1>1, ConstantsAssumption DEF NoCase, Idle, Away, Executions, Resolutions, Jobs

\* At first nothing is stored, and nobody does anything.
LEMMA InitType == Init => TypeOK /\ Referenced
<1> SUFFICES ASSUME Init PROVE TypeOK /\ Referenced
    OBVIOUS
<1>1. /\ worker \in [Workers -> Executions]
      /\ analyst \in [Analysts -> Resolutions]
      /\ \A w \in Workers : worker[w].at = "idle" /\ worker[w].job = None
      /\ \A a \in Analysts : analyst[a].at = "away" /\ analyst[a].pick = None
    BY AtRest DEF Init
<1>2. outcome = [j \in Jobs |-> "absent"] /\ tries = [j \in Jobs |-> 0]
    BY DEF Init, Queue!Init
<1>3. applied \in [Steps -> Nat] /\ target \in [Analysts -> Candidates \cup {None}]
      /\ \A a \in Analysts : target[a] = None /\ outcome[a] = "absent"
    BY <1>2 DEF Init, Jobs
<1>4. crashes \in 0..MaxCrashes /\ twins \in 0..MaxTwins
    BY ConstantsAssumption DEF Init
<1>5. TypeOK
    BY <1>1, <1>2, <1>3, <1>4, AtRest DEF Init, TypeOK, Executions, Resolutions
<1>6. Referenced
    BY <1>1, <1>3, AtRest, ConstantsAssumption DEF Init, Referenced
<1> QED
    BY <1>5, <1>6

\* A worker that ends its execution.
LEMMA EndsTyped ==
    ASSUME TypeOK, NEW w \in Workers, NEW e \in Executions, e.at = "idle" <=> e.job = None,
           worker' = [worker EXCEPT ![w] = e]
    PROVE  /\ worker' \in [Workers -> Executions]
           /\ \A v \in Workers : worker'[v].at = "idle" <=> worker'[v].job = None
           /\ \A v \in Workers : v # w => worker'[v] = worker[v]
           /\ worker'[w] = e
<1>1. worker \in [Workers -> Executions]
    BY DEF TypeOK, Executions
<1>2. \A v \in Workers : worker'[v] = IF v = w THEN e ELSE worker[v]
    BY <1>1
<1>3. worker' \in [Workers -> Executions]
    BY <1>1
<1>4. \A v \in Workers : worker[v].at = "idle" <=> worker[v].job = None
    BY DEF TypeOK
<1> QED
    BY <1>2, <1>3, <1>4

\* A request that goes on.
LEMMA GoesOnTyped ==
    ASSUME TypeOK, NEW a \in Analysts, NEW r \in Resolutions, r.at = "away" <=> r.pick = None,
           analyst' = [analyst EXCEPT ![a] = r]
    PROVE  /\ analyst' \in [Analysts -> Resolutions]
           /\ \A b \in Analysts : analyst'[b].at = "away" <=> analyst'[b].pick = None
           /\ \A b \in Analysts : b # a => analyst'[b] = analyst[b]
           /\ analyst'[a] = r
<1>1. analyst \in [Analysts -> Resolutions]
    BY DEF TypeOK, Resolutions
<1>2. \A b \in Analysts : analyst'[b] = IF b = a THEN r ELSE analyst[b]
    BY <1>1
<1>3. analyst' \in [Analysts -> Resolutions]
    BY <1>1
<1>4. \A b \in Analysts : analyst[b].at = "away" <=> analyst[b].pick = None
    BY DEF TypeOK
<1> QED
    BY <1>2, <1>3, <1>4

\* A conclusion of discovery confirms no identity and names no entity.
LEMMA DiscoverType ==
    ASSUME TypeOK, Referenced, NEW w \in Workers,
           NEW new, NEW flushed, NEW failed, Conclusion(w, new, flushed, failed)
    PROVE  TypeOK' /\ Referenced'
<1> DEFINE row == worker[w].row
<1>1. /\ inv \in Rows /\ row \in Rows /\ new \in Rows
      /\ inv' = Write(row, new, flushed)
      /\ worker[w].at = "run" /\ worker[w].job = "discovery"
    BY DEF TypeOK, Conclusion, Discovered
<1>2. /\ inv' \in Rows
      /\ inv'.counterparty = inv.counterparty
      /\ inv'.identity = "CONFIRMED" => inv.identity = "CONFIRMED"
    <2> HIDE DEF row
    <2>1. PICK r : r = Write(row, new, flushed)
        OBVIOUS
    <2>2. /\ r \in Rows
          /\ r.identity = IF new.identity = row.identity /\ "identity" \notin flushed
                          THEN inv.identity ELSE new.identity
          /\ r.counterparty =
                IF new.counterparty = row.counterparty /\ "counterparty" \notin flushed
                THEN inv.counterparty ELSE new.counterparty
        BY <1>1, <2>1, Written
    <2>3. /\ new.identity # "CONFIRMED" /\ new.counterparty = row.counterparty
          /\ "counterparty" \notin flushed
        BY ConstantsAssumption DEF Conclusion, row
    <2> QED
        BY <1>1, <2>1, <2>2, <2>3
<1>3. /\ found \subseteq found' /\ found' \subseteq Candidates
      /\ UNCHANGED <<chosen, target, enriched, reported, tries, analyst, crashes, twins>>
      /\ outcome' = [outcome EXCEPT !["discovery"] = "done"]
      /\ applied' = [applied EXCEPT !["discovery"] = @ + 1]
      /\ outage' \in BOOLEAN
      /\ worker' = [worker EXCEPT ![w] = Idle]
    BY <1>1 DEF TypeOK, Conclusion, Discovered, Succeeds
<1>4. /\ outcome' \in [Jobs -> {"absent", "open", "done", "failed"}]
      /\ applied' \in [Steps -> Nat]
      /\ \A a \in Analysts : outcome'[a] = outcome[a]
      /\ \A j \in Jobs : outcome[j] # "absent" => outcome'[j] # "absent"
    BY <1>3, ConstantsAssumption DEF TypeOK, Jobs, Steps
<1>5. /\ worker' \in [Workers -> Executions]
      /\ \A v \in Workers : worker'[v].at = "idle" <=> worker'[v].job = None
      /\ \A v \in Workers : worker'[v].at = "run" => worker'[v] = worker[v]
    <2>1. /\ worker' \in [Workers -> Executions]
          /\ \A v \in Workers : worker'[v].at = "idle" <=> worker'[v].job = None
          /\ \A v \in Workers : v # w => worker'[v] = worker[v]
          /\ worker'[w] = Idle
        BY <1>3, AtRest, EndsTyped
    <2> QED
        BY <2>1, AtRest
<1>6. TypeOK'
    BY <1>2, <1>3, <1>4, <1>5 DEF TypeOK, Executions
<1>7. \A v \in Workers : worker'[v].at = "run" => outcome'[worker'[v].job] # "absent"
    <2> SUFFICES ASSUME NEW v \in Workers, worker'[v].at = "run"
                 PROVE  outcome'[worker'[v].job] # "absent"
        OBVIOUS
    <2>1. worker[v].job \in Jobs /\ outcome[worker[v].job] # "absent"
        BY <1>5 DEF TypeOK, Referenced
    <2> QED
        BY <1>4, <1>5, <2>1
<1> QED
    BY <1>2, <1>3, <1>6, <1>7 DEF Referenced

\* An enrichment leaves the identity and the entity of the case alone.
LEMMA EnrichWrites ==
    ASSUME TypeOK, NEW w \in Workers, NEW failed, Enrich(w, failed)
    PROVE  LET row == worker[w].row
               shown == Consult(EnrichmentSources, failed, row.completeness)
           IN /\ inv' \in Rows
              /\ UNCHANGED <<inv.intake, inv.identity, inv.counterparty>>
              /\ inv'.state = "COMPLETED"
              /\ inv'.completeness = IF shown = row.completeness THEN inv.completeness ELSE shown
              /\ shown \in Completenesses
              /\ shown = "MATERIAL_SOURCE_UNAVAILABLE" <=>
                    row.completeness = "MATERIAL_SOURCE_UNAVAILABLE" \/ failed \cap Material # {}
              /\ row.completeness # None => shown # None
<1>1. PICK row : row = worker[w].row
    OBVIOUS
<1>2. PICK shown : shown = Consult(EnrichmentSources, failed, row.completeness)
    OBVIOUS
<1>3. inv \in Rows /\ row \in Rows
    BY <1>1 DEF TypeOK
<1>4. /\ shown \in Completenesses
      /\ shown = "MATERIAL_SOURCE_UNAVAILABLE" <=>
            row.completeness = "MATERIAL_SOURCE_UNAVAILABLE" \/ failed \cap Material # {}
      /\ row.completeness # None => shown # None
    <2>1. EnrichmentSources \in Seq({"screening", "registry_officers", "gleif", "web", "rdap",
                                     "gdelt", "sec", "companies_house", "ch_officers", "ch_psc"})
        BY DEF EnrichmentSources
    <2>2. failed \in SUBSET ToSet(EnrichmentSources)
        BY DEF Enrich
    <2>3. row.completeness \in Completenesses
        BY <1>3 DEF Rows, Completenesses
    <2> QED
        BY <1>2, <2>1, <2>2, <2>3, ConsultShows
<1>5. PICK new : new = [row EXCEPT !.completeness = shown, !.state = "COMPLETED"]
    OBVIOUS
<1>6. /\ new \in Rows /\ new.completeness = shown /\ new.state = "COMPLETED"
      /\ new.intake = row.intake /\ new.identity = row.identity
      /\ new.counterparty = row.counterparty
    BY <1>3, <1>4, <1>5 DEF Rows, Completenesses
<1>7. inv' = Write(row, new, {"state"})
    BY <1>1, <1>2, <1>5 DEF Enrich
<1>8. PICK r : r = Write(row, new, {"state"})
    OBVIOUS
<1>9. /\ r \in Rows
      /\ r.intake = inv.intake /\ r.identity = inv.identity
      /\ r.counterparty = inv.counterparty
      /\ r.state = "COMPLETED"
      /\ r.completeness = IF shown = row.completeness THEN inv.completeness ELSE shown
    BY <1>3, <1>6, <1>8, Written
<1> QED
    BY <1>1, <1>2, <1>4, <1>7, <1>8, <1>9

\* A resolution confirms the identity and names the entity it picked, unless
\* the row it had loaded had them already.
LEMMA ResolveWrites ==
    ASSUME TypeOK, NEW a \in Analysts, Resolve(a)
    PROVE  LET row == analyst[a].row
               c == analyst[a].pick
           IN /\ inv' \in Rows
              /\ UNCHANGED inv.intake
              /\ inv'.identity = IF row.identity = "CONFIRMED" THEN inv.identity ELSE "CONFIRMED"
              /\ inv'.counterparty = IF row.counterparty = c THEN inv.counterparty ELSE c
              /\ inv'.completeness = IF row.completeness = "COMPLETE_WITH_LIMITATIONS"
                                     THEN inv.completeness ELSE "COMPLETE_WITH_LIMITATIONS"
              /\ inv'.state = IF row.state = "PARTIAL_RESULTS"
                              THEN inv.state ELSE "PARTIAL_RESULTS"
              /\ c \in Candidates
<1>1. PICK row : row = analyst[a].row
    OBVIOUS
<1>2. PICK c : c = analyst[a].pick
    OBVIOUS
<1>3. inv \in Rows /\ row \in Rows /\ c \in Candidates
    <2>1. analyst[a].pick \in Candidates \cup {None} /\ analyst[a].row \in Rows /\ inv \in Rows
        BY DEF TypeOK
    <2>2. analyst[a].pick # None
        BY DEF TypeOK, Resolve
    <2> QED
        BY <1>1, <1>2, <2>1, <2>2
<1>4. PICK new : new = [row EXCEPT !.identity = "CONFIRMED", !.counterparty = c,
                                   !.completeness = "COMPLETE_WITH_LIMITATIONS",
                                   !.state = "PARTIAL_RESULTS"]
    OBVIOUS
<1>5. /\ new \in Rows /\ new.identity = "CONFIRMED" /\ new.counterparty = c
      /\ new.completeness = "COMPLETE_WITH_LIMITATIONS" /\ new.state = "PARTIAL_RESULTS"
      /\ new.intake = row.intake
    BY <1>3, <1>4 DEF Rows
<1>6. inv' = Write(row, new, {})
    BY <1>1, <1>2, <1>4 DEF Resolve
<1>7. PICK r : r = Write(row, new, {})
    OBVIOUS
<1>8. /\ r \in Rows /\ r.intake = inv.intake
      /\ r.identity = IF new.identity = row.identity THEN inv.identity ELSE new.identity
      /\ r.counterparty =
            IF new.counterparty = row.counterparty THEN inv.counterparty ELSE new.counterparty
      /\ r.completeness =
            IF new.completeness = row.completeness THEN inv.completeness ELSE new.completeness
      /\ r.state = IF new.state = row.state THEN inv.state ELSE new.state
    BY <1>3, <1>5, <1>7, Written
<1> QED
    BY <1>1, <1>2, <1>3, <1>5, <1>6, <1>7, <1>8

\* Every step of a worker and of a request keeps the types.
LEMMA StepType == TypeOK /\ Referenced /\ [Next]_vars => TypeOK' /\ Referenced'
<1> SUFFICES ASSUME TypeOK, Referenced, [Next]_vars PROVE TypeOK' /\ Referenced'
    OBVIOUS
<1> DEFINE Ended(w) == /\ worker' \in [Workers -> Executions]
                       /\ \A v \in Workers : worker'[v].at = "idle" <=> worker'[v].job = None
                       /\ \A v \in Workers : v # w => worker'[v] = worker[v]
           GoneOn(a) == /\ analyst' \in [Analysts -> Resolutions]
                        /\ \A b \in Analysts : analyst'[b].at = "away" <=> analyst'[b].pick = None
                        /\ \A b \in Analysts : b # a => analyst'[b] = analyst[b]
<1>1. CASE Create
    <2>1. inv' \in Rows /\ inv'.identity = inv.identity /\ inv'.counterparty = inv.counterparty
        BY <1>1 DEF Create, TypeOK, Rows
    <2>2. /\ outcome' \in [Jobs -> {"absent", "open", "done", "failed"}]
          /\ tries' \in [Jobs -> Nat]
          /\ \A a \in Analysts : outcome'[a] = outcome[a]
          /\ \A j \in Jobs : outcome[j] # "absent" => outcome'[j] # "absent"
        BY <1>1, ConstantsAssumption DEF Create, Queue!Submit, TypeOK, Jobs, queue
    <2>3. TypeOK'
        BY <1>1, <2>1, <2>2 DEF Create, TypeOK
    <2>4. \A w \in Workers : worker[w].at = "run" => worker[w].job \in Jobs
        BY DEF TypeOK
    <2> QED
        BY <1>1, <2>1, <2>2, <2>3, <2>4 DEF Create, Referenced
<1>2. ASSUME NEW w \in Workers, NEW j \in Jobs, Start(w, j) PROVE TypeOK' /\ Referenced'
    <2> DEFINE e == [at |-> "run", job |-> j, row |-> inv, skip |-> AlreadyDone(j)]
    <2>1. e \in Executions /\ e.at = "run" /\ e.job = j /\ j # None
        BY AtRest DEF Executions, TypeOK, AlreadyDone
    <2>2. worker' = [worker EXCEPT ![w] = e]
        BY <1>2 DEF Start
    <2> HIDE DEF e
    <2>3. Ended(w) /\ worker'[w] = e
        BY <2>1, <2>2, EndsTyped
    <2>4. outcome[j] = "open" /\ outcome' = outcome /\ tries' \in [Jobs -> Nat]
        BY <1>2 DEF Start, Queue!Try, TypeOK
    <2>5. twins' \in 0..MaxTwins
        BY <1>2, ConstantsAssumption DEF Start, TypeOK
    <2>6. TypeOK'
        BY <1>2, <2>3, <2>4, <2>5 DEF Start, TypeOK, case, Executions
    <2> QED
        BY <1>2, <2>1, <2>3, <2>4, <2>6 DEF Start, Referenced, case
<1>3. ASSUME NEW w \in Workers, Discover(w) PROVE TypeOK' /\ Referenced'
    BY <1>3, DiscoverConcludes, DiscoverType
<1>4. ASSUME NEW w \in Workers, NEW failed \in SUBSET MayFail, Enrich(w, failed)
      PROVE  TypeOK' /\ Referenced'
    <2>1. PICK j : j = worker[w].job
        OBVIOUS
    <2>2. j \in Analysts /\ outcome[j] # "absent"
        BY <1>4, <2>1 DEF Enrich, Referenced
    <2>3. PICK c : c = target[j]
        OBVIOUS
    <2>4. c \in Candidates /\ c \in chosen
        BY <2>2, <2>3 DEF TypeOK, Referenced
    <2>5. /\ inv' \in Rows /\ inv'.identity = inv.identity /\ inv'.counterparty = inv.counterparty
        BY <1>4, EnrichWrites
    <2>6. /\ enriched' = enriched \cup {c}
          /\ applied' = [applied EXCEPT ![c] = @ + 1]
          /\ outage' \in BOOLEAN
          /\ outcome' = [outcome EXCEPT ![j] = "done"]
          /\ worker' = [worker EXCEPT ![w] = Idle]
          /\ UNCHANGED <<found, chosen, target, reported, tries, analyst, crashes, twins>>
        BY <1>4, <2>1, <2>3 DEF Enrich, Succeeds, TypeOK
    <2>7. /\ outcome' \in [Jobs -> {"absent", "open", "done", "failed"}]
          /\ \A k \in Jobs : outcome'[k] = "absent" <=> outcome[k] = "absent"
          /\ applied' \in [Steps -> Nat]
        BY <2>2, <2>4, <2>6 DEF TypeOK, Jobs, Steps
    <2>8. Ended(w) /\ worker'[w] = Idle
        BY <2>6, AtRest, EndsTyped
    <2>9. TypeOK'
        BY <2>4, <2>5, <2>6, <2>7, <2>8 DEF TypeOK, Executions, Jobs
    <2>10. \A v \in Workers : worker[v].at = "run" => worker[v].job \in Jobs
        BY DEF TypeOK
    <2> QED
        BY <2>5, <2>6, <2>7, <2>8, <2>9, <2>10, AtRest DEF Referenced
<1>5. ASSUME NEW w \in Workers, EnrichAgain(w) PROVE TypeOK' /\ Referenced'
    <2>1. PICK j : j = worker[w].job
        OBVIOUS
    <2>2. j \in Jobs /\ outcome[j] # "absent"
        BY <1>5, <2>1 DEF EnrichAgain, Referenced, TypeOK
    <2>3. /\ outcome' = [outcome EXCEPT ![j] = "done"]
          /\ worker' = [worker EXCEPT ![w] = Idle]
          /\ UNCHANGED <<case, tries, analyst, crashes, twins>>
        BY <1>5, <2>1 DEF EnrichAgain, Succeeds
    <2>4. /\ outcome' \in [Jobs -> {"absent", "open", "done", "failed"}]
          /\ \A k \in Jobs : outcome'[k] = "absent" <=> outcome[k] = "absent"
        BY <2>2, <2>3 DEF TypeOK
    <2>5. Ended(w) /\ worker'[w] = Idle
        BY <2>3, AtRest, EndsTyped
    <2>6. TypeOK'
        BY <2>3, <2>4, <2>5 DEF TypeOK, Executions, Jobs, case
    <2>7. \A v \in Workers : worker[v].at = "run" => worker[v].job \in Jobs
        BY DEF TypeOK
    <2> QED
        BY <2>3, <2>4, <2>5, <2>6, <2>7, AtRest DEF Referenced, case
<1>6. ASSUME NEW w \in Workers, Fail(w) PROVE TypeOK' /\ Referenced'
    <2>1. PICK j : j = worker[w].job
        OBVIOUS
    <2>2. j \in Jobs /\ outcome[j] # "absent"
        BY <1>6, <2>1 DEF Fail, Referenced, TypeOK
    <2>3. PICK e : e = IF LastTry(j) THEN [Idle EXCEPT !.at = "mark", !.job = j] ELSE Idle
        OBVIOUS
    <2>4. /\ outcome' = [outcome EXCEPT ![j] = IF LastTry(j) THEN "failed" ELSE "open"]
          /\ worker' = [worker EXCEPT ![w] = e]
          /\ UNCHANGED <<case, tries, analyst, crashes, twins>>
        BY <1>6, <2>1, <2>3 DEF Fail
    <2>5. e \in Executions /\ e.at # "run" /\ (e.at = "idle" <=> e.job = None)
        BY <2>2, <2>3, AtRest DEF Executions, Idle
    <2>6. /\ outcome' \in [Jobs -> {"absent", "open", "done", "failed"}]
          /\ \A k \in Jobs : outcome'[k] = "absent" <=> outcome[k] = "absent"
        BY <2>2, <2>4 DEF TypeOK
    <2>7. Ended(w) /\ worker'[w] = e
        BY <2>4, <2>5, EndsTyped
    <2>8. TypeOK'
        BY <2>4, <2>6, <2>7 DEF TypeOK, Executions, Jobs, case
    <2>9. \A v \in Workers : worker[v].at = "run" => worker[v].job \in Jobs
        BY DEF TypeOK
    <2> QED
        BY <2>4, <2>5, <2>6, <2>7, <2>8, <2>9 DEF Referenced, case
<1>7. ASSUME NEW w \in Workers, MarkFailed(w) PROVE TypeOK' /\ Referenced'
    <2>1. inv' \in Rows /\ inv'.identity = inv.identity /\ inv'.counterparty = inv.counterparty
        BY <1>7 DEF MarkFailed, TypeOK, Rows
    <2>2. Ended(w) /\ worker'[w] = Idle
        BY <1>7, AtRest, EndsTyped DEF MarkFailed
    <2>3. TypeOK'
        BY <1>7, <2>1, <2>2 DEF MarkFailed, TypeOK, Executions, queue
    <2> QED
        BY <1>7, <2>1, <2>2, <2>3, AtRest DEF MarkFailed, Referenced, queue
<1>8. ASSUME NEW w \in Workers, Crash(w) PROVE TypeOK' /\ Referenced'
    <2>1. Ended(w) /\ worker'[w] = Idle
        BY <1>8, AtRest, EndsTyped DEF Crash
    <2>2. crashes' \in 0..MaxCrashes
        BY <1>8, ConstantsAssumption DEF Crash, TypeOK
    <2>3. TypeOK'
        BY <1>8, <2>1, <2>2 DEF Crash, TypeOK, Executions, case, queue
    <2> QED
        BY <1>8, <2>1, <2>3, AtRest DEF Crash, Referenced, case, queue
<1>9. ASSUME NEW a \in Analysts, NEW c \in Candidates, Open(a, c) PROVE TypeOK' /\ Referenced'
    <2> DEFINE r == [at |-> "opened", pick |-> c, row |-> inv, add |-> FALSE]
    <2>1. r \in Resolutions /\ r.at = "opened" /\ r.pick = c /\ r.row = inv /\ c # None
        BY AtRest DEF Resolutions, TypeOK
    <2>2. analyst' = [analyst EXCEPT ![a] = r]
        BY <1>9 DEF Open
    <2> HIDE DEF r
    <2>3. GoneOn(a) /\ analyst'[a] = r
        BY <2>1, <2>2, GoesOnTyped
    <2>4. TypeOK'
        BY <1>9, <2>3 DEF Open, TypeOK, Resolutions, case, queue
    <2> QED
        BY <1>9, <2>1, <2>3, <2>4 DEF Open, Referenced, case, queue
<1>10. ASSUME NEW a \in Analysts, LookForJob(a) PROVE TypeOK' /\ Referenced'
    <2>1. PICK r : r = [analyst[a] EXCEPT !.at = "ready", !.add = NoEnrichmentJob]
        OBVIOUS
    <2>2. analyst' = [analyst EXCEPT ![a] = r]
        BY <1>10, <2>1 DEF LookForJob
    <2>3. analyst[a] \in Resolutions /\ analyst[a].pick # None /\ analyst[a].at = "opened"
        BY <1>10 DEF TypeOK, Resolutions, LookForJob
    <2>4. /\ r \in Resolutions /\ r.at = "ready"
          /\ r.pick = analyst[a].pick /\ r.row = analyst[a].row
        BY <2>1, <2>3 DEF Resolutions, NoEnrichmentJob
    <2>5. GoneOn(a) /\ analyst'[a] = r
        BY <2>2, <2>3, <2>4, GoesOnTyped
    <2>6. TypeOK'
        BY <1>10, <2>5 DEF LookForJob, TypeOK, Resolutions, case, queue
    <2> QED
        BY <1>10, <2>3, <2>4, <2>5, <2>6 DEF LookForJob, Referenced, case, queue
<1>11. ASSUME NEW a \in Analysts, Resolve(a) PROVE TypeOK' /\ Referenced'
    <2>1. PICK row : row = analyst[a].row
        OBVIOUS
    <2>2. PICK c : c = analyst[a].pick
        OBVIOUS
    <2>3. /\ inv' \in Rows /\ c \in Candidates
          /\ inv'.identity \in {inv.identity, "CONFIRMED"}
          /\ inv'.counterparty = IF row.counterparty = c THEN inv.counterparty ELSE c
        BY <1>11, <2>1, <2>2, ResolveWrites
    <2>4. c # None /\ c \in found /\ (row.counterparty # None => inv.counterparty # None)
        BY <1>11, <2>1, <2>2, <2>3, AtRest DEF Resolve, Referenced
    <2>5. inv'.counterparty # None /\ inv'.counterparty \in chosen \cup {c}
        BY <2>3, <2>4 DEF Referenced
    <2>6. /\ outcome' \in [Jobs -> {"absent", "open", "done", "failed"}]
          /\ tries' \in [Jobs -> Nat]
          /\ target' \in [Analysts -> Candidates \cup {None}]
          /\ \A b \in Analysts : target'[b] = None <=> outcome'[b] = "absent"
          /\ \A j \in Jobs : outcome[j] # "absent" => outcome'[j] # "absent"
          /\ \A b \in Analysts : target'[b] \in {target[b], c}
        <3>1. CASE analyst[a].add /\ Queue!Submit(a) /\ target' = [target EXCEPT ![a] = c]
            BY <2>3, <2>4, <3>1 DEF Queue!Submit, TypeOK, Jobs
        <3>2. CASE UNCHANGED <<queue, target>>
            BY <3>2 DEF queue, TypeOK
        <3> QED
            BY <1>11, <2>2, <3>1, <3>2 DEF Resolve
    <2>7. GoneOn(a) /\ analyst'[a] = Away
        BY <1>11, AtRest, GoesOnTyped DEF Resolve
    <2>8. /\ chosen' = chosen \cup {c}
          /\ UNCHANGED <<found, enriched, reported, applied, outage, worker, crashes, twins>>
        BY <1>11, <2>2 DEF Resolve
    <2>9. TypeOK'
        BY <2>3, <2>4, <2>6, <2>7, <2>8 DEF TypeOK, Resolutions
    <2>10. \A v \in Workers : worker[v].at = "run" => worker[v].job \in Jobs
        BY DEF TypeOK
    <2> QED
        BY <2>5, <2>6, <2>7, <2>8, <2>9, <2>10, AtRest DEF Referenced
<1>12. ASSUME NEW a \in Analysts, Refuse(a) PROVE TypeOK' /\ Referenced'
    <2>1. GoneOn(a) /\ analyst'[a] = Away
        BY <1>12, AtRest, GoesOnTyped DEF Refuse
    <2>2. TypeOK'
        BY <1>12, <2>1 DEF Refuse, TypeOK, Resolutions, case, queue
    <2> QED
        BY <1>12, <2>1, <2>2, AtRest DEF Refuse, Referenced, case, queue
<1>13. CASE Report
    <2>1. inv.counterparty \in chosen
        BY <1>13 DEF Report, Referenced
    <2> QED
        BY <1>13, <2>1 DEF Report, TypeOK, Referenced, queue
<1>14. CASE UNCHANGED vars
    BY <1>14 DEF vars, case, queue, TypeOK, Referenced
<1> HIDE DEF Ended, GoneOn
<1> QED
    BY <1>1, <1>2, <1>3, <1>4, <1>5, <1>6, <1>7, <1>8, <1>9, <1>10, <1>11, <1>12, <1>13, <1>14
       DEF Next, Work, Request

\* The columns, jobs, requests and audit events stay within their types, even
\* when a job is executed twice at once.
THEOREM TypeCorrect == Spec => []TypeOK
<1>1. Spec => [](TypeOK /\ Referenced)
    BY InitType, StepType, PTL DEF Spec
<1> QED
    BY <1>1, PTL

-----------------------------------------------------------------------------
(* One execution of a job at a time                                        *)

\* No job is started while its last run goes on: leases outlast the runs, or
\* there is one worker, which cannot be given what it is executing.
Exclusive == MaxTwins = 0 \/ \A v, w \in Workers : v = w

\* Until discovery has concluded the row holds nothing but the intake, and the
\* failure of its last try.
Searching ==
    /\ inv.intake = "SUFFICIENT_FOR_DISCOVERY" <=> outcome["discovery"] # "absent"
    /\ outcome["discovery"] # "done" =>
          /\ inv.identity = None /\ inv.completeness = None /\ inv.counterparty = None
          /\ found = {}
          /\ outage = FALSE
          /\ inv.state \in {"NOT_STARTED", "FAILED"}
    /\ outcome["discovery"] \in {"absent", "open"} => inv.state = "NOT_STARTED"

\* A case with candidates waits for the choice or has been resolved, and only
\* a resolved one has enrichment jobs.
Choosing ==
    /\ found # {} => inv.identity \in {"AMBIGUOUS", "CONFIRMED"} /\ inv.completeness # None
    /\ inv.identity = "AMBIGUOUS" =>
          inv.state = "PARTIAL_RESULTS" /\ inv.completeness = "COMPLETE_WITH_LIMITATIONS"
    /\ \A a \in Analysts : outcome[a] # "absent" => inv.identity = "CONFIRMED"

\* The row a discovery run loaded is the one discovery started from; the one
\* an enrichment run loaded is resolved, and a material outage it had is on
\* the case still.
Loaded(w) ==
    LET j == worker[w].job
        row == worker[w].row
    IN
    /\ outcome[j] = "open"
    /\ tries[j] > 0
    /\ j = "discovery" =>
          /\ row.identity = None /\ row.completeness = None /\ row.counterparty = None
          /\ row.state = "NOT_STARTED"
    /\ j \in Analysts =>
          /\ row.identity = "CONFIRMED"
          /\ row.completeness # None
          /\ row.completeness = "MATERIAL_SOURCE_UNAVAILABLE" =>
                inv.completeness = "MATERIAL_SOURCE_UNAVAILABLE"

Executing ==
    /\ \A w \in Workers : worker[w].at = "run" => Loaded(w)
    /\ \A w \in Workers : worker[w].at = "mark" => outcome[worker[w].job] = "failed"
    /\ \A v, w \in Workers :
          worker[v].at = "run" /\ worker[w].at = "run" /\ worker[v].job = worker[w].job => v = w

\* The row a resolve request loaded is the one discovery left, and what it
\* will select has an authoritative identifier.
Selecting ==
    \A a \in Analysts : analyst[a].at # "away" =>
        /\ analyst[a].row.identity = "AMBIGUOUS"
        /\ analyst[a].row.completeness = "COMPLETE_WITH_LIMITATIONS"
        /\ analyst[a].row.counterparty = None
        /\ analyst[a].row.state = "PARTIAL_RESULTS"
        /\ analyst[a].at = "ready" => analyst[a].pick \notin Incomplete

CaseInv ==
    /\ TypeOK /\ Referenced
    /\ Searching /\ Choosing /\ Executing /\ Selecting
    /\ IdentityGrounded /\ MaterialOutageShown

\* The worker that starts a job is the only one to execute it.
LEMMA StartsAlone ==
    ASSUME Exclusive, TypeOK, NEW w \in Workers, NEW j \in Jobs, Start(w, j)
    PROVE  ~Busy(j)
<1>1. CASE MaxTwins = 0
    BY <1>1 DEF Start, TypeOK
<1>2. CASE \A v, u \in Workers : v = u
    BY <1>2 DEF Start, Busy
<1> QED
    BY <1>1, <1>2 DEF Exclusive

LEMMA InitCase == Init => CaseInv
<1> SUFFICES ASSUME Init PROVE CaseInv
    OBVIOUS
<1>1. TypeOK /\ Referenced
    BY InitType
<1>2. outcome = [j \in Jobs |-> "absent"] /\ "discovery" \in Jobs /\ Analysts \subseteq Jobs
    BY DEF Init, Queue!Init, Jobs
<1>3. inv = NoCase /\ found = {} /\ outage = FALSE
    BY DEF Init
<1>4. \A w \in Workers : worker[w].at = "idle"
    BY AtRest DEF Init
<1>5. \A a \in Analysts : analyst[a].at = "away"
    BY AtRest DEF Init
<1>6. Searching /\ Choosing
    BY <1>2, <1>3, AtRest, ConstantsAssumption DEF Searching, Choosing
<1>7. Executing /\ Selecting
    BY <1>4, <1>5 DEF Executing, Selecting
<1>8. IdentityGrounded /\ MaterialOutageShown
    BY <1>3, AtRest, ConstantsAssumption DEF IdentityGrounded, MaterialOutageShown
<1> QED
    BY <1>1, <1>6, <1>7, <1>8 DEF CaseInv

\* While discovery is executed nobody chooses, and no other job is executed.
LEMMA DiscoveryFirst ==
    ASSUME CaseInv, outcome["discovery"] = "open"
    PROVE  /\ \A a \in Analysts : analyst[a].at = "away" /\ outcome[a] = "absent"
           /\ \A w \in Workers : worker[w].at = "run" => worker[w].job = "discovery"
<1>1. found = {} /\ inv.identity = None
    BY DEF CaseInv, Searching
<1>2. \A a \in Analysts : analyst[a].at = "away"
    BY <1>1 DEF CaseInv, Referenced
<1>3. \A a \in Analysts : outcome[a] = "absent"
    BY <1>1, ConstantsAssumption DEF CaseInv, Choosing
<1>4. ASSUME NEW w \in Workers, worker[w].at = "run" PROVE worker[w].job = "discovery"
    <2>1. worker[w].job \in Jobs /\ outcome[worker[w].job] = "open"
        BY <1>4 DEF CaseInv, TypeOK, Executing, Loaded
    <2> QED
        BY <1>3, <2>1 DEF Jobs
<1> QED
    BY <1>2, <1>3, <1>4

\* What a concluded discovery writes is what it concluded: the row it had
\* loaded is the one still there.
LEMMA DiscoverWrites ==
    ASSUME CaseInv, NEW w \in Workers,
           NEW new, NEW flushed, NEW failed, Conclusion(w, new, flushed, failed)
    PROVE  /\ inv'.intake = inv.intake
           /\ inv'.identity = new.identity
           /\ inv'.completeness = new.completeness
           /\ inv'.state = new.state
           /\ inv'.counterparty = None
           /\ outage' = (failed \cap Material # {})
           /\ outcome["discovery"] = "open"
           /\ found = {} /\ inv.identity = None /\ inv.counterparty = None
<1>1. PICK row : row = worker[w].row
    OBVIOUS
<1>2. /\ inv \in Rows /\ row \in Rows /\ new \in Rows
      /\ inv' = Write(row, new, flushed)
      /\ worker[w].at = "run" /\ worker[w].job = "discovery"
    BY <1>1 DEF CaseInv, TypeOK, Conclusion, Discovered
<1>3. /\ outcome["discovery"] = "open"
      /\ row.identity = None /\ row.completeness = None /\ row.counterparty = None
      /\ row.state = "NOT_STARTED"
    BY <1>1, <1>2 DEF CaseInv, Executing, Loaded
<1>4. /\ inv.identity = None /\ inv.completeness = None /\ inv.counterparty = None
      /\ found = {} /\ outage = FALSE
    BY <1>3 DEF CaseInv, Searching
<1>5. /\ new.intake = row.intake /\ new.counterparty = None
      /\ new.completeness # None /\ new.state # "NOT_STARTED"
      /\ flushed \subseteq {"state"}
    BY <1>1, <1>3, ConstantsAssumption DEF Conclusion
<1>6. PICK r : r = Write(row, new, flushed)
    OBVIOUS
<1>7. /\ r.intake = inv.intake /\ r.identity = new.identity
      /\ r.completeness = new.completeness /\ r.state = new.state
      /\ r.counterparty = None
    BY <1>2, <1>3, <1>4, <1>5, <1>6, Written
<1>8. outage' = (failed \cap Material # {})
    BY <1>4 DEF Conclusion, Discovered
<1> QED
    BY <1>2, <1>3, <1>4, <1>6, <1>7, <1>8

\* What a run or a request leaves to prove, beside the types.
Beside ==
    /\ Searching /\ Choosing /\ Executing /\ Selecting
    /\ IdentityGrounded /\ MaterialOutageShown

LEMMA DiscoverCase ==
    ASSUME CaseInv, NEW w \in Workers,
           NEW new, NEW flushed, NEW failed, Conclusion(w, new, flushed, failed)
    PROVE  Beside'
<1>1. /\ inv'.intake = inv.intake /\ inv'.identity = new.identity
      /\ inv'.completeness = new.completeness /\ inv'.state = new.state
      /\ inv'.counterparty = None
      /\ outage' = (failed \cap Material # {})
      /\ outcome["discovery"] = "open"
      /\ found = {} /\ inv.identity = None /\ inv.counterparty = None
    BY DiscoverWrites
<1>2. /\ \A a \in Analysts : analyst[a].at = "away" /\ outcome[a] = "absent"
      /\ \A v \in Workers : worker[v].at = "run" => worker[v].job = "discovery"
    BY <1>1, DiscoveryFirst
<1>3. /\ worker[w].at = "run" /\ worker[w].job = "discovery"
      /\ outcome' = [outcome EXCEPT !["discovery"] = "done"]
      /\ worker' = [worker EXCEPT ![w] = Idle]
      /\ analyst' = analyst
    BY DEF Conclusion, Discovered, Succeeds
<1>4. /\ outcome'["discovery"] = "done"
      /\ \A a \in Analysts : outcome'[a] = "absent"
      /\ \A v \in Workers : v # w => worker'[v] = worker[v]
      /\ worker'[w] = Idle
      /\ \A v \in Workers : worker[v].at # "idle" => worker[v].job \in Jobs
    BY <1>2, <1>3, ConstantsAssumption DEF CaseInv, TypeOK, Jobs
<1>5. Searching'
    BY <1>1, <1>4 DEF CaseInv, Searching
<1>6. Choosing'
    BY <1>1, <1>4, ConstantsAssumption DEF Choosing, Conclusion
<1>7. Executing'
    <2>1. \A v \in Workers : worker'[v].at # "run"
        BY <1>2, <1>3, <1>4, AtRest DEF CaseInv, Executing
    <2>2. ASSUME NEW v \in Workers, worker'[v].at = "mark"
          PROVE  outcome'[worker'[v].job] = "failed"
        <3>1. worker[v].at = "mark" /\ worker'[v] = worker[v] /\ worker[v].job \in Jobs
            BY <1>4, <2>2, AtRest
        <3>2. outcome[worker[v].job] = "failed"
            BY <3>1 DEF CaseInv, Executing
        <3> QED
            BY <1>1, <1>2, <3>1, <3>2 DEF Jobs
    <2> QED
        BY <2>1, <2>2 DEF Executing
<1>8. Selecting'
    BY <1>2, <1>3 DEF Selecting
<1>9. IdentityGrounded' /\ MaterialOutageShown'
    BY <1>1, ConstantsAssumption DEF IdentityGrounded, MaterialOutageShown, Conclusion
<1> QED
    BY <1>5, <1>6, <1>7, <1>8, <1>9 DEF Beside

\* An enrichment shows the material outages it met and hides no other, even
\* one that another enrichment committed after it had loaded the row.
LEMMA EnrichCase ==
    ASSUME CaseInv, NEW w \in Workers, NEW failed, Enrich(w, failed)
    PROVE  Beside'
<1>1. PICK j : j = worker[w].job
    OBVIOUS
<1>2. PICK row : row = worker[w].row
    OBVIOUS
<1>3. PICK shown : shown = Consult(EnrichmentSources, failed, row.completeness)
    OBVIOUS
<1>4. /\ inv' \in Rows /\ inv'.intake = inv.intake /\ inv'.identity = inv.identity
      /\ inv'.counterparty = inv.counterparty
      /\ inv'.state = "COMPLETED"
      /\ inv'.completeness = IF shown = row.completeness THEN inv.completeness ELSE shown
      /\ shown \in Completenesses
      /\ shown = "MATERIAL_SOURCE_UNAVAILABLE" <=>
            row.completeness = "MATERIAL_SOURCE_UNAVAILABLE" \/ failed \cap Material # {}
      /\ row.completeness # None => shown # None
    BY <1>2, <1>3, EnrichWrites DEF CaseInv
<1>5. /\ worker[w].at = "run" /\ j \in Analysts
      /\ outage' = (outage \/ failed \cap Material # {})
      /\ outcome' = [outcome EXCEPT ![j] = "done"]
      /\ worker' = [worker EXCEPT ![w] = Idle]
      /\ UNCHANGED <<found, chosen, tries, analyst>>
    BY <1>1 DEF Enrich, Succeeds
<1>6. /\ outcome[j] = "open" /\ row.completeness # None
      /\ row.completeness = "MATERIAL_SOURCE_UNAVAILABLE" =>
            inv.completeness = "MATERIAL_SOURCE_UNAVAILABLE"
    BY <1>1, <1>2, <1>5 DEF CaseInv, Executing, Loaded
<1>7. inv.identity = "CONFIRMED"
    BY <1>5, <1>6 DEF CaseInv, Choosing
<1>8. row.completeness \in Completenesses /\ inv.completeness \in Completenesses
    BY <1>2 DEF CaseInv, TypeOK, Rows, Completenesses
<1>9. /\ inv.completeness = "MATERIAL_SOURCE_UNAVAILABLE" <=> outage
      /\ outage \in BOOLEAN
    BY DEF CaseInv, MaterialOutageShown, TypeOK
<1>10. /\ inv'.completeness = "MATERIAL_SOURCE_UNAVAILABLE" <=>
            inv.completeness = "MATERIAL_SOURCE_UNAVAILABLE" \/ failed \cap Material # {}
       /\ inv.completeness # None => inv'.completeness # None
    BY <1>4, <1>6, <1>8, ConstantsAssumption DEF Completenesses
<1>11. /\ outcome'[j] = "done"
       /\ \A k \in Jobs : k # j => outcome'[k] = outcome[k]
       /\ j # "discovery" /\ j \in Jobs
       /\ outcome["discovery"] = outcome'["discovery"]
       /\ \A v \in Workers : v # w => worker'[v] = worker[v]
       /\ worker'[w] = Idle
       /\ \A v \in Workers : worker[v].at # "idle" => worker[v].job \in Jobs
    BY <1>5, ConstantsAssumption DEF CaseInv, TypeOK, Jobs
<1>12. outcome["discovery"] = "done"
    BY <1>7, ConstantsAssumption DEF CaseInv, Searching
<1>13. Searching'
    BY <1>4, <1>11, <1>12 DEF CaseInv, Searching
<1>14. Choosing'
    BY <1>4, <1>5, <1>7, <1>10 DEF CaseInv, Choosing
<1>15. Executing'
    <2>1. ASSUME NEW v \in Workers, worker'[v].at = "run" PROVE Loaded(v)'
        <3>1. v # w /\ worker'[v] = worker[v] /\ worker[v].at = "run"
            BY <1>11, <2>1, AtRest
        <3>2. worker[v].job # j /\ worker[v].job \in Jobs
            BY <1>1, <1>5, <1>11, <3>1 DEF CaseInv, Executing
        <3>3. Loaded(v)
            BY <3>1 DEF CaseInv, Executing
        <3> QED
            BY <1>5, <1>10, <1>11, <3>1, <3>2, <3>3 DEF Loaded
    <2>2. ASSUME NEW v \in Workers, worker'[v].at = "mark"
          PROVE  outcome'[worker'[v].job] = "failed"
        <3>1. worker[v].at = "mark" /\ worker'[v] = worker[v] /\ worker[v].job \in Jobs
            BY <1>11, <2>2, AtRest
        <3>2. outcome[worker[v].job] = "failed"
            BY <3>1 DEF CaseInv, Executing
        <3> QED
            BY <1>6, <1>11, <3>1, <3>2
    <2>3. \A v, u \in Workers :
              worker'[v].at = "run" /\ worker'[u].at = "run" /\ worker'[v].job = worker'[u].job
                 => v = u
        BY <1>11, AtRest DEF CaseInv, Executing
    <2> QED
        BY <2>1, <2>2, <2>3 DEF Executing
<1>16. Selecting'
    BY <1>5 DEF CaseInv, Selecting
<1>17. IdentityGrounded' /\ MaterialOutageShown'
    BY <1>4, <1>5, <1>9, <1>10 DEF CaseInv, IdentityGrounded, MaterialOutageShown
<1> QED
    BY <1>13, <1>14, <1>15, <1>16, <1>17 DEF Beside

\* A resolution confirms the entity selected and leaves everything else of the
\* row as discovery and earlier enrichments have it.
LEMMA ResolveCase ==
    ASSUME CaseInv, NEW a \in Analysts, Resolve(a)
    PROVE  /\ Beside'
           /\ inv'.state = inv.state
           /\ inv'.counterparty = analyst[a].pick /\ inv'.identity = "CONFIRMED"
<1>1. PICK row : row = analyst[a].row
    OBVIOUS
<1>2. PICK c : c = analyst[a].pick
    OBVIOUS
<1>3. /\ row.identity = "AMBIGUOUS" /\ row.completeness = "COMPLETE_WITH_LIMITATIONS"
      /\ row.counterparty = None /\ row.state = "PARTIAL_RESULTS"
      /\ c \notin Incomplete /\ c \in found
    BY <1>1, <1>2 DEF CaseInv, Selecting, Resolve, Referenced
<1>4. /\ inv' \in Rows /\ inv'.intake = inv.intake /\ inv'.identity = "CONFIRMED"
      /\ inv'.counterparty = c /\ inv'.completeness = inv.completeness
      /\ inv'.state = inv.state /\ c \in Candidates
    BY <1>1, <1>2, <1>3, ResolveWrites, ConstantsAssumption DEF CaseInv
<1>5. /\ chosen' = chosen \cup {c}
      /\ analyst' = [analyst EXCEPT ![a] = Away]
      /\ UNCHANGED <<found, outage, worker>>
    BY <1>2 DEF Resolve
<1>6. /\ outcome'["discovery"] = outcome["discovery"]
      /\ \A j \in Jobs : outcome[j] # "absent" => outcome'[j] = outcome[j]
      /\ tries' = tries
    <2>1. CASE Queue!Submit(a)
        BY <2>1, ConstantsAssumption DEF CaseInv, TypeOK, Queue!Submit, Jobs
    <2>2. CASE UNCHANGED queue
        BY <2>2 DEF queue
    <2> QED
        BY <2>1, <2>2 DEF Resolve
<1>7. outcome["discovery"] = "done"
    BY <1>3 DEF CaseInv, Searching
<1>8. Searching' /\ Choosing'
    BY <1>3, <1>4, <1>5, <1>6, <1>7 DEF CaseInv, Searching, Choosing
<1>9. Executing'
    <2>1. \A v \in Workers : worker[v].at # "idle" => worker[v].job \in Jobs
        BY DEF CaseInv, TypeOK
    <2>2. ASSUME NEW v \in Workers, worker[v].at = "run" PROVE Loaded(v)'
        <3>1. Loaded(v) /\ worker[v].job \in Jobs
            BY <2>1, <2>2 DEF CaseInv, Executing
        <3> QED
            BY <1>4, <1>5, <1>6, <3>1 DEF Loaded
    <2> QED
        BY <1>5, <1>6, <2>1, <2>2 DEF CaseInv, Executing
<1>10. Selecting'
    BY <1>5, AtRest DEF CaseInv, Selecting, TypeOK
<1>11. IdentityGrounded' /\ MaterialOutageShown'
    BY <1>3, <1>4, <1>5, AtRest DEF CaseInv, IdentityGrounded, MaterialOutageShown
<1> QED
    BY <1>2, <1>4, <1>8, <1>9, <1>10, <1>11 DEF Beside

\* A run that ends without effects leaves its job open, done or failed, and
\* keeps what is known of the others.
LEMMA EndsCase ==
    ASSUME CaseInv, NEW w \in Workers, worker[w].at = "run", NEW j, j = worker[w].job,
           NEW o \in {"open", "done", "failed"}, o = "done" => j \in Analysts,
           NEW e \in Executions, e.at # "run",
           e.at = "mark" => e.job = j /\ o = "failed",
           outcome' = [outcome EXCEPT ![j] = o],
           worker' = [worker EXCEPT ![w] = e],
           UNCHANGED <<case, tries, analyst>>
    PROVE  Beside'
<1>1. /\ j \in Jobs /\ outcome'[j] = o
      /\ \A k \in Jobs : k # j => outcome'[k] = outcome[k]
      /\ \A v \in Workers : v # w => worker'[v] = worker[v]
      /\ worker'[w] = e
      /\ \A v \in Workers : worker[v].at # "idle" => worker[v].job \in Jobs
      /\ "discovery" \in Jobs /\ Analysts \subseteq Jobs
    BY AtRest DEF CaseInv, TypeOK, Jobs
<1>2. outcome[j] = "open" /\ (j \notin Analysts => j = "discovery")
    BY <1>1 DEF CaseInv, Executing, Loaded, Jobs
<1>3. Searching'
    <2>1. \/ outcome'["discovery"] = outcome["discovery"]
          \/ outcome["discovery"] = "open" /\ outcome'["discovery"] \in {"open", "failed"}
        BY <1>1, <1>2, ConstantsAssumption
    <2> QED
        BY <2>1 DEF CaseInv, Searching, case
<1>4. Choosing'
    BY <1>1, <1>2 DEF CaseInv, Choosing, case
<1>5. Executing'
    <2>1. ASSUME NEW v \in Workers, worker'[v].at = "run" PROVE Loaded(v)'
        <3>1. v # w /\ worker'[v] = worker[v] /\ worker[v].at = "run"
            BY <1>1, <2>1
        <3>2. Loaded(v) /\ worker[v].job \in Jobs
            BY <1>1, <3>1 DEF CaseInv, Executing
        <3>3. outcome'[worker[v].job] = outcome[worker[v].job]
            BY <1>1, <3>1, <3>2 DEF CaseInv, Executing
        <3> QED
            BY <3>1, <3>2, <3>3 DEF Loaded, case
    <2>2. ASSUME NEW v \in Workers, worker'[v].at = "mark"
          PROVE  outcome'[worker'[v].job] = "failed"
        <3>1. CASE v = w
            BY <1>1, <2>2, <3>1
        <3>2. CASE v # w
            BY <1>1, <1>2, <2>2, <3>2 DEF CaseInv, Executing
        <3> QED
            BY <3>1, <3>2
    <2>3. \A v, u \in Workers :
              worker'[v].at = "run" /\ worker'[u].at = "run" /\ worker'[v].job = worker'[u].job
                 => v = u
        BY <1>1 DEF CaseInv, Executing
    <2> QED
        BY <2>1, <2>2, <2>3 DEF Executing
<1>6. Selecting' /\ IdentityGrounded' /\ MaterialOutageShown'
    BY DEF CaseInv, Selecting, IdentityGrounded, MaterialOutageShown, case
<1> QED
    BY <1>3, <1>4, <1>5, <1>6 DEF Beside

\* Every step keeps the invariant when a job is executed once at a time.
LEMMA StepCase ==
    ASSUME Exclusive, CaseInv, [Next]_vars
    PROVE  CaseInv'
<1>0. TypeOK' /\ Referenced'
    BY StepType DEF CaseInv
<1>t. /\ TypeOK
      /\ \A v \in Workers : worker[v].at # "idle" => worker[v].job \in Jobs
      /\ "discovery" \in Jobs /\ Analysts \subseteq Jobs
    BY DEF CaseInv, TypeOK, Jobs
<1>1. ASSUME Create PROVE Beside'
    <2>1. /\ inv.intake = "NONE" /\ outcome["discovery"] = "absent"
          /\ inv'.identity = inv.identity /\ inv'.completeness = inv.completeness
          /\ inv'.counterparty = inv.counterparty /\ inv'.state = inv.state
          /\ UNCHANGED <<found, chosen, outage, worker, analyst>>
        BY <1>1 DEF Create, CaseInv, TypeOK, Rows, Searching
    <2>2. inv'.intake = "SUFFICIENT_FOR_DISCOVERY" <=> outcome'["discovery"] # "absent"
        BY <1>1, <2>1, <1>t DEF Create, Queue!Submit, queue, TypeOK, Rows
    <2>3. /\ outcome'["discovery"] \in {"absent", "open"}
          /\ \A k \in Jobs : k # "discovery" => outcome'[k] = outcome[k]
          /\ tries' = tries
        BY <1>1, <2>1, <1>t DEF Create, Queue!Submit, queue, TypeOK
    <2>4. Searching' /\ Choosing'
        BY <2>1, <2>2, <2>3, <1>t, ConstantsAssumption DEF CaseInv, Searching, Choosing
    <2>5. ASSUME NEW v \in Workers, worker[v].at # "idle"
          PROVE  outcome'[worker[v].job] = outcome[worker[v].job]
        BY <2>1, <2>3, <2>5, <1>t DEF CaseInv, Executing, Loaded, TypeOK
    <2>6. Executing'
        BY <2>1, <2>3, <2>5 DEF CaseInv, Executing, Loaded
    <2> QED
        BY <2>1, <2>4, <2>6
           DEF Beside, CaseInv, Selecting, IdentityGrounded, MaterialOutageShown
<1>2. ASSUME NEW w \in Workers, NEW j \in Jobs, Start(w, j) PROVE Beside'
    <2>1. PICK e : e = [at |-> "run", job |-> j, row |-> inv, skip |-> AlreadyDone(j)]
        OBVIOUS
    <2>2. /\ e.at = "run" /\ e.job = j /\ e.row = inv
          /\ worker' = [worker EXCEPT ![w] = e]
          /\ outcome[j] = "open" /\ tries' = [tries EXCEPT ![j] = @ + 1]
          /\ UNCHANGED <<case, analyst, outcome>>
        BY <1>2, <2>1 DEF Start, Queue!Try
    <2>3. /\ \A v \in Workers : v # w => worker'[v] = worker[v]
          /\ worker'[w] = e
          /\ tries'[j] > 0 /\ \A k \in Jobs : tries[k] > 0 => tries'[k] > 0
        BY <2>2 DEF CaseInv, TypeOK
    <2>4. \A v \in Workers : worker[v].at = "run" => worker[v].job # j
        BY <1>2, <1>t, StartsAlone DEF Busy
    <2>5. Loaded(w)'
        <3>1. ASSUME j = "discovery"
              PROVE  /\ inv.identity = None /\ inv.completeness = None
                     /\ inv.counterparty = None /\ inv.state = "NOT_STARTED"
            BY <2>2, <3>1 DEF CaseInv, Searching
        <3>2. ASSUME j \in Analysts
              PROVE  inv.identity = "CONFIRMED" /\ inv.completeness # None
            <4>1. inv.identity = "CONFIRMED"
                BY <2>2, <3>2 DEF CaseInv, Choosing
            <4>2. inv.counterparty \in chosen
                BY <4>1 DEF CaseInv, Referenced
            <4>3. found # {}
                BY <4>2 DEF CaseInv, TypeOK
            <4> QED
                BY <4>1, <4>3 DEF CaseInv, Choosing
        <3> QED
            BY <2>2, <2>3, <3>1, <3>2 DEF Loaded, case
    <2>6. ASSUME NEW v \in Workers, v # w, worker[v].at = "run" PROVE Loaded(v)'
        <3>1. Loaded(v)
            BY <2>6 DEF CaseInv, Executing
        <3> QED
            BY <2>2, <2>3, <2>6, <1>t, <3>1 DEF Loaded, case
    <2>7. Executing'
        BY <2>2, <2>3, <2>4, <2>5, <2>6 DEF CaseInv, Executing
    <2> QED
        BY <2>2, <2>7 DEF Beside, CaseInv, Searching, Choosing, Selecting, IdentityGrounded,
                          MaterialOutageShown, case
<1>3. ASSUME NEW w \in Workers, Discover(w) PROVE Beside'
    BY <1>3, <1>t, DiscoverConcludes, DiscoverCase
<1>4. ASSUME NEW w \in Workers, NEW failed \in SUBSET MayFail, Enrich(w, failed) PROVE Beside'
    BY <1>4, EnrichCase
<1>5. ASSUME NEW w \in Workers, EnrichAgain(w) PROVE Beside'
    <2>1. PICK j : j = worker[w].job
        OBVIOUS
    <2>2. worker[w].at = "run" /\ j \in Analysts
        <3>1. worker[w].at = "run" /\ worker[w].row.identity = "CONFIRMED" /\ j \in Jobs
            BY <1>5, <1>t, <2>1 DEF EnrichAgain
        <3> QED
            BY <2>1, <3>1, ConstantsAssumption DEF CaseInv, Executing, Loaded, Jobs
    <2>3. /\ outcome' = [outcome EXCEPT ![j] = "done"]
          /\ worker' = [worker EXCEPT ![w] = Idle]
          /\ UNCHANGED <<case, tries, analyst>>
        BY <1>5, <2>1 DEF EnrichAgain, Succeeds
    <2> QED
        BY <2>1, <2>2, <2>3, AtRest, EndsCase
<1>6. ASSUME NEW w \in Workers, Fail(w) PROVE Beside'
    <2>1. PICK j : j = worker[w].job
        OBVIOUS
    <2>2. PICK o : o = IF LastTry(j) THEN "failed" ELSE "open"
        OBVIOUS
    <2>3. PICK e : e = IF LastTry(j) THEN [Idle EXCEPT !.at = "mark", !.job = j] ELSE Idle
        OBVIOUS
    <2>4. /\ worker[w].at = "run" /\ j \in Jobs
          /\ outcome' = [outcome EXCEPT ![j] = o]
          /\ worker' = [worker EXCEPT ![w] = e]
          /\ UNCHANGED <<case, tries, analyst>>
        BY <1>6, <1>t, <2>1, <2>2, <2>3 DEF Fail
    <2>5. /\ e \in Executions /\ e.at # "run" /\ (e.at = "mark" => e.job = j /\ o = "failed")
          /\ o \in {"open", "done", "failed"} /\ o # "done"
        BY <2>2, <2>3, <2>4, AtRest DEF Executions, Idle
    <2> QED
        BY <2>1, <2>4, <2>5, EndsCase
<1>7. ASSUME NEW w \in Workers, MarkFailed(w) PROVE Beside'
    <2>1. PICK j : j = worker[w].job
        OBVIOUS
    <2>2. /\ j \in Jobs /\ outcome[j] = "failed"
          /\ inv'.intake = inv.intake /\ inv'.identity = inv.identity
          /\ inv'.completeness = inv.completeness /\ inv'.counterparty = inv.counterparty
          /\ inv'.state = "FAILED"
          /\ worker' = [worker EXCEPT ![w] = Idle]
          /\ UNCHANGED <<found, chosen, outage, queue, analyst>>
        BY <1>7, <1>t, <2>1 DEF MarkFailed, CaseInv, Executing, TypeOK, Rows
    <2>3. outcome["discovery"] \notin {"absent", "open"} /\ inv.identity # "AMBIGUOUS"
        <3>1. CASE j = "discovery"
            BY <2>2, <3>1, ConstantsAssumption DEF CaseInv, Searching
        <3>2. CASE j \in Analysts
            BY <2>2, <3>2, ConstantsAssumption DEF CaseInv, Searching, Choosing
        <3> QED
            BY <2>2, <3>1, <3>2 DEF Jobs
    <2>4. Searching' /\ Choosing'
        BY <2>2, <2>3 DEF CaseInv, Searching, Choosing, queue
    <2>5. \A v \in Workers : worker'[v] = worker[v] \/ worker'[v] = Idle
        BY <2>2 DEF CaseInv, TypeOK
    <2>6. Executing'
        BY <2>2, <2>5, AtRest DEF CaseInv, Executing, Loaded, queue
    <2> QED
        BY <2>2, <2>4, <2>6
           DEF Beside, CaseInv, Selecting, IdentityGrounded, MaterialOutageShown
<1>8. ASSUME NEW w \in Workers, Crash(w) PROVE Beside'
    <2>1. worker' = [worker EXCEPT ![w] = Idle] /\ UNCHANGED <<case, queue, analyst>>
        BY <1>8 DEF Crash
    <2>2. \A v \in Workers : worker'[v] = worker[v] \/ worker'[v] = Idle
        BY <2>1 DEF CaseInv, TypeOK
    <2>3. Executing'
        BY <2>1, <2>2, AtRest DEF CaseInv, Executing, Loaded, queue, case
    <2> QED
        BY <2>1, <2>3 DEF Beside, CaseInv, Searching, Choosing, Selecting, IdentityGrounded,
                          MaterialOutageShown, case, queue
<1>9. ASSUME NEW a \in Analysts, UNCHANGED <<case, queue, worker>>, Selecting' PROVE Beside'
    BY <1>9 DEF Beside, CaseInv, Searching, Choosing, Executing, Loaded, IdentityGrounded,
                MaterialOutageShown, case, queue
<1>10. ASSUME NEW a \in Analysts, NEW c \in Candidates, Open(a, c) PROVE Beside'
    <2>1. /\ inv.identity = "AMBIGUOUS" /\ inv.counterparty = None
          /\ inv.state = "PARTIAL_RESULTS" /\ inv.completeness = "COMPLETE_WITH_LIMITATIONS"
        BY <1>10 DEF Open, Resolvable, CaseInv, Choosing, IdentityGrounded
    <2>2. \A b \in Analysts :
             analyst'[b] = IF b = a THEN [at |-> "opened", pick |-> c, row |-> inv, add |-> FALSE]
                           ELSE analyst[b]
        BY <1>10 DEF Open, CaseInv, TypeOK
    <2>3. Selecting'
        BY <2>1, <2>2 DEF CaseInv, Selecting
    <2> QED
        BY <1>9, <1>10, <2>3 DEF Open
<1>11. ASSUME NEW a \in Analysts, LookForJob(a) PROVE Beside'
    <2>1. PICK r : r = [analyst[a] EXCEPT !.at = "ready", !.add = NoEnrichmentJob]
        OBVIOUS
    <2>2. analyst[a] \in Resolutions /\ analyst[a].at = "opened"
          /\ analyst[a].pick \notin Incomplete
        BY <1>11, <1>t DEF TypeOK, Resolutions, LookForJob
    <2>3. r.pick = analyst[a].pick /\ r.row = analyst[a].row
        BY <2>1, <2>2 DEF Resolutions
    <2>4. \A b \in Analysts : analyst'[b] = IF b = a THEN r ELSE analyst[b]
        BY <1>11, <2>1 DEF LookForJob, CaseInv, TypeOK
    <2>5. Selecting'
        BY <2>2, <2>3, <2>4 DEF CaseInv, Selecting
    <2> QED
        BY <1>9, <1>11, <2>5 DEF LookForJob
<1>12. ASSUME NEW a \in Analysts, Resolve(a) PROVE Beside'
    BY <1>12, ResolveCase
<1>13. ASSUME NEW a \in Analysts, Refuse(a) PROVE Beside'
    <2>1. \A b \in Analysts : analyst'[b] = IF b = a THEN Away ELSE analyst[b]
        BY <1>13 DEF Refuse, CaseInv, TypeOK
    <2>2. Selecting'
        BY <2>1, AtRest DEF CaseInv, Selecting
    <2> QED
        BY <1>9, <1>13, <2>2 DEF Refuse
<1>14. ASSUME Report PROVE Beside'
    BY <1>14 DEF Report, Beside, CaseInv, Searching, Choosing, Executing, Loaded, Selecting,
                 IdentityGrounded, MaterialOutageShown, queue
<1>15. ASSUME UNCHANGED vars PROVE Beside'
    BY <1>15 DEF vars, case, queue, Beside, CaseInv, Searching, Choosing, Executing, Loaded,
                 Selecting, IdentityGrounded, MaterialOutageShown
<1>16. Beside'
    BY <1>1, <1>2, <1>3, <1>4, <1>5, <1>6, <1>7, <1>8, <1>10, <1>11, <1>12, <1>13, <1>14, <1>15
       DEF Next, Work, Request
<1> QED
    BY <1>0, <1>16 DEF CaseInv, Beside

LEMMA CaseInvariant ==
    ASSUME Exclusive
    PROVE  Spec => []CaseInv
BY InitCase, StepCase, PTL DEF Spec

\* No late commit of a row loaded earlier confirms an identity or leaves half
\* of a resolution behind, as long as a job is executed once at a time: two
\* analysts may resolve the case at once and workers may die.
THEOREM IdentityIsGrounded ==
    ASSUME Exclusive
    PROVE  Spec => []IdentityGrounded
<1>1. Spec => []CaseInv
    BY CaseInvariant
<1> QED
    BY <1>1, PTL DEF CaseInv

\* A material outage, and nothing else, is shown as one, whatever is committed
\* after it by enrichments and resolutions that had not seen it.
THEOREM MaterialOutageIsShown ==
    ASSUME Exclusive
    PROVE  Spec => []MaterialOutageShown
<1>1. Spec => []CaseInv
    BY CaseInvariant
<1> QED
    BY <1>1, PTL DEF CaseInv

-----------------------------------------------------------------------------
(* The job queue                                                           *)

\* Every step is a step of DurableQueue or leaves the jobs alone.
LEMMA StepQueue ==
    ASSUME CaseInv, [Next]_vars
    PROVE  [Queue!Next]_(Queue!vars)
<1>0. /\ "discovery" \in Jobs /\ Analysts \subseteq Jobs
      /\ \A v \in Workers : worker[v].at # "idle" => worker[v].job \in Jobs
      /\ \A v \in Workers : worker[v].at = "run" =>
            outcome[worker[v].job] = "open" /\ tries[worker[v].job] > 0
      /\ outcome \in [Jobs -> {"absent", "open", "done", "failed"}]
    BY DEF CaseInv, TypeOK, Jobs, Executing, Loaded
<1>1. ASSUME NEW w \in Workers, worker[w].at = "run", Succeeds(w) PROVE Queue!Next
    BY <1>0, <1>1 DEF Succeeds, Queue!Next, Queue!Complete
<1>2. ASSUME Create PROVE [Queue!Next]_(Queue!vars)
    BY <1>0, <1>2 DEF Create, queue, Queue!Next, Queue!vars
<1>3. ASSUME NEW w \in Workers, NEW j \in Jobs, Start(w, j) PROVE Queue!Next
    BY <1>3 DEF Start, Queue!Next
<1>4. ASSUME NEW w \in Workers, Discover(w) PROVE Queue!Next
    <2>1. PICK new, flushed, failed : Conclusion(w, new, flushed, failed)
        BY <1>4, DiscoverConcludes DEF CaseInv
    <2> QED
        BY <1>1, <2>1 DEF Conclusion, Discovered
<1>5. ASSUME NEW w \in Workers, NEW failed \in SUBSET MayFail, Enrich(w, failed) PROVE Queue!Next
    BY <1>1, <1>5 DEF Enrich
<1>6. ASSUME NEW w \in Workers, EnrichAgain(w) PROVE Queue!Next
    BY <1>1, <1>6 DEF EnrichAgain
<1>7. ASSUME NEW w \in Workers, Fail(w) PROVE [Queue!Next]_(Queue!vars)
    <2>1. PICK j : j = worker[w].job
        OBVIOUS
    <2>2. /\ j \in Jobs /\ outcome[j] = "open" /\ tries' = tries
          /\ outcome' = [outcome EXCEPT ![j] = IF LastTry(j) THEN "failed" ELSE "open"]
        BY <1>0, <1>7, <2>1 DEF Fail
    <2>3. CASE LastTry(j)
        BY <2>2, <2>3 DEF LastTry, Queue!Next, Queue!GiveUp
    <2>4. CASE ~LastTry(j)
        <3>1. outcome' = outcome
            BY <1>0, <2>2, <2>4
        <3> QED
            BY <2>2, <3>1 DEF Queue!vars
    <2> QED
        BY <2>3, <2>4
<1>8. ASSUME NEW a \in Analysts, Resolve(a) PROVE [Queue!Next]_(Queue!vars)
    BY <1>0, <1>8 DEF Resolve, queue, Queue!Next, Queue!vars
<1>9. ASSUME UNCHANGED queue PROVE [Queue!Next]_(Queue!vars)
    BY <1>9 DEF queue, Queue!vars
<1>10. ASSUME NEW w \in Workers, MarkFailed(w) \/ Crash(w) PROVE UNCHANGED queue
    BY <1>10 DEF MarkFailed, Crash
<1>11. ASSUME NEW a \in Analysts, (\E c \in Candidates : Open(a, c)) \/ LookForJob(a) \/ Refuse(a)
       PROVE  UNCHANGED queue
    BY <1>11 DEF Open, LookForJob, Refuse
<1>12. ASSUME Report \/ UNCHANGED vars PROVE UNCHANGED queue
    BY <1>12 DEF Report, vars
<1> QED
    BY <1>2, <1>3, <1>4, <1>5, <1>6, <1>7, <1>8, <1>9, <1>10, <1>11, <1>12 DEF Next, Work, Request

\* The services use the queue as DurableQueue offers it, whose promise
\* JobQueueProofs proves of the job table.
THEOREM QueueIsKept ==
    ASSUME Exclusive
    PROVE  Spec => KeepsQueue
<1>1. Init => Queue!Init
    BY DEF Init
<1>2. Spec => []CaseInv
    BY CaseInvariant
<1> QED
    BY <1>1, <1>2, StepQueue, PTL DEF Spec, KeepsQueue, Queue!Safety

-----------------------------------------------------------------------------
(* Effects committed once                                                  *)

\* One worker, or one analyst and an exclusive job: no two enrichments of one
\* candidate are executed at once.
OneEnrichment ==
    \/ \A v, w \in Workers : v = w
    \/ MaxTwins = 0 /\ \A a, b \in Analysts : a = b

\* What has been committed is recorded, and a run that does not skip its
\* enrichment has one still to do.
Recorded ==
    /\ \A c \in Candidates : applied[c] = IF c \in enriched THEN 1 ELSE 0
    /\ applied["discovery"] = IF outcome["discovery"] = "done" THEN 1 ELSE 0
    /\ \A w \in Workers :
          worker[w].at = "run" /\ worker[w].job \in Analysts /\ ~worker[w].skip =>
              target[worker[w].job] \notin enriched

LEMMA InitRecorded == Init => Recorded
<1> SUFFICES ASSUME Init PROVE Recorded
    OBVIOUS
<1>1. /\ applied = [s \in Steps |-> 0] /\ enriched = {}
      /\ outcome = [j \in Jobs |-> "absent"]
    BY DEF Init, Queue!Init
<1> QED
    BY <1>1 DEF Recorded, Steps, Jobs

LEMMA StepRecorded ==
    ASSUME OneEnrichment, CaseInv, Recorded, [Next]_vars
    PROVE  Recorded'
<1>0. /\ "discovery" \in Jobs /\ Analysts \subseteq Jobs /\ "discovery" \notin Candidates
      /\ \A v \in Workers : worker[v].at # "idle" => worker[v].job \in Jobs
      /\ \A v \in Workers : worker[v].at = "run" => outcome[worker[v].job] = "open"
      /\ outcome \in [Jobs -> {"absent", "open", "done", "failed"}]
      /\ TypeOK
    BY ConstantsAssumption DEF CaseInv, TypeOK, Jobs, Executing, Loaded
<1>1. ASSUME UNCHANGED <<applied, enriched, target>>, outcome'["discovery"] = "done" <=> outcome["discovery"] = "done",
             \A v \in Workers : worker'[v] = worker[v] \/ worker'[v].at # "run"
      PROVE  Recorded'
    BY <1>1 DEF Recorded
<1>2. ASSUME Create PROVE Recorded'
    <2>1. outcome'["discovery"] = "done" <=> outcome["discovery"] = "done"
        BY <1>0, <1>2 DEF Create, Queue!Submit, queue
    <2> QED
        BY <1>1, <1>2, <2>1 DEF Create
<1>3. ASSUME NEW w \in Workers, NEW j \in Jobs, Start(w, j) PROVE Recorded'
    <2>1. PICK e : e = [at |-> "run", job |-> j, row |-> inv, skip |-> AlreadyDone(j)]
        OBVIOUS
    <2>2. /\ \A v \in Workers : worker'[v] = IF v = w THEN e ELSE worker[v]
          /\ e.job = j /\ e.skip = (j \in Analysts /\ target[j] \in enriched)
          /\ UNCHANGED <<case, outcome>>
        BY <1>0, <1>3, <2>1 DEF Start, Queue!Try, TypeOK, AlreadyDone
    <2> QED
        BY <2>2 DEF Recorded, case
<1>4. ASSUME NEW w \in Workers, Discover(w) PROVE Recorded'
    <2>1. PICK new, flushed, failed : Conclusion(w, new, flushed, failed)
        BY <1>0, <1>4, DiscoverConcludes
    <2>2. /\ outcome["discovery"] = "open"
          /\ outcome' = [outcome EXCEPT !["discovery"] = "done"]
          /\ applied' = [applied EXCEPT !["discovery"] = @ + 1]
          /\ worker' = [worker EXCEPT ![w] = Idle]
          /\ UNCHANGED <<enriched, target>>
        BY <1>0, <2>1 DEF Conclusion, Discovered, Succeeds
    <2>3. /\ outcome'["discovery"] = "done"
          /\ applied'["discovery"] = applied["discovery"] + 1
          /\ \A c \in Candidates : applied'[c] = applied[c]
          /\ \A v \in Workers : worker'[v] = worker[v] \/ worker'[v] = Idle
        BY <1>0, <2>2 DEF TypeOK, Steps
    <2> QED
        BY <2>2, <2>3, AtRest DEF Recorded
<1>5. ASSUME NEW w \in Workers, NEW failed \in SUBSET MayFail, Enrich(w, failed) PROVE Recorded'
    <2>1. PICK j : j = worker[w].job
        OBVIOUS
    <2>2. PICK c : c = target[j]
        OBVIOUS
    <2>3. /\ worker[w].at = "run" /\ ~worker[w].skip /\ j \in Analysts
          /\ enriched' = enriched \cup {c}
          /\ applied' = [applied EXCEPT ![c] = @ + 1]
          /\ outcome' = [outcome EXCEPT ![j] = "done"]
          /\ worker' = [worker EXCEPT ![w] = Idle]
          /\ target' = target
        BY <1>5, <2>1, <2>2 DEF Enrich, Succeeds
    <2>4. c \notin enriched /\ c \in Candidates
        <3>1. target[j] # None
            BY <1>0, <2>1, <2>3 DEF TypeOK
        <3> QED
            BY <1>0, <2>1, <2>2, <2>3, <3>1 DEF Recorded, TypeOK
    <2>5. /\ \A d \in Candidates : applied'[d] = IF d = c THEN applied[d] + 1 ELSE applied[d]
          /\ applied'["discovery"] = applied["discovery"]
          /\ outcome'["discovery"] = outcome["discovery"]
          /\ \A v \in Workers : worker'[v] = IF v = w THEN Idle ELSE worker[v]
        BY <1>0, <2>3, <2>4, ConstantsAssumption DEF TypeOK, Steps
    <2>6. ASSUME NEW v \in Workers, v # w, worker[v].at = "run", worker[v].job \in Analysts
          PROVE  FALSE
        <3>1. CASE \A a, b \in Analysts : a = b
            <4>1. worker[v].job = worker[w].job
                BY <2>1, <2>3, <2>6, <3>1
            <4> QED
                BY <2>3, <2>6, <4>1 DEF CaseInv, Executing
        <3>2. CASE \A u, x \in Workers : u = x
            BY <2>6, <3>2
        <3> QED
            BY <3>1, <3>2 DEF OneEnrichment
    <2> QED
        BY <2>3, <2>4, <2>5, <2>6, AtRest DEF Recorded
<1>6. ASSUME NEW w \in Workers, EnrichAgain(w) PROVE Recorded'
    <2>1. PICK j : j = worker[w].job
        OBVIOUS
    <2>2. /\ j \in Jobs /\ j # "discovery"
          /\ outcome' = [outcome EXCEPT ![j] = "done"]
          /\ worker' = [worker EXCEPT ![w] = Idle]
          /\ UNCHANGED case
        BY <1>0, <1>6, <2>1, ConstantsAssumption
           DEF EnrichAgain, Succeeds, CaseInv, Executing, Loaded
    <2>3. /\ outcome'["discovery"] = outcome["discovery"]
          /\ \A v \in Workers : worker'[v] = worker[v] \/ worker'[v] = Idle
        BY <1>0, <2>2 DEF TypeOK
    <2> QED
        BY <1>1, <2>2, <2>3, AtRest DEF case
<1>7. ASSUME NEW w \in Workers, Fail(w) PROVE Recorded'
    <2>1. PICK j : j = worker[w].job
        OBVIOUS
    <2>2. PICK e : e = IF LastTry(j) THEN [Idle EXCEPT !.at = "mark", !.job = j] ELSE Idle
        OBVIOUS
    <2>3. /\ j \in Jobs /\ outcome[j] = "open"
          /\ outcome' = [outcome EXCEPT ![j] = IF LastTry(j) THEN "failed" ELSE "open"]
          /\ worker' = [worker EXCEPT ![w] = e]
          /\ UNCHANGED case
        BY <1>0, <1>7, <2>1, <2>2 DEF Fail
    <2>4. /\ outcome'["discovery"] = "done" <=> outcome["discovery"] = "done"
          /\ \A v \in Workers : worker'[v] = worker[v] \/ worker'[v] = e
          /\ e.at # "run"
        BY <1>0, <2>2, <2>3, AtRest DEF TypeOK, Idle
    <2> QED
        BY <1>1, <2>3, <2>4 DEF case
<1>8. ASSUME NEW w \in Workers, MarkFailed(w) \/ Crash(w) PROVE Recorded'
    <2>1. /\ worker' = [worker EXCEPT ![w] = Idle]
          /\ UNCHANGED <<applied, enriched, target, outcome>>
        BY <1>8 DEF MarkFailed, Crash, case, queue
    <2>2. \A v \in Workers : worker'[v] = worker[v] \/ worker'[v] = Idle
        BY <1>0, <2>1 DEF TypeOK
    <2> QED
        BY <1>1, <2>1, <2>2, AtRest
<1>9. ASSUME UNCHANGED <<case, outcome, worker>> PROVE Recorded'
    BY <1>1, <1>9 DEF case
<1>10. ASSUME NEW a \in Analysts, (\E c \in Candidates : Open(a, c)) \/ LookForJob(a) \/ Refuse(a)
       PROVE  Recorded'
    BY <1>9, <1>10 DEF Open, LookForJob, Refuse, queue
<1>11. ASSUME NEW a \in Analysts, Resolve(a) PROVE Recorded'
    <2>1. /\ outcome'["discovery"] = outcome["discovery"]
          /\ \A b \in Analysts : outcome[b] # "absent" => target'[b] = target[b]
        <3>1. CASE Queue!Submit(a) /\ target' = [target EXCEPT ![a] = analyst[a].pick]
            BY <1>0, <3>1, ConstantsAssumption DEF Queue!Submit, TypeOK
        <3>2. CASE UNCHANGED <<queue, target>>
            BY <3>2 DEF queue
        <3> QED
            BY <1>11, <3>1, <3>2 DEF Resolve
    <2> QED
        BY <1>0, <1>11, <2>1 DEF Resolve, Recorded
<1>12. ASSUME Report \/ UNCHANGED vars PROVE Recorded'
    BY <1>12 DEF Report, vars, case, queue, Recorded
<1> QED
    BY <1>2, <1>3, <1>4, <1>5, <1>6, <1>7, <1>8, <1>10, <1>11, <1>12 DEF Next, Work, Request

\* The effects of discovery and of the enrichment of an entity are committed
\* at most once, however often their jobs are tried or workers die.
THEOREM EffectsApplyOnce ==
    ASSUME OneEnrichment
    PROVE  Spec => []StepsAppliedOnce
<1>1. Exclusive
    BY DEF OneEnrichment, Exclusive
<1>2. Spec => []CaseInv
    BY <1>1, CaseInvariant
<1>3. Recorded => StepsAppliedOnce
    BY DEF Recorded, StepsAppliedOnce, Steps
<1>4. Spec => []Recorded
    BY <1>2, InitRecorded, StepRecorded, PTL DEF Spec
<1> QED
    BY <1>3, <1>4, PTL

-----------------------------------------------------------------------------
(* One resolve request at a time                                           *)

\* Requests to resolve the entity of one case do not overlap.
SoleAnalyst == \A a, b \in Analysts : a = b

\* At most one entity is chosen, and who is choosing still may; the one
\* enrichment job is there once it is chosen, and the state of the case is
\* where that job is.
Sole ==
    /\ chosen \subseteq {inv.counterparty}
    /\ \A a \in Analysts :
          /\ analyst[a].at # "away" => inv.identity # "CONFIRMED"
          /\ analyst[a].at = "ready" => analyst[a].add
          /\ outcome[a] = "open" => inv.state = "PARTIAL_RESULTS"
          /\ outcome[a] = "failed" => inv.state \in {"PARTIAL_RESULTS", "FAILED"}
          /\ outcome[a] # "done" => enriched = {}
    /\ \A w \in Workers : ~worker[w].skip

\* Nothing was chosen before a request resolves the case: it is the first, and
\* adds the enrichment job.
LEMMA ResolvesFirst ==
    ASSUME SoleAnalyst, CaseInv, Sole, NEW a \in Analysts, Resolve(a)
    PROVE  /\ inv.state = "PARTIAL_RESULTS" /\ inv.identity = "AMBIGUOUS"
           /\ chosen = {} /\ enriched = {}
           /\ inv'.state = "PARTIAL_RESULTS" /\ inv'.identity = "CONFIRMED"
           /\ inv'.counterparty = analyst[a].pick
           /\ inv'.intake = inv.intake
           /\ outcome[a] = "absent"
           /\ outcome' = [outcome EXCEPT ![a] = "open"]
           /\ target' = [target EXCEPT ![a] = analyst[a].pick]
<1>1. inv.identity # "CONFIRMED" /\ analyst[a].add
    BY DEF Sole, Resolve
<1>2. inv.counterparty = None
    BY <1>1 DEF CaseInv, IdentityGrounded
<1>3. chosen = {} /\ enriched = {}
    BY <1>2, AtRest DEF Sole, CaseInv, TypeOK
<1>4. analyst[a].pick \in found
    BY DEF CaseInv, Referenced, Resolve
<1>5. inv.identity = "AMBIGUOUS" /\ inv.state = "PARTIAL_RESULTS"
    BY <1>1, <1>4 DEF CaseInv, Choosing
<1>6. /\ inv'.state = inv.state /\ inv'.identity = "CONFIRMED"
      /\ inv'.counterparty = analyst[a].pick
    BY ResolveCase
<1>7. inv'.intake = inv.intake
    BY ResolveWrites DEF CaseInv
<1>8. Queue!Submit(a) /\ target' = [target EXCEPT ![a] = analyst[a].pick]
    BY <1>1 DEF Resolve
<1> QED
    BY <1>3, <1>5, <1>6, <1>7, <1>8 DEF Queue!Submit

LEMMA InitSole == Init => Sole
<1> SUFFICES ASSUME Init PROVE Sole
    OBVIOUS
<1>1. \A a \in Analysts : analyst[a].at = "away" /\ outcome[a] = "absent"
    BY AtRest DEF Init, Queue!Init, Jobs
<1>2. \A w \in Workers : ~worker[w].skip
    BY AtRest DEF Init
<1> QED
    BY <1>1, <1>2 DEF Init, Sole

LEMMA StepSole ==
    ASSUME SoleAnalyst, CaseInv, Sole, [Next]_vars
    PROVE  Sole'
<1>0. /\ "discovery" \in Jobs /\ Analysts \subseteq Jobs /\ "discovery" \notin Analysts
      /\ \A v \in Workers : worker[v].at # "idle" => worker[v].job \in Jobs
      /\ outcome \in [Jobs -> {"absent", "open", "done", "failed"}]
      /\ TypeOK /\ enriched \subseteq chosen /\ chosen \subseteq found
    BY ConstantsAssumption DEF CaseInv, TypeOK, Jobs
<1>1. ASSUME Create PROVE Sole'
    <2>1. /\ inv'.identity = inv.identity /\ inv'.counterparty = inv.counterparty
          /\ inv'.state = inv.state
          /\ UNCHANGED <<chosen, enriched, worker, analyst>>
        BY <1>0, <1>1 DEF Create, TypeOK, Rows
    <2>2. \A a \in Analysts : outcome'[a] = outcome[a]
        BY <1>0, <1>1 DEF Create, Queue!Submit, queue
    <2> QED
        BY <2>1, <2>2 DEF Sole
<1>2. ASSUME NEW w \in Workers, NEW j \in Jobs, Start(w, j) PROVE Sole'
    <2>1. PICK e : e = [at |-> "run", job |-> j, row |-> inv, skip |-> AlreadyDone(j)]
        OBVIOUS
    <2>2. /\ \A v \in Workers : worker'[v] = IF v = w THEN e ELSE worker[v]
          /\ e.skip = (j \in Analysts /\ target[j] \in enriched)
          /\ outcome[j] = "open"
          /\ UNCHANGED <<case, analyst, outcome>>
        BY <1>0, <1>2, <2>1 DEF Start, Queue!Try, TypeOK, AlreadyDone
    <2>3. ~e.skip
        BY <2>2 DEF Sole
    <2> QED
        BY <2>2, <2>3 DEF Sole, case
<1>3. ASSUME NEW w \in Workers, Discover(w) PROVE Sole'
    <2>1. PICK new, flushed, failed : Conclusion(w, new, flushed, failed)
        BY <1>0, <1>3, DiscoverConcludes
    <2>2. outcome["discovery"] = "open" /\ found = {} /\ inv'.counterparty = None
        BY <2>1, DiscoverWrites
    <2>3. \A a \in Analysts : analyst[a].at = "away" /\ outcome[a] = "absent"
        BY <2>2, DiscoveryFirst
    <2>4. /\ outcome' = [outcome EXCEPT !["discovery"] = "done"]
          /\ worker' = [worker EXCEPT ![w] = Idle]
          /\ UNCHANGED <<chosen, enriched, analyst>>
        BY <2>1 DEF Conclusion, Discovered, Succeeds
    <2>5. /\ \A a \in Analysts : outcome'[a] = "absent"
          /\ \A v \in Workers : worker'[v] = IF v = w THEN Idle ELSE worker[v]
        BY <1>0, <2>3, <2>4 DEF TypeOK
    <2>6. chosen = {} /\ enriched = {}
        BY <1>0, <2>2
    <2> QED
        BY <2>3, <2>4, <2>5, <2>6, AtRest DEF Sole
<1>4. ASSUME NEW w \in Workers, NEW failed \in SUBSET MayFail, Enrich(w, failed) PROVE Sole'
    <2>1. PICK j : j = worker[w].job
        OBVIOUS
    <2>2. /\ j \in Analysts
          /\ outcome' = [outcome EXCEPT ![j] = "done"]
          /\ worker' = [worker EXCEPT ![w] = Idle]
          /\ UNCHANGED <<chosen, analyst>>
        BY <1>4, <2>1 DEF Enrich, Succeeds
    <2>3. /\ inv'.identity = inv.identity /\ inv'.counterparty = inv.counterparty
        BY <1>0, <1>4, EnrichWrites
    <2>4. /\ \A a \in Analysts : outcome'[a] = "done"
          /\ \A v \in Workers : worker'[v] = IF v = w THEN Idle ELSE worker[v]
        BY <1>0, <2>2 DEF TypeOK, SoleAnalyst
    <2> QED
        BY <2>2, <2>3, <2>4, AtRest DEF Sole
<1>5. ASSUME NEW w \in Workers, EnrichAgain(w) PROVE Sole'
    BY <1>5 DEF EnrichAgain, Sole
<1>6. ASSUME NEW w \in Workers, Fail(w) PROVE Sole'
    <2>1. PICK j : j = worker[w].job
        OBVIOUS
    <2>2. PICK e : e = IF LastTry(j) THEN [Idle EXCEPT !.at = "mark", !.job = j] ELSE Idle
        OBVIOUS
    <2>3. /\ j \in Jobs /\ outcome[j] = "open"
          /\ outcome' = [outcome EXCEPT ![j] = IF LastTry(j) THEN "failed" ELSE "open"]
          /\ worker' = [worker EXCEPT ![w] = e]
          /\ UNCHANGED <<case, analyst>>
        BY <1>0, <1>6, <2>1, <2>2 DEF Fail, CaseInv, Executing, Loaded
    <2>4. /\ \A a \in Analysts :
                outcome'[a] = outcome[a] \/ (outcome[a] = "open" /\ outcome'[a] = "failed")
          /\ \A v \in Workers : worker'[v] = IF v = w THEN e ELSE worker[v]
          /\ ~e.skip
        BY <1>0, <2>2, <2>3, AtRest DEF TypeOK, Idle
    <2> QED
        BY <2>3, <2>4 DEF Sole, case
<1>7. ASSUME NEW w \in Workers, MarkFailed(w) PROVE Sole'
    <2>1. PICK j : j = worker[w].job
        OBVIOUS
    <2>2. /\ j \in Jobs /\ outcome[j] = "failed"
          /\ inv'.identity = inv.identity /\ inv'.counterparty = inv.counterparty
          /\ inv'.state = "FAILED"
          /\ worker' = [worker EXCEPT ![w] = Idle]
          /\ UNCHANGED <<chosen, enriched, outcome, analyst>>
        BY <1>0, <1>7, <2>1 DEF MarkFailed, queue, CaseInv, Executing, TypeOK, Rows
    <2>3. \A a \in Analysts : outcome[a] # "open"
        <3>1. CASE j = "discovery"
            BY <2>2, <3>1, ConstantsAssumption DEF CaseInv, Searching, Choosing
        <3>2. CASE j \in Analysts
            BY <2>2, <3>2 DEF SoleAnalyst
        <3> QED
            BY <2>2, <3>1, <3>2 DEF Jobs
    <2>4. \A v \in Workers : worker'[v] = IF v = w THEN Idle ELSE worker[v]
        BY <1>0, <2>2 DEF TypeOK
    <2> QED
        BY <2>2, <2>3, <2>4, AtRest DEF Sole
<1>8. ASSUME NEW w \in Workers, Crash(w) PROVE Sole'
    <2>1. \A v \in Workers : worker'[v] = IF v = w THEN Idle ELSE worker[v]
        BY <1>0, <1>8 DEF Crash, TypeOK
    <2> QED
        BY <1>8, <2>1, AtRest DEF Crash, Sole, case, queue
<1>9. ASSUME NEW a \in Analysts, NEW c \in Candidates, Open(a, c) PROVE Sole'
    <2>1. /\ inv.identity # "CONFIRMED"
          /\ \A b \in Analysts :
                analyst'[b] = IF b = a
                              THEN [at |-> "opened", pick |-> c, row |-> inv, add |-> FALSE]
                              ELSE analyst[b]
          /\ UNCHANGED <<case, outcome, worker>>
        BY <1>0, <1>9 DEF Open, Resolvable, TypeOK, queue
    <2> QED
        BY <2>1 DEF Sole, case
<1>10. ASSUME NEW a \in Analysts, LookForJob(a) PROVE Sole'
    <2>1. PICK r : r = [analyst[a] EXCEPT !.at = "ready", !.add = NoEnrichmentJob]
        OBVIOUS
    <2>2. /\ analyst[a] \in Resolutions /\ analyst[a].at = "opened"
          /\ analyst' = [analyst EXCEPT ![a] = r]
          /\ UNCHANGED <<case, outcome, worker>>
        BY <1>0, <1>10, <2>1 DEF LookForJob, TypeOK, Resolutions, queue
    <2>3. inv.identity # "CONFIRMED"
        BY <2>2 DEF Sole
    <2>4. NoEnrichmentJob
        BY <2>3 DEF NoEnrichmentJob, CaseInv, Choosing
    <2>5. r.at = "ready" /\ r.add
        BY <2>1, <2>2, <2>4 DEF Resolutions
    <2>6. \A b \in Analysts : analyst'[b] = IF b = a THEN r ELSE analyst[b]
        BY <1>0, <2>2 DEF TypeOK
    <2> QED
        BY <2>2, <2>3, <2>5, <2>6 DEF Sole, case
<1>11. ASSUME NEW a \in Analysts, Resolve(a) PROVE Sole'
    <2>1. /\ chosen = {} /\ enriched = {}
          /\ inv'.state = "PARTIAL_RESULTS" /\ inv'.counterparty = analyst[a].pick
          /\ outcome' = [outcome EXCEPT ![a] = "open"]
        BY <1>11, ResolvesFirst
    <2>2. /\ chosen' = chosen \cup {analyst[a].pick}
          /\ analyst' = [analyst EXCEPT ![a] = Away]
          /\ UNCHANGED <<enriched, worker>>
        BY <1>11 DEF Resolve
    <2>3. \A b \in Analysts : analyst'[b] = Away /\ outcome'[b] = "open"
        BY <1>0, <2>1, <2>2 DEF SoleAnalyst, TypeOK
    <2> QED
        BY <2>1, <2>2, <2>3, AtRest DEF Sole
<1>12. ASSUME NEW a \in Analysts, Refuse(a) PROVE Sole'
    <2>1. \A b \in Analysts : analyst'[b] = IF b = a THEN Away ELSE analyst[b]
        BY <1>0, <1>12 DEF Refuse, TypeOK
    <2> QED
        BY <1>12, <2>1, AtRest DEF Refuse, Sole, case, queue
<1>13. ASSUME Report \/ UNCHANGED vars PROVE Sole'
    BY <1>13 DEF Report, vars, case, queue, Sole
<1> QED
    BY <1>1, <1>2, <1>3, <1>4, <1>5, <1>6, <1>7, <1>8, <1>9, <1>10, <1>11, <1>12, <1>13
       DEF Next, Work, Request

LEMMA SoleInvariant ==
    ASSUME Exclusive, SoleAnalyst
    PROVE  Spec => [](CaseInv /\ Sole)
<1>1. Init => CaseInv /\ Sole
    BY InitCase, InitSole
<1>2. CaseInv /\ Sole /\ [Next]_vars => CaseInv' /\ Sole'
    BY StepCase, StepSole
<1> QED
    BY <1>1, <1>2, PTL DEF Spec

\* Nothing was enriched or reported for another entity than the one the case
\* names now.
THEOREM ReportsStandFor ==
    ASSUME Exclusive, SoleAnalyst
    PROVE  Spec => []ReportsStand
<1>1. Spec => [](CaseInv /\ Sole)
    BY SoleInvariant
<1>2. CaseInv /\ Sole => ReportsStand
    BY DEF CaseInv, TypeOK, Sole, ReportsStand
<1> QED
    BY <1>1, <1>2, PTL

-----------------------------------------------------------------------------
(* The case as CaseFile has it                                             *)

\* Phase, of any row.
PhaseOf(row) ==
    CASE row.intake = "NONE" -> "absent"
      [] row.intake = "CLARIFICATION_REQUIRED" -> "blocked"
      [] row.state = "FAILED" -> "failed"
      [] row.state = "SOURCE_UNAVAILABLE" -> "unavailable"
      [] row.state = "COMPLETED" ->
            IF row.identity = "CONFIRMED" THEN "completed" ELSE "unverified"
      [] row.state = "PARTIAL_RESULTS" ->
            IF row.identity = "CONFIRMED" THEN "enriching" ELSE "choosing"
      [] OTHER -> "searching"

\* The rows of a reachable case are in one phase each.
LEMMA Phases ==
    ASSUME NEW row, row.intake # "SUFFICIENT_FOR_DISCOVERY" => row.state = "NOT_STARTED"
    PROVE  /\ row.intake = "NONE" => PhaseOf(row) = "absent"
           /\ row.intake = "CLARIFICATION_REQUIRED" => PhaseOf(row) = "blocked"
           /\ row.intake = "SUFFICIENT_FOR_DISCOVERY" =>
                /\ row.state = "NOT_STARTED" => PhaseOf(row) = "searching"
                /\ row.state = "FAILED" => PhaseOf(row) = "failed"
                /\ row.state = "SOURCE_UNAVAILABLE" => PhaseOf(row) = "unavailable"
                /\ row.state = "COMPLETED" /\ row.identity = "CONFIRMED" =>
                        PhaseOf(row) = "completed"
                /\ row.state = "COMPLETED" /\ row.identity # "CONFIRMED" =>
                        PhaseOf(row) = "unverified"
                /\ row.state = "PARTIAL_RESULTS" /\ row.identity = "CONFIRMED" =>
                        PhaseOf(row) = "enriching"
                /\ row.state = "PARTIAL_RESULTS" /\ row.identity # "CONFIRMED" =>
                        PhaseOf(row) = "choosing"
BY DEF PhaseOf

\* What a step makes of the row: nothing, the opening of the case, the
\* conclusion of discovery, the choice of an entity, the end of its
\* enrichment, or the failure of either.
Shows ==
    \/ UNCHANGED inv
    \/ /\ inv.intake = "NONE" /\ inv.state = "NOT_STARTED"
       /\ inv'.intake # "NONE" /\ inv' \in Rows
       /\ inv'.state = "NOT_STARTED"
       /\ inv'.counterparty = inv.counterparty /\ inv'.identity = inv.identity
    \/ /\ inv.intake = "SUFFICIENT_FOR_DISCOVERY" /\ inv'.intake = inv.intake
       /\ \/ /\ inv.state = "NOT_STARTED" /\ inv.identity # "CONFIRMED"
             /\ inv'.state \in {"PARTIAL_RESULTS", "COMPLETED", "SOURCE_UNAVAILABLE"}
             /\ inv'.identity # "CONFIRMED"
             /\ inv'.counterparty = inv.counterparty
          \/ /\ inv.state = "PARTIAL_RESULTS" /\ inv.identity # "CONFIRMED"
             /\ inv'.state = "PARTIAL_RESULTS" /\ inv'.identity = "CONFIRMED"
             /\ inv'.counterparty \in Candidates
          \/ /\ inv.state = "PARTIAL_RESULTS" /\ inv.identity = "CONFIRMED"
             /\ inv'.state = "COMPLETED" /\ inv'.identity = "CONFIRMED"
             /\ inv'.counterparty = inv.counterparty
          \/ /\ \/ inv.state = "NOT_STARTED"
                \/ inv.state = "PARTIAL_RESULTS" /\ inv.identity = "CONFIRMED"
                \/ inv.state = "FAILED"
             /\ inv'.state = "FAILED" /\ inv'.identity = inv.identity
             /\ inv'.counterparty = inv.counterparty

LEMMA StepShows ==
    ASSUME SoleAnalyst, CaseInv, Sole, [Next]_vars
    PROVE  Shows
<1>0. /\ TypeOK /\ inv \in Rows
      /\ inv.intake = "SUFFICIENT_FOR_DISCOVERY" <=> outcome["discovery"] # "absent"
      /\ \A v \in Workers : worker[v].at # "idle" => worker[v].job \in Jobs
    BY DEF CaseInv, TypeOK, Searching
<1>1. ASSUME NEW a \in Analysts, outcome[a] # "absent"
      PROVE  inv.identity = "CONFIRMED" /\ inv.intake = "SUFFICIENT_FOR_DISCOVERY"
    BY <1>0, <1>1, ConstantsAssumption DEF CaseInv, Choosing, Searching
<1>2. ASSUME Create PROVE Shows
    <2>1. inv.intake = "NONE" /\ outcome["discovery"] = "absent"
        BY <1>0, <1>2 DEF Create
    <2>2. inv.state = "NOT_STARTED"
        BY <2>1 DEF CaseInv, Searching
    <2> QED
        BY <1>0, <1>2, <2>1, <2>2 DEF Create, Rows, Shows
<1>3. ASSUME NEW w \in Workers, Discover(w) PROVE Shows
    <2>1. PICK new, flushed, failed : Conclusion(w, new, flushed, failed)
        BY <1>0, <1>3, DiscoverConcludes
    <2>2. /\ inv'.intake = inv.intake /\ inv'.identity = new.identity
          /\ inv'.state = new.state /\ inv'.counterparty = None
          /\ outcome["discovery"] = "open"
          /\ inv.identity = None /\ inv.counterparty = None
        BY <2>1, DiscoverWrites
    <2>3. inv.state = "NOT_STARTED"
        BY <2>2 DEF CaseInv, Searching
    <2>4. /\ new.identity # "CONFIRMED"
          /\ new.state \in {"PARTIAL_RESULTS", "COMPLETED", "SOURCE_UNAVAILABLE"}
        BY <2>1, ConstantsAssumption DEF Conclusion
    <2> QED
        BY <1>0, <2>2, <2>3, <2>4, ConstantsAssumption DEF Shows
<1>4. ASSUME NEW w \in Workers, NEW failed \in SUBSET MayFail, Enrich(w, failed) PROVE Shows
    <2>1. PICK j : j = worker[w].job
        OBVIOUS
    <2>2. j \in Analysts /\ outcome[j] = "open"
        BY <1>4, <2>1 DEF Enrich, CaseInv, Executing, Loaded
    <2>3. inv.state = "PARTIAL_RESULTS"
        BY <2>2 DEF Sole
    <2>4. /\ inv'.intake = inv.intake /\ inv'.identity = inv.identity
          /\ inv'.counterparty = inv.counterparty /\ inv'.state = "COMPLETED"
        BY <1>0, <1>4, EnrichWrites
    <2> QED
        BY <1>1, <2>2, <2>3, <2>4 DEF Shows
<1>5. ASSUME NEW w \in Workers, MarkFailed(w) PROVE Shows
    <2>1. PICK j : j = worker[w].job
        OBVIOUS
    <2>2. /\ j \in Jobs /\ outcome[j] = "failed"
          /\ inv'.intake = inv.intake /\ inv'.identity = inv.identity
          /\ inv'.counterparty = inv.counterparty /\ inv'.state = "FAILED"
        BY <1>0, <1>5, <2>1 DEF MarkFailed, CaseInv, Executing, Rows
    <2>3. CASE j = "discovery"
        <3>1. inv.state \in {"NOT_STARTED", "FAILED"}
            BY <2>2, <2>3 DEF CaseInv, Searching
        <3> QED
            BY <1>0, <2>2, <2>3, <3>1 DEF Shows
    <2>4. CASE j \in Analysts
        <3>1. inv.state \in {"PARTIAL_RESULTS", "FAILED"}
            BY <2>2, <2>4 DEF Sole
        <3> QED
            BY <1>1, <2>2, <2>4, <3>1 DEF Shows
    <2> QED
        BY <2>2, <2>3, <2>4 DEF Jobs
<1>6. ASSUME NEW a \in Analysts, Resolve(a) PROVE Shows
    <2>1. /\ inv.state = "PARTIAL_RESULTS" /\ inv.identity = "AMBIGUOUS"
          /\ inv'.state = "PARTIAL_RESULTS" /\ inv'.identity = "CONFIRMED"
          /\ inv'.counterparty = analyst[a].pick /\ inv'.intake = inv.intake
        BY <1>6, ResolvesFirst
    <2>2. inv.intake = "SUFFICIENT_FOR_DISCOVERY" /\ analyst[a].pick \in Candidates
        BY <1>0, <1>6, <2>1, ResolveWrites, ConstantsAssumption DEF CaseInv, Searching
    <2> QED
        BY <2>1, <2>2 DEF Shows
<1>7. ASSUME NEW w \in Workers,
             (\E j \in Jobs : Start(w, j)) \/ EnrichAgain(w) \/ Fail(w) \/ Crash(w)
      PROVE  Shows
    BY <1>7 DEF Start, EnrichAgain, Fail, Crash, case, Shows
<1>8. ASSUME NEW a \in Analysts, (\E c \in Candidates : Open(a, c)) \/ LookForJob(a) \/ Refuse(a)
      PROVE  Shows
    BY <1>8 DEF Open, LookForJob, Refuse, case, Shows
<1>9. ASSUME Report \/ UNCHANGED vars PROVE Shows
    BY <1>9 DEF Report, vars, case, Shows
<1> QED
    BY <1>2, <1>3, <1>4, <1>5, <1>6, <1>7, <1>8, <1>9 DEF Next, Work, Request

\* A confirmed identity is never taken back or exchanged, whatever a run or a
\* request had loaded before it was confirmed.
THEOREM IdentityStandsFor ==
    ASSUME Exclusive, SoleAnalyst
    PROVE  Spec => IdentityStands
<1>1. Spec => [](CaseInv /\ Sole)
    BY SoleInvariant
<1>2. ASSUME CaseInv, Sole, [Next]_vars PROVE [IdentityKept]_vars
    <2>1. Shows
        BY <1>2, StepShows
    <2>2. inv.intake = "NONE" => inv.identity # "CONFIRMED"
        BY <1>2, ConstantsAssumption DEF CaseInv, Searching
    <2> QED
        BY <2>1, <2>2 DEF Shows, IdentityKept
<1> QED
    BY <1>1, <1>2, PTL DEF Spec, IdentityStands

\* A step maps to a step of CaseFile or does not show in the file.
LEMMA StepFile ==
    ASSUME SoleAnalyst, CaseInv, Sole, CaseInv', [Next]_vars
    PROVE  [File!Next]_(File!vars)
<1>1. Shows
    BY StepShows
<1>2. PICK r : r = inv
    OBVIOUS
<1>3. PICK s : s = inv'
    OBVIOUS
<1>4. Phase = PhaseOf(r) /\ Phase' = PhaseOf(s)
    BY <1>2, <1>3 DEF Phase, PhaseOf
<1>5. /\ r \in Rows /\ (r.intake # "SUFFICIENT_FOR_DISCOVERY" => r.state = "NOT_STARTED")
      /\ s \in Rows /\ (s.intake # "SUFFICIENT_FOR_DISCOVERY" => s.state = "NOT_STARTED")
    BY <1>2, <1>3 DEF CaseInv, TypeOK, Searching
<1>6. CASE UNCHANGED inv
    BY <1>2, <1>3, <1>4, <1>6 DEF File!vars
<1>7. CASE /\ r.intake = "NONE" /\ s.intake # "NONE"
           /\ s.state = "NOT_STARTED" /\ s.counterparty = r.counterparty
    <2>1. PhaseOf(r) = "absent" /\ PhaseOf(s) \in {"blocked", "searching"}
        BY <1>5, <1>7, Phases DEF Rows
    <2> QED
        BY <1>2, <1>3, <1>4, <1>7, <2>1 DEF File!Next, File!Open
<1>8. CASE /\ r.intake = "SUFFICIENT_FOR_DISCOVERY" /\ s.intake = r.intake
           /\ r.state = "NOT_STARTED"
           /\ s.state \in {"PARTIAL_RESULTS", "COMPLETED", "SOURCE_UNAVAILABLE"}
           /\ s.identity # "CONFIRMED" /\ s.counterparty = r.counterparty
    <2>1. /\ PhaseOf(r) = "searching"
          /\ PhaseOf(s) \in {"choosing", "unverified", "unavailable"}
        BY <1>5, <1>8, Phases
    <2> QED
        BY <1>2, <1>3, <1>4, <1>8, <2>1 DEF File!Next, File!Search
<1>9. CASE /\ r.intake = "SUFFICIENT_FOR_DISCOVERY" /\ s.intake = r.intake
           /\ r.state = "PARTIAL_RESULTS" /\ r.identity # "CONFIRMED"
           /\ s.state = "PARTIAL_RESULTS" /\ s.identity = "CONFIRMED"
           /\ s.counterparty \in Candidates
    <2>1. PhaseOf(r) = "choosing" /\ PhaseOf(s) = "enriching"
        BY <1>5, <1>9, Phases
    <2> QED
        BY <1>2, <1>3, <1>4, <1>9, <2>1 DEF File!Next, File!Choose
<1>10. CASE /\ r.intake = "SUFFICIENT_FOR_DISCOVERY" /\ s.intake = r.intake
            /\ r.state = "PARTIAL_RESULTS" /\ r.identity = "CONFIRMED"
            /\ s.state \in {"COMPLETED", "FAILED"} /\ s.identity = "CONFIRMED"
            /\ s.counterparty = r.counterparty
    <2>1. PhaseOf(r) = "enriching" /\ PhaseOf(s) \in {"completed", "failed"}
        BY <1>5, <1>10, Phases
    <2> QED
        BY <1>2, <1>3, <1>4, <1>10, <2>1 DEF File!Next, File!Enrich
<1>11. CASE /\ r.intake = "SUFFICIENT_FOR_DISCOVERY" /\ s.intake = r.intake
            /\ r.state = "NOT_STARTED" /\ s.state = "FAILED"
            /\ s.counterparty = r.counterparty
    <2>1. PhaseOf(r) = "searching" /\ PhaseOf(s) = "failed"
        BY <1>5, <1>11, Phases
    <2> QED
        BY <1>2, <1>3, <1>4, <1>11, <2>1 DEF File!Next, File!Search
<1>12. CASE /\ r.intake = "SUFFICIENT_FOR_DISCOVERY" /\ s.intake = r.intake
            /\ r.state = "FAILED" /\ s.state = "FAILED"
            /\ s.counterparty = r.counterparty
    <2>1. PhaseOf(r) = "failed" /\ PhaseOf(s) = "failed"
        BY <1>5, <1>12, Phases
    <2> QED
        BY <1>2, <1>3, <1>4, <1>12, <2>1 DEF File!vars
<1> QED
    BY <1>1, <1>2, <1>3, <1>6, <1>7, <1>8, <1>9, <1>10, <1>11, <1>12 DEF Shows

\* The services implement the file: it is opened, searched, decided once and
\* enriched once, and its entity never changes.
THEOREM ImplementsCaseFile ==
    ASSUME Exclusive, SoleAnalyst
    PROVE  Spec => File!Safety
<1>1. Init => File!Init
    <2> SUFFICES ASSUME Init PROVE File!Init
        OBVIOUS
    <2>1. inv.intake = "NONE" /\ inv.state = "NOT_STARTED" /\ inv.counterparty = None
        BY AtRest DEF Init
    <2>2. PICK r : r = inv
        OBVIOUS
    <2>3. Phase = PhaseOf(r)
        BY <2>2 DEF Phase, PhaseOf
    <2>4. PhaseOf(r) = "absent"
        BY <2>1, <2>2, Phases
    <2> QED
        BY <2>1, <2>3, <2>4 DEF File!Init
<1>2. Spec => [](CaseInv /\ Sole)
    BY SoleInvariant
<1>3. CaseInv /\ Sole /\ CaseInv' /\ [Next]_vars => [File!Next]_(File!vars)
    BY StepFile
<1> QED
    BY <1>1, <1>2, <1>3, PTL DEF Spec, File!Safety

-----------------------------------------------------------------------------
(* The enrichment that a resolution owes                                   *)

LEMMA StepWorkedOn ==
    ASSUME SoleAnalyst, MaxCrashes = 0, CaseInv, Sole, ResolutionWorkedOn, [Next]_vars
    PROVE  ResolutionWorkedOn'
<1> DEFINE Coming(a) == /\ target[a] = inv.counterparty
                        /\ \/ outcome[a] = "open"
                           \/ \E w \in Workers : worker[w].at = "mark" /\ worker[w].job = a
<1>0. /\ TypeOK /\ inv \in Rows
      /\ "discovery" \in Jobs /\ Analysts \subseteq Jobs /\ "discovery" \notin Analysts
      /\ \A v \in Workers : worker[v].at # "idle" => worker[v].job \in Jobs
      /\ outcome \in [Jobs -> {"absent", "open", "done", "failed"}]
    BY ConstantsAssumption DEF CaseInv, TypeOK, Jobs
<1>1. ASSUME UNCHANGED <<inv, target, outcome>>,
             \A v \in Workers : worker[v].at = "mark" => worker'[v] = worker[v]
      PROVE  ResolutionWorkedOn'
    BY <1>1 DEF ResolutionWorkedOn
<1>2. ASSUME ~(inv'.identity = "CONFIRMED" /\ inv'.state = "PARTIAL_RESULTS")
      PROVE  ResolutionWorkedOn'
    BY <1>2 DEF ResolutionWorkedOn
<1>3. ASSUME Create PROVE ResolutionWorkedOn'
    <2>1. inv.identity # "CONFIRMED"
        BY <1>0, <1>3, ConstantsAssumption DEF Create, CaseInv, Searching
    <2> QED
        BY <1>0, <1>2, <1>3, <2>1 DEF Create, Rows
<1>4. ASSUME NEW w \in Workers, NEW j \in Jobs, Start(w, j) PROVE ResolutionWorkedOn'
    BY <1>0, <1>1, <1>4 DEF Start, Queue!Try, case, TypeOK
<1>5. ASSUME NEW w \in Workers, Discover(w) PROVE ResolutionWorkedOn'
    <2>1. PICK new, flushed, failed : Conclusion(w, new, flushed, failed)
        BY <1>0, <1>5, DiscoverConcludes
    <2>2. inv'.identity = new.identity /\ new.identity # "CONFIRMED"
        BY <2>1, DiscoverWrites, ConstantsAssumption DEF Conclusion
    <2> QED
        BY <1>2, <2>2
<1>6. ASSUME NEW w \in Workers, NEW failed \in SUBSET MayFail, Enrich(w, failed)
      PROVE  ResolutionWorkedOn'
    BY <1>0, <1>2, <1>6, EnrichWrites
<1>7. ASSUME NEW w \in Workers, EnrichAgain(w) PROVE ResolutionWorkedOn'
    BY <1>7 DEF EnrichAgain, Sole
<1>8. ASSUME NEW w \in Workers, Fail(w) PROVE ResolutionWorkedOn'
    <2>1. PICK j : j = worker[w].job
        OBVIOUS
    <2>2. PICK e : e = IF LastTry(j) THEN [Idle EXCEPT !.at = "mark", !.job = j] ELSE Idle
        OBVIOUS
    <2>3. /\ j \in Jobs /\ worker[w].at = "run"
          /\ outcome' = [outcome EXCEPT ![j] = IF LastTry(j) THEN "failed" ELSE "open"]
          /\ worker' = [worker EXCEPT ![w] = e]
          /\ UNCHANGED case
        BY <1>0, <1>8, <2>1, <2>2 DEF Fail
    <2>4. /\ \A v \in Workers : worker'[v] = IF v = w THEN e ELSE worker[v]
          /\ \A k \in Jobs : k # j => outcome'[k] = outcome[k]
          /\ \/ outcome'[j] = "open"
             \/ worker'[w].at = "mark" /\ worker'[w].job = j
        <3>1. Idle \in Executions
            BY AtRest
        <3>2. CASE LastTry(j)
            BY <1>0, <2>2, <2>3, <3>1, <3>2 DEF TypeOK, Executions
        <3>3. CASE ~LastTry(j)
            BY <1>0, <2>2, <2>3, <3>3 DEF TypeOK
        <3> QED
            BY <3>2, <3>3
    <2>5. ASSUME inv.identity = "CONFIRMED", inv.state = "PARTIAL_RESULTS"
          PROVE  \E a \in Analysts : Coming(a)'
        <3>1. PICK a \in Analysts : Coming(a)
            BY <2>5 DEF ResolutionWorkedOn
        <3>2. CASE a = j
            BY <2>3, <2>4, <3>1, <3>2 DEF case
        <3>3. CASE a # j
            BY <1>0, <2>3, <2>4, <3>1, <3>3 DEF case
        <3> QED
            BY <3>2, <3>3
    <2> QED
        BY <2>3, <2>5 DEF ResolutionWorkedOn, case
<1>9. ASSUME NEW w \in Workers, MarkFailed(w) PROVE ResolutionWorkedOn'
    BY <1>0, <1>2, <1>9 DEF MarkFailed, Rows
<1>10. ASSUME NEW w \in Workers, Crash(w) PROVE ResolutionWorkedOn'
    BY <1>0, <1>10 DEF Crash, TypeOK
<1>11. ASSUME NEW a \in Analysts, Resolve(a) PROVE ResolutionWorkedOn'
    <2>1. /\ inv'.counterparty = analyst[a].pick
          /\ outcome' = [outcome EXCEPT ![a] = "open"]
          /\ target' = [target EXCEPT ![a] = analyst[a].pick]
        BY <1>11, ResolvesFirst
    <2>2. outcome'[a] = "open" /\ target'[a] = inv'.counterparty
        BY <1>0, <2>1 DEF TypeOK
    <2> QED
        BY <2>2 DEF ResolutionWorkedOn
<1>12. ASSUME NEW a \in Analysts, (\E c \in Candidates : Open(a, c)) \/ LookForJob(a) \/ Refuse(a)
       PROVE  ResolutionWorkedOn'
    BY <1>1, <1>12 DEF Open, LookForJob, Refuse, case, queue
<1>13. ASSUME Report \/ UNCHANGED vars PROVE ResolutionWorkedOn'
    BY <1>1, <1>13 DEF Report, vars, case, queue
<1> QED
    BY <1>3, <1>4, <1>5, <1>6, <1>7, <1>8, <1>9, <1>10, <1>11, <1>12, <1>13
       DEF Next, Work, Request

\* A case that shows PARTIAL_RESULTS after it was resolved has the enrichment
\* of its entity open, or its failure about to be marked: no resolution is
\* left without.  A worker that dies between the last failure of a job and its
\* marking breaks this, hence no crashes.
THEOREM ResolutionIsWorkedOn ==
    ASSUME Exclusive, SoleAnalyst, MaxCrashes = 0
    PROVE  Spec => []ResolutionWorkedOn
<1>1. Spec => [](CaseInv /\ Sole)
    BY SoleInvariant
<1>2. Init => ResolutionWorkedOn
    BY AtRest, ConstantsAssumption DEF Init, ResolutionWorkedOn
<1>3. CaseInv /\ Sole /\ ResolutionWorkedOn /\ [Next]_vars => ResolutionWorkedOn'
    BY StepWorkedOn
<1> QED
    BY <1>1, <1>2, <1>3, PTL DEF Spec

=============================================================================
