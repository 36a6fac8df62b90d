---------------------------- MODULE IntakeProofs ----------------------------
(***************************************************************************)
(* Theorems about Intake for every set of files, calls and candidates,     *)
(* files of any length, and every number of lost transactions.             *)
(***************************************************************************)
EXTENDS Intake, FiniteSetTheorems, TLAPS

-----------------------------------------------------------------------------
(* Types                                                                   *)

Ids == Requests \cup (Imports \X Nat)

CaseRows == [id : Ids, batch : Imports \cup {None}, row : Nat, label : Labels,
             clarify : Reasons \cup {None}, counterparty : Resolutions \cup {None},
             candidate : Candidates \cup {None}, people : {0, 1},
             jobs : {<<>>, <<"discovery">>}]

ImportCalls == [at : {"away", "rows", "done", "failed"}, file : Files \cup {None},
                next : Nat \ {0}, rows : SUBSET CaseRows, accepted : Nat, rejected : Nat,
                linked : Nat, duplicate : BOOLEAN, of : Imports \cup {None}]

ResolutionCalls == [at : Open \cup {"away", "refused", "failed", "lost", "done"},
                    case : Ids \cup {None}, candidate : Candidates \cup {None},
                    new : BOOLEAN, link : Resolutions \cup {None}]

FileRows == [company : Labels, contact : BOOLEAN, storable : BOOLEAN]

TInv ==
    /\ content \in [Files -> Contents]
    /\ batches \subseteq [id : Imports, file : Files, count : Nat]
    /\ cases \subseteq CaseRows /\ IsFiniteSet(cases)
    /\ counterparties \subseteq [id : Resolutions, key : {Key(e) : e \in Identified}]
    /\ import \in [Imports -> ImportCalls]
    /\ \A i \in Imports :
          /\ IsFiniteSet(import[i].rows)
          /\ import[i].at = "rows" => import[i].file \in Files /\ content[import[i].file] # None
    /\ resolution \in [Resolutions -> ResolutionCalls]
    /\ \A r \in Resolutions :
          /\ resolution[r].at \in Open => /\ resolution[r].candidate \in Candidates
                                          /\ \E c \in cases : c.id = resolution[r].case
          /\ resolution[r].at \in {"inserting", "writing"} => resolution[r].candidate \in Identified
          /\ resolution[r].at = "writing" => resolution[r].link \in Resolutions
    /\ raced \subseteq Files

LEMMA CreatedTyped ==
    ASSUME NEW id \in Ids, NEW batch \in Imports \cup {None}, NEW row \in Nat,
           NEW company \in Labels, NEW contact \in BOOLEAN
    PROVE  LET c == Created(id, batch, row, company, contact) IN
           c \in CaseRows /\ c.id = id /\ c.batch = batch /\ c.row = row /\ c.counterparty = None
<1>1. Assess(company) \in Reasons \cup {None}
    BY DEF Assess, Reasons
<1> QED
    BY <1>1 DEF Created, CaseRows

\* The rows of a file that can be parsed.
LEMMA RowTyped ==
    ASSUME NEW f \in Files, content \in [Files -> Contents], content[f] # None
    PROVE  /\ content[f] \in Seq(FileRows)
           /\ \A n \in 1..Len(content[f]) : content[f][n] \in FileRows
<1>1. content[f] \in Seq(FileRows)
    BY ConstantsAssumption DEF FileRows
<1> DEFINE rows == content[f]
<1>2. rows \in Seq(FileRows)
    BY <1>1
<1> HIDE DEF rows
<1>3. \A n \in 1..Len(rows) : rows[n] \in FileRows
    BY <1>2
<1> QED
    BY <1>1, <1>3 DEF rows

\* The case a resolution writes.
Resolved(r) == CHOOSE c \in cases : c.id = resolution[r].case
Linked(r) == [Resolved(r) EXCEPT !.counterparty = resolution[r].link,
                                 !.candidate = resolution[r].candidate]

LEMMA CommitWrites ==
    ASSUME TInv, NEW r \in Resolutions, CommitResolution(r)
    PROVE  /\ Resolved(r) \in cases /\ Resolved(r).id = resolution[r].case
           /\ cases' = (cases \ {Resolved(r)}) \cup {Linked(r)}
           /\ Linked(r) \in CaseRows
           /\ Linked(r).id = Resolved(r).id /\ Linked(r).batch = Resolved(r).batch
           /\ Linked(r).row = Resolved(r).row
           /\ Linked(r).counterparty = resolution[r].link
           /\ Linked(r).candidate = resolution[r].candidate
<1>1. resolution[r].at = "writing" /\ resolution[r].at \in Open
    BY DEF CommitResolution, Open
<1>2. \E c \in cases : c.id = resolution[r].case
    BY <1>1 DEF TInv
<1>3. Resolved(r) \in cases /\ Resolved(r).id = resolution[r].case
    BY <1>2 DEF Resolved
<1>4. resolution[r].link \in Resolutions \cup {None} /\ resolution[r].candidate \in Candidates \cup {None}
    BY DEF TInv, ResolutionCalls
<1>5. Resolved(r) \in CaseRows
    BY <1>3 DEF TInv
<1>6. cases' = (cases \ {Resolved(r)}) \cup {Linked(r)}
    BY DEF CommitResolution, Resolved, Linked
<1> QED
    BY <1>3, <1>4, <1>5, <1>6 DEF Linked, CaseRows

LEMMA InitTInv == Init => TInv
<1> SUFFICES ASSUME Init PROVE TInv
    OBVIOUS
<1>1. NoImport \in ImportCalls /\ NoImport.at = "away" /\ NoImport.rows = {}
    BY DEF NoImport, ImportCalls
<1>2. NoResolution \in ResolutionCalls /\ NoResolution.at = "away"
    BY DEF NoResolution, ResolutionCalls
<1>3. "away" \notin Open \cup {"inserting", "writing"}
    BY DEF Open
<1> QED
    BY <1>1, <1>2, <1>3, FS_EmptySet DEF Init, TInv

\* Of the type invariant, what an import changes.
ImportTyped(t) ==
    /\ t \in ImportCalls
    /\ IsFiniteSet(t.rows)
    /\ t.at = "rows" => t.file \in Files /\ content[t.file] # None

\* What an import does to its own state.
LEMMA BeginTyped ==
    ASSUME TInv, NEW i \in Imports, NEW f \in Files, Begin(i, f)
    PROVE  \E t : /\ ImportTyped(t) /\ import' = [import EXCEPT ![i] = t]
                  /\ t.rows \in {import[i].rows, {}}
<1>n. NoImport \in ImportCalls /\ NoImport.rows = {} /\ NoImport.at = "away"
    BY DEF NoImport, ImportCalls
<1>1. CASE FoundImported(i, f)
    <2>1. PICK b \in batches :
              import' = [import EXCEPT ![i] =
                  [NoImport EXCEPT !.at = "done", !.file = f,
                      !.linked = Cardinality(Of(b.id)), !.duplicate = TRUE, !.of = b.id]]
        BY <1>1 DEF FoundImported
    <2>2. b.id \in Imports /\ Cardinality(Of(b.id)) \in Nat
        <3>1. Of(b.id) \in SUBSET cases
            BY DEF Of
        <3>2. IsFiniteSet(cases)
            BY DEF TInv
        <3>3. IsFiniteSet(Of(b.id))
            BY <3>1, <3>2, FS_Subset
        <3> QED
            BY <3>3, FS_CardinalityType DEF TInv
    <2> DEFINE linked == Cardinality(Of(b.id))
               t == [NoImport EXCEPT !.at = "done", !.file = f, !.linked = linked,
                                     !.duplicate = TRUE, !.of = b.id]
    <2> HIDE DEF linked
    <2>3. t \in ImportCalls /\ t.rows = {} /\ t.at = "done"
        BY <1>n, <2>2 DEF ImportCalls, linked
    <2>4. import' = [import EXCEPT ![i] = t]
        BY <2>1 DEF linked
    <2> HIDE DEF t
    <2> QED
        BY <2>3, <2>4, FS_EmptySet DEF ImportTyped
<1>2. CASE Refused(i, f)
    <2> DEFINE t == [import[i] EXCEPT !.at = "failed"]
    <2>1. import' = [import EXCEPT ![i] = t]
        BY <1>2 DEF Refused, TInv
    <2>2. t \in ImportCalls /\ t.rows = import[i].rows /\ t.at = "failed"
        BY DEF TInv, ImportCalls
    <2> HIDE DEF t
    <2> QED
        BY <2>1, <2>2 DEF ImportTyped, TInv
<1>3. CASE NewBatch(i, f)
    <2> DEFINE t == [NoImport EXCEPT !.at = "rows", !.file = f, !.of = i]
    <2>1. import' = [import EXCEPT ![i] = t] /\ content[f] # None
        BY <1>3 DEF NewBatch
    <2>2. t \in ImportCalls /\ t.rows = {} /\ t.file = f
        BY <1>n DEF ImportCalls
    <2> HIDE DEF t
    <2> QED
        BY <2>1, <2>2, FS_EmptySet DEF ImportTyped
<1> QED
    BY <1>1, <1>2, <1>3 DEF Begin

\* One row taken: the facts its count rests on.
LEMMA RowTaken ==
    ASSUME TInv, NEW i \in Imports, ImportRow(i)
    PROVE  LET t == import[i]
               u == import'[i]
               row == content[t.file][t.next]
               c == Created(<<i, t.next>>, i, t.next, row.company, row.contact)
           IN
           /\ t.at = "rows" /\ t.next \in 1..Len(content[t.file]) /\ row \in FileRows
           /\ c \in CaseRows /\ c.id = <<i, t.next>> /\ c.batch = i /\ c.row = t.next
           /\ c.counterparty = None
           /\ import' = [import EXCEPT ![i] = u]
           /\ u \in ImportCalls
           /\ u.at = "rows" /\ u.file = t.file /\ u.next = t.next + 1
           /\ u.duplicate = t.duplicate /\ u.of = t.of
           /\ Accepts(row) => /\ u.rows = t.rows \cup {c}
                              /\ u.accepted = t.accepted + 1 /\ u.rejected = t.rejected
           /\ ~Accepts(row) => /\ u.rows = t.rows
                               /\ u.accepted = t.accepted /\ u.rejected = t.rejected + 1
<1> DEFINE t == import[i]
           rows == content[t.file]
           row == rows[t.next]
           c == Created(<<i, t.next>>, i, t.next, row.company, row.contact)
<1>1. /\ t.at = "rows" /\ t.next <= Len(rows)
      /\ import' = [import EXCEPT ![i] = Take(t, i, t.next, row)]
    BY DEF ImportRow
<1>2. t \in ImportCalls /\ t.file \in Files /\ rows # None /\ t.next \in Nat \ {0}
    BY <1>1 DEF TInv, ImportCalls
<1>3. rows \in Seq(FileRows) /\ \A n \in 1..Len(rows) : rows[n] \in FileRows
    BY <1>2, RowTyped DEF TInv
<1>4. Len(rows) \in Nat
    BY <1>3
<1>5. t.next \in 1..Len(rows)
    BY <1>1, <1>2, <1>4
<1>6. row \in FileRows
    BY <1>3, <1>5
<1> HIDE DEF t, rows, row
<1>7. /\ c \in CaseRows /\ c.id = <<i, t.next>> /\ c.batch = i /\ c.row = t.next
      /\ c.counterparty = None
    <2>1. <<i, t.next>> \in Ids /\ t.next \in Nat /\ i \in Imports \cup {None}
        BY <1>2 DEF Ids
    <2>2. row.company \in Labels /\ row.contact \in BOOLEAN
        BY <1>6 DEF FileRows
    <2> QED
        BY <2>1, <2>2, CreatedTyped
<1> HIDE DEF c
<1>a. t.next + 1 \in Nat \ {0} /\ t.accepted + 1 \in Nat /\ t.rejected + 1 \in Nat
    BY <1>2 DEF ImportCalls
<1> DEFINE u == Take(t, i, t.next, row)
<1>8. /\ u \in ImportCalls
      /\ u.at = "rows" /\ u.file = t.file /\ u.next = t.next + 1
      /\ u.duplicate = t.duplicate /\ u.of = t.of
      /\ Accepts(row) => /\ u.rows = t.rows \cup {c}
                         /\ u.accepted = t.accepted + 1 /\ u.rejected = t.rejected
      /\ ~Accepts(row) => /\ u.rows = t.rows
                          /\ u.accepted = t.accepted /\ u.rejected = t.rejected + 1
    <2>1. CASE Accepts(row)
        <3>1. u = [t EXCEPT !.next = t.next + 1, !.accepted = @ + 1, !.rows = @ \cup {c}]
            BY <2>1 DEF Take, c
        <3> HIDE DEF u
        <3> QED
            BY <1>1, <1>2, <1>a, <1>7, <2>1, <3>1 DEF ImportCalls
    <2>2. CASE ~Accepts(row)
        <3>1. u = [t EXCEPT !.next = t.next + 1, !.rejected = @ + 1]
            BY <2>2 DEF Take
        <3> HIDE DEF u
        <3> QED
            BY <1>1, <1>2, <1>a, <1>7, <2>2, <3>1 DEF ImportCalls
    <2> QED
        BY <2>1, <2>2
<1>9. import' = [import EXCEPT ![i] = u] /\ import'[i] = u
    BY <1>1 DEF TInv, t, row, rows
<1> HIDE DEF u
<1> QED
    BY <1>1, <1>5, <1>6, <1>7, <1>8, <1>9 DEF t, row, rows, c

\* Of the type invariant, what a resolution changes.
ResolutionTyped(t) ==
    /\ t \in ResolutionCalls
    /\ t.at \in Open => t.candidate \in Candidates /\ \E c \in cases : c.id = t.case
    /\ t.at \in {"inserting", "writing"} => t.candidate \in Identified
    /\ t.at = "writing" => t.link \in Resolutions

LEMMA StepTInv == TInv /\ [Next]_vars => TInv'
<1> SUFFICES ASSUME TInv, [Next]_vars PROVE TInv'
    OBVIOUS
<1>i. ASSUME NEW i \in Imports, NEW t, ImportTyped(t), import' = [import EXCEPT ![i] = t],
             UNCHANGED content
      PROVE  /\ import' \in [Imports -> ImportCalls]
             /\ \A j \in Imports :
                   /\ IsFiniteSet(import'[j].rows)
                   /\ import'[j].at = "rows" => /\ import'[j].file \in Files
                                                /\ content'[import'[j].file] # None
    BY <1>i DEF TInv, ImportTyped
<1>r. ASSUME NEW r \in Resolutions, NEW t, ResolutionTyped(t),
             resolution' = [resolution EXCEPT ![r] = t],
             UNCHANGED <<content, batches, cases, counterparties, import, raced>>
      PROVE  TInv'
    BY <1>r DEF TInv, ResolutionTyped
<1>o. {"loaded", "inserting", "writing"} = Open /\ Open \cap {"refused", "failed", "lost", "done"} = {}
    BY DEF Open
<1>1. ASSUME NEW q \in Requests, Create(q) PROVE TInv'
    <2>1. PICK a \in Asked : cases' = cases \cup {Created(q, None, 0, a.company, a.contact)}
        BY <1>1 DEF Create
    <2>2. Created(q, None, 0, a.company, a.contact) \in CaseRows
        <3>1. a.company \in Labels /\ a.contact \in BOOLEAN /\ q \in Ids
            BY ConstantsAssumption DEF Ids
        <3> QED
            BY <3>1, CreatedTyped
    <2>3. cases' \subseteq CaseRows /\ IsFiniteSet(cases') /\ cases \subseteq cases'
        BY <2>1, <2>2, FS_AddElement DEF TInv
    <2> QED
        BY <1>1, <2>3 DEF Create, TInv
<1>2. ASSUME NEW i \in Imports, NEW f \in Files, Begin(i, f) PROVE TInv'
    <2>1. raced' \subseteq Files
        BY <1>2 DEF Begin, FoundImported, Refused, NewBatch, TInv
    <2> QED
        BY <1>2, <1>i, <2>1, BeginTyped DEF Begin, TInv
<1>3. ASSUME NEW i \in Imports, ImportRow(i) PROVE TInv'
    <2>1. PICK t : t = import'[i]
        OBVIOUS
    <2>2. import' = [import EXCEPT ![i] = t] /\ t \in ImportCalls /\ t.file = import[i].file
        BY <1>3, <2>1, RowTaken
    <2>3. IsFiniteSet(t.rows)
        <3>1. IsFiniteSet(import[i].rows)
            BY DEF TInv
        <3>2. t.rows = import[i].rows \/ \E c : t.rows = import[i].rows \cup {c}
            BY <1>3, <2>1, RowTaken
        <3> QED
            BY <3>1, <3>2, FS_AddElement
    <2>4. ImportTyped(t)
        BY <1>3, <2>2, <2>3 DEF ImportRow, TInv, ImportTyped
    <2> QED
        BY <1>3, <1>i, <2>2, <2>4 DEF ImportRow, TInv
<1>4. ASSUME NEW i \in Imports, CommitImport(i) PROVE TInv'
    <2> DEFINE t == import[i]
               u == [t EXCEPT !.at = "done", !.rows = {}]
    <2>1. /\ t \in ImportCalls /\ t.file \in Files /\ content[t.file] # None
          /\ import' = [import EXCEPT ![i] = u]
        BY <1>4 DEF CommitImport, TInv
    <2>2. u \in ImportCalls /\ u.rows = {} /\ u.at = "done"
        BY <2>1 DEF ImportCalls
    <2>3. ImportTyped(u)
        BY <2>2, FS_EmptySet DEF ImportTyped
    <2>4. batches' \subseteq [id : Imports, file : Files, count : Nat]
        <3>1. content[t.file] \in Seq(FileRows)
            BY <2>1, RowTyped DEF TInv
        <3>2. Len(content[t.file]) \in Nat
            BY <3>1
        <3> QED
            BY <1>4, <2>1, <3>2 DEF CommitImport, TInv
    <2>5. cases' \subseteq CaseRows /\ IsFiniteSet(cases') /\ cases \subseteq cases'
        BY <1>4, FS_Union DEF CommitImport, TInv, ImportCalls
    <2> HIDE DEF u, t
    <2> QED
        BY <1>4, <1>i, <2>1, <2>3, <2>4, <2>5 DEF CommitImport, TInv
<1>5. ASSUME NEW i \in Imports, LoseImport(i) PROVE TInv'
    <2> DEFINE u == [import[i] EXCEPT !.at = "failed", !.rows = {}]
    <2>1. import' = [import EXCEPT ![i] = u] /\ import[i] \in ImportCalls
        BY <1>5 DEF LoseImport, TInv
    <2>2. u \in ImportCalls /\ u.rows = {} /\ u.at = "failed"
        BY <2>1 DEF ImportCalls
    <2> HIDE DEF u
    <2>3. ImportTyped(u)
        BY <2>2, FS_EmptySet DEF ImportTyped
    <2> QED
        BY <1>5, <1>i, <2>1, <2>3 DEF LoseImport, TInv
<1>6. ASSUME NEW r \in Resolutions, NEW c \in cases, NEW e \in Candidates, Ask(r, c, e)
      PROVE  TInv'
    <2> DEFINE refused == [NoResolution EXCEPT !.at = "refused"]
               loaded == [NoResolution EXCEPT !.at = "loaded", !.case = c.id, !.candidate = e]
    <2>1. refused \in ResolutionCalls /\ refused.at = "refused"
        BY DEF NoResolution, ResolutionCalls
    <2>2. /\ loaded \in ResolutionCalls /\ loaded.at = "loaded"
          /\ loaded.case = c.id /\ loaded.candidate = e
        <3>1. c.id \in Ids
            BY DEF TInv, CaseRows
        <3> QED
            BY <1>o, <3>1 DEF NoResolution, ResolutionCalls
    <2>3. \/ resolution' = [resolution EXCEPT ![r] = refused]
          \/ resolution' = [resolution EXCEPT ![r] = loaded]
        BY <1>6 DEF Ask
    <2> HIDE DEF refused, loaded
    <2>4. ResolutionTyped(refused) /\ ResolutionTyped(loaded)
        BY <1>o, <2>1, <2>2 DEF ResolutionTyped
    <2> QED
        BY <1>6, <1>r, <2>3, <2>4 DEF Ask
<1>7. ASSUME NEW r \in Resolutions, LookUp(r) PROVE TInv'
    <2> DEFINE t == resolution[r]
               e == t.candidate
    <2>1. /\ t \in ResolutionCalls /\ t.at = "loaded" /\ e \in Candidates
          /\ \E c \in cases : c.id = t.case
        BY <1>7, <1>o DEF LookUp, TInv
    <2>2. ASSUME resolution' = [resolution EXCEPT ![r].at = "refused"] PROVE TInv'
        <3> DEFINE u == [t EXCEPT !.at = "refused"]
        <3>1. u \in ResolutionCalls /\ u.at = "refused"
            BY <2>1 DEF ResolutionCalls
        <3>2. resolution' = [resolution EXCEPT ![r] = u]
            BY <2>2 DEF TInv
        <3> HIDE DEF u
        <3> QED
            BY <1>7, <1>o, <1>r, <3>1, <3>2 DEF LookUp, ResolutionTyped
    <2>3. ASSUME e \in Identified, resolution' = [resolution EXCEPT ![r].at = "inserting"] PROVE TInv'
        <3> DEFINE u == [t EXCEPT !.at = "inserting"]
        <3>1. /\ u \in ResolutionCalls /\ u.at = "inserting"
              /\ u.candidate = e /\ u.case = t.case
            BY <1>o, <2>1 DEF ResolutionCalls
        <3>2. resolution' = [resolution EXCEPT ![r] = u]
            BY <2>3 DEF TInv
        <3> HIDE DEF u
        <3>3. ResolutionTyped(u)
            BY <2>1, <2>3, <3>1 DEF ResolutionTyped
        <3> QED
            BY <1>7, <1>r, <3>2, <3>3 DEF LookUp
    <2>4. ASSUME e \in Identified, NEW p \in Known(Key(e)),
                 resolution' = [resolution EXCEPT ![r].at = "writing", ![r].link = p.id]
          PROVE  TInv'
        <3> DEFINE u == [t EXCEPT !.at = "writing", !.link = p.id]
        <3>1. p.id \in Resolutions /\ e \in Identified
            BY <2>4 DEF Known, TInv
        <3>2. /\ u \in ResolutionCalls /\ u.at = "writing" /\ u.link = p.id
              /\ u.candidate = e /\ u.case = t.case
            BY <1>o, <2>1, <3>1 DEF ResolutionCalls
        <3>3. resolution' = [resolution EXCEPT ![r] = u]
            BY <2>4 DEF TInv
        <3> HIDE DEF u
        <3>4. ResolutionTyped(u)
            BY <2>1, <3>1, <3>2 DEF ResolutionTyped
        <3> QED
            BY <1>7, <1>r, <3>3, <3>4 DEF LookUp
    <2> QED
        BY <1>7, <2>2, <2>3, <2>4 DEF LookUp
<1>8. ASSUME NEW r \in Resolutions, Insert(r) PROVE TInv'
    <2> DEFINE t == resolution[r]
               failed == [t EXCEPT !.at = "failed"]
               writing == [t EXCEPT !.at = "writing", !.new = TRUE, !.link = r]
    <2>1. /\ t \in ResolutionCalls /\ t.at = "inserting" /\ t.candidate \in Candidates
          /\ \E c \in cases : c.id = t.case
          /\ t.candidate \in Identified
        BY <1>8, <1>o DEF Insert, TInv
    <2>2. failed \in ResolutionCalls /\ failed.at = "failed"
        BY <2>1 DEF ResolutionCalls
    <2>3. /\ writing \in ResolutionCalls /\ writing.at = "writing" /\ writing.link = r
          /\ writing.candidate = t.candidate /\ writing.case = t.case
        BY <1>o, <2>1 DEF ResolutionCalls
    <2>4. \/ resolution' = [resolution EXCEPT ![r] = failed]
          \/ resolution' = [resolution EXCEPT ![r] = writing]
        BY <1>8 DEF Insert
    <2> HIDE DEF failed, writing
    <2>5. ResolutionTyped(failed) /\ ResolutionTyped(writing)
        BY <1>o, <2>1, <2>2, <2>3 DEF ResolutionTyped
    <2> QED
        BY <1>8, <1>r, <2>4, <2>5 DEF Insert
<1>9. ASSUME NEW r \in Resolutions, CommitResolution(r) PROVE TInv'
    <2>1. /\ cases' = (cases \ {Resolved(r)}) \cup {Linked(r)}
          /\ Linked(r) \in CaseRows /\ Linked(r).id = Resolved(r).id
        BY <1>9, CommitWrites
    <2>2. cases' \subseteq CaseRows /\ IsFiniteSet(cases')
        BY <2>1, FS_RemoveElement, FS_AddElement DEF TInv
    <2>3. \A x : (\E c \in cases : c.id = x) => \E c \in cases' : c.id = x
        BY <2>1
    <2>4. counterparties' \subseteq [id : Resolutions, key : {Key(e) : e \in Identified}]
        <3>1. resolution[r].candidate \in Candidates /\ resolution[r].candidate \in Identified
            BY <1>9, <1>o DEF CommitResolution, TInv
        <3>2. [id |-> r, key |-> Key(resolution[r].candidate)]
                  \in [id : Resolutions, key : {Key(e) : e \in Identified}]
            BY <3>1
        <3>3. counterparties' \subseteq
                  counterparties \cup {[id |-> r, key |-> Key(resolution[r].candidate)]}
            BY <1>9 DEF CommitResolution
        <3> QED
            BY <3>2, <3>3 DEF TInv
    <2> DEFINE u == [resolution[r] EXCEPT !.at = "done"]
    <2>5. resolution' = [resolution EXCEPT ![r] = u] /\ resolution[r] \in ResolutionCalls
        BY <1>9 DEF CommitResolution, TInv
    <2>6. u \in ResolutionCalls /\ u.at = "done"
        BY <2>5 DEF ResolutionCalls
    <2> HIDE DEF u
    <2>7. resolution' \in [Resolutions -> ResolutionCalls]
        BY <2>5, <2>6 DEF TInv
    <2>8. \A q \in Resolutions :
             resolution'[q] = resolution[q] \/ (resolution'[q].at = "done")
        BY <2>5, <2>6 DEF TInv
    <2>9. \A q \in Resolutions : resolution'[q] = resolution[q] =>
             /\ resolution'[q].at \in Open => /\ resolution'[q].candidate \in Candidates
                                              /\ \E c \in cases' : c.id = resolution'[q].case
             /\ resolution'[q].at \in {"inserting", "writing"} =>
                    resolution'[q].candidate \in Identified
             /\ resolution'[q].at = "writing" => resolution'[q].link \in Resolutions
        BY <2>3 DEF TInv
    <2>10. UNCHANGED <<content, batches, import, raced>>
        BY <1>9 DEF CommitResolution
    <2> QED
        BY <1>o, <2>2, <2>4, <2>7, <2>8, <2>9, <2>10 DEF TInv
<1>10. ASSUME NEW r \in Resolutions, LoseResolution(r) PROVE TInv'
    <2> DEFINE u == [resolution[r] EXCEPT !.at = "lost"]
    <2>1. resolution' = [resolution EXCEPT ![r] = u] /\ resolution[r] \in ResolutionCalls
        BY <1>10 DEF LoseResolution, TInv
    <2>2. u \in ResolutionCalls /\ u.at = "lost"
        BY <2>1 DEF ResolutionCalls
    <2> HIDE DEF u
    <2>3. ResolutionTyped(u)
        BY <1>o, <2>2 DEF ResolutionTyped
    <2> QED
        BY <1>10, <1>r, <2>1, <2>3 DEF LoseResolution
<1>11. CASE UNCHANGED vars
    BY <1>11 DEF vars, TInv
<1> QED
    BY <1>1, <1>2, <1>3, <1>4, <1>5, <1>6, <1>7, <1>8, <1>9, <1>10, <1>11
    DEF Next, ImportStep, ResolutionStep

-----------------------------------------------------------------------------
(* One counterparty for an identity                                        *)

\* An open transaction has inserted a counterparty.
Holds(r) == resolution[r].at = "writing" /\ resolution[r].new
KeyOf(r) == Key(resolution[r].candidate)

\* What an open resolution has found, or inserted, is still so: nobody else
\* can insert that key.
LinksHold ==
    \A r \in Resolutions :
        /\ resolution[r].at \in {"loaded", "inserting"} => ~resolution[r].new
        /\ Holds(r) => resolution[r].link = r /\ Known(KeyOf(r)) = {}
        /\ resolution[r].at = "writing" /\ ~resolution[r].new =>
              \E p \in Known(KeyOf(r)) : p.id = resolution[r].link
        /\ \A q \in Resolutions : Holds(r) /\ Holds(q) /\ KeyOf(r) = KeyOf(q) => r = q

KeysUnique == \A p, q \in counterparties : p.key = q.key => p = q

\* An import links nothing.
ImportsUnlinked == \A i \in Imports : \A c \in import[i].rows : c.counterparty = None

\* A counterparty is the row of one resolution, which has committed.
RowsCommitted ==
    \A p \in counterparties :
        /\ resolution[p.id].at = "done"
        /\ \A q \in counterparties : q.id = p.id => q = p

CasesLinked == \A c \in cases : c.counterparty # None => LinkedToKey(c)

\* CasesLinked alone says nothing of the transactions still open.
RInv == TInv /\ KeysUnique /\ RowsCommitted /\ LinksHold /\ ImportsUnlinked /\ CasesLinked

LEMMA InitRInv == Init => RInv
BY InitTInv DEF Init, RInv, KeysUnique, RowsCommitted, LinksHold, Holds, NoResolution, ImportsUnlinked, NoImport,
                CasesLinked

\* A step that only adds cases without a counterparty.
LEMMA UnlinkedRInv ==
    ASSUME RInv, TInv', UNCHANGED <<counterparties, resolution>>, ImportsUnlinked',
           \A c \in cases' : c \in cases \/ c.counterparty = None
    PROVE  RInv'
<1>1. KeysUnique' /\ LinksHold'
    BY DEF RInv, KeysUnique, LinksHold, Holds, KeyOf, Known
<1>2. RowsCommitted' /\ CasesLinked'
    BY DEF RInv, RowsCommitted, CasesLinked, LinkedToKey, Known
<1> QED
    BY <1>1, <1>2 DEF RInv

\* A step of one resolution that is not its commit.
LEMMA ResolutionRInv ==
    ASSUME RInv, TInv', UNCHANGED <<cases, counterparties, import>>,
           NEW r \in Resolutions, resolution[r].at # "done",
           \A q \in Resolutions : q # r => resolution'[q] = resolution[q],
           resolution'[r].at \in {"loaded", "inserting"} => ~resolution'[r].new,
           Holds(r)' => /\ resolution'[r].link = r
                        /\ Known(KeyOf(r)') = {}
                        /\ \A q \in Resolutions \ {r} : Holds(q) => KeyOf(q) # KeyOf(r)',
           resolution'[r].at = "writing" /\ ~resolution'[r].new =>
               \E p \in Known(KeyOf(r)') : p.id = resolution'[r].link
    PROVE  RInv'
<1>1. \A key : Known(key)' = Known(key)
    BY DEF Known
<1>2. \A q \in Resolutions : q # r => (Holds(q)' <=> Holds(q)) /\ KeyOf(q)' = KeyOf(q)
    BY DEF Holds, KeyOf
<1>3. \A q \in Resolutions : Known(KeyOf(q))' = Known(KeyOf(q)')
    BY <1>1
<1>4. LinksHold'
    <2> SUFFICES ASSUME NEW a \in Resolutions
                 PROVE  /\ resolution'[a].at \in {"loaded", "inserting"} => ~resolution'[a].new
                        /\ Holds(a)' => resolution'[a].link = a /\ Known(KeyOf(a)') = {}
                        /\ resolution'[a].at = "writing" /\ ~resolution'[a].new =>
                              \E p \in Known(KeyOf(a)') : p.id = resolution'[a].link
                        /\ \A q \in Resolutions : Holds(a)' /\ Holds(q)' /\ KeyOf(a)' = KeyOf(q)' => a = q
        BY <1>3 DEF LinksHold
    <2> QED
        BY <1>2 DEF RInv, LinksHold
<1>5. KeysUnique' /\ ImportsUnlinked' /\ CasesLinked'
    BY DEF RInv, KeysUnique, ImportsUnlinked, CasesLinked, LinkedToKey, Known
<1>6. RowsCommitted'
    BY DEF RInv, RowsCommitted, TInv
<1> QED
    BY <1>4, <1>5, <1>6 DEF RInv

LEMMA StepRInv == RInv /\ [Next]_vars => RInv'
<1> SUFFICES ASSUME RInv, [Next]_vars PROVE RInv'
    OBVIOUS
<1>t. TInv /\ TInv'
    BY StepTInv DEF RInv
<1>1. ASSUME NEW q \in Requests, Create(q) PROVE RInv'
    <2>1. \A c \in cases' : c \in cases \/ c.counterparty = None
        BY <1>1 DEF Create, Created
    <2> QED
        BY <1>1, <1>t, <2>1, UnlinkedRInv DEF Create, RInv, ImportsUnlinked
<1>2. ASSUME NEW i \in Imports, NEW f \in Files, Begin(i, f) PROVE RInv'
    <2>1. ImportsUnlinked'
        <3>1. \A j \in Imports : import'[j].rows \in {import[j].rows, {}}
            <4>1. PICK t : /\ import' = [import EXCEPT ![i] = t]
                           /\ t.rows \in {import[i].rows, {}}
                BY <1>2, <1>t, BeginTyped
            <4> QED
                BY <1>t, <4>1 DEF TInv
        <3> QED
            BY <3>1 DEF RInv, ImportsUnlinked
    <2> QED
        BY <1>2, <1>t, <2>1, UnlinkedRInv DEF Begin
<1>3. ASSUME NEW i \in Imports, ImportRow(i) PROVE RInv'
    <2>1. ImportsUnlinked'
        <3>1. \A j \in Imports : j # i => import'[j] = import[j]
            BY <1>3, <1>t DEF ImportRow, TInv
        <3>2. \A c \in import'[i].rows : c \in import[i].rows \/ c.counterparty = None
            <4>1. \/ import'[i].rows = import[i].rows
                  \/ \E c : /\ c.counterparty = None
                           /\ import'[i].rows = import[i].rows \cup {c}
                BY <1>3, <1>t, RowTaken
            <4> QED
                BY <4>1
        <3> QED
            BY <3>1, <3>2 DEF RInv, ImportsUnlinked
    <2> QED
        BY <1>3, <1>t, <2>1, UnlinkedRInv DEF ImportRow
<1>4. ASSUME NEW i \in Imports, CommitImport(i) \/ LoseImport(i) PROVE RInv'
    <2>1. ImportsUnlinked'
        <3>1. \A j \in Imports : import'[j].rows \in {import[j].rows, {}}
            BY <1>4, <1>t DEF CommitImport, LoseImport, TInv, ImportCalls
        <3> QED
            BY <3>1 DEF RInv, ImportsUnlinked
    <2>2. \A c \in cases' : c \in cases \/ c.counterparty = None
        BY <1>4 DEF CommitImport, LoseImport, RInv, ImportsUnlinked
    <2> QED
        BY <1>4, <1>t, <2>1, <2>2, UnlinkedRInv DEF CommitImport, LoseImport
<1>5. ASSUME NEW r \in Resolutions, NEW c \in cases, NEW e \in Candidates, Ask(r, c, e)
      PROVE  RInv'
    <2>1. /\ \A q \in Resolutions : q # r => resolution'[q] = resolution[q]
          /\ resolution'[r].at \in {"refused", "loaded"} /\ ~resolution'[r].new
        BY <1>5, <1>t DEF Ask, NoResolution, TInv
    <2> QED
        BY <1>5, <1>t, <2>1, ResolutionRInv DEF Ask, Holds
<1>6. ASSUME NEW r \in Resolutions, LookUp(r) PROVE RInv'
    <2>1. /\ \A q \in Resolutions : q # r => resolution'[q] = resolution[q]
          /\ resolution'[r].new = resolution[r].new
          /\ resolution'[r].candidate = resolution[r].candidate
          /\ resolution'[r].at = "writing" =>
                \E p \in Known(KeyOf(r)) : p.id = resolution'[r].link
        BY <1>6, <1>t DEF LookUp, TInv, ResolutionCalls, KeyOf
    <2>2. ~resolution[r].new
        BY <1>6 DEF LookUp, RInv, LinksHold
    <2>3. KeyOf(r)' = KeyOf(r) /\ ~Holds(r)'
        BY <2>1, <2>2 DEF KeyOf, Holds
    <2> QED
        BY <1>6, <1>t, <2>1, <2>2, <2>3, ResolutionRInv DEF LookUp
<1>7. ASSUME NEW r \in Resolutions, Insert(r) PROVE RInv'
    <2>1. /\ \A q \in Resolutions : q # r => resolution'[q] = resolution[q]
          /\ resolution'[r].candidate = resolution[r].candidate
          /\ \/ resolution'[r].at = "failed"
             \/ /\ resolution'[r].at = "writing" /\ resolution'[r].new /\ resolution'[r].link = r
                /\ Known(KeyOf(r)) = {}
        BY <1>7, <1>t DEF Insert, TInv, ResolutionCalls, KeyOf
    <2>2. KeyOf(r)' = KeyOf(r)
        BY <2>1 DEF KeyOf
    <2>3. \A q \in Resolutions \ {r} : Holds(q) => KeyOf(q) # KeyOf(r)
        BY <1>7 DEF Insert, Held, Holds, KeyOf
    <2> QED
        BY <1>7, <1>t, <2>1, <2>2, <2>3, ResolutionRInv DEF Insert, Holds
<1>8. ASSUME NEW r \in Resolutions, CommitResolution(r) PROVE RInv'
    <2> DEFINE row == [id |-> r, key |-> KeyOf(r)]
    <2>1. /\ cases' = (cases \ {Resolved(r)}) \cup {Linked(r)}
          /\ Linked(r).counterparty = resolution[r].link
          /\ Linked(r).candidate = resolution[r].candidate
        BY <1>8, <1>t, CommitWrites
    <2>2. /\ resolution[r].at = "writing"
          /\ resolution[r].new => counterparties' = counterparties \cup {row}
          /\ ~resolution[r].new => counterparties' = counterparties
        BY <1>8 DEF CommitResolution, KeyOf
    <2>b. /\ resolution'[r].at = "done"
          /\ \A q \in Resolutions : q # r => resolution'[q] = resolution[q]
        <3>1. resolution' = [resolution EXCEPT ![r] = [resolution[r] EXCEPT !.at = "done"]]
            BY <1>8, <1>t DEF CommitResolution, TInv
        <3>2. resolution[r] \in ResolutionCalls
            BY <1>t DEF TInv
        <3>3. [resolution[r] EXCEPT !.at = "done"].at = "done"
            BY <3>2 DEF ResolutionCalls
        <3> QED
            BY <1>t, <3>1, <3>3 DEF TInv
    <2>3. row.id = r /\ row.key = KeyOf(r)
        OBVIOUS
    <2> HIDE DEF row
    <2> DEFINE after(key) == {p \in counterparties' : p.key = key}
    <2>4. \A key : /\ Known(key) \subseteq after(key)
                   /\ key # KeyOf(r) \/ ~resolution[r].new => after(key) = Known(key)
        BY <2>2, <2>3 DEF Known
    <2>5. resolution[r].new => Known(KeyOf(r)) = {} /\ after(KeyOf(r)) = {row}
        BY <2>2, <2>3 DEF Known, RInv, LinksHold, Holds
    <2>6. KeysUnique'
        BY <2>2, <2>3, <2>5 DEF Known, RInv, KeysUnique
    <2>a. \A key : Known(key)' = after(key)
        BY DEF Known
    <2> HIDE DEF after
    <2>7. LinksHold'
        <3>1. ASSUME NEW q \in Resolutions, q # r
              PROVE  /\ KeyOf(q)' = KeyOf(q) /\ Holds(q)' = Holds(q)
                     /\ Holds(q) => after(KeyOf(q)) = {}
                     /\ resolution[q].at = "writing" /\ ~resolution[q].new =>
                           \E p \in after(KeyOf(q)) : p.id = resolution[q].link
            <4>1. KeyOf(q)' = KeyOf(q) /\ Holds(q)' = Holds(q)
                BY <2>b, <3>1 DEF KeyOf, Holds
            <4>2. Holds(q) => after(KeyOf(q)) = {}
                <5>1. KeyOf(q) # KeyOf(r) \/ ~resolution[r].new \/ ~Holds(q)
                    BY <2>2, <3>1 DEF RInv, LinksHold, Holds
                <5> QED
                    BY <2>4, <5>1 DEF RInv, LinksHold
            <4>3. resolution[q].at = "writing" /\ ~resolution[q].new =>
                     \E p \in after(KeyOf(q)) : p.id = resolution[q].link
                BY <2>4 DEF RInv, LinksHold
            <4> QED
                BY <4>1, <4>2, <4>3
        <3>2. ~Holds(r)'
            BY <2>b DEF Holds
        <3>3. \A q \in Resolutions : Known(KeyOf(q))' = after(KeyOf(q)')
            BY DEF Known, after
        <3> QED
            BY <2>b, <3>1, <3>2, <3>3 DEF LinksHold, RInv
    <2>8. ImportsUnlinked'
        BY <1>8 DEF CommitResolution, RInv, ImportsUnlinked
    <2>9. CasesLinked'
        <3> DEFINE Linking(c) ==
                /\ c.candidate \in Identified
                /\ \E p \in after(Key(c.candidate)) :
                      p.id = c.counterparty /\ after(Key(c.candidate)) = {p}
        <3>1. \E p \in after(KeyOf(r)) : p.id = resolution[r].link /\ after(KeyOf(r)) = {p}
            <4>1. CASE resolution[r].new
                BY <2>2, <2>3, <2>5, <4>1 DEF RInv, LinksHold, Holds
            <4>2. CASE ~resolution[r].new
                <5>1. PICK p \in Known(KeyOf(r)) : p.id = resolution[r].link
                    BY <2>2, <4>2 DEF RInv, LinksHold
                <5>2. Known(KeyOf(r)) = {p}
                    BY <5>1 DEF Known, RInv, KeysUnique
                <5> QED
                    BY <2>4, <4>2, <5>1, <5>2
            <4> QED
                BY <4>1, <4>2
        <3>2. ASSUME NEW c \in cases, c.counterparty # None PROVE Linking(c)
            <4>1. /\ c.candidate \in Identified
                  /\ \E p \in Known(Key(c.candidate)) :
                        p.id = c.counterparty /\ Known(Key(c.candidate)) = {p}
                BY <3>2 DEF RInv, CasesLinked, LinkedToKey
            <4>2. after(Key(c.candidate)) = Known(Key(c.candidate))
                BY <2>4, <2>5, <4>1
            <4> QED
                BY <4>1, <4>2
        <3>3. Linking(Linked(r))
            <4>1. Key(Linked(r).candidate) = KeyOf(r) /\ Linked(r).candidate \in Identified
                BY <1>t, <2>1, <2>2 DEF KeyOf, TInv
            <4> QED
                BY <2>1, <3>1, <4>1
        <3>4. \A c \in cases' : c.counterparty # None => Linking(c)
            BY <2>1, <3>2, <3>3
        <3>5. \A c : LinkedToKey(c)' <=> Linking(c)
            BY <2>a DEF LinkedToKey, Key, Strip, Lower
        <3> QED
            BY <3>4, <3>5 DEF CasesLinked
    <2>10. RowsCommitted'
        <3>1. \A p \in counterparties : p.id # r /\ p.id \in Resolutions
            BY <1>t, <2>2 DEF RInv, RowsCommitted, TInv
        <3>2. \A p \in counterparties' : p \in counterparties \/ p = row
            BY <2>2
        <3>3. \A p \in counterparties' : resolution'[p.id].at = "done"
            BY <2>3, <2>b, <3>1, <3>2 DEF RInv, RowsCommitted
        <3> QED
            BY <2>3, <3>1, <3>2, <3>3 DEF RInv, RowsCommitted
    <2> QED
        BY <1>t, <2>6, <2>7, <2>8, <2>9, <2>10 DEF RInv
<1>9. ASSUME NEW r \in Resolutions, LoseResolution(r) PROVE RInv'
    <2>1. /\ \A q \in Resolutions : q # r => resolution'[q] = resolution[q]
          /\ resolution'[r].at = "lost"
        BY <1>9, <1>t DEF LoseResolution, TInv, ResolutionCalls
    <2>2. resolution[r].at # "done"
        BY <1>9 DEF LoseResolution, Open
    <2> QED
        BY <1>9, <1>t, <2>1, <2>2, ResolutionRInv DEF LoseResolution, Holds
<1>10. CASE UNCHANGED vars
    BY <1>10, <1>t, UnlinkedRInv DEF vars, RInv, ImportsUnlinked
<1> QED
    BY <1>1, <1>2, <1>3, <1>4, <1>5, <1>6, <1>7, <1>8, <1>9, <1>10
    DEF Next, ImportStep, ResolutionStep

-----------------------------------------------------------------------------
(* Every row accounted for                                                 *)

\* The rows of a file, up to one, that make a case.
Upto(f, n) == {m \in 1..n : Accepts(content[f][m])}

\* A case is named after its request, or after its import and row.
CaseIds ==
    /\ \A c, d \in cases : c.id = d.id => c = d
    /\ \A c \in cases : IF c.batch = None THEN c.id \in Requests ELSE c.id = <<c.batch, c.row>>

\* What an import under way has made of the rows it has read.
Counted(i) ==
    LET t == import[i] IN
    /\ ~t.duplicate
    /\ t.next - 1 <= Len(content[t.file])
    /\ \A c \in t.rows : c.batch = i /\ c.id = <<i, c.row>>
    /\ \A c, d \in t.rows : c.row = d.row => c = d
    /\ {c.row : c \in t.rows} = Upto(t.file, t.next - 1)
    /\ Cardinality(t.rows) = t.accepted
    /\ Cardinality(Upto(t.file, t.next - 1)) = t.accepted
    /\ t.accepted + t.rejected = t.next - 1

\* What the commit of a batch has left.
BatchCounted(b) ==
    /\ content[b.file] # None
    /\ b.count = Len(content[b.file])
    /\ import[b.id].at = "done" /\ ~import[b.id].duplicate
    /\ {c.row : c \in Of(b.id)} = Upto(b.file, b.count)
    /\ Cardinality(Of(b.id)) = import[b.id].accepted
    /\ Cardinality(Upto(b.file, b.count)) = import[b.id].accepted
    /\ import[b.id].accepted + import[b.id].rejected = b.count

\* An import that has not committed has no cases.
NoneYet ==
    \A i \in Imports : import[i].at # "done" \/ import[i].duplicate => Of(i) = {}

Duplicates ==
    \A i \in Imports : import[i].duplicate =>
        /\ import[i].at = "done"
        /\ \E b \in batches : b.id = import[i].of /\ b.file = import[i].file
        /\ import[i].linked = Cardinality(Of(import[i].of))

\* The counts of a batch are right only if they were all along.
BInv ==
    /\ TInv
    /\ CaseIds
    /\ \A i \in Imports : import[i].at = "rows" => Counted(i)
    /\ \A b \in batches : BatchCounted(b)
    /\ NoneYet
    /\ Duplicates

LEMMA InitBInv == Init => BInv
BY InitTInv DEF Init, BInv, CaseIds, NoneYet, Duplicates, Of, NoImport

LEMMA OneMore ==
    ASSUME NEW S, IsFiniteSet(S), NEW x, x \notin S
    PROVE  Cardinality(S \cup {x}) = Cardinality(S) + 1
BY FS_AddElement

LEMMA UptoNext ==
    ASSUME NEW f, NEW n \in Nat \ {0}
    PROVE  /\ Upto(f, n) = IF Accepts(content[f][n]) THEN Upto(f, n - 1) \cup {n}
                           ELSE Upto(f, n - 1)
           /\ n \notin Upto(f, n - 1)
           /\ IsFiniteSet(Upto(f, n - 1))
<1>1. IsFiniteSet(1..(n - 1))
    BY FS_Interval
<1>2. Upto(f, n - 1) \in SUBSET (1..(n - 1))
    BY DEF Upto
<1>3. IsFiniteSet(Upto(f, n - 1))
    BY <1>1, <1>2, FS_Subset
<1>4. 1..n = 1..(n - 1) \cup {n} /\ n \notin 1..(n - 1)
    OBVIOUS
<1>5. Upto(f, n) = IF Accepts(content[f][n]) THEN Upto(f, n - 1) \cup {n} ELSE Upto(f, n - 1)
    BY <1>4 DEF Upto
<1> QED
    BY <1>2, <1>3, <1>4, <1>5

\* A step that leaves every import, batch and its cases alone, except that it
\* may have changed what a case says of its counterparty.
LEMMA AsideBInv ==
    ASSUME BInv, TInv', UNCHANGED <<content, batches, import>>, CaseIds',
           \A i \in Imports : /\ Cardinality(Of(i)') = Cardinality(Of(i))
                              /\ {c.row : c \in Of(i)'} = {c.row : c \in Of(i)}
                              /\ Of(i) = {} => Of(i)' = {}
    PROVE  BInv'
<1>1. ASSUME NEW i \in Imports, import[i].at = "rows" PROVE Counted(i)'
    BY <1>1 DEF BInv, Counted, Upto
<1>2. ASSUME NEW b \in batches PROVE BatchCounted(b)'
    <2>1. b.id \in Imports
        BY DEF BInv, TInv
    <2>2. Of(b.id)' = {c \in cases' : c.batch = b.id}
        BY DEF Of
    <2> QED
        BY <2>1, <2>2 DEF BInv, BatchCounted, Upto, Of
<1>3. NoneYet'
    BY DEF BInv, NoneYet
<1>4. Duplicates'
    <2> SUFFICES ASSUME NEW i \in Imports, import[i].duplicate
                 PROVE  /\ import[i].at = "done"
                        /\ \E b \in batches : b.id = import[i].of /\ b.file = import[i].file
                        /\ import[i].linked = Cardinality(Of(import[i].of)')
        BY DEF Duplicates, Of
    <2>1. PICK x \in Imports : x = import[i].of
        BY DEF BInv, Duplicates, TInv
    <2>2. Cardinality(Of(x)') = Cardinality(Of(x))
        BY <2>1
    <2>3. Of(import[i].of)' = Of(x)'
        BY <2>1 DEF Of
    <2> QED
        BY <2>1, <2>2, <2>3 DEF BInv, Duplicates
<1> QED
    BY <1>1, <1>2, <1>3, <1>4 DEF BInv

\* A step of one import that commits nothing.
LEMMA ImportBInv ==
    ASSUME BInv, TInv', UNCHANGED <<content, batches, cases>>, NEW i \in Imports,
           \A j \in Imports : j # i => import'[j] = import[j],
           import[i].at # "done",
           import'[i].at = "rows" => Counted(i)',
           import'[i].at = "done" => import'[i].duplicate,
           import'[i].duplicate =>
              /\ import'[i].at = "done"
              /\ \E b \in batches : b.id = import'[i].of /\ b.file = import'[i].file
              /\ import'[i].linked = Cardinality(Of(import'[i].of))
    PROVE  BInv'
<1>1. \A x : Of(x)' = Of(x)
    BY DEF Of
<1>2. ASSUME NEW j \in Imports, j # i, import'[j].at = "rows" PROVE Counted(j)'
    <2>1. import'[j] = import[j] /\ Counted(j)
        BY <1>2 DEF BInv
    <2>2. \A f, n : Upto(f, n)' = Upto(f, n)
        BY DEF Upto
    <2> QED
        BY <2>1, <2>2 DEF Counted
<1>3. ASSUME NEW b \in batches PROVE BatchCounted(b)'
    BY <1>1 DEF BInv, TInv, BatchCounted, Upto
<1>4. NoneYet'
    BY <1>1 DEF BInv, NoneYet, Of
<1>5. Duplicates'
    <2>1. ASSUME NEW j \in Imports, import'[j].duplicate
          PROVE  /\ import'[j].at = "done"
                 /\ \E b \in batches : b.id = import'[j].of /\ b.file = import'[j].file
                 /\ import'[j].linked = Cardinality(Of(import'[j].of))
        <3>1. CASE j = i
            BY <2>1, <3>1
        <3>2. CASE j # i
            BY <2>1, <3>2 DEF BInv, Duplicates
        <3> QED
            BY <3>1, <3>2
    <2>2. \A j \in Imports : Of(import[j].of)' = Of(import'[j].of)
        BY DEF Of
    <2> QED
        BY <2>1, <2>2 DEF Duplicates
<1>6. CaseIds'
    BY DEF BInv, CaseIds
<1> QED
    BY <1>2, <1>3, <1>4, <1>5, <1>6 DEF BInv

LEMMA RowBInv == ASSUME BInv, TInv', NEW i \in Imports, ImportRow(i) PROVE BInv'
<1> DEFINE t == import[i]
           f == t.file
           n == t.next
           row == content[f][n]
           c == Created(<<i, n>>, i, n, row.company, row.contact)
           u == import'[i]
<1> HIDE DEF t, f, n, row, c, u
<1>1. /\ t.at = "rows" /\ n \in 1..Len(content[f])
      /\ c.id = <<i, n>> /\ c.batch = i /\ c.row = n
      /\ import' = [import EXCEPT ![i] = u]
      /\ u.at = "rows" /\ u.file = f /\ u.next = n + 1
      /\ u.duplicate = t.duplicate
      /\ Accepts(row) => /\ u.rows = t.rows \cup {c}
                         /\ u.accepted = t.accepted + 1 /\ u.rejected = t.rejected
      /\ ~Accepts(row) => /\ u.rows = t.rows
                          /\ u.accepted = t.accepted /\ u.rejected = t.rejected + 1
    BY RowTaken DEF BInv, t, f, n, row, c, u
<1>2. /\ t \in ImportCalls /\ n \in Nat \ {0} /\ t.accepted \in Nat /\ t.rejected \in Nat
      /\ IsFiniteSet(t.rows) /\ Len(content[f]) \in Nat
    <2>1. t \in ImportCalls /\ IsFiniteSet(t.rows) /\ f \in Files /\ content[f] # None
        BY <1>1 DEF BInv, TInv, t, f
    <2>2. content[f] \in Seq(FileRows)
        BY <2>1, RowTyped DEF BInv, TInv
    <2>3. Len(content[f]) \in Nat
        BY <2>2
    <2> QED
        BY <2>1, <2>3 DEF ImportCalls, n
<1>3. /\ ~t.duplicate
      /\ \A d \in t.rows : d.batch = i /\ d.id = <<i, d.row>>
      /\ \A d, e \in t.rows : d.row = e.row => d = e
      /\ {d.row : d \in t.rows} = Upto(f, n - 1)
      /\ Cardinality(t.rows) = t.accepted
      /\ Cardinality(Upto(f, n - 1)) = t.accepted
      /\ t.accepted + t.rejected = n - 1
    BY <1>1 DEF BInv, Counted, t, f, n
<1>4. /\ Upto(f, n) = IF Accepts(row) THEN Upto(f, n - 1) \cup {n} ELSE Upto(f, n - 1)
      /\ n \notin Upto(f, n - 1) /\ IsFiniteSet(Upto(f, n - 1))
    BY <1>2, UptoNext DEF row
<1>5. /\ ~u.duplicate
      /\ u.next - 1 = n /\ n <= Len(content[f])
      /\ \A d \in u.rows : d.batch = i /\ d.id = <<i, d.row>>
      /\ \A d, e \in u.rows : d.row = e.row => d = e
      /\ {d.row : d \in u.rows} = Upto(f, n)
      /\ Cardinality(u.rows) = u.accepted
      /\ Cardinality(Upto(f, n)) = u.accepted
      /\ u.accepted + u.rejected = n
    <2>1. CASE Accepts(row)
        <3>1. c \notin t.rows
            <4>1. c \in t.rows => c.row \in Upto(f, n - 1)
                BY <1>3
            <4> QED
                BY <1>1, <1>4, <4>1
        <3>2. Cardinality(u.rows) = t.accepted + 1
            <4>1. Cardinality(t.rows \cup {c}) = Cardinality(t.rows) + 1
                BY <1>2, <3>1, OneMore
            <4> QED
                BY <1>1, <1>3, <2>1, <4>1
        <3>3. Cardinality(Upto(f, n)) = t.accepted + 1
            <4>1. Cardinality(Upto(f, n - 1) \cup {n}) = Cardinality(Upto(f, n - 1)) + 1
                BY <1>4, OneMore
            <4> QED
                BY <1>3, <1>4, <2>1, <4>1
        <3>4. {d.row : d \in u.rows} = Upto(f, n)
            BY <1>1, <1>3, <1>4, <2>1
        <3>5. \A d, e \in u.rows : d.row = e.row => d = e
            BY <1>1, <1>3, <1>4, <2>1
        <3>6. u.accepted + u.rejected = n
            BY <1>1, <1>2, <1>3, <2>1
        <3> QED
            BY <1>1, <1>2, <1>3, <2>1, <3>2, <3>3, <3>4, <3>5, <3>6
    <2>2. CASE ~Accepts(row)
        <3>1. u.accepted + u.rejected = n
            BY <1>1, <1>2, <1>3, <2>2
        <3> QED
            BY <1>1, <1>2, <1>3, <1>4, <2>2, <3>1
    <2> QED
        BY <2>1, <2>2
<1>6. UNCHANGED <<content, batches, cases>>
    BY DEF ImportRow
<1>7. Counted(i)'
    BY <1>1, <1>5, <1>6 DEF Counted, Upto, u
<1>8. \A j \in Imports : j # i => import'[j] = import[j]
    BY <1>1 DEF BInv, TInv
<1>9. import'[i].at = "rows" /\ ~import'[i].duplicate /\ import[i].at # "done"
    BY <1>1, <1>5 DEF u, t
<1> QED
    BY <1>6, <1>7, <1>8, <1>9, ImportBInv

LEMMA BeginBInv ==
    ASSUME BInv, TInv', NEW i \in Imports, NEW f \in Files, Begin(i, f)
    PROVE  BInv'
<1>1. import[i].at = "away" /\ UNCHANGED <<content, batches, cases>>
    BY DEF Begin
<1>2. ~import[i].duplicate
    BY <1>1 DEF BInv, Duplicates
<1>n. /\ NoImport \in ImportCalls /\ NoImport.rows = {} /\ NoImport.next = 1
      /\ NoImport.accepted = 0 /\ NoImport.rejected = 0 /\ ~NoImport.duplicate
    BY DEF NoImport, ImportCalls
<1>3. CASE FoundImported(i, f)
    <2>1. PICK b \in batches :
              /\ b.file = f
              /\ import' = [import EXCEPT ![i] =
                  [NoImport EXCEPT !.at = "done", !.file = f,
                      !.linked = Cardinality(Of(b.id)), !.duplicate = TRUE, !.of = b.id]]
        BY <1>3 DEF FoundImported
    <2> DEFINE linked == Cardinality(Of(b.id))
               t == [NoImport EXCEPT !.at = "done", !.file = f, !.linked = linked,
                                     !.duplicate = TRUE, !.of = b.id]
    <2> HIDE DEF linked
    <2>2. t.at = "done" /\ t.file = f /\ t.linked = linked /\ t.duplicate /\ t.of = b.id
        BY <1>n DEF ImportCalls
    <2> HIDE DEF t
    <2>3. import' = [import EXCEPT ![i] = t]
        BY <2>1 DEF linked, t
    <2>4. import'[i] = t /\ \A j \in Imports : j # i => import'[j] = import[j]
        BY <2>3 DEF BInv, TInv
    <2>5. t.linked = Cardinality(Of(t.of))
        BY <2>2 DEF linked
    <2> QED
        BY <1>1, <2>1, <2>2, <2>4, <2>5, ImportBInv
<1>4. CASE Refused(i, f)
    <2> DEFINE t == [import[i] EXCEPT !.at = "failed"]
    <2>1. import' = [import EXCEPT ![i] = t] /\ import[i] \in ImportCalls
        BY <1>4 DEF Refused, BInv, TInv
    <2>2. t.at = "failed" /\ ~t.duplicate
        BY <1>2, <2>1 DEF ImportCalls
    <2> HIDE DEF t
    <2>3. import'[i] = t /\ \A j \in Imports : j # i => import'[j] = import[j]
        BY <2>1 DEF BInv, TInv
    <2> QED
        BY <1>1, <2>2, <2>3, ImportBInv
<1>5. CASE NewBatch(i, f)
    <2> DEFINE t == [NoImport EXCEPT !.at = "rows", !.file = f, !.of = i]
    <2>1. import' = [import EXCEPT ![i] = t] /\ content[f] # None
        BY <1>5 DEF NewBatch
    <2>2. /\ t.at = "rows" /\ t.file = f /\ t.rows = {} /\ t.next = 1
          /\ t.accepted = 0 /\ t.rejected = 0 /\ ~t.duplicate
        BY <1>n DEF ImportCalls
    <2> HIDE DEF t
    <2>3. import'[i] = t /\ \A j \in Imports : j # i => import'[j] = import[j]
        BY <2>1 DEF BInv, TInv
    <2>4. Len(content[f]) \in Nat
        <3>1. content[f] \in Seq(FileRows)
            BY <2>1, RowTyped DEF BInv, TInv
        <3> QED
            BY <3>1
    <2>5. Counted(i)'
        <3>1. PICK u : u = t
            OBVIOUS
        <3>2. /\ import'[i] = u /\ ~u.duplicate /\ u.file = f
              /\ u.rows = {} /\ u.next - 1 = 0 /\ u.accepted = 0 /\ u.rejected = 0
            BY <2>2, <2>3, <3>1
        <3>3. Cardinality({}) = 0
            BY FS_EmptySet
        <3>4. {m \in 1..0 : Accepts(content'[f][m])} = {}
            OBVIOUS
        <3>5. {c.row : c \in u.rows} = {}
            BY <3>2
        <3>6. u.next - 1 <= Len(content'[f])
            BY <1>1, <2>4, <3>2
        <3>7. \A k : k = u.next - 1 => {m \in 1..k : Accepts(content'[u.file][m])} = {}
            BY <3>2, <3>4
        <3>8. Upto(u.file, u.next - 1)' = {}
            BY <3>7 DEF Upto
        <3>9. /\ ~u.duplicate
              /\ u.next - 1 <= Len(content'[u.file])
              /\ \A c \in u.rows : c.batch = i /\ c.id = <<i, c.row>>
              /\ \A c, d \in u.rows : c.row = d.row => c = d
              /\ {c.row : c \in u.rows} = {}
              /\ Cardinality(u.rows) = u.accepted
              /\ Cardinality({}) = u.accepted
              /\ u.accepted + u.rejected = u.next - 1
            BY <3>2, <3>3, <3>5, <3>6
        <3> QED
            BY <3>2, <3>8, <3>9 DEF Counted
    <2> QED
        BY <1>1, <2>2, <2>3, <2>5, ImportBInv
<1> QED
    BY <1>3, <1>4, <1>5 DEF Begin

LEMMA CommitBInv == ASSUME BInv, TInv', NEW i \in Imports, CommitImport(i) PROVE BInv'
<1> DEFINE t == import[i]
           f == t.file
           new == [id |-> i, file |-> f, count |-> Len(content[f])]
<1> HIDE DEF t, f
<1>1. /\ t.at = "rows" /\ t.next > Len(content[f])
      /\ batches' = batches \cup {new}
      /\ cases' = cases \cup t.rows
      /\ UNCHANGED content
      /\ import' = [import EXCEPT ![i] = [t EXCEPT !.at = "done", !.rows = {}]]
    BY DEF CommitImport, BInv, TInv, t, f
<1>2. /\ t \in ImportCalls /\ t.next \in Nat \ {0}
      /\ content[f] # None /\ Len(content[f]) \in Nat
    <2>1. t \in ImportCalls /\ f \in Files /\ content[f] # None
        BY <1>1 DEF BInv, TInv, t, f
    <2>2. content[f] \in Seq(FileRows)
        BY <2>1, RowTyped DEF BInv, TInv
    <2>3. Len(content[f]) \in Nat
        BY <2>2
    <2> QED
        BY <2>1, <2>3 DEF ImportCalls
<1>3. /\ ~t.duplicate
      /\ t.next - 1 <= Len(content[f])
      /\ \A d \in t.rows : d.batch = i /\ d.id = <<i, d.row>>
      /\ \A d, e \in t.rows : d.row = e.row => d = e
      /\ {d.row : d \in t.rows} = Upto(f, t.next - 1)
      /\ Cardinality(t.rows) = t.accepted
      /\ Cardinality(Upto(f, t.next - 1)) = t.accepted
      /\ t.accepted + t.rejected = t.next - 1
    BY <1>1 DEF BInv, Counted, t, f
<1>4. t.next - 1 = Len(content[f])
    BY <1>1, <1>2, <1>3
<1>5. /\ import'[i].at = "done" /\ ~import'[i].duplicate
      /\ import'[i].accepted = t.accepted /\ import'[i].rejected = t.rejected
      /\ \A j \in Imports : j # i => import'[j] = import[j]
    <2> DEFINE u == [t EXCEPT !.at = "done", !.rows = {}]
    <2>1. /\ u.at = "done" /\ ~u.duplicate
          /\ u.accepted = t.accepted /\ u.rejected = t.rejected
        BY <1>2, <1>3 DEF ImportCalls
    <2> HIDE DEF u
    <2>2. import' = [import EXCEPT ![i] = u]
        BY <1>1 DEF u
    <2> QED
        BY <2>1, <2>2 DEF BInv, TInv
<1>6. Of(i) = {}
    BY <1>1 DEF BInv, NoneYet, t
<1> DEFINE after(x) == {c \in cases' : c.batch = x}
<1>7. /\ after(i) = t.rows
      /\ \A x : x # i => after(x) = Of(x)
    BY <1>1, <1>3, <1>6 DEF Of
<1>8. \A x : Of(x)' = after(x)
    BY DEF Of
<1> HIDE DEF after
<1>9. CaseIds'
    <2>1. ASSUME NEW c \in cases, NEW d \in t.rows, c.id = d.id PROVE FALSE
        <3>1. d.id = <<i, d.row>> /\ d.row \in Nat
            BY <1>2, <1>3 DEF ImportCalls, CaseRows
        <3>2. c.batch # i
            BY <1>6 DEF Of
        <3>3. CASE c.batch = None
            <4>1. c.id \in Requests
                BY <3>3 DEF BInv, CaseIds
            <4>2. c.id \in Imports \X Nat
                BY <2>1, <3>1
            <4> QED
                BY <4>1, <4>2, ConstantsAssumption
        <3>4. CASE c.batch # None
            BY <2>1, <3>1, <3>2, <3>4 DEF BInv, CaseIds
        <3> QED
            BY <3>3, <3>4
    <2>2. \A c, d \in t.rows : c.id = d.id => c = d
        BY <1>3
    <2>3. \A c \in t.rows : c.batch # None /\ c.id = <<c.batch, c.row>>
        BY <1>3, ConstantsAssumption
    <2> QED
        BY <1>1, <2>1, <2>2, <2>3 DEF BInv, CaseIds
<1>10. ASSUME NEW j \in Imports, import'[j].at = "rows" PROVE Counted(j)'
    <2>1. import'[j] = import[j] /\ Counted(j)
        BY <1>5, <1>10 DEF BInv
    <2>2. \A g, n : Upto(g, n)' = Upto(g, n)
        BY <1>1 DEF Upto
    <2> QED
        BY <1>1, <2>1, <2>2 DEF Counted
<1>11. ASSUME NEW b \in batches' PROVE BatchCounted(b)'
    <2>1. \A n : Upto(b.file, n)' = Upto(b.file, n)
        BY <1>1 DEF Upto
    <2>2. Of(b.id)' = after(b.id)
        BY <1>8
    <2>3. CASE b \in batches
        <3>1. BatchCounted(b) /\ b.id \in Imports
            BY <2>3 DEF BInv, TInv
        <3>2. b.id # i
            BY <1>1, <3>1 DEF BatchCounted, t
        <3> QED
            BY <1>1, <1>5, <1>7, <2>1, <2>2, <3>1, <3>2 DEF BatchCounted
    <2>4. CASE b = new
        <3>1. b.id = i /\ b.file = f /\ b.count = Len(content[f])
            BY <2>4
        <3> QED
            BY <1>1, <1>2, <1>3, <1>4, <1>5, <1>7, <2>1, <2>2, <3>1 DEF BatchCounted
    <2> QED
        BY <1>1, <2>3, <2>4
<1>12. NoneYet'
    BY <1>5, <1>7, <1>8 DEF BInv, NoneYet
<1>13. Duplicates'
    <2> SUFFICES ASSUME NEW j \in Imports, import'[j].duplicate
                 PROVE  /\ import'[j].at = "done"
                        /\ \E b \in batches' : b.id = import'[j].of /\ b.file = import'[j].file
                        /\ import'[j].linked = Cardinality(after(import'[j].of))
        BY DEF Duplicates, Of, after
    <2>1. import'[j] = import[j]
        BY <1>5
    <2>2. PICK b \in batches : b.id = import[j].of /\ b.file = import[j].file
        BY <2>1 DEF BInv, Duplicates
    <2>3. b.id # i
        BY <1>1 DEF BInv, BatchCounted, t
    <2>4. after(import[j].of) = Of(import[j].of)
        BY <1>7, <2>2, <2>3
    <2> QED
        BY <1>1, <2>1, <2>4 DEF BInv, Duplicates
<1> QED
    BY <1>9, <1>10, <1>11, <1>12, <1>13 DEF BInv

\* A resolution replaces a case by itself, linked.
LEMMA ResolveBInv == ASSUME BInv, TInv', NEW r \in Resolutions, CommitResolution(r) PROVE BInv'
<1> DEFINE c == Resolved(r)
           d == Linked(r)
<1> HIDE DEF c, d
<1>1. /\ c \in cases
      /\ cases' = (cases \ {c}) \cup {d}
      /\ d.id = c.id /\ d.batch = c.batch /\ d.row = c.row
    BY CommitWrites DEF BInv, c, d
<1>2. d \notin cases \ {c}
    BY <1>1 DEF BInv, CaseIds
<1>3. CaseIds'
    BY <1>1 DEF BInv, CaseIds
<1>4. ASSUME NEW i \in Imports
      PROVE  /\ Cardinality(Of(i)') = Cardinality(Of(i))
             /\ {e.row : e \in Of(i)'} = {e.row : e \in Of(i)}
             /\ Of(i) = {} => Of(i)' = {}
    <2>1. Of(i)' = {e \in cases' : e.batch = i}
        BY DEF Of
    <2>2. CASE c.batch = i
        <3>1. Of(i)' = (Of(i) \ {c}) \cup {d} /\ c \in Of(i) /\ d \notin Of(i) \ {c}
            BY <1>1, <1>2, <2>1, <2>2 DEF Of
        <3>2. IsFiniteSet(Of(i))
            <4>1. IsFiniteSet(cases) /\ Of(i) \in SUBSET cases
                BY DEF BInv, TInv, Of
            <4> QED
                BY <4>1, FS_Subset
        <3>3. Cardinality(Of(i)) \in Nat
            BY <3>2, FS_CardinalityType
        <3>4. /\ IsFiniteSet(Of(i) \ {c})
              /\ Cardinality(Of(i) \ {c}) = Cardinality(Of(i)) - 1
            BY <3>1, <3>2, FS_RemoveElement
        <3>5. Cardinality((Of(i) \ {c}) \cup {d}) = Cardinality(Of(i))
            <4>1. Cardinality((Of(i) \ {c}) \cup {d}) = Cardinality(Of(i) \ {c}) + 1
                BY <3>1, <3>4, OneMore
            <4> QED
                BY <3>3, <3>4, <4>1
        <3>6. {e.row : e \in Of(i)'} = {e.row : e \in Of(i)}
            BY <1>1, <3>1
        <3> QED
            BY <3>1, <3>5, <3>6
    <2>3. CASE c.batch # i
        <3>1. Of(i)' = Of(i)
            BY <1>1, <2>1, <2>3 DEF Of
        <3> QED
            BY <3>1
    <2> QED
        BY <2>2, <2>3
<1>5. UNCHANGED <<content, batches, import>>
    BY DEF CommitResolution
<1> QED
    BY <1>3, <1>4, <1>5, AsideBInv

LEMMA StepBInv == BInv /\ [Next]_vars => BInv'
<1> SUFFICES ASSUME BInv, [Next]_vars PROVE BInv'
    OBVIOUS
<1>t. TInv /\ TInv'
    BY StepTInv DEF BInv
<1>1. ASSUME NEW q \in Requests, Create(q) PROVE BInv'
    <2>1. PICK a \in Asked : cases' = cases \cup {Created(q, None, 0, a.company, a.contact)}
        BY <1>1 DEF Create
    <2>2. PICK c : c = Created(q, None, 0, a.company, a.contact)
        OBVIOUS
    <2>3. c.id = q /\ c.batch = None
        BY <2>2 DEF Created
    <2>4. CaseIds'
        BY <1>1, <2>1, <2>2, <2>3 DEF Create, BInv, CaseIds
    <2>5. \A i \in Imports : Of(i)' = Of(i)
        BY <2>1, <2>2, <2>3, ConstantsAssumption DEF Of
    <2>6. UNCHANGED <<content, batches, import>>
        BY <1>1 DEF Create
    <2> QED
        BY <1>t, <2>4, <2>5, <2>6, AsideBInv
<1>2. ASSUME NEW i \in Imports, NEW f \in Files, Begin(i, f) PROVE BInv'
    BY <1>2, <1>t, BeginBInv
<1>3. ASSUME NEW i \in Imports, ImportRow(i) PROVE BInv'
    BY <1>3, <1>t, RowBInv
<1>4. ASSUME NEW i \in Imports, CommitImport(i) PROVE BInv'
    BY <1>4, <1>t, CommitBInv
<1>5. ASSUME NEW i \in Imports, LoseImport(i) PROVE BInv'
    <2>1. /\ import' = [import EXCEPT ![i] = [import[i] EXCEPT !.at = "failed", !.rows = {}]]
          /\ import[i].at = "rows"
          /\ UNCHANGED <<content, batches, cases>>
        BY <1>5, <1>t DEF LoseImport, TInv
    <2>2. ~import[i].duplicate
        BY <2>1 DEF BInv, Counted
    <2>3. /\ import'[i].at = "failed" /\ ~import'[i].duplicate
          /\ \A j \in Imports : j # i => import'[j] = import[j]
        <3> DEFINE u == [import[i] EXCEPT !.at = "failed", !.rows = {}]
        <3>1. u.at = "failed" /\ ~u.duplicate
            BY <1>t, <2>2 DEF TInv, ImportCalls
        <3> HIDE DEF u
        <3>2. import' = [import EXCEPT ![i] = u]
            BY <2>1 DEF u
        <3> QED
            BY <1>t, <3>1, <3>2 DEF TInv
    <2> QED
        BY <1>t, <2>1, <2>3, ImportBInv
<1>6. ASSUME NEW r \in Resolutions, CommitResolution(r) PROVE BInv'
    BY <1>6, <1>t, ResolveBInv
<1>7. CASE UNCHANGED <<content, batches, cases, import>>
    <2>1. CaseIds' /\ \A x : Of(x)' = Of(x)
        BY <1>7 DEF BInv, CaseIds, Of
    <2> QED
        BY <1>7, <1>t, <2>1, AsideBInv
<1> QED
    BY <1>1, <1>2, <1>3, <1>4, <1>5, <1>6, <1>7
    DEF Next, ImportStep, ResolutionStep, vars, Ask, LookUp, Insert, LoseResolution

-----------------------------------------------------------------------------
(* One batch a file                                                        *)

\* While a file's first import is under way there is no batch of it, and no
\* other import of it unless they race.
AloneUnlessRaced ==
    \A f \in Files \ raced :
        /\ \A i, j \in Importing(f) : i = j
        /\ Importing(f) # {} => \A b \in batches : b.file # f

FInv ==
    /\ TInv
    /\ AloneUnlessRaced
    /\ OneBatchUnlessRaced

LEMMA InitFInv == Init => FInv
BY InitTInv DEF Init, FInv, AloneUnlessRaced, OneBatchUnlessRaced, Importing, NoImport

\* A step that begins no import and commits none.
LEMMA QuietFInv ==
    ASSUME FInv, TInv', UNCHANGED <<batches, raced>>,
           \A j \in Imports : import'[j].at = "rows" =>
              import[j].at = "rows" /\ import'[j].file = import[j].file
    PROVE  FInv'
<1>1. \A f : Importing(f)' \subseteq Importing(f)
    BY DEF Importing
<1> QED
    BY <1>1 DEF FInv, AloneUnlessRaced, OneBatchUnlessRaced

LEMMA StepFInv == FInv /\ [Next]_vars => FInv'
<1> SUFFICES ASSUME FInv, [Next]_vars PROVE FInv'
    OBVIOUS
<1>t. TInv /\ TInv'
    BY StepTInv DEF FInv
<1>1. ASSUME NEW i \in Imports, NEW f \in Files, Begin(i, f) PROVE FInv'
    <2>1. PICK t : import' = [import EXCEPT ![i] = t]
        BY <1>1, <1>t, BeginTyped
    <2>2. import'[i] = t /\ \A j \in Imports : j # i => import'[j] = import[j]
        BY <1>t, <2>1 DEF TInv
    <2>3. CASE NewBatch(i, f)
        <3>1. /\ import'[i].file = f
              /\ \A b \in batches : b.file # f
              /\ raced' = IF Importing(f) # {} THEN raced \cup {f} ELSE raced
            <4>1. NoImport \in ImportCalls
                BY DEF NoImport, ImportCalls
            <4> QED
                BY <1>t, <2>3, <4>1 DEF NewBatch, TInv, ImportCalls
        <3>2. \A g \in Files : g # f => Importing(g)' \subseteq Importing(g)
            BY <2>2, <3>1 DEF Importing
        <3>3. Importing(f)' \subseteq Importing(f) \cup {i}
            BY <2>2 DEF Importing
        <3>4. batches' = batches
            BY <1>1 DEF Begin
        <3>5. \A g \in Files \ raced' : \A j, k \in Importing(g)' : j = k
            BY <3>1, <3>2, <3>3 DEF FInv, AloneUnlessRaced
        <3>6. \A g \in Files \ raced' : Importing(g)' # {} => \A b \in batches : b.file # g
            BY <3>1, <3>2 DEF FInv, AloneUnlessRaced
        <3>7. OneBatchUnlessRaced'
            BY <3>1, <3>4 DEF FInv, OneBatchUnlessRaced
        <3> QED
            BY <1>t, <3>4, <3>5, <3>6, <3>7 DEF FInv, AloneUnlessRaced
    <2>4. CASE FoundImported(i, f) \/ Refused(i, f)
        <3>1. t.at # "rows"
            <4>1. NoImport \in ImportCalls
                BY DEF NoImport, ImportCalls
            <4>2. CASE FoundImported(i, f)
                <5>1. PICK linked, of : import' = [import EXCEPT ![i] =
                          [NoImport EXCEPT !.at = "done", !.file = f, !.linked = linked,
                                           !.duplicate = TRUE, !.of = of]]
                    BY <4>2 DEF FoundImported
                <5> QED
                    BY <1>t, <2>2, <4>1, <5>1 DEF TInv, ImportCalls
            <4>3. CASE Refused(i, f)
                BY <1>t, <2>2, <4>3 DEF Refused, TInv, ImportCalls
            <4> QED
                BY <2>4, <4>2, <4>3
        <3>2. UNCHANGED <<batches, raced>>
            BY <1>1, <2>4 DEF Begin, FoundImported, Refused
        <3> QED
            BY <1>t, <2>2, <3>1, <3>2, QuietFInv
    <2> QED
        BY <1>1, <2>3, <2>4 DEF Begin
<1>2. ASSUME NEW i \in Imports, ImportRow(i) PROVE FInv'
    <2>1. /\ import' = [import EXCEPT ![i] = import'[i]]
          /\ import[i].at = "rows" /\ import'[i].file = import[i].file
        BY <1>2, <1>t, RowTaken
    <2>2. \A j \in Imports : j # i => import'[j] = import[j]
        BY <1>t, <2>1 DEF TInv
    <2>3. UNCHANGED <<batches, raced>>
        BY <1>2 DEF ImportRow
    <2> QED
        BY <1>t, <2>1, <2>2, <2>3, QuietFInv
<1>3. ASSUME NEW i \in Imports, CommitImport(i) PROVE FInv'
    <2>1. PICK b : b = [id |-> i, file |-> import[i].file, count |-> Len(content[import[i].file])]
        OBVIOUS
    <2>2. /\ b.file = import[i].file /\ i \in Importing(b.file)
          /\ batches' = batches \cup {b} /\ raced' = raced
        BY <1>3, <2>1 DEF CommitImport, Importing
    <2>3. \A j \in Imports : import'[j].at = "rows" => j # i /\ import'[j] = import[j]
        BY <1>3, <1>t DEF CommitImport, TInv, ImportCalls
    <2>4. \A f : Importing(f)' \subseteq Importing(f) \ {i}
        BY <2>3 DEF Importing
    <2>5. b.file \notin raced => \A d \in batches : d.file # b.file
        <3>1. b.file \in Files
            BY <1>3, <1>t, <2>2 DEF CommitImport, TInv
        <3> QED
            BY <2>2, <3>1 DEF FInv, AloneUnlessRaced
    <2>6. OneBatchUnlessRaced'
        BY <2>2, <2>5 DEF FInv, OneBatchUnlessRaced
    <2>7. AloneUnlessRaced'
        BY <2>2, <2>4 DEF FInv, AloneUnlessRaced
    <2> QED
        BY <1>t, <2>6, <2>7 DEF FInv
<1>4. ASSUME NEW i \in Imports, LoseImport(i) PROVE FInv'
    <2>1. \A j \in Imports : import'[j].at = "rows" => import'[j] = import[j]
        BY <1>4, <1>t DEF LoseImport, TInv, ImportCalls
    <2>2. UNCHANGED <<batches, raced>>
        BY <1>4 DEF LoseImport
    <2> QED
        BY <1>t, <2>1, <2>2, QuietFInv
<1>5. CASE UNCHANGED <<batches, raced, import>>
    BY <1>5, <1>t, QuietFInv
<1> QED
    BY <1>1, <1>2, <1>3, <1>4, <1>5
    DEF Next, ImportStep, ResolutionStep, vars, Create, Ask, LookUp, Insert, CommitResolution,
        LoseResolution

-----------------------------------------------------------------------------
(* Which cases are searched for                                            *)

\* The gate lets a label through exactly when one of its words can name a
\* company.
LEMMA GateNames ==
    ASSUME NEW l \in Labels
    PROVE  Assess(l) = None <=> "name" \in Range(l.words)
<1> DEFINE kinds == Range(l.words)
<1>1. /\ l.words \in Seq(WordKinds)
      /\ l.text \in {"blank", "placeholder"} => "name" \notin kinds
    BY DEF Labels
<1>2. kinds \subseteq WordKinds
    BY <1>1 DEF Range
<1>3. l.words = <<>> => kinds = {}
    BY DEF Range
<1>4. Distinctive(l) = kinds \ {"placeholder", "generic", "qualifier"}
    BY DEF Distinctive
<1> HIDE DEF kinds
<1>5. CASE "name" \in kinds
    <2>1. "name" \in Distinctive(l)
        BY <1>4, <1>5
    <2>2. l.words # <<>> /\ kinds # {"placeholder"}
        BY <1>3, <1>5
    <2>3. l.text # "blank" /\ l.text # "placeholder"
        BY <1>1, <1>5
    <2>4. Distinctive(l) # {} /\ Distinctive(l) # {"short"}
        BY <2>1
    <2>5. Assess(l) = None
        BY Zenon, <2>2, <2>3, <2>4 DEF Assess, kinds
    <2> QED
        BY <1>5, <2>5 DEF kinds
<1>6. CASE "name" \notin kinds
    <2>1. Distinctive(l) = {} \/ Distinctive(l) = {"short"}
        BY <1>2, <1>4, <1>6 DEF WordKinds
    <2>2. Assess(l) \in Reasons
        BY <2>1 DEF Assess, Reasons
    <2> QED
        BY <1>6, <2>2, NoneAssumption DEF kinds
<1> QED
    BY <1>5, <1>6 DEF kinds

\* What DiscoveryIffNamed says of a case.
Gated(c) ==
    /\ c.jobs = IF "name" \in Range(c.label.words) THEN <<"discovery">> ELSE <<>>
    /\ c.jobs = <<>> => c.people = 0

\* So are the rows an import has not committed yet.
GInv ==
    /\ TInv
    /\ \A c \in cases : Gated(c)
    /\ \A i \in Imports : \A c \in import[i].rows : Gated(c)

LEMMA CreatedGated ==
    ASSUME NEW id, NEW batch, NEW row, NEW company \in Labels, NEW contact
    PROVE  Gated(Created(id, batch, row, company, contact))
<1> DEFINE c == Created(id, batch, row, company, contact)
<1>1. /\ c.label = company
      /\ c.people = IF Assess(company) = None /\ contact THEN 1 ELSE 0
      /\ c.jobs = IF Assess(company) = None THEN <<"discovery">> ELSE <<>>
    BY DEF Created
<1>2. <<"discovery">> # <<>>
    OBVIOUS
<1> HIDE DEF c
<1> QED
    BY <1>1, <1>2, GateNames DEF Gated, c

LEMMA InitGInv == Init => GInv
BY InitTInv DEF Init, GInv, NoImport

LEMMA StepGInv == GInv /\ [Next]_vars => GInv'
<1> SUFFICES ASSUME GInv, [Next]_vars PROVE GInv'
    OBVIOUS
<1>t. TInv /\ TInv'
    BY StepTInv DEF GInv
<1>1. ASSUME NEW q \in Requests, Create(q) PROVE GInv'
    <2>1. PICK a \in Asked : cases' = cases \cup {Created(q, None, 0, a.company, a.contact)}
        BY <1>1 DEF Create
    <2>2. Gated(Created(q, None, 0, a.company, a.contact))
        BY CreatedGated, ConstantsAssumption
    <2> QED
        BY <1>1, <1>t, <2>1, <2>2 DEF GInv, Create
<1>2. ASSUME NEW i \in Imports, NEW f \in Files, Begin(i, f) PROVE GInv'
    <2>1. PICK t : /\ import' = [import EXCEPT ![i] = t]
                   /\ t.rows \in {import[i].rows, {}}
        BY <1>2, <1>t, BeginTyped
    <2>2. import'[i] = t /\ \A j \in Imports : j # i => import'[j] = import[j]
        BY <1>t, <2>1 DEF TInv
    <2> QED
        BY <1>2, <1>t, <2>1, <2>2 DEF GInv, Begin
<1>3. ASSUME NEW i \in Imports, ImportRow(i) PROVE GInv'
    <2>1. PICK t, row, c :
              /\ t = import[i] /\ row = content[t.file][t.next]
              /\ c = Created(<<i, t.next>>, i, t.next, row.company, row.contact)
        OBVIOUS
    <2>2. /\ row \in FileRows
          /\ import' = [import EXCEPT ![i] = import'[i]]
          /\ import'[i].rows \subseteq t.rows \cup {c}
        BY <1>3, <1>t, <2>1, RowTaken
    <2>3. Gated(c)
        BY <2>1, <2>2, CreatedGated DEF FileRows
    <2>4. \A j \in Imports : j # i => import'[j] = import[j]
        BY <1>t, <2>2 DEF TInv
    <2> QED
        BY <1>3, <1>t, <2>1, <2>2, <2>3, <2>4 DEF GInv, ImportRow
<1>4. ASSUME NEW i \in Imports, CommitImport(i) \/ LoseImport(i) PROVE GInv'
    <2>1. /\ cases' \subseteq cases \cup import[i].rows
          /\ import'[i].rows = {}
          /\ \A j \in Imports : j # i => import'[j] = import[j]
        BY <1>4, <1>t DEF CommitImport, LoseImport, TInv, ImportCalls
    <2> QED
        BY <1>t, <2>1 DEF GInv
<1>5. ASSUME NEW r \in Resolutions, CommitResolution(r) PROVE GInv'
    <2>1. PICK c, d : c = Resolved(r) /\ d = Linked(r)
        OBVIOUS
    <2>2. c \in cases /\ cases' = (cases \ {c}) \cup {d}
        BY <1>5, <1>t, <2>1, CommitWrites
    <2>3. d.label = c.label /\ d.jobs = c.jobs /\ d.people = c.people
        BY <1>t, <2>1, <2>2 DEF Linked, TInv, CaseRows
    <2>4. Gated(d)
        BY <2>2, <2>3 DEF GInv, Gated
    <2> QED
        BY <1>5, <1>t, <2>2, <2>4 DEF GInv, CommitResolution
<1>6. CASE UNCHANGED <<cases, import>>
    BY <1>6, <1>t DEF GInv
<1> QED
    BY <1>1, <1>2, <1>3, <1>4, <1>5, <1>6
    DEF Next, ImportStep, ResolutionStep, vars, Ask, LookUp, Insert, LoseResolution

-----------------------------------------------------------------------------
(* Theorems                                                                *)

\* Every reachable state is well typed.
THEOREM TypeCorrect == Spec => []TypeOK
<1>1. TInv => TypeOK
    BY DEF TInv, TypeOK, CaseRows, ImportCalls, ResolutionCalls
<1> QED
    BY <1>1, InitTInv, StepTInv, PTL DEF Spec

\* Stripping and lowering leave the letters, and nothing but the letters.
LEMMA KeyIsLetters ==
    ASSUME NEW e \in Identified, NEW g \in Identified
    PROVE  SameEntity(e, g) <=> Key(e) = Key(g)
<1> DEFINE Plain(s) == [letters |-> s.letters, lower |-> TRUE, padded |-> FALSE]
<1>1. ASSUME NEW s \in Spellings PROVE Lower(Strip(s)) = Plain(s)
    BY DEF Strip, Lower
<1>2. \A c \in Identified : c.jurisdiction \in Spellings /\ c.number \in Spellings
    BY ConstantsAssumption DEF Identified
<1>3. \A c \in Identified : Key(c) = <<Plain(c.jurisdiction), Plain(c.number)>>
    BY <1>1, <1>2 DEF Key
<1>4. \A s, u \in Spellings : Plain(s) = Plain(u) <=> s.letters = u.letters
    <2> SUFFICES ASSUME NEW s \in Spellings, NEW u \in Spellings
                 PROVE  Plain(s) = Plain(u) <=> s.letters = u.letters
        OBVIOUS
    <2>1. Plain(s).letters = s.letters /\ Plain(u).letters = u.letters
        OBVIOUS
    <2> QED
        BY <2>1
<1> HIDE DEF Plain
<1> QED
    BY <1>2, <1>3, <1>4 DEF SameEntity

\* Any number of racing resolutions, some of them lost, leave the cases of one
\* entity with one counterparty, which is there and is no other entity's
\* (get_or_create_counterparty).
THEOREM OneCounterparty == Spec => []SharedCounterparty
<1>1. RInv => SharedCounterparty
    <2> SUFFICES ASSUME RInv,
                        NEW c \in cases, c.counterparty # None,
                        NEW d \in cases, d.counterparty # None
                 PROVE  /\ LinkedToKey(c)
                        /\ SameEntity(c.candidate, d.candidate) <=>
                               c.counterparty = d.counterparty
        BY DEF SharedCounterparty
    <2>1. LinkedToKey(c) /\ LinkedToKey(d)
        BY DEF RInv, CasesLinked
    <2>2. PICK p \in Known(Key(c.candidate)) :
              p.id = c.counterparty /\ Known(Key(c.candidate)) = {p}
        BY <2>1 DEF LinkedToKey
    <2>3. PICK q \in Known(Key(d.candidate)) :
              q.id = d.counterparty /\ Known(Key(d.candidate)) = {q}
        BY <2>1 DEF LinkedToKey
    <2>4. /\ p \in counterparties /\ p.key = Key(c.candidate)
          /\ q \in counterparties /\ q.key = Key(d.candidate)
        BY <2>2, <2>3 DEF Known
    <2>5. p.id = q.id => p = q
        BY <2>4 DEF RInv, RowsCommitted
    <2>6. SameEntity(c.candidate, d.candidate) <=> Key(c.candidate) = Key(d.candidate)
        BY <2>1, KeyIsLetters DEF LinkedToKey
    <2>7. Key(c.candidate) = Key(d.candidate) => p.id = q.id
        BY <2>2, <2>3
    <2> QED
        BY <2>1, <2>2, <2>3, <2>4, <2>5, <2>6, <2>7
<1> QED
    BY <1>1, InitRInv, StepRInv, PTL DEF Spec

\* A batch of any length has a case for each row that could be stored, and its
\* call reported just that (import_rows).
THEOREM RowsAreAccounted == Spec => []RowsAccounted
<1>1. BInv => RowsAccounted
    <2> SUFFICES ASSUME BInv, NEW b \in batches
                 PROVE  LET rows == content[b.file]
                            stored == {n \in DOMAIN rows : Accepts(rows[n])}
                        IN
                        /\ {c.row : c \in Of(b.id)} = stored
                        /\ Cardinality(Of(b.id)) = Cardinality(stored)
                        /\ import[b.id].accepted = Cardinality(stored)
                        /\ import[b.id].accepted + import[b.id].rejected = b.count
        BY DEF RowsAccounted
    <2>1. BatchCounted(b) /\ b.count \in Nat /\ b.count = Len(content[b.file])
        BY DEF BInv, BatchCounted, TInv
    <2>2. PICK stored : stored = {n \in DOMAIN content[b.file] : Accepts(content[b.file][n])}
        OBVIOUS
    <2>a. content[b.file] \in Seq(FileRows)
        BY <2>1, RowTyped DEF BatchCounted, BInv, TInv
    <2>3. stored = Upto(b.file, b.count)
        <3>1. DOMAIN content[b.file] = 1..b.count
            BY <2>1, <2>a
        <3> QED
            BY <2>2, <3>1 DEF Upto
    <2> QED
        BY <2>1, <2>2, <2>3 DEF BatchCounted
<1> QED
    BY <1>1, InitBInv, StepBInv, PTL DEF Spec

\* What a call reports is what is there: a duplicate names a batch and counts
\* its cases, a failed call leaves none (import_rows).
THEOREM ResultsAreTrue == Spec => []ResultsTrue
<1>1. BInv => ResultsTrue
    BY DEF BInv, NoneYet, Duplicates, ResultsTrue
<1> QED
    BY <1>1, InitBInv, StepBInv, PTL DEF Spec

\* A file has one batch unless two of its imports ran at the same time
\* (import_rows).
THEOREM OneBatch == Spec => []OneBatchUnlessRaced
<1>1. FInv => OneBatchUnlessRaced
    BY DEF FInv
<1> QED
    BY <1>1, InitFInv, StepFInv, PTL DEF Spec

\* A case is searched for exactly when its label has a word that can name a
\* company, whatever files of any length and single requests ask for
\* (assess_intake, create_investigation).
THEOREM OnlyNamedAreSearched == Spec => []DiscoveryIffNamed
<1>1. GInv => DiscoveryIffNamed
    BY DEF GInv, Gated, DiscoveryIffNamed
<1> QED
    BY <1>1, InitGInv, StepGInv, PTL DEF Spec

=============================================================================
