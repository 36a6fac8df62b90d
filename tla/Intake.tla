------------------------------- MODULE Intake -------------------------------
(***************************************************************************)
(* How cases enter the system and how they come to share a counterparty:   *)
(* imports of whole files (services/bulk_import.py), single cases          *)
(* (POST /investigations), and the resolution of two cases to one legal    *)
(* entity (get_or_create_counterparty).                                    *)
(*                                                                         *)
(* Every call is one transaction on READ COMMITTED: it sees what is        *)
(* committed and its own rows, and they become visible when it commits.    *)
(* The unique index on counterparty.identity_key makes an insert wait for  *)
(* an open transaction that has inserted the same key, and fail if that    *)
(* one commits; the index on import_batch.file_fingerprint is not unique.  *)
(* The row inserted by a call is named after the call.                     *)
(***************************************************************************)
EXTENDS IntakeGate, Naturals, FiniteSets

CONSTANTS
    Files,         \* file contents: two files with one content are one file
    Contents,      \* bound: the rows a file may have, None if it cannot be parsed
    Imports,       \* calls of import_rows
    Requests,      \* calls of POST /investigations
    Asked,         \* bound: the labels and contacts they send
    Resolutions,   \* calls of POST /investigations/{id}/resolve-entity
    Candidates,    \* candidates discovery may find, as the registers write them
    MaxFaults      \* bound: transactions lost with their connection or process

\* A spelling: its letters, whether they are in lower case, blanks around it.
Spellings == [letters : STRING, lower : BOOLEAN, padded : BOOLEAN]

ASSUME ConstantsAssumption ==
    /\ Candidates \subseteq [jurisdiction : Spellings \cup {None}, number : Spellings \cup {None}]
    /\ None \notin Candidates
    /\ None \notin Imports \cup Resolutions
    /\ \A q \in Requests : q \notin Imports \X Nat
    /\ \A rows \in Contents \ {None} :
          rows \in Seq([company : Labels, contact : BOOLEAN, storable : BOOLEAN])
    /\ Asked \subseteq [company : Labels, contact : BOOLEAN]
    /\ MaxFaults \in Nat

VARIABLES
    content,         \* what each file holds
    batches,         \* import_batch rows
    cases,           \* investigation rows, with the rows that came with them
    counterparties,  \* counterparty rows
    import,          \* where each import is, and its result
    resolution,      \* where each resolution is
    raced,           \* history: files imported twice at the same time
    faults

vars == <<content, batches, cases, counterparties, import, resolution, raced, faults>>

NoImport == [at |-> "away", file |-> None, next |-> 1, rows |-> {},
             accepted |-> 0, rejected |-> 0, linked |-> 0, duplicate |-> FALSE, of |-> None]
NoResolution == [at |-> "away", case |-> None, candidate |-> None, new |-> FALSE,
                 link |-> None]

Open == {"loaded", "inserting", "writing"}

-----------------------------------------------------------------------------
Init ==
    /\ content \in [Files -> Contents]
    /\ batches = {}
    /\ cases = {}
    /\ counterparties = {}
    /\ import = [i \in Imports |-> NoImport]
    /\ resolution = [r \in Resolutions |-> NoResolution]
    /\ raced = {}
    /\ faults = 0

(* create_investigation: the case, the contact as a candidate and the      *)
(* discovery job, or a hard stop at the gate.                              *)
Created(id, batch, row, company, contact) ==
    [id |-> id, batch |-> batch, row |-> row, label |-> company,
     clarify |-> Assess(company), counterparty |-> None, candidate |-> None,
     people |-> IF Assess(company) = None /\ contact THEN 1 ELSE 0,
     jobs |-> IF Assess(company) = None THEN <<"discovery">> ELSE <<>>]

(* POST /investigations                                                    *)
Create(q) ==
    /\ \A c \in cases : c.id # q
    /\ \E a \in Asked : cases' = cases \cup {Created(q, None, 0, a.company, a.contact)}
    /\ UNCHANGED <<content, batches, counterparties, import, resolution, raced, faults>>

-----------------------------------------------------------------------------
(* import_rows                                                             *)

Of(batch) == {c \in cases : c.batch = batch}
Importing(f) == {i \in Imports : import[i].at = "rows" /\ import[i].file = f}

\* The file was imported before: the result of one of its batches.  Mutant:
\* its rows are counted, not its cases.
FoundImportedRows(i, f) ==
    /\ \E b \in batches :
          /\ b.file = f
          /\ import' = [import EXCEPT ![i] = [NoImport EXCEPT !.at = "done", !.file = f,
                           !.linked = b.count, !.duplicate = TRUE, !.of = b.id]]
    /\ UNCHANGED raced
FoundImported(i, f) ==
    /\ \E b \in batches :
          /\ b.file = f
          /\ import' = [import EXCEPT ![i] = [NoImport EXCEPT !.at = "done", !.file = f,
                           !.linked = Cardinality(Of(b.id)), !.duplicate = TRUE, !.of = b.id]]
    /\ UNCHANGED raced

\* Unknown or unreadable: ValueError, before anything is inserted.
Refused(i, f) ==
    /\ \A b \in batches : b.file # f
    /\ content[f] = None
    /\ import' = [import EXCEPT ![i].at = "failed"]
    /\ UNCHANGED raced

\* The batch is inserted; other transactions do not see it yet.
NewBatch(i, f) ==
    /\ \A b \in batches : b.file # f
    /\ content[f] # None
    /\ import' = [import EXCEPT ![i] = [NoImport EXCEPT !.at = "rows", !.file = f, !.of = i]]
    /\ raced' = IF Importing(f) # {} THEN raced \cup {f} ELSE raced

\* Mutant: the fingerprint is not looked up.
BeginUnchecked(i, f) ==
    /\ import[i].at = "away"
    /\ content[f] # None
    /\ import' = [import EXCEPT ![i] = [NoImport EXCEPT !.at = "rows", !.file = f, !.of = i]]
    /\ raced' = IF Importing(f) # {} THEN raced \cup {f} ELSE raced
    /\ UNCHANGED <<content, batches, cases, counterparties, resolution, faults>>
Begin(i, f) ==
    /\ import[i].at = "away"
    /\ FoundImported(i, f) \/ Refused(i, f) \/ NewBatch(i, f)
    /\ UNCHANGED <<content, batches, cases, counterparties, resolution, faults>>

\* A row makes a case when it names a company and a contact and the database
\* stores it; otherwise only its savepoint is rolled back.
Accepts(row) == row.company.text # "blank" /\ row.contact /\ row.storable

\* One row of the file.  Mutant: a row with the label of an earlier one makes
\* no case.
TakeCollapsed(t, i, n, row) ==
    IF Accepts(row) /\ \A c \in t.rows : c.label # row.company
    THEN [t EXCEPT !.next = n + 1, !.accepted = @ + 1,
                   !.rows = @ \cup {Created(<<i, n>>, i, n, row.company, row.contact)}]
    ELSE [t EXCEPT !.next = n + 1, !.rejected = @ + 1]
Take(t, i, n, row) ==
    IF Accepts(row)
    THEN [t EXCEPT !.next = n + 1, !.accepted = @ + 1,
                   !.rows = @ \cup {Created(<<i, n>>, i, n, row.company, row.contact)}]
    ELSE [t EXCEPT !.next = n + 1, !.rejected = @ + 1]

ImportRow(i) ==
    LET t == import[i] IN
    /\ t.at = "rows"
    /\ t.next <= Len(content[t.file])
    /\ import' = [import EXCEPT ![i] = Take(t, i, t.next, content[t.file][t.next])]
    /\ UNCHANGED <<content, batches, cases, counterparties, resolution, raced, faults>>

(* The caller's commit.                                                    *)
CommitImport(i) ==
    LET t == import[i] IN
    /\ t.at = "rows"
    /\ t.next > Len(content[t.file])
    /\ batches' = batches \cup {[id |-> i, file |-> t.file, count |-> Len(content[t.file])]}
    /\ cases' = cases \cup t.rows
    /\ import' = [import EXCEPT ![i].at = "done", ![i].rows = {}]
    /\ UNCHANGED <<content, counterparties, resolution, raced, faults>>

LoseImport(i) ==
    /\ import[i].at = "rows"
    /\ faults < MaxFaults
    /\ faults' = faults + 1
    /\ import' = [import EXCEPT ![i].at = "failed", ![i].rows = {}]
    /\ UNCHANGED <<content, batches, cases, counterparties, resolution, raced>>

-----------------------------------------------------------------------------
(* resolve_entity, as far as the counterparty goes: CaseLifecycle has the  *)
(* rest.  Any candidate may have been found for a case that was searched.  *)

\* Candidates with a jurisdiction and a registry identifier.
Identified == {e \in Candidates : e.jurisdiction # None /\ e.number # None}

\* identity_key: both, stripped and lowered.  Mutant: as the register has them.
Strip(s) == [letters |-> s.letters, lower |-> s.lower, padded |-> FALSE]
Lower(s) == [letters |-> s.letters, lower |-> TRUE, padded |-> s.padded]
KeyAsWritten(candidate) == <<candidate.jurisdiction, candidate.number>>
Key(candidate) == <<Lower(Strip(candidate.jurisdiction)), Lower(Strip(candidate.number))>>

Known(key) == {p \in counterparties : p.key = key}

\* The case is loaded, unresolved; otherwise 409.
Ask(r, c, e) ==
    /\ resolution[r].at = "away"
    /\ c.jobs # <<>>
    /\ resolution' = [resolution EXCEPT ![r] =
          IF c.counterparty # None THEN [NoResolution EXCEPT !.at = "refused"]
          ELSE [NoResolution EXCEPT !.at = "loaded", !.case = c.id, !.candidate = e]]
    /\ UNCHANGED <<content, batches, cases, counterparties, import, raced, faults>>

\* get_or_create_counterparty: 422 without a full identity, else the row of
\* that key is looked up.
LookUp(r) ==
    LET e == resolution[r].candidate IN
    /\ resolution[r].at = "loaded"
    /\ \/ /\ e \notin Identified
          /\ resolution' = [resolution EXCEPT ![r].at = "refused"]
       \/ /\ e \in Identified
          /\ Known(Key(e)) = {}
          /\ resolution' = [resolution EXCEPT ![r].at = "inserting"]
       \/ /\ e \in Identified
          /\ \E p \in Known(Key(e)) :
             resolution' = [resolution EXCEPT ![r].at = "writing", ![r].link = p.id]
    /\ UNCHANGED <<content, batches, cases, counterparties, import, raced, faults>>

\* An uncommitted row of the key belongs to another transaction.
Held(r, key) ==
    \E q \in Resolutions \ {r} :
        resolution[q].at = "writing" /\ resolution[q].new /\ Key(resolution[q].candidate) = key

\* The INSERT.  Mutants: a failed insert is tried again and again; its failure
\* is ignored.
InsertAgain(r) ==
    LET key == Key(resolution[r].candidate) IN
    /\ resolution[r].at = "inserting"
    /\ ~Held(r, key)
    /\ Known(key) = {}
    /\ resolution' = [resolution EXCEPT ![r].at = "writing", ![r].new = TRUE, ![r].link = r]
    /\ UNCHANGED <<content, batches, cases, counterparties, import, raced, faults>>
InsertIgnored(r) ==
    LET key == Key(resolution[r].candidate) IN
    /\ resolution[r].at = "inserting"
    /\ ~Held(r, key)
    /\ resolution' = [resolution EXCEPT ![r] =
          [@ EXCEPT !.at = "writing", !.new = Known(key) = {}, !.link = r]]
    /\ UNCHANGED <<content, batches, cases, counterparties, import, raced, faults>>
Insert(r) ==
    LET key == Key(resolution[r].candidate) IN
    /\ resolution[r].at = "inserting"
    /\ ~Held(r, key)
    /\ resolution' = [resolution EXCEPT ![r] =
          IF Known(key) # {} THEN [@ EXCEPT !.at = "failed"]
          ELSE [@ EXCEPT !.at = "writing", !.new = TRUE, !.link = r]]
    /\ UNCHANGED <<content, batches, cases, counterparties, import, raced, faults>>

CommitResolution(r) ==
    LET t == resolution[r]
        c == CHOOSE c \in cases : c.id = t.case
    IN
    /\ t.at = "writing"
    /\ counterparties' = IF t.new THEN counterparties \cup {[id |-> r, key |-> Key(t.candidate)]}
                         ELSE counterparties
    /\ cases' = (cases \ {c}) \cup
                {[c EXCEPT !.counterparty = t.link, !.candidate = t.candidate]}
    /\ resolution' = [resolution EXCEPT ![r].at = "done"]
    /\ UNCHANGED <<content, batches, import, raced, faults>>

LoseResolution(r) ==
    /\ resolution[r].at \in Open
    /\ faults < MaxFaults
    /\ faults' = faults + 1
    /\ resolution' = [resolution EXCEPT ![r].at = "lost"]
    /\ UNCHANGED <<content, batches, cases, counterparties, import, raced>>

-----------------------------------------------------------------------------
ImportStep(i) == ImportRow(i) \/ CommitImport(i)
ResolutionStep(r) == LookUp(r) \/ Insert(r) \/ CommitResolution(r)

Next ==
    \/ \E q \in Requests : Create(q)
    \/ \E i \in Imports : (\E f \in Files : Begin(i, f)) \/ ImportStep(i) \/ LoseImport(i)
    \/ \E r \in Resolutions :
          (\E c \in cases, e \in Candidates : Ask(r, c, e)) \/ ResolutionStep(r) \/ LoseResolution(r)

\* A call that has begun goes on: the server runs its handler to its end.
Fairness ==
    /\ \A i \in Imports : WF_vars(ImportStep(i))
    /\ \A r \in Resolutions : WF_vars(ResolutionStep(r))

Spec == Init /\ [][Next]_vars /\ Fairness

-----------------------------------------------------------------------------
(* Properties                                                              *)

TypeOK ==
    /\ content \in [Files -> Contents]
    /\ batches \subseteq [id : Imports, file : Files, count : Nat]
    /\ \A c \in cases : c.label \in Labels /\ c.batch \in Imports \cup {None}
    /\ counterparties \subseteq [id : Resolutions, key : {Key(e) : e \in Identified}]
    /\ \A i \in Imports : import[i].at \in {"away", "rows", "done", "failed"}
    /\ \A r \in Resolutions :
          resolution[r].at \in Open \cup {"away", "refused", "failed", "lost", "done"}
    /\ raced \subseteq Files

\* A case is searched for exactly when its label has a word that can identify
\* a company, and then with one job: what the gate stops leaves no job and no
\* contact behind (assess_intake, create_investigation).
DiscoveryIffNamed ==
    \A c \in cases :
        /\ c.jobs = IF "name" \in Range(c.label.words) THEN <<"discovery">> ELSE <<>>
        /\ c.jobs = <<>> => c.people = 0

\* A committed batch has one case for each row that could be stored and no
\* other, equal rows included, and its call reported just that (import_rows).
RowsAccounted ==
    \A b \in batches :
        LET rows == content[b.file]
            stored == {n \in DOMAIN rows : Accepts(rows[n])}
        IN
        /\ {c.row : c \in Of(b.id)} = stored
        /\ Cardinality(Of(b.id)) = Cardinality(stored)
        /\ import[b.id].accepted = Cardinality(stored)
        /\ import[b.id].accepted + import[b.id].rejected = b.count

\* A call that ends as a duplicate names a batch of the same file and all of
\* its cases; a call that fails leaves none (import_rows).
ResultsTrue ==
    \A i \in Imports :
        /\ import[i].at = "failed" => Of(i) = {}
        /\ import[i].duplicate =>
              /\ \E b \in batches : b.id = import[i].of /\ b.file = import[i].file
              /\ import[i].linked = Cardinality(Of(import[i].of))
              /\ Of(i) = {}

\* The same file imported again creates no second batch, whatever failed
\* before, if no two of its imports ran at the same time (import_rows).
OneBatchUnlessRaced ==
    \A b, d \in batches : b.file = d.file /\ b.file \notin raced => b = d

\* The same file imported again creates no second batch (import_rows).
OneBatchPerFile == \A b, d \in batches : b.file = d.file => b = d

\* The case is linked to the one committed counterparty of its identity.
LinkedToKey(c) ==
    /\ c.candidate \in Identified
    /\ \E p \in Known(Key(c.candidate)) :
          /\ p.id = c.counterparty
          /\ Known(Key(c.candidate)) = {p}

\* Two candidates are one entity, but for the letters' case and blanks around.
SameEntity(e, g) ==
    /\ e.jurisdiction.letters = g.jurisdiction.letters
    /\ e.number.letters = g.number.letters

\* Cases resolved to one entity share one counterparty, however the registers
\* write it, and those of different entities do not: racing resolutions do not
\* create it twice, and no case is left with a row that a lost transaction took
\* with it (get_or_create_counterparty).
SharedCounterparty ==
    LET resolved == {c \in cases : c.counterparty # None} IN
    /\ \A c \in resolved : LinkedToKey(c)
    /\ \A c, d \in resolved :
          SameEntity(c.candidate, d.candidate) <=> c.counterparty = d.counterparty

\* Every call that has begun ends, no insert waits for ever: as each is made
\* once, in the end none is open.
CallsEnd ==
    <>[](/\ \A i \in Imports : import[i].at # "rows"
         /\ \A r \in Resolutions : resolution[r].at \notin Open)

=============================================================================
