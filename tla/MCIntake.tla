------------------------------ MODULE MCIntake ------------------------------
(***************************************************************************)
(* Instances of Intake.  A file has two equal rows around one the database *)
(* refuses, or a row without a contact and one for each way the gate stops *)
(* a label; a blank label can only be sent singly.  Two candidates spell   *)
(* one entity differently, a third is another, a fourth has no identifier. *)
(***************************************************************************)
EXTENDS Intake

CONSTANTS f, i1, i2, q1, r1, r2

Label(text, words) == [text |-> text, words |-> words]
Name == Label("other", <<"name", "generic">>)
Row(company, contact, storable) ==
    [company |-> company, contact |-> contact, storable |-> storable]

Stopped ==
    <<Label("placeholder", <<"short", "qualifier">>), Label("other", <<>>),
      Label("other", <<"placeholder">>), Label("other", <<"placeholder", "generic">>),
      Label("other", <<"short", "qualifier">>)>>

MCContents ==
    {None,
     <<Row(Name, TRUE, TRUE), Row(Name, TRUE, FALSE), Row(Name, TRUE, TRUE)>>,
     <<Row(Name, FALSE, TRUE)>> \o [n \in DOMAIN Stopped |-> Row(Stopped[n], TRUE, TRUE)]}
MCAsked ==
    {[company |-> Name, contact |-> FALSE],
     [company |-> Label("other", <<"short", "name">>), contact |-> TRUE],
     [company |-> Label("blank", <<>>), contact |-> TRUE]}

Spelling(letters, lower, padded) == [letters |-> letters, lower |-> lower, padded |-> padded]
Candidate(jurisdiction, number) == [jurisdiction |-> jurisdiction, number |-> number]
MCCandidates ==
    {Candidate(Spelling("gb", FALSE, FALSE), Spelling("sc1", FALSE, FALSE)),
     Candidate(Spelling("gb", TRUE, FALSE), Spelling("sc1", FALSE, TRUE)),
     Candidate(Spelling("gb", FALSE, FALSE), Spelling("sc2", TRUE, FALSE)),
     Candidate(Spelling("gb", FALSE, FALSE), None)}
=============================================================================
