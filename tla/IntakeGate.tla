----------------------------- MODULE IntakeGate -----------------------------
(***************************************************************************)
(* The intake quality gate (intake/gate.py): whether a raw company label   *)
(* is good enough to begin discovery.                                      *)
(*                                                                         *)
(* A label is what its text is as a whole, and the kinds of its words:     *)
(* the fixed word lists are disjoint, and only a word of no list can be    *)
(* too short.  Some placeholders have no word ("??"), and "n/a" has two,   *)
(* a short one and a qualifier.                                            *)
(***************************************************************************)
EXTENDS SequencesExt

CONSTANT None

Reasons == {"no label", "placeholder", "no usable characters", "only placeholder text",
            "generic descriptor", "too short"}

ASSUME NoneAssumption == None \notin Reasons

WordKinds == {"placeholder", "generic", "qualifier", "short", "name"}
Texts == {"blank", "placeholder", "other"}

\* A blank label has no words, and no placeholder has one that names a company.
Labels ==
    {l \in [text : Texts, words : Seq(WordKinds)] :
        l.text \in {"blank", "placeholder"} => "name" \notin Range(l.words)}

Distinctive(l) == Range(l.words) \ {"placeholder", "generic", "qualifier"}

\* The reason to ask for clarification, None if there is none: the first that
\* applies.  Mutant: one short word is enough to ask.
AssessEachWord(l) ==
    IF l.text = "blank" THEN "no label"
    ELSE IF l.text = "placeholder" THEN "placeholder"
    ELSE IF l.words = <<>> THEN "no usable characters"
    ELSE IF Range(l.words) = {"placeholder"} THEN "only placeholder text"
    ELSE IF Distinctive(l) = {} THEN "generic descriptor"
    ELSE IF "short" \in Distinctive(l) THEN "too short"
    ELSE None
Assess(l) ==
    IF l.text = "blank" THEN "no label"
    ELSE IF l.text = "placeholder" THEN "placeholder"
    ELSE IF l.words = <<>> THEN "no usable characters"
    ELSE IF Range(l.words) = {"placeholder"} THEN "only placeholder text"
    ELSE IF Distinctive(l) = {} THEN "generic descriptor"
    ELSE IF Distinctive(l) = {"short"} THEN "too short"
    ELSE None

=============================================================================
