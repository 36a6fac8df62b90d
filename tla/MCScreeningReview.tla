------------------------- MODULE MCScreeningReview -------------------------
(***************************************************************************)
(* Small instances of ScreeningReview for TLC.  Two results suffice: the   *)
(* one reviewed and one it is compared with; three let a review compare    *)
(* with two different states.                                              *)
(***************************************************************************)
EXTENDS ScreeningReview

CONSTANTS r1, r2, r3, f1, a1, a2

OneResult == {r1}
TwoResults == {r1, r2}
ThreeResults == {r1, r2, r3}
OneFinding == {f1}
NoFinding == {}
OneAnalyst == {a1}
TwoAnalysts == {a1, a2}

=============================================================================
