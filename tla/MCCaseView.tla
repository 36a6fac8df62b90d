----------------------------- MODULE MCCaseView -----------------------------
(***************************************************************************)
(* Small instances of CaseView: a page and another analyst.                *)
(***************************************************************************)
EXTENDS CaseView

CONSTANTS r1, r2, f1, a1, a2

=============================================================================
