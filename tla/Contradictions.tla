--------------------------- MODULE Contradictions ---------------------------
(***************************************************************************)
(* The contradiction engine: the rules of services/contradictions.py as    *)
(* predicates of a ContradictionContext, which holds what the subject      *)
(* claims and what the sources established.  Names are compared after      *)
(* normalisation and years are numbers; a jurisdiction is the sequence of  *)
(* its parts, a country and perhaps a state, so that one text contains     *)
(* another when one sequence starts with the other.                        *)
(***************************************************************************)
EXTENDS Integers, Sequences, SequencesExt

CONSTANT None    \* an unknown fact

\* What an intake claims about its subject.
ClaimFields == {"since", "incorporated", "directors", "jurisdiction", "number", "licence",
                "email", "website"}

\* What the registry rules know when no entity is resolved.
NoEntity == [incorporated |-> None, jurisdiction |-> None, number |-> None]

FirstKnown(a, b) == IF a # None THEN a ELSE b

\* _operating_since_before_incorporation
PredatesIncorporation(ctx) ==
    LET claimed == FirstKnown(ctx.claims.since, ctx.claims.incorporated) IN
    /\ claimed # None
    /\ ctx.entity.incorporated # None
    /\ claimed < ctx.entity.incorporated - 1

\* _jurisdiction_mismatch
JurisdictionDiffers(ctx) ==
    /\ ctx.claims.jurisdiction # None
    /\ ctx.entity.jurisdiction # None
    /\ ~IsPrefix(ctx.claims.jurisdiction, ctx.entity.jurisdiction)
    /\ ~IsPrefix(ctx.entity.jurisdiction, ctx.claims.jurisdiction)

\* _registration_number_mismatch
NumberDiffers(ctx) ==
    /\ ctx.claims.number # None
    /\ ctx.entity.number # None
    /\ ctx.claims.number # ctx.entity.number

\* _claimed_director_not_found: no officer at all is no data.
MissingDirectors(ctx) ==
    IF ctx.officers = {} THEN {} ELSE ctx.claims.directors \ ctx.officers

\* _licence_not_independently_established
LicenceNotEstablished(ctx) == ctx.claims.licence /\ ~ctx.regulator

\* _contact_email_domain_mismatch
EmailElsewhere(ctx) ==
    /\ ctx.claims.email # None
    /\ ctx.claims.website # None
    /\ ctx.claims.email # ctx.claims.website

\* _domain_age_vs_operating_history
DomainTooYoung(ctx) ==
    /\ ctx.claims.since # None
    /\ \E d \in ctx.domains :
          /\ ctx.claims.website # None => d.name = ctx.claims.website
          /\ d.registered # None
          /\ d.registered > ctx.claims.since + 2

Rules ==
    {"operating_since_before_incorporation", "jurisdiction_mismatch",
     "registration_number_mismatch", "claimed_director_not_found",
     "licence_not_independently_established", "contact_email_domain_mismatch",
     "domain_age_vs_operating_history"}

\* evaluate: every rule that finds a discrepancy.
Evaluate(ctx) ==
    LET holds == [operating_since_before_incorporation |-> PredatesIncorporation(ctx),
                  jurisdiction_mismatch |-> JurisdictionDiffers(ctx),
                  registration_number_mismatch |-> NumberDiffers(ctx),
                  claimed_director_not_found |-> MissingDirectors(ctx) # {},
                  licence_not_independently_established |-> LicenceNotEstablished(ctx),
                  contact_email_domain_mismatch |-> EmailElsewhere(ctx),
                  domain_age_vs_operating_history |-> DomainTooYoung(ctx)]
    IN {r \in Rules : holds[r]}

=============================================================================
