------------------------------- MODULE MCScope -------------------------------
(***************************************************************************)
(* The scope algebra over every small scope, and the validation of         *)
(* divisions over every short schedule.  A state is one choice of inputs.  *)
(* MCAlgebra runs it beside the tokens that rest on it.                    *)
(***************************************************************************)
EXTENDS Scope

CONSTANTS
    Amounts,    \* values of the numeric dimensions
    BandBudgets, \* budgets of the bands
    AlgebraContexts, \* transactions
    BandTime,   \* bound on the windows of the bands
    MaxBands    \* bound on the length of a schedule

ASSUME AlgebraAssumption ==
    /\ Amounts \subseteq Int /\ BandBudgets \subseteq Int /\ BandTime \in Nat
    /\ \A tc \in AlgebraContexts : tc.amount \in Int

MCContexts == [amount : {0, 1, 2}, currency : {"USD", "EUR"}]

Partial(D, V) == UNION {[E -> V] : E \in SUBSET D}

joined(n, e, l) ==
    [d \in DOMAIN n \union DOMAIN e \union DOMAIN l |->
        IF d \in DOMAIN n THEN n[d] ELSE IF d \in DOMAIN e THEN e[d] ELSE l[d]]

\* Every scope over the dimensions with the small values.
ScopeParts == [numbers : Partial(Ceilings \union Undeclared, Amounts),
               exacts  : Partial(Exacts, ExactValues),
               lists   : Partial(Lists, SUBSET ListItems)]
SmallScopes == {joined(p.numbers, p.exacts, p.lists) : p \in ScopeParts}

VARIABLES permitted, requested, other, bands
algebraVars == <<permitted, requested, other, bands>>

NoScope == [d \in {} |-> 0]
AlgebraInit == permitted = NoScope /\ requested = NoScope /\ other = NoScope /\ bands = <<>>

\* A policy ceiling, a request and a third scope.
ChooseScopes ==
    /\ AlgebraInit
    /\ permitted' \in SmallScopes
    /\ requested' \in SmallScopes
    /\ other' \in SmallScopes
    /\ UNCHANGED bands

\* A schedule grows band by band under a budget of 2.
Budget == [d \in {"max_cumulative", "currency"} |->
              IF d = "currency" THEN "USD" ELSE 2]
AddBand ==
    /\ permitted = NoScope /\ requested = NoScope /\ other = NoScope
    /\ Len(bands) < MaxBands
    /\ \E cum \in BandBudgets, cur \in ExactValues, nbf, exp \in 0..BandTime :
          bands' = Append(bands,
              [scope |-> [Budget EXCEPT !["max_cumulative"] = cum, !["currency"] = cur],
               nbf |-> nbf, exp |-> exp])
    /\ UNCHANGED <<permitted, requested, other>>

AlgebraNext == ChooseScopes \/ AddBand

-----------------------------------------------------------------------------
\* The scope that Intersect grants at root issuance is the greatest lower
\* bound: it is contained in the policy ceiling and keeps every dimension of
\* it, and it grants whatever both the ceiling and the request contain.
RootIsGLB == IntersectGLB(permitted, requested, other)

\* No transaction passes under the root scope that the policy ceiling
\* refuses, although the request chose what to mention.
RootWithinPolicy ==
    \A tc \in AlgebraContexts :
        /\ ValidateIssuance(permitted)
        /\ IntersectOK(permitted, requested)
        /\ Authorizes(Intersect(permitted, requested), tc)
        => Authorizes(permitted, tc)

\* A child that is contained in its parent stays contained when it inherits
\* the parent's currency, and then denominates every ceiling it declares.
InheritedUnitNarrows == InheritedUnit(permitted, requested)

\* The verifier's overlay tightens: a transaction that passes under a parent
\* overlaid with a child passes under the parent, and respects every bound
\* the child declares, even when the child dropped dimensions.
OverlayWithinParent ==
    \A tc \in AlgebraContexts :
        /\ Contains(permitted, requested)
        /\ Authorizes(overlayScope(permitted, requested), tc)
        => Authorizes(permitted, tc) /\ Within(requested, tc)

\* At most one band of an accepted schedule is live at any moment, whatever
\* order the bands were given in: ValidateBandDivision compares neighbours of
\* the sorted schedule only.
OneBandLive ==
    ValidateBandDivision(Budget, 0, BandTime, bands) =>
        \A t \in 0..BandTime :
            \A i, j \in DOMAIN bands :
                /\ bands[i].nbf <= t /\ t < bands[i].exp
                /\ bands[j].nbf <= t /\ t < bands[j].exp
                => i = j

\* Whatever is minted is within what it is minted from, by either rule.
IssuanceNarrows == RootIsGLB /\ RootWithinPolicy /\ InheritedUnitNarrows

\* Whatever the verifier lets pass is within every token of the chain and
\* within the one band that is live.
VerificationNarrows == OverlayWithinParent /\ OneBandLive

=============================================================================
