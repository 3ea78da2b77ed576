-------------------------------- MODULE Scope --------------------------------
(***************************************************************************)
(* The scope algebra of internal/tbac: containment, root intersection, the *)
(* projection of a transaction, the issuance checks, and the division of a *)
(* cumulative budget into committed sub-bands.                             *)
(*                                                                         *)
(* A scope is a function from the dimensions it declares to their values.  *)
(* A dimension inside a nested object is a dimension of its own, named by  *)
(* its path, so the recursion of the code over nested objects is           *)
(* quantification over paths.  A dimension has one JSON type: the type     *)
(* mismatches of the code, all of them refusals, have no counterpart.      *)
(*                                                                         *)
(* An operation that can fail is a pair: a predicate for the conditions of *)
(* its error returns, and the value it returns when they do not occur.     *)
(***************************************************************************)
EXTENDS Integers, Sequences, Functions

CONSTANTS
    Ceilings,     \* numeric dimensions declared in numericDirection
    Undeclared,   \* numeric dimensions that are not
    Exacts,       \* string and boolean dimensions
    Lists,        \* list dimensions
    ExactValues,  \* values of the string and boolean dimensions
    ListItems,    \* elements of the lists
    Unit          \* from each money ceiling to the currency of its object

Dims == Ceilings \union Undeclared \union Exacts \union Lists

\* The top-level dimensions that a transaction is projected on.
moneyDims == {"max_amount", "max_cumulative"}

ASSUME DimsAssumption ==
    /\ moneyDims \subseteq Ceilings
    /\ "currency" \in Exacts
    /\ Ceilings \intersect Undeclared = {}
    /\ (Ceilings \union Undeclared) \intersect (Exacts \union Lists) = {}
    /\ Exacts \intersect Lists = {}

ASSUME UnitAssumption ==
    /\ DOMAIN Unit \subseteq Ceilings
    /\ Unit \in [DOMAIN Unit -> Exacts]
    /\ \A d \in moneyDims : d \in DOMAIN Unit /\ Unit[d] = "currency"

Value(d) == IF d \in Exacts THEN ExactValues
            ELSE IF d \in Lists THEN SUBSET ListItems ELSE Int

IsScope(s) == /\ DOMAIN s \subseteq Dims
              /\ s = [d \in DOMAIN s |-> s[d]]
              /\ \A d \in DOMAIN s : s[d] \in Value(d)

-----------------------------------------------------------------------------
(* Containment and intersection.                                           *)

\* valueContained: an undeclared numeric dimension is contained in nothing.
valueContained(d, parent, child) ==
    \/ d \in Ceilings /\ child <= parent
    \/ d \in Exacts   /\ child = parent
    \/ d \in Lists    /\ child \subseteq parent

\* Contains looks at the dimensions the child declares.
Contains(parent, child) ==
    \A d \in DOMAIN child :
        d \in DOMAIN parent /\ valueContained(d, parent[d], child[d])

\* Whether glb returns a value.
glbOK(d, permitted, requested) ==
    /\ d \notin Undeclared
    /\ d \in Exacts => requested = permitted

\* Mutant: the request is honoured above the ceiling.
glb_honoured(d, permitted, requested) ==
    IF d \in Lists THEN permitted \intersect requested ELSE requested

glb(d, permitted, requested) ==
    IF d \in Lists THEN permitted \intersect requested
    ELSE IF d \in Ceilings /\ permitted < requested THEN permitted ELSE requested

IntersectOK(permitted, requested) ==
    \A d \in DOMAIN requested :
        d \in DOMAIN permitted /\ glbOK(d, permitted[d], requested[d])

Intersect(permitted, requested) ==
    [d \in DOMAIN permitted |->
        IF d \in DOMAIN requested THEN glb(d, permitted[d], requested[d])
        ELSE permitted[d]]

\* Mutant: the hop's scope replaces what its ancestors declared.
overlayScope_replaced(dst, src) == src

\* overlayScope of the verifier: what src does not declare keeps dst's value.
overlayScope(dst, src) ==
    [d \in DOMAIN dst \union DOMAIN src |->
        IF d \in DOMAIN src THEN src[d] ELSE dst[d]]

-----------------------------------------------------------------------------
(* Transactions: tc is a ledger.TxnContext.  An amount that ParseAmount    *)
(* refuses is one that is not positive.                                    *)

TxnScopeOK(parent, tc) ==
    moneyDims \intersect DOMAIN parent # {} =>
        "currency" \in DOMAIN parent /\ tc.amount > 0

TxnScope(parent, tc) ==
    [d \in DOMAIN parent \intersect (moneyDims \union {"currency"}) |->
        IF d = "currency" THEN tc.currency ELSE tc.amount]

\* step7Scope, and the scope check of txntoken.Issue.
Authorizes(s, tc) == TxnScopeOK(s, tc) /\ Contains(s, TxnScope(s, tc))

-----------------------------------------------------------------------------
(* Issuance.                                                               *)

validateMoneyCeiling(s, d) ==
    /\ s[d] >= 0
    /\ Unit[d] \in DOMAIN s
    /\ s[Unit[d]] # ""

ValidateIssuance(s) ==
    \A d \in DOMAIN s :
        /\ d \notin Undeclared
        /\ d \in DOMAIN Unit => validateMoneyCeiling(s, d)

\* The currencies that the child's money ceilings lack.
missingUnits(child) ==
    {Unit[d] : d \in DOMAIN child \intersect DOMAIN Unit} \ DOMAIN child

InheritMoneyUnitOK(parent, child) == missingUnits(child) \subseteq DOMAIN parent

InheritMoneyUnit(parent, child) ==
    overlayScope([u \in missingUnits(child) |-> parent[u]], child)

-----------------------------------------------------------------------------
(* Sub-bands.  A band is a scope with its window [nbf, exp).               *)

DeclaresCumulativeBudget(s) == "max_cumulative" \in DOMAIN s

budgetOf(bands) == [i \in DOMAIN bands |-> bands[i].scope["max_cumulative"]]
Allocated(bands) == SumFunction(budgetOf(bands))

ValidateSubbandDivision(parent, bands) ==
    /\ ValidateIssuance(parent)
    /\ DeclaresCumulativeBudget(parent)
    /\ bands # <<>>
    /\ \A i \in DOMAIN bands :
          /\ ValidateIssuance(bands[i].scope)
          /\ DeclaresCumulativeBudget(bands[i].scope)
          /\ Contains(parent, bands[i].scope)
    /\ Allocated(bands) <= parent["max_cumulative"]

\* The code sorts the indices of the bands by opening and compares neighbours.
SortedByOpening(order, bands) ==
    \A i, j \in DOMAIN bands : i < j => bands[order[i]].nbf <= bands[order[j]].nbf

\* Mutant: neighbours may share a second.
noOverlap_touching(bands) ==
    \E order \in Bijection(DOMAIN bands, DOMAIN bands) :
        /\ SortedByOpening(order, bands)
        /\ \A k \in 2..Len(bands) : bands[order[k]].nbf + 1 >= bands[order[k - 1]].exp

noOverlap(bands) ==
    \E order \in Bijection(DOMAIN bands, DOMAIN bands) :
        /\ SortedByOpening(order, bands)
        /\ \A k \in 2..Len(bands) : bands[order[k]].nbf >= bands[order[k - 1]].exp

ValidateBandDivision(parent, nbf, exp, bands) ==
    /\ ValidateSubbandDivision(parent, bands)
    /\ nbf < exp
    /\ \A i \in DOMAIN bands :
          /\ bands[i].nbf < bands[i].exp
          /\ nbf <= bands[i].nbf /\ bands[i].exp <= exp
    /\ noOverlap(bands)

currencyOf(s) == IF "currency" \in DOMAIN s THEN s["currency"] ELSE ""

\* The commitments are hashes of the values below.
SubbandParentCommit(parent) ==
    [currency |-> currencyOf(parent), budget |-> parent["max_cumulative"]]

SubbandLeaf(commit, band, leg, size) ==
    [commit |-> commit, currency |-> currencyOf(band.scope),
     cum |-> band.scope["max_cumulative"],
     nbf |-> band.nbf, exp |-> band.exp, leg |-> leg, size |-> size]

\* SubbandGroupRoot commits to the leaves in order; legs count from 1 here.
CommitBandDivision(parent, bands) ==
    [i \in DOMAIN bands |->
        SubbandLeaf(SubbandParentCommit(parent), bands[i], i, Len(bands))]

-----------------------------------------------------------------------------
(* Laws of the algebra.                                                    *)

\* The transaction respects every bound that s declares.
Within(s, tc) ==
    /\ \A d \in moneyDims \intersect DOMAIN s : 0 < tc.amount /\ tc.amount <= s[d]
    /\ "currency" \in DOMAIN s => tc.currency = s["currency"]

\* Intersect is the greatest lower bound of a sealable ceiling p and a
\* request r that declares no more: s stands for anything both contain.
IntersectGLB(p, r, s) ==
    ValidateIssuance(p) /\ IntersectOK(p, r) =>
        LET g == Intersect(p, r)
        IN  /\ DOMAIN g = DOMAIN p
            /\ Contains(p, g)
            /\ \A d \in DOMAIN r : valueContained(d, r[d], g[d])
            /\ Contains(p, s) /\ (\A d \in DOMAIN r \intersect DOMAIN s :
                                     valueContained(d, r[d], s[d]))
               => Contains(g, s)

\* What InheritMoneyUnit does to a child c of p.
InheritedUnit(p, c) ==
    Contains(p, c) /\ InheritMoneyUnitOK(p, c) =>
        LET i == InheritMoneyUnit(p, c)
        IN  /\ Contains(p, i)
            /\ \A d \in DOMAIN i \intersect DOMAIN Unit : Unit[d] \in DOMAIN i

=============================================================================
