----------------------------- MODULE ScopeProofs -----------------------------
(***************************************************************************)
(* Facts about the scope algebra, for all dimensions and values: the       *)
(* containment and the intersection of scopes, sums of budgets, and the    *)
(* windows of a division.                                                  *)
(***************************************************************************)
EXTENDS Scope, FiniteSets, FiniteSetTheorems, TLAPS

\* A value that is not an undeclared number is contained in itself.
LEMMA ValueReflexive ==
    ASSUME NEW d \in Dims, NEW v \in Value(d), d \notin Undeclared
    PROVE  valueContained(d, v, v)
  BY DimsAssumption DEF Dims, Value, valueContained

\* Containment of values is transitive: an attenuation of an attenuation is
\* an attenuation.
LEMMA ValueTransitive ==
    ASSUME NEW d \in Dims, NEW a \in Value(d), NEW b \in Value(d), NEW c \in Value(d),
           valueContained(d, a, b), valueContained(d, b, c)
    PROVE  valueContained(d, a, c)
  BY DimsAssumption DEF Dims, Value, valueContained

\* tbac.Contains is transitive, so a chain whose hops are each contained in
\* their parent has a leaf contained in its root.
THEOREM ContainsTransitive ==
    ASSUME NEW p, NEW q, NEW r, IsScope(p), IsScope(q), IsScope(r),
           Contains(p, q), Contains(q, r)
    PROVE  Contains(p, r)
<1> SUFFICES ASSUME NEW d \in DOMAIN r
             PROVE  d \in DOMAIN p /\ valueContained(d, p[d], r[d])
  BY DEF Contains
<1>1. d \in DOMAIN q /\ valueContained(d, q[d], r[d])
  BY DEF Contains
<1>2. d \in DOMAIN p /\ valueContained(d, p[d], q[d])
  BY <1>1 DEF Contains
<1>3. d \in Dims /\ p[d] \in Value(d) /\ q[d] \in Value(d) /\ r[d] \in Value(d)
  BY <1>1, <1>2 DEF IsScope
<1> QED  BY <1>1, <1>2, <1>3, ValueTransitive

\* The overlay of two scopes is a scope.
LEMMA OverlayScope ==
    ASSUME NEW p, NEW c, IsScope(p), IsScope(c)
    PROVE  IsScope(overlayScope(p, c))
  BY DEF IsScope, overlayScope

\* The greatest lower bound of two values is below both, and above whatever
\* is below both.
LEMMA GlbValue ==
    ASSUME NEW d \in Dims, NEW p \in Value(d), NEW r \in Value(d), glbOK(d, p, r)
    PROVE  /\ glb(d, p, r) \in Value(d)
           /\ valueContained(d, p, glb(d, p, r))
           /\ valueContained(d, r, glb(d, p, r))
           /\ \A s \in Value(d) :
                 valueContained(d, p, s) /\ valueContained(d, r, s)
                 => valueContained(d, glb(d, p, r), s)
<1>1. CASE d \in Ceilings
  BY <1>1, DimsAssumption DEF Dims, Value, valueContained, glb, glbOK
<1>2. CASE d \in Exacts
  BY <1>2, DimsAssumption DEF Dims, Value, valueContained, glb, glbOK
<1>3. CASE d \in Lists
  BY <1>3, DimsAssumption DEF Dims, Value, valueContained, glb, glbOK
<1> QED  BY <1>1, <1>2, <1>3 DEF Dims, glbOK

\* Root issuance: the scope that tbac.Intersect returns for a sealable policy
\* ceiling is the greatest scope below both the ceiling and the request, and
\* it declares everything the ceiling declares.
THEOREM IntersectGreatest ==
    ASSUME NEW p, NEW r, NEW s, IsScope(p), IsScope(r), IsScope(s)
    PROVE  IntersectGLB(p, r, s)
<1> DEFINE g == Intersect(p, r)
<1> SUFFICES ASSUME ValidateIssuance(p), IntersectOK(p, r)
             PROVE  /\ DOMAIN g = DOMAIN p
                    /\ Contains(p, g)
                    /\ \A d \in DOMAIN r : valueContained(d, r[d], g[d])
                    /\ Contains(p, s) /\ (\A d \in DOMAIN r \intersect DOMAIN s :
                                             valueContained(d, r[d], s[d]))
                       => Contains(g, s)
  BY DEF IntersectGLB
<1>1. DOMAIN g = DOMAIN p
  BY DEF Intersect
<1>2. ASSUME NEW d \in DOMAIN r
      PROVE  /\ d \in DOMAIN p /\ d \in Dims
             /\ p[d] \in Value(d) /\ r[d] \in Value(d)
             /\ glbOK(d, p[d], r[d]) /\ g[d] = glb(d, p[d], r[d])
  BY DEF IntersectOK, Intersect, IsScope
<1>3. ASSUME NEW d \in DOMAIN p, d \notin DOMAIN r
      PROVE  /\ d \in Dims /\ d \notin Undeclared
             /\ p[d] \in Value(d) /\ g[d] = p[d]
  BY <1>3 DEF Intersect, IsScope, ValidateIssuance
<1>4. Contains(p, g)
  <2> SUFFICES ASSUME NEW d \in DOMAIN p PROVE valueContained(d, p[d], g[d])
    BY <1>1 DEF Contains
  <2>1. CASE d \in DOMAIN r
    BY <2>1, <1>2, GlbValue
  <2>2. CASE d \notin DOMAIN r
    BY <2>2, <1>3, ValueReflexive
  <2> QED  BY <2>1, <2>2
<1>5. \A d \in DOMAIN r : valueContained(d, r[d], g[d])
  BY <1>2, GlbValue
<1>6. ASSUME Contains(p, s),
             \A d \in DOMAIN r \intersect DOMAIN s : valueContained(d, r[d], s[d])
      PROVE  Contains(g, s)
  <2> SUFFICES ASSUME NEW d \in DOMAIN s
               PROVE  d \in DOMAIN g /\ valueContained(d, g[d], s[d])
    BY DEF Contains
  <2>1. d \in DOMAIN p /\ valueContained(d, p[d], s[d]) /\ s[d] \in Value(d)
    BY <1>6 DEF Contains, IsScope
  <2>2. CASE d \in DOMAIN r
    BY <2>1, <2>2, <1>1, <1>2, <1>6, GlbValue
  <2>3. CASE d \notin DOMAIN r
    BY <2>1, <2>3, <1>1, <1>3
  <2> QED  BY <2>2, <2>3
<1> QED  BY <1>1, <1>4, <1>5, <1>6

\* tbac.InheritMoneyUnit narrows: the child stays contained in its parent and
\* every money ceiling it declares has its currency beside it.
THEOREM InheritanceNarrows ==
    ASSUME NEW p, NEW c, IsScope(p), IsScope(c)
    PROVE  InheritedUnit(p, c)
<1> DEFINE i == InheritMoneyUnit(p, c)
<1> SUFFICES ASSUME Contains(p, c), InheritMoneyUnitOK(p, c)
             PROVE  /\ Contains(p, i)
                    /\ \A d \in DOMAIN i \intersect DOMAIN Unit : Unit[d] \in DOMAIN i
  BY DEF InheritedUnit
<1>1. /\ DOMAIN i = missingUnits(c) \union DOMAIN c
      /\ \A d \in DOMAIN c : i[d] = c[d]
      /\ \A d \in missingUnits(c) : d \notin DOMAIN c /\ i[d] = p[d]
  BY DEF InheritMoneyUnit, overlayScope, missingUnits
<1>2. missingUnits(c) \subseteq Exacts /\ missingUnits(c) \subseteq DOMAIN p
  BY UnitAssumption DEF missingUnits, InheritMoneyUnitOK
<1>3. Contains(p, i)
  BY <1>1, <1>2 DEF Contains, valueContained
<1>4. ASSUME NEW d \in DOMAIN i \intersect DOMAIN Unit
      PROVE  Unit[d] \in DOMAIN i
  <2>1. d \in DOMAIN c
    BY <1>1, <1>2, UnitAssumption, DimsAssumption
  <2> QED  BY <2>1, <1>1 DEF missingUnits
<1> QED  BY <1>3, <1>4

\* An inherited unit keeps the child a scope.
LEMMA InheritScope ==
    ASSUME NEW p, NEW c, IsScope(p), IsScope(c), InheritMoneyUnitOK(p, c)
    PROVE  IsScope(InheritMoneyUnit(p, c))
<1>1. missingUnits(c) \subseteq DOMAIN p
  BY DEF InheritMoneyUnitOK
<1>2. IsScope([u \in missingUnits(c) |-> p[u]])
  BY <1>1 DEF IsScope
<1> QED  BY <1>2, OverlayScope DEF InheritMoneyUnit

\* What a transaction that passes the scope check respects.
LEMMA AuthorizedWithin ==
    ASSUME NEW s, IsScope(s), NEW tc, Authorizes(s, tc)
    PROVE  Within(s, tc)
<1> DEFINE t == TxnScope(s, tc)
<1>1. ASSUME NEW d \in moneyDims \intersect DOMAIN s
      PROVE  tc.amount > 0 /\ tc.amount <= s[d]
  <2>1. d \in DOMAIN t /\ d # "currency" /\ d \in Ceilings
    BY DimsAssumption DEF TxnScope, moneyDims
  <2>2. t[d] = tc.amount
    BY <2>1 DEF TxnScope
  <2>3. valueContained(d, s[d], t[d])
    BY <2>1 DEF Authorizes, Contains
  <2>4. tc.amount > 0
    BY DEF Authorizes, TxnScopeOK
  <2> QED  BY <2>1, <2>2, <2>3, <2>4, DimsAssumption DEF valueContained
<1>2. ASSUME "currency" \in DOMAIN s PROVE tc.currency = s["currency"]
  <2>1. "currency" \in DOMAIN t /\ t["currency"] = tc.currency
    BY <1>2 DEF TxnScope
  <2>2. valueContained("currency", s["currency"], t["currency"])
    BY <2>1 DEF Authorizes, Contains
  <2> QED  BY <2>1, <2>2, DimsAssumption DEF valueContained
<1> QED  BY <1>1, <1>2 DEF Within

\* The projection of a transaction on two scopes that declare the same
\* dimensions, the first of them tighter: what passes under it passes under
\* the other.
LEMMA TighterAuthorizes ==
    ASSUME NEW g, NEW p, IsScope(g), IsScope(p), DOMAIN g = DOMAIN p,
           \A d \in DOMAIN p : g[d] = p[d] \/ valueContained(d, p[d], g[d]),
           NEW tc, tc.amount \in Int, Authorizes(g, tc)
    PROVE  Authorizes(p, tc)
<1>1. TxnScopeOK(p, tc) /\ TxnScope(p, tc) = TxnScope(g, tc)
  BY DEF Authorizes, TxnScopeOK, TxnScope
<1>2. ASSUME NEW d \in DOMAIN TxnScope(p, tc)
      PROVE  d \in DOMAIN p /\ valueContained(d, p[d], TxnScope(p, tc)[d])
  <2> DEFINE v == TxnScope(p, tc)[d]
  <2>1. d \in DOMAIN p /\ d \in moneyDims \union {"currency"}
    BY DEF TxnScope
  <2>2. valueContained(d, g[d], v)
    BY <1>1 DEF Authorizes, Contains
  <2>3. g[d] \in Value(d) /\ p[d] \in Value(d)
    BY <2>1 DEF IsScope
  <2>4. CASE d \in moneyDims
    <3>1. d \in Ceilings /\ d \notin Exacts /\ d \notin Lists /\ d # "currency"
      BY <2>4, DimsAssumption
    <3>2. v = tc.amount
      BY <3>1 DEF TxnScope
    <3>3. g[d] \in Int /\ p[d] \in Int /\ g[d] <= p[d]
      BY <2>1, <2>3, <3>1 DEF Value, valueContained
    <3>4. v <= g[d]
      BY <2>2, <3>1 DEF valueContained
    <3> HIDE DEF v
    <3>5. v <= p[d]
      BY <3>2, <3>3, <3>4
    <3> QED  BY <2>1, <3>1, <3>5 DEF v, valueContained
  <2>5. CASE d = "currency"
    <3>1. d \in Exacts /\ d \notin Ceilings /\ d \notin Lists
      BY <2>5, DimsAssumption
    <3> QED  BY <2>1, <2>2, <3>1 DEF valueContained
  <2> QED  BY <2>1, <2>4, <2>5
<1> QED  BY <1>1, <1>2 DEF Authorizes, Contains

\* Whatever passes under the root scope passes under the policy ceiling.
LEMMA RootWithin ==
    ASSUME NEW p, NEW r, IsScope(p), IsScope(r), ValidateIssuance(p), IntersectOK(p, r),
           NEW tc, tc.amount \in Int, Authorizes(Intersect(p, r), tc)
    PROVE  Authorizes(p, tc)
<1>1. PICK g : g = Intersect(p, r)
  OBVIOUS
<1>2. DOMAIN g = DOMAIN p /\ Contains(p, g)
  BY <1>1, IntersectGreatest DEF IntersectGLB
<1>3. IsScope(g)
  <2>1. ASSUME NEW d \in DOMAIN p PROVE g[d] \in Value(d)
    <3>1. d \in Dims /\ p[d] \in Value(d)
      BY DEF IsScope
    <3>2. CASE d \in DOMAIN r
      <4>1. r[d] \in Value(d) /\ glbOK(d, p[d], r[d]) /\ g[d] = glb(d, p[d], r[d])
        BY <1>1, <3>2 DEF IsScope, IntersectOK, Intersect
      <4> QED  BY <3>1, <4>1, GlbValue
    <3>3. CASE d \notin DOMAIN r
      BY <1>1, <3>1, <3>3 DEF Intersect
    <3> QED  BY <3>2, <3>3
  <2> QED  BY <1>1, <2>1 DEF IsScope, Intersect
<1> QED  BY <1>1, <1>2, <1>3, TighterAuthorizes DEF Contains

\* Whatever passes under a parent overlaid with a child passes under the
\* parent and is within what the child declares.
LEMMA OverlayWithin ==
    ASSUME NEW p, NEW c, IsScope(p), IsScope(c), Contains(p, c),
           NEW tc, tc.amount \in Int, Authorizes(overlayScope(p, c), tc)
    PROVE  Authorizes(p, tc) /\ Within(c, tc)
<1>1. PICK o : o = overlayScope(p, c)
  OBVIOUS
<1>2. /\ IsScope(o) /\ DOMAIN o = DOMAIN p
      /\ \A d \in DOMAIN c : d \in DOMAIN o /\ o[d] = c[d]
      /\ \A d \in DOMAIN p : o[d] = p[d] \/ valueContained(d, p[d], o[d])
  <2>1. IsScope(o)
    BY <1>1, OverlayScope
  <2>2. DOMAIN c \subseteq DOMAIN p
    BY DEF Contains
  <2> QED  BY <1>1, <2>1, <2>2 DEF overlayScope, Contains
<1>3. Authorizes(p, tc)
  BY <1>1, <1>2, TighterAuthorizes
<1>4. Within(o, tc)
  BY <1>1, <1>2, AuthorizedWithin
<1> QED  BY <1>2, <1>3, <1>4 DEF Within

-----------------------------------------------------------------------------
(* Sums of the values of a function over a finite set (SumFunctionOnSet of *)
(* Functions): a budget and what is spent of it are sums.                  *)

\* Induction over the subsets of a finite set, for a property given as the
\* set G of the subsets that have it.
LEMMA SubsetInduction ==
    ASSUME NEW S, IsFiniteSet(S), NEW G,
           \A T \in SUBSET S : (\A U \in SUBSET T : U # T => U \in G) => T \in G
    PROVE  S \in G
<1> DEFINE B == (SUBSET S) \ G
<1> SUFFICES ASSUME B # {} PROVE FALSE
  OBVIOUS
<1>1. IsWellFoundedOn(StrictSubsetOrdering(S), SUBSET S)
  <2>1. FiniteSubsetsOf(S) = SUBSET S
    BY FS_FiniteSubsetsOfFinite
  <2>2. IsWellFoundedOn(StrictSubsetOrdering(S), FiniteSubsetsOf(S))
    BY FS_StrictSubsetOrderingWellFounded
  <2> QED  BY <2>1, <2>2
<1>2. B \subseteq SUBSET S
  OBVIOUS
<1>3. PICK T \in B : \A U \in B : ~ (<<U, T>> \in StrictSubsetOrdering(S))
  <2> HIDE DEF B
  <2> QED  BY <1>1, <1>2, WFMin
<1>4. \A U \in B : U \subseteq T => U = T
  BY <1>3 DEF StrictSubsetOrdering
<1> QED  BY <1>4

\* A sum is defined by a recursive function g over the subsets of S, which
\* takes the elements in the order of pick.
pick(s) == CHOOSE x \in s : TRUE
Partials(g, f, S) ==
    g = [s \in SUBSET S |-> IF s = {} THEN 0 ELSE f[pick(s)] + g[s \ {pick(s)}]]

LEMMA SumDef ==
    ASSUME NEW f, NEW S
    PROVE  SumFunctionOnSet(f, S) = (CHOOSE g : Partials(g, f, S))[S]
  BY DEF SumFunctionOnSet, FoldFunctionOnSet, MapThenFoldSet, Partials, pick

LEMMA PickIn == \A s : s # {} => pick(s) \in s
  BY DEF pick

\* Two such functions agree on the sets that both are defined for.
LEMMA PartialsAgree ==
    ASSUME NEW f, NEW S, NEW T, IsFiniteSet(S), S \subseteq T, NEW g, NEW h,
           Partials(g, f, S), Partials(h, f, T)
    PROVE  g[S] = h[S]
<1> DEFINE G == {U \in SUBSET S : g[U] = h[U]}
<1>1. ASSUME NEW U \in SUBSET S, \A V \in SUBSET U : V # U => V \in G
      PROVE  U \in G
  <2>1. CASE U = {}
    BY <2>1 DEF Partials
  <2>2. CASE U # {}
    <3>1. pick(U) \in U
      BY <2>2, PickIn
    <3>2. g[U \ {pick(U)}] = h[U \ {pick(U)}]
      BY <1>1, <3>1
    <3>3. /\ g[U] = f[pick(U)] + g[U \ {pick(U)}]
          /\ h[U] = f[pick(U)] + h[U \ {pick(U)}]
      BY <2>2 DEF Partials
    <3> QED  BY <3>2, <3>3
  <2> QED  BY <2>1, <2>2
<1>2. S \in G
  <2> HIDE DEF G
  <2> QED  BY <1>1, SubsetInduction
<1> QED  BY <1>2

\* Such a function exists.
LEMMA PartialsExist ==
    ASSUME NEW f, NEW S, IsFiniteSet(S)
    PROVE  \E g : Partials(g, f, S)
<1> DEFINE G == {T \in SUBSET S : \E g : Partials(g, f, T)}
<1>1. ASSUME NEW T \in SUBSET S, \A U \in SUBSET T : U # T => U \in G
      PROVE  T \in G
  <2> DEFINE of(s) == CHOOSE g : Partials(g, f, s)
             v(s) == IF s = {} THEN 0 ELSE f[pick(s)] + of(s \ {pick(s)})[s \ {pick(s)}]
             g == [s \in SUBSET T |-> v(s)]
  <2>1. \A s \in SUBSET T : s # T => Partials(of(s), f, s)
    BY <1>1
  <2>2. \A s \in SUBSET T : IsFiniteSet(s)
    BY FS_Subset
  <2>3. ASSUME NEW s \in SUBSET T, s # T
        PROVE  v(s) = of(s)[s]
    <3>1. Partials(of(s), f, s)
      BY <2>1, <2>3
    <3>2. CASE s = {}
      BY <3>1, <3>2 DEF Partials
    <3>3. CASE s # {}
      <4> DEFINE u == s \ {pick(s)}
      <4>1. u \in SUBSET T /\ u # T /\ u \subseteq s
        BY <2>3, <3>3, PickIn
      <4>2. Partials(of(u), f, u)
        BY <2>1, <4>1
      <4>3. of(u)[u] = of(s)[u]
        BY <3>1, <4>1, <4>2, <2>2, PartialsAgree
      <4>4. of(s)[s] = f[pick(s)] + of(s)[u]
        BY <3>1, <3>3 DEF Partials
      <4> QED  BY <4>3, <4>4, <3>3
    <3> QED  BY <3>2, <3>3
  <2>4. ASSUME NEW s \in SUBSET T
        PROVE  g[s] = IF s = {} THEN 0 ELSE f[pick(s)] + g[s \ {pick(s)}]
    <3>1. CASE s = {}
      BY <3>1
    <3>2. CASE s # {}
      <4> DEFINE u == s \ {pick(s)}
      <4>1. u \in SUBSET T /\ u # T
        BY <3>2, PickIn
      <4>2. g[u] = of(u)[u]
        BY <4>1, <2>3
      <4> QED  BY <3>2, <4>2
    <3> QED  BY <3>1, <3>2
  <2>5. Partials(g, f, T)
    <3> HIDE DEF v
    <3>1. g = [s \in SUBSET T |-> g[s]]
      OBVIOUS
    <3> HIDE DEF g
    <3> QED  BY <2>4, <3>1 DEF Partials
  <2> QED  BY <2>5
<1>2. S \in G
  <2> HIDE DEF G
  <2> QED  BY <1>1, SubsetInduction
<1> QED  BY <1>2

\* The recursion that the definition stands for.
LEMMA SumUnfold ==
    ASSUME NEW f, NEW S, IsFiniteSet(S)
    PROVE  SumFunctionOnSet(f, S) =
              IF S = {} THEN 0 ELSE f[pick(S)] + SumFunctionOnSet(f, S \ {pick(S)})
<1> DEFINE of(s) == CHOOSE g : Partials(g, f, s)
           u == S \ {pick(S)}
<1>1. IsFiniteSet(u) /\ u \subseteq S
  BY FS_Subset
<1>2. Partials(of(S), f, S) /\ Partials(of(u), f, u)
  BY <1>1, PartialsExist
<1>3. SumFunctionOnSet(f, S) = of(S)[S] /\ SumFunctionOnSet(f, u) = of(u)[u]
  BY SumDef
<1>4. of(u)[u] = of(S)[u]
  BY <1>1, <1>2, PartialsAgree
<1>5. of(S)[S] = IF S = {} THEN 0 ELSE f[pick(S)] + of(S)[u]
  BY <1>2 DEF Partials
<1> QED  BY <1>3, <1>4, <1>5

LEMMA SumEmpty ==
    ASSUME NEW f
    PROVE  SumFunctionOnSet(f, {}) = 0
  BY FS_EmptySet, SumUnfold

LEMMA SumType ==
    ASSUME NEW S, IsFiniteSet(S), NEW f, \A x \in S : f[x] \in Int
    PROVE  SumFunctionOnSet(f, S) \in Int
<1> DEFINE G == {T \in SUBSET S : SumFunctionOnSet(f, T) \in Int}
<1>1. ASSUME NEW T \in SUBSET S, \A U \in SUBSET T : U # T => U \in G
      PROVE  T \in G
  <2>1. CASE T = {}
    BY <2>1, SumEmpty
  <2>2. CASE T # {}
    <3>1. pick(T) \in T /\ IsFiniteSet(T)
      BY <2>2, PickIn, FS_Subset
    <3>2. SumFunctionOnSet(f, T \ {pick(T)}) \in Int
      BY <1>1, <3>1
    <3>3. SumFunctionOnSet(f, T) = f[pick(T)] + SumFunctionOnSet(f, T \ {pick(T)})
      BY <2>2, <3>1, SumUnfold
    <3> QED  BY <3>1, <3>2, <3>3
  <2> QED  BY <2>1, <2>2
<1>2. S \in G
  <2> HIDE DEF G
  <2> QED  BY <1>1, SubsetInduction
<1> QED  BY <1>2

LEMMA SumNat ==
    ASSUME NEW S, IsFiniteSet(S), NEW f, \A x \in S : f[x] \in Nat
    PROVE  SumFunctionOnSet(f, S) \in Nat
<1> DEFINE G == {T \in SUBSET S : SumFunctionOnSet(f, T) \in Nat}
<1>1. ASSUME NEW T \in SUBSET S, \A U \in SUBSET T : U # T => U \in G
      PROVE  T \in G
  <2>1. CASE T = {}
    <3>1. SumFunctionOnSet(f, T) = 0
      BY <2>1, SumEmpty
    <3> QED  BY <3>1
  <2>2. CASE T # {}
    <3>1. pick(T) \in T /\ IsFiniteSet(T)
      BY <2>2, PickIn, FS_Subset
    <3>2. SumFunctionOnSet(f, T \ {pick(T)}) \in Nat
      BY <1>1, <3>1
    <3>3. SumFunctionOnSet(f, T) = f[pick(T)] + SumFunctionOnSet(f, T \ {pick(T)})
      BY <2>2, <3>1, SumUnfold
    <3> QED  BY <3>1, <3>2, <3>3
  <2> QED  BY <2>1, <2>2
<1>2. S \in G
  <2> HIDE DEF G
  <2> QED  BY <1>1, SubsetInduction
<1> QED  BY <1>2

\* The order does not matter: any element can be taken out first.
LEMMA SumRemove ==
    ASSUME NEW S, IsFiniteSet(S), NEW f, \A x \in S : f[x] \in Int, NEW y \in S
    PROVE  SumFunctionOnSet(f, S) = f[y] + SumFunctionOnSet(f, S \ {y})
<1> DEFINE sum(T) == SumFunctionOnSet(f, T)
           G == {T \in SUBSET S : \A z \in T : sum(T) = f[z] + sum(T \ {z})}
<1>1. ASSUME NEW T \in SUBSET S, \A U \in SUBSET T : U # T => U \in G
      PROVE  T \in G
  <2> SUFFICES ASSUME NEW z \in T PROVE sum(T) = f[z] + sum(T \ {z})
    OBVIOUS
  <2>1. PICK x : x = pick(T)
    OBVIOUS
  <2>2. x \in T /\ IsFiniteSet(T)
    BY <2>1, PickIn, FS_Subset
  <2>3. sum(T) = f[x] + sum(T \ {x})
    BY <2>1, <2>2, SumUnfold
  <2>4. CASE x = z
    BY <2>3, <2>4
  <2>5. CASE x # z
    <3>1. T \ {x} \in G /\ T \ {z} \in G
      BY <1>1, <2>2
    <3>2. sum(T \ {x}) = f[z] + sum((T \ {x}) \ {z})
      BY <3>1, <2>5
    <3>3. sum(T \ {z}) = f[x] + sum((T \ {z}) \ {x})
      BY <3>1, <2>2, <2>5
    <3>4. (T \ {z}) \ {x} = (T \ {x}) \ {z} /\ IsFiniteSet((T \ {x}) \ {z})
      BY <2>2, FS_Subset
    <3>5. sum((T \ {x}) \ {z}) \in Int
      BY <3>4, SumType
    <3>6. f[x] \in Int /\ f[z] \in Int
      BY <2>2
    <3> HIDE DEF sum
    <3>7. sum((T \ {z}) \ {x}) = sum((T \ {x}) \ {z})
      BY <3>4
    <3> QED  BY <2>3, <3>2, <3>3, <3>5, <3>6, <3>7
  <2> QED  BY <2>4, <2>5
<1>2. S \in G
  <2> HIDE DEF G
  <2> QED  BY <1>1, SubsetInduction
<1> QED  BY <1>2

LEMMA SumAdd ==
    ASSUME NEW S, IsFiniteSet(S), NEW y, y \notin S,
           NEW f, \A x \in S \union {y} : f[x] \in Int
    PROVE  SumFunctionOnSet(f, S \union {y}) = SumFunctionOnSet(f, S) + f[y]
<1>1. IsFiniteSet(S \union {y}) /\ (S \union {y}) \ {y} = S
  BY FS_AddElement
<1>2. SumFunctionOnSet(f, S \union {y}) = f[y] + SumFunctionOnSet(f, S)
  BY <1>1, SumRemove
<1>3. SumFunctionOnSet(f, S) \in Int
  BY SumType
<1> QED  BY <1>2, <1>3

\* Only the values on the set matter.
LEMMA SumSame ==
    ASSUME NEW S, IsFiniteSet(S), NEW f, NEW g, \A x \in S : f[x] = g[x]
    PROVE  SumFunctionOnSet(f, S) = SumFunctionOnSet(g, S)
<1> DEFINE G == {T \in SUBSET S : SumFunctionOnSet(f, T) = SumFunctionOnSet(g, T)}
<1>1. ASSUME NEW T \in SUBSET S, \A U \in SUBSET T : U # T => U \in G
      PROVE  T \in G
  <2>1. CASE T = {}
    BY <2>1, SumEmpty
  <2>2. CASE T # {}
    <3>1. pick(T) \in T /\ IsFiniteSet(T)
      BY <2>2, PickIn, FS_Subset
    <3>2. SumFunctionOnSet(f, T \ {pick(T)}) = SumFunctionOnSet(g, T \ {pick(T)})
      BY <1>1, <3>1
    <3>3. /\ SumFunctionOnSet(f, T) = f[pick(T)] + SumFunctionOnSet(f, T \ {pick(T)})
          /\ SumFunctionOnSet(g, T) = g[pick(T)] + SumFunctionOnSet(g, T \ {pick(T)})
      BY <2>2, <3>1, SumUnfold
    <3> QED  BY <3>1, <3>2, <3>3
  <2> QED  BY <2>1, <2>2
<1>2. S \in G
  <2> HIDE DEF G
  <2> QED  BY <1>1, SubsetInduction
<1> QED  BY <1>2

\* One value of the function changes.
LEMMA SumUpdate ==
    ASSUME NEW S, IsFiniteSet(S), NEW x \in S, NEW f, NEW g,
           \A y \in S : f[y] \in Int, g[x] \in Int, \A y \in S \ {x} : g[y] = f[y]
    PROVE  SumFunctionOnSet(g, S) = (SumFunctionOnSet(f, S) - f[x]) + g[x]
<1>1. IsFiniteSet(S \ {x}) /\ \A y \in S : g[y] \in Int
  BY FS_Subset
<1>2. SumFunctionOnSet(f, S) = f[x] + SumFunctionOnSet(f, S \ {x})
  BY SumRemove
<1>3. SumFunctionOnSet(g, S) = g[x] + SumFunctionOnSet(g, S \ {x})
  BY <1>1, SumRemove
<1>4. SumFunctionOnSet(g, S \ {x}) = SumFunctionOnSet(f, S \ {x})
  BY <1>1, SumSame
<1>5. SumFunctionOnSet(f, S \ {x}) \in Int
  BY <1>1, SumType
<1> QED  BY <1>2, <1>3, <1>4, <1>5

\* A sum over S is at most a sum over T when each element of S has an element
\* of T of its own that is at least as large.
LEMMA SumInjection ==
    ASSUME NEW S, IsFiniteSet(S), NEW T, IsFiniteSet(T), NEW h \in [S -> T],
           \A x, y \in S : h[x] = h[y] => x = y,
           NEW f, \A x \in S : f[x] \in Nat,
           NEW g, \A t \in T : g[t] \in Nat,
           \A x \in S : f[x] <= g[h[x]]
    PROVE  SumFunctionOnSet(f, S) <= SumFunctionOnSet(g, T)
<1> DEFINE img(U) == {h[x] : x \in U}
           G == {U \in SUBSET S : \A V \in SUBSET T : img(U) \subseteq V =>
                    SumFunctionOnSet(f, U) <= SumFunctionOnSet(g, V)}
<1>1. \A U \in SUBSET S : IsFiniteSet(U)
  BY FS_Subset
<1>2. \A V \in SUBSET T : IsFiniteSet(V)
  BY FS_Subset
<1>3. \A V \in SUBSET T : SumFunctionOnSet(g, V) \in Nat
  BY <1>2, SumNat
<1>4. ASSUME NEW U \in SUBSET S, \A W \in SUBSET U : W # U => W \in G
      PROVE  U \in G
  <2> SUFFICES ASSUME NEW V \in SUBSET T, img(U) \subseteq V
               PROVE  SumFunctionOnSet(f, U) <= SumFunctionOnSet(g, V)
    OBVIOUS
  <2>1. CASE U = {}
    <3>1. SumFunctionOnSet(f, U) = 0
      BY <2>1, SumEmpty
    <3> QED  BY <3>1, <1>3
  <2>2. CASE U # {}
    <3>1. PICK x \in S : x \in U
      BY <2>2
    <3>2. h[x] \in V /\ h[x] \in T
      BY <3>1
    <3>3. img(U \ {x}) \subseteq V \ {h[x]}
      BY <3>1
    <3>4. U \ {x} \in G
      BY <1>4, <3>1
    <3>5. SumFunctionOnSet(f, U \ {x}) <= SumFunctionOnSet(g, V \ {h[x]})
      BY <3>3, <3>4
    <3>6. SumFunctionOnSet(f, U) = f[x] + SumFunctionOnSet(f, U \ {x})
      <4>1. IsFiniteSet(U) /\ \A y \in U : f[y] \in Int
        BY <1>1
      <4> HIDE DEF G
      <4> QED  BY <3>1, <4>1, SumRemove
    <3>7. SumFunctionOnSet(g, V) = g[h[x]] + SumFunctionOnSet(g, V \ {h[x]})
      BY <1>2, <3>2, SumRemove
    <3>8. SumFunctionOnSet(f, U \ {x}) \in Int
      <4>1. IsFiniteSet(U \ {x})
        BY <1>1
      <4> QED  BY <4>1, SumType
    <3>9. SumFunctionOnSet(g, V \ {h[x]}) \in Int
      BY <1>3
    <3>10. f[x] \in Int /\ g[h[x]] \in Int /\ f[x] <= g[h[x]]
      BY <3>1, <3>2
    <3> QED  BY <3>5, <3>6, <3>7, <3>8, <3>9, <3>10
  <2> QED  BY <2>1, <2>2
<1>5. S \in G
  <2> HIDE DEF G
  <2> QED  BY <1>4, SubsetInduction
<1>6. img(S) \subseteq T
  OBVIOUS
<1> QED  BY <1>5, <1>6

-----------------------------------------------------------------------------
(* Divisions.                                                              *)

\* Comparing the neighbours of the sorted schedule is enough: of two bands
\* that ValidateBandDivision accepts one closes before the other opens.
THEOREM BandsDisjoint ==
    ASSUME NEW bands, Len(bands) \in Nat, DOMAIN bands = 1..Len(bands),
           \A i \in DOMAIN bands : bands[i].nbf \in Int /\ bands[i].exp \in Int,
           noOverlap(bands),
           NEW i \in DOMAIN bands, NEW j \in DOMAIN bands, i # j
    PROVE  bands[i].exp <= bands[j].nbf \/ bands[j].exp <= bands[i].nbf
<1> DEFINE n == Len(bands)
<1>1. PICK order \in Bijection(1..n, 1..n) :
         /\ SortedByOpening(order, bands)
         /\ \A k \in 2..n : bands[order[k]].nbf >= bands[order[k - 1]].exp
  BY DEF noOverlap
<1>2. order \in [1..n -> 1..n] /\ \A t \in 1..n : \E k \in 1..n : order[k] = t
  BY DEF Bijection, Injection, Surjection
<1>3. ASSUME NEW u \in 1..n, NEW v \in 1..n, u < v
      PROVE  bands[order[u]].exp <= bands[order[v]].nbf
  <2>1. u + 1 \in 2..n /\ u + 1 \in 1..n /\ (u + 1) - 1 = u /\ (u + 1 = v \/ u + 1 < v)
    BY <1>3
  <2>2. bands[order[u + 1]].nbf >= bands[order[u]].exp
    BY <1>1, <2>1
  <2>3. /\ bands[order[u]].exp \in Int /\ bands[order[u + 1]].nbf \in Int
        /\ bands[order[v]].nbf \in Int
    BY <1>2, <2>1
  <2>4. CASE u + 1 = v
    BY <2>2, <2>4
  <2>5. CASE u + 1 < v
    <3>1. u + 1 \in DOMAIN bands /\ v \in DOMAIN bands
      BY <2>1
    <3>2. bands[order[u + 1]].nbf <= bands[order[v]].nbf
      BY <1>1, <2>5, <3>1 DEF SortedByOpening
    <3> QED  BY <2>2, <2>3, <3>2
  <2> QED  BY <2>1, <2>4, <2>5
<1>4. PICK u \in 1..n, v \in 1..n : order[u] = i /\ order[v] = j
  BY <1>2
<1>5. u < v \/ v < u
  BY <1>4
<1> QED  BY <1>3, <1>4, <1>5

=============================================================================
