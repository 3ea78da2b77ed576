-------------------------- MODULE DelegationProofs ---------------------------
(***************************************************************************)
(* What the verifier's walk guarantees for every chain: the tokens may     *)
(* come from issuers that checked nothing, and there is no bound on the    *)
(* length of a chain.  The induction over the hops is the induction over   *)
(* the steps of the behaviour.  The laws of the algebra they rest on are   *)
(* the last section.                                                       *)
(***************************************************************************)
EXTENDS Delegation, MCScope, ScopeProofs

\* Value e is the bound s or a tightening of it.
AtMost(d, s, e) == e = s \/ valueContained(d, s, e)

\* e has a bound at least as tight as s on every dimension of s.
Tighter(e, s) ==
    \A d \in DOMAIN s : d \in DOMAIN e /\ AtMost(d, s[d], e[d])

\* The walk of a call: the effective scope is as tight as every scope up to
\* the current token and agrees with the current one, and the depth budget is
\* what the hops so far left of the root's.
WalkOK(v) ==
    v.stage # "idle" =>
        /\ \A n \in 1..v.pos : Tighter(v.effective, v.chain[n].scope)
        /\ \A d \in DOMAIN v.chain[v.pos].scope : v.effective[d] = v.chain[v.pos].scope[d]
        /\ v.budget = v.chain[1].depth - (v.pos - 1)

WalkInv == \A r \in Presentations : WalkOK(view[r])

\* CATs come from cattoken.Issue.
RootInv == \A c \in caps : c.kind = "CAT" => c.depth \in Nat

Inv == TypeOK /\ RootInv /\ WalkInv /\ NoWidening /\ DepthBounded

-----------------------------------------------------------------------------
\* A bound on a bound is a bound.
LEMMA AtMostTransitive ==
    ASSUME NEW d \in Dims, NEW a \in Value(d), NEW b \in Value(d), NEW c \in Value(d),
           AtMost(d, a, b), valueContained(d, b, c)
    PROVE  AtMost(d, a, c)
  BY ValueTransitive DEF AtMost

\* Overlaying a child of the current token keeps the effective scope as tight
\* as every scope it was as tight as before.
LEMMA OverlayKeepsTight ==
    ASSUME NEW e, NEW p, NEW c, NEW s,
           IsScope(e), IsScope(p), IsScope(c), IsScope(s),
           Contains(p, c),
           \A d \in DOMAIN p : d \in DOMAIN e /\ e[d] = p[d],
           Tighter(e, s)
    PROVE  Tighter(overlayScope(e, c), s)
<1> DEFINE o == overlayScope(e, c)
<1> SUFFICES ASSUME NEW d \in DOMAIN s
             PROVE  d \in DOMAIN o /\ AtMost(d, s[d], o[d])
  BY DEF Tighter
<1>1. d \in DOMAIN e /\ AtMost(d, s[d], e[d]) /\ d \in DOMAIN o
  BY DEF Tighter, overlayScope
<1>2. CASE d \in DOMAIN c
  <2>1. o[d] = c[d] /\ d \in DOMAIN p /\ valueContained(d, e[d], c[d])
    BY <1>2 DEF overlayScope, Contains
  <2>2. d \in Dims /\ s[d] \in Value(d) /\ e[d] \in Value(d) /\ c[d] \in Value(d)
    BY <1>1, <1>2 DEF IsScope
  <2> QED  BY <1>1, <2>1, <2>2, AtMostTransitive
<1>3. CASE d \notin DOMAIN c
  BY <1>1, <1>3 DEF overlayScope
<1> QED  BY <1>2, <1>3

\* A scope is as tight as itself, and so is its overlay on anything.
LEMMA OverlayTight ==
    ASSUME NEW e, NEW c
    PROVE  /\ Tighter(c, c)
           /\ Tighter(overlayScope(e, c), c)
           /\ \A d \in DOMAIN c : overlayScope(e, c)[d] = c[d]
  BY DEF Tighter, AtMost, overlayScope

\* A transaction within the tighter scope is within the other one.
LEMMA TighterWithin ==
    ASSUME NEW e, NEW s, IsScope(e), IsScope(s), NEW tc \in Context,
           Tighter(e, s), Within(e, tc)
    PROVE  Within(s, tc)
<1>1. ASSUME NEW d \in moneyDims \intersect DOMAIN s
      PROVE  0 < tc.amount /\ tc.amount <= s[d]
  <2>1. d \in DOMAIN e /\ d \in Ceilings /\ AtMost(d, s[d], e[d])
    BY DimsAssumption DEF Tighter
  <2>2. e[d] <= s[d] /\ e[d] \in Int /\ s[d] \in Int
    BY <2>1, DimsAssumption DEF AtMost, valueContained, IsScope, Value, Dims
  <2>3. 0 < tc.amount /\ tc.amount <= e[d] /\ tc.amount \in Int
    BY <2>1 DEF Within, Context
  <2> QED  BY <2>2, <2>3
<1>2. ASSUME "currency" \in DOMAIN s PROVE tc.currency = s["currency"]
  <2>1. "currency" \in DOMAIN e /\ AtMost("currency", s["currency"], e["currency"])
    BY <1>2 DEF Tighter
  <2>2. e["currency"] = s["currency"]
    BY <2>1, DimsAssumption DEF AtMost, valueContained
  <2> QED  BY <2>1, <2>2 DEF Within
<1> QED  BY <1>1, <1>2 DEF Within

\* The clock only matters as a natural number.
LEMMA ChildExpType ==
    ASSUME NEW p, IsCap(p), now \in Nat, NEW ttl \in Nat, NEW default \in Nat
    PROVE  childExp(p, ttl, default) \in Nat
  BY DEF childExp, IsCap

\* A child minted with the checks is a well-formed token.
LEMMA ChildType ==
    ASSUME NEW p, IsCap(p), NEW jti, NEW scope, IsScope(scope), NEW exp \in Nat,
           NEW nbf \in Nat, NEW root, NEW leg \in Nat, NEW size \in Nat,
           InheritMoneyUnitOK(p.scope, scope)
    PROVE  /\ IsCap(child(p, jti, scope, exp, nbf, root, leg, size))
           /\ child(p, jti, scope, exp, nbf, root, leg, size).kind = "CT"
<1>1. IsScope(InheritMoneyUnit(p.scope, scope))
  BY InheritScope DEF IsCap
<1> QED  BY <1>1 DEF child, IsCap, attenuateNotBefore

\* A step of one call leaves what the others have established.
LEMMA OneView ==
    ASSUME DOMAIN view = Presentations, NEW r \in Presentations, NEW w,
           view' = [view EXCEPT ![r] = w]
    PROVE  /\ DOMAIN view' = Presentations /\ view'[r] = w
           /\ \A s \in Presentations : s # r => view'[s] = view[s]
  OBVIOUS

\* A step of call r keeps the invariant of the walks when it keeps that of r.
LEMMA ViewStep ==
    ASSUME Inv, NEW r \in Presentations, NEW w, view' = [view EXCEPT ![r] = w],
           IsView(w), WalkOK(w), UNCHANGED <<caps, txns>>
    PROVE  /\ DOMAIN view' = Presentations
           /\ \A s \in Presentations : IsView(view[s])'
           /\ WalkInv'
<1>1. /\ DOMAIN view' = Presentations /\ view'[r] = w
      /\ \A s \in Presentations : s # r => view'[s] = view[s]
  BY OneView DEF Inv, TypeOK
<1>2. ASSUME NEW s \in Presentations PROVE IsView(view[s])' /\ WalkOK(view[s])'
  <2>1. IsView(view[s]) /\ WalkOK(view[s])
    BY DEF Inv, TypeOK, WalkInv
  <2>2. CASE s = r
    BY <1>1, <2>2 DEF IsView, WalkOK
  <2>3. CASE s # r
    BY <1>1, <2>1, <2>3 DEF IsView, WalkOK
  <2> QED  BY <2>2, <2>3
<1> QED  BY <1>1, <1>2 DEF WalkInv

\* Minting a token keeps the invariant when the token is well formed.
LEMMA MintStep ==
    ASSUME Inv, NEW new, caps' = caps \union new,
           \A c \in new : IsCap(c) /\ (c.kind = "CAT" => c.depth \in Nat),
           UNCHANGED <<now, txns, view, usedTxns, usedSlices, allowed>>
    PROVE  Inv'
<1>1. TypeOK'
  <2>1. \A s : s \in Seq(caps) => s \in Seq(caps')
    OBVIOUS
  <2>2. ASSUME NEW r \in Presentations PROVE IsView(view[r])'
    <3>1. IsView(view[r])
      BY DEF Inv, TypeOK
    <3> QED  BY <2>1, <3>1 DEF IsView
  <2> QED  BY <2>1, <2>2 DEF Inv, TypeOK
<1>2. RootInv'
  BY DEF Inv, RootInv
<1>3. WalkInv' /\ NoWidening' /\ DepthBounded'
  BY DEF Inv, WalkInv, WalkOK, NoWidening, DepthBounded
<1> QED  BY <1>1, <1>2, <1>3 DEF Inv

LEMMA InitInv == Init => Inv
  BY DEF Init, Inv, TypeOK, IsView, RootInv, WalkInv, WalkOK, NoWidening, DepthBounded, NoView

\* cattoken.Issue, whatever root it is given.
LEMMA IssueCATStep ==
    ASSUME Inv, NEW q \in CatRequests, NEW root, IssueCAT(q, root)
    PROVE  Inv'
<1> DEFINE cat == [kind |-> "CAT", jti |-> FreshCap, parent |-> 0, cat |-> FreshCap,
                anchor |-> q.anchor, scope |-> q.scope, depth |-> q.depth,
                exp |-> now + q.ttl, nbf |-> 0,
                root |-> root, leg |-> 0, size |-> Len(q.bands)]
<1>1. caps' = caps \union {cat}
  BY DEF IssueCAT
<1>2. IsCap(cat) /\ cat.depth \in Nat
  <2>1. IsScope(q.scope) /\ q.depth \in Nat /\ q.ttl \in Nat /\ now \in Nat
    BY RequestsAssumption DEF IssueCAT, Inv, TypeOK
  <2>2. Len(q.bands) \in Nat
    BY RequestsAssumption
  <2> QED  BY <2>1, <2>2 DEF IsCap
<1>3. UNCHANGED <<now, txns, view, usedTxns, usedSlices, allowed>>
  BY DEF IssueCAT, recordVars
<1> DEFINE new == {cat}
<1>4. \A c \in new : IsCap(c) /\ (c.kind = "CAT" => c.depth \in Nat)
  BY <1>2
<1>5. caps' = caps \union new
  BY <1>1
<1> HIDE DEF new
<1> QED  BY <1>1, <1>3, <1>4, <1>5, MintStep

\* cttoken.Issue and cttoken.Delegate.
LEMMA MintCTStep ==
    ASSUME Inv, NEW kind, NEW p \in caps, NEW q \in CtRequests, MintCT(kind, p, q)
    PROVE  Inv'
<1> DEFINE exp == childExp(p, q.ttl, CTDefaultTTL)
           ct  == child(p, FreshCap, q.scope, exp, q.nbf, <<>>, 0, 0)
<1>1. /\ caps' = caps \union {ct}
      /\ InheritMoneyUnitOK(p.scope, q.scope)
      /\ UNCHANGED <<now, txns, view, usedTxns, usedSlices, allowed>>
  BY DEF MintCT, mayMint, recordVars
<1>2. IsCap(p) /\ now \in Nat
  BY DEF Inv, TypeOK
<1>3. IsScope(q.scope) /\ q.ttl \in Nat /\ q.nbf \in Nat /\ CTDefaultTTL \in Nat
  BY RequestsAssumption
<1>4. exp \in Nat
  BY <1>2, <1>3, ChildExpType
<1>5. IsCap(ct) /\ ct.kind = "CT"
  BY <1>1, <1>2, <1>3, <1>4, ChildType
<1> DEFINE new == {ct}
<1>6. \A c \in new : IsCap(c) /\ (c.kind = "CAT" => c.depth \in Nat)
  BY <1>5
<1>7. caps' = caps \union new
  BY <1>1
<1> HIDE DEF new
<1> QED  BY <1>1, <1>6, <1>7, MintStep

\* cttoken.IssueSubbands.
LEMMA IssueSubbandsStep ==
    ASSUME Inv, NEW p \in caps, NEW q \in CatRequests,
           NEW delays \in [1..Len(q.bands) -> 0..MaxMintDelay],
           IssueSubbands(p, q, delays)
    PROVE  Inv'
<1> DEFINE n == Len(q.bands)
           exp(i) == q.bands[i].exp + delays[i]
           ct(i)  == child(p, FreshCap + i - 1, q.bands[i].scope, exp(i),
                           q.bands[i].nbf, p.root, i, n)
<1>1. /\ caps' = caps \union {ct(i) : i \in 1..n}
      /\ \A i \in 1..n : InheritMoneyUnitOK(p.scope, q.bands[i].scope)
      /\ UNCHANGED <<now, txns, view, usedTxns, usedSlices, allowed>>
  BY DEF IssueSubbands, mayMint, recordVars
<1>2. IsCap(p) /\ n \in Nat /\ DOMAIN q.bands = 1..n /\ MaxMintDelay \in Nat
  BY RequestsAssumption DEF Inv, TypeOK
<1>3. ASSUME NEW i \in 1..n PROVE IsCap(ct(i)) /\ ct(i).kind = "CT"
  <2>1. IsBand(q.bands[i]) /\ delays[i] \in Nat /\ i \in Nat
    BY <1>2, RequestsAssumption
  <2>2. exp(i) \in Nat /\ IsScope(q.bands[i].scope) /\ q.bands[i].nbf \in Nat
    BY <2>1 DEF IsBand
  <2> QED  BY <1>1, <1>2, <2>1, <2>2, ChildType
<1> DEFINE new == {ct(i) : i \in 1..n}
<1>4. \A c \in new : IsCap(c) /\ (c.kind = "CAT" => c.depth \in Nat)
  BY <1>3
<1>5. caps' = caps \union new
  BY <1>1
<1> HIDE DEF new
<1> QED  BY <1>1, <1>4, <1>5, MintStep

\* A token minted without checks.
LEMMA ForgeCTStep ==
    ASSUME Inv, NEW p \in caps, NEW f \in Forgeries, ForgeCT(p, f)
    PROVE  Inv'
<1> DEFINE ct == [kind |-> "CT", jti |-> FreshCap, parent |-> p.jti,
            cat |-> p.cat, anchor |-> f.anchor, scope |-> f.scope,
            depth |-> f.depth, exp |-> f.exp, nbf |-> f.nbf,
            root |-> IF f.leg = 0 THEN <<>> ELSE p.root,
            leg |-> f.leg, size |-> f.size]
<1>1. /\ caps' = caps \union {ct}
      /\ UNCHANGED <<now, txns, view, usedTxns, usedSlices, allowed>>
  BY DEF ForgeCT, recordVars
<1>2. IsCap(ct) /\ ct.kind = "CT"
  BY RequestsAssumption DEF IsCap
<1> DEFINE new == {ct}
<1>3. \A c \in new : IsCap(c) /\ (c.kind = "CAT" => c.depth \in Nat)
  BY <1>2
<1>4. caps' = caps \union new
  BY <1>1
<1> HIDE DEF new
<1> QED  BY <1>1, <1>3, <1>4, MintStep

\* txntoken.Issue.
LEMMA IssueTxnStep ==
    ASSUME Inv, NEW p \in caps, NEW q \in TxnRequests, IssueTxn(p, q)
    PROVE  Inv'
<1> DEFINE exp == childExp(p, q.ttl, TxnDefaultTTL)
           x == [jti |-> FreshTxn, ct |-> p.jti, anchor |-> p.anchor,
                 tc |-> q.tc, exp |-> exp]
<1>1. /\ txns' = txns \union {x}
      /\ UNCHANGED <<now, caps, view, usedTxns, usedSlices, allowed>>
  BY DEF IssueTxn, recordVars
<1>2. IsCap(p) /\ now \in Nat /\ q.tc \in Context /\ q.ttl \in Nat /\ TxnDefaultTTL \in Nat
  BY RequestsAssumption DEF Inv, TypeOK
<1>3. x.tc \in Context /\ x.exp \in Nat
  BY <1>2, ChildExpType
<1>4. TypeOK'
  BY <1>1, <1>3 DEF Inv, TypeOK, IsView
<1>5. RootInv' /\ WalkInv' /\ NoWidening' /\ DepthBounded'
  BY <1>1 DEF Inv, RootInv, WalkInv, WalkOK, NoWidening, DepthBounded
<1> QED  BY <1>4, <1>5 DEF Inv

\* A presentation starts at the root: the effective scope is the CAT's.
LEMMA PresentStep ==
    ASSUME Inv, NEW r \in Presentations, NEW x \in txns, NEW chain \in Chains,
           NEW tc \in Contexts, Present(r, x, chain, tc)
    PROVE  Inv'
<1> DEFINE w == [stage |-> "walk", txn |-> x, chain |-> chain, tc |-> tc,
                 pos |-> 1, effective |-> chain[1].scope,
                 budget |-> chain[1].depth, slice |-> NoSlice, at |-> now]
<1>1. /\ view' = [view EXCEPT ![r] = w]
      /\ chain[1].kind = "CAT"
      /\ UNCHANGED <<now, caps, txns, usedTxns, usedSlices, allowed>>
  BY DEF Present, tokenVars, recordVars
<1>2. chain \in Seq(caps) /\ Len(chain) >= 2 /\ Len(chain) \in Nat /\ chain[1] \in caps
  BY RequestsAssumption DEF Chains
<1>3. IsScope(chain[1].scope) /\ chain[1].depth \in Nat /\ tc \in Context /\ now \in Nat
  BY <1>1, <1>2, RequestsAssumption DEF Inv, TypeOK, RootInv, IsCap
<1>4. IsView(w)
  BY <1>1, <1>2, <1>3 DEF IsView
<1>5. WalkOK(w)
  <2>1. Tighter(chain[1].scope, chain[1].scope)
    BY OverlayTight
  <2> QED  BY <1>3, <2>1 DEF WalkOK
<1> HIDE DEF w
<1>6. /\ DOMAIN view' = Presentations /\ WalkInv'
      /\ \A s \in Presentations : IsView(view[s])'
  BY <1>1, <1>4, <1>5, ViewStep
<1>7. TypeOK' /\ RootInv' /\ NoWidening' /\ DepthBounded'
  BY <1>1, <1>6 DEF Inv, TypeOK, RootInv, NoWidening, DepthBounded
<1> QED  BY <1>6, <1>7 DEF Inv

\* A refused presentation leaves nothing.
LEMMA RefuseStep ==
    ASSUME Inv, NEW r \in Presentations, view' = [view EXCEPT ![r] = NoView],
           \A u \in usedTxns' \union usedSlices' : u.until \in Nat,
           UNCHANGED <<now, caps, txns, allowed>>
    PROVE  Inv'
<1>1. IsView(NoView) /\ WalkOK(NoView)
  BY DEF IsView, WalkOK, NoView
<1>2. /\ DOMAIN view' = Presentations /\ WalkInv'
      /\ \A s \in Presentations : IsView(view[s])'
  BY <1>1, ViewStep
<1> QED  BY <1>2 DEF Inv, TypeOK, RootInv, NoWidening, DepthBounded

\* A hop: the child is contained in the current token, on whose dimensions
\* the effective scope agrees with it, so the overlay tightens.
LEMMA HopStep ==
    ASSUME Inv, NEW r \in Presentations, Hop(r)
    PROVE  Inv'
<1>0. PICK v : v = view[r]
  OBVIOUS
<1> DEFINE p == v.chain[v.pos]
           c == v.chain[v.pos + 1]
           w == walked(v, p, c)
<1>1. /\ v.stage = "walk" /\ v.pos < Len(v.chain)
      /\ UNCHANGED <<now, caps, txns, usedTxns, usedSlices, allowed>>
  BY <1>0 DEF Hop, tokenVars, recordVars
<1>2. IsView(v) /\ WalkOK(v)
  BY <1>0 DEF Inv, TypeOK, WalkInv
<1>3. CASE view' = [view EXCEPT ![r] = NoView]
  BY <1>1, <1>3, RefuseStep DEF Inv, TypeOK
<1>4. CASE hopOK(v, p, c) /\ view' = [view EXCEPT ![r] = w]
  <2>1. /\ v.chain \in Seq(caps) /\ v.pos \in 1..Len(v.chain)
        /\ v.pos + 1 \in 1..Len(v.chain)
        /\ p \in caps /\ c \in caps /\ v.chain[1] \in caps
        /\ v.txn \in txns /\ v.tc \in Context /\ now \in Nat
        /\ IsScope(v.effective) /\ IsScope(p.scope) /\ IsScope(c.scope)
    BY <1>1, <1>2 DEF Inv, TypeOK, IsView, IsCap
  <2>2. Contains(p.scope, c.scope) /\ c.depth = v.budget - 1 /\ c.depth >= 0
    BY <1>4 DEF hopOK, depthOK
  <2>3. /\ w.stage = "walk" /\ w.txn = v.txn /\ w.chain = v.chain
        /\ w.tc = v.tc /\ w.pos = v.pos + 1
        /\ w.effective = overlayScope(v.effective, c.scope)
        /\ w.budget = c.depth /\ w.at = now
    BY DEF walked
  <2>4. c.depth \in Nat /\ v.budget \in Nat /\ v.chain[1].depth \in Int
    BY <1>1, <1>2, <2>1, <2>2 DEF Inv, TypeOK, IsView, IsCap
  <2>5. IsView(w)
    BY <2>1, <2>3, <2>4, OverlayScope DEF IsView
  <2>6. \A d \in DOMAIN p.scope : d \in DOMAIN v.effective /\ v.effective[d] = p.scope[d]
    BY <1>1, <1>2, <2>1 DEF WalkOK, Tighter
  <2>7. ASSUME NEW k \in 1..(v.pos + 1)
        PROVE  Tighter(w.effective, v.chain[k].scope)
    <3>1. CASE k = v.pos + 1
      BY <2>3, <3>1, OverlayTight
    <3>2. CASE k # v.pos + 1
      <4>1. k \in 1..v.pos /\ k \in 1..Len(v.chain)
        BY <3>2, <2>1
      <4>2. Tighter(v.effective, v.chain[k].scope)
        BY <1>1, <1>2, <4>1 DEF WalkOK
      <4>3. v.chain[k] \in caps
        BY <2>1, <4>1
      <4>4. IsScope(v.chain[k].scope)
        BY <4>3 DEF Inv, TypeOK, IsCap
      <4> HIDE DEF w
      <4> QED  BY <2>1, <2>2, <2>3, <2>6, <4>2, <4>4, OverlayKeepsTight
    <3> QED  BY <3>1, <3>2
  <2>8. \A d \in DOMAIN c.scope : w.effective[d] = c.scope[d]
    BY <2>3, OverlayTight
  <2>9. w.budget = v.chain[1].depth - ((v.pos + 1) - 1)
    <3>1. v.budget = v.chain[1].depth - (v.pos - 1)
      BY <1>1, <1>2 DEF WalkOK
    <3>2. v.pos \in Int
      BY <2>1
    <3> HIDE DEF w
    <3> QED  BY <2>2, <2>3, <2>4, <3>1, <3>2
  <2> HIDE DEF w
  <2>10. WalkOK(w)
    BY <2>3, <2>7, <2>8, <2>9 DEF WalkOK
  <2>11. /\ DOMAIN view' = Presentations /\ WalkInv'
         /\ \A s \in Presentations : IsView(view[s])'
    BY <1>1, <1>4, <2>5, <2>10, ViewStep
  <2>12. TypeOK' /\ RootInv' /\ NoWidening' /\ DepthBounded'
    BY <1>1, <2>11 DEF Inv, TypeOK, RootInv, NoWidening, DepthBounded
  <2> QED  BY <2>11, <2>12 DEF Inv
<1> QED  BY <1>0, <1>3, <1>4 DEF Hop

\* What the records hold after a decision: those not expired, and at most one
\* more of each kind, held until the expiry of what it guards or longer.
LEMMA RecordsStep ==
    ASSUME Inv, NEW v, IsView(v), v.stage = "walk"
    PROVE  /\ recordUntil(v.txn.exp) \in Nat /\ recordUntil(v.chain[v.pos].exp) \in Nat
           /\ recordUntil(v.chain[v.pos].exp) >= v.chain[v.pos].exp
           /\ v.chain[v.pos].exp \in Nat
<1>1. v.txn \in txns /\ v.chain[v.pos] \in caps
  BY DEF IsView
<1>2. now \in Nat /\ v.txn.exp \in Nat /\ v.chain[v.pos].exp \in Nat
  BY <1>1 DEF Inv, TypeOK, IsCap
<1> QED  BY <1>2 DEF recordUntil

\* The decision: what passes step 7 is within the effective scope, hence
\* within every scope of the chain.
LEMMA DecideStep ==
    ASSUME Inv, NEW r \in Presentations, Decide(r)
    PROVE  Inv'
<1>0. PICK v : v = view[r]
  OBVIOUS
<1>1. /\ v.stage = "walk" /\ v.pos = Len(v.chain)
      /\ view' = [view EXCEPT ![r] = NoView]
      /\ UNCHANGED <<now, caps, txns>>
  BY <1>0 DEF Decide, tokenVars
<1>2. IsView(v) /\ WalkOK(v)
  BY <1>0 DEF Inv, TypeOK, WalkInv
<1>3. \A u \in usedTxns' \union usedSlices' : u.until \in Nat
  <2>1. \A u \in usedTxns \union usedSlices : u.until \in Nat
    BY DEF Inv, TypeOK
  <2>2. recordUntil(v.txn.exp) \in Nat /\ recordUntil(v.chain[v.pos].exp) \in Nat
    BY <1>1, <1>2, RecordsStep
  <2>3. txnUse(v).until \in Nat /\ \A u \in sliceUse(v) : u.until \in Nat
    BY <2>2 DEF txnUse, sliceUse
  <2>4. CASE UNCHANGED recordVars
    BY <2>1, <2>4 DEF recordVars
  <2>5. CASE usedTxns' = unexpired(usedTxns) /\ usedSlices' = unexpired(usedSlices)
    BY <2>1, <2>5 DEF unexpired
  <2>6. CASE /\ usedTxns' = unexpired(usedTxns) \union {txnUse(v)}
             /\ usedSlices' = unexpired(usedSlices) \union sliceUse(v)
    <3>1. \A u \in unexpired(usedTxns) \union unexpired(usedSlices) : u.until \in Nat
      BY <2>1 DEF unexpired
    <3> QED  BY <2>3, <2>6, <3>1
  <2> QED  BY <1>0, <2>4, <2>5, <2>6 DEF Decide
<1>4. CASE UNCHANGED allowed
  BY <1>1, <1>3, <1>4, RefuseStep
<1>5. CASE Authorizes(v.effective, v.tc) /\ allowed' = allowed \union {Outcome(v)}
  <2>1. /\ v.chain \in Seq(caps) /\ v.pos \in 1..Len(v.chain)
        /\ v.txn \in txns /\ v.tc \in Context /\ v.at \in Nat
        /\ IsScope(v.effective) /\ v.budget \in Nat /\ now \in Nat
    BY <1>1, <1>2 DEF Inv, TypeOK, IsView
  <2>2. PICK o : o = Outcome(v)
    OBVIOUS
  <2>3. /\ o.chain = v.chain /\ o.tc = v.tc
        /\ o.txn = v.txn /\ o.at = v.at /\ o.decided = now
        /\ allowed' = allowed \union {o}
    BY <1>5, <2>2 DEF Outcome
  <2>4. Within(v.effective, v.tc)
    BY <1>5, <2>1, AuthorizedWithin
  <2>5. ASSUME NEW k \in DOMAIN v.chain
        PROVE  Within(v.chain[k].scope, v.tc)
    <3>1. k \in 1..v.pos /\ v.chain[k] \in caps
      BY <1>1, <2>1
    <3>2. Tighter(v.effective, v.chain[k].scope)
      BY <1>1, <1>2, <3>1 DEF WalkOK
    <3>3. IsScope(v.chain[k].scope)
      BY <3>1 DEF Inv, TypeOK, IsCap
    <3> QED  BY <2>1, <2>4, <3>2, <3>3, TighterWithin
  <2>6. NoWidening'
    BY <2>3, <2>5 DEF Inv, NoWidening
  <2>7. Len(v.chain) - 1 <= v.chain[1].depth
    <3>1. v.budget = v.chain[1].depth - (v.pos - 1)
      BY <1>1, <1>2 DEF WalkOK
    <3>2. v.chain[1].depth \in Int
      BY <2>1 DEF Inv, TypeOK, IsCap
    <3> QED  BY <1>1, <2>1, <3>1, <3>2
  <2>8. DepthBounded'
    BY <2>3, <2>7 DEF Inv, DepthBounded
  <2>9. IsView(NoView) /\ WalkOK(NoView)
    BY DEF IsView, WalkOK, NoView
  <2>10. /\ DOMAIN view' = Presentations /\ WalkInv'
         /\ \A s \in Presentations : IsView(view[s])'
    BY <1>1, <2>9, ViewStep
  <2>11. TypeOK'
    <3>1. \A a \in allowed' :
             /\ a.txn \in txns /\ a.tc \in Context /\ a.at \in Nat /\ a.decided \in Nat
             /\ a.chain \in Seq(caps) /\ a.chain # <<>>
      BY <2>1, <2>3 DEF Inv, TypeOK
    <3> QED  BY <1>1, <1>3, <2>10, <3>1 DEF Inv, TypeOK
  <2>12. RootInv'
    BY <1>1 DEF Inv, RootInv
  <2> QED  BY <2>6, <2>8, <2>10, <2>11, <2>12 DEF Inv
<1> QED  BY <1>0, <1>4, <1>5 DEF Decide

LEMMA NextInv == Inv /\ [Next]_vars => Inv'
<1> SUFFICES ASSUME Inv, [Next]_vars PROVE Inv'
  OBVIOUS
<1>1. CASE Mint
  BY <1>1, IssueCATStep, MintCTStep, IssueSubbandsStep, ForgeCTStep, IssueTxnStep
     DEF Mint, CommitAndIssue, Issue, Delegate
<1>2. ASSUME NEW r \in Presentations, Verify(r) PROVE Inv'
  BY <1>2, PresentStep, HopStep, DecideStep DEF Verify
<1>3. CASE Tick
  BY <1>3 DEF Tick, Inv, TypeOK, IsView, RootInv, WalkInv, WalkOK, NoWidening, DepthBounded,
              tokenVars, recordVars
<1>4. CASE UNCHANGED vars
  BY <1>4 DEF vars, Inv, TypeOK, IsView, RootInv, WalkInv, WalkOK, NoWidening, DepthBounded
<1> QED  BY <1>1, <1>2, <1>3, <1>4 DEF Next

\* The inductive invariant holds in every behaviour.
THEOREM DelegationInvariant == Spec => []Inv
  BY InitInv, NextInv, PTL DEF Spec

\* Type correctness of issuers and verifier.
THEOREM DelegationTypes == Spec => []TypeOK
<1>1. Inv => TypeOK
  BY DEF Inv
<1> QED  BY <1>1, DelegationInvariant, PTL

\* No delegation widens: whatever tokens were minted and however long the
\* chain, an allowed transaction is within the bounds of every ancestor.
THEOREM DelegationNeverWidens == Spec => []NoWidening
<1>1. Inv => NoWidening
  BY DEF Inv
<1> QED  BY <1>1, DelegationInvariant, PTL

\* The root's delegation_depth_max bounds every allowed chain.
THEOREM DelegationDepthBounded == Spec => []DepthBounded
<1>1. Inv => DepthBounded
  BY DEF Inv
<1> QED  BY <1>1, DelegationInvariant, PTL

-----------------------------------------------------------------------------
(* Budgets.  The verifier keeps no total, so the bound on what is spent    *)
(* rests on three facts at once: every hop below a budgeted CAT is a slice *)
(* of its one committed division, no slice is spent twice while it is      *)
(* valid, and the division adds up to no more than the budget.             *)

\* What CommitBandDivision checked of a root: the only division a CAT commits
\* to is one that ValidateBandDivision accepted.
Divided(c, q) ==
    /\ c.root = CommitBandDivision(c.scope, q.bands)
    /\ ValidateBandDivision(c.scope, q.from, q.to, q.bands)
RootsValid ==
    \A c \in caps : c.kind = "CAT" =>
        /\ ValidateIssuance(c.scope)
        /\ c.root # <<>> => \E q \in CatRequests : Divided(c, q)

\* Slice s is a leg of the division of cat, and it is live at t.
LiveSlice(cat, s, t) ==
    /\ cat.root # <<>> /\ s.leg \in DOMAIN cat.root
    /\ s = [root |-> cat.root, leg |-> s.leg]
    /\ cat.root[s.leg].nbf <= t /\ t < cat.root[s.leg].exp

\* A slice is spent until the expiry its division gives it, which is that of
\* the token that carries it.
SliceExpiry(s, c) == s # NoSlice => s.root[s.leg].exp = c.exp

\* Below a budgeted root the walk stands on a slice of its division: the slice
\* identity names it, the token has its budget and its window, and it repeats
\* the commitment, so that a further hop is judged by the same division.
SliceOK(v) ==
    v.stage # "idle" =>
        /\ v.chain[1].kind = "CAT"
        /\ Len(v.chain) >= 2
        /\ SliceExpiry(v.slice, v.chain[v.pos])
        /\ v.pos >= 2 /\ budgeted(v.chain[1]) =>
              LET cat == v.chain[1]
                  c == v.chain[v.pos]
              IN  /\ LiveSlice(cat, v.slice, v.at)
                  /\ DeclaresCumulativeBudget(c.scope) /\ c.root = cat.root
                  /\ c.scope["max_cumulative"] = cat.root[v.slice.leg].cum

SliceInv == \A r \in Presentations : SliceOK(view[r])

leafExp(a) == a.chain[Len(a.chain)].exp

\* Every allowed outcome under a budgeted root is on a slice, within the
\* budget of it, and its use is on record while the slice is valid.
SpentOK(a) ==
    /\ a.chain[1].kind = "CAT"
    /\ budgeted(a.chain[1]) =>
          /\ LiveSlice(a.chain[1], a.slice, a.at)
          /\ a.tc.amount \in Nat /\ a.tc.amount <= a.chain[1].root[a.slice.leg].cum
    /\ leafExp(a) \in Nat
    /\ SliceExpiry(a.slice, a.chain[Len(a.chain)])
Recorded(a) ==
    a.slice # NoSlice /\ now < leafExp(a) =>
        \E u \in usedSlices : u.slice = a.slice /\ u.until >= leafExp(a)

\* Of the outcomes on one slice one is timely.
SpentInv ==
    /\ IsFiniteSet(allowed)
    /\ \A a \in allowed : SpentOK(a) /\ Recorded(a)
    /\ \A a, b \in allowed :
          a.slice # NoSlice /\ a.slice = b.slice /\ Timely(a) /\ Timely(b) => a = b

BudgetInv == Inv /\ RootsValid /\ SliceInv /\ SpentInv

\* The leaf of a committed division.
LEMMA LeafOf ==
    ASSUME NEW c, NEW q, Divided(c, q), NEW i \in DOMAIN c.root
    PROVE  /\ DOMAIN c.root = DOMAIN q.bands /\ i \in DOMAIN q.bands
           /\ c.root[i].nbf = q.bands[i].nbf /\ c.root[i].exp = q.bands[i].exp
           /\ c.root[i].cum = q.bands[i].scope["max_cumulative"]
  BY DEF Divided, CommitBandDivision, SubbandLeaf

\* A live slice of a division determines the leg: no two windows of a
\* division overlap.
LEMMA OneLeg ==
    ASSUME NEW c, NEW q \in CatRequests, Divided(c, q), NEW r, NEW s, NEW t \in Nat,
           LiveSlice(c, r, t), LiveSlice(c, s, t)
    PROVE  r = s
<1>1. /\ Len(q.bands) \in Nat /\ DOMAIN q.bands = 1..Len(q.bands)
      /\ \A i \in DOMAIN q.bands : q.bands[i].nbf \in Int /\ q.bands[i].exp \in Int
  BY RequestsAssumption DEF IsBand
<1>2. noOverlap(q.bands)
  BY DEF Divided, ValidateBandDivision
<1>3. /\ r.leg \in DOMAIN q.bands /\ q.bands[r.leg].nbf <= t /\ t < q.bands[r.leg].exp
      /\ s.leg \in DOMAIN q.bands /\ q.bands[s.leg].nbf <= t /\ t < q.bands[s.leg].exp
  BY LeafOf DEF LiveSlice
<1>4. r.leg = s.leg
  <2> SUFFICES ASSUME r.leg # s.leg PROVE FALSE
    OBVIOUS
  <2>1. \/ q.bands[r.leg].exp <= q.bands[s.leg].nbf
        \/ q.bands[s.leg].exp <= q.bands[r.leg].nbf
    BY <1>1, <1>2, <1>3, BandsDisjoint
  <2> QED  BY <1>1, <1>3, <2>1
<1> QED  BY <1>4 DEF LiveSlice

\* Minting keeps the budget invariant when a new CAT was checked.
LEMMA MintBudgetStep ==
    ASSUME BudgetInv, Inv', NEW new, caps' = caps \union new,
           \A c \in new : c.kind = "CAT" =>
               /\ ValidateIssuance(c.scope)
               /\ c.root # <<>> => \E q \in CatRequests : Divided(c, q),
           UNCHANGED <<now, txns, view, usedTxns, usedSlices, allowed>>
    PROVE  BudgetInv'
<1>1. RootsValid'
  BY DEF BudgetInv, RootsValid
<1>2. SliceInv' /\ SpentInv'
  BY DEF BudgetInv, SliceInv, SliceOK, SliceExpiry, SpentInv, SpentOK, Recorded, Timely
<1> QED  BY <1>1, <1>2 DEF BudgetInv

LEMMA BudgetMint ==
    ASSUME BudgetInv, Inv', Mint
    PROVE  BudgetInv'
<1>1. ASSUME NEW q \in CatRequests, CommitAndIssue(q) PROVE BudgetInv'
  <2> DEFINE cat == [kind |-> "CAT", jti |-> FreshCap, parent |-> 0, cat |-> FreshCap,
                anchor |-> q.anchor, scope |-> q.scope, depth |-> q.depth,
                exp |-> now + q.ttl, nbf |-> 0,
                root |-> CommitBandDivision(q.scope, q.bands), leg |-> 0,
                size |-> Len(q.bands)]
             new == {cat}
  <2>1. /\ caps' = caps \union new /\ ValidateIssuance(q.scope)
        /\ q.bands # <<>> => ValidateBandDivision(q.scope, q.from, q.to, q.bands)
        /\ UNCHANGED <<now, txns, view, usedTxns, usedSlices, allowed>>
    BY <1>1 DEF CommitAndIssue, IssueCAT, recordVars
  <2>2. CommitBandDivision(q.scope, q.bands) # <<>> => q.bands # <<>>
    BY DEF CommitBandDivision
  <2>3. cat.scope = q.scope /\ cat.root = CommitBandDivision(q.scope, q.bands)
    OBVIOUS
  <2> HIDE DEF cat
  <2>4. cat.root # <<>> => Divided(cat, q)
    BY <2>1, <2>2, <2>3 DEF Divided
  <2>5. \A c \in new : c.kind = "CAT" =>
               /\ ValidateIssuance(c.scope)
               /\ c.root # <<>> => \E r \in CatRequests : Divided(c, r)
    BY <2>1, <2>3, <2>4
  <2> HIDE DEF new
  <2> QED  BY <2>1, <2>5, MintBudgetStep
<1>2. ASSUME NEW kind, NEW p \in caps, NEW q \in CtRequests, MintCT(kind, p, q)
      PROVE  BudgetInv'
  <2> DEFINE new == {child(p, FreshCap, q.scope, childExp(p, q.ttl, CTDefaultTTL), q.nbf, <<>>, 0, 0)}
  <2>1. /\ caps' = caps \union new
        /\ UNCHANGED <<now, txns, view, usedTxns, usedSlices, allowed>>
    BY <1>2 DEF MintCT, recordVars
  <2>2. \A c \in new : c.kind = "CT"
    BY DEF child
  <2> HIDE DEF new
  <2> QED  BY <2>1, <2>2, MintBudgetStep
<1>3. ASSUME NEW p \in caps, NEW q \in CatRequests,
             NEW delays \in [1..Len(q.bands) -> 0..MaxMintDelay], IssueSubbands(p, q, delays)
      PROVE  BudgetInv'
  <2> DEFINE new == {child(p, FreshCap + i - 1, q.bands[i].scope, q.bands[i].exp + delays[i],
                           q.bands[i].nbf, p.root, i, Len(q.bands)) : i \in 1..Len(q.bands)}
  <2>1. /\ caps' = caps \union new
        /\ UNCHANGED <<now, txns, view, usedTxns, usedSlices, allowed>>
    BY <1>3 DEF IssueSubbands, recordVars
  <2>2. \A c \in new : c.kind = "CT"
    BY DEF child
  <2> HIDE DEF new
  <2> QED  BY <2>1, <2>2, MintBudgetStep
<1>4. ASSUME NEW p \in caps, NEW f \in Forgeries, ForgeCT(p, f) PROVE BudgetInv'
  <2> DEFINE new == {[kind |-> "CT", jti |-> FreshCap, parent |-> p.jti,
            cat |-> p.cat, anchor |-> f.anchor, scope |-> f.scope,
            depth |-> f.depth, exp |-> f.exp, nbf |-> f.nbf,
            root |-> IF f.leg = 0 THEN <<>> ELSE p.root,
            leg |-> f.leg, size |-> f.size]}
  <2>1. /\ caps' = caps \union new
        /\ UNCHANGED <<now, txns, view, usedTxns, usedSlices, allowed>>
    BY <1>4 DEF ForgeCT, recordVars
  <2>2. \A c \in new : c.kind = "CT"
    OBVIOUS
  <2> HIDE DEF new
  <2> QED  BY <2>1, <2>2, MintBudgetStep
<1>5. ASSUME NEW p \in caps, NEW q \in TxnRequests, IssueTxn(p, q) PROVE BudgetInv'
  <2>1. UNCHANGED <<now, caps, view, usedSlices, allowed>>
    BY <1>5 DEF IssueTxn, recordVars
  <2> QED  BY <2>1 DEF BudgetInv, RootsValid, SliceInv, SliceOK, SliceExpiry,
                       SpentInv, SpentOK, Recorded, Timely
<1> QED  BY <1>1, <1>2, <1>3, <1>4, <1>5 DEF Mint, Issue, Delegate

\* A step of call r keeps the invariant of the slices when it keeps that of r.
LEMMA SliceStep ==
    ASSUME BudgetInv, NEW r \in Presentations, NEW w, view' = [view EXCEPT ![r] = w],
           SliceOK(w)
    PROVE  SliceInv'
<1>1. /\ DOMAIN view' = Presentations /\ view'[r] = w
      /\ \A s \in Presentations : s # r => view'[s] = view[s]
  BY OneView DEF BudgetInv, Inv, TypeOK
<1>2. ASSUME NEW s \in Presentations PROVE SliceOK(view[s])'
  <2>1. SliceOK(view[s])
    BY DEF BudgetInv, SliceInv
  <2>2. CASE s = r
    BY <1>1, <2>2 DEF SliceOK, SliceExpiry
  <2>3. CASE s # r
    BY <1>1, <2>1, <2>3 DEF SliceOK, SliceExpiry
  <2> QED  BY <2>2, <2>3
<1> QED  BY <1>2 DEF SliceInv

\* A presentation starts at the root, before any slice.
LEMMA BudgetPresent ==
    ASSUME BudgetInv, Inv', NEW r \in Presentations, NEW x \in txns, NEW chain \in Chains,
           NEW tc \in Contexts, Present(r, x, chain, tc)
    PROVE  BudgetInv'
<1> DEFINE w == [stage |-> "walk", txn |-> x, chain |-> chain, tc |-> tc,
                 pos |-> 1, effective |-> chain[1].scope,
                 budget |-> chain[1].depth, slice |-> NoSlice, at |-> now]
<1>1. /\ view' = [view EXCEPT ![r] = w]
      /\ chain[1].kind = "CAT"
      /\ UNCHANGED <<now, caps, txns, usedTxns, usedSlices, allowed>>
  BY DEF Present, tokenVars, recordVars
<1>2. Len(chain) >= 2
  BY RequestsAssumption DEF Chains
<1>3. SliceOK(w)
  BY <1>1, <1>2 DEF SliceOK, SliceExpiry
<1> HIDE DEF w
<1>4. SliceInv'
  BY <1>1, <1>3, SliceStep
<1> QED  BY <1>1, <1>4 DEF BudgetInv, RootsValid, SpentInv, SpentOK, Recorded, Timely

\* A hop from a token that is budgeted and repeats the root's commitment ends
\* on a slice of the root's division that is live now.
LEMMA OntoSlice ==
    ASSUME NEW cat, NEW p, NEW c, budgeted(p), p.root = cat.root,
           checkSubbandMembership(p, c), live(c), IsCap(c), now \in Nat
    PROVE  LET s == sliceIdentity(p, c)
           IN  /\ LiveSlice(cat, s, now) /\ DeclaresCumulativeBudget(c.scope)
               /\ c.root = cat.root /\ c.scope["max_cumulative"] = cat.root[s.leg].cum
<1>1. /\ DeclaresCumulativeBudget(c.scope) /\ cat.root # <<>> /\ c.root = cat.root
      /\ c.leg \in DOMAIN cat.root
      /\ cat.root[c.leg] = SubbandLeaf(SubbandParentCommit(p.scope),
                               [scope |-> c.scope, nbf |-> c.nbf, exp |-> c.exp], c.leg, c.size)
  BY DEF checkSubbandMembership, isMember
<1>2. /\ cat.root[c.leg].nbf = c.nbf /\ cat.root[c.leg].exp = c.exp
      /\ cat.root[c.leg].cum = c.scope["max_cumulative"]
  BY <1>1 DEF SubbandLeaf
<1>3. c.nbf <= now /\ now < c.exp
  BY DEF live, IsCap
<1>4. sliceIdentity(p, c) = [root |-> cat.root, leg |-> c.leg]
  BY DEF sliceIdentity
<1> QED  BY <1>1, <1>2, <1>3, <1>4 DEF LiveSlice

\* The expiry in a slice's identity is that of the token.
LEMMA SliceExpires ==
    ASSUME NEW p, NEW c, checkSubbandMembership(p, c)
    PROVE  SliceExpiry(sliceIdentity(p, c), c)
<1>1. CASE budgeted(p)
  <2>1. p.root[c.leg] = SubbandLeaf(SubbandParentCommit(p.scope),
                          [scope |-> c.scope, nbf |-> c.nbf, exp |-> c.exp], c.leg, c.size)
    BY <1>1 DEF checkSubbandMembership, isMember
  <2>2. p.root[c.leg].exp = c.exp
    BY <2>1 DEF SubbandLeaf
  <2> QED  BY <1>1, <2>2 DEF SliceExpiry, sliceIdentity
<1>2. CASE ~budgeted(p)
  BY <1>2 DEF SliceExpiry, sliceIdentity
<1> QED  BY <1>1, <1>2

LEMMA BudgetHop ==
    ASSUME BudgetInv, Inv', NEW r \in Presentations, Hop(r)
    PROVE  BudgetInv'
<1>0. PICK v : v = view[r]
  OBVIOUS
<1> DEFINE p == v.chain[v.pos]
           c == v.chain[v.pos + 1]
           cat == v.chain[1]
           w == walked(v, p, c)
<1>1. /\ v.stage = "walk" /\ v.pos < Len(v.chain)
      /\ UNCHANGED <<now, caps, txns, usedTxns, usedSlices, allowed>>
  BY <1>0 DEF Hop, tokenVars, recordVars
<1>2. RootsValid' /\ SpentInv'
  BY <1>1 DEF BudgetInv, RootsValid, SpentInv, SpentOK, Recorded, Timely
<1>3. IsView(v) /\ SliceOK(v)
  BY <1>0 DEF BudgetInv, Inv, TypeOK, SliceInv
<1>4. CASE view' = [view EXCEPT ![r] = NoView]
  <2>1. SliceOK(NoView)
    BY DEF SliceOK, NoView
  <2> QED  BY <1>2, <1>4, <2>1, SliceStep DEF BudgetInv
<1>5. CASE hopOK(v, p, c) /\ view' = [view EXCEPT ![r] = w]
  <2>1. /\ v.chain \in Seq(caps) /\ v.pos \in 1..Len(v.chain)
        /\ v.pos + 1 \in 1..Len(v.chain) /\ v.pos \in Nat
        /\ c \in caps /\ now \in Nat
    BY <1>1, <1>3 DEF BudgetInv, Inv, TypeOK, IsView
  <2>2. /\ w.stage = "walk" /\ w.chain = v.chain /\ w.pos = v.pos + 1
        /\ w.slice = sliceIdentity(p, c) /\ w.at = now
    BY DEF walked
  <2>3. checkSubbandMembership(p, c) /\ live(c) /\ IsCap(c)
    BY <1>5, <2>1 DEF hopOK, BudgetInv, Inv, TypeOK
  <2>4. cat.kind = "CAT" /\ Len(v.chain) >= 2
    BY <1>1, <1>3 DEF SliceOK
  <2>5. ASSUME budgeted(cat)
        PROVE  budgeted(p) /\ p.root = cat.root
    <3>1. CASE v.pos = 1
      BY <2>5, <3>1
    <3>2. CASE v.pos # 1
      <4>1. v.pos >= 2
        BY <2>1, <3>2
      <4> QED  BY <1>1, <1>3, <2>5, <4>1 DEF SliceOK, budgeted
    <3> QED  BY <3>1, <3>2
  <2>6. ASSUME budgeted(cat)
        PROVE  LET s == sliceIdentity(p, c)
               IN  /\ LiveSlice(cat, s, now) /\ DeclaresCumulativeBudget(c.scope)
                   /\ c.root = cat.root /\ c.scope["max_cumulative"] = cat.root[s.leg].cum
    <3> HIDE DEF p, c, cat, w
    <3> QED  BY <2>1, <2>3, <2>5, <2>6, OntoSlice
  <2>7. SliceExpiry(sliceIdentity(p, c), c)
    BY <2>3, SliceExpires
  <2>8. w.chain[1] = cat /\ w.chain[w.pos] = c
    BY <2>2
  <2>9. SliceOK(w)
    <3> HIDE DEF p, c, cat, w
    <3> QED  BY <2>2, <2>4, <2>6, <2>7, <2>8 DEF SliceOK
  <2> HIDE DEF w
  <2> QED  BY <1>2, <1>5, <2>9, SliceStep DEF BudgetInv
<1> QED  BY <1>0, <1>4, <1>5 DEF Hop

\* A decision keeps the records that still guard something.
LEMMA RecordsKept ==
    ASSUME BudgetInv, NEW a \in allowed, UNCHANGED now,
           \A u \in unexpired(usedSlices) : u \in usedSlices'
    PROVE  Recorded(a)'
<1> SUFFICES ASSUME a.slice # NoSlice, now < leafExp(a)
             PROVE  \E u \in usedSlices' : u.slice = a.slice /\ u.until >= leafExp(a)
  BY DEF Recorded, leafExp
<1>1. PICK u \in usedSlices : u.slice = a.slice /\ u.until >= leafExp(a)
  BY DEF BudgetInv, SpentInv, Recorded
<1>2. now \in Nat /\ leafExp(a) \in Nat /\ u.until \in Nat
  BY DEF BudgetInv, Inv, TypeOK, SpentInv, SpentOK
<1>3. now < u.until
  BY <1>1, <1>2
<1>4. u \in unexpired(usedSlices)
  BY <1>3 DEF unexpired
<1> QED  BY <1>1, <1>4

\* The decision spends a slice that was not spent, or one that is no longer
\* valid, and no more than it holds.
LEMMA BudgetDecide ==
    ASSUME BudgetInv, Inv', NEW r \in Presentations, Decide(r)
    PROVE  BudgetInv'
<1>0. PICK v : v = view[r]
  OBVIOUS
<1>1. /\ v.stage = "walk" /\ v.pos = Len(v.chain) /\ view' = [view EXCEPT ![r] = NoView]
      /\ UNCHANGED <<now, caps, txns>>
  BY <1>0 DEF Decide, tokenVars
<1>2. RootsValid' /\ SliceInv'
  <2>1. SliceOK(NoView)
    BY DEF SliceOK, NoView
  <2> QED  BY <1>1, <2>1, SliceStep DEF BudgetInv, RootsValid
<1>3. IsView(v) /\ SliceOK(v)
  BY <1>0 DEF BudgetInv, Inv, TypeOK, SliceInv
<1>4. CASE UNCHANGED allowed /\ (UNCHANGED usedSlices \/ usedSlices' = unexpired(usedSlices))
  <2>1. \A u \in unexpired(usedSlices) : u \in usedSlices'
    BY <1>4 DEF unexpired
  <2>2. \A a \in allowed : Recorded(a)'
    BY <1>1, <2>1, RecordsKept
  <2>3. SpentInv'
    BY <1>4, <2>2 DEF BudgetInv, SpentInv, SpentOK, Timely
  <2> QED  BY <1>2, <2>3 DEF BudgetInv
<1>5. CASE /\ ~alreadyUsed(v)
           /\ usedSlices' = unexpired(usedSlices) \union sliceUse(v)
           /\ allowed' = allowed \union {Outcome(v)}
  <2> DEFINE cat == v.chain[1]
             leaf == v.chain[v.pos]
  <2>0. PICK o : o = Outcome(v)
    OBVIOUS
  <2>1. /\ o.chain = v.chain /\ o.tc = v.tc /\ o.slice = v.slice /\ o.at = v.at
        /\ o.decided = now /\ allowed' = allowed \union {o}
    BY <1>5, <2>0 DEF Outcome
  <2>2. /\ v.chain \in Seq(caps) /\ v.pos \in 1..Len(v.chain)
        /\ v.tc \in Context /\ v.pos >= 2 /\ cat.kind = "CAT"
    BY <1>1, <1>3 DEF IsView, SliceOK
  <2>3. Within(leaf.scope, v.tc)
    <3>1. o \in allowed' /\ v.pos \in DOMAIN o.chain
      BY <2>1, <2>2
    <3>2. Within(o.chain[v.pos].scope, o.tc)
      BY <3>1 DEF Inv, NoWidening
    <3> QED  BY <2>1, <3>2
  <2>4. ASSUME budgeted(cat)
        PROVE  /\ LiveSlice(cat, v.slice, v.at)
               /\ v.tc.amount \in Nat /\ v.tc.amount <= cat.root[v.slice.leg].cum
    <3>1. /\ LiveSlice(cat, v.slice, v.at) /\ "max_cumulative" \in DOMAIN leaf.scope
          /\ leaf.scope["max_cumulative"] = cat.root[v.slice.leg].cum
      BY <1>1, <1>3, <2>2, <2>4 DEF SliceOK, DeclaresCumulativeBudget
    <3>2. v.tc.amount \in Int
      BY <2>2 DEF Context
    <3>3. 0 < v.tc.amount /\ v.tc.amount <= leaf.scope["max_cumulative"]
      BY <2>3, <3>1 DEF Within, moneyDims
    <3> QED  BY <3>1, <3>2, <3>3
  <2>5. /\ recordUntil(leaf.exp) \in Nat /\ recordUntil(leaf.exp) >= leaf.exp /\ leaf.exp \in Nat
    BY <1>1, <1>3, RecordsStep DEF BudgetInv
  <2>6. leafExp(o) = leaf.exp /\ o.chain[Len(o.chain)] = leaf
    BY <1>1, <2>1 DEF leafExp
  <2>7. SpentOK(o)
    <3>1. SliceExpiry(v.slice, leaf)
      BY <1>1, <1>3 DEF SliceOK
    <3> HIDE DEF cat, leaf
    <3>2. o.chain[1] = cat
      BY <2>1 DEF cat
    <3> QED  BY <2>1, <2>2, <2>4, <2>5, <2>6, <3>1, <3>2 DEF SpentOK
  <2>8. Recorded(o)'
    <3> SUFFICES ASSUME o.slice # NoSlice
                 PROVE  \E u \in usedSlices' : u.slice = o.slice /\ u.until >= leafExp(o)
      BY DEF Recorded, leafExp
    <3>1. [slice |-> v.slice, until |-> recordUntil(leaf.exp)] \in usedSlices'
      BY <1>5, <2>1 DEF sliceUse
    <3> QED  BY <2>1, <2>5, <2>6, <3>1
  <2>9. \A a \in allowed : Recorded(a)'
    <3>1. \A u \in unexpired(usedSlices) : u \in usedSlices'
      BY <1>5
    <3> QED  BY <1>1, <3>1, RecordsKept
  <2>10. ASSUME NEW a \in allowed, a.slice # NoSlice, a.slice = o.slice, Timely(o) PROVE FALSE
    <3>1. SpentOK(a) /\ Recorded(a)
      BY DEF BudgetInv, SpentInv
    <3>2. leafExp(a) = leafExp(o)
      BY <2>7, <2>10, <3>1 DEF SpentOK, SliceExpiry, leafExp
    <3>3. now < leafExp(a)
      BY <2>1, <2>10, <3>2 DEF Timely, leafExp
    <3>4. PICK u \in usedSlices : u.slice = a.slice /\ u.until >= leafExp(a)
      BY <2>10, <3>1, <3>3 DEF Recorded
    <3>5. now \in Nat /\ leafExp(a) \in Nat /\ u.until \in Nat
      BY <3>1 DEF BudgetInv, Inv, TypeOK, SpentOK
    <3>6. now < u.until
      BY <3>3, <3>4, <3>5
    <3>7. u \in unexpired(usedSlices)
      BY <3>6 DEF unexpired
    <3> QED  BY <1>5, <2>1, <2>10, <3>4, <3>7 DEF alreadyUsed
  <2>11. IsFiniteSet(allowed')
    BY <2>1, FS_AddElement DEF BudgetInv, SpentInv
  <2>12. \A a \in allowed' : SpentOK(a)' /\ Recorded(a)'
    <3>1. \A a \in allowed : SpentOK(a)
      BY DEF BudgetInv, SpentInv
    <3>2. ASSUME NEW a \in allowed' PROVE SpentOK(a)'
      <4>1. SpentOK(a)
        BY <2>1, <2>7, <3>1
      <4> QED  BY <4>1 DEF SpentOK, SliceExpiry, leafExp
    <3> QED  BY <2>1, <2>8, <2>9, <3>2
  <2>13. ASSUME NEW a \in allowed', NEW b \in allowed', a.slice # NoSlice, a.slice = b.slice,
                Timely(a), Timely(b)
        PROVE  a = b
    <3>1. CASE a \in allowed /\ b \in allowed
      BY <2>13, <3>1 DEF BudgetInv, SpentInv
    <3> QED  BY <2>1, <2>10, <2>13, <3>1
  <2>14. SpentInv'
    <3>1. \A a, b \in allowed' :
            a.slice # NoSlice /\ a.slice = b.slice /\ Timely(a)' /\ Timely(b)' => a = b
      BY <2>13 DEF Timely
    <3> QED  BY <2>11, <2>12, <3>1 DEF SpentInv
  <2> QED  BY <1>2, <2>14 DEF BudgetInv
<1> QED  BY <1>0, <1>4, <1>5 DEF Decide, recordVars

LEMMA BudgetNext == BudgetInv /\ [Next]_vars => BudgetInv'
<1> SUFFICES ASSUME BudgetInv, [Next]_vars PROVE BudgetInv'
  OBVIOUS
<1>1. Inv'
  BY NextInv DEF BudgetInv
<1>2. CASE Mint
  BY <1>1, <1>2, BudgetMint
<1>3. ASSUME NEW r \in Presentations, Verify(r) PROVE BudgetInv'
  BY <1>1, <1>3, BudgetPresent, BudgetHop, BudgetDecide DEF Verify
<1>4. CASE UNCHANGED <<caps, view, usedSlices, allowed>> /\ now' \in {now, now + 1}
  <2>1. RootsValid' /\ SliceInv'
    BY <1>4 DEF BudgetInv, RootsValid, SliceInv, SliceOK, SliceExpiry
  <2>2. ASSUME NEW a \in allowed PROVE SpentOK(a)' /\ Recorded(a)'
    <3>1. SpentOK(a) /\ Recorded(a)
      BY DEF BudgetInv, SpentInv
    <3>2. now \in Nat /\ leafExp(a) \in Nat
      BY <3>1 DEF BudgetInv, Inv, TypeOK, SpentOK
    <3>3. now' < leafExp(a) => now < leafExp(a)
      BY <1>4, <3>2
    <3> QED  BY <1>4, <3>1, <3>3 DEF SpentOK, SliceExpiry, Recorded, leafExp
  <2>3. SpentInv'
    BY <1>4, <2>2 DEF BudgetInv, SpentInv, Timely
  <2> QED  BY <1>1, <2>1, <2>3 DEF BudgetInv
<1> QED  BY <1>2, <1>3, <1>4 DEF Next, Tick, vars, tokenVars, recordVars

\* What a division hands out is the sum of its bands, each of them a
\* natural number.
LEMMA DivisionSums ==
    ASSUME NEW c, NEW q \in CatRequests, Divided(c, q)
    PROVE  /\ \A i \in DOMAIN q.bands : budgetOf(q.bands)[i] \in Nat
           /\ SumFunctionOnSet(budgetOf(q.bands), DOMAIN q.bands) <= c.scope["max_cumulative"]
<1>1. ASSUME NEW i \in DOMAIN q.bands
      PROVE  q.bands[i].scope["max_cumulative"] \in Nat
  <2> DEFINE s == q.bands[i].scope
  <2>1. IsScope(s) /\ ValidateIssuance(s) /\ "max_cumulative" \in DOMAIN s
    BY RequestsAssumption
       DEF Divided, ValidateBandDivision, ValidateSubbandDivision, DeclaresCumulativeBudget, IsBand
  <2>2. "max_cumulative" \in DOMAIN Unit /\ "max_cumulative" \in Ceilings
    BY UnitAssumption, DimsAssumption DEF moneyDims
  <2>3. s["max_cumulative"] >= 0
    BY <2>1, <2>2 DEF ValidateIssuance, validateMoneyCeiling
  <2>4. s["max_cumulative"] \in Int
    BY <2>1, <2>2, DimsAssumption DEF IsScope, Value
  <2> QED  BY <2>3, <2>4
<1>2. DOMAIN budgetOf(q.bands) = DOMAIN q.bands
  BY DEF budgetOf
<1>3. Allocated(q.bands) <= c.scope["max_cumulative"]
  BY DEF Divided, ValidateBandDivision, ValidateSubbandDivision
<1>4. SumFunctionOnSet(budgetOf(q.bands), DOMAIN q.bands) <= c.scope["max_cumulative"]
  BY <1>2, <1>3 DEF Allocated, SumFunction
<1> QED  BY <1>1, <1>4 DEF budgetOf

\* The budget of a CAT bounds what is spent under it: each outcome has a band
\* of its own that covers it, and the bands add up to the budget at most.
LEMMA BudgetIsBounded == BudgetInv => BudgetBounded
<1> SUFFICES ASSUME BudgetInv, NEW c \in caps, c.kind = "CAT", DeclaresCumulativeBudget(c.scope)
             PROVE  Spent(c) <= c.scope["max_cumulative"]
  BY DEF BudgetBounded
<1> DEFINE A == {a \in allowed : a.chain[1] = c /\ Timely(a)}
           f == [a \in allowed |-> a.tc.amount]
<1>1. Spent(c) = SumFunctionOnSet(f, A)
  BY DEF Spent
<1>2. IsFiniteSet(A)
  BY FS_Subset DEF BudgetInv, SpentInv
<1>3. ASSUME NEW a \in A
      PROVE  /\ LiveSlice(c, a.slice, a.at) /\ a \in allowed /\ a.slice # NoSlice /\ Timely(a)
             /\ f[a] \in Nat /\ f[a] <= c.root[a.slice.leg].cum
  <2>1. a \in allowed /\ budgeted(a.chain[1]) /\ a.chain[1] = c
    BY DEF budgeted
  <2>2. LiveSlice(c, a.slice, a.at)
    BY <2>1 DEF BudgetInv, SpentInv, SpentOK
  <2>3. a.slice # NoSlice
    BY <2>2 DEF LiveSlice, NoSlice
  <2>4. f[a] = a.tc.amount
    BY <2>1
  <2> QED  BY <2>1, <2>2, <2>3, <2>4 DEF BudgetInv, SpentInv, SpentOK
<1>4. CASE c.root = <<>>
  <2>1. A = {}
    BY <1>3, <1>4 DEF LiveSlice
  <2>2. Spent(c) = 0
    BY <1>1, <2>1, SumEmpty
  <2>3. "max_cumulative" \in DOMAIN Unit /\ "max_cumulative" \in DOMAIN c.scope
    BY UnitAssumption DEF moneyDims, DeclaresCumulativeBudget
  <2>4. c.scope["max_cumulative"] >= 0
    BY <2>3 DEF BudgetInv, RootsValid, ValidateIssuance, validateMoneyCeiling
  <2> QED  BY <2>2, <2>4
<1>5. CASE c.root # <<>>
  <2>1. PICK q \in CatRequests : Divided(c, q)
    BY <1>5 DEF BudgetInv, RootsValid
  <2> DEFINE T == DOMAIN q.bands
             g == budgetOf(q.bands)
             h == [a \in A |-> a.slice.leg]
  <2>2. IsFiniteSet(T) /\ \A t \in T : g[t] \in Nat
    <3>1. Len(q.bands) \in Nat /\ T = 1..Len(q.bands)
      BY RequestsAssumption
    <3>2. IsFiniteSet(1..Len(q.bands))
      BY <3>1, FS_Interval
    <3> QED  BY <2>1, <3>1, <3>2, DivisionSums
  <2>3. ASSUME NEW a \in A
        PROVE  a.slice.leg \in T /\ c.root[a.slice.leg].cum = g[a.slice.leg]
    <3>1. a.slice.leg \in DOMAIN c.root
      BY <1>3 DEF LiveSlice
    <3> QED  BY <2>1, <3>1, LeafOf DEF budgetOf
  <2>4. h \in [A -> T] /\ \A a \in A : h[a] = a.slice.leg
    BY <2>3
  <2>5. ASSUME NEW a \in A, NEW b \in A, h[a] = h[b]
        PROVE  a = b
    <3>1. a.slice = b.slice
      BY <1>3, <2>4, <2>5 DEF LiveSlice
    <3> QED  BY <1>3, <3>1 DEF BudgetInv, SpentInv
  <2>6. \A a \in A : f[a] \in Nat /\ f[a] <= g[h[a]]
    BY <1>3, <2>3, <2>4
  <2>7. SumFunctionOnSet(f, A) <= SumFunctionOnSet(g, T)
    <3> HIDE DEF A, T, f, g, h
    <3> QED  BY <1>2, <2>2, <2>4, <2>5, <2>6, SumInjection
  <2>8. SumFunctionOnSet(g, T) <= c.scope["max_cumulative"]
    BY <2>1, DivisionSums
  <2>9. /\ SumFunctionOnSet(f, A) \in Int /\ SumFunctionOnSet(g, T) \in Int
        /\ c.scope["max_cumulative"] \in Int
    <3>1. SumFunctionOnSet(f, A) \in Int
      <4> HIDE DEF A, f, g, h
      <4>1. \A a \in A : f[a] \in Int
        BY <2>6
      <4> QED  BY <1>2, <4>1, SumType
    <3>2. SumFunctionOnSet(g, T) \in Int
      <4> HIDE DEF T, g
      <4> QED  BY <2>2, SumType
    <3>3. IsScope(c.scope) /\ "max_cumulative" \in DOMAIN c.scope /\ "max_cumulative" \in Ceilings
      BY DimsAssumption DEF BudgetInv, Inv, TypeOK, IsCap, DeclaresCumulativeBudget, moneyDims
    <3>4. c.scope["max_cumulative"] \in Int
      BY <3>3, DimsAssumption DEF IsScope, Value
    <3> QED  BY <3>1, <3>2, <3>4
  <2> HIDE DEF A, T, f, g, h
  <2> QED  BY <1>1, <2>7, <2>8, <2>9
<1> QED  BY <1>4, <1>5

\* Two outcomes of one moment are on the same slice, hence the same outcome.
LEMMA BandIsOne == BudgetInv => OneBandPerMoment
<1> SUFFICES ASSUME BudgetInv, NEW a \in allowed, NEW b \in allowed,
                    a.chain[1] = b.chain[1], a.chain[1].root # <<>>, a.at = b.at,
                    Timely(a), Timely(b)
             PROVE  a = b
  BY DEF OneBandPerMoment
<1> DEFINE c == a.chain[1]
<1>1. c \in caps /\ a.at \in Nat /\ c.kind = "CAT" /\ budgeted(c)
  BY DEF BudgetInv, Inv, TypeOK, SpentInv, SpentOK, budgeted
<1>2. PICK q \in CatRequests : Divided(c, q)
  BY <1>1 DEF BudgetInv, RootsValid
<1>3. LiveSlice(c, a.slice, a.at) /\ LiveSlice(c, b.slice, a.at)
  BY <1>1 DEF BudgetInv, SpentInv, SpentOK
<1>4. a.slice = b.slice
  <2> HIDE DEF c
  <2> QED  BY <1>1, <1>2, <1>3, OneLeg
<1>5. a.slice # NoSlice
  BY <1>3 DEF LiveSlice, NoSlice
<1> QED  BY <1>4, <1>5 DEF BudgetInv, SpentInv

\* Draws decided while their slice is valid never overspend a committed
\* budget, in total or in any one band, for any division, any number of
\* slices, re-minted or forged, chains of any length below them, any number of
\* calls under way, and records that are pruned at their expiry (step6Chain,
\* checkSubbandMembership, consumeOnAllow, consumeAll).
THEOREM BudgetsAreSafe == Spec => []BudgetSafe
<1>1. Init => BudgetInv
  BY InitInv, FS_EmptySet DEF Init, BudgetInv, RootsValid, SliceInv, SliceOK, SpentInv, NoView
<1>2. BudgetInv => BudgetSafe
  BY BudgetIsBounded, BandIsOne DEF BudgetSafe
<1> QED  BY <1>1, <1>2, BudgetNext, PTL DEF Spec

-----------------------------------------------------------------------------
(* The laws of the algebra, over the scopes and schedules of MCScope.      *)

\* A scope put together from numbers, exact values and lists.
LEMMA SmallScopesAreScopes ==
    ASSUME NEW s \in SmallScopes
    PROVE  IsScope(s)
<1>1. PICK t \in ScopeParts : s = joined(t.numbers, t.exacts, t.lists)
  BY DEF SmallScopes
<1>2. PICK n, e, l : n = t.numbers /\ e = t.exacts /\ l = t.lists
  OBVIOUS
<1>3. PICK N \in SUBSET (Ceilings \union Undeclared) : n \in [N -> Amounts]
  BY <1>2 DEF ScopeParts, Partial
<1>4. PICK E \in SUBSET Exacts : e \in [E -> ExactValues]
  BY <1>2 DEF ScopeParts, Partial
<1>5. PICK L \in SUBSET Lists : l \in [L -> SUBSET ListItems]
  BY <1>2 DEF ScopeParts, Partial
<1>6. /\ DOMAIN s = N \union E \union L /\ s = [d \in DOMAIN s |-> s[d]]
      /\ \A d \in N : s[d] = n[d]
      /\ \A d \in E : d \notin N => s[d] = e[d]
      /\ \A d \in L : d \notin N /\ d \notin E => s[d] = l[d]
  BY <1>1, <1>2, <1>3, <1>4, <1>5 DEF joined
<1>7. ASSUME NEW d \in DOMAIN s PROVE d \in Dims /\ s[d] \in Value(d)
  <2>1. CASE d \in N
    BY <1>3, <1>6, <2>1, DimsAssumption, AlgebraAssumption DEF Dims, Value
  <2>2. CASE d \in E
    BY <1>3, <1>4, <1>6, <2>2, DimsAssumption DEF Dims, Value
  <2>3. CASE d \in L
    BY <1>3, <1>4, <1>5, <1>6, <2>3, DimsAssumption DEF Dims, Value
  <2> QED  BY <1>6, <2>1, <2>2, <2>3
<1> QED  BY <1>6, <1>7 DEF IsScope

WindowedBand == [scope : [DOMAIN Budget -> Int \union ExactValues], nbf : 0..BandTime, exp : 0..BandTime]

\* The scopes are scopes, and the bands have windows.
AlgebraInv ==
    /\ IsScope(permitted) /\ IsScope(requested) /\ IsScope(other)
    /\ bands \in Seq(WindowedBand)

LEMMA AlgebraInvariant == AlgebraInit /\ [][AlgebraNext]_algebraVars => []AlgebraInv
<1>1. AlgebraInit => AlgebraInv
  <2> SUFFICES ASSUME AlgebraInit PROVE AlgebraInv
    OBVIOUS
  <2>1. IsScope(NoScope)
    BY DEF NoScope, IsScope
  <2>2. bands \in Seq(WindowedBand)
    BY DEF AlgebraInit
  <2> QED  BY <2>1, <2>2 DEF AlgebraInit, AlgebraInv
<1>2. AlgebraInv /\ [AlgebraNext]_algebraVars => AlgebraInv'
  <2> SUFFICES ASSUME AlgebraInv, [AlgebraNext]_algebraVars PROVE AlgebraInv'
    OBVIOUS
  <2>1. CASE ChooseScopes
    BY <2>1, SmallScopesAreScopes DEF ChooseScopes, AlgebraInv
  <2>2. CASE AddBand
    <3>1. bands \in Seq(WindowedBand)
      BY DEF AlgebraInv
    <3>2. PICK cum \in BandBudgets, cur \in ExactValues, nbf \in 0..BandTime, exp \in 0..BandTime :
             bands' = Append(bands,
              [scope |-> [Budget EXCEPT !["max_cumulative"] = cum, !["currency"] = cur],
               nbf |-> nbf, exp |-> exp])
      BY <2>2 DEF AddBand
    <3>3. PICK b : b = [scope |-> [Budget EXCEPT !["max_cumulative"] = cum, !["currency"] = cur],
                        nbf |-> nbf, exp |-> exp]
      OBVIOUS
    <3>4. b \in WindowedBand
      <4>1. [Budget EXCEPT !["max_cumulative"] = cum, !["currency"] = cur]
               \in [DOMAIN Budget -> Int \union ExactValues]
        BY AlgebraAssumption DEF Budget
      <4> QED  BY <3>3, <4>1 DEF WindowedBand
    <3>5. bands' \in Seq(WindowedBand)
      BY <3>1, <3>2, <3>3, <3>4
    <3> QED  BY <2>2, <3>5 DEF AddBand, AlgebraInv
  <2>3. CASE UNCHANGED algebraVars
    BY <2>3 DEF algebraVars, AlgebraInv
  <2> QED  BY <2>1, <2>2, <2>3 DEF AlgebraNext
<1> QED  BY <1>1, <1>2, PTL

\* Issuance narrows, for all dimensions and values: the root scope is the
\* greatest one below ceiling and request, authorizes nothing the ceiling does
\* not, and an inherited currency keeps a child within its parent.
THEOREM IssuanceAlwaysNarrows == AlgebraInit /\ [][AlgebraNext]_algebraVars => []IssuanceNarrows
<1>1. AlgebraInv => IssuanceNarrows
  <2> SUFFICES ASSUME AlgebraInv PROVE IssuanceNarrows
    OBVIOUS
  <2>1. RootIsGLB /\ InheritedUnitNarrows
    BY IntersectGreatest, InheritanceNarrows DEF AlgebraInv, RootIsGLB, InheritedUnitNarrows
  <2>2. RootWithinPolicy
    BY RootWithin, AlgebraAssumption DEF AlgebraInv, RootWithinPolicy
  <2> QED  BY <2>1, <2>2 DEF IssuanceNarrows
<1> QED  BY <1>1, AlgebraInvariant, PTL

\* Verification narrows, for all dimensions and values and schedules of every
\* length: what passes under an overlay passes under the parent and respects
\* the child, and of an accepted schedule one band at most is live.
THEOREM VerificationAlwaysNarrows == AlgebraInit /\ [][AlgebraNext]_algebraVars => []VerificationNarrows
<1>1. AlgebraInv => VerificationNarrows
  <2> SUFFICES ASSUME AlgebraInv PROVE VerificationNarrows
    OBVIOUS
  <2>1. OverlayWithinParent
    BY OverlayWithin, AlgebraAssumption DEF AlgebraInv, OverlayWithinParent
  <2>2. OneBandLive
    <3> SUFFICES ASSUME ValidateBandDivision(Budget, 0, BandTime, bands), NEW t \in 0..BandTime,
                        NEW i \in DOMAIN bands, NEW j \in DOMAIN bands, i # j,
                        bands[i].nbf <= t, t < bands[i].exp, bands[j].nbf <= t, t < bands[j].exp
                 PROVE  FALSE
      BY DEF OneBandLive
    <3>1. /\ Len(bands) \in Nat /\ DOMAIN bands = 1..Len(bands)
          /\ \A k \in DOMAIN bands : bands[k].nbf \in Int /\ bands[k].exp \in Int
      <4>1. bands \in Seq(WindowedBand)
        BY DEF AlgebraInv
      <4>2. \A k \in DOMAIN bands : bands[k] \in WindowedBand
        BY <4>1
      <4>3. \A b \in WindowedBand : b.nbf \in Int /\ b.exp \in Int
        BY AlgebraAssumption DEF WindowedBand
      <4> QED  BY <4>1, <4>2, <4>3
    <3>2. noOverlap(bands)
      BY DEF ValidateBandDivision
    <3>3. PICK s : s = bands
      OBVIOUS
    <3>4. s[i].exp <= s[j].nbf \/ s[j].exp <= s[i].nbf
      BY <3>1, <3>2, <3>3, BandsDisjoint
    <3> QED  BY <3>1, <3>3, <3>4
  <2> QED  BY <2>1, <2>2 DEF VerificationNarrows
<1> QED  BY <1>1, AlgebraInvariant, PTL

=============================================================================
