--------------------------- MODULE ServicesProofs ---------------------------
(***************************************************************************)
(* Theorems about the services around the enforcement engine, for every    *)
(* value of their constants: the decision document (DecisionFile), the     *)
(* token exchange bridges (TokenExchange), the key caches (KeyCache), the  *)
(* Travel Rule transport (TravelRule), the payment loop (PayerGate), the   *)
(* token contracts (RwaToken) and the status lists (StatusList).           *)
(***************************************************************************)
EXTENDS DecisionFile, TokenExchange, KeyCache, TravelRule, PayerGate, RwaToken, StatusList,
        ScopeProofs

-----------------------------------------------------------------------------
(* The decision document.                                                  *)

Chains == {o.chain : o \in Orders} \union {""}
Payers == {o.payer : o \in Orders} \union {"", "agent"}
Payees == {o.payee : o \in Orders} \union {"", "other"}
DocAmounts == {o.amount : o \in Orders} \union {0, 1}
Currencies == {o.currency : o \in Orders} \union {""}
Contexts == [chain : Chains, payer : Payers, payee : Payees, amount : DocAmounts,
             currency : Currencies, ts : Nat]
Docs == [version : {0, 1, 2}, outcome : {"", "ALLOW", "DENY"}, context : Contexts,
         hash : Contexts, issuedAt : Nat]

DocTyped ==
    /\ wall \in Nat /\ alterations \in Nat
    /\ writer \in [GateRuns -> [stage : {"start", "open", "write", "done"}, doc : Docs]]
    /\ file \in Docs /\ pending \in Docs

\* c is the context of a payment the gate allowed.
Allowed(c) == (\E d \in decided : d.outcome = "ALLOW" /\ d.context = c) /\ c.amount <= RunCeiling

\* A document, however altered, has no hash, one that was computed anew, or
\* that of a payment that was allowed, and then it is dated when that was,
\* unless it was dated anew.
Committed(d) ==
    \/ d.hash = NoContext \/ d.hash \in rehashed
    \/ Allowed(d.hash) /\ (d.hash \in redated \/ d.issuedAt = d.hash.ts)

\* A context that was settled at the time t as it should be.
Settleable(c, t) ==
    c \in rehashed \/ (Allowed(c) /\ (c \in redated \/ t - c.ts <= MaxDecisionAge))

DocInv ==
    /\ DocTyped
    /\ Committed(file) /\ Committed(pending) /\ \A g \in GateRuns : Committed(writer[g].doc)
    /\ \A s \in settled : Settleable(s.context, s.at)

LEMMA NoDocTyped ==
    NoContext \in Contexts /\ NoDoc \in Docs /\ NoDoc.hash = NoContext
  BY DEF NoContext, NoDoc, Contexts, Docs, Chains, Payers, Payees, DocAmounts, Currencies

\* What the gate decides is committed to, once it is recorded.
LEMMA VerdictCommitted ==
    ASSUME DocInv, NEW o \in Orders, decided' = decided \union {verdict(o)}
    PROVE  verdict(o) \in Docs /\ \A d : d = verdict(o) => Committed(d)'
  <1> DEFINE c == contextOf(o)
             v == verdict(o)
  <1>1. /\ c \in Contexts /\ c.amount = o.amount /\ c.ts = wall
    <2>1. o.chain \in Chains /\ o.payer \in Payers /\ "agent" \in Payers /\ o.payee \in Payees
          /\ o.amount \in DocAmounts /\ o.currency \in Currencies /\ wall \in Nat
      BY DEF Chains, Payers, Payees, DocAmounts, Currencies, DocInv, DocTyped
    <2> QED  BY <2>1 DEF contextOf, Contexts
  <1>2. NoContext \in Contexts /\ wall \in Nat
    BY NoDocTyped DEF DocInv, DocTyped
  <1>3. /\ v.context = c /\ v.issuedAt = wall
        /\ \/ v.outcome = "ALLOW" /\ v.hash = c /\ o.amount <= RunCeiling
           \/ v.outcome = "DENY" /\ v.hash = NoContext
        /\ v.version = 1 /\ v \in Docs
    <2> HIDE DEF c
    <2>1. v = [version |-> 1, outcome |-> IF o.amount <= RunCeiling THEN "ALLOW" ELSE "DENY",
               context |-> c, hash |-> IF o.amount <= RunCeiling THEN c ELSE NoContext,
               issuedAt |-> wall]
      BY DEF verdict, c
    <2> HIDE DEF v
    <2> QED  BY <1>1, <1>2, <2>1 DEF Docs
  <1>4. v \in decided'
    OBVIOUS
  <1> HIDE DEF c, v
  <1>5. \A d : d = v => Committed(d)'
    BY <1>1, <1>3, <1>4 DEF Committed, Allowed
  <1> QED  BY <1>3, <1>5 DEF v

\* What was committed or settled stays so while the histories only grow.
LEMMA CommittedStays ==
    ASSUME decided \subseteq decided', rehashed \subseteq rehashed', redated \subseteq redated'
    PROVE  /\ \A d : Committed(d) => Committed(d)'
           /\ \A c, t : Settleable(c, t) => Settleable(c, t)'
  BY DEF Committed, Settleable, Allowed

LEMMA FileStep == DocInv /\ [FileNext]_fileVars => DocInv'
  <1> SUFFICES ASSUME DocInv, [FileNext]_fileVars
               PROVE  DocInv'
    OBVIOUS
  <1>t. DocTyped
    BY DEF DocInv
  <1>h. decided \subseteq decided' /\ rehashed \subseteq rehashed' /\ redated \subseteq redated'
    BY DEF FileNext, Decides, Opens, Writes, Altered, ReadsFile, Settles, FileTick, fileVars, edits
  <1>c. (\A d : Committed(d) => Committed(d)') /\ (\A c, t : Settleable(c, t) => Settleable(c, t)')
    BY <1>h, CommittedStays
  <1>1. ASSUME NEW g \in GateRuns, Decides(g)
        PROVE  DocInv'
    <2>1. PICK o \in Orders :
            /\ writer' = [writer EXCEPT ![g] = [stage |-> "open", doc |-> verdict(o)]]
            /\ decided' = decided \union {verdict(o)}
            /\ wall' = wall /\ file' = file /\ pending' = pending /\ settled' = settled
            /\ alterations' = alterations
      BY <1>1 DEF Decides, edits
    <2>2. verdict(o) \in Docs /\ \A d : d = verdict(o) => Committed(d)'
      BY <2>1, VerdictCommitted
    <2>3. DocTyped'
      BY <1>t, <2>1, <2>2 DEF DocTyped
    <2>4. ASSUME NEW h \in GateRuns
          PROVE  Committed(writer[h].doc)'
      <3>1. PICK d : d = writer'[h].doc
        OBVIOUS
      <3>2. Committed(d)'
        <4>1. CASE h = g
          BY <1>t, <2>1, <2>2, <3>1, <4>1 DEF DocTyped
        <4>2. CASE h # g
          <5>1. d = writer[h].doc
            BY <1>t, <2>1, <3>1, <4>2 DEF DocTyped
          <5> QED  BY <1>c, <5>1 DEF DocInv
        <4> QED  BY <4>1, <4>2
      <3> QED  BY <3>1, <3>2 DEF Committed
    <2>5. Committed(file)' /\ Committed(pending)'
      BY <1>h, <2>1 DEF DocInv, Committed, Allowed
    <2> QED  BY <1>c, <2>1, <2>3, <2>4, <2>5 DEF DocInv, Settleable
  <1>2. ASSUME NEW g \in GateRuns, Opens(g) \/ Writes(g)
        PROVE  DocInv'
    <2>1. /\ writer' = [writer EXCEPT ![g].stage = "write"] \/ writer' = [writer EXCEPT ![g].stage = "done"]
          /\ file' \in {NoDoc, writer[g].doc}
          /\ wall' = wall /\ pending' = pending /\ settled' = settled /\ alterations' = alterations
      BY <1>2 DEF Opens, Writes, edits
    <2>2. Committed(file)' /\ file' \in Docs
      <3>1. CASE file' = NoDoc
        BY <3>1, NoDocTyped DEF Committed
      <3>2. CASE file' = writer[g].doc
        <4>1. Committed(writer[g].doc) /\ writer[g].doc \in Docs
          BY <1>t DEF DocInv, DocTyped
        <4> QED  BY <1>h, <3>2, <4>1 DEF Committed, Allowed
      <3> QED  BY <2>1, <3>1, <3>2
    <2>3. DocTyped' /\ \A h \in GateRuns : writer'[h].doc = writer[h].doc
      BY <1>t, <2>1, <2>2 DEF DocTyped
    <2>4. \A h \in GateRuns : Committed(writer[h].doc)'
      BY <1>h, <2>3 DEF DocInv, Committed, Allowed
    <2>5. Committed(pending)'
      BY <1>h, <2>1 DEF DocInv, Committed, Allowed
    <2> QED  BY <1>c, <2>1, <2>2, <2>3, <2>4, <2>5 DEF DocInv, Settleable
  <1>3. CASE Altered
    <2>1. /\ wall' = wall /\ writer' = writer /\ pending' = pending /\ decided' = decided
          /\ settled' = settled /\ alterations' = alterations + 1
      BY <1>3 DEF Altered
    <2>2. /\ file \in Docs /\ file.context \in Contexts /\ 1 \in DocAmounts /\ "other" \in Payees
          /\ wall \in Nat /\ NoContext \in Contexts
      BY <1>t, NoDocTyped DEF DocTyped, Docs, DocAmounts, Payees
    <2>3. /\ [file.context EXCEPT !.amount = 1] \in Contexts
          /\ [file.context EXCEPT !.payee = "other"] \in Contexts
          /\ [file.context EXCEPT !.ts = wall] \in Contexts
      BY <2>2 DEF Contexts
    <2>4. Committed(file)
      BY DEF DocInv
    <2>5. /\ file' \in Docs
          /\ \/ file'.hash = NoContext \/ file'.hash \in rehashed'
             \/ file'.hash = file.hash /\ (file'.issuedAt = file.issuedAt \/ file.hash \in redated')
      <3>1. CASE file' \in {[file EXCEPT !.version = 2], [file EXCEPT !.outcome = "ALLOW"],
                           [file EXCEPT !.context.amount = 1], [file EXCEPT !.context.payee = "other"],
                           [file EXCEPT !.context.ts = wall], [file EXCEPT !.hash = NoContext]}
        BY <2>2, <2>3, <3>1 DEF Docs
      <3>2. CASE file' = [file EXCEPT !.issuedAt = wall] /\ redated' = redated \union {file.hash}
        BY <2>2, <3>2 DEF Docs
      <3>3. CASE file' = [file EXCEPT !.hash = file.context] /\ rehashed' = rehashed \union {file.context}
        BY <2>2, <3>3 DEF Docs
      <3> QED  BY <1>3, <3>1, <3>2, <3>3 DEF Altered
    <2>6. Committed(file)'
      BY <1>h, <2>4, <2>5 DEF Committed, Allowed
    <2>7. DocTyped'
      BY <1>t, <2>1, <2>5 DEF DocTyped
    <2>8. Committed(pending)' /\ \A g \in GateRuns : Committed(writer[g].doc)'
      BY <1>h, <2>1 DEF DocInv, Committed, Allowed
    <2> QED  BY <1>c, <2>1, <2>6, <2>7, <2>8 DEF DocInv, Settleable
  <1>4. CASE ReadsFile
    BY <1>t, <1>4 DEF ReadsFile, edits, DocInv, DocTyped, Committed, Settleable, Allowed
  <1>5. CASE Settles
    <2>1. /\ CheckSettleable(pending) /\ pending' = NoDoc
          /\ settled' = settled \union {[context |-> pending.context, at |-> wall]}
          /\ wall' = wall /\ writer' = writer /\ file' = file /\ alterations' = alterations
      BY <1>5 DEF Settles, edits
    <2>2. Settleable(pending.context, wall)
      <3>1. wall - pending.issuedAt <= MaxDecisionAge /\ pending.hash = pending.context
            /\ pending.hash # NoContext
        BY <2>1 DEF CheckSettleable, ReDeriveContextHash
      <3>2. Committed(pending)
        BY DEF DocInv
      <3> QED  BY <3>1, <3>2 DEF Committed, Settleable
    <2>3. \A s \in settled' : Settleable(s.context, s.at)
      BY <2>1, <2>2 DEF DocInv
    <2>4. \A s \in settled' : Settleable(s.context, s.at)'
      BY <1>h, <2>3 DEF Settleable, Allowed
    <2>5. Committed(file)' /\ Committed(pending)' /\ \A g \in GateRuns : Committed(writer[g].doc)'
      BY <1>h, <2>1, NoDocTyped DEF DocInv, Committed, Allowed
    <2>6. DocTyped'
      BY <1>t, <2>1, NoDocTyped DEF DocTyped
    <2> QED  BY <2>4, <2>5, <2>6 DEF DocInv
  <1>6. CASE FileTick
    <2>1. /\ wall' = wall + 1 /\ writer' = writer /\ file' = file /\ pending' = pending
          /\ settled' = settled /\ alterations' = alterations
      BY <1>6 DEF FileTick, edits
    <2>2. DocTyped'
      BY <1>t, <2>1 DEF DocTyped
    <2>3. Committed(file)' /\ Committed(pending)' /\ \A g \in GateRuns : Committed(writer[g].doc)'
      BY <1>h, <2>1 DEF DocInv, Committed, Allowed
    <2> QED  BY <1>c, <2>1, <2>2, <2>3 DEF DocInv, Settleable
  <1>7. CASE UNCHANGED fileVars
    BY <1>t, <1>7 DEF fileVars, edits, DocInv, DocTyped, Committed, Settleable, Allowed
  <1> QED  BY <1>1, <1>2, <1>3, <1>4, <1>5, <1>6, <1>7 DEF FileNext

\* A settlement client that applies CheckSettleable settles only what a run of
\* x402gate allowed, in every field and no longer than the bound ago, whoever
\* else wrote to the path and however often fields of the document were altered
\* on the way, unless the alteration computed the hash, which has no key, anew,
\* or dated the document anew (pkg/payergate).
THEOREM SettlementsAreAsDecided == FileInit /\ [][FileNext]_fileVars => []SettledAsDecided
  <1>1. FileInit => DocInv
    <2> SUFFICES ASSUME FileInit
                 PROVE  DocInv
      OBVIOUS
    <2>1. DocTyped
      BY NoDocTyped DEF FileInit, DocTyped
    <2>2. Committed(file) /\ Committed(pending) /\ settled = {}
      BY NoDocTyped DEF FileInit, Committed
    <2>3. \A g \in GateRuns : Committed(writer[g].doc)
      BY NoDocTyped DEF FileInit, Committed
    <2> QED  BY <2>1, <2>2, <2>3 DEF DocInv
  <1>2. DocInv /\ [FileNext]_fileVars => DocInv'
    BY FileStep
  <1>3. DocInv => SettledAsDecided
    BY DEF DocInv, Settleable, Allowed, SettledAsDecided
  <1> QED  BY <1>1, <1>2, <1>3, PTL

-----------------------------------------------------------------------------
(* The token exchange bridges.                                             *)

LEMMA MinOfTwo ==
    ASSUME NEW a \in Int, NEW b \in Int
    PROVE  Min({a, b}) \in {a, b} /\ Min({a, b}) <= a /\ Min({a, b}) <= b
  <1>1. \E x \in {a, b} : \A y \in {a, b} : x <= y
    BY (a <= b) \/ (b <= a)
  <1> QED  BY <1>1 DEF Min

\* A scope that no undeclared number can be in: what it intersects with
\* anything respects both, dimension by dimension.
LEMMA IntersectRespects ==
    ASSUME NEW p, NEW r, IsScope(p), IsScope(r), DOMAIN p \cap Undeclared = {}, IntersectOK(p, r)
    PROVE  /\ IsScope(Intersect(p, r)) /\ DOMAIN Intersect(p, r) = DOMAIN p
           /\ Respects(Intersect(p, r), p) /\ Respects(Intersect(p, r), r)
  <1> DEFINE g == Intersect(p, r)
  <1>1. DOMAIN g = DOMAIN p /\ g = [d \in DOMAIN g |-> g[d]]
    BY DEF Intersect
  <1>2. ASSUME NEW d \in DOMAIN r
        PROVE  /\ d \in DOMAIN p /\ d \in Dims
               /\ p[d] \in Value(d) /\ r[d] \in Value(d)
               /\ glbOK(d, p[d], r[d]) /\ g[d] = glb(d, p[d], r[d])
    BY DEF IntersectOK, Intersect, IsScope
  <1>3. ASSUME NEW d \in DOMAIN p, d \notin DOMAIN r
        PROVE  /\ d \in Dims /\ d \notin Undeclared
               /\ p[d] \in Value(d) /\ g[d] = p[d]
    BY <1>3 DEF Intersect, IsScope
  <1> HIDE DEF g
  <1>4. ASSUME NEW d \in DOMAIN p
        PROVE  g[d] \in Value(d) /\ valueContained(d, p[d], g[d])
    <2>1. CASE d \in DOMAIN r
      BY <1>2, <2>1, GlbValue
    <2>2. CASE d \notin DOMAIN r
      BY <1>3, <2>2, ValueReflexive
    <2> QED  BY <2>1, <2>2
  <1>5. \A d \in DOMAIN r : d \in DOMAIN g /\ valueContained(d, r[d], g[d])
    BY <1>1, <1>2, GlbValue
  <1>6. IsScope(g)
    BY <1>1, <1>4 DEF IsScope
  <1> QED  BY <1>1, <1>4, <1>5, <1>6 DEF Respects, g

LEMMA RespectsTransitive ==
    ASSUME NEW f, NEW g, NEW h, IsScope(f), IsScope(g), IsScope(h), Respects(g, f), Respects(h, g)
    PROVE  Respects(h, f)
  <1> SUFFICES ASSUME NEW d \in DOMAIN f
               PROVE  d \in DOMAIN h /\ valueContained(d, f[d], h[d])
    BY DEF Respects
  <1>1. d \in DOMAIN g /\ valueContained(d, f[d], g[d])
    BY DEF Respects
  <1>2. d \in DOMAIN h /\ valueContained(d, g[d], h[d])
    BY <1>1 DEF Respects
  <1>3. d \in Dims /\ f[d] \in Value(d) /\ g[d] \in Value(d) /\ h[d] \in Value(d)
    BY <1>1, <1>2 DEF IsScope
  <1> QED  BY <1>1, <1>2, <1>3, ValueTransitive

\* The grant of the bridges respects the deployment's ceiling, the entitlement
\* and the request.
LEMMA GrantRespects ==
    ASSUME NEW r \in ExchangeRequests, grantOK(r)
    PROVE  /\ DOMAIN grant(r) = DOMAIN Permitted /\ Respects(grant(r), Permitted)
           /\ r.service = "idp" /\ r.entitlement.kind = "object"
                => Respects(grant(r), r.entitlement.value)
           /\ r.scope.kind = "object" => Respects(grant(r), r.scope.value)
  <1>1. IsScope(Permitted) /\ DOMAIN Permitted \cap Undeclared = {}
    BY ExchangeAssumption DEF loadPermittedScope, ValidateIssuance
  <1>2. /\ r.scope.kind = "object" => IsScope(r.scope.value)
        /\ r.entitlement.kind = "object" => IsScope(r.entitlement.value)
    BY ExchangeRequestsAssumption
  <1>3. Respects(Permitted, Permitted)
    <2> SUFFICES ASSUME NEW d \in DOMAIN Permitted
                 PROVE  valueContained(d, Permitted[d], Permitted[d])
      BY DEF Respects
    <2>1. d \in Dims /\ Permitted[d] \in Value(d) /\ d \notin Undeclared
      BY <1>1 DEF IsScope
    <2> QED  BY <2>1, ValueReflexive
  <1>4. /\ IsScope(ceiling(r)) /\ DOMAIN ceiling(r) = DOMAIN Permitted /\ Respects(ceiling(r), Permitted)
        /\ r.service = "idp" /\ r.entitlement.kind = "object"
             => Respects(ceiling(r), r.entitlement.value)
    <2>1. CASE r.service = "idp" /\ r.entitlement.kind = "object"
      <3>1. ceiling(r) = Intersect(Permitted, r.entitlement.value)
            /\ IntersectOK(Permitted, r.entitlement.value)
        BY <2>1 DEF ceiling, grantOK, ceilingOK
      <3> QED  BY <1>1, <1>2, <2>1, <3>1, IntersectRespects
    <2>2. CASE ~(r.service = "idp" /\ r.entitlement.kind = "object")
      <3>1. ceiling(r) = Permitted
        BY <2>2 DEF ceiling
      <3> QED  BY <1>1, <1>3, <2>2, <3>1
    <2> QED  BY <2>1, <2>2
  <1> DEFINE c == ceiling(r)
             e == r.entitlement.value
             g == grant(r)
  <1> HIDE DEF c, e, g
  <1>5. CASE r.scope.kind = "object"
    <2>1. g = Intersect(c, r.scope.value) /\ IntersectOK(c, r.scope.value)
      BY <1>5 DEF grant, grantOK, c, g
    <2>2. /\ IsScope(c) /\ DOMAIN c \cap Undeclared = {} /\ Respects(c, Permitted)
          /\ IsScope(r.scope.value)
          /\ r.service = "idp" /\ r.entitlement.kind = "object" => IsScope(e) /\ Respects(c, e)
      BY <1>1, <1>2, <1>4, <1>5 DEF c, e
    <2>3. /\ IsScope(g) /\ DOMAIN g = DOMAIN c /\ Respects(g, c) /\ Respects(g, r.scope.value)
      BY <2>1, <2>2, IntersectRespects
    <2>4. Respects(g, Permitted)
      BY <1>1, <2>2, <2>3, RespectsTransitive
    <2>5. r.service = "idp" /\ r.entitlement.kind = "object" => Respects(g, e)
      BY <2>2, <2>3, RespectsTransitive
    <2> QED  BY <1>4, <2>3, <2>4, <2>5 DEF c, e, g
  <1>6. CASE r.scope.kind # "object"
    BY <1>4, <1>6 DEF grant
  <1> QED  BY <1>5, <1>6

LEMMA TtlPositive ==
    ASSUME NEW r \in ExchangeRequests
    PROVE  ttlBound(r) \in Int /\ ttlBound(r) > 0
  <1>1. Hour \in Nat \ {0} /\ MaxHours \in Nat \ {0} /\ WorkloadTTL \in Nat \ {0}
    BY ExchangeAssumption
  <1>2. r.hours \in Int
    BY ExchangeRequestsAssumption
  <1> DEFINE h == IF r.hours > 0 THEN Min({r.hours, MaxHours}) ELSE MaxHours
  <1>3. h \in Nat \ {0}
    <2>1. CASE r.hours > 0
      <3>1. PICK n \in Nat \ {0} : n = r.hours
        BY <1>2, <2>1
      <3>2. Min({n, MaxHours}) \in {n, MaxHours}
        BY <1>1, MinOfTwo
      <3> QED  BY <1>1, <2>1, <3>1, <3>2
    <2>2. CASE ~(r.hours > 0)
      BY <1>1, <2>2
    <2> QED  BY <2>1, <2>2
  <1>4. ASSUME NEW a \in Nat \ {0}, NEW b \in Nat \ {0}
        PROVE  a * b \in Int /\ a * b > 0
    OBVIOUS
  <1> HIDE DEF h
  <1>5. Hour * h \in Int /\ Hour * h > 0
    BY <1>1, <1>3, <1>4
  <1> QED  BY <1>1, <1>5 DEF ttlBound, h

\* A date in seconds is not after the instant it is made from.
LEMMA UnixRoundsDown ==
    ASSUME NEW x \in Int
    PROVE  Unix(x) \in Int /\ Unix(x) * Second \in Int /\ Unix(x) * Second <= x
  <1>1. Second \in Nat \ {0}
    BY ExchangeAssumption
  <1>2. ASSUME NEW n \in Nat \ {0}
        PROVE  /\ x \div n \in Int /\ (x \div n) * n \in Int
               /\ x = n * (x \div n) + (x % n) /\ x % n >= 0 /\ x % n \in Int
    OBVIOUS
  <1>3. ASSUME NEW n \in Nat \ {0}, NEW q \in Int
        PROVE  q * n \in Int /\ q * n = n * q
    OBVIOUS
  <1> QED  BY <1>1, <1>2, <1>3 DEF Unix

-----------------------------------------------------------------------------

BridgeTyped ==
    /\ exchange \in {"idle", "verified", "decided", "done"}
    /\ exchangeReq \in ExchangeRequests /\ exchangeClock \in Nat

\* A decision that may lead to a CAT, or has.
DecisionInv ==
    exchange = "decided" \/ cat # NoCat =>
        /\ grantOK(exchangeReq) /\ decision.scope = grant(exchangeReq)
        /\ decision.ttl \in Int /\ decision.ttl > 0 /\ decision.at \in Nat
        /\ decision.ttl <= exchangeReq.proof.exp - decision.at
        /\ decision.ttl <= ttlBound(exchangeReq)

CatInv ==
    /\ cat # NoCat => /\ exchange = "done" /\ cat.scope = decision.scope
                      /\ cat.at \in Nat /\ cat.exp = Unix(cat.at + decision.ttl)
    /\ cat.sealed => cat.exp <= Unix(exchangeReq.proof.exp)

BridgeInv == BridgeTyped /\ DecisionInv /\ CatInv

LEMMA BridgeStep == BridgeInv /\ [BridgeNext]_bridgeVars => BridgeInv'
  <1> SUFFICES ASSUME BridgeInv, [BridgeNext]_bridgeVars
               PROVE  BridgeInv'
    OBVIOUS
  <1>1. CASE VerifyProof
    BY <1>1 DEF VerifyProof, BridgeInv, BridgeTyped, DecisionInv, CatInv
  <1>2. CASE Decide
    <2> DEFINE r == exchangeReq
               rem == r.proof.exp - exchangeClock
    <2>1. /\ exchange = "verified" /\ cat = NoCat /\ cat' = cat /\ exchangeReq' = exchangeReq
          /\ exchangeClock' = exchangeClock
          /\ \/ exchange' = "done" /\ decision' = decision
             \/ /\ exchange' = "decided" /\ grantOK(r) /\ rem > 0
                /\ decision' = [scope |-> grant(r), depth |-> depth(r),
                                ttl |-> Min({rem, ttlBound(r)}), at |-> exchangeClock]
      BY <1>2 DEF Decide, alive, BridgeInv, CatInv
    <2>2. rem \in Int /\ exchangeClock \in Nat /\ r.proof.exp \in Int /\ r \in ExchangeRequests
      BY ExchangeRequestsAssumption DEF BridgeInv, BridgeTyped
    <2>3. BridgeTyped'
      BY <2>1 DEF BridgeInv, BridgeTyped
    <2>4. CatInv'
      BY <2>1 DEF BridgeInv, CatInv
    <2>5. DecisionInv'
      <3>1. CASE exchange' = "done"
        BY <2>1, <3>1 DEF DecisionInv
      <3>2. CASE exchange' # "done"
        <4>1. PICK b \in Int : b = rem
          BY <2>2
        <4>2. PICK t \in Int : t = ttlBound(r) /\ t > 0
          BY <2>2, TtlPositive
        <4>3. Min({b, t}) \in Int /\ Min({b, t}) > 0 /\ Min({b, t}) <= b /\ Min({b, t}) <= t
          BY <2>1, <3>2, <4>1, <4>2, MinOfTwo
        <4>4. /\ decision'.scope = grant(r) /\ decision'.ttl = Min({b, t}) /\ decision'.at = exchangeClock
              /\ grantOK(r)
          BY <2>1, <3>2, <4>1, <4>2
        <4>5. grantOK(exchangeReq)' /\ grant(exchangeReq)' = grant(exchangeReq)
          BY <2>1, <4>4
        <4>6. decision'.ttl <= exchangeReq'.proof.exp - decision'.at
          BY <2>1, <4>1, <4>3, <4>4
        <4>7. decision'.ttl <= ttlBound(exchangeReq')
          BY <2>1, <4>2, <4>3, <4>4
        <4> QED  BY <2>2, <4>3, <4>4, <4>5, <4>6, <4>7 DEF DecisionInv
      <3> QED  BY <3>1, <3>2
    <2> QED  BY <2>3, <2>4, <2>5 DEF BridgeInv
  <1>3. CASE IssueCAT
    <2> DEFINE exp == Unix(exchangeClock + decision.ttl)
    <2>1. /\ exchange = "decided" /\ exchange' = "done" /\ exchangeReq' = exchangeReq
          /\ exchangeClock' = exchangeClock /\ decision' = decision
          /\ decision.ttl \in Int /\ decision.ttl > 0 /\ cat = NoCat
      BY <1>3 DEF IssueCAT, BridgeInv, DecisionInv, CatInv
    <2>2. \/ cat' = cat
          \/ /\ sealHolds(exchangeReq, exp)
             /\ cat' = [exp |-> exp, at |-> exchangeClock, scope |-> decision.scope,
                        depth |-> decision.depth, sealed |-> exchangeReq.service = "workload"]
      BY <1>3, <2>1 DEF IssueCAT
    <2>3. DecisionInv'
      BY <2>1 DEF BridgeInv, DecisionInv
    <2>4. CatInv'
      <3>1. CASE cat' = cat
        BY <2>1, <3>1 DEF BridgeInv, CatInv
      <3>2. CASE cat' # cat
        <4>0. cat' = [exp |-> exp, at |-> exchangeClock, scope |-> decision.scope,
                      depth |-> decision.depth, sealed |-> exchangeReq.service = "workload"]
          BY <2>2, <3>2
        <4>1. cat'.scope = decision.scope /\ cat'.at = exchangeClock /\ cat'.exp = exp
          BY <4>0
        <4>s. cat'.sealed = (exchangeReq.service = "workload")
          BY <4>0, Zenon
        <4>2. exchangeReq.service = "workload" => exp <= Unix(exchangeReq.proof.exp)
          BY <2>2, <3>2 DEF sealHolds
        <4>3. exchangeClock \in Nat
          BY DEF BridgeInv, BridgeTyped
        <4> QED  BY <2>1, <4>1, <4>s, <4>2, <4>3 DEF CatInv
      <3> QED  BY <3>1, <3>2
    <2> QED  BY <2>1, <2>3, <2>4 DEF BridgeInv, BridgeTyped
  <1>4. CASE ExchangeTick
    BY <1>4 DEF ExchangeTick, BridgeInv, BridgeTyped, DecisionInv, CatInv
  <1>5. CASE UNCHANGED bridgeVars
    BY <1>5 DEF bridgeVars, BridgeInv, BridgeTyped, DecisionInv, CatInv
  <1> QED  BY <1>1, <1>2, <1>3, <1>4, <1>5 DEF BridgeNext

\* A CAT that idp-bridge or workload-bridge issues respects the ceiling of the
\* deployment, the entitlement and the request in every dimension.  It expires
\* after its proof by no more than the handler stalled between measuring what
\* was left of the proof (decideIDP) and adding it to a later reading of the
\* clock (cattoken.Issue), and one that seals an attestation not at all.
THEOREM ExchangesAreSafe == BridgeInit /\ [][BridgeNext]_bridgeVars => []ExchangeSafe
  <1>1. BridgeInit => BridgeInv
    <2>1. ~NoCat.sealed
      BY DEF NoCat
    <2> QED  BY <2>1 DEF BridgeInit, BridgeInv, BridgeTyped, DecisionInv, CatInv
  <1>2. BridgeInv /\ [BridgeNext]_bridgeVars => BridgeInv'
    BY BridgeStep
  <1>3. BridgeInv => ExchangeSafe
    <2> SUFFICES ASSUME BridgeInv
                 PROVE  ExchangeSafe
      OBVIOUS
    <2>1. GrantWithinEveryBound
      BY GrantRespects DEF BridgeInv, BridgeTyped, DecisionInv, CatInv, GrantWithinEveryBound
    <2>2. LifetimeInherited
      <3>1. exchangeReq.proof.exp \in Int
        BY ExchangeRequestsAssumption DEF BridgeInv, BridgeTyped
      <3>2. ttlBound(exchangeReq) \in Int
        BY TtlPositive DEF BridgeInv, BridgeTyped
      <3>3. ASSUME cat # NoCat
            PROVE  cat.exp * Second <= cat.at + decision.ttl
        BY <3>3, UnixRoundsDown DEF BridgeInv, DecisionInv, CatInv
      <3>4. ASSUME NEW x \in Int
            PROVE  Unix(x) \in Int /\ Unix(x) * Second \in Int
        BY <3>4, UnixRoundsDown
      <3>5. cat # NoCat => cat.exp * Second \in Int
        BY <3>4 DEF BridgeInv, DecisionInv, CatInv
      <3> QED  BY <3>1, <3>2, <3>3, <3>5 DEF BridgeInv, DecisionInv, CatInv, LifetimeInherited
    <2>3. SealedWithinAttestation
      BY DEF BridgeInv, CatInv, SealedWithinAttestation
    <2> QED  BY <2>1, <2>2, <2>3 DEF ExchangeSafe
  <1> QED  BY <1>1, <1>2, <1>3, PTL

-----------------------------------------------------------------------------
(* The key caches.                                                         *)

Answered == {"answered", "answeredAgain"}
Fetching == {"stamped", "stampedAgain", "sent", "sentAgain"} \union Answered
\* Where an oidc lookup is once its key set was fresh enough.
Judging == {"look", "missed", "timedAgain", "stampedAgain", "sentAgain", "answeredAgain", "lookAgain"}

\* Nothing is dated in the future.
TimesInv ==
    /\ fetchedAt <= now /\ attemptedAt <= now
    /\ \A k \in Kids : publishedAt[k] <= now /\ withdrawnAt[k] <= now
    /\ \A r \in Lookups : began[r] <= now /\ sentAt[r] <= now /\ held[r] <= now

\* An answer has what the provider published between the request and now:
\* every key older than the request that is still published, and none that was
\* withdrawn before the request.
AnswerInv ==
    \A r \in Lookups :
        /\ at[r] \notin Answered => answer[r] = {}
        /\ \A k \in answer[r] : withdrawnAt[k] # Never => withdrawnAt[k] >= sentAt[r]
        /\ at[r] \in Answered => \A k \in published : publishedAt[k] < sentAt[r] => k \in answer[r]

\* oidc: a cached key was published not long before the time its set is dated
\* with, nor long before a lookup began that may find it, and no stamp is later
\* than the limiter's.
OidcInv ==
    cache = "oidc" =>
        /\ \A k \in keys : withdrawnAt[k] # Never => fetchedAt <= withdrawnAt[k] + FetchTimeout
        /\ \A r \in Lookups : \A k \in keys :
              at[r] \in Judging /\ withdrawnAt[k] # Never =>
                  began[r] <= withdrawnAt[k] + MaxAge + FetchTimeout
        /\ \A r \in Lookups : stampedAt[r] <= attemptedAt
        /\ \A r \in Lookups : at[r] \in {"timed", "timedAgain"} => held[r] # Never

\* attest: unless a fetch is on its way, or failed, the set is as new as
\* lastRefresh says.
AttestInv ==
    cache = "attest" /\ ~failed /\ (\A r \in Lookups : at[r] \notin Fetching) =>
        \A k \in published : attemptedAt > publishedAt[k] + FetchTimeout => k \in keys

CacheInv ==
    /\ CacheTypeOK /\ TimesInv /\ AnswerInv /\ OidcInv /\ AttestInv
    /\ WithdrawnKeyAges /\ AttemptsSpaced

LEMMA CacheTypes ==
    ASSUME CacheInv, [CacheNext]_cacheVars
    PROVE  CacheTypeOK' /\ TimesInv'
  <1>t. CacheTypeOK /\ TimesInv /\ {MaxAge, MinInterval, FetchTimeout, MaxTime} \subseteq Nat
    BY KeyCacheAssumption DEF CacheInv
  <1>1. ASSUME NEW k \in Kids, Publish(k)
       PROVE  CacheTypeOK' /\ TimesInv'
    BY <1>t, <1>1 DEF CacheTypeOK, Places, provider, store, limiter, published, goesTo, Publish, TimesInv, Never
  <1>2. ASSUME NEW k \in Kids, Withdraw(k)
       PROVE  CacheTypeOK' /\ TimesInv'
    BY <1>t, <1>2 DEF CacheTypeOK, Places, provider, store, limiter, published, goesTo, Withdraw, TimesInv, Never
  <1>3. CASE Tick
    BY <1>t, <1>3 DEF CacheTypeOK, Places, provider, store, limiter, published, goesTo, Tick, TimesInv, Never
  <1>4. ASSUME NEW r \in Lookups, OidcBegins(r)
       PROVE  CacheTypeOK' /\ TimesInv'
    BY <1>t, <1>4 DEF CacheTypeOK, Places, provider, store, limiter, published, goesTo, OidcBegins, keySetStale, TimesInv, Never
  <1>5. ASSUME NEW r \in Lookups, OidcReadsClock(r)
       PROVE  CacheTypeOK' /\ TimesInv'
    BY <1>t, <1>5 DEF CacheTypeOK, Places, provider, store, limiter, published, goesTo, OidcReadsClock, TimesInv, Never
  <1>6. ASSUME NEW r \in Lookups, tryRefresh(r)
       PROVE  CacheTypeOK' /\ TimesInv'
    BY <1>t, <1>6 DEF CacheTypeOK, Places, provider, store, limiter, published, goesTo, tryRefresh, throttled, TimesInv, Never
  <1>7. ASSUME NEW r \in Lookups, OidcLooks(r)
       PROVE  CacheTypeOK' /\ TimesInv'
    BY <1>t, <1>7 DEF CacheTypeOK, Places, provider, store, limiter, published, goesTo, OidcLooks, TimesInv, Never
  <1>8. ASSUME NEW r \in Lookups, AttestLooks(r)
       PROVE  CacheTypeOK' /\ TimesInv'
    BY <1>t, <1>8 DEF CacheTypeOK, Places, provider, store, limiter, published, goesTo, AttestLooks, TimesInv, Never
  <1>9. ASSUME NEW r \in Lookups, AttestRefreshes(r)
       PROVE  CacheTypeOK' /\ TimesInv'
    BY <1>t, <1>9 DEF CacheTypeOK, Places, provider, store, limiter, published, goesTo, AttestRefreshes, throttled, TimesInv, Never
  <1>10. ASSUME NEW r \in Lookups, Sends(r)
       PROVE  CacheTypeOK' /\ TimesInv'
    BY <1>t, <1>10 DEF CacheTypeOK, Places, provider, store, limiter, published, goesTo, Sends, TimesInv, Never
  <1>11. ASSUME NEW r \in Lookups, ProviderAnswers(r)
       PROVE  CacheTypeOK' /\ TimesInv'
    BY <1>t, <1>11 DEF CacheTypeOK, Places, provider, store, limiter, published, goesTo, ProviderAnswers, TimesInv, Never
  <1>12. ASSUME NEW r \in Lookups, AnswerArrives(r)
       PROVE  CacheTypeOK' /\ TimesInv'
    <2>1. /\ keys' \in {keys, answer[r]} /\ fetchedAt' \in {fetchedAt, Never} \union (sentAt[r]..now)
          /\ attemptedAt' \in {attemptedAt, now} /\ failed' = FALSE
          /\ \E x \in {"refused", "look", "lookAgain"} : at' = [at EXCEPT ![r] = x]
          /\ answer' = [answer EXCEPT ![r] = {}]
          /\ cache' = cache /\ now' = now /\ publishedAt' = publishedAt /\ withdrawnAt' = withdrawnAt
          /\ kid' = kid /\ began' = began /\ sentAt' = sentAt /\ held' = held /\ stampedAt' = stampedAt
      BY <1>12 DEF AnswerArrives, readings, goesTo, provider
    <2>2. keys' \subseteq Kids /\ fetchedAt' \in -1..MaxTime /\ attemptedAt' \in -1..MaxTime
          /\ fetchedAt' <= now /\ attemptedAt' <= now
      BY <1>t, <2>1 DEF CacheTypeOK, TimesInv, Never
    <2>3. at' \in [Lookups -> Places] /\ answer' \in [Lookups -> SUBSET Kids]
      BY <1>t, <2>1 DEF CacheTypeOK, Places
    <2>4. CacheTypeOK'
      BY <1>t, <2>1, <2>2, <2>3 DEF CacheTypeOK
    <2>5. TimesInv'
      BY <1>t, <2>1, <2>2 DEF TimesInv
    <2> QED  BY <2>4, <2>5
  <1>13. ASSUME NEW r \in Lookups, FetchFails(r)
       PROVE  CacheTypeOK' /\ TimesInv'
    BY <1>t, <1>13 DEF CacheTypeOK, Places, provider, store, limiter, published, goesTo, FetchFails, TimesInv, Never
  <1>14. ASSUME NEW r \in Lookups, LooksAgain(r)
       PROVE  CacheTypeOK' /\ TimesInv'
    BY <1>t, <1>14 DEF CacheTypeOK, Places, provider, store, limiter, published, goesTo, LooksAgain, TimesInv, Never
  <1>15. CASE UNCHANGED cacheVars
    BY <1>t, <1>15 DEF CacheTypeOK, cacheVars, published, TimesInv, Never
  <1> QED  BY <1>1, <1>2, <1>3, <1>4, <1>5, <1>6, <1>7, <1>8, <1>9, <1>10, <1>11, <1>12, <1>13, <1>14, <1>15 DEF CacheNext

LEMMA AnswerStep ==
    ASSUME CacheInv, [CacheNext]_cacheVars
    PROVE  AnswerInv'
  <1>t. CacheTypeOK /\ TimesInv /\ AnswerInv /\ {MaxAge, MinInterval, FetchTimeout, MaxTime} \subseteq Nat
    BY KeyCacheAssumption DEF CacheInv
  <1>1. ASSUME NEW k \in Kids, Publish(k)
       PROVE  AnswerInv'
    BY <1>t, <1>1 DEF CacheTypeOK, Places, provider, store, limiter, published, goesTo, Publish, TimesInv, AnswerInv, Answered, Never
  <1>2. ASSUME NEW k \in Kids, Withdraw(k)
       PROVE  AnswerInv'
    BY <1>t, <1>2 DEF CacheTypeOK, Places, provider, store, limiter, published, goesTo, Withdraw, TimesInv, AnswerInv, Answered, Never
  <1>3. CASE Tick
    BY <1>t, <1>3 DEF CacheTypeOK, Places, provider, store, limiter, published, goesTo, Tick, TimesInv, AnswerInv, Answered, Never
  <1>4. ASSUME NEW r \in Lookups, OidcBegins(r)
       PROVE  AnswerInv'
    BY <1>t, <1>4 DEF CacheTypeOK, Places, provider, store, limiter, published, goesTo, OidcBegins, keySetStale, TimesInv, AnswerInv, Answered, Never
  <1>5. ASSUME NEW r \in Lookups, OidcReadsClock(r)
       PROVE  AnswerInv'
    BY <1>t, <1>5 DEF CacheTypeOK, Places, provider, store, limiter, published, goesTo, OidcReadsClock, TimesInv, AnswerInv, Answered, Never
  <1>6. ASSUME NEW r \in Lookups, tryRefresh(r)
       PROVE  AnswerInv'
    BY <1>t, <1>6 DEF CacheTypeOK, Places, provider, store, limiter, published, goesTo, tryRefresh, throttled, TimesInv, AnswerInv, Answered, Never
  <1>7. ASSUME NEW r \in Lookups, OidcLooks(r)
       PROVE  AnswerInv'
    BY <1>t, <1>7 DEF CacheTypeOK, Places, provider, store, limiter, published, goesTo, OidcLooks, TimesInv, AnswerInv, Answered, Never
  <1>8. ASSUME NEW r \in Lookups, AttestLooks(r)
       PROVE  AnswerInv'
    BY <1>t, <1>8 DEF CacheTypeOK, Places, provider, store, limiter, published, goesTo, AttestLooks, TimesInv, AnswerInv, Answered, Never
  <1>9. ASSUME NEW r \in Lookups, AttestRefreshes(r)
       PROVE  AnswerInv'
    BY <1>t, <1>9 DEF CacheTypeOK, Places, provider, store, limiter, published, goesTo, AttestRefreshes, throttled, TimesInv, AnswerInv, Answered, Never
  <1>10. ASSUME NEW r \in Lookups, Sends(r)
       PROVE  AnswerInv'
    BY <1>t, <1>10 DEF CacheTypeOK, Places, provider, store, limiter, published, goesTo, Sends, TimesInv, AnswerInv, Answered, Never
  <1>11. ASSUME NEW r \in Lookups, ProviderAnswers(r)
       PROVE  AnswerInv'
    BY <1>t, <1>11 DEF CacheTypeOK, Places, provider, store, limiter, published, goesTo, ProviderAnswers, TimesInv, AnswerInv, Answered, Never
  <1>12. ASSUME NEW r \in Lookups, AnswerArrives(r)
       PROVE  AnswerInv'
    BY <1>t, <1>12 DEF CacheTypeOK, Places, provider, store, limiter, published, goesTo, AnswerArrives, readings, TimesInv, AnswerInv, Answered, Never
  <1>13. ASSUME NEW r \in Lookups, FetchFails(r)
       PROVE  AnswerInv'
    BY <1>t, <1>13 DEF CacheTypeOK, Places, provider, store, limiter, published, goesTo, FetchFails, TimesInv, AnswerInv, Answered, Never
  <1>14. ASSUME NEW r \in Lookups, LooksAgain(r)
       PROVE  AnswerInv'
    BY <1>t, <1>14 DEF CacheTypeOK, Places, provider, store, limiter, published, goesTo, LooksAgain, TimesInv, AnswerInv, Answered, Never
  <1>15. CASE UNCHANGED cacheVars
    BY <1>t, <1>15 DEF CacheTypeOK, cacheVars, published, TimesInv, AnswerInv, Answered, Never
  <1> QED  BY <1>1, <1>2, <1>3, <1>4, <1>5, <1>6, <1>7, <1>8, <1>9, <1>10, <1>11, <1>12, <1>13, <1>14, <1>15 DEF CacheNext

LEMMA OidcStep ==
    ASSUME CacheInv, [CacheNext]_cacheVars
    PROVE  OidcInv'
  <1>t. CacheTypeOK /\ TimesInv /\ AnswerInv /\ OidcInv /\ {MaxAge, MinInterval, FetchTimeout, MaxTime} \subseteq Nat
    BY KeyCacheAssumption DEF CacheInv
  <1>1. ASSUME NEW k \in Kids, Publish(k)
       PROVE  OidcInv'
    BY <1>t, <1>1 DEF CacheTypeOK, Places, provider, store, limiter, published, goesTo, Publish, TimesInv, AnswerInv, OidcInv, Answered, Judging, Never
  <1>2. ASSUME NEW k \in Kids, Withdraw(k)
       PROVE  OidcInv'
    BY <1>t, <1>2 DEF CacheTypeOK, Places, provider, store, limiter, published, goesTo, Withdraw, TimesInv, AnswerInv, OidcInv, Answered, Judging, Never
  <1>3. CASE Tick
    BY <1>t, <1>3 DEF CacheTypeOK, Places, provider, store, limiter, published, goesTo, Tick, TimesInv, AnswerInv, OidcInv, Answered, Judging, Never
  <1>4. ASSUME NEW r \in Lookups, OidcBegins(r)
       PROVE  OidcInv'
    BY <1>t, <1>4 DEF CacheTypeOK, Places, provider, store, limiter, published, goesTo, OidcBegins, keySetStale, TimesInv, AnswerInv, OidcInv, Answered, Judging, Never
  <1>5. ASSUME NEW r \in Lookups, OidcReadsClock(r)
       PROVE  OidcInv'
    BY <1>t, <1>5 DEF CacheTypeOK, Places, provider, store, limiter, published, goesTo, OidcReadsClock, TimesInv, AnswerInv, OidcInv, Answered, Judging, Never
  <1>6. ASSUME NEW r \in Lookups, tryRefresh(r)
       PROVE  OidcInv'
    BY <1>t, <1>6 DEF CacheTypeOK, Places, provider, store, limiter, published, goesTo, tryRefresh, throttled, TimesInv, AnswerInv, OidcInv, Answered, Judging, Never
  <1>7. ASSUME NEW r \in Lookups, OidcLooks(r)
       PROVE  OidcInv'
    BY <1>t, <1>7 DEF CacheTypeOK, Places, provider, store, limiter, published, goesTo, OidcLooks, TimesInv, AnswerInv, OidcInv, Answered, Judging, Never
  <1>8. ASSUME NEW r \in Lookups, AttestLooks(r)
       PROVE  OidcInv'
    BY <1>t, <1>8 DEF CacheTypeOK, Places, provider, store, limiter, published, goesTo, AttestLooks, TimesInv, AnswerInv, OidcInv, Answered, Judging, Never
  <1>9. ASSUME NEW r \in Lookups, AttestRefreshes(r)
       PROVE  OidcInv'
    BY <1>t, <1>9 DEF CacheTypeOK, Places, provider, store, limiter, published, goesTo, AttestRefreshes, throttled, TimesInv, AnswerInv, OidcInv, Answered, Judging, Never
  <1>10. ASSUME NEW r \in Lookups, Sends(r)
       PROVE  OidcInv'
    BY <1>t, <1>10 DEF CacheTypeOK, Places, provider, store, limiter, published, goesTo, Sends, TimesInv, AnswerInv, OidcInv, Answered, Judging, Never
  <1>11. ASSUME NEW r \in Lookups, ProviderAnswers(r)
       PROVE  OidcInv'
    BY <1>t, <1>11 DEF CacheTypeOK, Places, provider, store, limiter, published, goesTo, ProviderAnswers, TimesInv, AnswerInv, OidcInv, Answered, Judging, Never
  <1>12. ASSUME NEW r \in Lookups, AnswerArrives(r)
       PROVE  OidcInv'
    BY <1>t, <1>12 DEF CacheTypeOK, Places, provider, store, limiter, published, goesTo, AnswerArrives, readings, TimesInv, AnswerInv, OidcInv, Answered, Judging, Never
  <1>13. ASSUME NEW r \in Lookups, FetchFails(r)
       PROVE  OidcInv'
    BY <1>t, <1>13 DEF CacheTypeOK, Places, provider, store, limiter, published, goesTo, FetchFails, TimesInv, AnswerInv, OidcInv, Answered, Judging, Never
  <1>14. ASSUME NEW r \in Lookups, LooksAgain(r)
       PROVE  OidcInv'
    BY <1>t, <1>14 DEF CacheTypeOK, Places, provider, store, limiter, published, goesTo, LooksAgain, TimesInv, AnswerInv, OidcInv, Answered, Judging, Never
  <1>15. CASE UNCHANGED cacheVars
    BY <1>t, <1>15 DEF CacheTypeOK, cacheVars, published, TimesInv, AnswerInv, OidcInv, Answered, Judging, Never
  <1> QED  BY <1>1, <1>2, <1>3, <1>4, <1>5, <1>6, <1>7, <1>8, <1>9, <1>10, <1>11, <1>12, <1>13, <1>14, <1>15 DEF CacheNext

LEMMA AttestStep ==
    ASSUME CacheInv, [CacheNext]_cacheVars
    PROVE  AttestInv'
  <1>t. CacheTypeOK /\ TimesInv /\ AnswerInv /\ AttestInv /\ {MaxAge, MinInterval, FetchTimeout, MaxTime} \subseteq Nat
    BY KeyCacheAssumption DEF CacheInv
  <1>1. ASSUME NEW k \in Kids, Publish(k)
       PROVE  AttestInv'
    BY <1>t, <1>1 DEF CacheTypeOK, Places, provider, store, limiter, published, goesTo, Publish, TimesInv, AnswerInv, AttestInv, Answered, Fetching, Never
  <1>2. ASSUME NEW k \in Kids, Withdraw(k)
       PROVE  AttestInv'
    BY <1>t, <1>2 DEF CacheTypeOK, Places, provider, store, limiter, published, goesTo, Withdraw, TimesInv, AnswerInv, AttestInv, Answered, Fetching, Never
  <1>3. CASE Tick
    BY <1>t, <1>3 DEF CacheTypeOK, Places, provider, store, limiter, published, goesTo, Tick, TimesInv, AnswerInv, AttestInv, Answered, Fetching, Never
  <1>4. ASSUME NEW r \in Lookups, OidcBegins(r)
       PROVE  AttestInv'
    BY <1>t, <1>4 DEF CacheTypeOK, Places, provider, store, limiter, published, goesTo, OidcBegins, keySetStale, TimesInv, AnswerInv, AttestInv, Answered, Fetching, Never
  <1>5. ASSUME NEW r \in Lookups, OidcReadsClock(r)
       PROVE  AttestInv'
    BY <1>t, <1>5 DEF CacheTypeOK, Places, provider, store, limiter, published, goesTo, OidcReadsClock, TimesInv, AnswerInv, AttestInv, Answered, Fetching, Never
  <1>6. ASSUME NEW r \in Lookups, tryRefresh(r)
       PROVE  AttestInv'
    BY <1>t, <1>6 DEF CacheTypeOK, Places, provider, store, limiter, published, goesTo, tryRefresh, throttled, TimesInv, AnswerInv, AttestInv, Answered, Fetching, Never
  <1>7. ASSUME NEW r \in Lookups, OidcLooks(r)
       PROVE  AttestInv'
    BY <1>t, <1>7 DEF CacheTypeOK, Places, provider, store, limiter, published, goesTo, OidcLooks, TimesInv, AnswerInv, AttestInv, Answered, Fetching, Never
  <1>8. ASSUME NEW r \in Lookups, AttestLooks(r)
       PROVE  AttestInv'
    BY <1>t, <1>8 DEF CacheTypeOK, Places, provider, store, limiter, published, goesTo, AttestLooks, TimesInv, AnswerInv, AttestInv, Answered, Fetching, Never
  <1>9. ASSUME NEW r \in Lookups, AttestRefreshes(r)
       PROVE  AttestInv'
    BY <1>t, <1>9 DEF CacheTypeOK, Places, provider, store, limiter, published, goesTo, AttestRefreshes, throttled, TimesInv, AnswerInv, AttestInv, Answered, Fetching, Never
  <1>10. ASSUME NEW r \in Lookups, Sends(r)
       PROVE  AttestInv'
    BY <1>t, <1>10 DEF CacheTypeOK, Places, provider, store, limiter, published, goesTo, Sends, TimesInv, AnswerInv, AttestInv, Answered, Fetching, Never
  <1>11. ASSUME NEW r \in Lookups, ProviderAnswers(r)
       PROVE  AttestInv'
    BY <1>t, <1>11 DEF CacheTypeOK, Places, provider, store, limiter, published, goesTo, ProviderAnswers, TimesInv, AnswerInv, AttestInv, Answered, Fetching, Never
  <1>12. ASSUME NEW r \in Lookups, AnswerArrives(r)
       PROVE  AttestInv'
    BY <1>t, <1>12 DEF CacheTypeOK, Places, provider, store, limiter, published, goesTo, AnswerArrives, readings, TimesInv, AnswerInv, AttestInv, Answered, Fetching, Never
  <1>13. ASSUME NEW r \in Lookups, FetchFails(r)
       PROVE  AttestInv'
    BY <1>t, <1>13 DEF CacheTypeOK, Places, provider, store, limiter, published, goesTo, FetchFails, TimesInv, AnswerInv, AttestInv, Answered, Fetching, Never
  <1>14. ASSUME NEW r \in Lookups, LooksAgain(r)
       PROVE  AttestInv'
    BY <1>t, <1>14 DEF CacheTypeOK, Places, provider, store, limiter, published, goesTo, LooksAgain, TimesInv, AnswerInv, AttestInv, Answered, Fetching, Never
  <1>15. CASE UNCHANGED cacheVars
    BY <1>t, <1>15 DEF CacheTypeOK, cacheVars, published, TimesInv, AnswerInv, AttestInv, Answered, Fetching, Never
  <1> QED  BY <1>1, <1>2, <1>3, <1>4, <1>5, <1>6, <1>7, <1>8, <1>9, <1>10, <1>11, <1>12, <1>13, <1>14, <1>15 DEF CacheNext

LEMMA AgesStep ==
    ASSUME CacheInv, [CacheNext]_cacheVars
    PROVE  WithdrawnKeyAges'
  <1>t. CacheTypeOK /\ TimesInv /\ OidcInv /\ WithdrawnKeyAges /\ {MaxAge, MinInterval, FetchTimeout, MaxTime} \subseteq Nat
    BY KeyCacheAssumption DEF CacheInv
  <1>1. ASSUME NEW k \in Kids, Publish(k)
       PROVE  WithdrawnKeyAges'
    BY <1>t, <1>1 DEF CacheTypeOK, Places, provider, store, limiter, published, goesTo, Publish, TimesInv, OidcInv, WithdrawnKeyAges, Judging, Never
  <1>2. ASSUME NEW k \in Kids, Withdraw(k)
       PROVE  WithdrawnKeyAges'
    BY <1>t, <1>2 DEF CacheTypeOK, Places, provider, store, limiter, published, goesTo, Withdraw, TimesInv, OidcInv, WithdrawnKeyAges, Judging, Never
  <1>3. CASE Tick
    BY <1>t, <1>3 DEF CacheTypeOK, Places, provider, store, limiter, published, goesTo, Tick, TimesInv, OidcInv, WithdrawnKeyAges, Judging, Never
  <1>4. ASSUME NEW r \in Lookups, OidcBegins(r)
       PROVE  WithdrawnKeyAges'
    BY <1>t, <1>4 DEF CacheTypeOK, Places, provider, store, limiter, published, goesTo, OidcBegins, keySetStale, TimesInv, OidcInv, WithdrawnKeyAges, Judging, Never
  <1>5. ASSUME NEW r \in Lookups, OidcReadsClock(r)
       PROVE  WithdrawnKeyAges'
    BY <1>t, <1>5 DEF CacheTypeOK, Places, provider, store, limiter, published, goesTo, OidcReadsClock, TimesInv, OidcInv, WithdrawnKeyAges, Judging, Never
  <1>6. ASSUME NEW r \in Lookups, tryRefresh(r)
       PROVE  WithdrawnKeyAges'
    BY <1>t, <1>6 DEF CacheTypeOK, Places, provider, store, limiter, published, goesTo, tryRefresh, throttled, TimesInv, OidcInv, WithdrawnKeyAges, Judging, Never
  <1>7. ASSUME NEW r \in Lookups, OidcLooks(r)
       PROVE  WithdrawnKeyAges'
    BY <1>t, <1>7 DEF CacheTypeOK, Places, provider, store, limiter, published, goesTo, OidcLooks, TimesInv, OidcInv, WithdrawnKeyAges, Judging, Never
  <1>8. ASSUME NEW r \in Lookups, AttestLooks(r)
       PROVE  WithdrawnKeyAges'
    BY <1>t, <1>8 DEF CacheTypeOK, Places, provider, store, limiter, published, goesTo, AttestLooks, TimesInv, OidcInv, WithdrawnKeyAges, Judging, Never
  <1>9. ASSUME NEW r \in Lookups, AttestRefreshes(r)
       PROVE  WithdrawnKeyAges'
    BY <1>t, <1>9 DEF CacheTypeOK, Places, provider, store, limiter, published, goesTo, AttestRefreshes, throttled, TimesInv, OidcInv, WithdrawnKeyAges, Judging, Never
  <1>10. ASSUME NEW r \in Lookups, Sends(r)
       PROVE  WithdrawnKeyAges'
    BY <1>t, <1>10 DEF CacheTypeOK, Places, provider, store, limiter, published, goesTo, Sends, TimesInv, OidcInv, WithdrawnKeyAges, Judging, Never
  <1>11. ASSUME NEW r \in Lookups, ProviderAnswers(r)
       PROVE  WithdrawnKeyAges'
    BY <1>t, <1>11 DEF CacheTypeOK, Places, provider, store, limiter, published, goesTo, ProviderAnswers, TimesInv, OidcInv, WithdrawnKeyAges, Judging, Never
  <1>12. ASSUME NEW r \in Lookups, AnswerArrives(r)
       PROVE  WithdrawnKeyAges'
    BY <1>t, <1>12 DEF CacheTypeOK, Places, provider, store, limiter, published, goesTo, AnswerArrives, readings, TimesInv, OidcInv, WithdrawnKeyAges, Judging, Never
  <1>13. ASSUME NEW r \in Lookups, FetchFails(r)
       PROVE  WithdrawnKeyAges'
    BY <1>t, <1>13 DEF CacheTypeOK, Places, provider, store, limiter, published, goesTo, FetchFails, TimesInv, OidcInv, WithdrawnKeyAges, Judging, Never
  <1>14. ASSUME NEW r \in Lookups, LooksAgain(r)
       PROVE  WithdrawnKeyAges'
    BY <1>t, <1>14 DEF CacheTypeOK, Places, provider, store, limiter, published, goesTo, LooksAgain, TimesInv, OidcInv, WithdrawnKeyAges, Judging, Never
  <1>15. CASE UNCHANGED cacheVars
    BY <1>t, <1>15 DEF CacheTypeOK, cacheVars, published, TimesInv, OidcInv, WithdrawnKeyAges, Judging, Never
  <1> QED  BY <1>1, <1>2, <1>3, <1>4, <1>5, <1>6, <1>7, <1>8, <1>9, <1>10, <1>11, <1>12, <1>13, <1>14, <1>15 DEF CacheNext

LEMMA SpacedStep ==
    ASSUME CacheInv, [CacheNext]_cacheVars
    PROVE  AttemptsSpaced'
  <1>t. CacheTypeOK /\ TimesInv /\ OidcInv /\ AttemptsSpaced /\ {MaxAge, MinInterval, FetchTimeout, MaxTime} \subseteq Nat
    BY KeyCacheAssumption DEF CacheInv
  <1>1. ASSUME NEW k \in Kids, Publish(k)
       PROVE  AttemptsSpaced'
    BY <1>t, <1>1 DEF CacheTypeOK, Places, provider, store, limiter, published, goesTo, Publish, TimesInv, OidcInv, AttemptsSpaced, Never
  <1>2. ASSUME NEW k \in Kids, Withdraw(k)
       PROVE  AttemptsSpaced'
    BY <1>t, <1>2 DEF CacheTypeOK, Places, provider, store, limiter, published, goesTo, Withdraw, TimesInv, OidcInv, AttemptsSpaced, Never
  <1>3. CASE Tick
    BY <1>t, <1>3 DEF CacheTypeOK, Places, provider, store, limiter, published, goesTo, Tick, TimesInv, OidcInv, AttemptsSpaced, Never
  <1>4. ASSUME NEW r \in Lookups, OidcBegins(r)
       PROVE  AttemptsSpaced'
    BY <1>t, <1>4 DEF CacheTypeOK, Places, provider, store, limiter, published, goesTo, OidcBegins, keySetStale, TimesInv, OidcInv, AttemptsSpaced, Never
  <1>5. ASSUME NEW r \in Lookups, OidcReadsClock(r)
       PROVE  AttemptsSpaced'
    BY <1>t, <1>5 DEF CacheTypeOK, Places, provider, store, limiter, published, goesTo, OidcReadsClock, TimesInv, OidcInv, AttemptsSpaced, Never
  <1>6. ASSUME NEW r \in Lookups, tryRefresh(r)
       PROVE  AttemptsSpaced'
    BY <1>t, <1>6 DEF CacheTypeOK, Places, provider, store, limiter, published, goesTo, tryRefresh, throttled, TimesInv, OidcInv, AttemptsSpaced, Never
  <1>7. ASSUME NEW r \in Lookups, OidcLooks(r)
       PROVE  AttemptsSpaced'
    BY <1>t, <1>7 DEF CacheTypeOK, Places, provider, store, limiter, published, goesTo, OidcLooks, TimesInv, OidcInv, AttemptsSpaced, Never
  <1>8. ASSUME NEW r \in Lookups, AttestLooks(r)
       PROVE  AttemptsSpaced'
    BY <1>t, <1>8 DEF CacheTypeOK, Places, provider, store, limiter, published, goesTo, AttestLooks, TimesInv, OidcInv, AttemptsSpaced, Never
  <1>9. ASSUME NEW r \in Lookups, AttestRefreshes(r)
       PROVE  AttemptsSpaced'
    BY <1>t, <1>9 DEF CacheTypeOK, Places, provider, store, limiter, published, goesTo, AttestRefreshes, throttled, TimesInv, OidcInv, AttemptsSpaced, Never
  <1>10. ASSUME NEW r \in Lookups, Sends(r)
       PROVE  AttemptsSpaced'
    BY <1>t, <1>10 DEF CacheTypeOK, Places, provider, store, limiter, published, goesTo, Sends, TimesInv, OidcInv, AttemptsSpaced, Never
  <1>11. ASSUME NEW r \in Lookups, ProviderAnswers(r)
       PROVE  AttemptsSpaced'
    BY <1>t, <1>11 DEF CacheTypeOK, Places, provider, store, limiter, published, goesTo, ProviderAnswers, TimesInv, OidcInv, AttemptsSpaced, Never
  <1>12. ASSUME NEW r \in Lookups, AnswerArrives(r)
       PROVE  AttemptsSpaced'
    BY <1>t, <1>12 DEF CacheTypeOK, Places, provider, store, limiter, published, goesTo, AnswerArrives, readings, TimesInv, OidcInv, AttemptsSpaced, Never
  <1>13. ASSUME NEW r \in Lookups, FetchFails(r)
       PROVE  AttemptsSpaced'
    BY <1>t, <1>13 DEF CacheTypeOK, Places, provider, store, limiter, published, goesTo, FetchFails, TimesInv, OidcInv, AttemptsSpaced, Never
  <1>14. ASSUME NEW r \in Lookups, LooksAgain(r)
       PROVE  AttemptsSpaced'
    BY <1>t, <1>14 DEF CacheTypeOK, Places, provider, store, limiter, published, goesTo, LooksAgain, TimesInv, OidcInv, AttemptsSpaced, Never
  <1>15. CASE UNCHANGED cacheVars
    BY <1>t, <1>15 DEF CacheTypeOK, cacheVars, published, TimesInv, OidcInv, AttemptsSpaced, Never
  <1> QED  BY <1>1, <1>2, <1>3, <1>4, <1>5, <1>6, <1>7, <1>8, <1>9, <1>10, <1>11, <1>12, <1>13, <1>14, <1>15 DEF CacheNext

\* Concurrent verifications, answers that overtake each other and a limiter
\* that refuses refreshes do not keep a withdrawn key in use beyond its bound
\* (oidc.Verifier), nor an issued one out of it (attest.JWKSKeySource), and the
\* attempts that the limiter of oidc.Verifier lets through are spaced.
THEOREM KeyCachesAreSafe == CacheInit /\ [][CacheNext]_cacheVars => []KeyCacheSafe
  <1>1. CacheInit => CacheInv
    <2> SUFFICES ASSUME CacheInit
                 PROVE  CacheInv
      OBVIOUS
    <2>1. FirstKid \in Kids /\ {MaxAge, MinInterval, FetchTimeout, MaxTime} \subseteq Nat
      BY KeyCacheAssumption
    <2>2. CacheTypeOK
      <3>1. keys \subseteq Kids /\ fetchedAt \in -1..MaxTime /\ attemptedAt \in -1..MaxTime
        BY <2>1 DEF CacheInit, Never
      <3>2. publishedAt \in [Kids -> -1..MaxTime] /\ withdrawnAt \in [Kids -> -1..MaxTime]
        BY <2>1 DEF CacheInit, Never
      <3>3. began \in [Lookups -> -1..MaxTime] /\ sentAt \in [Lookups -> -1..MaxTime]
            /\ held \in [Lookups -> -1..MaxTime] /\ stampedAt \in [Lookups -> -1..MaxTime]
        BY <2>1 DEF CacheInit, Never
      <3>4. at \in [Lookups -> Places] /\ kid \in [Lookups -> Kids] /\ answer \in [Lookups -> SUBSET Kids]
        BY <2>1 DEF CacheInit, Places
      <3>5. cache \in {"oidc", "attest"} /\ now \in 0..MaxTime
        BY <2>1 DEF CacheInit
      <3>6. failed \in BOOLEAN
        BY DEF CacheInit
      <3> QED  BY <3>1, <3>2, <3>3, <3>4, <3>5, <3>6 DEF CacheTypeOK
    <2>3. TimesInv /\ AnswerInv
      BY <2>1 DEF CacheInit, TimesInv, AnswerInv, Answered, Never
    <2>4. OidcInv /\ AttestInv
      BY <2>1 DEF CacheInit, OidcInv, AttestInv, Judging, published, Never
    <2>5. WithdrawnKeyAges /\ AttemptsSpaced
      BY <2>1 DEF CacheInit, WithdrawnKeyAges, AttemptsSpaced, Never
    <2> QED  BY <2>2, <2>3, <2>4, <2>5 DEF CacheInv
  <1>2. CacheInv /\ [CacheNext]_cacheVars => CacheInv'
    <2> SUFFICES ASSUME CacheInv, [CacheNext]_cacheVars
                 PROVE  CacheInv'
      OBVIOUS
    <2> QED  BY CacheTypes, AnswerStep, OidcStep, AttestStep, AgesStep, SpacedStep DEF CacheInv
  <1>3. CacheInv => KeyCacheSafe
    BY DEF CacheInv, AttestInv, NewKeyResolves, inFlight, Fetching, Answered, KeyCacheSafe
  <1> QED  BY <1>1, <1>2, <1>3, PTL


-----------------------------------------------------------------------------
(* The Travel Rule services.                                               *)

Fresh == {"generated", "storing"}
Stored == {"publish", "publishing", "up", "reused", "republishing"}
Registries == {"none", "config", "demo"}

TravelTyped ==
    /\ lastKey \in Nat /\ keyFile \in Int /\ pubFile \in Int /\ travelClock \in Nat
    /\ origin \in [pc : {"down"} \union Fresh \union Stored, key : Int, registry : Registries]
    /\ benef \in [pc : {"down", "waiting", "up"}, key : Int, registry : Registries, since : Nat]
    /\ seen \in [DOMAIN seen -> Int]

\* A key that was stored: it is still, or was written over.
Known(k) == k > 0 /\ (k = keyFile \/ k \in replaced)

\* The published key, the one the beneficiary loaded and the ones that signed
\* were stored before; the originator serves with the key that is stored now.
StoredInv ==
    /\ origin.pc \in Fresh => origin.key > 0
    /\ origin.pc = "storing" => keyFile <= 0
    /\ origin.pc \in Stored => keyFile > 0 /\ origin.key = keyFile
    /\ pubFile > 0 => Known(pubFile)
    /\ benef.pc = "up" => Known(benef.key)
    /\ \A a \in builds : Known(a.key)

AttestedInv == (\A a \in builds : a.amount >= Reporting) /\ ApprovedAsAttested

Far(e, f) == e.passed - f.observed > ReplayTTL \/ f.passed - e.observed > ReplayTTL

\* The guard knows an identifier it passed on, unless that is long ago; what
\* was passed on is handled or approved, and no two of it are close.
GuardInv ==
    /\ \A e \in handling \union approvals :
          /\ e.observed \in Nat /\ e.passed \in Nat /\ e.observed <= travelClock
          /\ \/ e.id \in DOMAIN seen /\ seen[e.id] = e.observed
             \/ travelClock - e.observed > ReplayTTL
    /\ \A e, f \in handling : e # f /\ e.id = f.id => Far(e, f)
    /\ \A e, f \in approvals : e # f /\ e.id = f.id => Far(e, f)
    /\ \A e \in handling, f \in approvals : e.id = f.id => Far(e, f)

TravelInv == TravelTyped /\ StoredInv /\ AttestedInv /\ GuardInv

LEMMA OriginStep ==
    ASSUME TravelInv, OriginStarts \/ OriginWrites \/ OriginWriteFails \/ OriginDies
    PROVE  TravelInv'
  <1>1. /\ benef' = benef /\ builds' = builds /\ seen' = seen /\ handling' = handling
        /\ approvals' = approvals /\ travelClock' = travelClock
    BY DEF OriginStarts, OriginWrites, OriginWriteFails, OriginDies, keyVars, transferVars
  <1>2. AttestedInv' /\ GuardInv'
    BY <1>1 DEF TravelInv, AttestedInv, ApprovedAsAttested, GuardInv, Far
  <1>t. TravelTyped /\ StoredInv
    BY DEF TravelInv
  <1>3. CASE OriginStarts
    <2>1. PICK r \in registries :
            \/ /\ keyFile > 0 /\ origin' = [pc |-> "reused", key |-> keyFile, registry |-> r]
               /\ lastKey' = lastKey
            \/ /\ origin' = [pc |-> "generated", key |-> lastKey + 1, registry |-> r]
               /\ lastKey' = lastKey + 1
      BY <1>3 DEF OriginStarts
    <2>2. keyFile' = keyFile /\ pubFile' = pubFile /\ replaced' = replaced
      BY <1>3 DEF OriginStarts
    <2>3. TravelTyped'
      BY <1>t, <1>1, <2>1, <2>2 DEF TravelTyped, Fresh, Stored, Registries, registries
    <2>4. StoredInv'
      BY <1>t, <1>1, <2>1, <2>2 DEF TravelTyped, StoredInv, Known, Fresh, Stored
    <2> QED  BY <1>2, <2>3, <2>4 DEF TravelInv
  <1>4. CASE OriginWrites
    <2>1. /\ origin.pc \in DOMAIN writeOrder /\ lastKey' = lastKey
          /\ origin' = [origin EXCEPT !.pc = writeOrder[origin.pc]]
          /\ keyFile' = IF origin.pc = "generated" THEN Torn
                        ELSE IF origin.pc = "storing" THEN origin.key ELSE keyFile
          /\ pubFile' = IF origin.pc \in {"publish", "reused"} THEN Torn
                        ELSE IF origin.pc \in {"publishing", "republishing"} THEN origin.key ELSE pubFile
          /\ replaced' = IF origin.pc = "generated" /\ keyFile > 0 THEN replaced \union {keyFile} ELSE replaced
      BY <1>4 DEF OriginWrites
    <2>2. /\ origin.pc = "generated" => writeOrder[origin.pc] = "storing"
          /\ origin.pc = "storing" => writeOrder[origin.pc] = "publish"
          /\ origin.pc = "publish" => writeOrder[origin.pc] = "publishing"
          /\ origin.pc = "publishing" => writeOrder[origin.pc] = "up"
          /\ origin.pc = "reused" => writeOrder[origin.pc] = "republishing"
          /\ origin.pc = "republishing" => writeOrder[origin.pc] = "up"
          /\ origin.pc \in {"generated", "storing", "publish", "publishing", "reused", "republishing"}
      BY <2>1 DEF writeOrder
    <2>3. TravelTyped'
      BY <1>t, <1>1, <2>1, <2>2 DEF TravelTyped, Fresh, Stored, Torn
    <2>4. origin'.pc = writeOrder[origin.pc] /\ origin'.key = origin.key
      BY <1>t, <2>1 DEF TravelTyped
    <2>5. StoredInv'
      BY <1>t, <1>1, <2>1, <2>2, <2>4 DEF TravelTyped, StoredInv, Known, Fresh, Stored, Torn
    <2> QED  BY <1>2, <2>3, <2>5 DEF TravelInv
  <1>5. CASE OriginWriteFails \/ OriginDies
    <2>1. /\ keyFile' = keyFile /\ pubFile' = pubFile /\ lastKey' = lastKey /\ replaced' = replaced
          /\ \/ origin' = Down
             \/ origin.pc \in {"reused", "republishing"} /\ origin' = [origin EXCEPT !.pc = "up"]
      BY <1>5 DEF OriginWriteFails, OriginDies, keyVars
    <2>2. TravelTyped'
      BY <1>t, <1>1, <2>1 DEF TravelTyped, Fresh, Stored, Registries, Down, None
    <2>3. origin'.pc = "down" \/ (origin'.pc = "up" /\ origin'.key = origin.key /\ origin.pc \in Stored)
      BY <1>t, <2>1 DEF TravelTyped, Stored, Down
    <2>4. StoredInv'
      BY <1>t, <1>1, <2>1, <2>3 DEF TravelTyped, StoredInv, Known, Fresh, Stored
    <2> QED  BY <1>2, <2>2, <2>4 DEF TravelInv
  <1> QED  BY <1>3, <1>4, <1>5

LEMMA BenefStep ==
    ASSUME TravelInv, BenefStarts \/ BenefPolls \/ BenefStops
    PROVE  TravelInv'
  <1>t. TravelTyped /\ StoredInv
    BY DEF TravelInv
  <1>1. /\ keyFile' = keyFile /\ pubFile' = pubFile /\ lastKey' = lastKey /\ origin' = origin
        /\ replaced' = replaced /\ builds' = builds /\ travelClock' = travelClock
    BY DEF BenefStarts, BenefPolls, BenefStops, keyVars, transferVars
  <1>2. \/ seen' = seen /\ handling' = handling /\ approvals' = approvals
        \/ seen' = NoneSeen /\ handling' = {} /\ approvals' = {}
    BY DEF BenefStarts, BenefPolls, BenefStops, transferVars
  <1>3. AttestedInv' /\ GuardInv'
    BY <1>1, <1>2 DEF TravelInv, AttestedInv, ApprovedAsAttested, GuardInv, Far
  <1>4. seen' \in [DOMAIN seen' -> Int]
    BY <1>t, <1>2 DEF TravelTyped, NoneSeen
  <1>5. \/ benef'.pc # "up"
        \/ benef'.pc = "up" /\ benef'.key = pubFile /\ pubFile > 0
    <2>1. CASE BenefStarts
      BY <2>1 DEF BenefStarts, NotServing
    <2>2. CASE BenefPolls
      BY <1>t, <2>2 DEF TravelTyped, BenefPolls
    <2>3. CASE BenefStops
      BY <2>3 DEF BenefStops, NotServing
    <2> QED  BY <2>1, <2>2, <2>3
  <1>6. benef' \in [pc : {"down", "waiting", "up"}, key : Int, registry : Registries, since : Nat]
    <2>1. CASE BenefStarts
      <3>1. NotServing \in [pc : {"down", "waiting", "up"}, key : Int, registry : Registries, since : Nat]
        BY DEF NotServing, Registries, None
      <3>2. PICK r \in registries : benef' = [NotServing EXCEPT !.pc = "waiting", !.registry = r]
        BY <2>1 DEF BenefStarts
      <3>3. r \in Registries
        BY DEF registries, Registries
      <3> QED  BY <3>1, <3>2, <3>3
    <2>2. CASE BenefPolls
      BY <1>t, <2>2 DEF TravelTyped, BenefPolls
    <2>3. CASE BenefStops
      BY <2>3 DEF BenefStops, NotServing, None, Registries
    <2> QED  BY <2>1, <2>2, <2>3
  <1>7. TravelTyped'
    BY <1>t, <1>1, <1>4, <1>6 DEF TravelTyped
  <1>8. StoredInv'
    BY <1>t, <1>1, <1>5 DEF StoredInv, Known
  <1> QED  BY <1>3, <1>7, <1>8 DEF TravelInv

LEMMA TransferStep ==
    ASSUME TravelInv,
           \/ \E t \in Transfers : Originate(t)
           \/ \E id \in DOMAIN sent : \E time \in clockReadings(id) : Observe(id, time)
           \/ \E h \in handling : Answer(h)
           \/ TravelTick
    PROVE  TravelInv'
  <1>t. TravelTyped /\ StoredInv /\ AttestedInv /\ GuardInv /\ ReplayTTL \in Nat
    BY TravelAssumption DEF TravelInv
  <1>1. ASSUME NEW t \in Transfers, Originate(t)
        PROVE  TravelInv'
    <2>1. /\ keyFile' = keyFile /\ pubFile' = pubFile /\ replaced' = replaced /\ origin' = origin
          /\ lastKey' = lastKey
          /\ benef' = benef /\ seen' = seen /\ handling' = handling /\ approvals' = approvals
          /\ travelClock' = travelClock /\ builds' = builds \union {attestation(t)}
          /\ origin.pc = "up" /\ t.amount >= Reporting
      BY <1>1 DEF Originate, Builds, keyVars
    <2>2. attestation(t).key = origin.key /\ attestation(t).amount = t.amount
      BY DEF attestation
    <2>3. TravelTyped' /\ GuardInv'
      BY <1>t, <2>1 DEF TravelTyped, GuardInv, Far
    <2>4. StoredInv'
      BY <1>t, <2>1, <2>2 DEF StoredInv, Known, Stored
    <2>5. AttestedInv'
      BY <1>t, <2>1, <2>2 DEF AttestedInv, ApprovedAsAttested
    <2> QED  BY <2>3, <2>4, <2>5 DEF TravelInv
  <1>2. ASSUME NEW id \in DOMAIN sent, NEW n \in clockReadings(id), Observe(id, n)
        PROVE  TravelInv'
    <2> DEFINE live == pruned(n)
               h == [id |-> id, observed |-> n, passed |-> travelClock]
    <2>0. n \in Nat /\ n <= travelClock /\ travelClock \in Nat
      BY <1>t DEF clockReadings, TravelTyped
    <2>1. /\ keyFile' = keyFile /\ pubFile' = pubFile /\ replaced' = replaced /\ origin' = origin
          /\ lastKey' = lastKey
          /\ benef' = benef /\ builds' = builds /\ approvals' = approvals
          /\ travelClock' = travelClock
      BY <1>2 DEF Observe, keyVars
    <2>2. /\ DOMAIN live = {i \in DOMAIN seen : n - seen[i] <= ReplayTTL}
          /\ \A i \in DOMAIN live : live[i] = seen[i]
          /\ live = [i \in DOMAIN live |-> live[i]]
      BY DEF pruned, Restrict
    <2>3. \/ id \in DOMAIN live /\ seen' = live /\ handling' = handling
          \/ /\ id \notin DOMAIN live
             /\ seen' = [i \in DOMAIN live \union {id} |-> IF i = id THEN n ELSE live[i]]
             /\ handling' = handling \union {h}
      BY <1>2 DEF Observe
    <2> HIDE DEF live
    <2>4. StoredInv' /\ AttestedInv'
      BY <1>t, <2>1 DEF StoredInv, Known, AttestedInv, ApprovedAsAttested
    <2>5. \A i \in DOMAIN seen : seen[i] \in Int
      BY <1>t DEF TravelTyped
    <2>6. TravelTyped'
      <3>1. seen' \in [DOMAIN seen' -> Int]
        BY <1>t, <2>0, <2>2, <2>3, <2>5 DEF TravelTyped
      <3> QED  BY <1>t, <2>1, <3>1 DEF TravelTyped
    <2>7. ASSUME NEW e \in handling \union approvals
          PROVE  \/ e.id \in DOMAIN seen' /\ seen'[e.id] = e.observed
                 \/ travelClock - e.observed > ReplayTTL
      <3>1. e.observed \in Nat /\ e.observed <= travelClock /\ travelClock \in Nat
        BY <1>t DEF GuardInv, TravelTyped
      <3>2. \/ e.id \in DOMAIN seen /\ seen[e.id] = e.observed
            \/ travelClock - e.observed > ReplayTTL
        BY <1>t DEF GuardInv
      <3>3. CASE e.id \in DOMAIN live
        BY <2>2, <2>3, <3>1, <3>2, <3>3
      <3>4. CASE e.id \notin DOMAIN live
        BY <1>t, <2>0, <2>2, <2>5, <3>1, <3>2, <3>4
      <3> QED  BY <3>3, <3>4
    <2>8. GuardInv'
      <3>1. CASE handling' = handling
        BY <1>t, <2>1, <2>7, <3>1 DEF GuardInv, Far
      <3>2. CASE handling' # handling
        <4>1. /\ id \notin DOMAIN live /\ handling' = handling \union {h}
              /\ id \in DOMAIN seen' /\ seen'[id] = n
          BY <2>3, <3>2
        <4>2. h.id = id /\ h.observed = n /\ h.passed = travelClock /\ travelClock \in Nat
          BY <1>t DEF TravelTyped
        <4> HIDE DEF h
        <4>3. ASSUME NEW e \in handling \union approvals, e.id = id
              PROVE  travelClock - e.observed > ReplayTTL
          <5>1. e.observed \in Nat
            BY <1>t DEF GuardInv
          <5>2. \/ id \in DOMAIN seen /\ seen[id] = e.observed
                \/ travelClock - e.observed > ReplayTTL
            BY <1>t, <4>3 DEF GuardInv
          <5>3. id \in DOMAIN seen => ~(n - seen[id] <= ReplayTTL)
            BY <2>2, <4>1
          <5> QED  BY <1>t, <2>0, <2>5, <4>2, <5>1, <5>2, <5>3
        <4>4. \A e \in handling \union approvals : e.id = id => Far(h, e) /\ Far(e, h)
          BY <4>2, <4>3 DEF Far
        <4>5. \A e \in (handling \union approvals)' :
                /\ e.observed \in Nat /\ e.passed \in Nat /\ e.observed <= travelClock'
                /\ \/ e.id \in DOMAIN seen' /\ seen'[e.id] = e.observed
                   \/ travelClock' - e.observed > ReplayTTL
          BY <1>t, <2>0, <2>1, <2>7, <4>1, <4>2 DEF GuardInv
        <4>6. \A e, f \in handling' : e # f /\ e.id = f.id => Far(e, f)
          BY <1>t, <4>1, <4>2, <4>4 DEF GuardInv
        <4>7. \A e \in handling', f \in approvals' : e.id = f.id => Far(e, f)
          BY <1>t, <2>1, <4>1, <4>2, <4>4 DEF GuardInv
        <4> QED  BY <1>t, <2>1, <4>5, <4>6, <4>7 DEF GuardInv, Far
      <3> QED  BY <3>1, <3>2
    <2> QED  BY <2>4, <2>6, <2>8 DEF TravelInv
  <1>3. ASSUME NEW h \in handling, Answer(h)
        PROVE  TravelInv'
    <2>1. /\ keyFile' = keyFile /\ pubFile' = pubFile /\ replaced' = replaced /\ origin' = origin
          /\ lastKey' = lastKey
          /\ benef' = benef /\ builds' = builds /\ seen' = seen
          /\ travelClock' = travelClock /\ handling' = handling \ {h}
      BY <1>3 DEF Answer, keyVars
    <2>2. TravelTyped' /\ StoredInv'
      BY <1>t, <2>1 DEF TravelTyped, StoredInv, Known
    <2>3. CASE approvals' = approvals
      BY <1>t, <2>1, <2>2, <2>3 DEF TravelInv, AttestedInv, ApprovedAsAttested, GuardInv, Far
    <2>4. CASE approvals' # approvals
      <3>1. PICK m \in Bodies :
              /\ Verifies(m, travelClock)
              /\ approvals' = approvals \union
                   {[id |-> h.id, observed |-> h.observed, passed |-> h.passed, at |-> travelClock,
                     anchor |-> m.outer.anchor, amount |-> m.outer.amount]}
        BY <1>3, <2>4 DEF Answer
      <3> DEFINE p == [id |-> h.id, observed |-> h.observed, passed |-> h.passed, at |-> travelClock,
                       anchor |-> m.outer.anchor, amount |-> m.outer.amount]
      <3>2. /\ p.id = h.id /\ p.observed = h.observed /\ p.passed = h.passed /\ p.at = travelClock
            /\ p.anchor = m.outer.anchor /\ p.amount = m.outer.amount
            /\ approvals' = approvals \union {p}
        BY <3>1
      <3> HIDE DEF p
      <3>3. AttestedInv'
        <4>1. /\ m.sd \in builds /\ m.sd.payment = ExpectedPayment /\ travelClock < m.sd.exp
              /\ m.sd.anchor = p.anchor /\ m.sd.amount = p.amount
          BY <3>1, <3>2 DEF Bodies, Verifies, bound
        <4> QED  BY <1>t, <2>1, <3>2, <4>1 DEF AttestedInv, ApprovedAsAttested
      <3>4. \A e \in (handling \union approvals)' :
              /\ e.observed \in Nat /\ e.passed \in Nat /\ e.observed <= travelClock'
              /\ \/ e.id \in DOMAIN seen' /\ seen'[e.id] = e.observed
                 \/ travelClock' - e.observed > ReplayTTL
        BY <1>t, <2>1, <3>2 DEF GuardInv
      <3>5. \A e \in handling \ {h} : e.id = h.id => Far(e, p)
        BY <1>t, <3>2 DEF GuardInv, Far
      <3>6. \A e \in approvals : e.id = h.id => Far(e, p) /\ Far(p, e)
        BY <1>t, <3>2 DEF GuardInv, Far
      <3>7. \A e, f \in approvals' : e # f /\ e.id = f.id => Far(e, f)
        BY <1>t, <3>2, <3>6 DEF GuardInv
      <3>8. \A e \in handling', f \in approvals' : e.id = f.id => Far(e, f)
        BY <1>t, <2>1, <3>2, <3>5 DEF GuardInv
      <3>9. \A e, f \in handling' : e # f /\ e.id = f.id => Far(e, f)
        BY <1>t, <2>1 DEF GuardInv
      <3>10. GuardInv'
        BY <3>4, <3>7, <3>8, <3>9 DEF GuardInv, Far
      <3> QED  BY <2>2, <3>3, <3>10 DEF TravelInv
    <2> QED  BY <2>3, <2>4
  <1>4. CASE TravelTick
    <2>1. /\ keyFile' = keyFile /\ pubFile' = pubFile /\ replaced' = replaced /\ origin' = origin
          /\ lastKey' = lastKey
          /\ benef' = benef /\ builds' = builds /\ seen' = seen /\ handling' = handling
          /\ approvals' = approvals /\ travelClock' = travelClock + 1
      BY <1>4 DEF TravelTick, keyVars, transferVars
    <2>2. TravelTyped' /\ StoredInv' /\ AttestedInv'
      BY <1>t, <2>1 DEF TravelTyped, StoredInv, Known, AttestedInv, ApprovedAsAttested
    <2>3. GuardInv'
      BY <1>t, <2>1 DEF TravelTyped, GuardInv, Far
    <2> QED  BY <2>2, <2>3 DEF TravelInv
  <1> QED  BY <1>1, <1>2, <1>3, <1>4

\* Whenever either service starts, dies or writes its key, whatever parts of
\* attestations arrive together and however often a request is repeated: the
\* keys of the two services match unless one of them was stored and written
\* over, an approved transfer is one the originator attested, and an identifier
\* passes again only when ReplayTTL went by since its first request read the
\* clock (loadOrGenSDKey, travelrule.Verify, replayGuard.observe).
THEOREM TravelRuleHolds == TravelInit /\ [][TravelNext]_travelVars => []TravelRuleSafe
  <1>1. TravelInit => TravelInv
    BY DEF TravelInit, TravelInv, TravelTyped, StoredInv, AttestedInv, ApprovedAsAttested, GuardInv,
           Known, NoneSeen, NotServing, Down, None, Fresh, Stored, Registries
  <1>2. TravelInv /\ [TravelNext]_travelVars => TravelInv'
    <2> SUFFICES ASSUME TravelInv, [TravelNext]_travelVars
                 PROVE  TravelInv'
      OBVIOUS
    <2>1. CASE UNCHANGED travelVars
      BY <2>1 DEF travelVars, TravelInv, TravelTyped, StoredInv, Known, AttestedInv, ApprovedAsAttested,
                  GuardInv, Far
    <2>2. CASE TravelNext
      BY <2>2, OriginStep, BenefStep, TransferStep DEF TravelNext
    <2> QED  BY <2>1, <2>2
  <1>3. TravelInv => TravelRuleSafe
    BY DEF TravelInv, StoredInv, Known, AttestedInv, GuardInv, Far, KeysMatch, IdentifiersOnce, TravelRuleSafe
  <1> QED  BY <1>1, <1>2, <1>3, PTL

-----------------------------------------------------------------------------
(* The x402 loop.                                                          *)

\* What merchants ask for.
Tos == {q.to : q \in Merchants} \union {""}
Prices == {q.amount : q \in Merchants} \union {0}
Monies == {q.currency : q \in Merchants} \union {""}
Bundles == [epoch : Nat, n : Nat, to : Tos, amount : Prices, currency : Monies, ts : Nat, exp : Int]
Stages == {"start", "asking", "denied", "allowed", "submitted", "paid", "delivered", "refused"}
Registers == [boot : Nat, epoch : Nat, until : Int,
              proofs : SUBSET (Nat \X Nat), tokens : SUBSET (Nat \X Nat)]
Meetings == [at : Nat, until : Int, epoch : Nat, again : BOOLEAN]
MerchantOrNone == Names \union {""}
AgentRuns == [stage : Stages, merchant : MerchantOrNone, bundle : Bundles, met : Meetings]
Ledger == [by : Agents, to : Tos, amount : Prices, currency : Monies, status : AnyState, memo : Nat]
Holding == {"allowed", "submitted", "paid", "delivered", "refused"}
Spent == {"submitted", "paid", "delivered", "refused"}

PayTyped ==
    /\ clock \in Nat /\ gate \in [epoch : Nat, until : Int]
    /\ minted \subseteq Bundles
    /\ shop \in [Names -> Registers]
    /\ run \in [Agents -> AgentRuns]
    /\ transfers \subseteq Ledger

\* Attestations are numbered, within the ceiling and short-lived.
MintedInv ==
    /\ IsFiniteSet(minted) /\ \A b \in minted : b.n <= Cardinality(minted)
    /\ \A b, c \in minted : b.n = c.n => b = c
    /\ \A b \in minted : /\ b.amount <= Ceiling /\ b.currency = GateCurrency
                         /\ b.exp <= b.ts + TokenTTL

\* An agent that was allowed to pay has an attestation of its own, for what its
\* merchant asks.
AgentInv ==
    /\ \A a \in Agents : stageOf(a) # "start" => run[a].merchant \in Names
    /\ \A a \in Agents : stageOf(a) \in Holding =>
          /\ run[a].bundle \in minted
          /\ run[a].bundle.to = asks(run[a].merchant).to
          /\ run[a].bundle.amount = asks(run[a].merchant).amount
          /\ run[a].bundle.currency = asks(run[a].merchant).currency
    /\ \A a, c \in Agents :
          a # c /\ stageOf(a) \in Holding /\ stageOf(c) \in Holding => run[a].bundle # run[c].bundle

\* One transfer by each agent that has submitted one.
LedgerInv ==
    /\ \A t \in transfers :
          /\ stageOf(t.by) \in Spent
          /\ t.to = run[t.by].bundle.to /\ t.amount = run[t.by].bundle.amount
          /\ t.currency = run[t.by].bundle.currency
          /\ carriesAnchor => t.memo = anchorOf(run[t.by].bundle.epoch)
    /\ \A t, u \in transfers : t.by = u.by => t = u

\* What a merchant has recorded in this life was presented to it, and what it
\* delivered for is recorded.
ShopInv ==
    /\ \A m \in Names : \A y \in shop[m].proofs \union shop[m].tokens :
          \E b \in minted : /\ y = <<b.epoch, b.n>>
                            /\ [merchant |-> m, boot |-> shop[m].boot, bundle |-> b] \in presented
    /\ \A d \in delivered :
          /\ d.merchant \in Names /\ d.boot \in Nat /\ d.boot <= shop[d.merchant].boot
          /\ d.boot = shop[d.merchant].boot
               => <<d.bundle.epoch, d.bundle.n>> \in shop[d.merchant].tokens

PayInv ==
    /\ PayTyped /\ MintedInv /\ AgentInv /\ LedgerInv /\ ShopInv
    /\ DeliveredIsBound /\ RefusedForCause

LEMMA Asked ==
    ASSUME NEW m \in Names
    PROVE  asks(m) \in Merchants /\ asks(m).name = m
  <1>1. \E q \in Merchants : q.name = m
    BY DEF Names
  <1> QED  BY <1>1 DEF asks

\* A step that touches none of the ledger, the agents' bundles and what was minted.
LEMMA QuietStep ==
    ASSUME PayInv, PayTyped', rail' = rail, minted' = minted, transfers' = transfers,
           delivered' = delivered, presented' = presented, run' = run, shop' = shop
    PROVE  PayInv'
  <1>1. MintedInv' /\ AgentInv'
    BY DEF PayInv, MintedInv, AgentInv, stageOf
  <1>2. LedgerInv'
    BY DEF PayInv, LedgerInv, stageOf, carriesAnchor
  <1>3. ShopInv' /\ DeliveredIsBound' /\ RefusedForCause'
    BY DEF PayInv, ShopInv, DeliveredIsBound, RefusedForCause, stageOf
  <1> QED  BY <1>1, <1>2, <1>3 DEF PayInv

LEMMA ClockStep ==
    ASSUME PayInv, GateRestarts \/ PayTick
    PROVE  PayInv'
  <1>t. PayTyped /\ StandingTTL \in Nat
    BY PayerGateAssumption DEF PayInv
  <1>1. /\ rail' = rail /\ minted' = minted /\ shop' = shop /\ run' = run
        /\ transfers' = transfers /\ delivered' = delivered /\ presented' = presented
    BY DEF GateRestarts, PayTick
  <1>2. clock' \in Nat
    BY <1>t DEF PayTyped, GateRestarts, PayTick
  <1>3. gate' \in [epoch : Nat, until : Int]
    BY <1>t DEF PayTyped, GateRestarts, PayTick
  <1>4. PayTyped'
    BY <1>t, <1>1, <1>2, <1>3 DEF PayTyped
  <1> QED  BY <1>1, <1>4, QuietStep

LEMMA MerchantStep ==
    ASSUME PayInv, NEW m \in Names, MerchantStarts(m)
    PROVE  PayInv'
  <1>t. PayTyped
    BY DEF PayInv
  <1>1. /\ shop' = [shop EXCEPT ![m] = Opened(shop[m].boot + 1, gate.epoch, clock)]
        /\ rail' = rail /\ clock' = clock /\ gate' = gate /\ minted' = minted /\ run' = run
        /\ transfers' = transfers /\ delivered' = delivered /\ presented' = presented
    BY DEF MerchantStarts
  <1> DEFINE o == Opened(shop[m].boot + 1, gate.epoch, clock)
  <1>o. /\ o.boot = shop[m].boot + 1 /\ o.proofs = {} /\ o.tokens = {} /\ shop[m].boot \in Nat
        /\ o \in Registers
    <2>1. shop[m] \in Registers /\ gate.epoch \in Nat /\ clock + RecordTTL \in Int
      BY <1>t, PayerGateAssumption DEF PayTyped
    <2>2. shop[m].boot \in Nat /\ {} \in SUBSET (Nat \X Nat)
      BY <2>1 DEF Registers
    <2> QED  BY <2>1, <2>2 DEF Registers, Opened
  <1> HIDE DEF o
  <1>s. shop' = [shop EXCEPT ![m] = o]
    BY <1>1 DEF o
  <1>2. /\ shop'[m] = o /\ \A x \in Names : x # m => shop'[x] = shop[x]
        /\ shop' \in [Names -> Registers]
    BY <1>t, <1>s, <1>o DEF PayTyped
  <1>3. PayTyped'
    BY <1>t, <1>1, <1>2 DEF PayTyped
  <1>4. MintedInv' /\ AgentInv'
    BY <1>1 DEF PayInv, MintedInv, AgentInv, stageOf
  <1>5. LedgerInv'
    BY <1>1 DEF PayInv, LedgerInv, stageOf, carriesAnchor
  <1>6. ShopInv'
    <2>1. \A x \in Names : \A y \in shop'[x].proofs \union shop'[x].tokens :
            \E b \in minted' : /\ y = <<b.epoch, b.n>>
                               /\ [merchant |-> x, boot |-> shop'[x].boot, bundle |-> b] \in presented'
      BY <1>1, <1>o, <1>2 DEF PayInv, ShopInv
    <2>2. ASSUME NEW d \in delivered'
          PROVE  /\ d.merchant \in Names /\ d.boot \in Nat /\ d.boot <= shop'[d.merchant].boot
                 /\ d.boot = shop'[d.merchant].boot
                      => <<d.bundle.epoch, d.bundle.n>> \in shop'[d.merchant].tokens
      <3>1. /\ d.merchant \in Names /\ d.boot \in Nat /\ d.boot <= shop[d.merchant].boot
            /\ d.boot = shop[d.merchant].boot
                 => <<d.bundle.epoch, d.bundle.n>> \in shop[d.merchant].tokens
        BY <1>1 DEF PayInv, ShopInv
      <3>2. CASE d.merchant = m
        BY <1>o, <1>2, <3>1, <3>2
      <3>3. CASE d.merchant # m
        BY <1>2, <3>1, <3>3
      <3> QED  BY <3>2, <3>3
    <2> QED  BY <2>1, <2>2 DEF ShopInv
  <1>7. DeliveredIsBound' /\ RefusedForCause'
    BY <1>1 DEF PayInv, DeliveredIsBound, RefusedForCause, stageOf
  <1> QED  BY <1>3, <1>4, <1>5, <1>6, <1>7 DEF PayInv

\* A merchant's answer to a bundle that the gate minted.
LEMMA RedeemStep ==
    ASSUME PayInv, NEW m \in Names, NEW b \in minted, NEW tc, Redeem(m, b, tc),
           minted' = minted, clock' = clock
    PROVE  /\ ShopInv' /\ DeliveredIsBound'
           /\ shop' \in [Names -> Registers]
  <1>t. PayTyped
    BY DEF PayInv
  <1> DEFINE reached == boundHere(m, tc) /\ proofFresh(m, b)
             ok == reached /\ passes(m, b, tc)
             s == shop[m]
             key == <<b.epoch, b.n>>
             P == IF reached THEN s.proofs \union {key} ELSE s.proofs
             T == IF ok THEN s.tokens \union {key} ELSE s.tokens
             x == [merchant |-> m, boot |-> s.boot, bundle |-> b]
  <1>1. /\ shop' = [shop EXCEPT ![m].proofs = IF reached THEN @ \union {proofOf(b)} ELSE @,
                                ![m].tokens = IF ok THEN @ \union {key} ELSE @]
        /\ presented' = presented \union {x}
        /\ \/ ~ok /\ delivered' = delivered
           \/ /\ ok
              /\ delivered' = delivered \union
                   {[merchant |-> m, boot |-> s.boot, bundle |-> b, at |-> clock,
                     n |-> Cardinality(delivered) + 1]}
    BY DEF Redeem
  <1>2. /\ s \in Registers /\ b.epoch \in Nat /\ b.n \in Nat /\ key \in Nat \X Nat
        /\ s.boot \in Nat /\ s.proofs \subseteq Nat \X Nat /\ s.tokens \subseteq Nat \X Nat
    BY <1>t DEF PayTyped, Registers, Bundles
  <1>3. shop' = [shop EXCEPT ![m] = [shop[m] EXCEPT !.proofs = P, !.tokens = T]]
    BY <1>t, <1>1, <1>2 DEF proofOf, PayTyped, Registers
  <1>4. /\ shop'[m].boot = s.boot /\ shop'[m].proofs = P /\ shop'[m].tokens = T
        /\ \A z \in Names : z # m => shop'[z] = shop[z]
        /\ shop' \in [Names -> Registers]
    <2> DEFINE o == [shop[m] EXCEPT !.proofs = P, !.tokens = T]
    <2>1. P \in SUBSET (Nat \X Nat) /\ T \in SUBSET (Nat \X Nat)
      BY <1>2
    <2> HIDE DEF P, T
    <2>2. o.boot = s.boot /\ o.proofs = P /\ o.tokens = T /\ o \in Registers
      BY <1>2, <2>1 DEF Registers
    <2> HIDE DEF o
    <2>3. shop' = [shop EXCEPT ![m] = o]
      BY <1>3 DEF o
    <2> QED  BY <1>t, <2>2, <2>3 DEF PayTyped
  <1>5. ok => /\ b.to = asks(m).to /\ b.amount = asks(m).amount /\ clock < b.exp /\ key \notin s.tokens
    <2>1. context(b).to = b.to /\ context(b).amount = b.amount
      BY DEF context
    <2>2. ok => tc.to = asks(m).to /\ tc.amount = asks(m).amount
      BY DEF boundHere
    <2>3. ok => tc = context(b) /\ key \notin s.tokens
      BY DEF passes
    <2>4. ok => clock < b.exp
      BY DEF proofFresh
    <2> QED  BY <2>1, <2>2, <2>3, <2>4
  <1>6. ok => reached
    OBVIOUS
  <1> HIDE DEF reached, ok, key, x, s
  <1>7. \A z \in Names : \A y \in shop'[z].proofs \union shop'[z].tokens :
          \E c \in minted' : /\ y = <<c.epoch, c.n>>
                             /\ [merchant |-> z, boot |-> shop'[z].boot, bundle |-> c] \in presented'
    <2> SUFFICES ASSUME NEW z \in Names, NEW y \in shop'[z].proofs \union shop'[z].tokens
                 PROVE  \E c \in minted :
                          /\ y = <<c.epoch, c.n>>
                          /\ [merchant |-> z, boot |-> shop'[z].boot, bundle |-> c] \in presented'
      OBVIOUS
    <2>1. CASE y \in shop[z].proofs \union shop[z].tokens
      <3>1. PICK c \in minted : /\ y = <<c.epoch, c.n>>
                                /\ [merchant |-> z, boot |-> shop[z].boot, bundle |-> c] \in presented
        BY <2>1 DEF PayInv, ShopInv
      <3>2. shop'[z].boot = shop[z].boot
        BY <1>4 DEF s
      <3>3. presented \subseteq presented'
        BY <1>1
      <3>4. [merchant |-> z, boot |-> shop'[z].boot, bundle |-> c] \in presented'
        BY <3>1, <3>2, <3>3
      <3> QED  BY <3>1, <3>4
    <2>2. CASE y \notin shop[z].proofs \union shop[z].tokens
      <3>1. z = m /\ y = key
        BY <1>4, <2>2 DEF s
      <3>2. [merchant |-> z, boot |-> shop'[z].boot, bundle |-> b] \in presented'
        BY <1>1, <1>4, <3>1 DEF x
      <3> QED  BY <3>1, <3>2 DEF key
    <2> QED  BY <2>1, <2>2
  <1>8. CASE delivered' = delivered
    <2>1. ASSUME NEW d \in delivered'
          PROVE  /\ d.merchant \in Names /\ d.boot \in Nat /\ d.boot <= shop'[d.merchant].boot
                 /\ d.boot = shop'[d.merchant].boot
                      => <<d.bundle.epoch, d.bundle.n>> \in shop'[d.merchant].tokens
      <3>1. /\ d.merchant \in Names /\ d.boot \in Nat /\ d.boot <= shop[d.merchant].boot
            /\ d.boot = shop[d.merchant].boot
                 => <<d.bundle.epoch, d.bundle.n>> \in shop[d.merchant].tokens
        BY <1>8 DEF PayInv, ShopInv
      <3>2. shop'[d.merchant].boot = shop[d.merchant].boot
            /\ shop[d.merchant].tokens \subseteq shop'[d.merchant].tokens
        BY <1>4, <3>1 DEF s
      <3> QED  BY <3>1, <3>2
    <2>2. DeliveredIsBound'
      BY <1>8 DEF PayInv, DeliveredIsBound
    <2> QED  BY <1>4, <1>7, <2>1, <2>2 DEF ShopInv
  <1>9. CASE delivered' # delivered
    <2> DEFINE d == [merchant |-> m, boot |-> s.boot, bundle |-> b, at |-> clock,
                     n |-> Cardinality(delivered) + 1]
    <2>1. ok /\ delivered' = delivered \union {d}
      BY <1>1, <1>9
    <2>2. d.merchant = m /\ d.boot = s.boot /\ d.bundle = b /\ d.at = clock
      OBVIOUS
    <2> HIDE DEF d
    <2>3. T = s.tokens \union {key} /\ key \notin s.tokens
      BY <1>5, <2>1
    <2>4. ASSUME NEW e \in delivered'
          PROVE  /\ e.merchant \in Names /\ e.boot \in Nat /\ e.boot <= shop'[e.merchant].boot
                 /\ e.boot = shop'[e.merchant].boot
                      => <<e.bundle.epoch, e.bundle.n>> \in shop'[e.merchant].tokens
      <3>1. CASE e = d
        <4>1. key = <<e.bundle.epoch, e.bundle.n>> /\ e.merchant = m /\ e.boot = s.boot
          BY <2>2, <3>1 DEF key
        <4> QED  BY <1>2, <1>4, <2>3, <4>1
      <3>2. CASE e \in delivered
        <4>1. /\ e.merchant \in Names /\ e.boot \in Nat /\ e.boot <= shop[e.merchant].boot
              /\ e.boot = shop[e.merchant].boot
                   => <<e.bundle.epoch, e.bundle.n>> \in shop[e.merchant].tokens
          BY <3>2 DEF PayInv, ShopInv
        <4>2. shop'[e.merchant].boot = shop[e.merchant].boot
              /\ shop[e.merchant].tokens \subseteq shop'[e.merchant].tokens
          BY <1>4, <4>1 DEF s
        <4> QED  BY <4>1, <4>2
      <3> QED  BY <2>1, <3>1, <3>2
    <2>5. \A e \in delivered : e.merchant = m /\ e.boot = s.boot => e.bundle # b
      <3> SUFFICES ASSUME NEW e \in delivered, e.merchant = m, e.boot = s.boot, e.bundle = b
                   PROVE  FALSE
        OBVIOUS
      <3>1. <<e.bundle.epoch, e.bundle.n>> \in shop[e.merchant].tokens
        BY DEF PayInv, ShopInv, s
      <3> QED  BY <2>3, <3>1 DEF key, s
    <2>6. DeliveredIsBound'
      <3>1. \A e \in delivered :
              /\ e.bundle \in minted
              /\ e.bundle.to = asks(e.merchant).to /\ e.bundle.amount = asks(e.merchant).amount
              /\ e.at < e.bundle.exp
              /\ \A f \in delivered :
                    f.merchant = e.merchant /\ f.boot = e.boot /\ f.bundle = e.bundle => f = e
        BY DEF PayInv, DeliveredIsBound
      <3>2. /\ d.bundle \in minted
            /\ d.bundle.to = asks(d.merchant).to /\ d.bundle.amount = asks(d.merchant).amount
            /\ d.at < d.bundle.exp
        BY <1>5, <2>1, <2>2
      <3>3. \A e, f \in delivered' :
              f.merchant = e.merchant /\ f.boot = e.boot /\ f.bundle = e.bundle => f = e
        BY <2>1, <2>2, <2>5, <3>1
      <3> QED  BY <2>1, <3>1, <3>2, <3>3 DEF DeliveredIsBound
    <2> QED  BY <1>4, <1>7, <2>4, <2>6 DEF ShopInv
  <1> QED  BY <1>8, <1>9

\* A refusal of what an agent paid for has a cause outside the exchange.
LEMMA RefusalHasCause ==
    ASSUME PayInv, NEW a \in Agents, stageOf(a) = "paid",
           ~delivers(run[a].merchant, run[a].bundle, context(run[a].bundle))
    PROVE  LET b == run[a].bundle m == run[a].merchant IN
           \/ clock >= b.exp \/ clock > shop[m].until \/ shop[m].epoch # b.epoch
           \/ [merchant |-> m, boot |-> shop[m].boot, bundle |-> b] \in presented
  <1> DEFINE b == run[a].bundle
             m == run[a].merchant
  <1>1. /\ b \in minted /\ m \in Names
        /\ b.to = asks(m).to /\ b.amount = asks(m).amount /\ b.currency = asks(m).currency
    BY DEF PayInv, AgentInv, Holding
  <1>2. /\ context(b).to = b.to /\ context(b).amount = b.amount /\ context(b).currency = b.currency
    BY DEF context
  <1>3. b.amount <= Ceiling /\ b.currency = GateCurrency /\ b.exp <= b.ts + TokenTTL
    BY <1>1 DEF PayInv, MintedInv
  <1>4. /\ b.exp \in Int /\ b.ts \in Nat /\ clock \in Nat /\ TokenTTL \in Nat /\ ProofAge \in Nat
        /\ TokenTTL <= ProofAge /\ shop[m].until \in Int
    BY <1>1, PayerGateAssumption DEF PayInv, PayTyped, Bundles, Registers
  <1> SUFFICES ASSUME clock < b.exp, clock <= shop[m].until, shop[m].epoch = b.epoch
               PROVE  [merchant |-> m, boot |-> shop[m].boot, bundle |-> b] \in presented
    BY <1>4
  <1> HIDE DEF b, m
  <1>5. boundHere(m, context(b))
    BY <1>1, <1>2 DEF boundHere
  <1>6. clock <= b.ts + ProofAge
    BY <1>3, <1>4
  <1>7. <<b.epoch, b.n>> \in shop[m].proofs \union shop[m].tokens
    <2>1. ~delivers(m, b, context(b))
      BY DEF b, m
    <2> QED  BY <1>2, <1>3, <1>5, <1>6, <2>1 DEF delivers, proofFresh, passes, proofOf
  <1>8. PICK c \in minted : /\ <<b.epoch, b.n>> = <<c.epoch, c.n>>
                            /\ [merchant |-> m, boot |-> shop[m].boot, bundle |-> c] \in presented
    BY <1>1, <1>7 DEF PayInv, ShopInv
  <1>9. c = b
    BY <1>1, <1>8 DEF PayInv, MintedInv
  <1> QED  BY <1>8, <1>9

\* A step that moves one agent on, from holding an attestation to holding it.
LEMMA AgentMoves ==
    ASSUME PayInv, NEW a \in Agents, minted' = minted,
           run' \in [Agents -> AgentRuns], \A c \in Agents : c # a => run'[c] = run[c],
           run'[a].merchant = run[a].merchant, run'[a].bundle = run[a].bundle,
           stageOf(a) \in Holding, run'[a].stage \in Spent
    PROVE  /\ AgentInv'
           /\ transfers' = transfers /\ rail' = rail => LedgerInv'
  <1>1. \A c \in Agents : run'[c].merchant = run[c].merchant /\ run'[c].bundle = run[c].bundle
    OBVIOUS
  <1>2. \A c \in Agents : run'[c].stage \in Holding => stageOf(c) \in Holding
    BY DEF stageOf
  <1>3. \A c \in Agents : run'[c].stage # "start" => stageOf(c) # "start"
    BY DEF stageOf, Holding
  <1>4. AgentInv'
    BY <1>1, <1>2, <1>3 DEF PayInv, AgentInv, stageOf
  <1>5. ASSUME transfers' = transfers, rail' = rail
        PROVE  LedgerInv'
    <2>1. \A t \in transfers : t.by \in Agents
      BY DEF PayInv, PayTyped, Ledger
    <2>2. \A c \in Agents : stageOf(c) \in Spent => run'[c].stage \in Spent
      BY DEF stageOf
    <2> QED  BY <1>1, <1>5, <2>1, <2>2 DEF PayInv, LedgerInv, stageOf, carriesAnchor
  <1> QED  BY <1>4, <1>5

LEMMA RelayStep ==
    ASSUME PayInv, NEW m \in Names, Relay(m)
    PROVE  PayInv'
  <1>1. PICK b \in minted : \E tc : Redeem(m, b, tc)
    BY DEF Relay
  <1>2. /\ rail' = rail /\ clock' = clock /\ gate' = gate /\ minted' = minted /\ run' = run
        /\ transfers' = transfers
    BY DEF Relay
  <1>3. ShopInv' /\ DeliveredIsBound' /\ shop' \in [Names -> Registers]
    BY <1>1, <1>2, RedeemStep
  <1>4. PayTyped' /\ MintedInv' /\ AgentInv'
    BY <1>2, <1>3 DEF PayInv, PayTyped, MintedInv, AgentInv, stageOf
  <1>5. LedgerInv' /\ RefusedForCause'
    BY <1>2 DEF PayInv, LedgerInv, RefusedForCause, stageOf, carriesAnchor
  <1> QED  BY <1>3, <1>4, <1>5 DEF PayInv

LEMMA SetStage ==
    ASSUME NEW f \in [Agents -> AgentRuns], NEW a \in Agents, NEW v \in Stages
    PROVE  LET y == [f EXCEPT ![a].stage = v] IN
           /\ y \in [Agents -> AgentRuns] /\ y[a].stage = v /\ y[a].merchant = f[a].merchant
           /\ y[a].bundle = f[a].bundle /\ y[a].met = f[a].met
           /\ \A c \in Agents : c # a => y[c] = f[c]
  <1> DEFINE z == [f[a] EXCEPT !.stage = v]
  <1>1. f[a] \in AgentRuns
    OBVIOUS
  <1>2. z \in AgentRuns /\ z.stage = v /\ z.merchant = f[a].merchant /\ z.bundle = f[a].bundle /\ z.met = f[a].met
    BY <1>1 DEF AgentRuns
  <1> HIDE DEF z
  <1>3. [f EXCEPT ![a].stage = v] = [f EXCEPT ![a] = z]
    BY DEF z
  <1> QED  BY <1>2, <1>3

LEMMA RedeemsStep ==
    ASSUME PayInv, NEW a \in Agents, AgentRedeems(a)
    PROVE  PayInv'
  <1> DEFINE m == run[a].merchant
             b == run[a].bundle
             x == [merchant |-> m, boot |-> shop[m].boot, bundle |-> b]
             got == IF delivers(m, b, context(b)) THEN "delivered" ELSE "refused"
             w == [at |-> clock, until |-> shop[m].until, epoch |-> shop[m].epoch,
                   again |-> x \in presented]
  <1>1. /\ stageOf(a) = "paid" /\ Redeem(m, b, context(b))
        /\ run' = [run EXCEPT ![a].stage = got, ![a].met = w]
        /\ rail' = rail /\ clock' = clock /\ gate' = gate /\ minted' = minted
        /\ transfers' = transfers
    BY DEF AgentRedeems
  <1>2. b \in minted /\ m \in Names
    BY <1>1 DEF PayInv, AgentInv, Holding
  <1>3. ShopInv' /\ DeliveredIsBound' /\ shop' \in [Names -> Registers]
    BY <1>1, <1>2, RedeemStep
  <1>4. w \in Meetings
    <2>1. clock \in Nat /\ shop[m].until \in Int /\ shop[m].epoch \in Nat
      BY <1>2 DEF PayInv, PayTyped, Registers
    <2>2. (x \in presented) \in BOOLEAN
      OBVIOUS
    <2> QED  BY <2>1, <2>2 DEF Meetings
  <1>5. w.again = (x \in presented) /\ w.at = clock /\ w.until = shop[m].until /\ w.epoch = shop[m].epoch
    BY Zenon
  <1>6. got \in {"delivered", "refused"} /\ (got = "refused" => ~delivers(m, b, context(b)))
    OBVIOUS
  <1>7. got = "refused" =>
          \/ clock >= b.exp \/ clock > shop[m].until \/ shop[m].epoch # b.epoch \/ x \in presented
    BY <1>1, <1>6, RefusalHasCause
  <1> HIDE DEF got, w
  <1>8. /\ run'[a].stage = got /\ run'[a].met = w
        /\ run'[a].merchant = m /\ run'[a].bundle = b
        /\ \A c \in Agents : c # a => run'[c] = run[c]
        /\ run' \in [Agents -> AgentRuns]
    <2>1. run \in [Agents -> AgentRuns] /\ got \in Stages
      BY <1>6 DEF PayInv, PayTyped, Stages
    <2> DEFINE y == [run EXCEPT ![a].stage = got]
    <2>2. /\ y \in [Agents -> AgentRuns] /\ y[a].stage = got /\ y[a].merchant = m /\ y[a].bundle = b
          /\ \A c \in Agents : c # a => y[c] = run[c]
      BY <2>1 DEF AgentRuns
    <2> HIDE DEF y
    <2>3. run' = [y EXCEPT ![a].met = w]
      BY <1>1 DEF y
    <2> QED  BY <1>4, <2>2, <2>3 DEF AgentRuns
  <1> HIDE DEF b, m, x
  <1>9. PayTyped' /\ MintedInv'
    BY <1>1, <1>3, <1>8 DEF PayInv, PayTyped, MintedInv
  <1>10. AgentInv' /\ LedgerInv'
    BY <1>1, <1>6, <1>8, AgentMoves DEF Holding, Spent, b, m
  <1>11. RefusedForCause'
    <2> SUFFICES ASSUME NEW c \in Agents, run'[c].stage = "refused"
                 PROVE  \/ run'[c].met.at >= run'[c].bundle.exp \/ run'[c].met.at > run'[c].met.until
                        \/ run'[c].met.epoch # run'[c].bundle.epoch \/ run'[c].met.again
      BY DEF RefusedForCause, stageOf
    <2>1. CASE c = a
      <3>1. run'[c].met = w /\ run'[c].bundle = b /\ got = "refused"
        BY <1>8, <2>1
      <3> QED  BY <1>5, <1>7, <3>1
    <2>2. CASE c # a
      BY <1>8, <2>2 DEF PayInv, RefusedForCause, stageOf
    <2> QED  BY <2>1, <2>2
  <1> QED  BY <1>3, <1>9, <1>10, <1>11 DEF PayInv

LEMMA FetchStep ==
    ASSUME PayInv, NEW a \in Agents, AgentFetches(a)
    PROVE  PayInv'
  <1>1. PICK m \in Names : run' = [run EXCEPT ![a].stage = "asking", ![a].merchant = m]
    BY DEF AgentFetches
  <1>2. /\ stageOf(a) = "start" /\ rail' = rail /\ clock' = clock /\ gate' = gate
        /\ minted' = minted /\ shop' = shop /\ transfers' = transfers
        /\ delivered' = delivered /\ presented' = presented
    BY DEF AgentFetches
  <1>t. run \in [Agents -> AgentRuns] /\ "asking" \in Stages
    BY DEF PayInv, PayTyped, Stages
  <1>m. m \in MerchantOrNone
    BY Zenon DEF MerchantOrNone
  <1> DEFINE y == [run EXCEPT ![a].stage = "asking"]
  <1>3. /\ y \in [Agents -> AgentRuns] /\ y[a].stage = "asking"
        /\ \A c \in Agents : c # a => y[c] = run[c]
    BY <1>t, SetStage
  <1> HIDE DEF y
  <1>4. run' = [y EXCEPT ![a].merchant = m]
    BY <1>1 DEF y
  <1>5. /\ run' \in [Agents -> AgentRuns] /\ run'[a].stage = "asking" /\ run'[a].merchant = m
        /\ \A c \in Agents : c # a => run'[c] = run[c]
    BY <1>m, <1>3, <1>4 DEF AgentRuns
  <1>6. PayTyped' /\ MintedInv'
    BY <1>2, <1>5 DEF PayInv, PayTyped, MintedInv
  <1>7. AgentInv'
    BY <1>2, <1>5 DEF PayInv, AgentInv, stageOf, Holding
  <1>8. LedgerInv'
    <2>1. \A t \in transfers : t.by \in Agents /\ t.by # a
      BY <1>2 DEF PayInv, PayTyped, Ledger, LedgerInv, Spent
    <2> QED  BY <1>2, <1>5, <2>1 DEF PayInv, LedgerInv, stageOf, carriesAnchor
  <1>9. ShopInv' /\ DeliveredIsBound'
    BY <1>2 DEF PayInv, ShopInv, DeliveredIsBound
  <1>10. RefusedForCause'
    BY <1>5 DEF PayInv, RefusedForCause, stageOf
  <1> QED  BY <1>6, <1>7, <1>8, <1>9, <1>10 DEF PayInv

LEMMA AuthorizeStep ==
    ASSUME PayInv, NEW a \in Agents, AgentAuthorizes(a)
    PROVE  PayInv'
  <1> DEFINE m == run[a].merchant
             q == asks(m)
             b == sptTxn(q)
  <1>1. /\ stageOf(a) = "asking" /\ rail' = rail /\ clock' = clock /\ gate' = gate
        /\ shop' = shop /\ transfers' = transfers /\ delivered' = delivered /\ presented' = presented
        /\ \/ /\ mints(q) /\ minted' = minted \union {b}
              /\ run' = [run EXCEPT ![a].stage = "allowed", ![a].bundle = b]
           \/ run' = [run EXCEPT ![a].stage = "denied"] /\ minted' = minted
    BY DEF AgentAuthorizes, nowAt
  <1>t. /\ PayTyped /\ run \in [Agents -> AgentRuns] /\ "allowed" \in Stages /\ "denied" \in Stages
    BY DEF PayInv, PayTyped, Stages
  <1>2. m \in Names /\ q \in Merchants
    <2>1. m \in Names
      BY <1>1 DEF PayInv, AgentInv
    <2> QED  BY <2>1, Asked
  <1>3. \A t \in transfers : t.by \in Agents /\ t.by # a
    BY <1>1 DEF PayInv, PayTyped, Ledger, LedgerInv, Spent
  <1>4. CASE run' = [run EXCEPT ![a].stage = "denied"] /\ minted' = minted
    <2>1. /\ run' \in [Agents -> AgentRuns] /\ run'[a].stage = "denied"
          /\ run'[a].merchant = m /\ \A c \in Agents : c # a => run'[c] = run[c]
      BY <1>t, <1>4, SetStage
    <2>2. PayTyped' /\ MintedInv'
      BY <1>1, <1>4, <2>1 DEF PayInv, PayTyped, MintedInv
    <2>3. AgentInv'
      BY <1>2, <1>4, <2>1 DEF PayInv, AgentInv, stageOf, Holding
    <2>4. LedgerInv'
      BY <1>1, <1>3, <2>1 DEF PayInv, LedgerInv, stageOf, carriesAnchor
    <2>5. ShopInv' /\ DeliveredIsBound'
      BY <1>1, <1>4 DEF PayInv, ShopInv, DeliveredIsBound
    <2>6. RefusedForCause'
      BY <2>1 DEF PayInv, RefusedForCause, stageOf
    <2> QED  BY <2>2, <2>3, <2>4, <2>5, <2>6 DEF PayInv
  <1>5. CASE /\ mints(q) /\ minted' = minted \union {b}
             /\ run' = [run EXCEPT ![a].stage = "allowed", ![a].bundle = b]
    <2>1. /\ b.epoch = gate.epoch /\ b.n = Cardinality(minted) + 1 /\ b.to = q.to
          /\ b.amount = q.amount /\ b.currency = q.currency /\ b.ts = clock
          /\ b.exp = least(clock + TokenTTL, gate.until)
      BY DEF sptTxn
    <2>2. /\ IsFiniteSet(minted) /\ Cardinality(minted) \in Nat
          /\ \A c \in minted : c.n \in Nat /\ c.n <= Cardinality(minted)
      BY <1>t, FS_CardinalityType DEF PayInv, MintedInv, PayTyped, Bundles
    <2>3. least(clock + TokenTTL, gate.until) \in Int
          /\ least(clock + TokenTTL, gate.until) <= clock + TokenTTL
      BY <1>t, PayerGateAssumption DEF PayTyped, least
    <2>4. b \in Bundles
      <3>1. q.to \in Tos /\ q.amount \in Prices /\ q.currency \in Monies
        BY <1>2, Zenon DEF Tos, Prices, Monies
      <3>2. gate.epoch \in Nat /\ Cardinality(minted) + 1 \in Nat /\ clock \in Nat
        BY <1>t, <2>2 DEF PayTyped
      <3> HIDE DEF q
      <3> QED  BY <2>3, <3>1, <3>2 DEF Bundles, sptTxn
    <2>5. q.amount <= Ceiling /\ q.currency = GateCurrency
      BY <1>5 DEF mints
    <2> HIDE DEF b, q
    <2>6. b \notin minted /\ \A c \in minted : c.n # b.n
      BY <2>1, <2>2
    <2>7. Cardinality(minted') = Cardinality(minted) + 1 /\ IsFiniteSet(minted')
      BY <1>5, <2>2, <2>6, FS_AddElement
    <2>8. MintedInv'
      <3>1. \A c \in minted' : c.n <= Cardinality(minted')
        BY <1>5, <2>1, <2>2, <2>7
      <3>2. \A c, d \in minted' : c.n = d.n => c = d
        BY <1>5, <2>6 DEF PayInv, MintedInv
      <3>3. \A c \in minted' : /\ c.amount <= Ceiling /\ c.currency = GateCurrency
                               /\ c.exp <= c.ts + TokenTTL
        BY <1>5, <2>1, <2>3, <2>5 DEF PayInv, MintedInv
      <3> QED  BY <2>7, <3>1, <3>2, <3>3 DEF MintedInv
    <2>9. /\ run' \in [Agents -> AgentRuns] /\ run'[a].stage = "allowed" /\ run'[a].bundle = b
          /\ run'[a].merchant = m /\ \A c \in Agents : c # a => run'[c] = run[c]
      <3> DEFINE y == [run EXCEPT ![a].stage = "allowed"]
      <3>1. /\ y \in [Agents -> AgentRuns] /\ y[a].stage = "allowed" /\ y[a].merchant = m
            /\ \A c \in Agents : c # a => y[c] = run[c]
        BY <1>t, SetStage
      <3> HIDE DEF y
      <3>2. run' = [y EXCEPT ![a].bundle = b]
        BY <1>5 DEF y
      <3> QED  BY <2>4, <3>1, <3>2 DEF AgentRuns
    <2>10. PayTyped'
      BY <1>t, <1>1, <1>5, <2>4, <2>9 DEF PayTyped
    <2>11. AgentInv'
      <3>1. \A c \in Agents : run'[c].stage # "start" => run'[c].merchant \in Names
        BY <1>2, <2>9 DEF PayInv, AgentInv, stageOf
      <3>2. \A c \in Agents : run'[c].stage \in Holding =>
              /\ run'[c].bundle \in minted'
              /\ run'[c].bundle.to = asks(run'[c].merchant).to
              /\ run'[c].bundle.amount = asks(run'[c].merchant).amount
              /\ run'[c].bundle.currency = asks(run'[c].merchant).currency
        BY <1>5, <2>1, <2>9 DEF PayInv, AgentInv, stageOf, q
      <3>3. \A c, d \in Agents : c # d /\ run'[c].stage \in Holding /\ run'[d].stage \in Holding
                                   => run'[c].bundle # run'[d].bundle
        BY <2>6, <2>9 DEF PayInv, AgentInv, stageOf
      <3> QED  BY <3>1, <3>2, <3>3 DEF AgentInv, stageOf
    <2>12. LedgerInv'
      BY <1>1, <1>3, <2>9 DEF PayInv, LedgerInv, stageOf, carriesAnchor
    <2>13. ShopInv' /\ DeliveredIsBound'
      <3>1. minted \subseteq minted'
        BY <1>5
      <3>2. DeliveredIsBound'
        BY <1>1, <3>1 DEF PayInv, DeliveredIsBound
      <3>3. ShopInv'
        BY <1>1, <3>1 DEF PayInv, ShopInv
      <3> QED  BY <3>2, <3>3
    <2>14. RefusedForCause'
      BY <2>9 DEF PayInv, RefusedForCause, stageOf
    <2> QED  BY <2>8, <2>10, <2>11, <2>12, <2>13, <2>14 DEF PayInv
  <1> QED  BY <1>1, <1>4, <1>5

LEMMA SettleStep ==
    ASSUME PayInv, NEW a \in Agents, AgentSettles(a)
    PROVE  PayInv'
  <1> DEFINE b == run[a].bundle
             t == [by |-> a, to |-> b.to, amount |-> b.amount, currency |-> b.currency,
                   status |-> "pending", memo |-> IF carriesAnchor THEN anchorOf(b.epoch) ELSE 0]
  <1>1. /\ stageOf(a) = "allowed" /\ transfers' = transfers \union {t}
        /\ run' = [run EXCEPT ![a].stage = "submitted"]
        /\ rail' = rail /\ clock' = clock /\ gate' = gate /\ minted' = minted
        /\ shop' = shop /\ delivered' = delivered /\ presented' = presented
    BY DEF AgentSettles, pays, nowAt
  <1>2. b \in Bundles /\ run \in [Agents -> AgentRuns] /\ "submitted" \in Stages
    BY DEF PayInv, PayTyped, AgentRuns, Stages
  <1>3. /\ run' \in [Agents -> AgentRuns] /\ run'[a].stage = "submitted"
        /\ run'[a].merchant = run[a].merchant /\ run'[a].bundle = b
        /\ \A c \in Agents : c # a => run'[c] = run[c]
    BY <1>1, <1>2, SetStage
  <1>4. /\ t.by = a /\ t.to = b.to /\ t.amount = b.amount /\ t.currency = b.currency
        /\ carriesAnchor => t.memo = anchorOf(b.epoch)
    OBVIOUS
  <1>5. t \in Ledger
    <2>1. /\ b.to \in Tos /\ b.amount \in Prices /\ b.currency \in Monies /\ b.epoch \in Nat
      BY <1>2 DEF Bundles
    <2> HIDE DEF b
    <2> QED  BY <2>1 DEF Ledger, AnyState, anchorOf
  <1> HIDE DEF t
  <1>6. AgentInv'
    BY <1>1, <1>3, AgentMoves DEF Holding, Spent
  <1>7. \A u \in transfers : u.by \in Agents /\ u.by # a
    BY <1>1 DEF PayInv, PayTyped, Ledger, LedgerInv, Spent
  <1>8. LedgerInv'
    <2>1. carriesAnchor' <=> carriesAnchor
      BY <1>1 DEF carriesAnchor
    <2>2. ASSUME NEW u \in transfers'
          PROVE  /\ run'[u.by].stage \in Spent
                 /\ u.to = run'[u.by].bundle.to /\ u.amount = run'[u.by].bundle.amount
                 /\ u.currency = run'[u.by].bundle.currency
                 /\ carriesAnchor => u.memo = anchorOf(run'[u.by].bundle.epoch)
      <3>1. CASE u = t
        BY <1>3, <1>4, <3>1 DEF Spent
      <3>2. CASE u \in transfers
        BY <1>3, <1>7, <3>2 DEF PayInv, LedgerInv, stageOf
      <3> QED  BY <1>1, <3>1, <3>2
    <2>3. \A u, v \in transfers' : u.by = v.by => u = v
      BY <1>1, <1>4, <1>7 DEF PayInv, LedgerInv
    <2> QED  BY <2>1, <2>2, <2>3 DEF LedgerInv, stageOf, anchorOf
  <1>9. PayTyped' /\ MintedInv'
    BY <1>1, <1>3, <1>5 DEF PayInv, PayTyped, MintedInv
  <1>10. ShopInv' /\ DeliveredIsBound'
    BY <1>1 DEF PayInv, ShopInv, DeliveredIsBound
  <1>11. RefusedForCause'
    BY <1>3 DEF PayInv, RefusedForCause, stageOf
  <1> QED  BY <1>6, <1>8, <1>9, <1>10, <1>11 DEF PayInv

LEMMA ReportStep ==
    ASSUME PayInv, NEW a \in Agents, ClientReports(a)
    PROVE  PayInv'
  <1>1. /\ stageOf(a) = "submitted" /\ run' = [run EXCEPT ![a].stage = "paid"]
        /\ rail' = rail /\ clock' = clock /\ gate' = gate /\ minted' = minted /\ transfers' = transfers
        /\ shop' = shop /\ delivered' = delivered /\ presented' = presented
    BY DEF ClientReports, nowAt
  <1>2. run \in [Agents -> AgentRuns] /\ "paid" \in Stages
    BY DEF PayInv, PayTyped, Stages
  <1>3. /\ run' \in [Agents -> AgentRuns] /\ run'[a].stage = "paid"
        /\ run'[a].merchant = run[a].merchant /\ run'[a].bundle = run[a].bundle
        /\ \A c \in Agents : c # a => run'[c] = run[c]
    BY <1>1, <1>2, SetStage
  <1>4. AgentInv' /\ LedgerInv'
    BY <1>1, <1>3, AgentMoves DEF Holding, Spent
  <1>5. PayTyped' /\ MintedInv'
    BY <1>1, <1>3 DEF PayInv, PayTyped, MintedInv
  <1>6. ShopInv' /\ DeliveredIsBound'
    BY <1>1 DEF PayInv, ShopInv, DeliveredIsBound
  <1>7. RefusedForCause'
    BY <1>3 DEF PayInv, RefusedForCause, stageOf
  <1> QED  BY <1>4, <1>5, <1>6, <1>7 DEF PayInv

LEMMA LedgerStep ==
    ASSUME PayInv, LedgerApplies
    PROVE  PayInv'
  <1>1. PICK t \in transfers, s \in {"done", "failed"} :
          transfers' = (transfers \ {t}) \union {[t EXCEPT !.status = s]}
    BY DEF LedgerApplies
  <1>2. /\ rail' = rail /\ clock' = clock /\ gate' = gate /\ minted' = minted /\ run' = run
        /\ shop' = shop /\ delivered' = delivered /\ presented' = presented
    BY DEF LedgerApplies
  <1> DEFINE u == [t EXCEPT !.status = s]
  <1>3. /\ u \in Ledger /\ u.by = t.by /\ u.to = t.to /\ u.amount = t.amount
        /\ u.currency = t.currency /\ u.memo = t.memo
    BY DEF PayInv, PayTyped, Ledger, AnyState
  <1> HIDE DEF u
  <1>4. transfers' = (transfers \ {t}) \union {u}
    BY <1>1 DEF u
  <1>5. PayTyped' /\ MintedInv' /\ AgentInv'
    BY <1>2, <1>3, <1>4 DEF PayInv, PayTyped, MintedInv, AgentInv, stageOf
  <1>6. LedgerInv'
    BY <1>2, <1>3, <1>4 DEF PayInv, LedgerInv, stageOf, carriesAnchor, anchorOf
  <1>7. ShopInv' /\ DeliveredIsBound' /\ RefusedForCause'
    BY <1>2 DEF PayInv, ShopInv, DeliveredIsBound, RefusedForCause, stageOf
  <1> QED  BY <1>5, <1>6, <1>7 DEF PayInv

\* Restarts of the gate and the merchants, agents killed at any point, pay
\* clients that report what they do not know and anybody who presents a bundle,
\* altered or not, do not make a payer spend more than it was allowed, a
\* merchant deliver twice for one attestation or for another price, or an agent
\* that paid be refused for another reason than the four of RefusedForCause
\* (gate.Authorize, merchantsvc, agent).
THEOREM PaymentsAreSafe == PayInit /\ [][PayNext]_payVars => []PaymentsSafe
  <1>1. PayInit => PayInv
    <2> SUFFICES ASSUME PayInit
                 PROVE  PayInv
      OBVIOUS
    <2>z. 0 \in Nat /\ 0 \in Int /\ 1 \in Nat
      OBVIOUS
    <2>1. NoBundle \in Bundles /\ NoMeeting \in Meetings
      <3>1. "" \in Tos /\ 0 \in Prices /\ "" \in Monies
        BY Zenon DEF Tos, Prices, Monies
      <3>2. NoBundle \in Bundles
        BY <2>z, <3>1, Zenon DEF NoBundle, Bundles
      <3>3. NoMeeting \in Meetings
        BY <2>z DEF NoMeeting, Meetings
      <3> QED  BY <3>2, <3>3
    <2>2. Opened(1, 1, 0) \in Registers
      <3>1. 0 + RecordTTL \in Int
        BY PayerGateAssumption
      <3> QED  BY <3>1 DEF Opened, Registers
    <2>3. run \in [Agents -> AgentRuns] /\ \A a \in Agents : run[a].stage = "start"
      <3> DEFINE z == [stage |-> "start", merchant |-> "", bundle |-> NoBundle, met |-> NoMeeting]
      <3>1. z \in AgentRuns /\ z.stage = "start"
        <4>1. "" \in MerchantOrNone /\ "start" \in Stages
          BY Zenon DEF MerchantOrNone, Stages
        <4> QED  BY <2>1, <4>1, Zenon DEF AgentRuns
      <3>2. run = [a \in Agents |-> z]
        BY Zenon DEF PayInit
      <3> HIDE DEF z
      <3> QED  BY <3>1, <3>2
    <2>4. /\ clock = 0 /\ gate = [epoch |-> 1, until |-> StandingTTL] /\ minted = {} /\ transfers = {}
          /\ delivered = {} /\ shop = [m \in Names |-> Opened(1, 1, 0)]
      BY Zenon DEF PayInit
    <2>5. StandingTTL \in Int
      BY PayerGateAssumption
    <2>6. PayTyped
      BY <2>2, <2>3, <2>4, <2>5 DEF PayTyped
    <2>7. MintedInv
      BY <2>4, FS_EmptySet DEF MintedInv
    <2>8. AgentInv /\ LedgerInv
      BY <2>3, <2>4 DEF AgentInv, LedgerInv, stageOf, Holding
    <2>9. ShopInv
      <3>1. Opened(1, 1, 0).proofs = {} /\ Opened(1, 1, 0).tokens = {}
        BY DEF Opened
      <3> QED  BY <2>4, <3>1 DEF ShopInv
    <2>10. DeliveredIsBound /\ RefusedForCause
      BY <2>3, <2>4 DEF DeliveredIsBound, RefusedForCause, stageOf
    <2> QED  BY <2>6, <2>7, <2>8, <2>9, <2>10 DEF PayInv
  <1>2. PayInv /\ [PayNext]_payVars => PayInv'
    <2> SUFFICES ASSUME PayInv, [PayNext]_payVars
                 PROVE  PayInv'
      OBVIOUS
    <2>1. CASE UNCHANGED payVars
      <3>1. PayTyped'
        BY <2>1 DEF payVars, PayInv, PayTyped
      <3> QED  BY <2>1, <3>1, QuietStep DEF payVars
    <2>2. CASE PayNext
      BY <2>2, ClockStep, LedgerStep, MerchantStep, RelayStep, FetchStep, AuthorizeStep, SettleStep,
         ReportStep, RedeemsStep DEF PayNext
    <2> QED  BY <2>1, <2>2
  <1>3. PayInv => PaymentsSafe
    <2> SUFFICES ASSUME PayInv
                 PROVE  SpendsOnlyAllowed
      BY DEF PayInv, PaymentsSafe
    <2>1. \A t \in transfers : t.by \in Agents
      BY DEF PayInv, PayTyped, Ledger
    <2>2. \A t \in transfers : stageOf(t.by) \in Holding
      BY DEF PayInv, LedgerInv, Spent, Holding
    <2>3. \A t \in transfers : run[t.by].bundle \in minted
      BY <2>1, <2>2 DEF PayInv, AgentInv
    <2>4. \A t, u \in transfers : u # t => run[u.by].bundle # run[t.by].bundle
      BY <2>1, <2>2 DEF PayInv, AgentInv, LedgerInv
    <2> QED  BY <2>3, <2>4 DEF PayInv, LedgerInv, MintedInv, SpendsOnlyAllowed
  <1> QED  BY <1>1, <1>2, <1>3, PTL

-----------------------------------------------------------------------------
(* The compliant token contracts.                                          *)

RwaTyped ==
    /\ supply \in Nat /\ balance \in [Holders -> Nat] /\ calls \in Nat /\ calls <= MaxCalls
    /\ allowance \in [Pairs -> 0..MaxUint]
    /\ approved \in [Pairs -> Nat] /\ spent \in [Pairs -> Nat]

\* What the calls that are left can move under an allowance without limit.
Room == (MaxCalls - calls) * MaxUint

\* What is still allowed was approved and is not spent.  An allowance without
\* limit is not used up, so it stands for all that the calls to come can move.
AllowanceInv ==
    \A p \in Pairs :
        spent[p] + (IF allowance[p] = MaxUint THEN Room ELSE allowance[p]) <= approved[p]

RwaInv == RwaTyped /\ AllowanceInv /\ SupplyConserved /\ EligibleByOwnProof

\* A call takes one of the calls that are left.
LEMMA RoomShrinks ==
    ASSUME RwaTyped, called
    PROVE  /\ Room \in Nat /\ Room' \in Nat /\ Room' + MaxUint = Room
           /\ Room <= MaxCalls * MaxUint /\ MaxCalls * MaxUint \in Nat
           /\ calls' \in Nat /\ calls' <= MaxCalls
<1>1. /\ MaxUint \in Nat /\ MaxCalls \in Nat /\ calls \in Nat /\ calls < MaxCalls
      /\ calls' = calls + 1
  BY RwaAssumption DEF RwaTyped, called
<1>2. \A m, k, c \in Nat : k < c => /\ (c - k) * m \in Nat /\ (c - (k + 1)) * m \in Nat
                                  /\ (c - (k + 1)) * m + m = (c - k) * m
                                  /\ (c - k) * m <= c * m /\ c * m \in Nat
  OBVIOUS
<1> QED  BY <1>1, <1>2 DEF Room

\* A call that leaves allowances and spending alone.
LEMMA OtherAllowances ==
    ASSUME RwaTyped, called, NEW p \in Pairs,
           spent[p] + (IF allowance[p] = MaxUint THEN Room ELSE allowance[p]) <= approved[p],
           allowance'[p] = allowance[p], spent'[p] = spent[p], approved'[p] = approved[p]
    PROVE  spent'[p] + (IF allowance'[p] = MaxUint THEN Room' ELSE allowance'[p]) <= approved'[p]
<1>1. Room \in Nat /\ Room' \in Nat /\ Room' + MaxUint = Room /\ MaxUint \in Nat
  BY RoomShrinks, RwaAssumption
<1>2. spent[p] \in Nat /\ allowance[p] \in Nat /\ approved[p] \in Nat
  BY <1>1 DEF RwaTyped
<1>3. CASE allowance[p] = MaxUint
  <2>1. spent[p] + Room <= approved[p] /\ allowance'[p] = MaxUint
    BY <1>3
  <2>2. \A s, r, t, m, a \in Nat : s + r <= a /\ t + m = r => s + t <= a
    OBVIOUS
  <2>3. spent[p] + Room' <= approved[p]
    <3> HIDE DEF Room
    <3> QED  BY <1>1, <1>2, <2>1, <2>2
  <2> QED  BY <2>1, <2>3
<1>4. CASE allowance[p] # MaxUint
  <2>1. spent[p] + allowance[p] <= approved[p] /\ allowance'[p] # MaxUint
    BY <1>4
  <2> QED  BY <2>1
<1> QED  BY <1>3, <1>4

\* The sum of the balances when one of them changes.
LEMMA SupplyUpdate ==
    ASSUME NEW b \in [Holders -> Nat], NEW c \in [Holders -> Nat], NEW h \in Holders,
           \A x \in Holders \ {h} : c[x] = b[x]
    PROVE  SumFunction(b) \in Int /\ SumFunction(c) = (SumFunction(b) - b[h]) + c[h]
<1>1. SumFunction(b) = SumFunctionOnSet(b, Holders) /\ SumFunction(c) = SumFunctionOnSet(c, Holders)
  BY DEF SumFunction
<1>2. IsFiniteSet(Holders) /\ \A x \in Holders : b[x] \in Int /\ c[x] \in Int
  BY RwaAssumption
<1>3. SumFunctionOnSet(b, Holders) \in Int
  BY <1>2, SumType
<1>4. SumFunctionOnSet(c, Holders) = (SumFunctionOnSet(b, Holders) - b[h]) + c[h]
  BY <1>2, SumUpdate
<1> QED  BY <1>1, <1>3, <1>4

LEMMA RegisterStep ==
    ASSUME RwaInv, NEW h \in Holders, register(h)
    PROVE  RwaInv'
<1>1. PICK p \in Proofs, m \in Proofs :
         /\ called /\ verifies(h, p, m)
         /\ grants' = grants \union {[who |-> h, proof |-> p, policy |-> policy]}
         /\ eligible' = eligible \union {h}
         /\ UNCHANGED <<edition, policy, supply, balance, allowance, approved, spent>>
  BY DEF register
<1>2. RwaTyped'
  BY <1>1, RoomShrinks DEF RwaInv, RwaTyped
<1>3. AllowanceInv'
  BY <1>1, OtherAllowances DEF RwaInv, AllowanceInv
<1>4. SupplyConserved'
  BY <1>1 DEF RwaInv, SupplyConserved
<1>5. EligibleByOwnProof'
  <2> SUFFICES ASSUME edition # "v1", NEW k \in eligible'
               PROVE  \E g \in grants' :
                         /\ g.who = k /\ g.proof.who = k /\ g.proof.threshold = g.policy.threshold
                         /\ edition = "issuer" => g.proof.root = g.policy.root
    BY <1>1 DEF EligibleByOwnProof
  <2>1. CASE k \in eligible
    BY <1>1, <2>1 DEF RwaInv, EligibleByOwnProof
  <2>2. CASE k = h
    <3> DEFINE g == [who |-> h, proof |-> p, policy |-> policy]
    <3>1. g.who = k /\ g.proof = p /\ g.policy = policy /\ g \in grants'
      BY <1>1, <2>2
    <3>2. /\ p.who = h /\ p.threshold = policy.threshold
          /\ edition = "issuer" => p.root = policy.root
      BY <1>1 DEF verifies
    <3> HIDE DEF g
    <3> QED  BY <2>2, <3>1, <3>2
  <2> QED  BY <1>1, <2>1, <2>2
<1> QED  BY <1>2, <1>3, <1>4, <1>5 DEF RwaInv

LEMMA MintTokensStep ==
    ASSUME RwaInv, NEW h \in Holders, NEW n \in 0..MaxUint, mint(h, n)
    PROVE  RwaInv'
<1>1. /\ called /\ h \in eligible /\ supply' = supply + n
      /\ balance' = [balance EXCEPT ![h] = @ + n]
      /\ UNCHANGED <<edition, policy, allowance, eligible, grants, approved, spent>>
  BY DEF mint
<1>2. n \in Nat /\ supply \in Nat /\ balance \in [Holders -> Nat]
  BY RwaAssumption DEF RwaInv, RwaTyped
<1>3. balance' \in [Holders -> Nat] /\ supply' \in Nat
  BY <1>1, <1>2
<1>4. RwaTyped'
  BY <1>1, <1>3, RoomShrinks DEF RwaInv, RwaTyped
<1>5. AllowanceInv'
  BY <1>1, OtherAllowances DEF RwaInv, AllowanceInv
<1>6. PICK c \in [Holders -> Nat] : c = balance'
  BY <1>3
<1>7. c[h] = balance[h] + n /\ \A x \in Holders \ {h} : c[x] = balance[x]
  BY <1>1, <1>2, <1>6
<1>8. SumFunction(c) = supply + n
  <2>1. SumFunction(balance) \in Int /\ SumFunction(c) = (SumFunction(balance) - balance[h]) + c[h]
    BY <1>2, <1>7, SupplyUpdate
  <2>2. SumFunction(balance) = supply /\ balance[h] \in Nat
    BY <1>2 DEF RwaInv, SupplyConserved
  <2> QED  BY <1>2, <1>7, <2>1, <2>2
<1>9. SupplyConserved'
  <2>1. supply' = SumFunction(balance')
    BY <1>1, <1>6, <1>8
  <2>2. \A x \in Holders : balance'[x] > 0 => x \in eligible'
    BY <1>1, <1>2 DEF RwaInv, SupplyConserved
  <2> QED  BY <2>1, <2>2 DEF SupplyConserved
<1>10. EligibleByOwnProof'
  BY <1>1 DEF RwaInv, EligibleByOwnProof
<1> QED  BY <1>4, <1>5, <1>9, <1>10 DEF RwaInv

LEMMA ApproveStep ==
    ASSUME RwaInv, NEW h \in Holders, NEW k \in Holders, NEW n \in 0..MaxUint, approve(h, k, n)
    PROVE  RwaInv'
<1> DEFINE q == <<h, k>>
           more == IF n = MaxUint THEN MaxCalls * n ELSE n
<1>1. /\ called /\ allowance' = [allowance EXCEPT ![q] = n]
      /\ approved' = [approved EXCEPT ![q] = @ + more]
      /\ UNCHANGED <<edition, policy, supply, balance, eligible, grants, spent>>
  BY DEF approve
<1>2. q \in Pairs /\ n \in Nat /\ MaxUint \in Nat
  BY RwaAssumption DEF Pairs
<1>3. /\ Room \in Nat /\ Room' \in Nat /\ Room' + MaxUint = Room
      /\ Room <= MaxCalls * MaxUint /\ MaxCalls * MaxUint \in Nat
  BY <1>1, RoomShrinks DEF RwaInv
<1>4. more \in Nat /\ (n = MaxUint => Room' <= more) /\ (n # MaxUint => more = n)
  <2>1. CASE n = MaxUint
    <3>1. PICK m \in Nat : m = MaxCalls * MaxUint
      BY <1>3
    <3>2. more = m
      BY <2>1, <3>1
    <3>3. m \in Nat /\ Room <= m
      BY <1>3, <3>1
    <3>4. \A a, b, c, d \in Nat : a + b = c /\ c <= d => a <= d
      OBVIOUS
    <3>5. Room' <= m
      <4>1. Room \in Nat /\ Room' \in Nat /\ MaxUint \in Nat /\ m \in Nat
        BY <1>2, <1>3, <3>3
      <4>2. Room' + MaxUint = Room /\ Room <= m
        BY <1>3, <3>3
      <4> HIDE DEF Room, q, more
      <4> QED  BY <3>4, <4>1, <4>2
    <3> HIDE DEF more
    <3> QED  BY <2>1, <3>2, <3>3, <3>5
  <2>2. CASE n # MaxUint
    BY <1>2, <2>2
  <2> QED  BY <2>1, <2>2
<1> HIDE DEF q, more
<1>5. RwaTyped'
  BY <1>1, <1>2, <1>4, RoomShrinks DEF RwaInv, RwaTyped
<1>6. AllowanceInv'
  <2> SUFFICES ASSUME NEW p \in Pairs
               PROVE  spent'[p] + (IF allowance'[p] = MaxUint THEN Room' ELSE allowance'[p]) <= approved'[p]
    BY DEF AllowanceInv
  <2>1. spent[p] + (IF allowance[p] = MaxUint THEN Room ELSE allowance[p]) <= approved[p]
    BY DEF RwaInv, AllowanceInv
  <2>2. spent[p] \in Nat /\ allowance[p] \in Nat /\ approved[p] \in Nat
    BY <1>2 DEF RwaInv, RwaTyped
  <2>3. CASE p = q
    <3>1. allowance'[p] = n /\ approved'[p] = approved[p] + more /\ spent'[p] = spent[p]
      BY <1>1, <2>3 DEF RwaInv, RwaTyped
    <3>2. spent[p] <= approved[p]
      BY <1>3, <2>1, <2>2
    <3> QED  BY <1>2, <1>3, <1>4, <2>2, <3>1, <3>2
  <2>4. CASE p # q
    <3>1. allowance'[p] = allowance[p] /\ approved'[p] = approved[p] /\ spent'[p] = spent[p]
      BY <1>1, <2>4 DEF RwaInv, RwaTyped
    <3> QED  BY <1>1, <2>1, <3>1, OtherAllowances DEF RwaInv
  <2> QED  BY <2>3, <2>4
<1>7. SupplyConserved' /\ EligibleByOwnProof'
  BY <1>1 DEF RwaInv, SupplyConserved, EligibleByOwnProof
<1> QED  BY <1>5, <1>6, <1>7 DEF RwaInv

\* A movement between eligible holders, to the holder itself included, keeps
\* the sum of the balances and leaves tokens with eligible holders only.
LEMMA MovedKeeps ==
    ASSUME RwaInv, NEW h \in Holders, NEW k \in Holders, NEW n \in Nat, canMove(h, k, n),
           balance' = moved(h, k, n), eligible' = eligible, supply' = supply
    PROVE  balance' \in [Holders -> Nat] /\ SupplyConserved'
<1> DEFINE d == [balance EXCEPT ![h] = @ - n]
<1>1. /\ balance' = [d EXCEPT ![k] = @ + n] /\ h \in eligible /\ k \in eligible /\ balance[h] >= n
  BY DEF moved, canMove
<1>2. balance \in [Holders -> Nat] /\ IsFiniteSet(Holders) /\ supply \in Nat
  BY RwaAssumption DEF RwaInv, RwaTyped
<1>3. /\ d \in [Holders -> Nat] /\ d[h] = balance[h] - n
      /\ \A x \in Holders \ {h} : d[x] = balance[x]
  BY <1>1, <1>2
<1> HIDE DEF d
<1>4. /\ balance' \in [Holders -> Nat] /\ balance'[k] = d[k] + n
      /\ \A x \in Holders \ {k} : balance'[x] = d[x]
  BY <1>1, <1>3
<1>5. PICK c \in [Holders -> Nat] : c = balance'
  BY <1>4
<1>6. SumFunction(c) = supply
  <2>1. SumFunction(balance) \in Int /\ SumFunction(d) = (SumFunction(balance) - balance[h]) + d[h]
    BY <1>2, <1>3, SupplyUpdate
  <2>2. SumFunction(d) \in Int /\ SumFunction(c) = (SumFunction(d) - d[k]) + c[k]
    BY <1>3, <1>4, <1>5, SupplyUpdate
  <2>3. SumFunction(balance) = supply
    BY DEF RwaInv, SupplyConserved
  <2>4. balance[h] \in Int /\ d[k] \in Int /\ c[k] = d[k] + n
    BY <1>2, <1>3, <1>4, <1>5
  <2> QED  BY <1>3, <2>1, <2>2, <2>3, <2>4
<1>7. \A x \in Holders : balance'[x] > 0 => x \in eligible
  BY <1>1, <1>2, <1>3, <1>4 DEF RwaInv, SupplyConserved
<1> QED  BY <1>4, <1>5, <1>6, <1>7 DEF SupplyConserved

LEMMA TokenTransferStep ==
    ASSUME RwaInv, NEW h \in Holders, NEW k \in Holders, NEW n \in 0..MaxUint, transfer(h, k, n)
    PROVE  RwaInv'
<1>1. /\ called /\ canMove(h, k, n) /\ balance' = moved(h, k, n)
      /\ UNCHANGED <<edition, policy, supply, allowance, eligible, grants, approved, spent>>
  BY DEF transfer
<1>2. n \in Nat
  BY RwaAssumption
<1>3. balance' \in [Holders -> Nat] /\ SupplyConserved'
  BY <1>1, <1>2, MovedKeeps
<1>4. RwaTyped'
  BY <1>1, <1>3, RoomShrinks DEF RwaInv, RwaTyped
<1>5. AllowanceInv'
  BY <1>1, OtherAllowances DEF RwaInv, AllowanceInv
<1>6. EligibleByOwnProof'
  BY <1>1 DEF RwaInv, EligibleByOwnProof
<1> QED  BY <1>3, <1>4, <1>5, <1>6 DEF RwaInv

LEMMA TransferFromStep ==
    ASSUME RwaInv, NEW s \in Holders, NEW h \in Holders, NEW k \in Holders, NEW n \in 0..MaxUint,
           transferFrom(s, h, k, n)
    PROVE  RwaInv'
<1> DEFINE q == <<h, s>>
<1>1. /\ called /\ canMove(h, k, n) /\ balance' = moved(h, k, n) /\ allowance[q] >= n
      /\ allowance' = [allowance EXCEPT ![q] = reduced(@, n)]
      /\ spent' = [spent EXCEPT ![q] = @ + n]
      /\ UNCHANGED <<edition, policy, supply, eligible, grants, approved>>
  BY DEF transferFrom
<1>2. q \in Pairs /\ n \in Nat /\ n <= MaxUint /\ MaxUint \in Nat
  BY RwaAssumption DEF Pairs
<1> HIDE DEF q
<1>3. balance' \in [Holders -> Nat] /\ SupplyConserved'
  BY <1>1, <1>2, MovedKeeps
<1>4. Room \in Nat /\ Room' \in Nat /\ Room' + MaxUint = Room
  BY <1>1, RoomShrinks DEF RwaInv
<1>5. /\ allowance[q] \in 0..MaxUint /\ reduced(allowance[q], n) \in 0..MaxUint
      /\ allowance[q] = MaxUint => reduced(allowance[q], n) = MaxUint
      /\ allowance[q] # MaxUint => reduced(allowance[q], n) = allowance[q] - n /\ reduced(allowance[q], n) # MaxUint
  BY <1>1, <1>2 DEF RwaInv, RwaTyped, reduced
<1>6. RwaTyped'
  BY <1>1, <1>2, <1>3, <1>5, RoomShrinks DEF RwaInv, RwaTyped
<1>7. AllowanceInv'
  <2> SUFFICES ASSUME NEW p \in Pairs
               PROVE  spent'[p] + (IF allowance'[p] = MaxUint THEN Room' ELSE allowance'[p]) <= approved'[p]
    BY DEF AllowanceInv
  <2>1. spent[p] + (IF allowance[p] = MaxUint THEN Room ELSE allowance[p]) <= approved[p]
    BY DEF RwaInv, AllowanceInv
  <2>2. spent[p] \in Nat /\ allowance[p] \in Nat /\ approved[p] \in Nat
    BY <1>2 DEF RwaInv, RwaTyped
  <2>3. CASE p = q
    <3>1. allowance'[p] = reduced(allowance[q], n) /\ approved'[p] = approved[p] /\ spent'[p] = spent[p] + n
      BY <1>1, <2>3 DEF RwaInv, RwaTyped
    <3>2. CASE allowance[p] = MaxUint
      <4>1. allowance'[p] = MaxUint
        BY <1>5, <2>3, <3>1, <3>2
      <4>2. spent[p] + Room <= approved[p]
        BY <2>1, <3>2
      <4>3. spent'[p] + Room' <= approved'[p]
        <5>1. \A u, r, t, m, v, a \in Nat : u + r <= a /\ t + m = r /\ v <= m => u + v + t <= a
          OBVIOUS
        <5> QED  BY <1>2, <1>4, <2>2, <3>1, <4>2, <5>1
      <4> QED  BY <4>1, <4>3
    <3>3. CASE allowance[p] # MaxUint
      BY <1>2, <1>4, <1>5, <2>1, <2>2, <2>3, <3>1, <3>3
    <3> QED  BY <3>2, <3>3
  <2>4. CASE p # q
    <3>1. allowance'[p] = allowance[p] /\ approved'[p] = approved[p] /\ spent'[p] = spent[p]
      BY <1>1, <2>4 DEF RwaInv, RwaTyped
    <3> QED  BY <1>1, <2>1, <3>1, OtherAllowances DEF RwaInv
  <2> QED  BY <2>3, <2>4
<1>8. EligibleByOwnProof'
  BY <1>1 DEF RwaInv, EligibleByOwnProof
<1> QED  BY <1>3, <1>6, <1>7, <1>8 DEF RwaInv

LEMMA SetConfigStep ==
    ASSUME RwaInv, setConfig
    PROVE  RwaInv'
<1>1. /\ called
      /\ UNCHANGED <<edition, supply, balance, allowance, eligible, grants, approved, spent>>
  BY DEF setConfig
<1>2. RwaTyped'
  BY <1>1, RoomShrinks DEF RwaInv, RwaTyped
<1>3. AllowanceInv'
  BY <1>1, OtherAllowances DEF RwaInv, AllowanceInv
<1>4. SupplyConserved' /\ EligibleByOwnProof'
  BY <1>1 DEF RwaInv, SupplyConserved, EligibleByOwnProof
<1> QED  BY <1>2, <1>3, <1>4 DEF RwaInv

\* All balances are zero, and so is their sum.
LEMMA RwaInitInv == RwaInit => RwaInv
<1> SUFFICES ASSUME RwaInit PROVE RwaInv
  OBVIOUS
<1>1. RwaTyped
  BY RwaAssumption DEF RwaInit, RwaTyped
<1>2. AllowanceInv
  BY RwaAssumption DEF RwaInit, AllowanceInv
<1>3. SupplyConserved
  <2> DEFINE G == {T \in SUBSET Holders : SumFunctionOnSet(balance, T) = 0}
  <2>1. ASSUME NEW T \in SUBSET Holders, \A U \in SUBSET T : U # T => U \in G
        PROVE  T \in G
    <3>1. CASE T = {}
      BY <3>1, SumEmpty
    <3>2. CASE T # {}
      <4>1. PICK x \in Holders : x \in T
        BY <3>2
      <4>2. SumFunctionOnSet(balance, T \ {x}) = 0
        BY <2>1, <4>1
      <4>3. IsFiniteSet(T) /\ \A y \in T : balance[y] \in Int
        BY FS_Subset, RwaAssumption DEF RwaInit
      <4>4. SumFunctionOnSet(balance, T) = balance[x] + SumFunctionOnSet(balance, T \ {x})
        BY <4>1, <4>3, SumRemove
      <4>5. balance[x] = 0
        BY DEF RwaInit
      <4> QED  BY <4>2, <4>4, <4>5
    <3> QED  BY <3>1, <3>2
  <2>2. Holders \in G
    <3> HIDE DEF G
    <3> QED  BY <2>1, SubsetInduction, RwaAssumption
  <2>3. SumFunction(balance) = 0
    BY <1>1, <2>2 DEF RwaTyped, SumFunction
  <2> QED  BY <2>3 DEF RwaInit, SupplyConserved
<1>4. EligibleByOwnProof
  BY DEF RwaInit, EligibleByOwnProof
<1> QED  BY <1>1, <1>2, <1>3, <1>4 DEF RwaInv

\* Both editions of the contract, for every set of holders and every word
\* size: transfers conserve the supply, tokens stay with eligible holders,
\* eligibility of the second edition is by the holder's own proof, and what a
\* spender moves was approved for it.
THEOREM TokensAreSafe == RwaInit /\ [][RwaNext]_rwaVars => []RwaTokenSafe
<1>1. RwaInv /\ [RwaNext]_rwaVars => RwaInv'
  <2> SUFFICES ASSUME RwaInv, [RwaNext]_rwaVars PROVE RwaInv'
    OBVIOUS
  <2>1. CASE RwaNext
    <3>1. CASE setConfig
      BY <3>1, SetConfigStep
    <3>2. CASE \E h \in Holders : register(h)
      BY <3>2, RegisterStep
    <3>3. CASE \E h \in Holders, n \in Amounts : mint(h, n)
      BY <3>3, MintTokensStep DEF Amounts
    <3>4. CASE \E h, k \in Holders, n \in Amounts : transfer(h, k, n) \/ approve(h, k, n)
      <4>1. PICK h \in Holders, k \in Holders, n \in 0..MaxUint : transfer(h, k, n) \/ approve(h, k, n)
        BY <3>4 DEF Amounts
      <4> QED  BY <4>1, TokenTransferStep, ApproveStep
    <3>5. CASE \E s, h, k \in Holders, n \in Amounts : transferFrom(s, h, k, n)
      <4>1. PICK s \in Holders, h \in Holders, k \in Holders, n \in 0..MaxUint : transferFrom(s, h, k, n)
        BY <3>5 DEF Amounts
      <4> QED  BY <4>1, TransferFromStep
    <3> QED  BY <2>1, <3>1, <3>2, <3>3, <3>4, <3>5 DEF RwaNext
  <2>2. CASE UNCHANGED rwaVars
    BY <2>2 DEF rwaVars, RwaInv, RwaTyped, AllowanceInv, Room, SupplyConserved, EligibleByOwnProof
  <2> QED  BY <2>1, <2>2
<1>2. RwaInv => RwaTokenSafe
  <2> SUFFICES ASSUME RwaInv PROVE SpentWithinApproved
    BY DEF RwaInv, RwaTokenSafe
  <2>1. MaxCalls - calls \in Nat /\ MaxUint \in Nat
    BY RwaAssumption DEF RwaInv, RwaTyped
  <2>2. Room \in Nat
    <3>1. \A x, y \in Nat : x * y \in Nat
      OBVIOUS
    <3> QED  BY <2>1, <3>1 DEF Room
  <2>3. ASSUME NEW p \in Pairs PROVE spent[p] <= approved[p]
    <3>1. spent[p] \in Nat /\ allowance[p] \in Nat /\ approved[p] \in Nat
      BY <2>1 DEF RwaInv, RwaTyped
    <3> QED  BY <2>2, <3>1 DEF RwaInv, AllowanceInv
  <2> QED  BY <2>3 DEF SpentWithinApproved
<1> QED  BY <1>1, <1>2, RwaInitInv, PTL

-----------------------------------------------------------------------------
(* Status lists.                                                           *)

\* Bit p of the stream of bits a list is packed into, and the value of entry i
\* as the sum of its weighted bits.
BitAt(l, p) == l.data[p \div 8][7 - (p % 8)]
weighted(l, i) == [b \in 0..(l.bits - 1) |-> BitAt(l, i * l.bits + b) * 2 ^ (l.bits - 1 - b)]

Bytes(w) == [0..(byteLen(w, Entries) - 1) -> [0..7 -> {0, 1}]]

IsList(l) ==
    /\ l = [bits |-> l.bits, entries |-> l.entries, notAfter |-> l.notAfter, data |-> l.data]
    /\ l.bits \in {1, 2, 4, 8} /\ l.entries = Entries /\ l.notAfter \in Nat
    /\ l.data \in Bytes(l.bits)

LEMMA GetIsSum ==
    ASSUME NEW l, NEW i
    PROVE  Get(l, i) = SumFunctionOnSet(weighted(l, i), 0..(l.bits - 1))
<1>1. Get(l, i) = SumFunction(weighted(l, i)) /\ DOMAIN weighted(l, i) = 0..(l.bits - 1)
  BY DEF Get, weighted, BitAt
<1> QED  BY <1>1 DEF SumFunction

\* The last term of a sum over an interval.
LEMMA SumTop ==
    ASSUME NEW n \in Nat, NEW f, \A x \in 0..n : f[x] \in Int
    PROVE  SumFunctionOnSet(f, 0..n) = SumFunctionOnSet(f, 0..(n - 1)) + f[n]
<1>1. 0..n = (0..(n - 1)) \union {n} /\ n \notin 0..(n - 1)
  OBVIOUS
<1>2. IsFiniteSet(0..(n - 1))
  BY FS_Interval
<1> QED  BY <1>1, <1>2, SumAdd

\* Sums over the widths a list may have.
LEMMA SumOfOne ==
    ASSUME NEW f, f[0] \in Int
    PROVE  SumFunctionOnSet(f, 0..0) = f[0]
<1>1. \A x \in 0..0 : f[x] \in Int
  OBVIOUS
<1>2. SumFunctionOnSet(f, 0..0) = SumFunctionOnSet(f, 0..(0 - 1)) + f[0]
  BY <1>1, SumTop
<1>3. 0..(0 - 1) = {}
  OBVIOUS
<1>4. SumFunctionOnSet(f, 0..(0 - 1)) = 0
  BY <1>3, SumEmpty
<1> QED  BY <1>2, <1>4

LEMMA SumOfTwo ==
    ASSUME NEW f, \A x \in 0..1 : f[x] \in Int
    PROVE  SumFunctionOnSet(f, 0..1) = f[0] + f[1]
<1>1. SumFunctionOnSet(f, 0..1) = SumFunctionOnSet(f, 0..(1 - 1)) + f[1]
  BY SumTop
<1>2. 1 - 1 = 0 /\ f[0] \in Int
  OBVIOUS
<1>3. SumFunctionOnSet(f, 0..0) = f[0]
  BY <1>2, SumOfOne
<1> QED  BY <1>1, <1>2, <1>3

LEMMA SumOfFour ==
    ASSUME NEW f, \A x \in 0..3 : f[x] \in Int
    PROVE  SumFunctionOnSet(f, 0..3) = f[0] + f[1] + f[2] + f[3]
<1>1. SumFunctionOnSet(f, 0..3) = SumFunctionOnSet(f, 0..(3 - 1)) + f[3]
  BY SumTop
<1>2. \A x \in 0..2 : f[x] \in Int
  OBVIOUS
<1>3. SumFunctionOnSet(f, 0..2) = SumFunctionOnSet(f, 0..(2 - 1)) + f[2]
  BY <1>2, SumTop
<1>4. \A x \in 0..1 : f[x] \in Int
  OBVIOUS
<1>5. SumFunctionOnSet(f, 0..1) = f[0] + f[1]
  BY <1>4, SumOfTwo
<1>6. 3 - 1 = 2 /\ 2 - 1 = 1
  OBVIOUS
<1> QED  BY <1>1, <1>3, <1>5, <1>6

LEMMA SumOfEight ==
    ASSUME NEW f, \A x \in 0..7 : f[x] \in Int
    PROVE  SumFunctionOnSet(f, 0..7) = f[0] + f[1] + f[2] + f[3] + f[4] + f[5] + f[6] + f[7]
<1>1. /\ \A x \in 0..6 : f[x] \in Int
      /\ \A x \in 0..5 : f[x] \in Int
      /\ \A x \in 0..4 : f[x] \in Int
      /\ \A x \in 0..3 : f[x] \in Int
  OBVIOUS
<1>2. 7 - 1 = 6 /\ 6 - 1 = 5 /\ 5 - 1 = 4 /\ 4 - 1 = 3
  OBVIOUS
<1>3. SumFunctionOnSet(f, 0..7) = SumFunctionOnSet(f, 0..(7 - 1)) + f[7]
  BY SumTop
<1>4. SumFunctionOnSet(f, 0..6) = SumFunctionOnSet(f, 0..(6 - 1)) + f[6]
  BY <1>1, SumTop
<1>5. SumFunctionOnSet(f, 0..5) = SumFunctionOnSet(f, 0..(5 - 1)) + f[5]
  BY <1>1, SumTop
<1>6. SumFunctionOnSet(f, 0..4) = SumFunctionOnSet(f, 0..(4 - 1)) + f[4]
  BY <1>1, SumTop
<1>7. SumFunctionOnSet(f, 0..3) = f[0] + f[1] + f[2] + f[3]
  BY <1>1, SumOfFour
<1> QED  BY <1>2, <1>3, <1>4, <1>5, <1>6, <1>7

\* The bits of an entry are in the bytes of the list.
LEMMA EntryInBytes ==
    ASSUME NEW w \in {1, 2, 4, 8}, NEW i \in Slots, NEW b \in 0..(w - 1)
    PROVE  /\ i * w + b \in Nat
           /\ (i * w + b) \div 8 \in 0..(byteLen(w, Entries) - 1)
           /\ (i * w + b) % 8 \in 0..7 /\ 7 - ((i * w + b) % 8) \in 0..7
           /\ 8 * ((i * w + b) \div 8) + (7 - (7 - ((i * w + b) % 8))) = i * w + b
<1>1. i \in Nat /\ i < Entries /\ Entries \in Nat
  BY StatusAssumption DEF Slots
<1>2. CASE w = 1  BY <1>1, <1>2 DEF byteLen
<1>3. CASE w = 2  BY <1>1, <1>3 DEF byteLen
<1>4. CASE w = 4  BY <1>1, <1>4 DEF byteLen
<1>5. CASE w = 8  BY <1>1, <1>5 DEF byteLen
<1> QED  BY <1>2, <1>3, <1>4, <1>5

LEMMA BitIsBit ==
    ASSUME NEW l, IsList(l), NEW i \in Slots, NEW b \in 0..(l.bits - 1)
    PROVE  BitAt(l, i * l.bits + b) \in {0, 1}
<1>1. PICK w \in {1, 2, 4, 8} : w = l.bits
  BY DEF IsList
<1>2. /\ (i * w + b) \div 8 \in 0..(byteLen(w, Entries) - 1)
      /\ 7 - ((i * w + b) % 8) \in 0..7
  BY <1>1, EntryInBytes
<1>3. \A k \in 0..(byteLen(w, Entries) - 1), j \in 0..7 : l.data[k][j] \in {0, 1}
  BY <1>1 DEF IsList, Bytes
<1>4. l.data[(i * w + b) \div 8][7 - ((i * w + b) % 8)] \in {0, 1}
  BY <1>2, <1>3
<1> QED  BY <1>1, <1>4 DEF BitAt

\* The bits of the three statuses.
LEMMA StatusBits ==
    ASSUME NEW s \in 0..2, NEW e \in 0..7
    PROVE  (s \div 2 ^ e) % 2 = IF s = e + 1 THEN 1 ELSE 0
<1>1. CASE e = 0  BY <1>1
<1>2. CASE e = 1  BY <1>2
<1>3. CASE e = 2  BY <1>3
<1>4. CASE e = 3  BY <1>4
<1>5. CASE e = 4  BY <1>5
<1>6. CASE e = 5  BY <1>6
<1>7. CASE e = 6  BY <1>7
<1>8. CASE e = 7  BY <1>8
<1> QED  BY <1>1, <1>2, <1>3, <1>4, <1>5, <1>6, <1>7, <1>8

\* What Set leaves is a list of the same width.
LEMMA SetIsList ==
    ASSUME NEW l, IsList(l), NEW i \in Slots, NEW s \in 0..2
    PROVE  /\ IsList(Set(l, i, s)) /\ Set(l, i, s).bits = l.bits
           /\ Set(l, i, s).notAfter = l.notAfter
<1>1. PICK w \in {1, 2, 4, 8} : w = l.bits
  BY DEF IsList
<1> DEFINE d == [k \in DOMAIN l.data |-> [j \in 0..7 |->
                   IF 8 * k + (7 - j) \in (i * l.bits)..(i * l.bits + l.bits - 1)
                   THEN valueBit(l, i, s, 8 * k + (7 - j)) ELSE l.data[k][j]]]
<1>2. Set(l, i, s) = [l EXCEPT !.data = d]
  BY DEF Set
<1>3. DOMAIN l.data = 0..(byteLen(w, Entries) - 1) /\ i \in Nat
  BY <1>1, StatusAssumption DEF IsList, Bytes, Slots
<1>4. ASSUME NEW k \in 0..(byteLen(w, Entries) - 1), NEW j \in 0..7
      PROVE  d[k][j] \in {0, 1}
  <2>1. l.data[k][j] \in {0, 1}
    BY <1>1 DEF IsList, Bytes
  <2>2. ASSUME 8 * k + (7 - j) \in (i * l.bits)..(i * l.bits + l.bits - 1)
        PROVE  valueBit(l, i, s, 8 * k + (7 - j)) \in {0, 1}
    <3>1. PICK m, e : m = i * w /\ e = w - 1 - (8 * k + (7 - j) - m)
      OBVIOUS
    <3>2. m \in Int
      BY <1>3, <3>1
    <3>3. e \in 0..7
      BY <1>1, <2>2, <3>1, <3>2
    <3>4. valueBit(l, i, s, 8 * k + (7 - j)) = (s \div 2 ^ e) % 2
      BY <1>1, <3>1 DEF valueBit
    <3> QED  BY <3>3, <3>4, StatusBits
  <2> QED  BY <1>1, <1>3, <2>1, <2>2
<1>5. d \in Bytes(w)
  BY <1>3, <1>4 DEF Bytes
<1> HIDE DEF d
<1> QED  BY <1>1, <1>2, <1>5 DEF IsList

\* Entries of the same width do not share bits.
LEMMA EntriesApart ==
    ASSUME NEW w \in {1, 2, 4, 8}, NEW i \in Nat, NEW j \in Nat, NEW b \in 0..(w - 1)
    PROVE  (j * w + b \in (i * w)..(i * w + w - 1)) <=> j = i
<1>1. CASE w = 1  BY <1>1
<1>2. CASE w = 2  BY <1>2
<1>3. CASE w = 4  BY <1>3
<1>4. CASE w = 8  BY <1>4
<1> QED  BY <1>1, <1>2, <1>3, <1>4

\* Set writes the bits of its entry and no other.
LEMMA SetBit ==
    ASSUME NEW l, IsList(l), NEW i \in Slots, NEW s \in 0..2, NEW j \in Slots, NEW b \in 0..(l.bits - 1)
    PROVE  BitAt(Set(l, i, s), j * l.bits + b) =
             IF j = i THEN IF s = l.bits - b THEN 1 ELSE 0 ELSE BitAt(l, j * l.bits + b)
<1>1. PICK w \in {1, 2, 4, 8} : w = l.bits
  BY DEF IsList
<1>2. i \in Nat /\ j \in Nat
  BY StatusAssumption DEF Slots
<1>3. PICK p, k, m : p = j * w + b /\ k = (j * w + b) \div 8 /\ m = 7 - ((j * w + b) % 8)
  OBVIOUS
<1>4. /\ k \in 0..(byteLen(w, Entries) - 1) /\ m \in 0..7 /\ 8 * k + (7 - m) = p
  BY <1>1, <1>3, EntryInBytes
<1>5. k \in DOMAIN l.data
  BY <1>1, <1>4 DEF IsList, Bytes
<1>6. Set(l, i, s).data[k][m] = IF 8 * k + (7 - m) \in (i * l.bits)..(i * l.bits + l.bits - 1)
                                THEN valueBit(l, i, s, 8 * k + (7 - m)) ELSE l.data[k][m]
  <2> DEFINE d == [x \in DOMAIN l.data |-> [y \in 0..7 |->
                     IF 8 * x + (7 - y) \in (i * l.bits)..(i * l.bits + l.bits - 1)
                     THEN valueBit(l, i, s, 8 * x + (7 - y)) ELSE l.data[x][y]]]
  <2>1. Set(l, i, s) = [l EXCEPT !.data = d]
    BY DEF Set
  <2>2. Set(l, i, s).data = d
    <3> HIDE DEF d
    <3> QED  BY <2>1 DEF IsList
  <2> QED  BY <1>4, <1>5, <2>2
<1>7. (p \in (i * w)..(i * w + w - 1)) <=> j = i
  BY <1>1, <1>2, <1>3, EntriesApart
<1>8. BitAt(Set(l, i, s), p) = Set(l, i, s).data[k][m] /\ BitAt(l, p) = l.data[k][m]
  BY <1>3 DEF BitAt
<1>9. CASE j # i
  BY <1>1, <1>3, <1>4, <1>6, <1>7, <1>8, <1>9
<1>10. CASE j = i
  <2>1. BitAt(Set(l, i, s), p) = valueBit(l, i, s, p)
    BY <1>1, <1>4, <1>6, <1>7, <1>8, <1>10
  <2>2. PICK q, e : q = i * w /\ e = w - 1 - b
    OBVIOUS
  <2>3. q \in Int /\ p = q + b /\ e \in 0..7 /\ w - 1 - (p - q) = e
    <3>1. q \in Int /\ w \in Int
      BY <1>2, <2>2
    <3>2. p = q + b
      BY <1>3, <1>10, <2>2
    <3>3. b \in Int /\ e \in 0..7 /\ e = w - 1 - b
      BY <1>1, <2>2
    <3> QED  BY <3>1, <3>2, <3>3
  <2>4. valueBit(l, i, s, p) = (s \div 2 ^ e) % 2
    BY <1>1, <2>2, <2>3 DEF valueBit
  <2>5. valueBit(l, i, s, p) = IF s = e + 1 THEN 1 ELSE 0
    BY <2>3, <2>4, StatusBits
  <2> QED  BY <1>1, <1>3, <1>10, <2>1, <2>2, <2>5
<1> QED  BY <1>9, <1>10

\* The entries that Set is not about read as before, also those in its byte.
LEMMA GetOther ==
    ASSUME NEW l, IsList(l), NEW i \in Slots, NEW s \in 0..2, NEW j \in Slots, j # i
    PROVE  Get(Set(l, i, s), j) = Get(l, j)
<1>1. Set(l, i, s).bits = l.bits
  BY SetIsList
<1>2. weighted(Set(l, i, s), j) = weighted(l, j)
  <2>1. \A b \in 0..(l.bits - 1) : BitAt(Set(l, i, s), j * l.bits + b) = BitAt(l, j * l.bits + b)
    BY SetBit
  <2> QED  BY <1>1, <2>1 DEF weighted
<1> QED  BY <1>1, <1>2, GetIsSum

\* An entry by its bits, at each width.
LEMMA GetBits ==
    ASSUME NEW l, IsList(l), NEW i \in Slots, NEW s \in 0..2, s < 2 ^ l.bits,
           \A b \in 0..(l.bits - 1) :
               BitAt(l, i * l.bits + b) = IF s = l.bits - b THEN 1 ELSE 0
    PROVE  Get(l, i) = s
<1>1. PICK f : f = weighted(l, i)
  OBVIOUS
<1>2. Get(l, i) = SumFunctionOnSet(f, 0..(l.bits - 1))
  BY <1>1, GetIsSum
<1>3. \A b \in 0..(l.bits - 1) : f[b] = (IF s = l.bits - b THEN 1 ELSE 0) * 2 ^ (l.bits - 1 - b)
  BY <1>1 DEF weighted
<1>4. CASE l.bits = 1
  <2>1. f[0] = (IF s = 1 THEN 1 ELSE 0) * 2 ^ 0 /\ s < 2 ^ 1
    BY <1>3, <1>4
  <2>2. f[0] = s
    BY <2>1
  <2>3. SumFunctionOnSet(f, 0..0) = f[0]
    BY <2>2, SumOfOne
  <2> QED  BY <1>2, <1>4, <2>2, <2>3
<1>5. CASE l.bits = 2
  <2>1. f[0] = (IF s = 2 THEN 1 ELSE 0) * 2 ^ 1 /\ f[1] = (IF s = 1 THEN 1 ELSE 0) * 2 ^ 0
    BY <1>3, <1>5
  <2>2. f[0] = (IF s = 2 THEN 2 ELSE 0) /\ f[1] = (IF s = 1 THEN 1 ELSE 0)
    BY <2>1
  <2>3. \A x \in 0..1 : f[x] \in Int
    BY <2>2
  <2>4. SumFunctionOnSet(f, 0..1) = f[0] + f[1]
    BY <2>3, SumOfTwo
  <2> QED  BY <1>2, <1>5, <2>2, <2>4
<1>6. ASSUME NEW w \in {4, 8}, l.bits = w
      PROVE  /\ \A x \in 0..(w - 3) : f[x] = 0
             /\ f[w - 2] = (IF s = 2 THEN 2 ELSE 0) /\ f[w - 1] = (IF s = 1 THEN 1 ELSE 0)
  <2>1. ASSUME NEW x \in 0..(w - 3) PROVE f[x] = 0
    <3>1. f[x] = 0 * 2 ^ (w - 1 - x)
      BY <1>3, <1>6
    <3>2. CASE w = 4
      <4>1. CASE x = 0  BY <3>1, <3>2, <4>1
      <4>2. CASE x = 1  BY <3>1, <3>2, <4>2
      <4> QED  BY <3>2, <4>1, <4>2
    <3>3. CASE w = 8
      <4>1. CASE x = 0  BY <3>1, <3>3, <4>1
      <4>2. CASE x = 1  BY <3>1, <3>3, <4>2
      <4>3. CASE x = 2  BY <3>1, <3>3, <4>3
      <4>4. CASE x = 3  BY <3>1, <3>3, <4>4
      <4>5. CASE x = 4  BY <3>1, <3>3, <4>5
      <4>6. CASE x = 5  BY <3>1, <3>3, <4>6
      <4> QED  BY <3>3, <4>1, <4>2, <4>3, <4>4, <4>5, <4>6
    <3> QED  BY <3>2, <3>3
  <2>2. /\ w - 2 \in 0..(w - 1) /\ w - (w - 2) = 2 /\ w - 1 - (w - 2) = 1
        /\ w - 1 \in 0..(w - 1) /\ w - (w - 1) = 1 /\ w - 1 - (w - 1) = 0
    OBVIOUS
  <2>3. /\ f[w - 2] = (IF s = w - (w - 2) THEN 1 ELSE 0) * 2 ^ (w - 1 - (w - 2))
        /\ f[w - 1] = (IF s = w - (w - 1) THEN 1 ELSE 0) * 2 ^ (w - 1 - (w - 1))
    BY <1>3, <1>6, <2>2
  <2>4. f[w - 2] = (IF s = 2 THEN 1 ELSE 0) * 2 ^ 1 /\ f[w - 1] = (IF s = 1 THEN 1 ELSE 0) * 2 ^ 0
    BY <2>2, <2>3
  <2> QED  BY <2>1, <2>4
<1>7. CASE l.bits = 4
  <2>1. f[0] = 0 /\ f[1] = 0 /\ f[2] = (IF s = 2 THEN 2 ELSE 0) /\ f[3] = (IF s = 1 THEN 1 ELSE 0)
    BY <1>6, <1>7
  <2>2. \A x \in 0..3 : f[x] \in Int
    BY <2>1
  <2>3. SumFunctionOnSet(f, 0..3) = f[0] + f[1] + f[2] + f[3]
    BY <2>2, SumOfFour
  <2> QED  BY <1>2, <1>7, <2>1, <2>3
<1>8. CASE l.bits = 8
  <2>1. /\ f[0] = 0 /\ f[1] = 0 /\ f[2] = 0 /\ f[3] = 0 /\ f[4] = 0 /\ f[5] = 0
        /\ f[6] = (IF s = 2 THEN 2 ELSE 0) /\ f[7] = (IF s = 1 THEN 1 ELSE 0)
    BY <1>6, <1>8
  <2>2. \A x \in 0..7 : f[x] \in Int
    BY <2>1
  <2>3. SumFunctionOnSet(f, 0..7) = f[0] + f[1] + f[2] + f[3] + f[4] + f[5] + f[6] + f[7]
    BY <2>2, SumOfEight
  <2> QED  BY <1>2, <1>8, <2>1, <2>3
<1> QED  BY <1>4, <1>5, <1>7, <1>8 DEF IsList

\* What the issuer has, apart from the tokens it signed.
IssuerInv ==
    /\ IsList(list) /\ listClock \in Nat
    /\ status \in [Slots -> 0..2] /\ revokedAt \in [Slots -> Int]
    /\ \A i \in Slots : revokedAt[i] = -1 <=> status[i] = StatusValid
    /\ \A i \in Slots : revokedAt[i] # -1 => revokedAt[i] \in 0..listClock
    /\ PackingExact

\* A token that shows as valid an entry that has since been revoked was signed
\* before, so it expires within a lifetime of the revocation.
TokenInv(t) ==
    /\ IsList(t) /\ t.notAfter <= listClock + ListTTL
    /\ \A i \in Slots : revokedAt[i] # -1 =>
          t.notAfter <= revokedAt[i] + ListTTL \/ Get(t, i) # StatusValid

ListInv ==
    /\ IssuerInv
    /\ \A t \in snapshots : TokenInv(t)
    /\ resolver = NoList \/ resolver \in snapshots

\* Only the width and the bytes matter to Get.
LEMMA GetSame ==
    ASSUME NEW l, NEW m, l.bits = m.bits, l.data = m.data, NEW i
    PROVE  Get(l, i) = Get(m, i)
  BY DEF Get

LEMMA ListInitInv == ListInit => ListInv
<1> SUFFICES ASSUME ListInit PROVE ListInv
  OBVIOUS
<1>1. PICK w \in {1, 2, 4, 8} : list = NewList(w, Entries)
  BY StatusAssumption DEF ListInit
<1>2. /\ list.bits = w /\ list.entries = Entries /\ list.notAfter = 0
      /\ list.data = [k \in 0..(byteLen(w, Entries) - 1) |-> [j \in 0..7 |-> 0]]
  BY <1>1 DEF NewList
<1>3. IsList(list)
  <2>1. list.data \in Bytes(w)
    BY <1>2 DEF Bytes
  <2>2. list = [bits |-> list.bits, entries |-> list.entries, notAfter |-> list.notAfter, data |-> list.data]
    BY <1>1, <1>2 DEF NewList
  <2> QED  BY <1>2, <2>1, <2>2 DEF IsList
<1>4. ASSUME NEW i \in Slots PROVE Get(list, i) = 0
  <2>1. ASSUME NEW b \in 0..(list.bits - 1) PROVE BitAt(list, i * list.bits + b) = 0
    <3>1. (i * w + b) \div 8 \in 0..(byteLen(w, Entries) - 1) /\ 7 - ((i * w + b) % 8) \in 0..7
      <4>1. b \in 0..(w - 1)
        BY <1>2
      <4> QED  BY <4>1, EntryInBytes
    <3>2. \A k \in 0..(byteLen(w, Entries) - 1), j \in 0..7 : list.data[k][j] = 0
      BY <1>2
    <3> QED  BY <1>2, <3>1, <3>2 DEF BitAt
  <2>2. 0 < 2 ^ list.bits
    <3>1. CASE w = 1  BY <1>2, <3>1
    <3>2. CASE w = 2  BY <1>2, <3>2
    <3>3. CASE w = 4  BY <1>2, <3>3
    <3>4. CASE w = 8  BY <1>2, <3>4
    <3> QED  BY <3>1, <3>2, <3>3, <3>4
  <2>3. \A b \in 0..(list.bits - 1) : BitAt(list, i * list.bits + b) = IF 0 = list.bits - b THEN 1 ELSE 0
    BY <1>2, <2>1
  <2> QED  BY <1>3, <2>2, <2>3, GetBits
<1>5. IssuerInv
  BY <1>3, <1>4 DEF ListInit, IssuerInv, PackingExact, StatusValid
<1> QED  BY <1>5 DEF ListInit, ListInv

LEMMA SetStatusStep ==
    ASSUME ListInv, NEW i \in Slots, NEW s \in 0..2, SetStatus(i, s)
    PROVE  ListInv'
<1>1. /\ s < 2 ^ list.bits /\ list' = Set(list, i, s)
      /\ status' = [status EXCEPT ![i] = s]
      /\ revokedAt' = [revokedAt EXCEPT ![i] = IF s = StatusValid THEN -1
                                               ELSE IF @ = -1 THEN listClock ELSE @]
      /\ UNCHANGED <<listClock, snapshots, resolver>>
  BY DEF SetStatus
<1>2. IssuerInv
  BY DEF ListInv
<1>3. IsList(list) /\ listClock \in Nat /\ status \in [Slots -> 0..2] /\ revokedAt \in [Slots -> Int]
  BY <1>2 DEF IssuerInv
<1>4. PICK m : m = Set(list, i, s)
  OBVIOUS
<1>5. IsList(m) /\ m.bits = list.bits
  BY <1>3, <1>4, SetIsList
<1>6. Get(m, i) = s
  <2>1. \A b \in 0..(list.bits - 1) : BitAt(m, i * list.bits + b) = IF s = list.bits - b THEN 1 ELSE 0
    BY <1>3, <1>4, SetBit
  <2> QED  BY <1>1, <1>5, <2>1, GetBits
<1>7. \A j \in Slots : j # i => Get(m, j) = Get(list, j)
  BY <1>3, <1>4, GetOther
<1>8. \A j \in Slots : Get(m, j) = status'[j]
  BY <1>1, <1>2, <1>3, <1>6, <1>7 DEF IssuerInv, PackingExact
<1>9. IsList(list') /\ PackingExact'
  <2>1. list' = m
    BY <1>1, <1>4
  <2> QED  BY <1>5, <1>8, <2>1 DEF PackingExact
<1>10. /\ status' \in [Slots -> 0..2] /\ revokedAt' \in [Slots -> Int]
       /\ \A j \in Slots : revokedAt'[j] = -1 <=> status'[j] = StatusValid
       /\ \A j \in Slots : revokedAt'[j] # -1 => revokedAt'[j] \in 0..listClock
  BY <1>1, <1>2, <1>3 DEF IssuerInv, StatusValid
<1>11. IssuerInv'
  BY <1>1, <1>3, <1>9, <1>10 DEF IssuerInv
<1>12. ASSUME NEW t \in snapshots PROVE TokenInv(t)'
  <2>1. TokenInv(t)
    BY DEF ListInv
  <2>2. ASSUME NEW j \in Slots, revokedAt'[j] # -1
        PROVE  t.notAfter <= revokedAt'[j] + ListTTL \/ Get(t, j) # StatusValid
    <3>1. revokedAt'[j] = revokedAt[j] \/ revokedAt'[j] = listClock
      BY <1>1, <1>3, <2>2
    <3> QED  BY <2>1, <2>2, <3>1 DEF TokenInv
  <2> QED  BY <1>1, <2>1, <2>2 DEF TokenInv
<1> QED  BY <1>1, <1>11, <1>12 DEF ListInv

LEMMA SignTokenStep ==
    ASSUME ListInv, SignToken
    PROVE  ListInv'
<1>1. PICK m : /\ m = [list EXCEPT !.notAfter = listClock + ListTTL] /\ snapshots' = snapshots \union {m}
               /\ UNCHANGED <<list, status, revokedAt, listClock, resolver, sets>>
  BY DEF SignToken
<1>2. IsList(list) /\ listClock \in Nat /\ ListTTL \in Nat
  BY StatusAssumption DEF ListInv, IssuerInv
<1>3. /\ m.bits = list.bits /\ m.data = list.data /\ m.entries = list.entries
      /\ m.notAfter = listClock + ListTTL
      /\ m = [bits |-> m.bits, entries |-> m.entries, notAfter |-> m.notAfter, data |-> m.data]
  BY <1>1, <1>2 DEF IsList
<1>4. IsList(m)
  BY <1>2, <1>3 DEF IsList
<1>5. \A i \in Slots : revokedAt[i] # -1 => Get(m, i) # StatusValid
  BY <1>3, GetSame DEF ListInv, IssuerInv, PackingExact
<1>6. TokenInv(m)
  BY <1>2, <1>3, <1>4, <1>5 DEF TokenInv
<1>7. \A t : TokenInv(t) => TokenInv(t)'
  BY <1>1 DEF TokenInv
<1>8. IssuerInv'
  BY <1>1 DEF ListInv, IssuerInv, PackingExact
<1> QED  BY <1>1, <1>6, <1>7, <1>8 DEF ListInv

LEMMA ListTickStep ==
    ASSUME ListInv, ListTick
    PROVE  ListInv'
<1>1. /\ listClock' = listClock + 1 /\ listClock \in Nat /\ ListTTL \in Nat
      /\ UNCHANGED <<list, status, revokedAt, snapshots, resolver, sets>>
  BY StatusAssumption DEF ListTick, ListInv, IssuerInv
<1>2. ASSUME NEW t \in snapshots PROVE TokenInv(t)'
  <2>1. TokenInv(t) /\ t.notAfter \in Nat
    BY DEF ListInv, TokenInv, IsList
  <2>2. t.notAfter <= listClock' + ListTTL
    BY <1>1, <2>1 DEF TokenInv
  <2> QED  BY <1>1, <2>1, <2>2 DEF TokenInv
<1>3. IssuerInv'
  BY <1>1 DEF ListInv, IssuerInv, PackingExact
<1> QED  BY <1>1, <1>2, <1>3 DEF ListInv

\* A token declares its length, so that decoding it infers nothing.
LEMMA AddVerifiedStep ==
    ASSUME ListInv, NEW t \in snapshots, AddVerified(t)
    PROVE  ListInv'
<1>1. resolver' = Decode(t) /\ UNCHANGED <<list, status, revokedAt, listClock, snapshots, sets>>
  BY DEF AddVerified
<1>2. IsList(t) /\ Entries \in Nat \ {0}
  BY StatusAssumption DEF ListInv, TokenInv
<1>3. Decode(t) = t
  <2>1. t.entries = Entries /\ ~(t.entries <= 0)
    BY <1>2 DEF IsList
  <2>2. Decode(t) = [t EXCEPT !.entries = t.entries]
    BY <1>2, <2>1 DEF Decode, IsList
  <2> QED  BY <1>2, <2>2 DEF IsList
<1>4. IssuerInv' /\ \A u : TokenInv(u) => TokenInv(u)'
  BY <1>1 DEF ListInv, IssuerInv, PackingExact, TokenInv
<1> QED  BY <1>1, <1>3, <1>4 DEF ListInv

\* The status list, for every number of entries and each width: a status reads
\* back as it was set, and a revocation takes effect within the lifetime of a
\* token, in whichever order tokens reach the resolver.
THEOREM StatusListsAreSafe == ListInit /\ [][ListNext]_listVars => []StatusListSafe
<1>1. ListInv /\ [ListNext]_listVars => ListInv'
  <2> SUFFICES ASSUME ListInv, [ListNext]_listVars PROVE ListInv'
    OBVIOUS
  <2>1. CASE \E i \in Slots, s \in {StatusValid, StatusInvalid, StatusSuspended} : SetStatus(i, s)
    <3>1. PICK i \in Slots, s \in 0..2 : SetStatus(i, s)
      BY <2>1 DEF StatusValid, StatusInvalid, StatusSuspended
    <3> QED  BY <3>1, SetStatusStep
  <2>2. CASE SignToken
    BY <2>2, SignTokenStep
  <2>3. CASE ListTick
    BY <2>3, ListTickStep
  <2>4. CASE \E t \in snapshots : AddVerified(t)
    BY <2>4, AddVerifiedStep
  <2>5. CASE UNCHANGED listVars
    BY <2>5 DEF listVars, ListInv, IssuerInv, PackingExact, TokenInv
  <2> QED  BY <2>1, <2>2, <2>3, <2>4, <2>5 DEF ListNext
<1>2. ListInv => StatusListSafe
  <2> SUFFICES ASSUME ListInv, NEW i \in Slots, revokedAt[i] # -1, listClock >= revokedAt[i] + ListTTL,
                      Check(resolver, i, listClock)
               PROVE  FALSE
    BY DEF ListInv, IssuerInv, StatusListSafe, RevocationTakesEffect
  <2>1. resolver \in snapshots /\ listClock < resolver.notAfter /\ Get(resolver, i) = StatusValid
    BY DEF Check, ListInv
  <2>2. TokenInv(resolver)
    BY <2>1 DEF ListInv
  <2>3. /\ listClock \in Nat /\ revokedAt[i] \in Int /\ ListTTL \in Nat /\ resolver.notAfter \in Nat
    BY <2>2, StatusAssumption DEF ListInv, IssuerInv, TokenInv, IsList
  <2> QED  BY <2>1, <2>2, <2>3 DEF TokenInv
<1> QED  BY <1>1, <1>2, ListInitInv, PTL

=============================================================================
