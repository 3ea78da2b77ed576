----------------------------- MODULE Enforcement -----------------------------
(***************************************************************************)
(* The eight-step enforcement engine of internal/verifier/engine.go, run   *)
(* by one process for many concurrent presentations.                       *)
(*                                                                         *)
(* Each presentation is one call of Engine.Verify (role "gate") or         *)
(* Engine.VerifyForSettlement (role "settle").  The calls share the        *)
(* single-use record store (replayCache) and the trust registry, and read  *)
(* the clock at several points.  A step that reads shared state is an      *)
(* action, so the clock may move, a key may be revoked and another         *)
(* presentation may run between any two of them.                           *)
(*                                                                         *)
(* Tokens carry the claims that decide timing, identity and single use.    *)
(* The comparisons that depend only on the input (audience, hashes,        *)
(* anchors, depth, scope, context hash) are summarised by the field fault  *)
(* of the input: the first step whose pure comparison fails, 0 if none.    *)
(* Module Delegation models those comparisons.                             *)
(*                                                                         *)
(* Time is in whole seconds, the granularity of iat, exp and nbf.          *)
(***************************************************************************)
EXTENDS Integers, Sequences

CONSTANTS
    Requests,        \* presentations, one handler goroutine each
    Inputs,          \* what a presentation may carry (verifier.Input)
    SigKeys,         \* issuer signing keys in the trust registry
    Listed,          \* jtis of the tokens that carry a status claim
    Revoked,         \* jtis whose entry in the cached status list is not VALID
    ListNotAfter,    \* expiry of the cached status list
    ProofMaxAge,     \* dpop.DefaultMaxAge
    MaxFutureSkew,   \* dpop.MaxFutureSkew
    IatSkew,         \* iatSkew
    MaxZKLeafWindow, \* Engine.maxZKLeafWindow; 0 while ZK mode is not enabled
    MaxTime,         \* bound on the clock readings
    MaxClockSteps    \* bound on the wall-clock adjustments

Roles  == {"gate", "settle"}

\* A committed sub-band slice: the division root and the leg index
\* (sliceIdentity).  A token that is no slice has the root 0.
SliceId == [root : Nat, leg : Nat]
NoSlice == [root |-> 0, leg |-> 0]

\* The SPT-Txn token: ct is spt_ct_ref, jkt is cnf.jkt.
TxnToken == [jti : Nat, key : SigKeys, iat : Nat, exp : Nat,
             ct : Nat, jkt : Nat]

\* A CAT or CT: parent is the jti of the token spt_parent_hash commits to,
\* nbf is 0 when the claim is absent, holder the thumbprint of holder_key.
CapToken == [jti : Nat, key : SigKeys, iat : Nat, exp : Nat, nbf : Nat,
             parent : Nat, holder : Nat, slice : SliceId]

\* A DPoP proof: ath is the jti of the token it is bound to.
DPoPProof == [jti : Nat, jkt : Nat, ath : Nat, iat : Nat]

\* Chains run from the CAT to the leaf CT.  A zk input presents the two ends
\* of its chain and a chain proof for the hops between them.
Input == [role : Roles, txn : TxnToken, proof : DPoPProof,
          chain : Seq(CapToken), zk : BOOLEAN, fault : {0, 3, 6, 7, 8}]

ASSUME ConstantsAssumption ==
    /\ Inputs \subseteq Input
    /\ ProofMaxAge \in Nat /\ MaxFutureSkew \in Nat /\ IatSkew \in Nat
    /\ MaxZKLeafWindow \in Nat /\ ListNotAfter \in Nat
    /\ MaxTime \in Nat /\ MaxClockSteps \in Nat

\* The committed division fixes the window of each of its slices, so two
\* leaves with one root and leg have one expiry (tbac.SubbandLeaf hashes it).
ASSUME SliceAssumption ==
    \A i, j \in Inputs :
        \A m \in DOMAIN i.chain, n \in DOMAIN j.chain :
            /\ i.chain[m].slice = j.chain[n].slice
            /\ i.chain[m].slice # NoSlice
            => i.chain[m].exp = j.chain[n].exp

\* An issuer draws each jti at random (newJTI), so it names one token.
ASSUME JtiAssumption ==
    \A i, j \in Inputs :
        /\ i.txn.jti = j.txn.jti => i.txn = j.txn
        /\ /\ i.proof.jti = j.proof.jti
           /\ i.proof.jkt = j.proof.jkt
           => i.proof = j.proof

VARIABLES
    wall,     \* wall clock of the process
    mono,     \* its monotonic clock
    steps,    \* wall-clock adjustments so far
    active,   \* keys the registry's Lookup returns
    seen,     \* replayCache.seen: record key -> recordExpiry
    inp,      \* the input of each presentation
    pc,       \* the next step of each presentation
    hop,      \* position of each presentation in its capability chain
    step,     \* Decision.Step: the deciding step, 0 while undecided or allowed
    \* History, read by no action:
    peak,        \* highest wall reading so far
    decidedAt,   \* value of peak when a presentation was allowed
    possessed,   \* presentations whose proof was recorded, with the value
    possessedAt, \*   of peak at that moment
    lookedUp     \* keys active at some moment of each presentation

engineVars == <<seen, inp, pc, hop, step>>
clockVars  == <<wall, mono, steps, peak>>
histVars   == <<decidedAt, possessed, possessedAt, lookedUp>>
vars == <<wall, mono, steps, active, seen, inp, pc, hop, step, peak,
          decidedAt, possessed, possessedAt, lookedUp>>

Stages == {"idle", "step1", "step2", "step4", "status", "step5", "record",
           "cat", "hop", "bind", "consume", "allow", "deny"}

\* recordKey: the kind separates the gate's records from the settler's.
RecordKey == [kind : {"proof", "gateTxn", "gateSlice", "settleTxn", "settleSlice"},
              scope : Nat, id : Nat]

\* recordExpiry: wall is 0 for a record without a signed expiry.
RecordExpiry == [mono : Nat, wall : Nat]

-----------------------------------------------------------------------------
(* Single-use records.                                                     *)

proofRecord(p) == [kind |-> "proof", scope |-> p.jkt, id |-> p.jti]

\* Mutant: the gate and the settler share one record.
txnRecord_shared(role, t) == [kind |-> "gateTxn", scope |-> 0, id |-> t.jti]

txnRecord(role, t) ==
    [kind |-> IF role = "gate" THEN "gateTxn" ELSE "settleTxn",
     scope |-> 0, id |-> t.jti]

sliceRecord(role, s) ==
    [kind |-> IF role = "gate" THEN "gateSlice" ELSE "settleSlice",
     scope |-> s.root, id |-> s.leg]

\* Mutant: the record is held on the monotonic budget alone.
expired_monoOnly(e) == mono >= e.mono

\* recordExpiry.expired: both clocks have passed.
expired(e) ==
    /\ mono >= e.mono
    /\ e.wall # 0 => wall >= e.wall

\* The lifetime of the record of a token expiring at exp.
ttlUntil(exp) == IF exp <= wall THEN 1 ELSE exp - wall

\* Mutant: the record covers the age of the proof but not its future skew.
proofRecordTTL_short == ProofMaxAge

proofRecordTTL == ProofMaxAge + MaxFutureSkew + 1

\* What consumeAll keeps of the store before it looks at its items.
unexpired == {k \in DOMAIN seen : ~expired(seen[k])}

\* The items conflict with the store, so nothing is recorded.
conflict(items) == \E k \in DOMAIN items : k \in unexpired

\* Mutant: the items are recorded although one of them conflicts.
consumeAll_always(items) ==
    seen' = [k \in unexpired \union DOMAIN items |->
                IF k \in DOMAIN items THEN items[k] ELSE seen[k]]

\* replayCache.consumeAll: prune, then record all of the items or none.
\* The items are a function from record keys to their expiry.
consumeAll(items) ==
    seen' = IF conflict(items)
            THEN [k \in unexpired |-> seen[k]]
            ELSE [k \in unexpired \union DOMAIN items |->
                     IF k \in DOMAIN items THEN items[k] ELSE seen[k]]

\* The proof's record has no signed expiry.
proofItems(p) ==
    [k \in {proofRecord(p)} |-> [mono |-> mono + proofRecordTTL, wall |-> 0]]

Leaf(i) == i.chain[Len(i.chain)]

\* consumeOnAllow: the SPT-Txn, and the leaf's slice if it is one.
allowKeys(i) ==
    {txnRecord(i.role, i.txn)} \union
    (IF Leaf(i).slice = NoSlice THEN {} ELSE {sliceRecord(i.role, Leaf(i).slice)})

\* Mutant: the slice's record expires with the SPT-Txn.
allowItems_txnExpiry(i) ==
    [k \in allowKeys(i) |->
        [mono |-> mono + ttlUntil(i.txn.exp), wall |-> i.txn.exp]]

allowItems(i) ==
    [k \in allowKeys(i) |->
        LET exp == IF k = txnRecord(i.role, i.txn) THEN i.txn.exp ELSE Leaf(i).exp
        IN  [mono |-> mono + ttlUntil(exp), wall |-> exp]]

-----------------------------------------------------------------------------
(* The checks of the eight steps.                                          *)

\* resolveKey: the registry returns only an active record.
resolveKey(k) == k \in active

\* checkStatus: a token without a status claim is out of scope; a stale list
\* or an entry that is not VALID fails closed.
checkStatus(jti) ==
    jti \in Listed => wall < ListNotAfter /\ jti \notin Revoked

step2Expiry(t) ==
    /\ wall < t.exp
    /\ t.exp > t.iat
    /\ t.iat <= wall + IatSkew

\* dpop.Verify, then txntoken.CheckSenderConstraint.
step5DPoP(t, p) ==
    /\ p.ath = t.jti
    /\ p.iat <= wall + MaxFutureSkew
    /\ wall - p.iat <= ProofMaxAge
    /\ p.jkt = t.jkt

checkChainTokenTemporal(c) ==
    /\ c.exp > c.iat
    /\ c.iat <= wall + IatSkew
    /\ c.nbf # 0 => c.nbf < c.exp /\ wall >= c.nbf

\* A parent that declares an opening binds its child to one no earlier; a
\* child that drops the claim has nbf 0.
nbfAttenuates(parent, c) == parent.nbf # 0 => c.nbf >= parent.nbf

\* Mutant: the issuer key is not looked up again.
verifyChainToken_noLookup(c) == wall < c.exp

\* verifyChainToken with cattoken.Verify or cttoken.Verify, which check exp.
verifyChainToken(c) == resolveKey(c.key) /\ wall < c.exp

\* The root of the chain.  The ZK variant consults no status list.
catOK(i) ==
    /\ Len(i.chain) >= 2
    /\ i.zk => MaxZKLeafWindow > 0
    /\ verifyChainToken(i.chain[1])
    /\ checkChainTokenTemporal(i.chain[1])
    /\ ~i.zk => checkStatus(i.chain[1].jti)

\* Mutant: a hop may outlive its parent.
hopOK_outlives(parent, c) ==
    /\ verifyChainToken(c)
    /\ c.parent = parent.jti
    /\ nbfAttenuates(parent, c)
    /\ checkChainTokenTemporal(c)
    /\ checkStatus(c.jti)

\* One hop of the cleartext walk (step6Chain).
hopOK(parent, c) ==
    /\ verifyChainToken(c)
    /\ c.parent = parent.jti
    /\ c.exp <= parent.exp
    /\ nbfAttenuates(parent, c)
    /\ checkChainTokenTemporal(c)
    /\ checkStatus(c.jti)

\* The leaf of the ZK variant (step6ChainZK): its remaining lifetime is
\* bounded, and a cumulative budget is refused.
zkLeafOK(c) ==
    /\ verifyChainToken(c)
    /\ checkChainTokenTemporal(c)
    /\ c.exp - wall <= MaxZKLeafWindow
    /\ c.slice = NoSlice

\* The SPT-Txn commits to the leaf CT and its holder key, and does not
\* outlive it (checkHolderBinding, checkTxnLifetime).
boundToLeaf(i) ==
    /\ i.txn.ct = Leaf(i).jti
    /\ i.txn.jkt = Leaf(i).holder
    /\ i.txn.exp <= Leaf(i).exp

-----------------------------------------------------------------------------
Init ==
    /\ wall = 0 /\ mono = 0 /\ steps = 0 /\ peak = 0
    /\ active = SigKeys
    /\ seen = [k \in {} |-> [mono |-> 0, wall |-> 0]]
    /\ inp \in [Requests -> Inputs]
    /\ pc = [r \in Requests |-> "idle"]
    /\ hop = [r \in Requests |-> 0]
    /\ step = [r \in Requests |-> 0]
    /\ decidedAt = [r \in Requests |-> 0]
    /\ possessed = {}
    /\ possessedAt = [r \in Requests |-> 0]
    /\ lookedUp = [r \in Requests |-> {}]

Goto(r, stage) ==
    /\ pc' = [pc EXCEPT ![r] = stage]
    /\ UNCHANGED step

deny(r, n) ==
    /\ pc' = [pc EXCEPT ![r] = "deny"]
    /\ step' = [step EXCEPT ![r] = n]

\* The call begins.
Present(r) ==
    /\ pc[r] = "idle"
    /\ Goto(r, "step1")
    /\ lookedUp' = [lookedUp EXCEPT ![r] = active]
    /\ UNCHANGED <<clockVars, active, seen, inp, hop, decidedAt, possessed, possessedAt>>

\* A check that changes nothing but the stage.
Check(r, stage, ok, n, next) ==
    /\ pc[r] = stage
    /\ \/ ok /\ Goto(r, next)
       \/ ~ok /\ deny(r, n)
    /\ UNCHANGED <<clockVars, active, seen, inp, hop, histVars>>

step1Signature(r) == Check(r, "step1", resolveKey(inp[r].txn.key), 1, "step2")

\* Steps 2 and 3: the clock is read once, the audience is a pure comparison.
Step2(r) ==
    /\ pc[r] = "step2"
    /\ \/ ~step2Expiry(inp[r].txn) /\ deny(r, 2)
       \/ step2Expiry(inp[r].txn) /\ inp[r].fault = 3 /\ deny(r, 3)
       \/ step2Expiry(inp[r].txn) /\ inp[r].fault # 3 /\ Goto(r, "step4")
    /\ UNCHANGED <<clockVars, active, seen, inp, hop, histVars>>

step4Revocation(r) == Check(r, "step4", resolveKey(inp[r].txn.key), 4, "status")

\* The settler skips step 5.
Step4Status(r) ==
    Check(r, "status", checkStatus(inp[r].txn.jti), 4,
          IF inp[r].role = "gate" THEN "step5" ELSE "cat")

Step5Proof(r) == Check(r, "step5", step5DPoP(inp[r].txn, inp[r].proof), 5, "record")

Step5Record(r) ==
    /\ pc[r] = "record"
    /\ consumeAll(proofItems(inp[r].proof))
    /\ \/ /\ ~conflict(proofItems(inp[r].proof))
          /\ Goto(r, "cat")
          /\ possessed' = possessed \union {r}
          /\ possessedAt' = [possessedAt EXCEPT ![r] = peak]
       \/ /\ conflict(proofItems(inp[r].proof))
          /\ deny(r, 5)
          /\ UNCHANGED <<possessed, possessedAt>>
    /\ UNCHANGED <<clockVars, active, inp, hop, decidedAt, lookedUp>>

\* The ZK variant goes from the CAT straight to the leaf.
Step6Cat(r) ==
    /\ pc[r] = "cat"
    /\ \/ /\ catOK(inp[r])
          /\ Goto(r, "hop")
          /\ hop' = [hop EXCEPT ![r] = IF inp[r].zk THEN Len(inp[r].chain) ELSE 2]
       \/ ~catOK(inp[r]) /\ deny(r, 6) /\ UNCHANGED hop
    /\ UNCHANGED <<clockVars, active, seen, inp, histVars>>

Step6Hop(r) ==
    LET chain == inp[r].chain
        c  == chain[hop[r]]
        ok == IF inp[r].zk THEN zkLeafOK(c) ELSE hopOK(chain[hop[r] - 1], c)
    IN  /\ pc[r] = "hop"
        /\ \/ ok /\ hop[r] = Len(chain) /\ Goto(r, "bind") /\ UNCHANGED hop
           \/ /\ ok
              /\ hop[r] < Len(chain)
              /\ Goto(r, "hop")
              /\ hop' = [hop EXCEPT ![r] = @ + 1]
           \/ ~ok /\ deny(r, 6) /\ UNCHANGED hop
        /\ UNCHANGED <<clockVars, active, seen, inp, histVars>>

\* The rest of step 6 and steps 7 and 8 read the input only.
Bind(r) ==
    LET ok6 == boundToLeaf(inp[r]) /\ inp[r].fault # 6
    IN  /\ pc[r] = "bind"
        /\ \/ ~ok6 /\ deny(r, 6)
           \/ ok6 /\ inp[r].fault # 0 /\ deny(r, inp[r].fault)
           \/ ok6 /\ inp[r].fault = 0 /\ Goto(r, "consume")
        /\ UNCHANGED <<clockVars, active, seen, inp, hop, histVars>>

\* The single-use step, run last.
consumeOnAllow(r) ==
    /\ pc[r] = "consume"
    /\ consumeAll(allowItems(inp[r]))
    /\ \/ /\ ~conflict(allowItems(inp[r]))
          /\ Goto(r, "allow")
          /\ decidedAt' = [decidedAt EXCEPT ![r] = peak]
       \/ /\ conflict(allowItems(inp[r]))
          /\ deny(r, 8)
          /\ UNCHANGED decidedAt
    /\ UNCHANGED <<clockVars, active, inp, hop, possessed, possessedAt, lookedUp>>

Verify(r) ==
    \/ Present(r) \/ step1Signature(r) \/ Step2(r)
    \/ step4Revocation(r) \/ Step4Status(r)
    \/ Step5Proof(r) \/ Step5Record(r)
    \/ Step6Cat(r) \/ Step6Hop(r) \/ Bind(r) \/ consumeOnAllow(r)

-----------------------------------------------------------------------------
(* The environment: the clocks and the trust registry.                     *)

PeakOf(w) == IF w > peak THEN w ELSE peak

Tick ==
    /\ mono < MaxTime /\ wall < MaxTime
    /\ mono' = mono + 1
    /\ wall' = wall + 1
    /\ peak' = PeakOf(wall + 1)
    /\ UNCHANGED <<steps, active, engineVars, histVars>>

\* The wall clock is set; the monotonic clock is not.
StepClock(w) ==
    /\ steps < MaxClockSteps
    /\ steps' = steps + 1
    /\ wall' = w
    /\ peak' = PeakOf(w)
    /\ UNCHANGED <<mono, active, engineVars, histVars>>

Revoke(k) ==
    /\ k \in active
    /\ active' = active \ {k}
    /\ UNCHANGED <<clockVars, engineVars, histVars>>

\* Register accepts a key that was active before.  Presentations under way
\* may now find it.
Register(k) ==
    /\ k \notin active
    /\ active' = active \union {k}
    /\ lookedUp' = [r \in Requests |-> IF pc[r] = "idle" THEN {}
                                       ELSE lookedUp[r] \union {k}]
    /\ UNCHANGED <<clockVars, engineVars, decidedAt, possessed, possessedAt>>

Next ==
    \/ \E r \in Requests : Verify(r)
    \/ Tick
    \/ \E w \in 0..MaxTime : StepClock(w)
    \/ \E k \in SigKeys : Revoke(k) \/ Register(k)

Spec == Init /\ [][Next]_vars

-----------------------------------------------------------------------------
(* Properties.                                                             *)

\* Every variable keeps its type.
TypeOK ==
    /\ wall \in Nat /\ mono \in Nat /\ steps \in Nat /\ peak \in Nat
    /\ active \subseteq SigKeys
    /\ DOMAIN seen \subseteq RecordKey
    /\ seen \in [DOMAIN seen -> RecordExpiry]
    /\ inp \in [Requests -> Inputs]
    /\ pc \in [Requests -> Stages]
    /\ hop \in [Requests -> Nat]
    /\ step \in [Requests -> 0..8]
    /\ decidedAt \in [Requests -> Nat]
    /\ possessed \subseteq Requests
    /\ possessedAt \in [Requests -> Nat]
    /\ lookedUp \in [Requests -> SUBSET SigKeys]

Allowed(r) == pc[r] = "allow"

\* Two presentations at one kind of enforcement point.
SameRole(r, q) == inp[r].role = inp[q].role

\* The decision was taken before the SPT-Txn expired.
Timely(r) == Allowed(r) /\ decidedAt[r] < inp[r].txn.exp

\* One transaction token authorizes one transaction: of all presentations of
\* an SPT-Txn at the gate (or at the settler), however they interleave and
\* however the wall clock is set, at most one is allowed while the clock has
\* not reached the token's expiry (consumeOnAllow, replayCache.consumeAll).
TxnSingleUse ==
    \A r, q \in Requests :
        /\ Timely(r) /\ Timely(q)
        /\ SameRole(r, q)
        /\ inp[r].txn = inp[q].txn
        => r = q

\* A committed sub-band slice is spent once, whichever SPT-Txn draws on it:
\* the record is keyed on the committed division and leg, and held until the
\* slice itself expires, not only until the first SPT-Txn does.
SliceSingleUse ==
    \A r, q \in Requests :
        /\ Allowed(r) /\ decidedAt[r] < Leaf(inp[r]).exp
        /\ Allowed(q) /\ decidedAt[q] < Leaf(inp[q]).exp
        /\ SameRole(r, q)
        /\ Leaf(inp[r]).slice = Leaf(inp[q]).slice
        /\ Leaf(inp[r]).slice # NoSlice
        => r = q

\* What presentation r used before it expired, of its SPT-Txn and its slice.
usedAlive(r) ==
    {k \in allowKeys(inp[r]) :
        decidedAt[r] < IF k = txnRecord(inp[r].role, inp[r].txn)
                       THEN inp[r].txn.exp ELSE Leaf(inp[r]).exp}

\* The allowed presentations that used something alive.
uses ==
    {[holder |-> r, rights |-> usedAlive(r)] :
        r \in {q \in Requests : Allowed(q) /\ usedAlive(q) # {}}}

Uses == INSTANCE SingleUse WITH
            Holder <- Requests,
            Right <- UNION {allowKeys(i) : i \in {j \in Inputs : Len(j.chain) >= 2}},
            grants <- uses

\* The engine is an authority over single-use rights: a presentation that is
\* allowed takes its SPT-Txn and its slice in one step, neither of which was
\* taken before at its kind of enforcement point, and nothing a clock, a
\* registry or another presentation does gives one of them back while it lives
\* (consumeOnAllow, replayCache.consumeAll).
ImplementsSingleUse == Uses!Spec

\* The proof was recorded while its freshness window was open.
Fresh(r) == r \in possessed /\ possessedAt[r] <= inp[r].proof.iat + ProofMaxAge

\* A DPoP proof establishes possession once: while the wall clock is not
\* adjusted, the record of a proof outlives the whole window in which the
\* proof is acceptable (proofRecordTTL).
ProofSingleUse ==
    steps = 0 =>
        \A r, q \in Requests :
            /\ Fresh(r) /\ Fresh(q)
            /\ inp[r].proof = inp[q].proof
            => r = q

\* A refused presentation never consumes the SPT-Txn or its slice: every
\* such record in the store was left by a presentation that was allowed.
RefusedConsumesNothing ==
    \A k \in DOMAIN seen :
        k.kind # "proof" =>
            \E r \in Requests : Allowed(r) /\ k \in allowKeys(inp[r])

\* A presentation that passed every other check is refused as already used
\* only when the same enforcement point allowed the same SPT-Txn or another
\* one on the same slice: the gate's records never refuse a settlement.
RefusalJustified ==
    \A r \in Requests :
        /\ pc[r] = "deny" /\ step[r] = 8 /\ inp[r].fault = 0
        => \E q \in Requests :
              /\ Allowed(q)
              /\ SameRole(q, r)
              /\ \/ inp[q].txn = inp[r].txn
                 \/ /\ Leaf(inp[q]).slice = Leaf(inp[r]).slice
                    /\ Leaf(inp[r]).slice # NoSlice

\* The tokens of an input that the engine sees in clear.
Presented(i) == IF i.zk THEN {1, Len(i.chain)} ELSE DOMAIN i.chain

\* An allowed presentation rests on authority that was current while it ran:
\* every key that signed one of its tokens was active at some moment of it,
\* and on the cleartext path no token's status entry is revoked.
AuthorityCurrent ==
    \A r \in Requests : Allowed(r) =>
        /\ inp[r].txn.key \in lookedUp[r]
        /\ inp[r].txn.jti \notin Listed \cap Revoked
        /\ \A n \in Presented(inp[r]) :
              /\ inp[r].chain[n].key \in lookedUp[r]
              /\ ~inp[r].zk => inp[r].chain[n].jti \notin Listed \cap Revoked

\* On the cleartext path a live SPT-Txn implies that every ancestor is inside
\* its own window at the decision, although the decision reads no clock: the
\* lifetimes attenuate along the chain (step6Chain, checkTxnLifetime).
LiveAncestors ==
    \A r \in Requests : Timely(r) /\ ~inp[r].zk =>
        \A n \in DOMAIN inp[r].chain :
            /\ decidedAt[r] < inp[r].chain[n].exp
            /\ inp[r].chain[n].nbf <= decidedAt[r]

\* "two concurrent presentations of the same slice or the same SPT-Txn cannot
\* both pass" (comment of consumeAll, engine.go).
ConcurrentSingleUse ==
    \A r, q \in Requests :
        /\ Allowed(r) /\ Allowed(q)
        /\ SameRole(r, q)
        /\ inp[r].txn = inp[q].txn
        => r = q

=============================================================================
