-------------------------- MODULE EnforcementProofs --------------------------
(***************************************************************************)
(* Proofs about Enforcement, for any number of presentations, any tokens,  *)
(* any clock and any sequence of registry changes.                         *)
(*                                                                         *)
(* The argument of single use: while the clock has never reached the       *)
(* expiry of a token, the record of its use is in the store and carries    *)
(* that expiry, so no prune removes it and no second presentation passes   *)
(* consumeAll (TxnRecorded, SliceRecorded).                                *)
(***************************************************************************)
EXTENDS Enforcement, TLAPS

\* A presentation past the CAT has a chain of at least two tokens.
ChainWalked ==
    \A r \in Requests :
        pc[r] \in {"hop", "bind", "consume", "allow"} =>
            Len(inp[r].chain) >= 2

\* No reading and no decision is above the peak.
PeakBounds ==
    /\ wall <= peak
    /\ \A r \in Requests : decidedAt[r] <= peak

\* The record of a used SPT-Txn is held while the token lives.
TxnRecorded ==
    \A r \in Requests :
        Allowed(r) /\ peak < inp[r].txn.exp =>
            LET k == txnRecord(inp[r].role, inp[r].txn)
            IN  k \in DOMAIN seen /\ seen[k].wall = inp[r].txn.exp

\* The record of a used slice is held while the slice lives.
SliceRecorded ==
    \A r \in Requests :
        Allowed(r) /\ Leaf(inp[r]).slice # NoSlice /\ peak < Leaf(inp[r]).exp =>
            LET k == sliceRecord(inp[r].role, Leaf(inp[r]).slice)
            IN  k \in DOMAIN seen /\ seen[k].wall = Leaf(inp[r]).exp

Typed == TypeOK /\ ChainWalked

-----------------------------------------------------------------------------
\* The fields of an input.
LEMMA InputFields ==
    ASSUME NEW i \in Inputs
    PROVE  /\ i.role \in Roles /\ i.txn \in TxnToken /\ i.proof \in DPoPProof
           /\ i.chain \in Seq(CapToken) /\ i.zk \in BOOLEAN
           /\ i.fault \in {0, 3, 6, 7, 8}
           /\ i.txn.exp \in Nat /\ i.txn.jti \in Nat
           /\ i.proof.jti \in Nat /\ i.proof.jkt \in Nat
  BY ConstantsAssumption DEF Input, TxnToken, DPoPProof

\* The leaf of a chain of two or more tokens is one of its tokens.
LEMMA LeafFields ==
    ASSUME NEW i \in Inputs, Len(i.chain) >= 2
    PROVE  /\ Len(i.chain) \in DOMAIN i.chain
           /\ Leaf(i) \in CapToken
           /\ Leaf(i).exp \in Nat
           /\ Leaf(i).slice \in SliceId
           /\ Leaf(i).slice.root \in Nat /\ Leaf(i).slice.leg \in Nat
  <1>1. i.chain \in Seq(CapToken)  BY InputFields
  <1>2. Len(i.chain) \in DOMAIN i.chain /\ Leaf(i) \in CapToken
    BY <1>1 DEF Leaf
  <1> QED  BY <1>2 DEF CapToken, SliceId

\* The records a decision consumes are records of the store.
LEMMA AllowItemsType ==
    ASSUME NEW i \in Inputs, Len(i.chain) >= 2, wall \in Nat, mono \in Nat
    PROVE  /\ DOMAIN allowItems(i) = allowKeys(i)
           /\ allowKeys(i) \subseteq RecordKey
           /\ \A k \in allowKeys(i) : allowItems(i)[k] \in RecordExpiry
           /\ \A k \in allowKeys(i) : k.kind # "proof"
  <1>1. txnRecord(i.role, i.txn) \in RecordKey
    BY InputFields DEF txnRecord, RecordKey, Roles
  <1>2. sliceRecord(i.role, Leaf(i).slice) \in RecordKey
    BY InputFields, LeafFields DEF sliceRecord, RecordKey, Roles
  <1>3. allowKeys(i) \subseteq RecordKey
    BY <1>1, <1>2 DEF allowKeys
  <1>4. \A k \in allowKeys(i) : k.kind # "proof"
    BY DEF allowKeys, txnRecord, sliceRecord
  <1>5. \A e \in Nat : mono + ttlUntil(e) \in Nat
    BY DEF ttlUntil
  <1>6. \A k \in allowKeys(i) : allowItems(i)[k] \in RecordExpiry
    <2>1. i.txn.exp \in Nat /\ Leaf(i).exp \in Nat
      BY InputFields, LeafFields
    <2> QED  BY <1>5, <2>1 DEF allowItems, RecordExpiry
  <1> QED  BY <1>3, <1>4, <1>6 DEF allowItems

\* So is the record of a proof.
LEMMA ProofItemsType ==
    ASSUME NEW i \in Inputs, mono \in Nat
    PROVE  /\ DOMAIN proofItems(i.proof) = {proofRecord(i.proof)}
           /\ DOMAIN proofItems(i.proof) \subseteq RecordKey
           /\ \A k \in DOMAIN proofItems(i.proof) :
                 k.kind = "proof" /\ proofItems(i.proof)[k] \in RecordExpiry
  BY InputFields, ConstantsAssumption
  DEF proofItems, proofRecord, RecordKey, RecordExpiry, proofRecordTTL

\* consumeAll keeps the store's type.
LEMMA ConsumeType ==
    ASSUME DOMAIN seen \subseteq RecordKey, seen \in [DOMAIN seen -> RecordExpiry],
           NEW items, DOMAIN items \subseteq RecordKey,
           \A k \in DOMAIN items : items[k] \in RecordExpiry,
           consumeAll(items)
    PROVE  /\ DOMAIN seen' \subseteq RecordKey
           /\ seen' \in [DOMAIN seen' -> RecordExpiry]
  <1>1. unexpired \subseteq DOMAIN seen  BY DEF unexpired
  <1>2. CASE conflict(items)
    <2>1. seen' = [k \in unexpired |-> seen[k]]  BY <1>2 DEF consumeAll
    <2> QED  BY <1>1, <2>1
  <1>3. CASE ~conflict(items)
    <2>1. seen' = [k \in unexpired \union DOMAIN items |->
                     IF k \in DOMAIN items THEN items[k] ELSE seen[k]]
      BY <1>3 DEF consumeAll
    <2> QED  BY <1>1, <2>1
  <1> QED  BY <1>2, <1>3

-----------------------------------------------------------------------------
\* Going on or refusing keeps the types of the two variables it assigns.
LEMMA GotoType ==
    ASSUME pc \in [Requests -> Stages], step \in [Requests -> 0..8],
           NEW r \in Requests, NEW stage \in Stages, Goto(r, stage)
    PROVE  pc' \in [Requests -> Stages] /\ step' \in [Requests -> 0..8]
  BY DEF Goto

\* A refusal ends one presentation and no other.
LEMMA DenyType ==
    ASSUME pc \in [Requests -> Stages], step \in [Requests -> 0..8],
           NEW r \in Requests, NEW n \in 0..8, deny(r, n)
    PROVE  /\ pc' \in [Requests -> Stages] /\ step' \in [Requests -> 0..8]
           /\ pc'[r] = "deny" /\ \A q \in Requests : q # r => pc'[q] = pc[q]
  BY DEF deny, Stages

\* Where the checks without other effects lead.
CheckStage(r) ==
    \/ step1Signature(r) \/ Step2(r) \/ step4Revocation(r)
    \/ Step4Status(r) \/ Step5Proof(r) \/ Bind(r)

\* A check passes on, or refuses with its step's number; only a failed
\* comparison of step 8 refuses with 8.
LEMMA CheckStages ==
    ASSUME TypeOK, NEW r \in Requests, CheckStage(r)
    PROVE  /\ UNCHANGED <<clockVars, active, seen, inp, hop, histVars>>
           /\ \/ \E stage \in {"step2", "step4", "status", "step5", "record", "cat"} :
                    Goto(r, stage)
              \/ pc[r] = "bind" /\ Goto(r, "consume")
              \/ \E n \in 0..7 : deny(r, n)
              \/ inp[r].fault = 8 /\ deny(r, 8)
  <1>1. CASE step1Signature(r)  BY <1>1 DEF step1Signature, Check
  <1>2. CASE Step2(r)  BY <1>2 DEF Step2
  <1>3. CASE step4Revocation(r)  BY <1>3 DEF step4Revocation, Check
  <1>4. CASE Step4Status(r)  BY <1>4 DEF Step4Status, Check
  <1>5. CASE Step5Proof(r)  BY <1>5 DEF Step5Proof, Check
  <1>6. CASE Bind(r)
    <2>1. inp[r].fault \in {0, 3, 6, 7, 8}
      BY InputFields DEF TypeOK
    <2> QED  BY <1>6, <2>1 DEF Bind
  <1> QED  BY <1>1, <1>2, <1>3, <1>4, <1>5, <1>6 DEF CheckStage

-----------------------------------------------------------------------------
\* Every step keeps the types and the length of the walked chains.
LEMMA TypedStep ==
    ASSUME Typed, [Next]_vars
    PROVE  Typed'
  <1> USE DEF Typed, ChainWalked
  <1>1. ASSUME NEW r \in Requests, Present(r)
        PROVE  Typed'
    <2>1. pc' \in [Requests -> Stages] /\ step' \in [Requests -> 0..8]
      BY <1>1, GotoType DEF TypeOK, Present, Stages
    <2> QED  BY <1>1, <2>1 DEF TypeOK, Present, Goto, clockVars
  <1>2. ASSUME NEW r \in Requests, CheckStage(r)
        PROVE  Typed'
    <2>1. UNCHANGED <<clockVars, active, seen, inp, hop, histVars>>
      BY <1>2, CheckStages
    <2>2. CASE \E stage \in {"step2", "step4", "status", "step5", "record", "cat"} :
                  Goto(r, stage)
      BY <2>1, <2>2 DEF TypeOK, Goto, Stages, clockVars, histVars
    <2>3. CASE pc[r] = "bind" /\ Goto(r, "consume")
      BY <2>1, <2>3 DEF TypeOK, Goto, Stages, clockVars, histVars
    <2>4. CASE \E n \in 0..8 : deny(r, n)
      BY <2>1, <2>4 DEF TypeOK, deny, Stages, clockVars, histVars
    <2> QED  BY <1>2, <2>2, <2>3, <2>4, CheckStages
  <1>3. ASSUME NEW r \in Requests, Step5Record(r)
        PROVE  Typed'
    <2> DEFINE items == proofItems(inp[r].proof)
    <2>1. inp[r] \in Inputs /\ mono \in Nat  BY DEF TypeOK
    <2>2. DOMAIN seen' \subseteq RecordKey /\ seen' \in [DOMAIN seen' -> RecordExpiry]
      BY <1>3, <2>1, ProofItemsType, ConsumeType DEF TypeOK, Step5Record
    <2>3. CASE Goto(r, "cat") /\ possessed' = possessed \union {r}
                /\ possessedAt' = [possessedAt EXCEPT ![r] = peak]
      BY <1>3, <2>2, <2>3 DEF TypeOK, Step5Record, Goto, Stages, clockVars
    <2>4. CASE deny(r, 5) /\ UNCHANGED <<possessed, possessedAt>>
      BY <1>3, <2>2, <2>4 DEF TypeOK, Step5Record, deny, Stages, clockVars
    <2> QED  BY <1>3, <2>3, <2>4 DEF Step5Record
  <1>4. ASSUME NEW r \in Requests, Step6Cat(r)
        PROVE  Typed'
    <2>1. inp[r].chain \in Seq(CapToken)  BY InputFields DEF TypeOK
    <2>2. CASE catOK(inp[r]) /\ Goto(r, "hop")
               /\ hop' = [hop EXCEPT ![r] = IF inp[r].zk THEN Len(inp[r].chain) ELSE 2]
      <3>1. Len(inp[r].chain) >= 2 /\ Len(inp[r].chain) \in Nat  BY <2>1, <2>2 DEF catOK
      <3> QED  BY <1>4, <2>2, <3>1 DEF TypeOK, Step6Cat, Goto, Stages, clockVars, histVars
    <2>3. CASE deny(r, 6) /\ UNCHANGED hop
      BY <1>4, <2>3 DEF TypeOK, Step6Cat, deny, Stages, clockVars, histVars
    <2> QED  BY <1>4, <2>2, <2>3 DEF Step6Cat
  <1>5. ASSUME NEW r \in Requests, Step6Hop(r)
        PROVE  Typed'
    <2>1. CASE pc[r] = "hop" /\ Goto(r, "bind") /\ UNCHANGED hop
      BY <1>5, <2>1 DEF TypeOK, Step6Hop, Goto, Stages, clockVars, histVars
    <2>2. CASE pc[r] = "hop" /\ Goto(r, "hop") /\ hop' = [hop EXCEPT ![r] = @ + 1]
      BY <1>5, <2>2 DEF TypeOK, Step6Hop, Goto, Stages, clockVars, histVars
    <2>3. CASE deny(r, 6) /\ UNCHANGED hop
      BY <1>5, <2>3 DEF TypeOK, Step6Hop, deny, Stages, clockVars, histVars
    <2> QED  BY <1>5, <2>1, <2>2, <2>3 DEF Step6Hop
  <1>6. ASSUME NEW r \in Requests, consumeOnAllow(r)
        PROVE  Typed'
    <2>1. inp[r] \in Inputs /\ mono \in Nat /\ wall \in Nat /\ Len(inp[r].chain) >= 2
      BY <1>6 DEF TypeOK, consumeOnAllow
    <2>2. DOMAIN seen' \subseteq RecordKey /\ seen' \in [DOMAIN seen' -> RecordExpiry]
      BY <1>6, <2>1, AllowItemsType, ConsumeType DEF TypeOK, consumeOnAllow
    <2>3. CASE Goto(r, "allow") /\ decidedAt' = [decidedAt EXCEPT ![r] = peak]
      BY <1>6, <2>1, <2>2, <2>3 DEF TypeOK, consumeOnAllow, Goto, Stages, clockVars
    <2>4. CASE deny(r, 8) /\ UNCHANGED decidedAt
      BY <1>6, <2>2, <2>4 DEF TypeOK, consumeOnAllow, deny, Stages, clockVars
    <2> QED  BY <1>6, <2>3, <2>4 DEF consumeOnAllow
  <1>7. CASE Tick
    BY <1>7, ConstantsAssumption DEF TypeOK, Tick, PeakOf, engineVars, histVars
  <1>8. ASSUME NEW w \in 0..MaxTime, StepClock(w)
        PROVE  Typed'
    BY <1>8, ConstantsAssumption DEF TypeOK, StepClock, PeakOf, engineVars, histVars
  <1>9. ASSUME NEW k \in SigKeys, Revoke(k) \/ Register(k)
        PROVE  Typed'
    BY <1>9 DEF TypeOK, Revoke, Register, engineVars, clockVars, histVars
  <1>10. CASE UNCHANGED vars
    BY <1>10 DEF TypeOK, vars
  <1> QED
    BY <1>1, <1>2, <1>3, <1>4, <1>5, <1>6, <1>7, <1>8, <1>9, <1>10
    DEF Next, Verify, CheckStage

\* Every variable keeps its type in every behaviour: no record's expiry is
\* ever negative and no presentation leaves the eight steps.
THEOREM TypeCorrect == Spec => []TypeOK
  <1>1. Init => Typed
    BY ConstantsAssumption
    DEF Init, Typed, TypeOK, ChainWalked, Stages, RecordKey, RecordExpiry
  <1>2. Typed /\ [Next]_vars => Typed'
    BY TypedStep
  <1> QED  BY <1>1, <1>2, PTL DEF Spec, Typed

-----------------------------------------------------------------------------
\* A record whose signed expiry is ahead of the wall clock survives every
\* consumeAll, and makes one that names it a conflict.
LEMMA HeldRecord ==
    ASSUME NEW items, consumeAll(items), NEW k \in DOMAIN seen,
           wall \in Nat, seen[k].wall \in Nat, wall < seen[k].wall
    PROVE  /\ k \in DOMAIN seen' /\ seen'[k] = seen[k]
           /\ k \in DOMAIN items => conflict(items)
  <1>1. k \in unexpired  BY DEF unexpired, expired
  <1>2. k \in DOMAIN items => conflict(items)  BY <1>1 DEF conflict
  <1>3. CASE conflict(items)  BY <1>1, <1>3, <1>2 DEF consumeAll
  <1>4. CASE ~conflict(items)
    <2>1. k \notin DOMAIN items  BY <1>2, <1>4
    <2> QED  BY <1>1, <1>2, <1>4, <2>1 DEF consumeAll
  <1> QED  BY <1>2, <1>3, <1>4

\* What consumeAll leaves in the store was there or is one of its items, and
\* without a conflict all of the items are there.
LEMMA ConsumedRecords ==
    ASSUME NEW items, consumeAll(items)
    PROVE  /\ \A k \in DOMAIN seen' : k \in DOMAIN seen \/ (~conflict(items) /\ k \in DOMAIN items)
           /\ ~conflict(items) => \A k \in DOMAIN items :
                                    k \in DOMAIN seen' /\ seen'[k] = items[k]
           /\ conflict(items) => \E k \in DOMAIN items : k \in DOMAIN seen
  <1>1. unexpired \subseteq DOMAIN seen  BY DEF unexpired
  <1>2. CASE conflict(items)
    <2>1. seen' = [k \in unexpired |-> seen[k]]  BY <1>2 DEF consumeAll
    <2> QED  BY <1>1, <1>2, <2>1 DEF conflict
  <1>3. CASE ~conflict(items)
    <2>1. seen' = [k \in unexpired \union DOMAIN items |->
                     IF k \in DOMAIN items THEN items[k] ELSE seen[k]]
      BY <1>3 DEF consumeAll
    <2> QED  BY <1>1, <1>3, <2>1
  <1> QED  BY <1>2, <1>3

\* A step that is neither of the two that consume changes no record and no
\* decision in favour; the peak never falls below the wall clock.
LEMMA QuietStep ==
    ASSUME TypeOK, PeakBounds, [Next]_vars,
           \A r \in Requests : ~Step5Record(r) /\ ~consumeOnAllow(r)
    PROVE  /\ UNCHANGED <<seen, inp, decidedAt>>
           /\ \A q \in Requests : Allowed(q)' <=> Allowed(q)
           /\ peak <= peak' /\ wall' <= peak'
           /\ \A q \in Requests : pc[q] # "deny" /\ pc'[q] = "deny" /\ step'[q] = 8 => inp[q].fault = 8
           /\ \A q \in Requests : pc[q] = "deny" => pc'[q] = "deny" /\ step'[q] = step[q]
  <1> USE DEF Allowed, PeakBounds
  <1>1. ASSUME NEW r \in Requests, Present(r)
        PROVE  /\ UNCHANGED <<seen, inp, decidedAt, wall, peak, step>>
               /\ pc' = [pc EXCEPT ![r] = "step1"] /\ pc[r] = "idle"
    BY <1>1 DEF Present, Goto, clockVars
  <1>2. ASSUME NEW r \in Requests, CheckStage(r)
        PROVE  /\ UNCHANGED <<seen, inp, decidedAt, wall, peak>>
               /\ pc[r] \notin {"allow", "deny"} /\ pc'[r] # "allow"
               /\ \A q \in Requests \ {r} : pc'[q] = pc[q] /\ step'[q] = step[q]
               /\ pc'[r] = "deny" /\ step'[r] = 8 => inp[r].fault = 8
    <2>1. pc[r] \notin {"allow", "deny"}
      BY <1>2 DEF CheckStage, step1Signature, Step2, step4Revocation, Step4Status,
                  Step5Proof, Bind, Check
    <2>2. UNCHANGED <<seen, inp, decidedAt, wall, peak>>
      BY <1>2, CheckStages DEF clockVars, histVars
    <2>3. CASE \E stage \in {"step2", "step4", "status", "step5", "record", "cat", "consume"} :
                  Goto(r, stage)
      BY <2>1, <2>2, <2>3 DEF Goto, TypeOK
    <2>4. CASE \E n \in 0..7 : deny(r, n)
      BY <2>1, <2>2, <2>4 DEF deny, TypeOK
    <2>5. CASE inp[r].fault = 8 /\ deny(r, 8)
      BY <2>1, <2>2, <2>5 DEF deny, TypeOK
    <2> QED  BY <1>2, <2>3, <2>4, <2>5, CheckStages
  <1>3. ASSUME NEW r \in Requests, Step6Cat(r) \/ Step6Hop(r)
        PROVE  /\ UNCHANGED <<seen, inp, decidedAt, wall, peak>>
               /\ pc[r] \notin {"allow", "deny"} /\ pc'[r] # "allow"
               /\ \A q \in Requests \ {r} : pc'[q] = pc[q] /\ step'[q] = step[q]
               /\ pc'[r] = "deny" => step'[r] # 8
    <2>1. /\ UNCHANGED <<seen, inp, decidedAt, wall, peak>>
          /\ pc[r] \in {"cat", "hop"}
          /\ Goto(r, "hop") \/ Goto(r, "bind") \/ deny(r, 6)
      BY <1>3 DEF Step6Cat, Step6Hop, clockVars, histVars
    <2> QED  BY <2>1 DEF Goto, deny, TypeOK
  <1>4. CASE Tick
    BY <1>4 DEF Tick, PeakOf, TypeOK, engineVars, histVars
  <1>5. ASSUME NEW w \in 0..MaxTime, StepClock(w)
        PROVE  UNCHANGED <<seen, inp, decidedAt, pc, step>> /\ peak <= peak' /\ wall' <= peak'
    BY <1>5, ConstantsAssumption DEF StepClock, PeakOf, TypeOK, engineVars, histVars
  <1>6. ASSUME NEW k \in SigKeys, Revoke(k) \/ Register(k)
        PROVE  UNCHANGED <<seen, inp, decidedAt, pc, step, wall, peak>>
    BY <1>6 DEF Revoke, Register, engineVars, clockVars, histVars
  <1>7. CASE UNCHANGED vars
    BY <1>7 DEF vars, TypeOK
  <1>8. wall \in Nat /\ peak \in Nat /\ pc \in [Requests -> Stages]  BY DEF TypeOK
  <1>9. CASE \E r \in Requests : Present(r)
    BY <1>1, <1>8, <1>9
  <1>10. CASE \E r \in Requests : CheckStage(r)
    BY <1>2, <1>8, <1>10
  <1>11. CASE \E r \in Requests : Step6Cat(r) \/ Step6Hop(r)
    BY <1>3, <1>8, <1>11
  <1>12. CASE (\E w \in 0..MaxTime : StepClock(w)) \/ (\E k \in SigKeys : Revoke(k) \/ Register(k))
    BY <1>5, <1>6, <1>8, <1>12
  <1> QED
    BY <1>4, <1>7, <1>9, <1>10, <1>11, <1>12 DEF Next, Verify, CheckStage

-----------------------------------------------------------------------------
\* The inductive invariant of single use.
Recorded == Typed /\ PeakBounds /\ TxnRecorded /\ SliceRecorded

\* The key of an allowed use and the expiry it is held for.
LEMMA AllowItemsExpiry ==
    ASSUME NEW i \in Inputs
    PROVE  /\ allowItems(i)[txnRecord(i.role, i.txn)].wall = i.txn.exp
           /\ txnRecord(i.role, i.txn) \in allowKeys(i)
           /\ Leaf(i).slice # NoSlice =>
                 /\ sliceRecord(i.role, Leaf(i).slice) \in allowKeys(i)
                 /\ allowItems(i)[sliceRecord(i.role, Leaf(i).slice)].wall = Leaf(i).exp
  <1>1. txnRecord(i.role, i.txn) # sliceRecord(i.role, Leaf(i).slice)
    BY DEF txnRecord, sliceRecord
  <1>2. /\ txnRecord(i.role, i.txn) \in allowKeys(i)
        /\ Leaf(i).slice # NoSlice => sliceRecord(i.role, Leaf(i).slice) \in allowKeys(i)
    BY DEF allowKeys
  <1> HIDE DEF txnRecord, sliceRecord, Leaf
  <1> QED  BY <1>1, <1>2 DEF allowItems

\* The records of the allowed presentations survive a consumeAll: their
\* expiry is above the peak, hence above the wall clock.
LEMMA RecordsSurvive ==
    ASSUME Recorded, NEW items, consumeAll(items), NEW r \in Requests, Allowed(r)
    PROVE  /\ peak < inp[r].txn.exp =>
                 LET k == txnRecord(inp[r].role, inp[r].txn)
                 IN  /\ k \in DOMAIN seen' /\ seen'[k].wall = inp[r].txn.exp
                     /\ k \in DOMAIN items => conflict(items)
           /\ Leaf(inp[r]).slice # NoSlice /\ peak < Leaf(inp[r]).exp =>
                 LET k == sliceRecord(inp[r].role, Leaf(inp[r]).slice)
                 IN  /\ k \in DOMAIN seen' /\ seen'[k].wall = Leaf(inp[r]).exp
                     /\ k \in DOMAIN items => conflict(items)
  <1>1. /\ wall \in Nat /\ peak \in Nat /\ wall <= peak /\ inp[r] \in Inputs
        /\ Len(inp[r].chain) >= 2
    BY DEF Recorded, Typed, TypeOK, PeakBounds, ChainWalked, Allowed
  <1>2. inp[r].txn.exp \in Nat /\ Leaf(inp[r]).exp \in Nat
    BY <1>1, InputFields, LeafFields
  <1>3. ASSUME peak < inp[r].txn.exp
        PROVE  LET k == txnRecord(inp[r].role, inp[r].txn)
               IN  /\ k \in DOMAIN seen' /\ seen'[k].wall = inp[r].txn.exp
                   /\ k \in DOMAIN items => conflict(items)
    <2> DEFINE k == txnRecord(inp[r].role, inp[r].txn)
    <2>1. k \in DOMAIN seen /\ seen[k].wall = inp[r].txn.exp
      BY <1>3 DEF Recorded, TxnRecorded
    <2> HIDE DEF k
    <2>2. wall < seen[k].wall /\ seen[k].wall \in Nat  BY <1>1, <1>2, <1>3, <2>1
    <2>3. /\ k \in DOMAIN seen' /\ seen'[k].wall = inp[r].txn.exp
          /\ k \in DOMAIN items => conflict(items)
      BY <1>1, <2>1, <2>2, HeldRecord
    <2> QED  BY <2>3 DEF k
  <1>4. ASSUME Leaf(inp[r]).slice # NoSlice, peak < Leaf(inp[r]).exp
        PROVE  LET k == sliceRecord(inp[r].role, Leaf(inp[r]).slice)
               IN  /\ k \in DOMAIN seen' /\ seen'[k].wall = Leaf(inp[r]).exp
                   /\ k \in DOMAIN items => conflict(items)
    <2> DEFINE k == sliceRecord(inp[r].role, Leaf(inp[r]).slice)
    <2>1. k \in DOMAIN seen /\ seen[k].wall = Leaf(inp[r]).exp
      BY <1>4 DEF Recorded, SliceRecorded
    <2> HIDE DEF k
    <2>2. wall < seen[k].wall /\ seen[k].wall \in Nat  BY <1>1, <1>2, <1>4, <2>1
    <2>3. /\ k \in DOMAIN seen' /\ seen'[k].wall = Leaf(inp[r]).exp
          /\ k \in DOMAIN items => conflict(items)
      BY <1>1, <2>1, <2>2, HeldRecord
    <2> QED  BY <2>3 DEF k
  <1> QED  BY <1>3, <1>4

\* What the two consuming steps do to the decisions.
LEMMA ConsumingStep ==
    ASSUME TypeOK, NEW r \in Requests, Step5Record(r) \/ consumeOnAllow(r)
    PROVE  /\ UNCHANGED <<inp, peak, wall>>
           /\ \A q \in Requests \ {r} : Allowed(q)' <=> Allowed(q)
           /\ \A q \in Requests \ {r} : decidedAt'[q] = decidedAt[q]
           /\ ~Allowed(r)
           /\ Allowed(r)' => /\ pc[r] = "consume" /\ decidedAt'[r] = peak
                             /\ consumeAll(allowItems(inp[r]))
                             /\ ~conflict(allowItems(inp[r]))
           /\ \E items : consumeAll(items)
           /\ decidedAt'[r] \in {decidedAt[r], peak}
  <1>1. CASE Step5Record(r)
    <2>1. /\ UNCHANGED <<inp, peak, wall, decidedAt>> /\ pc[r] = "record"
          /\ consumeAll(proofItems(inp[r].proof)) /\ (Goto(r, "cat") \/ deny(r, 5))
      BY <1>1 DEF Step5Record, clockVars
    <2> QED  BY <2>1 DEF TypeOK, Goto, deny, Allowed
  <1>2. CASE consumeOnAllow(r)
    <2>1. /\ UNCHANGED <<inp, peak, wall>> /\ pc[r] = "consume"
          /\ consumeAll(allowItems(inp[r]))
          /\ \/ /\ ~conflict(allowItems(inp[r])) /\ Goto(r, "allow")
                /\ decidedAt' = [decidedAt EXCEPT ![r] = peak]
             \/ deny(r, 8) /\ UNCHANGED decidedAt
      BY <1>2 DEF consumeOnAllow, clockVars
    <2> QED  BY <2>1 DEF TypeOK, Goto, deny, Allowed
  <1> QED  BY <1>1, <1>2

\* Every step keeps the records of the uses whose tokens have not expired.
LEMMA RecordedStep ==
    ASSUME Recorded, [Next]_vars
    PROVE  Recorded'
  <1>1. Typed'  BY TypedStep DEF Recorded
  <1>2. TypeOK /\ PeakBounds /\ TxnRecorded /\ SliceRecorded
    BY DEF Recorded, Typed
  <1>3. CASE \A r \in Requests : ~Step5Record(r) /\ ~consumeOnAllow(r)
    <2>1. /\ UNCHANGED <<seen, inp, decidedAt>>
          /\ \A q \in Requests : Allowed(q)' <=> Allowed(q)
          /\ peak <= peak' /\ wall' <= peak'
      BY <1>2, <1>3, QuietStep
    <2>2. /\ peak \in Nat /\ peak' \in Nat /\ inp \in [Requests -> Inputs]
          /\ decidedAt \in [Requests -> Nat]
      BY <1>1, <1>2 DEF Typed, TypeOK
    <2>3. PeakBounds'
      BY <1>2, <2>1, <2>2 DEF PeakBounds
    <2>4. TxnRecorded'
      <3> SUFFICES ASSUME NEW r \in Requests, Allowed(r)', (peak < inp[r].txn.exp)'
                   PROVE  LET k == txnRecord(inp[r].role, inp[r].txn)
                          IN  k \in DOMAIN seen' /\ seen'[k].wall = inp[r].txn.exp
        BY <2>1 DEF TxnRecorded, txnRecord
      <3>1. inp[r].txn.exp \in Nat  BY <2>2, InputFields
      <3>2. Allowed(r) /\ peak < inp[r].txn.exp  BY <2>1, <2>2, <3>1
      <3> QED  BY <1>2, <2>1, <3>2 DEF TxnRecorded
    <2>5. SliceRecorded'
      <3> SUFFICES ASSUME NEW r \in Requests, Allowed(r)', Leaf(inp[r]).slice # NoSlice,
                          (peak < Leaf(inp[r]).exp)'
                   PROVE  LET k == sliceRecord(inp[r].role, Leaf(inp[r]).slice)
                          IN  k \in DOMAIN seen' /\ seen'[k].wall = Leaf(inp[r]).exp
        BY <2>1 DEF SliceRecorded, sliceRecord, Leaf
      <3>1. Allowed(r)  BY <2>1
      <3>2. Leaf(inp[r]).exp \in Nat
        BY <1>2, <2>2, <3>1, LeafFields DEF Recorded, Typed, ChainWalked, Allowed
      <3>3. peak < Leaf(inp[r]).exp  BY <2>1, <2>2, <3>2 DEF Leaf
      <3> QED  BY <1>2, <2>1, <3>1, <3>3 DEF SliceRecorded
    <2> QED  BY <1>1, <2>3, <2>4, <2>5 DEF Recorded
  <1>4. ASSUME NEW r \in Requests, Step5Record(r) \/ consumeOnAllow(r)
        PROVE  Recorded'
    <2>1. /\ UNCHANGED <<inp, peak, wall>> /\ ~Allowed(r)
          /\ \A q \in Requests \ {r} : Allowed(q)' <=> Allowed(q)
          /\ \A q \in Requests \ {r} : decidedAt'[q] = decidedAt[q]
          /\ decidedAt'[r] \in {decidedAt[r], peak}
          /\ Allowed(r)' => /\ pc[r] = "consume"
                            /\ consumeAll(allowItems(inp[r]))
                            /\ ~conflict(allowItems(inp[r]))
      BY <1>2, <1>4, ConsumingStep
    <2>2. PICK items : consumeAll(items)  BY <1>2, <1>4, ConsumingStep
    <2>3. PeakBounds'
      <3>1. peak \in Nat /\ decidedAt \in [Requests -> Nat]  BY <1>2 DEF TypeOK
      <3> QED  BY <1>2, <2>1, <3>1 DEF PeakBounds
    <2>4. ASSUME Allowed(r)'
          PROVE  /\ inp[r] \in Inputs /\ Len(inp[r].chain) >= 2
                 /\ \A k \in allowKeys(inp[r]) :
                       k \in DOMAIN seen' /\ seen'[k] = allowItems(inp[r])[k]
      <3>1. inp[r] \in Inputs /\ wall \in Nat /\ mono \in Nat /\ Len(inp[r].chain) >= 2
        BY <2>1, <2>4 DEF Recorded, Typed, TypeOK, ChainWalked
      <3>2. DOMAIN allowItems(inp[r]) = allowKeys(inp[r])  BY <3>1, AllowItemsType
      <3> QED  BY <2>1, <2>4, <3>1, <3>2, ConsumedRecords
    <2>5. TxnRecorded'
      <3> SUFFICES ASSUME NEW q \in Requests, Allowed(q)', peak < inp[q].txn.exp
                   PROVE  LET k == txnRecord(inp[q].role, inp[q].txn)
                          IN  k \in DOMAIN seen' /\ seen'[k].wall = inp[q].txn.exp
        BY <2>1 DEF TxnRecorded, txnRecord
      <3>1. CASE q # r  BY <2>1, <2>2, <3>1, RecordsSurvive
      <3>2. CASE q = r
        <4>1. allowItems(inp[q])[txnRecord(inp[q].role, inp[q].txn)].wall = inp[q].txn.exp
          BY <2>4, <3>2, AllowItemsExpiry
        <4>2. txnRecord(inp[q].role, inp[q].txn) \in allowKeys(inp[q])
          BY <2>4, <3>2, AllowItemsExpiry
        <4> QED  BY <2>4, <3>2, <4>1, <4>2
      <3> QED  BY <3>1, <3>2
    <2>6. SliceRecorded'
      <3> SUFFICES ASSUME NEW q \in Requests, Allowed(q)', Leaf(inp[q]).slice # NoSlice,
                          peak < Leaf(inp[q]).exp
                   PROVE  LET k == sliceRecord(inp[q].role, Leaf(inp[q]).slice)
                          IN  k \in DOMAIN seen' /\ seen'[k].wall = Leaf(inp[q]).exp
        BY <2>1 DEF SliceRecorded, sliceRecord, Leaf
      <3>1. CASE q # r  BY <2>1, <2>2, <3>1, RecordsSurvive
      <3>2. CASE q = r
        <4>1. /\ allowItems(inp[q])[sliceRecord(inp[q].role, Leaf(inp[q]).slice)].wall
                     = Leaf(inp[q]).exp
              /\ sliceRecord(inp[q].role, Leaf(inp[q]).slice) \in allowKeys(inp[q])
          BY <2>4, <3>2, AllowItemsExpiry
        <4> QED  BY <2>4, <3>2, <4>1
      <3> QED  BY <3>1, <3>2
    <2> QED  BY <1>1, <2>3, <2>5, <2>6 DEF Recorded
  <1> QED  BY <1>3, <1>4

\* While the clock has not reached a used token's expiry, the store holds
\* its record with that expiry (consumeOnAllow, recordExpiry).
THEOREM RecordedInvariant == Spec => []Recorded
  <1>1. Init => Recorded
    <2> SUFFICES ASSUME Init PROVE Recorded  OBVIOUS
    <2>1. Typed
      BY ConstantsAssumption
      DEF Init, Typed, TypeOK, ChainWalked, Stages, RecordKey, RecordExpiry
    <2>2. \A r \in Requests : ~Allowed(r)  BY DEF Init, Allowed
    <2>3. PeakBounds  BY DEF Init, PeakBounds
    <2> QED  BY <2>1, <2>2, <2>3 DEF Recorded, TxnRecorded, SliceRecorded
  <1>2. Recorded /\ [Next]_vars => Recorded'
    BY RecordedStep
  <1> QED  BY <1>1, <1>2, PTL DEF Spec

-----------------------------------------------------------------------------
\* An allowed use before an expiry refuses the next one: the new decision
\* meets the record of the old one.
LEMMA SingleUseStep ==
    ASSUME Recorded, TxnSingleUse, SliceSingleUse, [Next]_vars
    PROVE  TxnSingleUse' /\ SliceSingleUse'
  <1>1. TypeOK /\ PeakBounds  BY DEF Recorded, Typed
  <1>2. CASE \A r \in Requests : ~Step5Record(r) /\ ~consumeOnAllow(r)
    <2>1. UNCHANGED <<inp, decidedAt>> /\ \A q \in Requests : Allowed(q)' <=> Allowed(q)
      BY <1>1, <1>2, QuietStep
    <2>2. TxnSingleUse'  BY <2>1 DEF TxnSingleUse, Timely, SameRole
    <2>3. SliceSingleUse'  BY <2>1 DEF SliceSingleUse, SameRole, Leaf
    <2> QED  BY <2>2, <2>3
  <1>3. ASSUME NEW r \in Requests, Step5Record(r) \/ consumeOnAllow(r)
        PROVE  TxnSingleUse' /\ SliceSingleUse'
    <2>1. /\ UNCHANGED <<inp, peak, wall>> /\ ~Allowed(r)
          /\ \A q \in Requests \ {r} : Allowed(q)' <=> Allowed(q)
          /\ \A q \in Requests \ {r} : decidedAt'[q] = decidedAt[q]
          /\ Allowed(r)' => /\ pc[r] = "consume" /\ decidedAt'[r] = peak
                            /\ consumeAll(allowItems(inp[r]))
                            /\ ~conflict(allowItems(inp[r]))
      BY <1>1, <1>3, ConsumingStep
    <2>2. ASSUME Allowed(r)', NEW q \in Requests \ {r}, Allowed(q)', inp[r].role = inp[q].role
          PROVE  /\ inp[r].txn = inp[q].txn => ~(peak < inp[r].txn.exp)
                 /\ Leaf(inp[r]).slice = Leaf(inp[q]).slice /\ Leaf(inp[r]).slice # NoSlice
                       => ~(peak < Leaf(inp[r]).exp)
      <3>1. /\ inp[r] \in Inputs /\ inp[q] \in Inputs /\ wall \in Nat /\ mono \in Nat
            /\ Len(inp[r].chain) >= 2 /\ Len(inp[q].chain) >= 2 /\ Allowed(q)
        BY <2>1, <2>2 DEF Recorded, Typed, TypeOK, ChainWalked, Allowed
      <3>2. DOMAIN allowItems(inp[r]) = allowKeys(inp[r])  BY <3>1, AllowItemsType
      <3>3. ASSUME inp[r].txn = inp[q].txn, peak < inp[r].txn.exp
            PROVE  FALSE
        <4> DEFINE k == txnRecord(inp[q].role, inp[q].txn)
        <4>1. k \in DOMAIN allowItems(inp[r])
          BY <2>2, <3>1, <3>2, <3>3, AllowItemsExpiry
        <4>2. k \in DOMAIN allowItems(inp[r]) => conflict(allowItems(inp[r]))
          BY <2>1, <2>2, <3>1, <3>3, RecordsSurvive
        <4> QED  BY <2>1, <2>2, <4>1, <4>2
      <3>4. ASSUME Leaf(inp[r]).slice = Leaf(inp[q]).slice, Leaf(inp[r]).slice # NoSlice,
                   peak < Leaf(inp[r]).exp
            PROVE  FALSE
        <4> DEFINE k == sliceRecord(inp[q].role, Leaf(inp[q]).slice)
        <4>1. k \in DOMAIN allowItems(inp[r])
          BY <2>2, <3>1, <3>2, <3>4, AllowItemsExpiry
        <4>2. Leaf(inp[q]).exp = Leaf(inp[r]).exp
          <5>1. Len(inp[r].chain) \in DOMAIN inp[r].chain /\ Len(inp[q].chain) \in DOMAIN inp[q].chain
            BY <3>1, LeafFields
          <5> QED  BY <3>1, <3>4, <5>1, SliceAssumption DEF Leaf
        <4>3. k \in DOMAIN allowItems(inp[r]) => conflict(allowItems(inp[r]))
          BY <2>1, <2>2, <3>1, <3>4, <4>2, RecordsSurvive
        <4> QED  BY <2>1, <2>2, <4>1, <4>3
      <3> QED  BY <3>3, <3>4
    <2>3. ASSUME NEW p \in Requests, NEW q \in Requests, p # q, Allowed(p)', Allowed(q)',
                 inp[p].role = inp[q].role,
                 inp[p].txn = inp[q].txn,
                 decidedAt'[p] < inp[p].txn.exp, decidedAt'[q] < inp[q].txn.exp
          PROVE  FALSE
      <3>1. CASE p = r  BY <2>1, <2>2, <2>3, <3>1
      <3>2. CASE q = r  BY <2>1, <2>2, <2>3, <3>2
      <3>3. CASE p # r /\ q # r
        BY <2>1, <2>3, <3>3 DEF TxnSingleUse, Timely, SameRole
      <3> QED  BY <3>1, <3>2, <3>3
    <2>4. ASSUME NEW p \in Requests, NEW q \in Requests, p # q, Allowed(p)', Allowed(q)',
                 inp[p].role = inp[q].role,
                 Leaf(inp[p]).slice = Leaf(inp[q]).slice, Leaf(inp[p]).slice # NoSlice,
                 decidedAt'[p] < Leaf(inp[p]).exp, decidedAt'[q] < Leaf(inp[q]).exp
          PROVE  FALSE
      <3>1. CASE p = r  BY <2>1, <2>2, <2>4, <3>1
      <3>2. CASE q = r  BY <2>1, <2>2, <2>4, <3>2
      <3>3. CASE p # r /\ q # r
        BY <2>1, <2>4, <3>3 DEF SliceSingleUse, SameRole
      <3> QED  BY <3>1, <3>2, <3>3
    <2>5. TxnSingleUse'  BY <2>1, <2>3 DEF TxnSingleUse, Timely, SameRole
    <2>6. SliceSingleUse'  BY <2>1, <2>4 DEF SliceSingleUse, SameRole, Leaf
    <2> QED  BY <2>5, <2>6
  <1> QED  BY <1>2, <1>3

\* Of all presentations of one SPT-Txn at one kind of enforcement point at
\* most one is allowed before the token's expiry: for any number of
\* concurrent presentations and any adjustments of the wall clock.
THEOREM TxnUsedOnce == Spec => []TxnSingleUse
  <1>1. Init => TxnSingleUse /\ SliceSingleUse
    BY DEF Init, TxnSingleUse, SliceSingleUse, Timely, Allowed
  <1>2. Recorded /\ TxnSingleUse /\ SliceSingleUse /\ [Next]_vars
          => (TxnSingleUse /\ SliceSingleUse)'
    BY SingleUseStep
  <1> QED  BY <1>1, <1>2, RecordedInvariant, PTL DEF Spec

\* A committed sub-band slice is spent at most once before it expires,
\* whichever SPT-Txns draw on it.
THEOREM SliceUsedOnce == Spec => []SliceSingleUse
  <1>1. Init => TxnSingleUse /\ SliceSingleUse
    BY DEF Init, TxnSingleUse, SliceSingleUse, Timely, Allowed
  <1>2. Recorded /\ TxnSingleUse /\ SliceSingleUse /\ [Next]_vars
          => (TxnSingleUse /\ SliceSingleUse)'
    BY SingleUseStep
  <1> QED  BY <1>1, <1>2, RecordedInvariant, PTL DEF Spec

-----------------------------------------------------------------------------
\* A key that two presentations would both record names a common SPT-Txn or
\* a common slice at one enforcement point.
LEMMA SharedKey ==
    ASSUME NEW i \in Inputs, NEW j \in Inputs, Len(i.chain) >= 2, Len(j.chain) >= 2,
           NEW k \in allowKeys(i), k \in allowKeys(j)
    PROVE  /\ i.role = j.role
           /\ \/ /\ k = txnRecord(i.role, i.txn) /\ k = txnRecord(j.role, j.txn)
                 /\ i.txn = j.txn
              \/ /\ k # txnRecord(i.role, i.txn) /\ k # txnRecord(j.role, j.txn)
                 /\ Leaf(i).slice = Leaf(j).slice /\ Leaf(j).slice # NoSlice
  <1>1. /\ i.role \in Roles /\ j.role \in Roles
        /\ Leaf(i).slice \in SliceId /\ Leaf(j).slice \in SliceId
    BY InputFields, LeafFields
  <1> DEFINE ti == txnRecord(i.role, i.txn)
             tj == txnRecord(j.role, j.txn)
             si == sliceRecord(i.role, Leaf(i).slice)
             sj == sliceRecord(j.role, Leaf(j).slice)
  <1>2. k = ti \/ (k = si /\ Leaf(i).slice # NoSlice)  BY DEF allowKeys
  <1>3. k = tj \/ (k = sj /\ Leaf(j).slice # NoSlice)  BY DEF allowKeys
  <1>4. ti # sj /\ si # tj /\ ti # si /\ tj # sj  BY DEF txnRecord, sliceRecord
  <1>5. ti = tj => i.role = j.role /\ i.txn.jti = j.txn.jti
    BY <1>1 DEF txnRecord, Roles
  <1>6. si = sj => i.role = j.role /\ Leaf(i).slice = Leaf(j).slice
    <2> SUFFICES ASSUME si = sj PROVE i.role = j.role /\ Leaf(i).slice = Leaf(j).slice
      OBVIOUS
    <2>1. /\ i.role = j.role
          /\ Leaf(i).slice.root = Leaf(j).slice.root /\ Leaf(i).slice.leg = Leaf(j).slice.leg
      BY <1>1 DEF sliceRecord, Roles
    <2> QED  BY <1>1, <2>1 DEF SliceId
  <1>7. i.txn.jti = j.txn.jti => i.txn = j.txn  BY JtiAssumption
  <1>8. /\ i.role = j.role
        /\ \/ k = ti /\ k = tj /\ i.txn = j.txn
           \/ k # ti /\ k # tj /\ Leaf(i).slice = Leaf(j).slice /\ Leaf(j).slice # NoSlice
    <2> HIDE DEF ti, tj, si, sj
    <2> QED  BY <1>2, <1>3, <1>4, <1>5, <1>6, <1>7
  <1> QED  BY <1>8

\* What two presentations used alive does not meet.
UsesApart ==
    \A r, q \in Requests :
        r # q /\ Allowed(r) /\ Allowed(q) => usedAlive(r) \intersect usedAlive(q) = {}

LEMMA UsesStayApart == Typed /\ TxnSingleUse /\ SliceSingleUse => UsesApart
  <1> SUFFICES ASSUME Typed, TxnSingleUse, SliceSingleUse,
                      NEW r \in Requests, NEW q \in Requests, r # q, Allowed(r), Allowed(q),
                      NEW k \in usedAlive(r), k \in usedAlive(q)
               PROVE  FALSE
    BY DEF UsesApart
  <1> DEFINE i == inp[r]
             j == inp[q]
  <1>1. i \in Inputs /\ j \in Inputs /\ Len(i.chain) >= 2 /\ Len(j.chain) >= 2
    BY DEF Typed, TypeOK, ChainWalked, Allowed
  <1>2. k \in allowKeys(i) /\ k \in allowKeys(j)
    BY DEF usedAlive
  <1>3. CASE k = txnRecord(i.role, i.txn) /\ k = txnRecord(j.role, j.txn) /\ i.txn = j.txn
    <2>1. decidedAt[r] < i.txn.exp /\ decidedAt[q] < j.txn.exp
      BY <1>3 DEF usedAlive
    <2>2. i.role = j.role
      BY <1>1, <1>2, SharedKey
    <2> QED  BY <1>3, <2>1, <2>2 DEF TxnSingleUse, Timely, SameRole
  <1>4. CASE /\ k # txnRecord(i.role, i.txn) /\ k # txnRecord(j.role, j.txn)
             /\ Leaf(i).slice = Leaf(j).slice /\ Leaf(j).slice # NoSlice
    <2>1. decidedAt[r] < Leaf(i).exp /\ decidedAt[q] < Leaf(j).exp
      BY <1>4 DEF usedAlive
    <2>2. i.role = j.role
      BY <1>1, <1>2, SharedKey
    <2> QED  BY <1>4, <2>1, <2>2 DEF SliceSingleUse, SameRole
  <1> HIDE DEF i, j
  <1> QED  BY <1>1, <1>2, <1>3, <1>4, SharedKey

\* A step shows as one grant, or not at all.
LEMMA GrantingStep ==
    ASSUME Recorded, Recorded', UsesApart', [Next]_vars
    PROVE  [Uses!Next]_uses
  <1>1. TypeOK /\ PeakBounds
    BY DEF Recorded, Typed
  <1>2. CASE \A r \in Requests : ~Step5Record(r) /\ ~consumeOnAllow(r)
    <2>1. UNCHANGED <<inp, decidedAt>> /\ \A q \in Requests : Allowed(q)' <=> Allowed(q)
      BY <1>1, <1>2, QuietStep
    <2>2. \A q : usedAlive(q)' = usedAlive(q)
      BY <2>1 DEF usedAlive
    <2> QED  BY <2>1, <2>2 DEF uses
  <1>3. ASSUME NEW r \in Requests, Step5Record(r) \/ consumeOnAllow(r)
        PROVE  [Uses!Next]_uses
    <2>1. /\ inp' = inp /\ ~Allowed(r)
          /\ \A q \in Requests \ {r} : Allowed(q)' <=> Allowed(q)
          /\ \A q \in Requests \ {r} : decidedAt'[q] = decidedAt[q]
      BY <1>1, <1>3, ConsumingStep
    <2>2. \A q \in Requests \ {r} : usedAlive(q)' = usedAlive(q)
      BY <2>1 DEF usedAlive
    <2>3. CASE ~(Allowed(r)' /\ usedAlive(r)' # {})
      BY <2>1, <2>2, <2>3 DEF uses
    <2>4. CASE Allowed(r)' /\ usedAlive(r)' # {}
      <3> DEFINE K == usedAlive(r)'
      <3>1. uses' = uses \union {[holder |-> r, rights |-> K]}
        BY <2>1, <2>2, <2>4 DEF uses
      <3>2. ASSUME NEW g \in uses
            PROVE  g.holder # r /\ g.rights \intersect K = {}
        <4>1. PICK q \in Requests : Allowed(q) /\ g = [holder |-> q, rights |-> usedAlive(q)]
          BY <3>2 DEF uses
        <4>2. q # r /\ Allowed(q)' /\ usedAlive(q)' = usedAlive(q)
          BY <2>1, <2>2, <4>1
        <4>3. usedAlive(q)' \intersect usedAlive(r)' = {}
          BY <2>4, <4>2 DEF UsesApart
        <4> QED  BY <4>1, <4>2, <4>3
      <3>3. K \in SUBSET UNION {allowKeys(i) : i \in {j \in Inputs : Len(j.chain) >= 2}}
        <4>1. inp'[r] \in Inputs /\ Len(inp'[r].chain) >= 2
          BY <2>4 DEF Recorded, Typed, TypeOK, ChainWalked, Allowed
        <4>2. K \subseteq allowKeys(inp'[r])
          BY DEF usedAlive
        <4> QED  BY <4>1, <4>2
      <3>4. Uses!Grant(r, K)
        BY <2>4, <3>1, <3>2 DEF Uses!Grant
      <3> HIDE DEF K
      <3> QED  BY <3>3, <3>4 DEF Uses!Next
    <2> QED  BY <2>3, <2>4
  <1> QED  BY <1>2, <1>3

\* The engine implements SingleUse: whatever runs concurrently and however the
\* clocks and the registry change, an allowed presentation takes its SPT-Txn
\* and its slice together, as the first to take either of them at its kind of
\* enforcement point while they live, and keeps them (consumeOnAllow).
THEOREM EngineIsSingleUse == Spec => ImplementsSingleUse
  <1>1. Init => Uses!Init
    BY DEF Init, Uses!Init, uses, Allowed
  <1>2. Recorded /\ TxnSingleUse /\ SliceSingleUse => UsesApart
    BY UsesStayApart DEF Recorded
  <1>3. Recorded /\ Recorded' /\ UsesApart' /\ [Next]_vars => [Uses!Next]_uses
    BY GrantingStep
  <1> QED
    BY <1>1, <1>2, <1>3, RecordedInvariant, TxnUsedOnce, SliceUsedOnce, PTL
    DEF Spec, ImplementsSingleUse, Uses!Spec

\* Every step keeps the two properties of refusals.
LEMMA RefusalStep ==
    ASSUME Recorded, RefusedConsumesNothing, RefusalJustified, [Next]_vars
    PROVE  RefusedConsumesNothing' /\ RefusalJustified'
  <1>1. TypeOK /\ PeakBounds /\ ChainWalked  BY DEF Recorded, Typed
  <1>2. CASE \A r \in Requests : ~Step5Record(r) /\ ~consumeOnAllow(r)
    <2>1. /\ UNCHANGED <<seen, inp>> /\ \A q \in Requests : Allowed(q)' <=> Allowed(q)
          /\ \A q \in Requests : pc[q] # "deny" /\ pc'[q] = "deny" /\ step'[q] = 8 => inp[q].fault = 8
          /\ \A q \in Requests : pc[q] = "deny" => pc'[q] = "deny" /\ step'[q] = step[q]
      BY <1>1, <1>2, QuietStep
    <2>2. RefusedConsumesNothing'
      BY <2>1 DEF RefusedConsumesNothing, allowKeys, txnRecord, sliceRecord, Leaf
    <2>3. RefusalJustified'
      <3> SUFFICES ASSUME NEW r \in Requests, pc'[r] = "deny", step'[r] = 8, inp[r].fault = 0
                   PROVE  \E q \in Requests :
                             /\ Allowed(q)' /\ inp[q].role = inp[r].role
                             /\ \/ inp[q].txn = inp[r].txn
                                \/ /\ Leaf(inp[q]).slice = Leaf(inp[r]).slice
                                   /\ Leaf(inp[r]).slice # NoSlice
        BY <2>1 DEF RefusalJustified, SameRole, Leaf
      <3>1. pc[r] = "deny" /\ step[r] = 8  BY <2>1
      <3> QED  BY <2>1, <3>1 DEF RefusalJustified, SameRole
    <2> QED  BY <2>2, <2>3
  <1>3. ASSUME NEW r \in Requests, Step5Record(r)
        PROVE  RefusedConsumesNothing' /\ RefusalJustified'
    <2>1. /\ UNCHANGED inp /\ pc[r] = "record" /\ consumeAll(proofItems(inp[r].proof))
          /\ Goto(r, "cat") \/ deny(r, 5)
      BY <1>3 DEF Step5Record
    <2>2. /\ \A q \in Requests : Allowed(q)' <=> Allowed(q)
          /\ \A q \in Requests : pc'[q] = "deny" /\ step'[q] = 8 => pc[q] = "deny" /\ step[q] = 8
      BY <1>1, <2>1 DEF Goto, deny, TypeOK, Allowed
    <2>3. \A k \in DOMAIN seen' : k.kind # "proof" => k \in DOMAIN seen
      <3>1. inp[r] \in Inputs /\ mono \in Nat  BY <1>1 DEF TypeOK
      <3> QED  BY <2>1, <3>1, ProofItemsType, ConsumedRecords
    <2>4. RefusedConsumesNothing'
      BY <2>1, <2>2, <2>3 DEF RefusedConsumesNothing, allowKeys, txnRecord, sliceRecord, Leaf
    <2>5. RefusalJustified'
      BY <2>1, <2>2 DEF RefusalJustified, SameRole, Leaf
    <2> QED  BY <2>4, <2>5
  <1>4. ASSUME NEW r \in Requests, consumeOnAllow(r)
        PROVE  RefusedConsumesNothing' /\ RefusalJustified'
    <2> DEFINE items == allowItems(inp[r])
    <2>1. /\ UNCHANGED inp /\ pc[r] = "consume" /\ consumeAll(items)
          /\ \/ ~conflict(items) /\ Goto(r, "allow")
             \/ conflict(items) /\ deny(r, 8)
      BY <1>4 DEF consumeOnAllow
    <2>2. /\ inp[r] \in Inputs /\ wall \in Nat /\ mono \in Nat /\ Len(inp[r].chain) >= 2
      BY <1>1, <2>1 DEF TypeOK, ChainWalked
    <2>3. DOMAIN items = allowKeys(inp[r]) /\ \A k \in allowKeys(inp[r]) : k.kind # "proof"
      BY <2>2, AllowItemsType
    <2> HIDE DEF items
    <2>4. /\ \A q \in Requests : Allowed(q) => Allowed(q)'
          /\ ~conflict(items) => Allowed(r)'
          /\ \A q \in Requests : pc'[q] = "deny" /\ step'[q] = 8 =>
                (pc[q] = "deny" /\ step[q] = 8) \/ (q = r /\ conflict(items))
      BY <1>1, <2>1 DEF Goto, deny, TypeOK, Allowed
    <2>5. \A k \in DOMAIN seen' :
             k \in DOMAIN seen \/ (~conflict(items) /\ k \in allowKeys(inp[r]))
      BY <2>1, <2>3, ConsumedRecords
    <2>6. RefusedConsumesNothing'
      <3> SUFFICES ASSUME NEW k \in DOMAIN seen', k.kind # "proof"
                   PROVE  \E q \in Requests : Allowed(q)' /\ k \in allowKeys(inp[q])
        BY <2>1 DEF RefusedConsumesNothing, allowKeys, txnRecord, sliceRecord, Leaf
      <3>1. CASE k \in DOMAIN seen
        BY <2>4, <3>1 DEF RefusedConsumesNothing
      <3>2. CASE ~conflict(items) /\ k \in allowKeys(inp[r])
        BY <2>4, <3>2
      <3> QED  BY <2>5, <3>1, <3>2
    <2>7. RefusalJustified'
      <3> SUFFICES ASSUME NEW p \in Requests, pc'[p] = "deny", step'[p] = 8, inp[p].fault = 0
                   PROVE  \E q \in Requests :
                             /\ Allowed(q)' /\ inp[q].role = inp[p].role
                             /\ \/ inp[q].txn = inp[p].txn
                                \/ /\ Leaf(inp[q]).slice = Leaf(inp[p]).slice
                                   /\ Leaf(inp[p]).slice # NoSlice
        BY <2>1 DEF RefusalJustified, SameRole, Leaf
      <3>1. CASE pc[p] = "deny" /\ step[p] = 8
        BY <2>4, <3>1 DEF RefusalJustified, SameRole
      <3>2. CASE p = r /\ conflict(items)
        <4>1. PICK k \in allowKeys(inp[r]) : k \in DOMAIN seen
          BY <2>1, <2>3, <3>2, ConsumedRecords
        <4>2. PICK q \in Requests : Allowed(q) /\ k \in allowKeys(inp[q])
          BY <2>3, <4>1 DEF RefusedConsumesNothing
        <4>3. inp[q] \in Inputs /\ Len(inp[q].chain) >= 2
          BY <1>1, <4>2 DEF TypeOK, ChainWalked, Allowed
        <4> QED  BY <2>2, <2>4, <3>2, <4>1, <4>2, <4>3, SharedKey
      <3> QED  BY <2>4, <3>1, <3>2
    <2> QED  BY <2>6, <2>7
  <1> QED  BY <1>2, <1>3, <1>4

\* A refused presentation consumes neither the SPT-Txn nor its slice.
THEOREM RefusalsConsumeNothing == Spec => []RefusedConsumesNothing
  <1>1. Init => RefusedConsumesNothing /\ RefusalJustified
    BY DEF Init, RefusedConsumesNothing, RefusalJustified
  <1>2. Recorded /\ RefusedConsumesNothing /\ RefusalJustified /\ [Next]_vars
          => (RefusedConsumesNothing /\ RefusalJustified)'
    BY RefusalStep
  <1> QED  BY <1>1, <1>2, RecordedInvariant, PTL DEF Spec

\* A presentation is refused as already used only after one of the same
\* SPT-Txn or slice was allowed at the same kind of enforcement point.
THEOREM RefusalsAreJustified == Spec => []RefusalJustified
  <1>1. Init => RefusedConsumesNothing /\ RefusalJustified
    BY DEF Init, RefusedConsumesNothing, RefusalJustified
  <1>2. Recorded /\ RefusedConsumesNothing /\ RefusalJustified /\ [Next]_vars
          => (RefusedConsumesNothing /\ RefusalJustified)'
    BY RefusalStep
  <1> QED  BY <1>1, <1>2, RecordedInvariant, PTL DEF Spec

-----------------------------------------------------------------------------
(* Possession.  While nobody sets the wall clock both clocks and the peak  *)
(* are one, so a proof that passed step 5 is recorded for longer than it   *)
(* stays acceptable.                                                       *)

\* The clocks run together.
Steady == steps = 0 => wall = mono /\ peak = mono

\* A proof that is about to be recorded passed the check of its date.
ProofChecked ==
    \A r \in Requests :
        steps = 0 /\ pc[r] = "record" => inp[r].proof.iat <= wall + MaxFutureSkew

\* The record of a proof is held while the proof is acceptable.
ProofRecorded ==
    \A r \in possessed :
        steps = 0 /\ peak <= inp[r].proof.iat + ProofMaxAge =>
            LET k == proofRecord(inp[r].proof)
            IN  k \in DOMAIN seen /\ seen[k].mono > inp[r].proof.iat + ProofMaxAge

Possession == Typed /\ Steady /\ ProofChecked /\ ProofRecorded /\ ProofSingleUse

\* A record whose monotonic budget is not used up survives every consumeAll,
\* and makes one that names it a conflict.
LEMMA HeldProof ==
    ASSUME NEW items, consumeAll(items), NEW k \in DOMAIN seen,
           mono \in Nat, seen[k].mono \in Nat, mono < seen[k].mono
    PROVE  /\ k \in DOMAIN seen' /\ seen'[k] = seen[k]
           /\ k \in DOMAIN items => conflict(items)
  <1>1. k \in unexpired  BY DEF unexpired, expired
  <1>2. k \in DOMAIN items => conflict(items)  BY <1>1 DEF conflict
  <1>3. CASE conflict(items)  BY <1>1, <1>3, <1>2 DEF consumeAll
  <1>4. CASE ~conflict(items)
    <2>1. k \notin DOMAIN items  BY <1>2, <1>4
    <2> QED  BY <1>1, <1>2, <1>4, <2>1 DEF consumeAll
  <1> QED  BY <1>2, <1>3, <1>4

\* What a step that records no proof does to what possession rests on.
LEMMA NoProofStep ==
    ASSUME Typed, Steady, [Next]_vars, \A r \in Requests : ~Step5Record(r)
    PROVE  /\ UNCHANGED <<inp, possessed, possessedAt>> /\ Steady'
           /\ seen' = seen \/ \E items : consumeAll(items) /\ UNCHANGED <<wall, mono, peak, steps>>
           /\ steps' = 0 => steps = 0 /\ wall <= wall' /\ peak <= peak'
           /\ \A q \in Requests : steps' = 0 /\ pc'[q] = "record" =>
                 \/ pc[q] = "record"
                 \/ inp[q].proof.iat <= wall + MaxFutureSkew
  <1>t. /\ wall \in Nat /\ mono \in Nat /\ peak \in Nat /\ steps \in Nat
        /\ pc \in [Requests -> Stages]
    BY DEF Typed, TypeOK
  <1>1. ASSUME NEW r \in Requests, Verify(r)
        PROVE  /\ UNCHANGED <<inp, possessed, possessedAt, wall, mono, peak, steps>>
               /\ seen' = seen \/ \E items : consumeAll(items)
               /\ \A q \in Requests : pc'[q] = "record" =>
                     \/ pc[q] = "record"
                     \/ inp[q].proof.iat <= wall + MaxFutureSkew
    <2>1. CASE Present(r)
      BY <1>t, <2>1 DEF Present, Goto, clockVars
    <2>2. CASE step1Signature(r) \/ Step2(r) \/ step4Revocation(r) \/ Step4Status(r) \/ Bind(r)
      <3>1. UNCHANGED <<clockVars, active, seen, inp, hop, histVars>>
        BY <2>2 DEF step1Signature, Step2, step4Revocation, Step4Status, Bind, Check
      <3>2. pc' = [pc EXCEPT ![r] = pc'[r]] /\ pc'[r] # "record"
        BY <1>t, <2>2 DEF step1Signature, Step2, step4Revocation, Step4Status, Bind, Check,
                          Goto, deny
      <3> QED  BY <1>t, <3>1, <3>2 DEF clockVars, histVars
    <2>3. CASE Step5Proof(r)
      <3>1. UNCHANGED <<clockVars, active, seen, inp, hop, histVars>>
        BY <2>3 DEF Step5Proof, Check
      <3>2. /\ \A q \in Requests \ {r} : pc'[q] = pc[q]
            /\ pc'[r] = "record" => inp[r].proof.iat <= wall + MaxFutureSkew
        BY <1>t, <2>3 DEF Step5Proof, Check, Goto, deny, step5DPoP
      <3> QED  BY <3>1, <3>2 DEF clockVars, histVars
    <2>4. CASE Step6Cat(r) \/ Step6Hop(r)
      <3>1. /\ UNCHANGED <<clockVars, active, seen, inp, histVars>>
            /\ Goto(r, "hop") \/ Goto(r, "bind") \/ deny(r, 6)
        BY <2>4 DEF Step6Cat, Step6Hop
      <3> QED  BY <1>t, <3>1 DEF Goto, deny, clockVars, histVars
    <2>5. CASE consumeOnAllow(r)
      <3>1. /\ UNCHANGED <<clockVars, active, inp, possessed, possessedAt>>
            /\ Goto(r, "allow") \/ deny(r, 8)
            /\ consumeAll(allowItems(inp[r]))
        BY <2>5 DEF consumeOnAllow
      <3> QED  BY <1>t, <3>1 DEF Goto, deny, clockVars
    <2> QED  BY <1>1, <2>1, <2>2, <2>3, <2>4, <2>5 DEF Verify
  <1>2. CASE Tick
    BY <1>2, <1>t DEF Tick, PeakOf, Steady, engineVars, histVars
  <1>3. ASSUME NEW w \in 0..MaxTime, StepClock(w)
        PROVE  UNCHANGED <<seen, inp, possessed, possessedAt, pc>> /\ steps' # 0
    BY <1>3, <1>t DEF StepClock, engineVars, histVars
  <1>4. ASSUME NEW k \in SigKeys, Revoke(k) \/ Register(k)
        PROVE  UNCHANGED <<seen, inp, possessed, possessedAt, pc, wall, mono, peak, steps>>
    BY <1>4 DEF Revoke, Register, engineVars, clockVars, histVars
  <1>5. CASE UNCHANGED vars
    BY <1>5, <1>t DEF vars, Steady
  <1>6. CASE \E r \in Requests : Verify(r)
    BY <1>1, <1>6, <1>t DEF Steady
  <1>7. CASE \E w \in 0..MaxTime : StepClock(w)
    BY <1>3, <1>7 DEF Steady
  <1>8. CASE \E k \in SigKeys : Revoke(k) \/ Register(k)
    BY <1>4, <1>8, <1>t DEF Steady
  <1> QED  BY <1>2, <1>5, <1>6, <1>7, <1>8 DEF Next

\* The record of an acceptable proof outlives a consumeAll.
LEMMA ProofSurvives ==
    ASSUME Possession, NEW items, consumeAll(items), NEW r \in possessed,
           steps = 0, peak <= inp[r].proof.iat + ProofMaxAge
    PROVE  LET k == proofRecord(inp[r].proof)
           IN  /\ k \in DOMAIN seen' /\ seen'[k].mono > inp[r].proof.iat + ProofMaxAge
               /\ k \in DOMAIN items => conflict(items)
  <1> DEFINE k == proofRecord(inp[r].proof)
  <1>1. k \in DOMAIN seen /\ seen[k].mono > inp[r].proof.iat + ProofMaxAge
    BY DEF Possession, ProofRecorded
  <1>2. /\ mono \in Nat /\ mono = peak /\ seen[k].mono \in Nat
        /\ inp[r].proof.iat \in Nat
    <2>1. r \in Requests /\ inp[r] \in Inputs /\ seen[k] \in RecordExpiry /\ mono \in Nat
      BY <1>1 DEF Possession, Typed, TypeOK
    <2>2. inp[r].proof \in DPoPProof
      BY <2>1, InputFields
    <2> QED  BY <2>1, <2>2 DEF Possession, Steady, RecordExpiry, DPoPProof
  <1> HIDE DEF k
  <1>3. mono < seen[k].mono
    BY <1>1, <1>2, ConstantsAssumption
  <1>4. /\ k \in DOMAIN seen' /\ seen'[k].mono > inp[r].proof.iat + ProofMaxAge
        /\ k \in DOMAIN items => conflict(items)
    BY <1>1, <1>2, <1>3, HeldProof
  <1> QED  BY <1>4 DEF k

\* Every step keeps the records of the acceptable proofs, so none of them is
\* recorded again.
LEMMA PossessionStep == Possession /\ [Next]_vars => Possession'
  <1> SUFFICES ASSUME Possession, [Next]_vars  PROVE Possession'
    OBVIOUS
  <1>t. /\ inp \in [Requests -> Inputs] /\ possessed \subseteq Requests
        /\ wall \in Nat /\ mono \in Nat /\ peak \in Nat /\ peak' \in Nat /\ wall' \in Nat
        /\ pc \in [Requests -> Stages] /\ possessedAt \in [Requests -> Nat] /\ Typed'
        /\ \A r \in Requests : inp[r].proof.iat \in Nat
    <2>1. Typed'
      BY TypedStep DEF Possession
    <2>2. TypeOK
      BY DEF Possession, Typed
    <2>3. \A r \in Requests : inp[r].proof \in DPoPProof
      BY <2>2, InputFields DEF TypeOK
    <2> QED  BY <2>1, <2>2, <2>3 DEF Typed, TypeOK, DPoPProof
  <1>1. CASE \A r \in Requests : ~Step5Record(r)
    <2>1. /\ UNCHANGED <<inp, possessed, possessedAt>> /\ Steady'
          /\ seen' = seen \/ \E items : consumeAll(items) /\ UNCHANGED <<wall, mono, peak, steps>>
          /\ steps' = 0 => steps = 0 /\ wall <= wall' /\ peak <= peak'
          /\ \A q \in Requests : steps' = 0 /\ pc'[q] = "record" =>
                \/ pc[q] = "record"
                \/ inp[q].proof.iat <= wall + MaxFutureSkew
      BY <1>1, NoProofStep DEF Possession
    <2>2. ProofChecked'
      BY <1>t, <2>1, ConstantsAssumption DEF Possession, ProofChecked
    <2>3. ProofRecorded'
      <3> SUFFICES ASSUME NEW r \in possessed, steps' = 0,
                          peak' <= inp[r].proof.iat + ProofMaxAge
                   PROVE  LET k == proofRecord(inp[r].proof)
                          IN  /\ k \in DOMAIN seen'
                              /\ seen'[k].mono > inp[r].proof.iat + ProofMaxAge
        BY <2>1 DEF ProofRecorded, proofRecord
      <3>1. steps = 0 /\ peak <= inp[r].proof.iat + ProofMaxAge
        BY <1>t, <2>1, ConstantsAssumption
      <3>2. CASE seen' = seen
        BY <3>1, <3>2 DEF Possession, ProofRecorded
      <3>3. ASSUME NEW items, consumeAll(items)
            PROVE  LET k == proofRecord(inp[r].proof)
                   IN  k \in DOMAIN seen' /\ seen'[k].mono > inp[r].proof.iat + ProofMaxAge
        BY <3>1, <3>3, ProofSurvives
      <3> QED  BY <2>1, <3>2, <3>3
    <2>4. ProofSingleUse'
      BY <2>1 DEF Possession, ProofSingleUse, Fresh
    <2> QED  BY <1>t, <2>1, <2>2, <2>3, <2>4 DEF Possession
  <1>2. ASSUME NEW r \in Requests, Step5Record(r)
        PROVE  Possession'
    <2> DEFINE items == proofItems(inp[r].proof)
               key   == proofRecord(inp[r].proof)
    <2>1. /\ consumeAll(items) /\ pc[r] = "record"
          /\ UNCHANGED <<wall, mono, peak, steps, inp>>
          /\ \/ /\ ~conflict(items) /\ possessed' = possessed \union {r}
                /\ possessedAt' = [possessedAt EXCEPT ![r] = peak]
             \/ UNCHANGED <<possessed, possessedAt>>
          /\ Goto(r, "cat") \/ deny(r, 5)
      BY <1>2 DEF Step5Record, clockVars
    <2>2. DOMAIN items = {key} /\ items[key] = [mono |-> mono + proofRecordTTL, wall |-> 0]
      BY DEF proofItems
    <2> HIDE DEF items
    <2>3. Steady'
      BY <2>1 DEF Possession, Steady
    <2>4. ProofChecked'
      <3>1. pc'[r] # "record" /\ \A q \in Requests \ {r} : pc'[q] = pc[q]
        BY <1>t, <2>1 DEF Goto, deny
      <3> QED  BY <2>1, <3>1 DEF Possession, ProofChecked
    <2>5. ProofRecorded'
      <3> SUFFICES ASSUME NEW q \in possessed', steps = 0,
                          peak <= inp[q].proof.iat + ProofMaxAge
                   PROVE  LET k == proofRecord(inp[q].proof)
                          IN  /\ k \in DOMAIN seen'
                              /\ seen'[k].mono > inp[q].proof.iat + ProofMaxAge
        BY <2>1 DEF ProofRecorded, proofRecord
      <3>1. CASE q \in possessed
        BY <2>1, <3>1, ProofSurvives
      <3>2. CASE q \notin possessed
        <4>1. q = r /\ ~conflict(items)
          BY <2>1, <3>2
        <4>2. key \in DOMAIN seen' /\ seen'[key] = items[key]
          BY <2>1, <2>2, <4>1, ConsumedRecords
        <4>3. inp[r].proof.iat <= wall + MaxFutureSkew /\ wall = mono
          BY <2>1 DEF Possession, ProofChecked, Steady
        <4>4. items[key].mono = mono + ProofMaxAge + MaxFutureSkew + 1
          BY <1>t, <2>2, ConstantsAssumption DEF proofRecordTTL
        <4>5. items[key].mono > inp[r].proof.iat + ProofMaxAge
          BY <1>t, <4>3, <4>4, ConstantsAssumption
        <4> QED  BY <4>1, <4>2, <4>5
      <3> QED  BY <3>1, <3>2
    <2>6. ProofSingleUse'
      <3> SUFFICES ASSUME steps = 0, NEW p \in Requests, NEW q \in Requests,
                          Fresh(p)', Fresh(q)', inp[p].proof = inp[q].proof
                   PROVE  p = q
        BY <2>1 DEF ProofSingleUse
      <3>1. CASE UNCHANGED <<possessed, possessedAt>>
        BY <2>1, <3>1 DEF Possession, ProofSingleUse, Fresh
      <3>2. CASE /\ ~conflict(items) /\ possessed' = possessed \union {r}
                 /\ possessedAt' = [possessedAt EXCEPT ![r] = peak]
        \* Another fresh presentation of r's proof would have its record.
        <4>1. ASSUME NEW x \in possessed, x # r, Fresh(r)', inp[x].proof = inp[r].proof
              PROVE  FALSE
          <5>1. peak <= inp[x].proof.iat + ProofMaxAge
            BY <1>t, <2>1, <3>2, <4>1 DEF Fresh
          <5>2. key \in DOMAIN items => conflict(items)
            BY <2>1, <4>1, <5>1, ProofSurvives
          <5> QED  BY <2>2, <3>2, <5>2
        <4>2. ASSUME NEW x \in Requests \ {r}, Fresh(x)'
              PROVE  x \in possessed /\ Fresh(x)
          BY <1>t, <2>1, <3>2, <4>2 DEF Fresh
        <4>3. CASE p = r /\ q # r
          BY <4>1, <4>2, <4>3
        <4>4. CASE p # r /\ q = r
          BY <4>1, <4>2, <4>4
        <4>5. CASE p # r /\ q # r
          BY <4>2, <4>5 DEF Possession, ProofSingleUse
        <4> QED  BY <4>3, <4>4, <4>5
      <3> QED  BY <2>1, <3>1, <3>2
    <2> QED  BY <1>t, <2>3, <2>4, <2>5, <2>6 DEF Possession
  <1> QED  BY <1>1, <1>2

\* ProofSingleUse for any number of presentations, proofs and record windows:
\* while the wall clock is not adjusted no fresh DPoP proof establishes
\* possession twice (step5DPoP, proofRecordTTL).
THEOREM ProofUsedOnce == Spec => []ProofSingleUse
  <1>1. Init => Possession
    <2> SUFFICES ASSUME Init  PROVE Possession
      OBVIOUS
    <2>1. Typed
      BY ConstantsAssumption
      DEF Init, Typed, TypeOK, ChainWalked, Stages, RecordKey, RecordExpiry
    <2>2. \A r \in Requests : pc[r] # "record"
      BY DEF Init
    <2> QED  BY <2>1, <2>2 DEF Init, Possession, Steady, ProofChecked, ProofRecorded,
                               ProofSingleUse, Fresh
  <1>2. Possession => ProofSingleUse
    BY DEF Possession
  <1> QED  BY <1>1, <1>2, PossessionStep, PTL DEF Spec

-----------------------------------------------------------------------------
(* Authority.  A presentation carries along the chain what it has checked: *)
(* the keys and entries of the tokens it passed, that their windows had    *)
(* opened, and that the last of them expires first.                        *)

\* Token n of presentation r was found signed by a current key, and its entry
\* was read where the path reads one.
Vouched(r, n) ==
    /\ inp[r].chain[n].key \in lookedUp[r]
    /\ ~inp[r].zk => inp[r].chain[n].jti \notin Listed \cap Revoked

\* Token n of r opened by t and does not expire before token m.
Outlives(r, n, m, t) ==
    /\ inp[r].chain[m].exp <= inp[r].chain[n].exp
    /\ inp[r].chain[n].nbf <= t

\* What presentation r has checked when it stands at its stage.
Walk(r) ==
    /\ pc[r] # "idle" => active \subseteq lookedUp[r]
    /\ pc[r] \notin {"idle", "step1", "deny"} => inp[r].txn.key \in lookedUp[r]
    /\ pc[r] \in {"step5", "record", "cat", "hop", "bind", "consume", "allow"} =>
          inp[r].txn.jti \notin Listed \cap Revoked
    /\ pc[r] = "hop" =>
          /\ hop[r] \in 2 .. Len(inp[r].chain)
          /\ inp[r].zk => hop[r] = Len(inp[r].chain) /\ Vouched(r, 1)
          /\ ~inp[r].zk => \A n \in 1 .. hop[r] - 1 :
                              Vouched(r, n) /\ Outlives(r, n, hop[r] - 1, peak)
    /\ pc[r] \in {"bind", "consume", "allow"} =>
          /\ \A n \in Presented(inp[r]) : Vouched(r, n)
          /\ ~inp[r].zk => \A n \in DOMAIN inp[r].chain :
                Outlives(r, n, Len(inp[r].chain),
                         IF pc[r] = "allow" THEN decidedAt[r] ELSE peak)
    /\ pc[r] \in {"consume", "allow"} => inp[r].txn.exp <= Leaf(inp[r]).exp

Walks == Typed /\ PeakBounds /\ \A r \in Requests : Walk(r)

\* The tokens of a chain.
LEMMA ChainFields ==
    ASSUME NEW i \in Inputs
    PROVE  /\ Len(i.chain) \in Nat /\ DOMAIN i.chain = 1 .. Len(i.chain)
           /\ \A n \in DOMAIN i.chain :
                 i.chain[n].exp \in Nat /\ i.chain[n].nbf \in Nat
           /\ i.txn.exp \in Nat /\ i.zk \in BOOLEAN
  <1>1. i.chain \in Seq(CapToken) /\ i.txn.exp \in Nat /\ i.zk \in BOOLEAN
    BY InputFields
  <1>2. \A n \in DOMAIN i.chain : i.chain[n] \in CapToken
    BY <1>1
  <1>3. \A c \in CapToken : c.exp \in Nat /\ c.nbf \in Nat
    BY DEF CapToken
  <1> QED  BY <1>1, <1>2, <1>3

\* A presentation keeps what it has checked while it does not move: keys are
\* only added to what it looked up, and the peak only rises.
LEMMA WalkKept ==
    ASSUME Walks, NEW r \in Requests, Walk(r),
           inp' = inp, pc'[r] = pc[r], hop'[r] = hop[r], decidedAt'[r] = decidedAt[r],
           peak \in Nat, peak' \in Nat, peak <= peak',
           pc[r] # "idle" => lookedUp[r] \subseteq lookedUp'[r] /\ active' \subseteq lookedUp'[r]
    PROVE  Walk(r)'
  <1>i. inp[r] \in Inputs /\ hop[r] \in Nat
    BY DEF Walks, Typed, TypeOK
  <1>c. /\ Len(inp[r].chain) \in Nat /\ DOMAIN inp[r].chain = 1 .. Len(inp[r].chain)
        /\ \A n \in DOMAIN inp[r].chain :
              inp[r].chain[n].exp \in Nat /\ inp[r].chain[n].nbf \in Nat
    BY <1>i, ChainFields
  <1>1. pc[r] # "idle" => \A n : Vouched(r, n) => Vouched(r, n)'
    BY DEF Vouched
  <1>2. \A n \in DOMAIN inp[r].chain : \A m :
            Outlives(r, n, m, peak) => Outlives(r, n, m, peak)'
    BY <1>c DEF Outlives
  <1>3. \A n, m : Outlives(r, n, m, decidedAt[r]) => Outlives(r, n, m, decidedAt[r])'
    BY DEF Outlives
  <1>4. pc'[r] = "hop" =>
          /\ hop'[r] \in 2 .. Len(inp'[r].chain)
          /\ inp'[r].zk => hop'[r] = Len(inp'[r].chain) /\ Vouched(r, 1)'
          /\ ~inp'[r].zk => \A n \in 1 .. hop'[r] - 1 :
                              Vouched(r, n)' /\ Outlives(r, n, hop[r] - 1, peak)'
    <2> SUFFICES ASSUME pc[r] = "hop"
                 PROVE  /\ hop[r] \in 2 .. Len(inp[r].chain)
                        /\ inp[r].zk => hop[r] = Len(inp[r].chain) /\ Vouched(r, 1)'
                        /\ ~inp[r].zk => \A n \in 1 .. hop[r] - 1 :
                              Vouched(r, n)' /\ Outlives(r, n, hop[r] - 1, peak)'
      OBVIOUS
    <2>1. \A n \in 1 .. hop[r] - 1 : n \in DOMAIN inp[r].chain
      BY <1>i, <1>c DEF Walk
    <2>2. ASSUME ~inp[r].zk, NEW n \in 1 .. hop[r] - 1
          PROVE  Vouched(r, n)' /\ Outlives(r, n, hop[r] - 1, peak)'
      BY <1>1, <1>2, <2>1, <2>2 DEF Walk
    <2> QED  BY <1>1, <2>2 DEF Walk
  <1>5. pc[r] \in {"bind", "consume", "allow"} =>
          /\ \A n \in Presented(inp[r]) : Vouched(r, n)'
          /\ ~inp[r].zk => \A n \in DOMAIN inp[r].chain :
                Outlives(r, n, Len(inp[r].chain),
                         IF pc[r] = "allow" THEN decidedAt[r] ELSE peak)'
    <2>1. CASE pc[r] = "allow"
      BY <1>1, <1>3, <2>1 DEF Walk
    <2>2. CASE pc[r] \in {"bind", "consume"}
      BY <1>1, <1>2, <2>2 DEF Walk
    <2> QED  BY <2>1, <2>2
  <1>6. /\ pc'[r] # "idle" => active' \subseteq lookedUp'[r]
        /\ pc'[r] \notin {"idle", "step1", "deny"} => inp'[r].txn.key \in lookedUp'[r]
        /\ pc'[r] \in {"step5", "record", "cat", "hop", "bind", "consume", "allow"} =>
              inp'[r].txn.jti \notin Listed \cap Revoked
        /\ pc'[r] \in {"consume", "allow"} => inp'[r].txn.exp <= Leaf(inp'[r]).exp
    BY DEF Walk
  <1> QED  BY <1>4, <1>5, <1>6 DEF Walk, Vouched, Outlives

\* A step of a presentation: what it finds goes with it.
LEMMA WalkMoves ==
    ASSUME Walks, NEW r \in Requests, Verify(r)
    PROVE  Walk(r)'
  <1>t. /\ inp[r] \in Inputs /\ hop[r] \in Nat /\ wall \in Nat /\ peak \in Nat
        /\ wall <= peak /\ Walk(r)
        /\ pc \in [Requests -> Stages] /\ hop \in [Requests -> Nat]
        /\ lookedUp \in [Requests -> SUBSET SigKeys] /\ decidedAt \in [Requests -> Nat]
    BY DEF Walks, Typed, TypeOK, PeakBounds
  <1>c. /\ Len(inp[r].chain) \in Nat /\ DOMAIN inp[r].chain = 1 .. Len(inp[r].chain)
        /\ \A n \in DOMAIN inp[r].chain :
              inp[r].chain[n].exp \in Nat /\ inp[r].chain[n].nbf \in Nat
        /\ inp[r].zk \in BOOLEAN
    BY <1>t, ChainFields
  <1>d. ASSUME pc'[r] = "deny", UNCHANGED <<inp, active, lookedUp>>, pc[r] # "idle"
        PROVE  Walk(r)'
    BY <1>d, <1>t DEF Walk
  <1>1. CASE Present(r)
    <2>1. pc'[r] = "step1" /\ lookedUp'[r] = active /\ active' = active
      BY <1>1, <1>t DEF Present, Goto
    <2> QED  BY <2>1 DEF Walk
  <1>2. CASE step1Signature(r) \/ Step2(r) \/ step4Revocation(r) \/ Step4Status(r) \/ Step5Proof(r)
    <2>1. /\ UNCHANGED <<inp, active, lookedUp>> /\ pc[r] # "idle"
          /\ pc[r] # "step1" => pc[r] \notin {"idle", "step1", "deny"}
          /\ \/ pc'[r] = "deny"
             \/ /\ pc'[r] \in {"step2", "step4", "status", "step5", "record", "cat"}
                /\ pc[r] = "step1" => inp[r].txn.key \in active
                /\ pc'[r] \in {"step5", "record", "cat"} =>
                      \/ pc[r] = "step5"
                      \/ inp[r].txn.jti \notin Listed \cap Revoked
      BY <1>2, <1>t DEF step1Signature, Step2, step4Revocation, Step4Status, Step5Proof,
                        Check, Goto, deny, histVars, resolveKey, checkStatus
    <2> QED  BY <2>1, <1>d, <1>t DEF Walk
  <1>3. CASE Step5Record(r)
    <2>1. /\ UNCHANGED <<inp, active, lookedUp>> /\ pc[r] = "record"
          /\ pc'[r] \in {"cat", "deny"}
      BY <1>3, <1>t DEF Step5Record, Goto, deny
    <2> QED  BY <2>1, <1>t DEF Walk
  <1>4. CASE Step6Cat(r)
    <2>1. /\ UNCHANGED <<inp, active, lookedUp, peak>> /\ pc[r] = "cat"
          /\ \/ pc'[r] = "deny"
             \/ /\ pc'[r] = "hop" /\ catOK(inp[r])
                /\ hop'[r] = IF inp[r].zk THEN Len(inp[r].chain) ELSE 2
      BY <1>4, <1>t DEF Step6Cat, Goto, deny, histVars, clockVars
    <2>2. CASE pc'[r] = "hop" /\ catOK(inp[r])
      <3>1. /\ Len(inp[r].chain) >= 2 /\ inp[r].chain[1].key \in active
            /\ inp[r].chain[1].nbf # 0 => wall >= inp[r].chain[1].nbf
            /\ ~inp[r].zk => inp[r].chain[1].jti \notin Listed \cap Revoked
        BY <2>2 DEF catOK, verifyChainToken, resolveKey, checkChainTokenTemporal, checkStatus
      <3>2. inp[r].chain[1].exp \in Nat /\ inp[r].chain[1].nbf \in Nat
        BY <1>c, <3>1
      <3>3. Vouched(r, 1)' /\ inp[r].chain[1].nbf <= peak
        BY <1>t, <2>1, <3>1, <3>2 DEF Vouched, Walk
      <3>4. hop'[r] \in 2 .. Len(inp[r].chain) /\ (~inp[r].zk => 1 .. hop'[r] - 1 = {1})
        BY <1>c, <2>1, <2>2, <3>1
      <3> QED  BY <1>t, <1>c, <2>1, <2>2, <3>2, <3>3, <3>4 DEF Walk, Vouched, Outlives
    <2> QED  BY <2>1, <2>2, <1>d
  <1>5. CASE Step6Hop(r)
    <2> DEFINE h == hop[r]
               c == inp[r].chain[h]
    <2>1. /\ UNCHANGED <<inp, active, lookedUp, peak>> /\ pc[r] = "hop"
          /\ \/ pc'[r] = "deny"
             \/ /\ \/ pc'[r] = "bind" /\ h = Len(inp[r].chain)
                   \/ pc'[r] = "hop" /\ h < Len(inp[r].chain) /\ hop'[r] = h + 1
                /\ IF inp[r].zk THEN zkLeafOK(c) ELSE hopOK(inp[r].chain[h - 1], c)
      BY <1>5, <1>t DEF Step6Hop, Goto, deny, histVars, clockVars
    <2>2. h \in 2 .. Len(inp[r].chain) /\ h \in DOMAIN inp[r].chain /\ h - 1 \in DOMAIN inp[r].chain
      BY <1>t, <1>c, <2>1 DEF Walk
    <2>3. c.exp \in Nat /\ c.nbf \in Nat
      BY <1>c, <2>2
    <2>4. active \subseteq lookedUp[r] /\ inp[r].txn.key \in lookedUp[r]
          /\ inp[r].txn.jti \notin Listed \cap Revoked
      BY <1>t, <2>1 DEF Walk
    <2>5. CASE pc'[r] # "deny" /\ inp[r].zk
      <3>1. h = Len(inp[r].chain) /\ Vouched(r, 1) /\ c.key \in active
        BY <1>t, <2>1, <2>5 DEF Walk, zkLeafOK, verifyChainToken, resolveKey
      <3>2. pc'[r] = "bind" /\ Presented(inp[r]) = {1, h}
        BY <1>c, <2>1, <2>2, <2>5, <3>1 DEF Presented
      <3> QED  BY <2>1, <2>4, <2>5, <3>1, <3>2 DEF Walk, Vouched
    <2>6. CASE pc'[r] # "deny" /\ ~inp[r].zk
      <3>1. /\ c.key \in active /\ c.exp <= inp[r].chain[h - 1].exp
            /\ c.nbf # 0 => wall >= c.nbf
            /\ c.jti \notin Listed \cap Revoked
        BY <2>1, <2>6 DEF hopOK, verifyChainToken, resolveKey, checkChainTokenTemporal,
                          checkStatus
      <3>2. \A n \in 1 .. h - 1 : Vouched(r, n) /\ Outlives(r, n, h - 1, peak)
        BY <1>t, <2>1, <2>6 DEF Walk
      <3>3. \A n \in 1 .. h : Vouched(r, n) /\ Outlives(r, n, h, peak)
        <4>1. ASSUME NEW n \in 1 .. h - 1
              PROVE  Vouched(r, n) /\ Outlives(r, n, h, peak)
          <5>1. n \in DOMAIN inp[r].chain
            BY <1>c, <2>2
          <5>2. Vouched(r, n) /\ Outlives(r, n, h - 1, peak)
            BY <3>2, <4>1
          <5>3. /\ c.exp \in Nat /\ inp[r].chain[h - 1].exp \in Nat
                /\ inp[r].chain[n].exp \in Nat
            BY <1>c, <2>2, <2>3, <5>1
          <5>4. c.exp <= inp[r].chain[n].exp /\ inp[r].chain[n].nbf <= peak
            BY <3>1, <5>2, <5>3 DEF Outlives
          <5> QED  BY <5>2, <5>4 DEF Outlives
        <4>2. Vouched(r, h) /\ Outlives(r, h, h, peak)
          BY <1>t, <2>3, <2>4, <3>1 DEF Vouched, Outlives
        <4> QED  BY <2>2, <4>1, <4>2
      <3>4. CASE pc'[r] = "bind"
        <4>1. h = Len(inp[r].chain) /\ Presented(inp[r]) = 1 .. h /\ DOMAIN inp[r].chain = 1 .. h
          BY <1>c, <2>1, <2>6, <3>4 DEF Presented
        <4> QED  BY <2>1, <2>4, <2>6, <3>3, <3>4, <4>1 DEF Walk, Vouched, Outlives
      <3>5. CASE pc'[r] = "hop"
        <4>1. hop'[r] = h + 1 /\ hop'[r] \in 2 .. Len(inp[r].chain) /\ hop'[r] - 1 = h
          BY <1>c, <2>1, <2>2, <3>5
        <4> QED  BY <2>1, <2>4, <2>6, <3>3, <3>5, <4>1 DEF Walk, Vouched, Outlives
      <3> QED  BY <2>1, <2>6, <3>4, <3>5
    <2> QED  BY <1>c, <2>1, <2>5, <2>6, <1>d
  <1>6. CASE Bind(r)
    <2>1. /\ UNCHANGED <<inp, active, lookedUp, peak>> /\ pc[r] = "bind"
          /\ pc'[r] = "deny" \/ (pc'[r] = "consume" /\ inp[r].txn.exp <= Leaf(inp[r]).exp)
      BY <1>6, <1>t DEF Bind, Goto, deny, boundToLeaf, histVars, clockVars
    <2>2. CASE pc'[r] = "consume"
      BY <2>1, <2>2, <1>t DEF Walk, Vouched, Outlives, Presented, Leaf
    <2> QED  BY <2>1, <2>2, <1>d
  <1>7. CASE consumeOnAllow(r)
    <2>1. /\ UNCHANGED <<inp, active, lookedUp, peak>> /\ pc[r] = "consume"
          /\ pc'[r] = "deny" \/ (pc'[r] = "allow" /\ decidedAt'[r] = peak)
      BY <1>7, <1>t DEF consumeOnAllow, Goto, deny, clockVars
    <2>2. CASE pc'[r] = "allow"
      BY <2>1, <2>2, <1>t DEF Walk, Vouched, Outlives, Presented, Leaf
    <2> QED  BY <2>1, <2>2, <1>d
  <1> QED  BY <1>1, <1>2, <1>3, <1>4, <1>5, <1>6, <1>7 DEF Verify

\* Every step keeps what each presentation has checked.
LEMMA WalkStep == Walks /\ [Next]_vars => Walks'
  <1> SUFFICES ASSUME Walks, [Next]_vars  PROVE Walks'
    OBVIOUS
  <1>t. /\ TypeOK /\ Typed' /\ peak \in Nat /\ peak' \in Nat
        /\ pc \in [Requests -> Stages] /\ hop \in [Requests -> Nat]
        /\ decidedAt \in [Requests -> Nat] /\ lookedUp \in [Requests -> SUBSET SigKeys]
        /\ wall \in Nat /\ wall <= peak /\ (\A r \in Requests : decidedAt[r] <= peak)
        /\ \A r \in Requests : Walk(r)
    <2>1. Typed'
      BY TypedStep DEF Walks
    <2> QED  BY <2>1 DEF Walks, Typed, TypeOK, PeakBounds
  <1>a. \A q \in Requests : pc[q] # "idle" => active \subseteq lookedUp[q]
    BY <1>t DEF Walk
  <1>1. ASSUME NEW r \in Requests, Verify(r)
        PROVE  Walks'
    <2>1. /\ UNCHANGED <<inp, wall, peak, active>>
          /\ decidedAt' = decidedAt \/ decidedAt' = [decidedAt EXCEPT ![r] = peak]
          /\ \A q \in Requests \ {r} :
                /\ pc'[q] = pc[q] /\ hop'[q] = hop[q] /\ decidedAt'[q] = decidedAt[q]
                /\ lookedUp'[q] = lookedUp[q]
      <3>1. CASE Present(r)
        BY <1>t, <3>1 DEF Present, Goto, clockVars
      <3>2. CASE CheckStage(r)
        <4>1. UNCHANGED <<clockVars, active, seen, inp, hop, histVars>>
          BY <1>t, <3>2, CheckStages
        <4>2. (\E stage : Goto(r, stage)) \/ (\E n : deny(r, n))
          BY <1>t, <3>2, CheckStages
        <4> QED  BY <1>t, <4>1, <4>2 DEF Goto, deny, clockVars, histVars
      <3>3. CASE Step5Record(r)
        BY <1>t, <3>3 DEF Step5Record, Goto, deny, clockVars
      <3>4. CASE Step6Cat(r)
        BY <1>t, <3>4 DEF Step6Cat, Goto, deny, clockVars, histVars
      <3>5. CASE Step6Hop(r)
        BY <1>t, <3>5 DEF Step6Hop, Goto, deny, clockVars, histVars
      <3>6. CASE consumeOnAllow(r)
        BY <1>t, <3>6 DEF consumeOnAllow, Goto, deny, clockVars
      <3> QED  BY <1>1, <3>1, <3>2, <3>3, <3>4, <3>5, <3>6 DEF Verify, CheckStage
    <2>2. PeakBounds'
      BY <1>t, <2>1 DEF PeakBounds
    <2>3. ASSUME NEW q \in Requests \ {r}  PROVE Walk(q)'
      BY <1>t, <1>a, <2>1, <2>3, WalkKept
    <2>4. Walk(r)'
      BY <1>1, WalkMoves
    <2> QED  BY <1>t, <2>2, <2>3, <2>4 DEF Walks
  <1>2. ASSUME UNCHANGED <<inp, pc, hop, decidedAt>>, peak <= peak', wall' <= peak',
               \A q \in Requests : pc[q] # "idle" =>
                   lookedUp[q] \subseteq lookedUp'[q] /\ active' \subseteq lookedUp'[q]
        PROVE  Walks'
    <2>1. PeakBounds'
      BY <1>t, <1>2 DEF PeakBounds
    <2>2. ASSUME NEW q \in Requests  PROVE Walk(q)'
      BY <1>t, <1>2, <2>2, WalkKept
    <2> QED  BY <1>t, <2>1, <2>2 DEF Walks
  <1>3. CASE Tick
    BY <1>2, <1>3, <1>t, <1>a DEF Tick, PeakOf, engineVars, histVars
  <1>4. ASSUME NEW w \in 0..MaxTime, StepClock(w)
        PROVE  Walks'
    BY <1>2, <1>4, <1>t, <1>a, ConstantsAssumption DEF StepClock, PeakOf, engineVars, histVars
  <1>5. ASSUME NEW k \in SigKeys, Revoke(k) \/ Register(k)
        PROVE  Walks'
    <2>1. /\ UNCHANGED <<inp, pc, hop, decidedAt, peak, wall>>
          /\ \A q \in Requests : pc[q] # "idle" =>
                lookedUp[q] \subseteq lookedUp'[q] /\ active' \subseteq lookedUp'[q]
      BY <1>5, <1>a DEF Revoke, Register, engineVars, clockVars, histVars
    <2> QED  BY <1>2, <1>t, <2>1
  <1>6. CASE UNCHANGED vars
    BY <1>2, <1>6, <1>t, <1>a DEF vars
  <1> QED  BY <1>1, <1>3, <1>4, <1>5, <1>6 DEF Next

LEMMA WalksInvariant == Spec => []Walks
  <1>1. Init => Walks
    <2> SUFFICES ASSUME Init  PROVE Walks
      OBVIOUS
    <2>1. Typed
      BY ConstantsAssumption
      DEF Init, Typed, TypeOK, ChainWalked, Stages, RecordKey, RecordExpiry
    <2>2. PeakBounds /\ \A r \in Requests : pc[r] = "idle"
      BY DEF Init, PeakBounds
    <2> QED  BY <2>1, <2>2 DEF Walks, Walk
  <1> QED  BY <1>1, WalkStep, PTL DEF Spec

\* AuthorityCurrent for chains of any length, any keys and any registry
\* changes: what is allowed was signed, link by link, by keys that were active
\* while it ran, and no entry read on the way is revoked (resolveKey,
\* checkStatus).
THEOREM AuthorityIsCurrent == Spec => []AuthorityCurrent
  <1>1. Walks => AuthorityCurrent
    BY DEF Walks, Walk, Vouched, AuthorityCurrent, Allowed
  <1> QED  BY <1>1, WalksInvariant, PTL

\* LiveAncestors for chains of any length and any clock: an SPT-Txn that is
\* live at the decision has no ancestor that is expired or not yet open,
\* although the last reading of the clock is older (step6Chain).
THEOREM AncestorsAreLive == Spec => []LiveAncestors
  <1>1. Walks => LiveAncestors
    <2> SUFFICES ASSUME Walks, NEW r \in Requests, Timely(r), ~inp[r].zk,
                        NEW n \in DOMAIN inp[r].chain
                 PROVE  /\ decidedAt[r] < inp[r].chain[n].exp
                        /\ inp[r].chain[n].nbf <= decidedAt[r]
      BY DEF LiveAncestors
    <2>1. /\ inp[r] \in Inputs /\ decidedAt[r] \in Nat /\ Walk(r) /\ pc[r] = "allow"
          /\ decidedAt[r] < inp[r].txn.exp /\ Len(inp[r].chain) >= 2
      BY DEF Walks, Typed, TypeOK, Timely, Allowed, ChainWalked
    <2>2. /\ inp[r].txn.exp \in Nat /\ inp[r].chain[n].exp \in Nat
          /\ Leaf(inp[r]).exp \in Nat
      BY <2>1, ChainFields, LeafFields
    <2>3. /\ inp[r].txn.exp <= Leaf(inp[r]).exp
          /\ Outlives(r, n, Len(inp[r].chain), decidedAt[r])
      BY <2>1 DEF Walk
    <2> QED  BY <2>1, <2>2, <2>3 DEF Outlives, Leaf
  <1> QED  BY <1>1, WalksInvariant, PTL


=============================================================================
