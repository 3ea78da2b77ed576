---------------------------- MODULE DeanonProofs -----------------------------
(***************************************************************************)
(* Proofs about Deanon, for any anchors, identities, requests and          *)
(* goroutines, and any window, tolerance and stall.                        *)
(*                                                                         *)
(* The argument of single use: a request granted at n is recorded until    *)
(* n + MaxAge.  A goroutine that could prune that record has read a later  *)
(* time, and by then no goroutine that waits for the lock has an           *)
(* admissible reading for the request: none stalls for longer than the     *)
(* request was old.                                                        *)
(***************************************************************************)
EXTENDS Deanon, SequenceTheorems, TLAPS

\* What a goroutine that was admitted works on.
Job == [stage : {"guard", "open"}, req : Requests, wall : Nat, mono : Nat]

Grant == [req : Requests, identity : Identities, wall : Nat]

\* The types, with the shape of the records.
Typed ==
    /\ TypeOK
    /\ work \in [Workers -> {Idle} \union Job]
    /\ grants \in Seq(Grant)
    /\ presented \in Nat /\ faults \in Nat /\ stepped \in BOOLEAN

\* What was recovered is what the vault still holds.
FromVault ==
    \A i \in DOMAIN grants :
        /\ grants[i].req.anchor \in DOMAIN vault
        /\ grants[i].identity = vault[grants[i].req.anchor]

VaultInv == Typed /\ FromVault

\* The fields of the values that are passed on.
LEMMA Fields ==
    /\ \A q \in Requests : q.anchor \in Anchors /\ q.issued \in Nat
    /\ \A j \in Job : /\ j.stage \in {"guard", "open"} /\ j.req \in Requests
                      /\ j.wall \in Nat /\ j.mono \in Nat
    /\ \A g \in Grant : g.req \in Requests /\ g.identity \in Identities /\ g.wall \in Nat
    /\ Idle.stage = "idle" /\ Idle \notin Job
    /\ DOMAIN Empty = {}
    /\ MaxAge \in Nat \ {0} /\ FutureTolerance \in Nat /\ MaxStall \in Nat
  BY DeanonAssumption DEF IsRequest, Job, Grant, Idle, Empty

\* The section under the lock: the request is refused, or it is recorded and
\* goes on.
LEMMA GuardOutcome ==
    ASSUME Typed, NEW w \in Workers, guard(w)
    PROVE  LET n == work[w].mono
               q == work[w].req
           IN  /\ work[w] \in Job /\ work[w].stage = "guard"
               /\ UNCHANGED <<wall, mono, vault, presented, faults, stepped, grants>>
               /\ DOMAIN seen' \subseteq DOMAIN seen \union {q}
               /\ \A p \in DOMAIN seen : ~(n > seen[p]) /\ p # q =>
                     p \in DOMAIN seen' /\ seen'[p] = seen[p]
               /\ \A p \in DOMAIN seen' \ {q} : seen'[p] = seen[p]
               /\ \/ /\ q \in DOMAIN seen /\ n < seen[q] /\ ~(n > seen[q])
                     /\ q \in DOMAIN seen' /\ seen'[q] = seen[q]
                     /\ work' = [work EXCEPT ![w] = Idle]
                  \/ /\ q \in DOMAIN seen /\ ~(n > seen[q]) => ~(n < seen[q])
                     /\ q \in DOMAIN seen' /\ seen'[q] = n + MaxAge
                     /\ work' = [work EXCEPT ![w].stage = "open"]
  <1> DEFINE n == work[w].mono
             q == work[w].req
             kept == unexpired(n)
  <1>1. work[w] \in Job /\ work[w].stage = "guard"
    BY Fields DEF Typed, guard
  <1>2. UNCHANGED <<wall, mono, vault, presented, faults, stepped, grants>>
    BY DEF guard, clockVars, countVars
  <1>3. /\ DOMAIN kept = {p \in DOMAIN seen : ~(n > seen[p])}
        /\ \A p \in DOMAIN kept : kept[p] = seen[p]
    BY DEF unexpired
  <1>4. \/ /\ q \in DOMAIN kept /\ n < kept[q]
           /\ seen' = kept /\ work' = [work EXCEPT ![w] = Idle]
        \/ /\ ~(q \in DOMAIN kept /\ n < kept[q])
           /\ seen' = Put(kept, q, n + MaxAge)
           /\ work' = [work EXCEPT ![w].stage = "open"]
    BY DEF guard, recordExpiry
  <1> HIDE DEF kept
  <1>5. CASE seen' = kept /\ q \in DOMAIN kept /\ n < kept[q] /\ work' = [work EXCEPT ![w] = Idle]
    BY <1>1, <1>2, <1>3, <1>5
  <1>6. CASE /\ ~(q \in DOMAIN kept /\ n < kept[q])
             /\ seen' = Put(kept, q, n + MaxAge)
             /\ work' = [work EXCEPT ![w].stage = "open"]
    <2>1. /\ DOMAIN seen' = DOMAIN kept \union {q} /\ seen'[q] = n + MaxAge
          /\ \A y \in DOMAIN kept : y # q => seen'[y] = kept[y]
      BY <1>6 DEF Put
    <2> QED  BY <1>1, <1>2, <1>3, <1>6, <2>1
  <1> QED  BY <1>4, <1>5, <1>6

LEMMA VaultInitially == Init => VaultInv
  <1> SUFFICES ASSUME Init  PROVE VaultInv
    OBVIOUS
  <1>1. grants \in Seq(Grant) /\ DOMAIN grants = {}
    BY DEF Init
  <1>2. Typed
    BY <1>1, Fields DEF Init, Typed, TypeOK, Empty
  <1> QED  BY <1>1, <1>2 DEF VaultInv, FromVault

\* Every step keeps the types and the vault's entries.
LEMMA VaultStep == VaultInv /\ [Next]_vars => VaultInv'
  <1> SUFFICES ASSUME VaultInv, [Next]_vars  PROVE VaultInv'
    OBVIOUS
  <1>t. /\ wall \in Nat /\ mono \in Nat /\ presented \in Nat /\ faults \in Nat
        /\ stepped \in BOOLEAN /\ grants \in Seq(Grant)
        /\ work \in [Workers -> {Idle} \union Job]
        /\ DOMAIN vault \subseteq Anchors /\ (\A a \in DOMAIN vault : vault[a] \in Identities)
        /\ DOMAIN seen \subseteq Requests /\ (\A q \in DOMAIN seen : seen[q] \in Nat)
        /\ FromVault
    BY DEF VaultInv, Typed, TypeOK
  <1>s. ASSUME wall' \in Nat, mono' \in Nat, presented' \in Nat, faults' \in Nat,
               stepped' \in BOOLEAN, grants' \in Seq(Grant),
               work' \in [Workers -> {Idle} \union Job],
               DOMAIN vault' \subseteq Anchors, \A a \in DOMAIN vault' : vault'[a] \in Identities,
               DOMAIN seen' \subseteq Requests, \A q \in DOMAIN seen' : seen'[q] \in Nat,
               FromVault'
        PROVE  VaultInv'
    <2>1. \A w \in Workers : work'[w] = Idle \/ work'[w] \in Job
      BY <1>s
    <2>2. \A i \in DOMAIN grants' : grants'[i] \in Grant
      BY <1>s
    <2> QED  BY <1>s, <2>1, <2>2, Fields DEF VaultInv, Typed, TypeOK
  <1>1. ASSUME NEW a \in Anchors, NEW id \in Identities, Store(a, id)
        PROVE  VaultInv'
    <2>1. /\ a \notin DOMAIN vault /\ DOMAIN vault' = DOMAIN vault \union {a} /\ vault'[a] = id
          /\ \A b \in DOMAIN vault : vault'[b] = vault[b]
          /\ UNCHANGED <<wall, mono, seen, work, presented, faults, stepped, grants>>
      BY <1>1 DEF Store, Put, clockVars, countVars
    <2>2. FromVault'
      BY <1>t, <2>1 DEF FromVault
    <2> QED  BY <1>s, <1>t, <2>1, <2>2
  <1>2. ASSUME NEW w \in Workers, NEW q \in Requests, Receive(w, q) \/ Refuse(w, q)
        PROVE  VaultInv'
    <2>1. /\ UNCHANGED <<wall, mono, vault, seen, faults, stepped, grants>>
          /\ presented' \in Nat
          /\ \/ work' = work
             \/ work' = [work EXCEPT ![w] = [stage |-> "guard", req |-> q,
                                             wall |-> wall, mono |-> mono]]
      BY <1>2, <1>t DEF Receive, Refuse, clockVars
    <2>2. [stage |-> "guard", req |-> q, wall |-> wall, mono |-> mono] \in Job
      BY <1>t DEF Job
    <2>3. work' \in [Workers -> {Idle} \union Job] /\ FromVault'
      BY <1>t, <2>1, <2>2 DEF FromVault
    <2> QED  BY <1>s, <1>t, <2>1, <2>3
  <1>3. ASSUME NEW w \in Workers, guard(w)
        PROVE  VaultInv'
    <2> DEFINE q == work[w].req
               n == work[w].mono
    <2>1. /\ work[w] \in Job
          /\ UNCHANGED <<wall, mono, vault, presented, faults, stepped, grants>>
          /\ DOMAIN seen' \subseteq DOMAIN seen \union {q}
          /\ \A p \in DOMAIN seen' \ {q} : seen'[p] = seen[p]
          /\ \/ q \in DOMAIN seen /\ seen'[q] = seen[q]
             \/ seen'[q] = n + MaxAge
          /\ \/ work' = [work EXCEPT ![w] = Idle]
             \/ work' = [work EXCEPT ![w].stage = "open"]
      BY <1>3, GuardOutcome DEF VaultInv
    <2>2. [work[w] EXCEPT !.stage = "open"] \in Job /\ q \in Requests /\ n \in Nat
      BY <2>1 DEF Job
    <2>3. work' \in [Workers -> {Idle} \union Job] /\ FromVault'
      BY <1>t, <2>1, <2>2 DEF FromVault
    <2>4. DOMAIN seen' \subseteq Requests /\ \A p \in DOMAIN seen' : seen'[p] \in Nat
      <3>1. n + MaxAge \in Nat
        BY <2>2, Fields
      <3> HIDE DEF n, q
      <3> QED  BY <1>t, <2>1, <2>2, <3>1
    <2> QED  BY <1>s, <1>t, <2>1, <2>3, <2>4
  <1>4. ASSUME NEW w \in Workers, open(w)
        PROVE  VaultInv'
    <2> DEFINE q == work[w].req
               g == [req |-> q, identity |-> vault[q.anchor], wall |-> work[w].wall]
    <2>1. /\ UNCHANGED <<wall, mono, vault, seen, presented, faults, stepped>>
          /\ work[w].stage = "open" /\ work' = [work EXCEPT ![w] = Idle]
          /\ \/ q.anchor \in DOMAIN vault /\ grants' = Append(grants, g)
             \/ grants' = grants
      BY <1>4 DEF open, clockVars, countVars
    <2>2. work[w] \in Job /\ q \in Requests /\ work[w].wall \in Nat
      BY <1>t, <2>1, Fields
    <2>3. work' \in [Workers -> {Idle} \union Job]
      BY <1>t, <2>1
    <2>4. CASE q.anchor \in DOMAIN vault /\ grants' = Append(grants, g)
      <3>1. g \in Grant
        BY <1>t, <2>2, <2>4 DEF Grant
      <3>2. grants' \in Seq(Grant)
        BY <1>t, <2>4, <3>1
      <3>3. \A i \in DOMAIN grants' :
                (i \in DOMAIN grants /\ grants'[i] = grants[i]) \/ grants'[i] = g
        BY <1>t, <2>4, <3>1
      <3>4. FromVault'
        BY <1>t, <2>1, <2>4, <3>3 DEF FromVault
      <3> QED  BY <1>s, <1>t, <2>1, <2>3, <3>2, <3>4
    <2>5. CASE grants' = grants
      <3>1. FromVault'
        BY <1>t, <2>1, <2>5 DEF FromVault
      <3> QED  BY <1>s, <1>t, <2>1, <2>3, <2>5, <3>1
    <2> QED  BY <2>1, <2>4, <2>5
  <1>5. CASE Restart
    <2>1. /\ grants' = <<>> /\ grants' \in Seq(Grant) /\ DOMAIN grants' = {}
          /\ vault' = Empty /\ seen' = Empty /\ work' \in [Workers -> {Idle} \union Job]
          /\ faults' \in Nat /\ UNCHANGED <<wall, mono, presented, stepped>>
      BY <1>5, <1>t DEF Restart, clockVars
    <2>2. FromVault'
      BY <2>1 DEF FromVault
    <2> QED  BY <1>s, <1>t, <2>1, <2>2, Fields
  <1>6. ASSUME UNCHANGED <<vault, seen, work, presented, grants>>, wall' \in Nat, mono' \in Nat,
               faults' \in Nat, stepped' \in BOOLEAN
        PROVE  VaultInv'
    <2>1. FromVault'
      BY <1>t, <1>6 DEF FromVault
    <2> QED  BY <1>s, <1>t, <1>6, <2>1
  <1>7. CASE Tick
    BY <1>6, <1>7, <1>t DEF Tick, countVars
  <1>8. ASSUME NEW t \in 0 .. MaxTime, StepClock(t)
        PROVE  VaultInv'
    BY <1>6, <1>8, <1>t, DeanonAssumption DEF StepClock
  <1>9. CASE UNCHANGED vars
    BY <1>6, <1>9, <1>t DEF vars
  <1> QED  BY <1>1, <1>2, <1>3, <1>4, <1>5, <1>7, <1>8, <1>9 DEF Next

LEMMA VaultInvariant == Spec => []VaultInv
  BY VaultInitially, VaultStep, PTL DEF Spec

\* DeanonSafe for every instance: whatever deposits and requests race, every
\* recovery for an anchor in a run of the service recovers the identity the
\* first deposit sealed (Vault.Store, Vault.Get).
THEOREM IdentitiesNeverChange == Spec => []DeanonSafe
  <1>1. VaultInv => DeanonSafe
    BY DEF VaultInv, Typed, FromVault, DeanonSafe, SameIdentity
  <1> QED  BY <1>1, VaultInvariant, PTL

-----------------------------------------------------------------------------
\* A reading at which request q is dated by more than a stall.
Dated(q, n) == n > q.issued /\ n >= q.issued + MaxStall

\* The record of a use of q at n is held, or the window of that use is over.
Held(q, n) ==
    \/ q \in DOMAIN seen /\ seen[q] >= n + MaxAge
    \/ mono > n + MaxAge

\* The readings of the goroutines: admissible, and no older than a stall.
ReadingsInv ==
    \A w \in Workers :
        /\ work[w] \in Job =>
              /\ work[w].wall = work[w].mono /\ work[w].mono <= mono
              /\ work[w].mono <= work[w].req.issued + MaxAge
        /\ work[w].stage = "guard" => mono <= work[w].mono + MaxStall

\* The goroutines that passed the guard with a dated request.
Passed(w) == work[w].stage = "open" /\ Dated(work[w].req, work[w].mono)

DatedGrant(i) == Dated(grants[i].req, grants[i].wall)

\* Every dated use is held.
HeldInv ==
    /\ \A w \in Workers : Passed(w) => Held(work[w].req, work[w].mono)
    /\ \A i \in DOMAIN grants : DatedGrant(i) => Held(grants[i].req, grants[i].wall)

\* A dated request is used once: by one goroutine that will open the envelope
\* or by one that has.
OnceInv ==
    /\ \A w, v \in Workers :
          Passed(w) /\ Passed(v) /\ work[w].req = work[v].req => w = v
    /\ \A w \in Workers, i \in DOMAIN grants :
          ~(Passed(w) /\ DatedGrant(i) /\ work[w].req = grants[i].req)
    /\ \A i, j \in DOMAIN grants :
          DatedGrant(i) /\ DatedGrant(j) /\ grants[i].req = grants[j].req => i = j

UseInv == ~stepped => wall = mono /\ ReadingsInv /\ HeldInv /\ OnceInv

\* A held use refuses a goroutine that has the same request: its reading is
\* within the record, and nobody can have pruned it.
LEMMA HeldRefuses ==
    ASSUME Typed, ReadingsInv, NEW w \in Workers, guard(w),
           NEW n \in Nat, Held(work[w].req, n), Dated(work[w].req, n)
    PROVE  work' = [work EXCEPT ![w] = Idle]
  <1> DEFINE q == work[w].req
             m == work[w].mono
  <1>1. /\ work[w] \in Job /\ work[w].stage = "guard" /\ q \in Requests /\ m \in Nat
        /\ q.issued \in Nat /\ mono \in Nat
    BY GuardOutcome, Fields DEF Typed, TypeOK
  <1>2. m <= q.issued + MaxAge /\ mono <= m + MaxStall
    BY <1>1 DEF ReadingsInv
  <1>3. n > q.issued /\ n >= q.issued + MaxStall
    BY DEF Dated
  <1>4. q \in DOMAIN seen /\ seen[q] >= n + MaxAge /\ seen[q] \in Nat
    <2>1. ~(mono > n + MaxAge)
      BY <1>1, <1>2, <1>3, Fields
    <2> QED  BY <2>1 DEF Held, Typed, TypeOK
  <1>5. m < seen[q] /\ ~(m > seen[q])
    BY <1>1, <1>2, <1>3, <1>4, Fields
  <1> QED  BY <1>4, <1>5, GuardOutcome

\* The section under the lock keeps every use held.
LEMMA GuardHolds ==
    ASSUME Typed, ReadingsInv, NEW w \in Workers, guard(w),
           NEW q \in Requests, NEW n \in Nat, Held(q, n)
    PROVE  (q \in DOMAIN seen' /\ seen'[q] >= n + MaxAge) \/ mono' > n + MaxAge
  <1> DEFINE m == work[w].mono
  <1>1. /\ work[w] \in Job /\ m \in Nat /\ mono \in Nat /\ mono' = mono /\ m <= mono
    BY GuardOutcome, Fields DEF Typed, TypeOK, ReadingsInv
  <1>2. CASE mono > n + MaxAge
    BY <1>1, <1>2
  <1>3. CASE q \in DOMAIN seen /\ seen[q] >= n + MaxAge
    <2>0. seen[q] \in Nat
      BY <1>3 DEF Typed, TypeOK
    <2>1. CASE m > seen[q]
      BY <1>1, <1>3, <2>0, <2>1, Fields
    <2>2. CASE ~(m > seen[q]) /\ work[w].req # q
      BY <1>3, <2>2, GuardOutcome
    <2>3. CASE ~(m > seen[q]) /\ work[w].req = q
      <3>1. /\ q \in DOMAIN seen'
            /\ seen'[q] = seen[q] \/ (~(m < seen[q]) /\ seen'[q] = m + MaxAge)
        BY <1>3, <2>3, GuardOutcome
      <3>2. ~(m < seen[q]) => m + MaxAge >= seen[q]
        BY <1>1, <2>0, Fields
      <3> HIDE DEF m
      <3> QED  BY <1>1, <1>3, <2>0, <3>1, <3>2, Fields
    <2> QED  BY <2>1, <2>2, <2>3
  <1> QED  BY <1>2, <1>3 DEF Held

\* Every step keeps the dated uses held and single, while nobody sets the
\* clock.
LEMMA UseStep == VaultInv /\ UseInv /\ [Next]_vars => UseInv'
  <1> SUFFICES ASSUME VaultInv, UseInv, [Next]_vars, ~stepped'
               PROVE  (wall = mono /\ ReadingsInv /\ HeldInv /\ OnceInv)'
    BY DEF UseInv
  <1>t. /\ Typed /\ wall \in Nat /\ mono \in Nat /\ grants \in Seq(Grant)
        /\ work \in [Workers -> {Idle} \union Job]
    BY DEF VaultInv, Typed, TypeOK
  <1>g. \A i \in DOMAIN grants : grants[i].req \in Requests /\ grants[i].wall \in Nat
    <2>1. \A i \in DOMAIN grants : grants[i] \in Grant
      BY <1>t
    <2> QED  BY <2>1, Fields
  <1>w. \A v \in Workers : work[v].stage \in {"guard", "open"} =>
            work[v] \in Job /\ work[v].req \in Requests /\ work[v].mono \in Nat
    <2>1. \A v \in Workers : work[v] = Idle \/ work[v] \in Job
      BY <1>t
    <2> QED  BY <2>1, Fields
  <1>n. stepped' = stepped \/ \E t \in 0 .. MaxTime : StepClock(t)
    BY DEF Next, vars, Store, Receive, Refuse, guard, open, Restart, Tick, countVars
  <1>u. ~stepped /\ wall = mono /\ ReadingsInv /\ HeldInv /\ OnceInv
    <2>1. ~\E t \in 0 .. MaxTime : StepClock(t)
      BY DEF StepClock
    <2> QED  BY <1>n, <2>1 DEF UseInv
  <1>1. ASSUME UNCHANGED <<wall, mono, seen, work, grants>>
        PROVE  (wall = mono /\ ReadingsInv /\ HeldInv /\ OnceInv)'
    BY <1>1, <1>u DEF ReadingsInv, HeldInv, OnceInv, Held, Passed, DatedGrant, Dated
  <1>2. ASSUME NEW w \in Workers, NEW q \in Requests, Receive(w, q)
        PROVE  (wall = mono /\ ReadingsInv /\ HeldInv /\ OnceInv)'
    <2> DEFINE job == [stage |-> "guard", req |-> q, wall |-> wall, mono |-> mono]
    <2>1. /\ UNCHANGED <<wall, mono, seen, grants>> /\ work'[w] = job
          /\ \A v \in Workers \ {w} : work'[v] = work[v]
          /\ wall - q.issued <= MaxAge
      BY <1>2, <1>t DEF Receive, admissible, clockVars
    <2>2. q.issued \in Nat
      BY Fields
    <2>3. ReadingsInv'
      BY <1>t, <1>u, <2>1, <2>2, Fields DEF ReadingsInv
    <2>4. ~Passed(w)' /\ \A v \in Workers \ {w} : Passed(v)' <=> Passed(v)
      BY <2>1 DEF Passed, Dated
    <2>5. HeldInv'
      BY <1>u, <2>1, <2>4 DEF HeldInv, Held, DatedGrant, Dated
    <2>6. OnceInv'
      BY <1>u, <2>1, <2>4 DEF OnceInv, DatedGrant, Dated
    <2> QED  BY <1>u, <2>1, <2>3, <2>5, <2>6
  <1>3. ASSUME NEW w \in Workers, guard(w)
        PROVE  (wall = mono /\ ReadingsInv /\ HeldInv /\ OnceInv)'
    <2> DEFINE q == work[w].req
               m == work[w].mono
    <2>1. /\ work[w] \in Job /\ work[w].stage = "guard" /\ q \in Requests /\ m \in Nat
          /\ UNCHANGED <<wall, mono, grants>>
          /\ \A v \in Workers \ {w} : work'[v] = work[v]
          /\ \/ work'[w] = Idle
             \/ /\ work'[w] = [work[w] EXCEPT !.stage = "open"]
                /\ q \in DOMAIN seen' /\ seen'[q] = m + MaxAge
      <3>1. /\ work[w] \in Job /\ work[w].stage = "guard"
            /\ UNCHANGED <<wall, mono, grants>>
            /\ \/ work' = [work EXCEPT ![w] = Idle]
               \/ /\ work' = [work EXCEPT ![w].stage = "open"]
                  /\ q \in DOMAIN seen' /\ seen'[q] = m + MaxAge
        BY <1>3, <1>t, GuardOutcome
      <3> QED  BY <1>t, <3>1, Fields
    <2>2. \/ work'[w] = Idle /\ work'[w].stage = "idle" /\ work'[w] \notin Job
          \/ /\ work'[w] \in Job /\ work'[w].stage = "open"
             /\ work'[w].req = q /\ work'[w].mono = m /\ work'[w].wall = work[w].wall
      BY <2>1, Fields DEF Job
    <2>3. ReadingsInv'
      BY <1>u, <2>1, <2>2 DEF ReadingsInv
    <2>4. \A v \in Workers \ {w} : Passed(v)' <=> Passed(v)
      BY <2>1 DEF Passed, Dated
    <2>5. \A p \in Requests, n \in Nat : Held(p, n) => Held(p, n)'
      BY <1>3, <1>t, <1>u, GuardHolds DEF Held
    <2>6. HeldInv'
      <3>1. ASSUME NEW v \in Workers, Passed(v)'
            PROVE  Held(work[v].req, work[v].mono)'
        <4>1. CASE v = w
          <5>1. work'[w].req = q /\ work'[w].mono = m /\ q \in DOMAIN seen' /\ seen'[q] = m + MaxAge
            BY <2>1, <2>2, <3>1, <4>1, Fields DEF Passed
          <5>2. seen'[q] >= m + MaxAge
            BY <2>1, <5>1, Fields
          <5> QED  BY <4>1, <5>1, <5>2 DEF Held
        <4>2. CASE v # w
          <5>1. Held(work[v].req, work[v].mono) /\ work'[v] = work[v]
                /\ work[v].req \in Requests /\ work[v].mono \in Nat
            BY <1>u, <1>w, <2>1, <2>4, <3>1, <4>2 DEF HeldInv, Passed
          <5> QED  BY <2>5, <5>1 DEF Held
        <4> QED  BY <4>1, <4>2
      <3>2. ASSUME NEW i \in DOMAIN grants, DatedGrant(i)'
            PROVE  Held(grants[i].req, grants[i].wall)'
        <4>1. Held(grants[i].req, grants[i].wall)
          BY <1>u, <2>1, <3>2 DEF HeldInv, DatedGrant, Dated
        <4> QED  BY <1>g, <2>1, <2>5, <4>1 DEF Held
      <3> QED  BY <2>1, <3>1, <3>2 DEF HeldInv
    <2>7. OnceInv'
      <3>1. ASSUME Passed(w)'
            PROVE  /\ \A v \in Workers \ {w} : ~(Passed(v) /\ work[v].req = q)
                   /\ \A i \in DOMAIN grants : ~(DatedGrant(i) /\ grants[i].req = q)
        <4>1. work' # [work EXCEPT ![w] = Idle]
          BY <1>t, <3>1, Fields DEF Passed
        <4>2. ASSUME NEW v \in Workers \ {w}, Passed(v), work[v].req = q  PROVE FALSE
          <5>1. /\ Held(q, work[v].mono) /\ Dated(q, work[v].mono) /\ work[v].mono \in Nat
            BY <1>u, <1>w, <4>2 DEF HeldInv, Passed
          <5> QED  BY <1>3, <1>t, <1>u, <4>1, <5>1, HeldRefuses
        <4>3. ASSUME NEW i \in DOMAIN grants, DatedGrant(i), grants[i].req = q  PROVE FALSE
          <5>1. /\ Held(q, grants[i].wall) /\ Dated(q, grants[i].wall) /\ grants[i].wall \in Nat
            BY <1>u, <1>g, <4>3 DEF HeldInv, DatedGrant
          <5> QED  BY <1>3, <1>t, <1>u, <4>1, <5>1, HeldRefuses
        <4> QED  BY <4>2, <4>3
      <3>2. Passed(w)' => work'[w].req = q
        BY <2>2 DEF Passed
      <3>3. \A i \in DOMAIN grants : DatedGrant(i)' <=> DatedGrant(i)
        BY <2>1 DEF DatedGrant, Dated
      <3>4. ASSUME NEW x \in Workers, NEW v \in Workers, Passed(x)', Passed(v)',
                   work'[x].req = work'[v].req
            PROVE  x = v
        BY <1>u, <2>1, <2>4, <3>1, <3>2, <3>4 DEF OnceInv
      <3>5. ASSUME NEW x \in Workers, NEW i \in DOMAIN grants, Passed(x)', DatedGrant(i)',
                   work'[x].req = grants[i].req
            PROVE  FALSE
        BY <1>u, <2>1, <2>4, <3>1, <3>2, <3>3, <3>5 DEF OnceInv
      <3> QED  BY <1>u, <2>1, <3>3, <3>4, <3>5 DEF OnceInv
    <2> QED  BY <1>u, <2>1, <2>3, <2>6, <2>7
  <1>4. ASSUME NEW w \in Workers, open(w)
        PROVE  (wall = mono /\ ReadingsInv /\ HeldInv /\ OnceInv)'
    <2> DEFINE q == work[w].req
               g == [req |-> q, identity |-> vault[q.anchor], wall |-> work[w].wall]
    <2>1. /\ UNCHANGED <<wall, mono, seen>> /\ work[w].stage = "open" /\ work'[w] = Idle
          /\ \A v \in Workers \ {w} : work'[v] = work[v]
          /\ grants' = Append(grants, g) \/ grants' = grants
      BY <1>4, <1>t DEF open, clockVars
    <2>2. work[w].wall = work[w].mono
      BY <1>u, <1>w, <2>1 DEF ReadingsInv
    <2>3. ReadingsInv'
      BY <1>u, <2>1, Fields DEF ReadingsInv
    <2>4. ~Passed(w)' /\ \A v \in Workers \ {w} : Passed(v)' <=> Passed(v)
      BY <2>1, Fields DEF Passed, Dated
    <2>5. \A p, n : Held(p, n) <=> Held(p, n)'
      BY <2>1 DEF Held
    \* A grant that is new is the use of w.
    <2>6. ASSUME NEW i \in DOMAIN grants'
          PROVE  \/ i \in DOMAIN grants /\ grants'[i] = grants[i]
                 \/ i = Len(grants) + 1 /\ i \notin DOMAIN grants /\ grants'[i] = g
      BY <1>t, <2>1, <2>6
    <2>7. ASSUME NEW i \in DOMAIN grants', DatedGrant(i)'
          PROVE  \/ i \in DOMAIN grants /\ grants'[i] = grants[i] /\ DatedGrant(i)
                 \/ /\ i = Len(grants) + 1 /\ grants'[i].req = q
                    /\ grants'[i].wall = work[w].mono /\ Passed(w)
      BY <2>1, <2>2, <2>6, <2>7 DEF DatedGrant, Passed, Dated
    <2>8. HeldInv'
      <3>1. ASSUME NEW v \in Workers, Passed(v)'
            PROVE  Held(work[v].req, work[v].mono)'
        <4>1. Held(work[v].req, work[v].mono) /\ work'[v] = work[v]
          BY <1>u, <2>1, <2>4, <3>1 DEF HeldInv
        <4> QED  BY <2>1, <4>1 DEF Held
      <3>2. ASSUME NEW i \in DOMAIN grants', DatedGrant(i)'
            PROVE  Held(grants[i].req, grants[i].wall)'
        <4>1. Held(grants'[i].req, grants'[i].wall)
          BY <1>u, <2>7, <3>2 DEF HeldInv
        <4> QED  BY <2>1, <4>1 DEF Held
      <3> QED  BY <3>1, <3>2 DEF HeldInv
    <2>9. OnceInv'
      <3>1. ASSUME NEW x \in Workers, NEW v \in Workers, Passed(x)', Passed(v)',
                   work'[x].req = work'[v].req
            PROVE  x = v
        BY <1>u, <2>1, <2>4, <3>1 DEF OnceInv
      <3>2. ASSUME NEW x \in Workers, NEW i \in DOMAIN grants', Passed(x)', DatedGrant(i)',
                   work'[x].req = grants'[i].req
            PROVE  FALSE
        BY <1>u, <2>1, <2>4, <2>7, <3>2 DEF OnceInv
      <3>3. ASSUME NEW i \in DOMAIN grants', NEW j \in DOMAIN grants',
                   DatedGrant(i)', DatedGrant(j)', grants'[i].req = grants'[j].req
            PROVE  i = j
        BY <1>u, <2>7, <3>3 DEF OnceInv
      <3> QED  BY <3>1, <3>2, <3>3 DEF OnceInv
    <2> QED  BY <1>u, <2>1, <2>3, <2>8, <2>9
  <1>5. CASE Restart
    <2>1. /\ UNCHANGED <<wall, mono>> /\ DOMAIN grants' = {}
          /\ \A v \in Workers : work'[v] = Idle
      BY <1>5 DEF Restart, clockVars
    <2>2. \A v \in Workers : ~Passed(v)' /\ work'[v] \notin Job /\ work'[v].stage = "idle"
      BY <2>1, Fields DEF Passed
    <2> QED  BY <1>u, <2>1, <2>2 DEF ReadingsInv, HeldInv, OnceInv
  <1>6. CASE Tick
    <2>1. /\ wall' = wall + 1 /\ mono' = mono + 1 /\ UNCHANGED <<seen, work, grants>>
          /\ \A v \in Workers : work[v].stage = "guard" => mono < work[v].mono + MaxStall
      BY <1>6 DEF Tick
    <2>2. ReadingsInv'
      <3> SUFFICES ASSUME NEW v \in Workers
                   PROVE  /\ work[v] \in Job =>
                                /\ work[v].wall = work[v].mono /\ work[v].mono <= mono + 1
                                /\ work[v].mono <= work[v].req.issued + MaxAge
                          /\ work[v].stage = "guard" => mono + 1 <= work[v].mono + MaxStall
        BY <2>1 DEF ReadingsInv
      <3>1. work[v] \in Job => work[v].mono \in Nat
        BY Fields
      <3> QED  BY <1>t, <1>u, <1>w, <2>1, <3>1, Fields DEF ReadingsInv
    <2>3. \A p \in Requests, n \in Nat : Held(p, n) => Held(p, n)'
      BY <1>t, <2>1, Fields DEF Held
    <2>4. HeldInv'
      <3>1. ASSUME NEW v \in Workers, Passed(v)'
            PROVE  Held(work[v].req, work[v].mono)'
        <4>1. /\ Held(work[v].req, work[v].mono) /\ work[v].req \in Requests
              /\ work[v].mono \in Nat
          BY <1>u, <1>w, <2>1, <3>1 DEF HeldInv, Passed, Dated
        <4> QED  BY <2>1, <2>3, <4>1 DEF Held
      <3>2. ASSUME NEW i \in DOMAIN grants, DatedGrant(i)'
            PROVE  Held(grants[i].req, grants[i].wall)'
        <4>1. Held(grants[i].req, grants[i].wall)
          BY <1>u, <2>1, <3>2 DEF HeldInv, DatedGrant, Dated
        <4> QED  BY <1>g, <2>1, <2>3, <4>1 DEF Held
      <3> QED  BY <2>1, <3>1, <3>2 DEF HeldInv
    <2>5. OnceInv'
      BY <1>u, <2>1 DEF OnceInv, Passed, DatedGrant, Dated
    <2> QED  BY <1>u, <2>1, <2>2, <2>4, <2>5
  <1>7. ASSUME NEW t \in 0 .. MaxTime, StepClock(t)
        PROVE  FALSE
    BY <1>7 DEF StepClock
  <1>8. ASSUME NEW a \in Anchors, NEW id \in Identities, Store(a, id)
        PROVE  (wall = mono /\ ReadingsInv /\ HeldInv /\ OnceInv)'
    BY <1>1, <1>8 DEF Store, clockVars
  <1>9. ASSUME NEW w \in Workers, NEW q \in Requests, Refuse(w, q)
        PROVE  (wall = mono /\ ReadingsInv /\ HeldInv /\ OnceInv)'
    BY <1>1, <1>9 DEF Refuse, clockVars
  <1>10. CASE UNCHANGED vars
    BY <1>1, <1>10 DEF vars
  <1> QED
    BY <1>2, <1>3, <1>4, <1>5, <1>6, <1>7, <1>8, <1>9, <1>10 DEF Next

\* SingleUseOnceDated for every instance: whichever goroutines race and
\* whichever of them prunes the guard's records, a request that is presented
\* after its date is granted once in a run of the service (Deanonymize's
\* seen map).
THEOREM DatedRequestsOnce == Spec => []SingleUseOnceDated
  <1>1. Init => UseInv
    <2> SUFFICES ASSUME Init  PROVE UseInv
      OBVIOUS
    <2>1. /\ wall = mono /\ DOMAIN grants = {}
          /\ \A v \in Workers : work[v] = Idle
      BY DEF Init
    <2>2. \A v \in Workers : ~Passed(v) /\ work[v] \notin Job /\ work[v].stage = "idle"
      BY <2>1, Fields DEF Passed
    <2> QED  BY <2>1, <2>2 DEF UseInv, ReadingsInv, HeldInv, OnceInv
  <1>2. UseInv => SingleUseOnceDated
    <2> SUFFICES ASSUME UseInv, ~stepped, NEW q \in Requests,
                        NEW i \in GrantsOf(q), NEW j \in GrantsOf(q),
                        \A g \in {i, j} : grants[g].wall > q.issued
                                          /\ grants[g].wall >= q.issued + MaxStall
                 PROVE  i = j
      BY DEF SingleUseOnceDated
    <2>1. /\ i \in DOMAIN grants /\ j \in DOMAIN grants
          /\ grants[i].req = q /\ grants[j].req = q
      BY DEF GrantsOf
    <2>2. DatedGrant(i) /\ DatedGrant(j)
      BY <2>1 DEF DatedGrant, Dated
    <2> QED  BY <2>1, <2>2 DEF UseInv, OnceInv
  <1>3. VaultInv /\ UseInv /\ [Next]_vars => UseInv'
    BY UseStep
  <1> QED  BY <1>1, <1>2, <1>3, VaultInvariant, PTL DEF Spec


=============================================================================
