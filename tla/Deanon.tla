------------------------------- MODULE Deanon --------------------------------
(***************************************************************************)
(* Recovery of an escrowed identity: Handler.Deanonymize and Vault of      *)
(* internal/escrow, as cmd/deanonsvc serves them.                          *)
(*                                                                         *)
(* net/http runs each request on a goroutine of its own.  A goroutine      *)
(* reads the clock, takes the lock of the replay guard and then reads the  *)
(* vault; other goroutines, deposits and time come in between.  The age of *)
(* a request is measured on the wall clock, which an operator may set; the *)
(* records of the guard are measured on the monotonic clock.               *)
(***************************************************************************)
EXTENDS Integers, Sequences

CONSTANTS
    Anchors,          \* humanAnchors
    Identities,       \* what an envelope seals
    Requests,         \* signed requests
    Signers,          \* the requesters loadSigners authorizes
    Workers,          \* goroutines
    MaxAge,           \* Handler.maxAge
    FutureTolerance,  \* how far ahead a request may be dated: one minute
    MaxStall,         \* bound on the time from a goroutine's time.Now to its lock
    MaxPresented,     \* bound on the requests received
    MaxFaults,        \* bound on the restarts and the settings of the wall clock
    MaxTime           \* bound on the clocks

\* A request: what is signed, whether the signature verifies and whether a
\* lawful basis is stated.
IsRequest(q) ==
    /\ DOMAIN q = {"anchor", "requester", "issued", "sigOK", "basis"}
    /\ q.anchor \in Anchors
    /\ q.issued \in Nat
    /\ q.sigOK \in BOOLEAN /\ q.basis \in BOOLEAN

ASSUME DeanonAssumption ==
    /\ \A q \in Requests : IsRequest(q)
    /\ MaxAge \in Nat \ {0} /\ FutureTolerance \in Nat /\ MaxStall \in Nat
    /\ MaxPresented \in Nat /\ MaxFaults \in Nat /\ MaxTime \in Nat

VARIABLES
    wall, mono, \* the clocks
    vault,      \* Vault.m: the identities sealed for the anchors that have one
    seen,       \* Handler.seen: request -> expiry
    work,       \* what each goroutine is doing, or Idle
    presented, faults, \* occurrences so far
    \* History, read by no action:
    stepped,    \* the wall clock was set
    grants      \* the recoveries of this run of the service, in order

clockVars == <<wall, mono>>
countVars == <<presented, faults, stepped>>
vars == <<wall, mono, vault, seen, work, presented, faults, stepped, grants>>

Idle == [stage |-> "idle"]

\* A Go map with no entries.
Empty == [x \in {} |-> x]

\* The map f with x set to v.
Put(f, x, v) == [y \in DOMAIN f \union {x} |-> IF y = x THEN v ELSE f[y]]

-----------------------------------------------------------------------------
\* Mutant: the last envelope deposited wins.
Store_overwrites(a, id) ==
    /\ vault' = Put(vault, a, id)
    /\ UNCHANGED <<clockVars, seen, work, countVars, grants>>

\* handleStore: Store refuses an anchor that has an envelope.
Store(a, id) ==
    /\ a \notin DOMAIN vault
    /\ vault' = Put(vault, a, id)
    /\ UNCHANGED <<clockVars, seen, work, countVars, grants>>

\* The checks before the guard: signer, signature, lawful basis, age.
admissible(q) ==
    /\ q.requester \in Signers
    /\ q.sigOK
    /\ q.basis
    /\ -FutureTolerance <= wall - q.issued
    /\ wall - q.issued <= MaxAge

\* Deanonymize up to the lock.  A request that is refused leaves no trace.
Receive(w, q) ==
    /\ work[w] = Idle
    /\ presented < MaxPresented
    /\ presented' = presented + 1
    /\ admissible(q)
    /\ work' = [work EXCEPT ![w] = [stage |-> "guard", req |-> q, wall |-> wall, mono |-> mono]]
    /\ UNCHANGED <<clockVars, vault, seen, faults, stepped, grants>>

Refuse(w, q) ==
    /\ work[w] = Idle
    /\ presented < MaxPresented
    /\ presented' = presented + 1
    /\ ~admissible(q)
    /\ UNCHANGED <<clockVars, vault, seen, work, faults, stepped, grants>>

\* The records that are left when those expired at n are deleted.
unexpired(n) == [q \in {p \in DOMAIN seen : ~(n > seen[p])} |-> seen[q]]

\* Mutant: a record is kept for the tolerance only.
recordExpiry_short(n) == n + FutureTolerance

\* When a record made at n expires.
recordExpiry(n) == n + MaxAge

\* The section under the lock, with the time read before it: expired records
\* are deleted, a replay is refused, the request is recorded.
guard(w) ==
    /\ work[w].stage = "guard"
    /\ LET n == work[w].mono
           q == work[w].req
           kept == unexpired(n)
       IN  IF q \in DOMAIN kept /\ n < kept[q]
           THEN seen' = kept /\ work' = [work EXCEPT ![w] = Idle]
           ELSE /\ seen' = Put(kept, q, recordExpiry(n))
                /\ work' = [work EXCEPT ![w].stage = "open"]
    /\ UNCHANGED <<clockVars, vault, countVars, grants>>

\* Vault.Get and Envelope.Open.  A request whose anchor has no envelope yet
\* is answered with ErrNotFound and stays recorded.
open(w) ==
    /\ work[w].stage = "open"
    /\ LET q == work[w].req
       IN  IF q.anchor \in DOMAIN vault
           THEN grants' = Append(grants, [req |-> q, identity |-> vault[q.anchor],
                                          wall |-> work[w].wall])
           ELSE UNCHANGED grants
    /\ work' = [work EXCEPT ![w] = Idle]
    /\ UNCHANGED <<clockVars, vault, seen, countVars>>

-----------------------------------------------------------------------------
\* The service is restarted: guard and vault are in memory.
Restart ==
    /\ faults < MaxFaults
    /\ faults' = faults + 1
    /\ vault' = Empty /\ seen' = Empty /\ grants' = <<>>
    /\ work' = [w \in Workers |-> Idle]
    /\ UNCHANGED <<clockVars, presented, stepped>>

Tick ==
    /\ wall < MaxTime /\ mono < MaxTime
    /\ \A w \in Workers : work[w].stage = "guard" => mono < work[w].mono + MaxStall
    /\ wall' = wall + 1 /\ mono' = mono + 1
    /\ UNCHANGED <<vault, seen, work, countVars, grants>>

\* The wall clock is set.
StepClock(t) ==
    /\ faults < MaxFaults /\ t # wall
    /\ faults' = faults + 1
    /\ stepped' = TRUE
    /\ wall' = t
    /\ UNCHANGED <<mono, vault, seen, work, presented, grants>>

Init ==
    /\ wall = 0 /\ mono = 0
    /\ vault = Empty /\ seen = Empty /\ grants = <<>>
    /\ work = [w \in Workers |-> Idle]
    /\ presented = 0 /\ faults = 0 /\ stepped = FALSE

Next ==
    \/ \E a \in Anchors, id \in Identities : Store(a, id)
    \/ \E w \in Workers : (\E q \in Requests : Receive(w, q) \/ Refuse(w, q)) \/ guard(w) \/ open(w)
    \/ Restart \/ Tick
    \/ \E t \in 0..MaxTime : StepClock(t)

Spec == Init /\ [][Next]_vars

-----------------------------------------------------------------------------
(* Properties.                                                             *)

\* Every variable keeps its type.
TypeOK ==
    /\ wall \in Nat /\ mono \in Nat
    /\ DOMAIN vault \subseteq Anchors /\ \A a \in DOMAIN vault : vault[a] \in Identities
    /\ DOMAIN seen \subseteq Requests /\ \A q \in DOMAIN seen : seen[q] \in Nat
    /\ \A w \in Workers :
          \/ work[w] = Idle
          \/ /\ work[w].stage \in {"guard", "open"} /\ work[w].req \in Requests
             /\ work[w].wall \in Nat /\ work[w].mono \in Nat
    /\ \A i \in DOMAIN grants : grants[i].req \in Requests /\ grants[i].identity \in Identities

GrantsOf(q) == {i \in DOMAIN grants : grants[i].req = q}

\* "reject a request fingerprint already seen within the window" (comment of
\* Deanonymize, deanon.go): a signed request recovers an identity once in a
\* run of the service.
SingleUse ==
    \A q \in Requests : \A i, j \in GrantsOf(q) : i = j

\* A request that is presented after its date, by MaxStall or more, is granted
\* once in a run of the service, whatever goroutines race for it, as long as
\* nobody sets the clock: its record outlives its freshness, also for a
\* goroutine that read the clock before another one pruned the record.
SingleUseOnceDated ==
    ~stepped => \A q \in Requests : \A i, j \in GrantsOf(q) :
        (\A g \in {i, j} : grants[g].wall > q.issued /\ grants[g].wall >= q.issued + MaxStall) => i = j

\* Every recovery for an anchor recovers the same identity, although deposits
\* for it race with the requests (Vault.Store refuses to overwrite).
SameIdentity ==
    \A i, j \in DOMAIN grants :
        grants[i].req.anchor = grants[j].req.anchor => grants[i].identity = grants[j].identity

\* What is recovered for an anchor never changes.
DeanonSafe == TypeOK /\ SameIdentity
=============================================================================
