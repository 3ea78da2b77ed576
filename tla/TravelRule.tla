----------------------------- MODULE TravelRule -----------------------------
(***************************************************************************)
(* The Travel Rule between two VASPs: tr-svc in the originator's and in    *)
(* the beneficiary's role (cmd/tr-svc), the attestation they exchange      *)
(* (internal/travelrule, internal/sdjwt, internal/vaspregistry) and the    *)
(* transport (internal/trp).  The two processes share a directory with the *)
(* originator's key, start in any order and die at any step.  Messages are *)
(* lost, delayed, repeated and taken apart; a hash, a commitment and a     *)
(* proof is the value it is of.                                            *)
(***************************************************************************)
EXTENDS Integers, FiniteSets, Sequences, Functions

CONSTANTS
  Transfers,       \* payment, customer, amount and vasp of a transfer
  ExpectedPayment, \* the payment the beneficiary observes
  ConfigMembers, DemoMembers, Fillers, \* leaves of the registry file, of the built-in set, of unused slots
  Reporting,       \* DefaultReportingThreshold
  AttestationTTL, ReplayTTL,
  MaxTravelTime, MaxSends, MaxFaults   \* bounds

ASSUME TravelAssumption ==
  {Reporting, AttestationTTL, ReplayTTL, MaxTravelTime, MaxSends, MaxFaults} \subseteq Nat

VARIABLES
  keyFile, pubFile,  \* None, Torn (truncated by a write under way) or a key
  origin,            \* originator: pc, key, registry
  benef,             \* beneficiary: pc, pub, registry, since when it serves
  lastKey,           \* the last key generated
  replaced,          \* the keys that were stored and then written over
  builds,            \* the attestations built
  sent,              \* when each was sent; the n-th has request identifier n
  seen,              \* the replay guard of the beneficiary: identifier -> time
  handling,          \* requests past the guard
  approvals,         \* what this beneficiary process approved
  travelClock, faults

keyVars == <<keyFile, pubFile, lastKey, replaced>>
transferVars == <<builds, sent, seen, handling, approvals>>
travelVars == <<keyFile, pubFile, origin, benef, lastKey, replaced, builds, sent, seen,
                handling, approvals, travelClock, faults>>

None == 0
Torn == -1
Down == [pc |-> "down", key |-> None, registry |-> "none"]
NotServing == [pc |-> "down", key |-> None, registry |-> "none", since |-> 0]
NoneSeen == [i \in {} |-> 0]

\* loadRegistry falls back to the built-in set when the file is unavailable.
registries == {"config", "demo"}

\* FromMembers pads the tree with filler leaves, which ProofForMember finds.
leaves(r) == (IF r = "config" THEN ConfigMembers ELSE DemoMembers) \cup Fillers

(***************************************************************************)
(* The originator's start: loadOrGenSDKey.  WriteFile truncates first.     *)
(***************************************************************************)
\* A key that can be read is reused.  Any error of the reading is taken for an
\* absent key: one is generated, and will be written over what is there.
OriginStarts ==
  /\ origin.pc = "down"
  /\ \E r \in registries :
       \/ /\ keyFile > 0
          /\ origin' = [pc |-> "reused", key |-> keyFile, registry |-> r]
          /\ UNCHANGED <<lastKey, faults>>
       \/ /\ keyFile > 0 => faults < MaxFaults
          /\ origin' = [pc |-> "generated", key |-> lastKey + 1, registry |-> r]
          /\ lastKey' = lastKey + 1
          /\ faults' = IF keyFile > 0 THEN faults + 1 ELSE faults
  /\ UNCHANGED <<keyFile, pubFile, replaced, benef, transferVars, travelClock>>

\* The writes after each point: the private key, then the public one.
writeOrder ==
  [generated |-> "storing", storing |-> "publish", publish |-> "publishing", publishing |-> "up",
   reused |-> "republishing", republishing |-> "up"]

OriginWrites ==
  /\ origin.pc \in DOMAIN writeOrder
  /\ LET next == writeOrder[origin.pc] IN
       /\ origin' = [origin EXCEPT !.pc = next]
       /\ keyFile' = IF origin.pc = "generated" THEN Torn
                     ELSE IF origin.pc = "storing" THEN origin.key ELSE keyFile
       /\ pubFile' = IF origin.pc \in {"publish", "reused"} THEN Torn
                     ELSE IF origin.pc \in {"publishing", "republishing"} THEN origin.key ELSE pubFile
       /\ replaced' = IF origin.pc = "generated" /\ keyFile > 0 THEN replaced \cup {keyFile} ELSE replaced
  /\ UNCHANGED <<benef, lastKey, transferVars, travelClock, faults>>

\* A failed write is fatal, except that of a reused key's public half.
OriginWriteFails ==
  /\ origin.pc \in DOMAIN writeOrder /\ faults < MaxFaults
  /\ origin' = IF origin.pc \in {"reused", "republishing"} THEN [origin EXCEPT !.pc = "up"] ELSE Down
  /\ faults' = faults + 1
  /\ UNCHANGED <<keyVars, benef, transferVars, travelClock>>

OriginDies ==
  /\ origin.pc # "down" /\ faults < MaxFaults
  /\ origin' = Down /\ faults' = faults + 1
  /\ UNCHANGED <<keyVars, benef, transferVars, travelClock>>

(***************************************************************************)
(* The beneficiary's start: loadSDPubWait polls, and gives up.             *)
(***************************************************************************)
BenefStarts ==
  /\ benef.pc = "down"
  /\ \E r \in registries : benef' = [NotServing EXCEPT !.pc = "waiting", !.registry = r]
  /\ UNCHANGED <<keyVars, origin, transferVars, travelClock, faults>>

BenefPolls ==
  /\ benef.pc = "waiting" /\ pubFile > 0
  /\ benef' = [benef EXCEPT !.pc = "up", !.key = pubFile, !.since = travelClock]
  /\ UNCHANGED <<keyVars, origin, transferVars, travelClock, faults>>

\* What the process held in memory is gone: the replay guard too.
BenefStops ==
  /\ \/ benef.pc = "waiting" /\ pubFile <= 0 /\ faults' = faults
     \/ benef.pc # "down" /\ faults < MaxFaults /\ faults' = faults + 1
  /\ benef' = NotServing /\ seen' = NoneSeen /\ handling' = {} /\ approvals' = {}
  /\ UNCHANGED <<keyVars, origin, builds, sent, travelClock>>

(***************************************************************************)
(* Attestations: Build, and sdjwt.IssueBound inside it.                    *)
(***************************************************************************)
attestation(t) ==
  [payment |-> t.payment, anchor |-> t.customer, amount |-> t.amount, vasp |-> t.vasp,
   root |-> origin.registry, key |-> origin.key, exp |-> travelClock + AttestationTTL]

\* The threshold circuit and the membership circuit prove true statements only.
Builds(t) == t.amount >= Reporting /\ t.vasp \in leaves(origin.registry) /\ t.complete

\* handleOriginate: build, and send under a fresh Request-Identifier.
Originate(t) ==
  /\ origin.pc = "up" /\ Len(sent) < MaxSends /\ Builds(t)
  /\ builds' = builds \cup {attestation(t)} /\ sent' = Append(sent, travelClock)
  /\ UNCHANGED <<keyVars, origin, benef, seen, handling, approvals, travelClock, faults>>

(***************************************************************************)
(* What arrives has the SD-JWT of one attestation, the plain fields of a   *)
(* second and the proofs of a third.                                       *)
(***************************************************************************)
Bodies == [sd : builds, outer : builds, proofs : builds]

\* The claims signed into the SD-JWT are those of the plain fields.
bound(m) ==
  /\ m.sd.payment = m.outer.payment
  /\ m.sd.anchor = m.outer.anchor
  /\ m.sd.amount = m.outer.amount

\* Every proof is of its public input, as the verifier trusts it.
proven(m) ==
  /\ m.proofs.anchor = m.outer.anchor
  /\ m.proofs.amount = m.outer.amount
  /\ m.proofs.root = benef.registry

\* Mutant: the context is the one the message names.
Verifies_named(m, now) ==
  /\ m.outer.root = benef.registry
  /\ m.sd.key = benef.key /\ now < m.sd.exp
  /\ bound(m) /\ proven(m)

\* travelrule.Verify.
Verifies(m, now) ==
  /\ m.outer.payment = ExpectedPayment
  /\ m.outer.root = benef.registry
  /\ m.sd.key = benef.key /\ now < m.sd.exp
  /\ bound(m) /\ proven(m)

pruned(now) == Restrict(seen, {i \in DOMAIN seen : now - seen[i] <= ReplayTTL})

\* observe reads the clock before it waits for its mutex.  A request may be
\* repeated at any time, so the one that gets the mutex may have read the clock
\* whenever it was sent and this process served.
clockReadings(id) == {t \in 0..travelClock : t >= sent[id] /\ t >= benef.since}

\* replayGuard.observe under its mutex, before the body is read, by a request
\* that read the clock at time.
Observe(id, time) ==
  LET live == pruned(time) IN
  /\ benef.pc = "up"
  /\ IF id \in DOMAIN live
     THEN seen' = live /\ UNCHANGED handling
     ELSE /\ seen' = [i \in DOMAIN live \cup {id} |-> IF i = id THEN time ELSE live[i]]
          /\ handling' = handling \cup {[id |-> id, observed |-> time, passed |-> travelClock]}
  /\ UNCHANGED <<keyVars, origin, benef, builds, sent, approvals, travelClock, faults>>

\* The rest of the handler, from reading the body on; a body that does not
\* verify, or was cut off, is refused.
Answer(h) ==
  /\ handling' = handling \ {h}
  /\ \/ \E m \in Bodies :
          /\ Verifies(m, travelClock)
          /\ approvals' = approvals \cup {[id |-> h.id, observed |-> h.observed, passed |-> h.passed,
                                          at |-> travelClock, anchor |-> m.outer.anchor, amount |-> m.outer.amount]}
     \/ UNCHANGED approvals
  /\ UNCHANGED <<keyVars, origin, benef, builds, sent, seen, travelClock, faults>>

TravelTick ==
  /\ travelClock < MaxTravelTime /\ travelClock' = travelClock + 1
  /\ UNCHANGED <<keyVars, origin, benef, transferVars, faults>>

TravelInit ==
  /\ keyFile = None /\ pubFile = None /\ lastKey = 0 /\ replaced = {}
  /\ origin = Down /\ benef = NotServing
  /\ builds = {} /\ sent = <<>> /\ seen = NoneSeen /\ handling = {} /\ approvals = {}
  /\ travelClock = 0 /\ faults = 0

TravelNext ==
  \/ OriginStarts \/ OriginWrites \/ OriginWriteFails \/ OriginDies
  \/ BenefStarts \/ BenefPolls \/ BenefStops
  \/ \E t \in Transfers : Originate(t)
  \/ \E id \in DOMAIN sent : \E time \in clockReadings(id) : Observe(id, time)
  \/ \E h \in handling : Answer(h)
  \/ TravelTick

(***************************************************************************)
(* Properties.                                                             *)
(***************************************************************************)
\* Whatever order the two services start, write, die and restart in, the key
\* that a running beneficiary loaded is the one every attestation was signed
\* with, since the originator stores its key before it publishes it, unless
\* one of the two was stored and then written over.  That happens to a key that
\* could not be read at a start, and nothing tells the beneficiary of it.
KeysMatch ==
  benef.pc = "up" =>
    \A a \in builds : a.key = benef.key \/ {a.key, benef.key} \cap replaced # {}

\* An approved transfer has the customer and the amount of one attestation
\* that the originator built for the payment the beneficiary observes, even
\* if parts of several attestations arrived together.
ApprovedAsAttested ==
  \A p \in approvals :
    \E a \in builds : /\ a.payment = ExpectedPayment /\ a.amount >= Reporting /\ p.at < a.exp
                      /\ a.anchor = p.anchor /\ a.amount = p.amount

\* A Request-Identifier passes a process's guard a second time only when more
\* than ReplayTTL went by since the request that passed first read the clock.
\* Counted between the two readings of the clock, or between the two passes, it
\* may be less: either request may have waited for the mutex.
IdentifiersOnce ==
  \A p, q \in approvals :
    p # q /\ p.id = q.id => \/ p.passed - q.observed > ReplayTTL
                            \/ q.passed - p.observed > ReplayTTL

\* A beneficiary approves what the originator attested, with the key it
\* published if it kept that, and no repetition of a request that its guard
\* still remembers.  The guard remembers an identifier, for less than an
\* attestation lives: one attestation may be approved again after that, or
\* under another identifier.
TravelRuleSafe == KeysMatch /\ ApprovedAsAttested /\ IdentifiersOnce
=============================================================================
