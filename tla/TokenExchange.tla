---------------------------- MODULE TokenExchange ----------------------------
(***************************************************************************)
(* The token exchange bridges: cmd/idp-bridge turns a token of an identity *)
(* provider into a root CAT, cmd/workload-bridge the attestation of a      *)
(* workload (internal/attest).  A request is verified, decided and issued  *)
(* at three readings of the clock; the handler may stall between them.     *)
(* Requests share nothing, so one at a time is every behaviour.            *)
(*                                                                         *)
(* Time is in ticks, Second of them to a second: claims carry whole        *)
(* seconds, durations do not.                                              *)
(***************************************************************************)
EXTENDS Scope, FiniteSetsExt

CONSTANTS
  Permitted,       \* the ceiling of the deployment, SPT_*_PERMITTED_SCOPE
  ExchangeRequests, \* the requests that may arrive
  Second,          \* ticks per second
  Skew,            \* clockSkew, the leeway of the verifiers
  Hour, MaxHours,  \* ticks of an hour; maxCATTTL in hours, also the default
  WorkloadTTL,     \* the default of the workload bridge
  maxDelegationDepth,
  MaxExchangeTime  \* bound on the clock

\* No bridge starts without a ceiling it can seal.
loadPermittedScope(ceiling) ==
  IsScope(ceiling) /\ DOMAIN ceiling # {} /\ ValidateIssuance(ceiling)

ASSUME ExchangeAssumption ==
  /\ loadPermittedScope(Permitted)
  /\ {Second, Hour, MaxHours, WorkloadTTL, maxDelegationDepth} \subseteq Nat \ {0}
  /\ {Skew, MaxExchangeTime} \subseteq Nat

\* A parsed request: dates are integers and a usable scope is a scope.
ASSUME ExchangeRequestsAssumption ==
  \A r \in ExchangeRequests :
    /\ r.proof.exp \in Int /\ r.hours \in Int
    /\ \A s \in {r.scope, r.entitlement} : s.kind = "object" => IsScope(s.value)

VARIABLES
  exchange,       \* where the request is: idle, arrived, verified, decided, done
  exchangeReq,    \* the request
  exchangeClock,
  decision,       \* scope, depth, ttl and when rem was measured
  cat             \* the CAT issued, exp in seconds and at in ticks, or none

bridgeVars == <<exchange, exchangeReq, exchangeClock, decision, cat>>

Absent == -1
Nothing == [d \in {} |-> 0]
NoDecision == [scope |-> Nothing, depth |-> 0, ttl |-> 0, at |-> 0]
NoCat == [exp |-> 0, at |-> 0, scope |-> Nothing, depth |-> 0, sealed |-> FALSE]
Unix(t) == t \div Second

(***************************************************************************)
(* Verification.  A proof: whether its form, algorithm, key and signature  *)
(* hold, its issuer and audience, its subject, its dates.                  *)
(***************************************************************************)
idpTypes == {"access_token", "jwt"}
workloadMethod ==
  [t \in {"spiffe-jwt-svid", "spiffe-x509-svid", "k8s-sa", "aws-irsa", "gcp-wif",
          "azure-fc", "jwt", "oidc"} |->
     IF t = "jwt" THEN "oidc" ELSE t]

\* The temporal checks of VerifyJWT and of oidc.Verify; exp is required.
datesHold(proof, now) ==
  /\ proof.exp # Absent /\ now <= proof.exp + Skew
  /\ proof.nbf = Absent \/ proof.nbf <= now + Skew

VerifyJWT(proof, now) ==
  /\ proof.genuine /\ proof.issuer /\ datesHold(proof, now) /\ proof.audience
  /\ proof.subject # "none"

VerifySPIFFEJWTSVID(proof, now) ==
  /\ proof.genuine /\ datesHold(proof, now) /\ proof.audience
  /\ proof.subject = "spiffe"

VerifyK8sSAToken(proof, now) == VerifyJWT(proof, now) /\ proof.subject = "serviceaccount"

\* A certificate: its chain, one spiffe URI and no other name, no leeway.
VerifyX509SVID(proof, now) ==
  /\ proof.genuine /\ proof.subject = "spiffe"
  /\ proof.nbf <= now /\ proof.exp # Absent /\ now <= proof.exp

verifyWorkload(r, now) ==
  CASE workloadMethod[r.type] = "spiffe-x509-svid" -> VerifyX509SVID(r.proof, now)
    [] workloadMethod[r.type] = "spiffe-jwt-svid"  -> VerifySPIFFEJWTSVID(r.proof, now)
    [] workloadMethod[r.type] = "k8s-sa"           -> VerifyK8sSAToken(r.proof, now)
    [] OTHER                                       -> VerifyJWT(r.proof, now)

\* Freshness.Check, when the request asks for one; iat defaults to the epoch.
fresh(r, now) ==
  r.maxAge > 0 => /\ now - r.proof.iat >= 0 - Skew
                  /\ now - r.proof.iat <= r.maxAge

\* The parameters of the request, judged before any proof is looked at.
paramsHold(r) ==
  /\ r.grant /\ r.holder # "malformed"
  /\ r.service = "idp" => r.type \in idpTypes
  /\ r.service = "workload" => r.audience /\ r.type \in DOMAIN workloadMethod

\* sub, client_id or azp: an IdP token names its principal by one of them.
proofHolds(r, now) ==
  IF r.service = "idp"
  THEN /\ r.proof.genuine /\ r.proof.issuer /\ datesHold(r.proof, now)
       /\ r.proof.audience /\ r.proof.subject # "none"
  ELSE verifyWorkload(r, now)

(***************************************************************************)
(* The scope decision.  A scope is absent, unusable or an object; an empty *)
(* object is an absent request at the idp bridge, and restricts nothing at *)
(* the other.                                                              *)
(***************************************************************************)
\* The spt_scope claim bounds the grant whether or not a scope is requested.
ceilingOK(r) ==
  r.service = "idp" /\ r.entitlement.kind # "absent" =>
     r.entitlement.kind = "object" /\ IntersectOK(Permitted, r.entitlement.value)

ceiling(r) ==
  IF r.service = "idp" /\ r.entitlement.kind = "object"
  THEN Intersect(Permitted, r.entitlement.value) ELSE Permitted

grantOK(r) ==
  /\ r.scope.kind # "unusable" /\ ceilingOK(r)
  /\ r.scope.kind = "object" => IntersectOK(ceiling(r), r.scope.value)

grant(r) == IF r.scope.kind = "object" THEN Intersect(ceiling(r), r.scope.value) ELSE ceiling(r)

depth(r) == Min({IF r.depth >= 1 THEN r.depth ELSE 3, maxDelegationDepth})

ttlBound(r) ==
  IF r.service = "idp"
  THEN Hour * (IF r.hours > 0 THEN Min({r.hours, MaxHours}) ELSE MaxHours)
  ELSE WorkloadTTL

alive(rem) == rem > 0

(***************************************************************************)
(* The handlers.                                                           *)
(***************************************************************************)
BridgeInit ==
  /\ exchange = "idle" /\ exchangeReq \in ExchangeRequests /\ exchangeClock = 0
  /\ decision = NoDecision /\ cat = NoCat

ExchangeTick ==
  /\ exchange # "done" /\ exchangeClock < MaxExchangeTime
  /\ exchangeClock' = exchangeClock + 1
  /\ UNCHANGED <<exchange, exchangeReq, decision, cat>>

\* The parameters, then ver.Verify or h.verify.
VerifyProof ==
  /\ exchange = "idle"
  /\ exchange' = IF paramsHold(exchangeReq) /\ proofHolds(exchangeReq, exchangeClock)
                 THEN "verified" ELSE "done"
  /\ UNCHANGED <<exchangeReq, exchangeClock, decision, cat>>

\* The rest of decide and decideIDP.
Decide ==
  LET r == exchangeReq
      rem == r.proof.exp - exchangeClock
      ok == (r.service = "workload" => fresh(r, exchangeClock)) /\ grantOK(r) /\ alive(rem)
  IN  /\ exchange = "verified"
      /\ exchange' = IF ok THEN "decided" ELSE "done"
      /\ decision' = IF ok THEN [scope |-> grant(r), depth |-> depth(r),
                                 ttl |-> Min({rem, ttlBound(r)}), at |-> exchangeClock]
                     ELSE decision
      /\ UNCHANGED <<exchangeReq, exchangeClock, cat>>

\* Mutant: the caller's lifetime is taken as it is.
sealHolds_trusted(r, exp) == TRUE

\* A sealed attestation bounds the CAT; the idp bridge seals none.
sealHolds(r, exp) == r.service = "workload" => exp <= Unix(r.proof.exp)

\* cattoken.Issue adds the life it was given to a later reading of the clock
\* and dates the CAT in whole seconds; a dry run stops before it.
IssueCAT ==
  LET r == exchangeReq
      ttl == IF decision.ttl = 0 THEN Hour * MaxHours ELSE decision.ttl
      exp == Unix(exchangeClock + ttl)
      ok == /\ ~ r.dryRun /\ r.holder # "degenerate"
            /\ decision.depth >= 1 /\ ValidateIssuance(decision.scope)
            /\ sealHolds(r, exp)
  IN  /\ exchange = "decided"
      /\ exchange' = "done"
      /\ cat' = IF ok THEN [exp |-> exp, at |-> exchangeClock, scope |-> decision.scope,
                            depth |-> decision.depth, sealed |-> r.service = "workload"]
                ELSE cat
      /\ UNCHANGED <<exchangeReq, exchangeClock, decision>>

BridgeNext == VerifyProof \/ Decide \/ IssueCAT \/ ExchangeTick

(***************************************************************************)
(* Properties.                                                             *)
(***************************************************************************)
\* Every bound that r, a scope, states is respected by the granted scope g.
Respects(g, r) == \A d \in DOMAIN r : d \in DOMAIN g /\ valueContained(d, r[d], g[d])

\* What is granted respects the deployment's ceiling in every dimension, the
\* principal's entitlement and the request, whichever of them a client sent
\* and whatever it left out.
GrantWithinEveryBound ==
  cat # NoCat =>
    /\ DOMAIN cat.scope = DOMAIN Permitted /\ Respects(cat.scope, Permitted)
    /\ exchangeReq.service = "idp" /\ exchangeReq.entitlement.kind = "object"
         => Respects(cat.scope, exchangeReq.entitlement.value)
    /\ exchangeReq.scope.kind = "object" => Respects(cat.scope, exchangeReq.scope.value)

\* A CAT expires after its proof by no more than the handler stalled between
\* measuring what was left of the proof and issuing, and lives no longer than
\* the deployment allows; a proof that has expired, though the verifier's
\* leeway lets it pass, gets none.  The stall is the whole excess, and it is
\* there: the CAT of an IdP token, which seals nothing, may outlive its token.
LifetimeInherited ==
  cat # NoCat => /\ decision.at < exchangeReq.proof.exp
                 /\ cat.exp * Second <= exchangeReq.proof.exp + (cat.at - decision.at)
                 /\ cat.exp * Second <= cat.at + ttlBound(exchangeReq)

\* A CAT that seals an attestation does not outlive it at all, in the seconds
\* that both are dated in, however long the handler stalled before issuing.
SealedWithinAttestation == cat.sealed => cat.exp <= Unix(exchangeReq.proof.exp)

\* What a bridge issues has no more authority than what it was given for it;
\* the CAT of a workload no longer a life, that of an IdP token one longer by
\* the stall of its handler at most.
ExchangeSafe == GrantWithinEveryBound /\ LifetimeInherited /\ SealedWithinAttestation
=============================================================================
