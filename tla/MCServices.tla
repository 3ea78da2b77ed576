----------------------------- MODULE MCServices -----------------------------
(***************************************************************************)
(* Model checking the services around the enforcement engine: the caches   *)
(* of provider keys and of status lists, the token exchange bridges, the   *)
(* Travel Rule services, the payer-side gate with its decision documents,  *)
(* and the token contracts.  They share no state, so each behaviour        *)
(* exercises one of them, the one in focus, and leaves the others in one   *)
(* of their initial states.                                                *)
(***************************************************************************)
EXTENDS KeyCache, StatusList, TokenExchange, TravelRule, PayerGate, DecisionFile, RwaToken

VARIABLE focus

servicesVars == <<cacheVars, listVars, bridgeVars, travelVars, payVars, fileVars, rwaVars, focus>>

-----------------------------------------------------------------------------
(* The token exchange: scopes, proofs and requests.                        *)

MCUnit == [d \in moneyDims |-> "currency"]
MCPermitted == [max_amount |-> 2, currency |-> "USD", regions |-> {"eu", "us"}]

object(s) == [kind |-> "object", value |-> s]
noScope == [kind |-> "absent", value |-> Nothing]

\* Scopes as a request or an entitlement may carry them.
ScopeParams ==
  {noScope, [kind |-> "unusable", value |-> Nothing], object(Nothing),
   object([max_amount |-> 1, currency |-> "USD"]), object([max_amount |-> 3, currency |-> "USD"]),
   object([currency |-> "USD"]), object([currency |-> "EUR"]),
   object([regions |-> {"eu", "zz"}]), object([regions |-> {}]),
   object([max_cumulative |-> 1, currency |-> "USD"])}

GoodProof ==
  [genuine |-> TRUE, issuer |-> TRUE, audience |-> TRUE, subject |-> "spiffe",
   iat |-> 0, nbf |-> 0, exp |-> 4]

\* Dates on both sides of the clock and its leeway, and each other defect.
IdentityProofs ==
  {[GoodProof EXCEPT !.exp = e, !.nbf = n] : e \in {Absent, 0, 2, 4, 6}, n \in {Absent, 0, 2}}
  \cup {[GoodProof EXCEPT !.subject = s] : s \in {"none", "plain", "serviceaccount"}}
  \cup {[GoodProof EXCEPT !.genuine = FALSE], [GoodProof EXCEPT !.issuer = FALSE],
        [GoodProof EXCEPT !.audience = FALSE]}

Good(service) ==
  [service |-> service, grant |-> TRUE, type |-> "jwt", audience |-> TRUE, holder |-> "good",
   proof |-> GoodProof, maxAge |-> 0, scope |-> noScope, entitlement |-> noScope,
   depth |-> 0, hours |-> 0, dryRun |-> FALSE]

\* One aspect of the request varies, or a pair that interacts.
RequestsTo(service) ==
  LET r == Good(service) IN
  {[r EXCEPT !.scope = s, !.entitlement = e] : s \in ScopeParams, e \in ScopeParams}
  \cup {[r EXCEPT !.proof = p, !.type = t] :
          p \in IdentityProofs, t \in idpTypes \cup DOMAIN workloadMethod}
  \cup {[r EXCEPT !.depth = d, !.hours = h] : d \in {1, 9}, h \in {1, 9}}
  \cup {[r EXCEPT !.maxAge = a] : a \in {1, 3}}
  \cup {[r EXCEPT !.holder = h] : h \in {"malformed", "degenerate"}}
  \cup {[r EXCEPT !.grant = FALSE], [r EXCEPT !.audience = FALSE], [r EXCEPT !.dryRun = TRUE]}

MCRequests == RequestsTo("idp") \cup RequestsTo("workload")

-----------------------------------------------------------------------------
(* The other inputs.                                                       *)

payment(p, c, a, v, ok) == [payment |-> p, customer |-> c, amount |-> a, vasp |-> v, complete |-> ok]

\* Two amounts of one customer, another customer, another payment, an amount
\* below the threshold, a VASP that is not registered, incomplete data.
MCTransfers ==
  {payment("p", "ann", 1, "m", TRUE), payment("p", "ann", 2, "m", TRUE), payment("q", "bob", 2, "d", TRUE),
   payment("p", "bob", 0, "m", TRUE), payment("p", "ann", 1, "x", TRUE), payment("q", "ann", 2, "m", FALSE)}

\* One merchant within the gate's ceiling, one above it.
MCMerchants ==
  {[name |-> "m", to |-> "M", amount |-> 1, currency |-> "c"],
   [name |-> "n", to |-> "N", amount |-> 3, currency |-> "c"]}

order(c, p, a, cur) == [chain |-> c, payer |-> p, payee |-> "shop", amount |-> a, currency |-> cur]

MCOrders ==
  {order("xrpl", "", 1, "XRP"), order("xrpl", "", 3, "XRP"), order("base", "acct", 2, "USDC"),
   order("base", "", 2, "USDC"), order("base", "acct", 2, "XRP")}

MCProofs ==
  {[who |-> "h", threshold |-> 1, root |-> "r"], [who |-> "k", threshold |-> 1, root |-> "r"],
   [who |-> "h", threshold |-> 1, root |-> "s"]}

-----------------------------------------------------------------------------
\* The parts that are not in focus start in one of their initial states.
ServicesInit ==
  /\ focus \in {"keys", "status", "exchange", "travel", "payment", "document", "token"}
  /\ CacheInit /\ (focus # "keys" => cache = "oidc")
  /\ ListInit /\ (focus # "status" => list.bits = 2)
  /\ BridgeInit /\ (focus # "exchange" => exchangeReq = Good("idp"))
  /\ TravelInit
  /\ PayInit /\ (focus # "payment" => rail = "near")
  /\ FileInit
  /\ RwaInit
  /\ focus # "token" => /\ edition = "v1"
                        /\ policy = [threshold |-> 1, root |-> "r", membership |-> TRUE, attribute |-> TRUE]

ServicesNext ==
  \/ /\ focus = "keys" /\ CacheNext
     /\ UNCHANGED <<listVars, bridgeVars, travelVars, payVars, fileVars, rwaVars, focus>>
  \/ /\ focus = "status" /\ ListNext
     /\ UNCHANGED <<cacheVars, bridgeVars, travelVars, payVars, fileVars, rwaVars, focus>>
  \/ /\ focus = "exchange" /\ BridgeNext
     /\ UNCHANGED <<cacheVars, listVars, travelVars, payVars, fileVars, rwaVars, focus>>
  \/ /\ focus = "travel" /\ TravelNext
     /\ UNCHANGED <<cacheVars, listVars, bridgeVars, payVars, fileVars, rwaVars, focus>>
  \/ /\ focus = "payment" /\ PayNext
     /\ UNCHANGED <<cacheVars, listVars, bridgeVars, travelVars, fileVars, rwaVars, focus>>
  \/ /\ focus = "document" /\ FileNext
     /\ UNCHANGED <<cacheVars, listVars, bridgeVars, travelVars, payVars, rwaVars, focus>>
  \/ /\ focus = "token" /\ RwaNext
     /\ UNCHANGED <<cacheVars, listVars, bridgeVars, travelVars, payVars, fileVars, focus>>

ServicesSpec == ServicesInit /\ [][ServicesNext]_servicesVars
=============================================================================
