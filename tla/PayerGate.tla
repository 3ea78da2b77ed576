------------------------------ MODULE PayerGate ------------------------------
(***************************************************************************)
(* The x402 loop: a merchant asks for a payment (cmd/merchantsvc), the     *)
(* payer's agent (cmd/agent) asks the gate (cmd/gatesvc, internal/gate),   *)
(* pays through one of the clients/*-pay programs, and redeems the gate's  *)
(* attestation, which the merchant verifies again.  Gate and merchant may  *)
(* be restarted, an agent killed at any point, and anybody who has seen a  *)
(* bundle may present it, altered or not.                                  *)
(*                                                                         *)
(* The eight steps are in Enforcement and Delegation; here they are what   *)
(* they come to for this chain of tokens.  Records of used proofs are not  *)
(* pruned, a pruned one being too old to be accepted (ProofSingleUse).     *)
(***************************************************************************)
EXTENDS Integers, FiniteSets

CONSTANTS
    Agents,         \* executions of cmd/agent
    Merchants,      \* merchants and what they ask for: [name, to, amount, currency]
    Rails,          \* the chains the gate may be started for
    Ceiling, GateCurrency,
    TokenTTL,       \* lifetime of an SPT-Txn (30 s)
    ProofAge,       \* freshness of a DPoP proof (60 s)
    StandingTTL,    \* lifetime of the gate's own CT (10 min)
    RecordTTL,      \* validity of the issuer records (1 h)
    MaxPayTime, MaxBoots, MaxRelays

ASSUME PayerGateAssumption ==
    /\ {Ceiling, TokenTTL, ProofAge, StandingTTL, RecordTTL, MaxPayTime, MaxBoots, MaxRelays} \subseteq Nat
    /\ TokenTTL <= ProofAge
    /\ Rails \subseteq {"xrpl", "hedera", "sol", "aptos", "near", "eth"}

VARIABLES
    rail,       \* the chain in use
    clock,
    gate,       \* [epoch, until]: the gate's keys and the end of its CT
    minted,     \* history: the attestations the gate allowed
    shop,       \* merchant -> its registry, and the proofs and tokens used there
    run,        \* agent -> [stage, merchant, bundle]; met is history
    transfers,  \* what is on the ledger
    delivered,  \* history: deliveries of merchants
    presented,  \* history: bundles presented to merchants, by boot
    boots,      \* restarts of the gate and the merchants
    relays      \* bundles presented by others

payVars == <<rail, clock, gate, minted, shop, run, transfers, delivered, presented, boots, relays>>

NoBundle == [epoch |-> 0, n |-> 0, to |-> "", amount |-> 0, currency |-> "", ts |-> 0, exp |-> 0]
\* History: what a redeeming agent met with; again, that the merchant had been
\* shown the bundle before.
NoMeeting == [at |-> 0, until |-> 0, epoch |-> 0, again |-> FALSE]
\* A merchant's registry: the records of a gate, fetched at some time.
Opened(boot, epoch, now) ==
    [boot |-> boot, epoch |-> epoch, until |-> now + RecordTTL, proofs |-> {}, tokens |-> {}]
asks(m) == CHOOSE q \in Merchants : q.name = m
Names == {q.name : q \in Merchants}
least(a, b) == IF a <= b THEN a ELSE b

PayInit ==
    /\ rail \in Rails /\ clock = 0
    /\ gate = [epoch |-> 1, until |-> StandingTTL]
    /\ minted = {} /\ transfers = {} /\ delivered = {} /\ presented = {}
    /\ shop = [m \in Names |-> Opened(1, 1, 0)]
    /\ run = [a \in Agents |-> [stage |-> "start", merchant |-> "", bundle |-> NoBundle,
                            met |-> NoMeeting]]
    /\ boots = 0 /\ relays = 0

(***************************************************************************)
(* The gate.                                                               *)
(***************************************************************************)
\* gate.New: fresh keys, a CAT and a CT bounded by the ceiling.
GateRestarts ==
    /\ boots < MaxBoots /\ boots' = boots + 1
    /\ gate' = [epoch |-> gate.epoch + 1, until |-> clock + StandingTTL]
    /\ UNCHANGED <<rail, clock, minted, shop, run, transfers, delivered, presented, relays>>

\* txntoken.Issue: the scope is enforced at mint, under a CT that lives.
mints(q) == clock < gate.until /\ q.currency = GateCurrency /\ q.amount <= Ceiling

\* An SPT-Txn for this payment; n tells the tokens of one gate apart (jti).
sptTxn(q) ==
    [epoch |-> gate.epoch, n |-> Cardinality(minted) + 1, to |-> q.to, amount |-> q.amount,
     currency |-> q.currency, ts |-> clock, exp |-> least(clock + TokenTTL, gate.until)]

\* Mutant: the proof is made once, with the standing authority.
proofOf_standing(b) == <<b.epoch>>

\* The DPoP proof in a bundle: one for each token.
proofOf(b) == <<b.epoch, b.n>>

\* The stamp on the ledger: the anchor of the gate that decided.
anchorOf(epoch) == epoch

(***************************************************************************)
(* The merchant.                                                           *)
(***************************************************************************)
\* A merchant starts again and fetches the issuer records, which it keeps
\* until it ends.
MerchantStarts(m) ==
    /\ boots < MaxBoots /\ boots' = boots + 1
    /\ shop' = [shop EXCEPT ![m] = Opened(@.boot + 1, gate.epoch, clock)]
    /\ UNCHANGED <<rail, clock, gate, minted, run, transfers, delivered, presented, relays>>

context(b) == [to |-> b.to, amount |-> b.amount, currency |-> b.currency, ts |-> b.ts]

\* (1) The claimed payment is to this merchant for the advertised price.
boundHere(m, tc) ==
    LET q == asks(m) IN tc.to = q.to /\ tc.amount = q.amount /\ tc.currency = q.currency

\* (2) Steps 1 to 5: issuer keys, expiry, and a fresh proof, not used before.
proofFresh(m, b) ==
    /\ b.epoch = shop[m].epoch /\ clock <= shop[m].until
    /\ clock < b.exp /\ clock <= b.ts + ProofAge
    /\ proofOf(b) \notin shop[m].proofs

\* Steps 6 to 8 and the single use of the token.
passes(m, b, tc) ==
    /\ tc.currency = GateCurrency /\ tc.amount <= Ceiling
    /\ tc = context(b)
    /\ <<b.epoch, b.n>> \notin shop[m].tokens

\* POST /resource/redeem of bundle b with tc as its transaction: the proof is
\* recorded at step 5, the token once everything has passed.
Redeem(m, b, tc) ==
    LET reached == boundHere(m, tc) /\ proofFresh(m, b)
        ok == reached /\ passes(m, b, tc)
    IN  /\ shop' = [shop EXCEPT
                       ![m].proofs = IF reached THEN @ \cup {proofOf(b)} ELSE @,
                       ![m].tokens = IF ok THEN @ \cup {<<b.epoch, b.n>>} ELSE @]
        /\ delivered' = IF ok THEN delivered \cup {[merchant |-> m, boot |-> shop[m].boot,
                                     bundle |-> b, at |-> clock, n |-> Cardinality(delivered) + 1]}
                        ELSE delivered
        /\ presented' = presented \cup {[merchant |-> m, boot |-> shop[m].boot, bundle |-> b]}

delivers(m, b, tc) == boundHere(m, tc) /\ proofFresh(m, b) /\ passes(m, b, tc)

\* Somebody presents a bundle to a merchant, the transaction in it altered to
\* what the merchant asks for, or in its time.
Relay(m) ==
    /\ relays < MaxRelays /\ relays' = relays + 1
    /\ \E b \in minted :
         \E tc \in {context(b), [context(b) EXCEPT !.ts = @ + 1],
                    [context(b) EXCEPT !.to = asks(m).to, !.amount = asks(m).amount]} :
            Redeem(m, b, tc)
    /\ UNCHANGED <<rail, clock, gate, minted, run, transfers, boots>>

(***************************************************************************)
(* The agent, one step per call it makes.  An agent or a pay client that   *)
(* fails, is refused by its flags or is killed takes no further step.      *)
(***************************************************************************)
nowAt(a, s) == run' = [run EXCEPT ![a].stage = s]
stageOf(a) == run[a].stage

\* fetchRequirement.
AgentFetches(a) ==
    /\ stageOf(a) = "start"
    /\ \E m \in Names : run' = [run EXCEPT ![a].stage = "asking", ![a].merchant = m]
    /\ UNCHANGED <<rail, clock, gate, minted, shop, transfers, delivered, presented, boots, relays>>

\* authorize: the gate mints and verifies, or denies.
AgentAuthorizes(a) ==
    /\ stageOf(a) = "asking"
    /\ LET q == asks(run[a].merchant) IN
       IF mints(q)
       THEN /\ minted' = minted \cup {sptTxn(q)}
            /\ run' = [run EXCEPT ![a].stage = "allowed", ![a].bundle = sptTxn(q)]
       ELSE nowAt(a, "denied") /\ UNCHANGED minted
    /\ UNCHANGED <<rail, clock, gate, shop, transfers, delivered, presented, boots, relays>>

\* Only an allowed payment is settled; with -dry-pay none is.
pays(a) == stageOf(a) = "allowed"

\* The pay clients.  Each checks its flags, signs and submits one transfer;
\* memo says whether that has a field for the anchor, and hash at which states
\* of it the client prints the hash the agent waits for.
AnyState == {"pending", "done", "failed"}

\* A Memo; SubmitTxBlobAndWait returns when the transaction is in a ledger.
xrplPay == [memo |-> TRUE, hash |-> {"done", "failed"}]
\* The transaction memo; GetReceipt is an error for a transfer that failed.
hederaPay == [memo |-> TRUE, hash |-> {"done"}]
\* A memo instruction; confirm gives up quietly and only warns of a failure.
solPay == [memo |-> TRUE, hash |-> AnyState]
\* No memo; WaitForTransaction returns when the transaction is in a ledger.
aptosPay == [memo |-> FALSE, hash |-> {"done", "failed"}]
\* No memo; the transfer is broadcast and not followed.
nearPay == [memo |-> FALSE, hash |-> AnyState]
\* The data field; the transfer is sent and not followed.
ethPay == [memo |-> TRUE, hash |-> AnyState]

payClient ==
    [xrpl |-> xrplPay, hedera |-> hederaPay, sol |-> solPay, aptos |-> aptosPay,
     near |-> nearPay, eth |-> ethPay]

carriesAnchor == payClient[rail].memo

\* settle runs the pay client, which submits one transaction.
AgentSettles(a) ==
    /\ pays(a)
    /\ transfers' = transfers \cup
          {[by |-> a, to |-> run[a].bundle.to, amount |-> run[a].bundle.amount,
            currency |-> run[a].bundle.currency, status |-> "pending",
            memo |-> IF carriesAnchor THEN anchorOf(run[a].bundle.epoch) ELSE 0]}
    /\ nowAt(a, "submitted")
    /\ UNCHANGED <<rail, clock, gate, minted, shop, delivered, presented, boots, relays>>

\* The network includes a submitted transfer, and it succeeds or fails there.
LedgerApplies ==
    /\ \E t \in transfers : \E s \in {"done", "failed"} :
          t.status = "pending" /\ transfers' = (transfers \ {t}) \cup {[t EXCEPT !.status = s]}
    /\ UNCHANGED <<rail, clock, gate, minted, shop, run, delivered, presented, boots, relays>>

transferOf(a) == CHOOSE t \in transfers : t.by = a

ClientReports(a) ==
    /\ stageOf(a) = "submitted" /\ transferOf(a).status \in payClient[rail].hash
    /\ nowAt(a, "paid")
    /\ UNCHANGED <<rail, clock, gate, minted, shop, transfers, delivered, presented, boots, relays>>

\* redeem ends the run with the merchant's answer.
AgentRedeems(a) ==
    /\ stageOf(a) = "paid"
    /\ LET m == run[a].merchant b == run[a].bundle IN
       /\ Redeem(m, b, context(b))
       /\ run' = [run EXCEPT
                     ![a].stage = IF delivers(m, b, context(b)) THEN "delivered" ELSE "refused",
                     ![a].met = [at |-> clock, until |-> shop[m].until, epoch |-> shop[m].epoch,
                                 again |-> [merchant |-> m, boot |-> shop[m].boot, bundle |-> b]
                                             \in presented]]
    /\ UNCHANGED <<rail, clock, gate, minted, transfers, boots, relays>>

PayTick ==
    /\ clock < MaxPayTime /\ clock' = clock + 1
    /\ UNCHANGED <<rail, gate, minted, shop, run, transfers, delivered, presented, boots, relays>>

PayNext ==
    \/ GateRestarts \/ LedgerApplies \/ PayTick
    \/ \E m \in Names : MerchantStarts(m) \/ Relay(m)
    \/ \E a \in Agents : \/ AgentFetches(a) \/ AgentAuthorizes(a) \/ AgentSettles(a)
                         \/ ClientReports(a) \/ AgentRedeems(a)

-----------------------------------------------------------------------------
\* Every transfer rests on an attestation of its own, that the gate minted for
\* this payee, amount and currency within the agent's ceiling, and carries the
\* anchor of that gate where the rail has a field for it.  What is spent is
\* never more than what was allowed, whatever dies in between.
SpendsOnlyAllowed ==
    \A t \in transfers :
        LET b == run[t.by].bundle IN
        /\ b \in minted /\ \A u \in transfers : u # t => run[u.by].bundle # b
        /\ t.to = b.to /\ t.amount = b.amount /\ t.currency = b.currency
        /\ t.amount <= Ceiling /\ t.currency = GateCurrency
        /\ carriesAnchor => t.memo = anchorOf(b.epoch)

\* A merchant delivers at most once for an attestation while it runs, and only
\* for one that this merchant's gate minted for exactly its price, whoever
\* presents it and however the bundle was altered on the way.
DeliveredIsBound ==
    \A d \in delivered :
        /\ d.bundle \in minted
        /\ d.bundle.to = asks(d.merchant).to /\ d.bundle.amount = asks(d.merchant).amount
        /\ d.at < d.bundle.exp
        /\ \A e \in delivered :
              e.merchant = d.merchant /\ e.boot = d.boot /\ e.bundle = d.bundle => e = d

\* An agent that has paid may be refused, and its payment stays made.  There
\* are four reasons for it and no other: the attestation expired while the
\* payment settled, the merchant's records ran out, the merchant holds the
\* keys of another life of the gate, or somebody presented the bundle first.
RefusedForCause ==
    \A a \in Agents :
        stageOf(a) = "refused" =>
            LET b == run[a].bundle w == run[a].met IN
            w.at >= b.exp \/ w.at > w.until \/ w.epoch # b.epoch \/ w.again

\* The payer spends what was allowed, the merchant delivers for its price, and
\* an agent that paid is served unless one of the four reasons above applies,
\* none of which the loop prevents.
PaymentsSafe == SpendsOnlyAllowed /\ DeliveredIsBound /\ RefusedForCause
=============================================================================
