# Verification of SPT-Txn

TLA+ models of SPT-Txn, TLC runs over small instances, and TLAPS proofs. Paths
are relative to the repository; line numbers are in `PROJECT.json` (`map`).

## 1. The system

A principal's compliance provider issues a **CAT** (root authority). A CAT is
delegated through a chain of **CTs**, each narrower than its parent, and a token
service mints one **SPT-Txn** per transaction against the last CT. The holder
presents SPT-Txn, DPoP proof and chain to an enforcement point, which decides
offline in eight steps. Issuer keys come from a trust registry, distributed as
signed snapshots. Gateways put the decision in front of MCP servers and A2A
agents and keep a transparency log of their decisions. Around this core are
bridges from identity providers, a payer-side gate for x402 payments, the Travel
Rule between VASPs, token contracts, and an escrow that lets an authorised
requester recover the identity behind an anchor.

```
 trsvc (TrustRegistry) --file--> cmd/snapshot --manifest+body--> agentsvc, deanonsvc
                                                  (TrustSnapshot)     |          |
 idp/workload-bridge, catsvc -CAT-> cttoken -CT..-> txntoken -SPT-Txn-> Engine.Verify   Deanonymize
   (TokenExchange <- KeyCache)   (Scope, Delegation)      (Enforcement <- StatusList)    (Deanon)
                                                               ^
 x402: merchantsvc <- agent -> gatesvc -> clients/*-pay -> ledger   (PayerGate, DecisionFile)

 client -> mcp-pep / a2a-pep / extauthz / opashim -> wrapped server
           (Gateway, McpExchange, A2AMessage, AgentCard)
              | receipts -> audit log -> heads -> witnesses   (AuditLog, Merkle, Witness)
 spt-txn-init -> deployment directory, run.sh, keys           (DeployConfig, Deployment)
 tr-svc <-> tr-svc (TravelRule)      CompliantRWAToken, V2 (RwaToken)
```

### Inventory

| Component | State | Operations | What is hard | What makes it correct |
|---|---|---|---|---|
| Enforcement engine (`internal/verifier`, `internal/dpop`) | single-use store (`replayCache.seen`) | `Verify`, `VerifyForSettlement`, steps 1-8, `consumeAll` | concurrent presentations, clock between check and use, wall clock set, keys revoked during a walk | a token, slice or proof is used once; a refusal consumes nothing; authority is current |
| Delegation tokens (`cattoken`, `cttoken`, `txntoken`) | none (signed values) | `Issue`, `IssueSubbands`, `Delegate`, `txntoken.Issue` | issuers that do not check; chains in any order; a schedule minted across seconds | authority never widens along a chain; depth and budget are bounded |
| Scope algebra (`internal/tbac`) | none | `Contains`, `Intersect`, `InheritMoneyUnit`, `ValidateIssuance`, `ValidateBandDivision`, `CommitBandDivision` | partial scopes, omitted dimensions, touching windows | greatest lower bound; inheritance and overlay narrow; one band live |
| Trust registry (`trustregistry/persist.go`, `trsvc`) | records in memory and one file | `Register`, `Replace`, `Revoke`, `Supersede`, `Lookup`, `save` | failed writes, crash and power loss between rename and sync | memory agrees with disk; acknowledged changes survive; one active key, never none |
| Trust snapshots (`pkg/trustsnapshot`, `OpenVerified`, `cmd/snapshot`) | manifest, body, acceptance record | `sign`, `Verify`, `FileState.Save`, `fresh` | two files replaced apart, old files put back, stale memory, the signer writing the registry back | what is loaded was signed as one; no rollback; revocations arrive |
| Deanonymization (`internal/escrow`, `deanonsvc`) | vault, replay guard | `Store`, `Deanonymize` | time read before the lock, deposits racing with recoveries, restart | one identity per anchor, one recovery per request |
| Gateway decision core (`internal/decision`) and its skins (`mcppep`, `a2apep`, `extauthz`, `grpc-extauthz`, `opashim`) | bounded replay cache | `Decide`, `replayCheck`, `finish`, `Handle` | pruning at second granularity, full cache, failing receipts | one use per live jti; what is delivered is on record; every request is answered |
| MCP exchange (`cmd/mcp-pep`) | one child connection, two pipes | `serve`, `forward`, `relay` | full pipes, lines nobody asked for, a child that exits | an answer belongs to its call; no call hangs on a server that is gone |
| A2A messages and cards (`internal/a2apep`, `cmd/a2a-pep`) | none | `Handle`, `scanObject`, `walkForKey`, `rewriteCard` | duplicate members, nulls, names nested at any depth | what is forwarded is what was bound; a card shows the point, not the agent |
| Audit log and witnesses (`pkg/audit`, `receiptlog`, `pkg/receipt`) | entries in memory and file, witness anchors | `Append`, `load`, `PublishRoot`, `MerkleProof`, `Cosign`, `VerifyCosigned` | partial writes, torn last line, concurrent heads | the file always opens and extends what was published; no two views are cosigned |
| Status lists (`internal/statuslist`) | packed list, cached lists | `Set`, `Get`, `Sign`, `AddVerified`, `Check` | bits across byte boundaries, older lists put back | a published revocation takes effect |
| Key caches (`attest/jwks.go`, `oidc`) | key sets with fetch times | `Refresh`, `Key`, `tryRefresh`, `Verify` | responses out of order, throttle against rotation, stalls between clock, lock and send | a withdrawn key goes out of use; a rotated one comes into use |
| Token exchange bridges (`idp-bridge`, `workload-bridge`, `internal/attest`) | none per request | the two handlers, `VerifyJWT`, `decide`, `Issue` | three readings of the clock, absent and empty scopes, entitlement against request | a grant is within policy, entitlement and request and outlives its proof by no more than its handler stalled |
| Payer-side gate (`internal/gate`, `gatesvc`, `merchantsvc`, `agent`, `clients/*-pay`) | gate keys, merchants' stores, ledger | `Authorize`, redemption, transfer | restarts, kills between paying and redeeming, bundles presented by others | what is paid was allowed; what is delivered was paid for and bound |
| Decision documents (`pkg/payergate`, `x402gate`) | one file | `Decide`, `Write`, `Read`, `CheckSettleable` | two writers, a reader meeting a file half written, altered fields | what is settled is what was decided, but for fields nothing protects |
| Travel Rule (`trp`, `travelrule`, `vaspregistry`, `sdjwt`, `tr-svc`) | key files, seen request identifiers | start of both roles, `Build`, `Handler`, `observe` | keys generated while the peer starts, a key that cannot be read, messages taken apart, a clock read before the lock | an approval is for what one attestation says |
| Token contracts (`solidity/src`) | balances, allowances, eligibility | `register`, `mint`, `approve`, `transfer`, `transferFrom`, `setConfig` | policy changed between calls, allowance at the maximum | supply is conserved; eligibility is by one's own proof (second edition) |
| Deployment generator (`spt-txn-init`) | output directory, key beside it, temporary directory | `validate`, prompts, `run`, `populate`, `cleanupOnSignal` | signals and kills between system calls, a second run, others at the path | a deployment is whole or absent; nothing is overwritten; an accepted configuration starts, its port permitting |
| Ledger adapters, ZK circuits, suites, credentials, JCS, demos, tools | none or external | encodings and cryptography | - | not state machines |

Interactions: the engine calls `Registry.Lookup` once per signed token, reads
the status resolver, and shares one store between all handler goroutines. A
gateway's decision core calls the log while it answers, and a permit it cannot
log becomes a deny (`Gateway` extends `AuditLog` for this reason). Bridges ask a
key cache for keys. Services share nothing but files: registry body, manifest,
acceptance record, audit log, decision document, VASP key. Nothing else is
shared in memory between components.

## 2. Modules

| Module | Models | Shape |
|---|---|---|
| `Enforcement` | eight-step engine, single-use store, clocks, registry lookups | one process per presentation, one action per step |
| `SingleUse` | what an authority over single-use rights promises | abstract specification |
| `Scope` | scope algebra | operators over partial functions from dimensions to values |
| `Delegation` (extends `Scope`) | the issuers, steps 6 to 8 | mint actions; a presentation walked hop by hop |
| `TrustRegistry` | trsvc's writer and its file | mutation, save split at each system call, crash |
| `TrustSnapshot` | signer, distribution, readers | signer and reader steps, failures |
| `Deanon` | vault and replay guard | goroutines split at the lock |
| `AppendOnly` | what a log promises | abstract specification |
| `AuditLog` | `pkg/audit` log: memory, file, disk | append that succeeds or fails, crash, power loss, reopen |
| `Gateway` (extends `AuditLog`) | decision core, skins, receipts | one process per request, one action per reading of the clock, lock or log |
| `JsonValue`, `A2AMessage`, `AgentCard` | what the points make of a document | operators over JSON values; a walk is a recursive function of the depth |
| `Merkle` | root, audit path, verification | operators; a loop is a recursive function of its round |
| `McpExchange` | stdio exchange of mcp-pep | client, point, two pipes, wrapped server |
| `Witness` | `Cosign`, `VerifyCosigned` | one witness step split between check and advance |
| `DeployConfig`, `Deployment` | spt-txn-init | validators and rendering; one action per system call |
| `KeyCache` | both provider key caches | lookups, fetches, provider rotation |
| `StatusList` | packed list, snapshots, resolver | set, sign, admit, check |
| `TokenExchange` (extends `Scope`) | both bridges | verify, decide, issue at three times |
| `TravelRule` | tr-svc in both roles | process steps, transport, replay guard |
| `PayerGate`, `DecisionFile` | the x402 loop; x402gate's file | agents, gate, merchants, pay clients; writers and a settler |
| `RwaToken` | both token contracts | one action per external function |
| `MCEnforcement`, `MCDeanon`, `MCDelegation`, `MCScope`, `MCDocuments`, `MCLogs`, `MCGateway` | instances for TLC | inputs as small sets |
| `MCAlgebra`, `MCTrust`, `MCOperations`, `MCServices` | instances that join parts | one part in focus per behaviour |
| `EnforcementProofs`, `ScopeProofs`, `DelegationProofs`, `TrustProofs`, `DeanonProofs`, `GatewayProofs`, `OperationsProofs`, `ServicesProofs` | theorems | |

How the state corresponds:

* **Enforcement.** `seen` is `replayCache.seen`: a key is `recordKey`, a value
  `recordExpiry` with its two clocks. `pc`, `hop` and `step` are the position of
  a goroutine inside `Verify`; `active` the registry's active keys. Comparisons
  that read only the input (audience, sender constraint, scope, context hash)
  are the input's `fault`, the step at which it fails one of them; what the
  chain and scope comparisons mean is in `Delegation`. `wall` and `mono` are the
  clocks; `StepClock` sets the wall clock. A status list is constant (`Listed`,
  `Revoked`, `ListNotAfter`); how one gets to the verifier is in `StatusList`.
* **Delegation.** A token is its authority claims; its `jti` stands for its
  bytes, hence `spt_parent_hash`. A committed division is the sequence of its
  leaves, so membership is equality with a leaf at its index: the Merkle path is
  assumed sound. `ForgeCT` mints children without any check, since the verifier
  must not rely on the issuers in between. Time between two slices of
  `IssueSubbands` is `delays`. Several calls of `Verify` overlap, each at its own
  step (`view`), and a used slice has a record that is pruned once its expiry has
  passed.
* **TrustRegistry.** `mem`, `file`, `durable` are memory, what the path names and
  what it names after a power loss. The temporary file is synced before the
  rename, so the file is never torn.
* **TrustSnapshot.** A signature is membership in `published`, a digest the body.
  `record` and `durableRecord` are FileState before and after a power loss. The
  signer's read of the registry file, its signature and its writing the body back are
  separate steps, between which trsvc may save.
* **Deanon.** `work` keeps the time a goroutine read before it took the lock. Age
  is measured on the wall clock (`IssuedAt` is a Unix time), records on the
  monotonic one (`now.Add`).
* **AuditLog.** `entries` is `Log.entries`, `file` the lines on the path (`Torn`
  for one that does not parse), `synced` how many are on the disk. A hash is the
  sequence of bodies it commits to. `Append` runs under a lock and either succeeds
  or leaves nothing, part of a line or a whole line behind (`AppendFails`); a
  process that stops inside it leaves a line that memory never had (`LogCrash`).
  The next run takes that line over without flushing it (`recovered`). `acked` is
  history, the entries that `Append` returned.
* **Gateway.** `replay` is `Engine.replay`, `clock` counts ticks of which
  `Second` make a second, since the cache and the claims are in whole seconds and
  durations are not. `call[c]` is where a goroutine is inside `Handle` and
  `Decide`. Methods are `send` (decided), `read` (observed and passed on) and the
  refused ones. `delivered` is what reached the wrapped server.
* **JsonValue, A2AMessage, AgentCard.** A JSON object is the sequence of its members
  as written, so duplicates and nulls are there; a digest is the value it covers.
  `level(v)[k]` is what `walkForKey` reaches at depth k. It recurses without a
  limit of its own and relies on the nesting that `json.Unmarshal` in `Handle`
  admits, which is `MaxNesting` and the rule `rpc.malformed` (`tooDeep`).
* **McpExchange.** `toServer` and `fromServer` are the child's pipes with a
  capacity; `pep` is where `serve` is, with the line it forwards. The server may use
  the client's ids for requests of its own, stop reading or answering, and exit.
* **Witness.** A head is the history it covers. `inCosign` holds heads that have
  passed the comparison and wait for the anchor to move.
* **Deployment.** `out`, `keyFile`, `tmpDir`, `tmp` are what is at the four kinds
  of paths; `lock` is `g.mu`, `notified` and `caught` the signal handler.
* **DeployConfig.** A text value is the class the validators tell apart (`unset` for
  a flag nobody gave); `PepStarts` is what the enforcement points demand of their
  flags and of the port they listen on.
* **KeyCache.** `cache` chooses the implementation. A lookup reads the clock, takes
  the lock and stamps its attempt, and sends, each in a step of its own (`held` is
  the reading it carries to the lock). A fetch takes its answer at the provider and
  delivers it later, so answers overtake each other.
* **StatusList.** `list.data` are bytes of eight bits and `Set`/`Get` do the
  shifting; `status` is what the list should say.
* **TokenExchange.** A proof is its verdicts, subject class and dates. Absent,
  empty and unusable scope parameters are different values. The clock is finer than
  the whole seconds in which a CAT is dated (`Unix`).
* **TravelRule.** `keyFile` and `pubFile` may be absent, torn or a key; `replaced`
  is history, the keys that were stored and written over. An attestation is the
  record of its parts, which a message may recombine. A request holds a reading of
  the clock made when it arrived or later (`clockReadings`) by the time it has the
  guard's mutex.
* **PayerGate.** `gate.epoch` stands for the keys a gate makes at start;
  `transfers` is the ledger; a record per pay client says whether it stamps the
  anchor and for which transfers it reports a hash. `met` is history: what an agent
  found at its merchant when it redeemed.
* **DecisionFile.** `file` is what is at the path; a document has its context,
  outcome, time and hash. Whoever alters it may compute the unkeyed hash anew or move
  the date; `rehashed` and `redated` are history, what was altered in this way.
* **RwaToken.** A proof is the public inputs it verifies for; `MaxUint` keeps the
  width of `uint256`, and checked arithmetic is a guard.

Abstractions: parsing of wire formats, HTTP, logging, signatures as key identity,
a scope without nested objects, amounts as integers after `ParseAmount`.

## 3. Runs

| Run | Shows |
|---|---|
| `enforcement_single_use` | two concurrent presentations drawn from six (two tokens on one slice, both roles, shared and fresh proofs, one failing at step 8), time between any two steps, the clock set once to any value: `TxnSingleUse`, `SliceSingleUse`, `ProofSingleUse`, no consumption by refusals, justified refusals |
| `enforcement_chain` | valid, spliced, overlong, short, revoked and ZK chains while keys are revoked and registered: `AuthorityCurrent`, `LiveAncestors` |
| `enforcement_expiry_race` | violation, see section 6 |
| `algebra` | the scope algebra over 81^3 triples of scopes and all schedules of up to 3 bands over 3 moments (`IssuanceNarrows`, `VerificationNarrows`); every message and agent card of up to 3 members from pools with each kind of value (`ForwardedIsBound`, `CardsSafe`) and every pair of logs of up to 5 entries (`LogProofsSound`); chains of up to 3 tokens over 3 minted ones, forged ones included (`NoWidening`, `DepthBounded`) |
| `delegation_budget` | a budget of 2 in two bands, with late, copied and budget-dropping slices, drawn on by overlapping calls that stall past an expiry while records are pruned: `BudgetSafe`, what is drawn in time is within the budget and in one band at a moment |
| `trust` | the registry with 2 names, 2 keys and 2 faults of any kind (`RegistrySafe`, `NoRetiredKey`), and a reader of 2 snapshots with a fault, the registry file changing between the signer's read and its writing back (`SnapshotSafe`, `RevocationReaches`) |
| `trust_power` | violation, see section 6 |
| `deanon` | 2 goroutines, 5 requests, up to 3 presentations, 1 restart or clock change: `DeanonSafe`, `SingleUseOnceDated` |
| `deanon_future` | violation, see section 6 |
| `gateway` | 3 requests on 2 goroutines, a cache of one slot, a failing log, a crash or loss of power: a live token is used once and remembered (`ReplaySafe`), what reached the server is on the disk (`DeliveredIsOnRecord`), acknowledged entries survive (`LogSurvives`), the log implements `AppendOnly` (`ImplementsAppendOnly`), every request is answered or waits for the wrapped MCP server (`AlwaysAnswered`) |
| `operations` | the stdio exchange with a server that shares an id with the client, stalls or exits (`AnswersTheirOwnCall`, `EveryCallAnswered`), three witnesses of which one may lose its anchor (`NoSplitView`), two racing runs of spt-txn-init (`DeploymentSafe`, `NeverOverwrites`), every configuration two fields away from a plain one, ports beyond 65535 included (`ConfigSound`) |
| `services` | one property for each service: `KeyCacheSafe`, `StatusListSafe`, `ExchangeSafe`, `TravelRuleSafe`, `PaymentsSafe`, `SettledAsDecided`, `RwaTokenSafe` |

`MCAlgebra`, `MCTrust`, `MCOperations` and `MCServices` join parts that share no
state. In a behaviour one of them, `focus`, takes steps and the others stay as
they began; since no action of one reads a variable of another, the product adds
no reachable state of any part. A property whose name ends in `Safe` or `Sound`
is a conjunction of named parts, each with a comment of its own in the module
that defines it: `RegistrySafe` is `TypeOK`, `OneActive`, `MemoryIsStored`,
`AckedSurvives` and `NeverKeyless`.

**Bounds.** All are named constants; bounds on counters start with `Max`.

* Two presentations suffice for single use, which is a statement about pairs,
  and the proofs lift it to any number. A chain of three tokens has one inner
  hop, which is where a dropped dimension could come back. Two bands are the
  least a division has, and two overlapping calls with two tokens the least that draw
  twice on one slice.
* Documents of three members have a duplicate beside another member. With
  `MaxNesting = 5` a credential under `parts` sits at the deepest level that is
  still read, and one more array around it is refused as too deep.
* In the registry two faults allow a failed save followed by a crash, and a crash
  during the recovery from one.
* A gateway of two goroutines and three requests has a replay concurrent with the
  first use and one after it; `ReplayCapacity = 1` makes the cache full with one
  live token; `Second = 2` puts an instant between two whole seconds; one fault
  of the log and one crash meet in either order.
* Pipes of two lines fill up with one unsolicited line and one answer. Three
  witnesses with a threshold of two are the least in which one restarted witness
  does not decide alone. Two runs of spt-txn-init meet at every system call.
* Services: two lookups are what it takes for answers to overtake each other and
  for a throttle to bite; widths 2 and 4 with three entries put an entry in a
  second byte; the clock of the bridges counts half seconds beyond the life of
  every proof; two transfers recombine; two agents at two merchants on a rail of
  each kind (hedera's client stamps the anchor and waits for the receipt, near's
  does neither) with one restart and one bundle presented by another; two writers
  and two alterations, so that a changed field can be followed by its new hash; five
  calls of the contracts are enough to register, mint,
  approve, move and change the policy in between.
* Time runs past the expiry of every record that matters in each run.

The services run forever in reality and stop in the model only at these bounds,
which is why `CHECK_DEADLOCK` is off; progress is the business of the liveness
properties.

**Fairness.** `FairSpec` of `Gateway` assumes weak fairness of each request that has
begun, up to its forward: net/http runs a handler on its own goroutine, the Go
scheduler is preemptive, and locks are held for bounded sections. A forward is fair
where the code ends it: a2a-pep's at the latest with the timeout of its HTTP client.
That of mcp-pep has no timeout and ignores its context, so nothing is assumed of it
(`awaitsMCP`), and `AlwaysAnswered` lets a call wait there. `ExchangeFairness` is
weak fairness of mcp-pep's own step only. The wrapped server may do nothing for
ever; `EveryCallAnswered` speaks of the behaviours in which `serve` is again and
again not waiting for a server that runs and is silent, which includes all in which
the server exits. Nothing is assumed of callers, clocks, faults or the registry.
`Enforcement` has no liveness property: the engine waits for nothing.

**Mutants.** Every property has a mutant of the code that breaks it
(`PROJECT.json`): a dropped guard, a record kept too briefly, a rollback left
half done, a bound one too large. The operators stand beside what they change,
marked `\* Mutant:`.

## 4. Proofs

Every property of a passing run has a theorem, for every value of the constants,
except those listed at the end of this section. The bounds named `Max...` are
constants too, so a theorem covers any number of steps. Assumptions are the
`ASSUME`s of the modules: types of the constants and what the code checks or draws
at random, named at each item below.

**Single use and authority** (`EnforcementProofs`)

* `TypeCorrect`, `TxnUsedOnce`, `SliceUsedOnce`, `RefusalsConsumeNothing`,
  `RefusalsAreJustified`. Single use is not inductive: it needs that the record of
  every use is still in the store. `Recorded` says that while the clock has never
  reached the expiry of a used token or slice (`peak`), its record is there and
  carries that expiry; a record is pruned only when both clocks have passed it,
  hence the wall clock may be set at will. Assumed: tokens with equal jti are equal
  (`JtiAssumption`), tokens on one slice have one expiry (`SliceAssumption`; the
  committed leaf contains it).
* `EngineIsSingleUse`: `Enforcement` implements `SingleUse` (`ImplementsSingleUse`),
  where the grants are the allowed presentations with what they used of their SPT-Txn
  and slice before it expired (`uses`). This is more than the two invariants: it says
  that both are taken in one step and that no later step of a clock, the registry or
  another presentation takes a grant back. A step of the engine shows as one grant or
  not at all (`GrantingStep`); that its rights are new is `UsesStayApart`. No run
  has it as a property; the runs check the invariants it is built on.
* `ProofUsedOnce`. `Possession` relates a recorded proof to its window: while the
  clocks run together a proof that could be found fresh again has its record.
* `AuthorityIsCurrent`, `AncestorsAreLive`. `Walks` says for each stage of the walk
  which tokens have been vouched for and that each one opened by the last reading
  of the clock and outlives the next; the induction is over the steps, so chains
  have any length.

**Scopes and delegation** (`ScopeProofs`, `DelegationProofs`)

* `ContainsTransitive`, `IntersectGreatest`, `InheritanceNarrows`, `BandsDisjoint`
  (comparing neighbours of the sorted schedule suffices), and lemmas on what an
  overlay and a root admit.
* `IssuanceAlwaysNarrows` and `VerificationAlwaysNarrows` state the two properties
  of the run `algebra` themselves, over any dimensions, values and schedules.
  Assumed: amounts, budgets and moments are integers (`AlgebraAssumption`).
* `DelegationTypes`, `DelegationNeverWidens`, `DelegationDepthBounded`, for any
  forged tokens. `WalkInv`: the effective scope of a walk is as tight as every scope
  up to the current token and agrees with the current one on its dimensions
  (without which an overlay could loosen); the depth left is the root's minus the
  hops made; a CAT's depth is a natural number (`RootInv`).
* `BudgetsAreSafe`. `BudgetInv` adds that the only division a root commits to was
  accepted (`RootsValid`), that a walk below a budgeted root stands on a slice of it
  (`SliceInv`), and that every allowed outcome is on a slice of its own and within it
  (`SpentInv`); then what is spent is at most the sum over the slices. Of two
  overlapping calls on one slice only one finds it unrecorded in time, because its
  record is there until the slice has expired; a draw decided after that is not
  `Timely` and not counted (section 5). Sums over finite sets are proved with
  `SubsetInduction`: a property of subsets is given as the set of the subsets that
  have it, and a least subset outside it is contradicted. This needs no induction
  scheme with an operator parameter.

**Trust and escrow** (`TrustProofs`, `DeanonProofs`)

* `RegistryIsSafe`, `RetiredKeysStayRetired`. `RegistryInv` says at each stage of a
  save how memory, file, durable file and what was acknowledged keep each other's
  records (`StageInv`, `KeptInv`), and that a key in force in one copy is in force
  in every newer one unless withdrawn (`InForceInv`).
* `SnapshotsAreSafe`, `RevocationsReach`. `RecordInv`: the acceptance record at each
  stage of a start is that of a signed manifest and no older than what was served;
  `DatedInv` bounds when a manifest read the registry. What the signer has read may be
  older than the file it writes back to; `revokedAt` counts from the moment since
  which the file has shown the key revoked without a break.
* `IdentitiesNeverChange` (what was recovered is what the vault still holds) and
  `DatedRequestsOnce`: a reading of the clock is no older than a stall, every dated
  use has its record or its window is over, and each is held by one goroutine.

**Gateway and log** (`GatewayProofs`)

* `DeliveriesAreOnRecord` (a permit on the way to the server is on the disk) and
  `LiveTokensAreUsedOnce` (the slot of an accepted token lasts as long as the
  token). Assumed: `decision.New`'s bound on the window, a window in whole seconds,
  and one token for each signed jti (`RequestsAssumption`).
* `AcknowledgedEntriesSurvive`. `SurvivalInv`: either a line on the disk is one that
  `load` will always refuse (`Spoiled`), or what was returned is on the disk at its
  number; while the process runs it is in memory as well. An `Append` after a failed
  one puts its line at the wrong number, which is why the first case is needed.
* `LogIsAppendOnly`: each step maps to a step of `AppendOnly` or shows nothing, since
  the file is what memory held and after it attempts at one entry only (`Follows`).
  Hypothesis `~PowerLossAfterRecovery`: after a crash inside `Append`, the next
  run takes over a line that is not flushed, may publish a head over it, and loses
  it with the power.
* `RootsCommitToLogs`, `LogProofsAreSound` (the property of the run `algebra`, and
  with any path in place of another log's), for logs of every length. The loops of
  `merkle.go` are recursive functions of the round; that they have the values their
  definitions say is `LoopRuns`, and induction over the rounds is `NumbersInSet`,
  with a property given as the set of the numbers that have it. From equal roots
  equality goes down layer by layer (`LayersDescend`); that the layers below have
  one length needs `Taller`: a node hashed in a round is no node of an earlier
  round, whichever log that is of. For inclusion, the hash `VerifyInclusion` holds is
  followed down from the root (`ClimbDescends`) to show that only the entry fits,
  and up beside `MerkleProof` (`ClimbAscends`) to show that its path does. A hash is
  the term it was computed from, so no collisions.
* `ForwardedDocumentsAreBound` and `RelayedCardsAreSafe` state the two document
  properties of the run `algebra` for documents of any number of members from its
  pools and any `MaxNesting`. They rest on theorems about every JSON value (`Json`:
  what is inside it at any depth is a scalar, an array or an object of members):
  `NoCredentialPassed` (A2A), `SendsAreBound`, `CallsAreBound` (name and arguments of
  an MCP call; `_meta` is passed on unbound, less the token at its top level),
  `CardsHideAgent` and `CardsAreHonest` (the agent's order of interfaces; what a card
  lacks, nested members and signatures included, is what the point reports).
  `NoCredentialAtAnyDepth` is the argument that the comment on `walkForKey` makes in
  words: containers are reached through containers (`ContainerParts`), so a params
  that `json.Unmarshal` took has none below `MaxNesting` (`ContainersEnd`), what is
  passed on is no deeper, and the walk of `MaxNesting` levels misses no object. Walks
  are unfolded with `LoopRuns` like the Merkle layers. For a relayed card the argument
  goes member by member: each is removed, written by the point, or held by the schemas
  to strings (`freeText`), booleans and arrays of strings, which name no address
  elsewhere. What `sieve` keeps and how many it drops is `SieveKeeps` and
  `KeptEntries`.

**Points and operations** (`OperationsProofs`)

* `NoSplitViews`: what a witness that kept its anchor has signed begins the anchor
  (`LoyalInv`), and two quorums share such a witness.
* `AnswersReachTheirCall`, for pipes of any size and any ids on either side.
  `ExchangeInv`: the one request under way is the one `serve` waits for, unless a
  request of the server was taken for an answer under its id.
* `DeploymentsAreWhole`, `NothingIsOverwritten`, for any number of runs, signals and
  kills. `DeployInv` relates where a run is to the lock, to what is in its temporary
  directory and to whose key lies beside the output (`Justified`).
* `ConfigurationsAreSound`: accepted flags and answers start the point they install,
  unless the port is above 65535. `FlagsInv` keeps of the flags only what rendering
  depends on.

**Services** (`ServicesProofs`): `SettlementsAreAsDecided` (a document, however
altered, has the hash of an allowed payment or none, or its context is among those
hashed anew), `ExchangesAreSafe` (from `IntersectGreatest` and `UnixRoundsDown`;
assumed that requests are parsed, `ExchangeRequestsAssumption`), `KeyCachesAreSafe`
(an answer has every key older than its request and none withdrawn before it; no
attempt is stamped later than `attemptedAt`, however old the reading),
`TravelRuleHolds` (a stored key stays or is in `replaced`; the guard knows what it
passed on and with which reading), `PaymentsAreSafe` (an attestation has one holder, a
merchant recorded what it delivered for; assumed `TokenTTL <= ProofAge`, as the
constants of the code are), `TokensAreSafe` (what is still allowed was approved and is
not spent; an allowance without limit stands for all the calls to come),
`StatusListsAreSafe` (packing at the widths 1, 2, 4 and 8 by arithmetic on bit
positions; a token that shows a revoked entry as valid was signed before the
revocation).

**Only model-checked.** Liveness (`AlwaysAnswered`, `EveryCallAnswered`): fairness is
outside the prover. Every invariant and every action property of a passing run is
proved.

## 5. Where a property stops short

* `TxnSingleUse` and `SliceSingleUse` speak of decisions before the token's
  expiry (see `enforcement_expiry_race` for the others). `SingleUseWhileLive` of
  `Gateway` does the same: a presentation that stalls until its slot has been
  pruned is found fresh, its token being expired. It speaks of one run of the
  process, since a restart empties the replay cache.
* `AuthorityCurrent` requires status entries on the cleartext path only:
  `step6ChainZK` calls `checkStatus` on neither the CAT nor the leaf CT, although
  `engine.go:230` says the resolver is "consulted OFFLINE for every chain/txn
  token that carries a `status` claim".
* `AckedSurvives`, `NeverKeyless` and `NoRetiredKey` hold while directory syncs
  succeed: `persist.go:318` drops their errors, although `persist.go:467` says
  "The store is durable after every mutation".
* `RevocationReaches` is about services that look keys up. `deanonsvc` copies the
  requester keys at start (`cmd/deanonsvc/main.go:128`), so section 7 of
  `TRUST-REGISTRY-SNAPSHOT.md` ("a process that runs past `max_age` stops
  resolving keys from it") does not describe it.
* `SingleUseOnceDated` is about requests presented after their date.
* `ReopensAfterCrash` excludes failed writes: after one, the file may hold a line
  that memory does not know, and the next start refuses it. `AckedStays` says
  what an open log holds, not that every log opens.
* `DeliveredIsOnRecord` is about enforced calls. For an observed one the failure
  of `RecordObserved` is ignored and the call is passed on.
* `NoSplitView` assumes that one witness serves one `Cosign` at a time; two
  concurrent calls on one witness both compare with the old anchor.
* `ImplementsAppendOnly` excludes a loss of power while the log holds a line it
  recovered and has not flushed (`PowerLossAfterRecovery`): `Open` does not sync what
  it loads, so a head may have been published over a line that then disappears.
  What `Append` returned survives that too.
* `BudgetBounded` counts the draws decided while their slice is valid. Finding 1
  below reaches the others: of two SPT-Txns on one slice the second, stalled past the
  slice's expiry, finds its record pruned and is allowed as well, and the budget is
  overspent by it.
* `RevocationReaches` bounds the use of a key from the moment since which the
  registry file has shown it revoked without a break. `snapshot sign` reads the file
  and writes the body back (`cmd/snapshot/main.go:113-127`) without a lock, so a
  revocation that trsvc saves in between is overwritten and the key signed as active,
  until trsvc saves again.
* `ForwardedIsBound` is about name and arguments of an MCP call. `_meta` reaches the
  server unbound, and a token below its top level is not removed
  (`mcppep.go:211-224`); for A2A the walk finds it at every depth.
* `AnswersTheirOwnCall` exempts the calls under an id for which a request of the
  server's own was taken for the answer, and `EveryCallAnswered` a server that
  runs and leaves `serve` waiting. The second includes a server that waits for the
  client's reply to a request of its own: the point reads the client again only after
  the answer, and then refuses the reply, which has no method.
* `AlwaysAnswered` lets a call of mcp-pep wait for its server (`awaitsMCP`).
* `ConfigSound` exempts ports above 65535, with which the point does not start.
* `DeploymentSafe` exempts a key that could not be removed: the errors of `os.Remove`
  are dropped (`spt-txn-init/main.go:924, 930, 936`).
* `WithdrawnKeyAges` allows the time of a fetch beyond `maxAge` for oidc; attest
  has no bound on the age of a key set, so the property is about oidc only.
  `AttemptsSpaced` is about oidc too, and about the attempts as stamped: lookups that
  stall between stamp and send may send together.
* `LifetimeInherited` lets a CAT expire after its proof by the time between `decide`,
  which measures what is left of it, and `Issue`, which adds that to a later clock.
  `SealedWithinAttestation` has no such allowance: the workload bridge compares again.
* `KeysMatch` exempts a key that was written over because it could not be read, and
  `IdentifiersOnce` counts from the reading of the clock with which an identifier was
  recorded: `trp.go:379` reads it before the mutex.
* `SettledAsDecided` exempts a context whose hash was computed anew, and for the age
  bound a document that was dated anew.
* `RefusedForCause` lists the four reasons for which an agent that has paid is
  refused; the loop prevents none of them.
* `RwaTokenSafe` does not say that holders are eligible under the current policy:
  `setConfig` leaves `eligible` as it is.

## 6. Where code and documents disagree

With a run (`findings` in `PROJECT.json`):

1. `enforcement_expiry_race`. Expiry is checked at step 2, the store is consulted
   at the end, and the record of a used token may be pruned at its expiry. Two
   presentations of one token can both pass if the second is still under way at
   that moment (comment of `consumeAll`).
2. `trust_power`. `FileState.Save` does not sync its directory, so a power
   loss can restore the previous acceptance record and an older snapshot is
   accepted (comment of `trustsnapshot.Verify`).
3. `deanon_future`. The record of a request lives `maxAge` from its presentation,
   the request `maxAge` from its date, which may be a minute later
   (comment of `Deanonymize`).

Met while modelling, without a run: those of section 5, and

* two CATs with equal budget, currency and schedule commit to one root, and a
  slice is recorded by (root, leg): spending it under one CAT makes the engine
  refuse it under the other as "already used" (`engine.go:461`);
* `txntoken.Issue` checks the leaf's own scope, step 7 the intersection of the
  chain, so it mints tokens the engine refuses, although `scope.go:297` says both
  "apply identical rules";
* `Intersect` carries a numeric dimension of undeclared direction, which
  `Contains` refuses, although `scope.go:180` says "Contains(permitted, result)
  is nil";
* `trustsnapshot.Verify` advances the record before the body is loaded, so a
  snapshot `agentsvc` then refuses for want of issuer keys locks out the older
  one, although `TRUST-REGISTRY-SNAPSHOT.md:274` says the record advances "only
  on a newer acceptance";
* the intent digest of an MCP tool call does not cover `_meta`, although
  `mcppep.go:150` says of the three members that they "are covered by the intent
  digest" and line 236 repeats it; null members of an agent card are relayed;
* a request of the wrapped MCP server with the id of the call under way is taken
  for its answer (`mcp-pep/main.go:256`), although the comment at line 259 says of
  what else arrives "never treat it as this call's answer"; server notifications
  reach the client only while a call is being forwarded;
* a revocation saved while `snapshot sign` runs is lost (section 5), although
  `cmd/snapshot/main.go:126` writes back "so what is signed is what is shipped";
* `spt-txn-init`: between `stop` and the end of `RemoveAll` no handler is
  installed, so a signal there leaves keys in the temporary directory (the package
  comment says otherwise); SIGKILL between `Link` and `Rename` leaves
  `<out>-issuer.key`; `validateListenAddr` accepts ports above 65535, although its
  comment (`main.go:590`) says it "accepts what net.Listen accepts";
* attest: concurrent misses fetch without the spacing of `minInterval` the comment
  at `jwks.go:6` describes;
* Travel Rule: `loadOrGenSDKey` writes a new key over one it cannot read, although
  its comment (`tr-svc/main.go:421`) says "if absent", and a beneficiary that is up
  keeps the old one; the replay guard forgets an identifier after 10 minutes, an
  attestation lives an hour; the amount of the request is not compared with the
  attested one; filler leaves of the VASP registry are provable; `tr-svc` falls
  back to the built-in registry when the configured one does not load;
* bridges: a live issue may refuse what a `dry_run` said it would issue, and the CAT
  of `idp-bridge` may outlive its token by the time the handler stalled, although
  `idp-bridge/main.go:56` and `381` say it "can never outlive" it;
* payer gate: the merchant does not verify `tx_hash`; spending is bounded per
  payment, not in total; a DPoP proof is recorded at step 5, so an altered bundle
  uses up the honest one; the gate's own CT lives 10 minutes and is not renewed;
  a settlement slower than 30 s is paid and refused; several pay clients report a
  hash for a transfer that failed on the ledger; the hash of a
  decision document is unkeyed, so whoever can edit the file can compute it anew, and
  `IssuedAt` is outside it;
* contracts: proofs of the first edition name no address, so any address may
  register with one.

## 7. Not modelled

The components with status `not_modelled` in `PROJECT.json`, with the reason at
each, and what the `partly` ones leave out:

* cryptography and encodings: ZK circuits, JCS, suites, ledger adapters, escrow
  envelopes, credentials. A signature, hash or proof is the value it is of.
* generated verifiers and the attestation anchors, whose only state is a mapping
  written once per key;
* `catsvc`, a stateless handler around `cattoken.Issue` (`Delegation`);
* `tfrpolicy` and the data formats of the Travel Rule: decision tables and
  formats, for which a model would be a copy; TRISA and the choice of a transport;
* the SPIFFE workload API client, whose retry loop nothing depends on;
* HTTP forms, prompts' wording and the text of generated files;
* demos, benchmarks and one-shot operator tools.

## 8. Plan

1. An abstract register of keys that `TrustRegistry` refines across crashes, as
   `SingleUse` and `AppendOnly` are for the engine and the log.
2. The acceptance record that `trustsnapshot.Verify` advances before the body is
   used (section 6), as a property of `TrustSnapshot`.
