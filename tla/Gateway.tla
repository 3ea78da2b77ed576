------------------------------- MODULE Gateway -------------------------------
(***************************************************************************)
(* A gateway enforcement point: decision.Engine behind the skins that call *)
(* it.  mcppep and a2apep classify a JSON-RPC message, decide and forward; *)
(* extauthz, grpc-extauthz and opashim only answer.  Requests run on       *)
(* goroutines of their own: each reads the wall clock three times, takes   *)
(* the lock of the replay cache and appends a receipt to the log, and      *)
(* other requests, faults of the log and restarts come in between.         *)
(*                                                                         *)
(* Time is in ticks, Second of them in a second; exp and the slots of the  *)
(* replay cache are in seconds, as in the code.                            *)
(***************************************************************************)
EXTENDS AuditLog

CONSTANTS
    Calls,          \* the goroutines serving requests
    Requests,       \* what clients may send: Requests[n] are the choices for the n-th request
    Second,         \* ticks in a second
    MaxTokenTTL,    \* Config.MaxTokenTTL, in ticks
    ReplayWindow,   \* Config.ReplayWindow, in ticks
    ReplayCapacity, \* Config.ReplayCapacity
    Audience,       \* Config.Audience
    MaxReceived,    \* bound on the requests received
    MaxEvents,      \* bound on requests, faults and crashes together
    MaxTime         \* bound on the clock, in ticks

\* decision.New refuses a window shorter than the lifetime it accepts.  That
\* the window is a whole number of seconds is how deployments set it.
ASSUME GatewayAssumption ==
    /\ Second \in Nat \ {0} /\ MaxTokenTTL \in Nat \ {0}
    /\ ReplayWindow \in Nat /\ ReplayCapacity \in Nat \ {0}
    /\ ReplayWindow >= MaxTokenTTL
    /\ ReplayWindow % Second = 0
    /\ MaxReceived \in Nat /\ MaxEvents \in Nat /\ MaxTime \in Nat

\* A message that carries no token.
NoToken == [none |-> TRUE]

\* What clients send.  The issuer draws each jti at random, so it names one
\* of the tokens that carry its signature.
ASSUME RequestsAssumption ==
    \A m, n \in 1..MaxReceived : \A p \in Requests[m], q \in Requests[n] :
        p.token # NoToken /\ q.token # NoToken =>
            /\ p.token.exp \in Int
            /\ /\ p.token.sigOK /\ q.token.sigOK
               /\ p.token.jti = q.token.jti
               => p.token = q.token

\* What a receipt says of the n-th request.
Receipts == [n : 1..MaxReceived, dec : {"permit", "deny", "observed"}]

ASSUME ReceiptsAssumption == Receipts \subseteq Body

VARIABLES
    clock,     \* the wall clock, in ticks
    replay,    \* Engine.replay: jti -> the second its slot expires
    call,      \* what each goroutine is doing
    received,  \* requests received so far
    \* History, read by no action:
    delivered, \* requests that reached the wrapped server, in order
    accepted   \* presentations this run of the process found fresh, and whether
               \* the token was live when the cache was consulted

gateVars == <<clock, replay, call, received, delivered, accepted>>
vars == <<file, synced, up, entries, heads, ioFaults, crashes, acked,
          clock, replay, call, received, delivered, accepted>>

unix == clock \div Second
Empty == [x \in {} |-> x]

\* A goroutine with nothing to do; one that has answered is idle again.
Idle == [stage |-> "idle"]
Answered == Idle

\* A goroutine that serves rq and is at a stage; now is what it read of the
\* clock, n tells its receipts from others (Receipt.Nonce).
At(c, stage) == [call[c] EXCEPT !.stage = stage]

\* The body of a receipt: which presentation it is for and what it says.
Receipt(c, dec) == [n |-> call[c].n, dec |-> dec]

Init ==
    /\ LogInit
    /\ clock = 0 /\ replay = Empty /\ received = 0
    /\ call = [c \in Calls |-> Idle]
    /\ delivered = <<>> /\ accepted = {}

\* One more request, fault or crash is within the bound.
more == received + ioFaults + crashes < MaxEvents

Receive(c) ==
    /\ up /\ received < MaxReceived /\ more
    /\ call[c].stage = "idle"
    /\ \E rq \in Requests[received + 1] :
          call' = [call EXCEPT ![c] = [stage |-> "handle", rq |-> rq,
                                       n |-> received + 1, now |-> 0]]
    /\ received' = received + 1
    /\ UNCHANGED <<clock, replay, delivered, accepted>>
    /\ UNCHANGED logVars

\* The receipt for what goroutine c decided is emitted or not, and c goes on
\* with the first or the second of two states.
Emit(c, dec, logged, failed) ==
    /\ \/ AppendOK(Receipt(c, dec)) /\ call' = [call EXCEPT ![c] = logged]
       \/ more /\ AppendFails(Receipt(c, dec)) /\ call' = [call EXCEPT ![c] = failed]
    /\ UNCHANGED <<clock, received>>

\* Mutant: a method that is on no list is neither refused nor passed on.
Refuse_malformedOnly(c) ==
    /\ up /\ call[c].stage = "handle"
    /\ call[c].rq.method = "malformed" \/ call[c].rq.shape = "refused"
    /\ Emit(c, "deny", Answered, Answered)
    /\ UNCHANGED <<replay, delivered, accepted>>

\* Handle refuses the message: malformed, a method that is neither enforced
\* nor on the list of reads, or parameters the intent does not cover.  The
\* deny is answered whether or not its receipt was logged.
Refuse(c) ==
    /\ up /\ call[c].stage = "handle"
    /\ call[c].rq.skin \in {"mcp", "a2a"}
    /\ \/ call[c].rq.method \in {"malformed", "other"}
       \/ call[c].rq.shape = "refused"
    /\ Emit(c, "deny", Answered, Answered)
    /\ UNCHANGED <<replay, delivered, accepted>>

\* opashim denies a question it cannot read with a receipt, and one that is
\* not a POST without.
RefuseQuestion(c) ==
    /\ up /\ call[c].stage = "handle"
    /\ call[c].rq.skin = "opa"
    /\ \/ /\ call[c].rq.method = "malformed"
          /\ Emit(c, "deny", Answered, Answered)
       \/ /\ call[c].rq.method = "other"
          /\ call' = [call EXCEPT ![c] = Answered]
          /\ UNCHANGED <<clock, received>> /\ UNCHANGED logVars
    /\ UNCHANGED <<replay, delivered, accepted>>

\* grpc-extauthz denies a check that describes no HTTP request, without a
\* receipt.
RefuseCheck(c) ==
    /\ up /\ call[c].stage = "handle"
    /\ call[c].rq.skin = "grpc" /\ call[c].rq.method = "malformed"
    /\ call' = [call EXCEPT ![c] = Answered]
    /\ UNCHANGED <<clock, received, replay, delivered, accepted>>
    /\ UNCHANGED logVars

\* A read is passed on; what RecordObserved returns is not looked at.
Observe(c) ==
    /\ up /\ call[c].stage = "handle"
    /\ call[c].rq.method = "read" /\ call[c].rq.shape # "refused"
    /\ Emit(c, "observed", At(c, "forward"), At(c, "forward"))
    /\ UNCHANGED <<replay, delivered, accepted>>

\* An enforced call goes to Decide.  a2apep strips the credential first and
\* refuses when it cannot; mcppep strips after the decision.
Enforce(c) ==
    /\ up /\ call[c].stage = "handle"
    /\ call[c].rq.method = "send" /\ call[c].rq.shape # "refused"
    /\ IF call[c].rq.skin = "a2a" /\ call[c].rq.shape = "unstrippable"
       THEN Emit(c, "deny", Answered, Answered)
       ELSE /\ call' = [call EXCEPT ![c] = At(c, "verify")]
            /\ UNCHANGED <<clock, received>> /\ UNCHANGED logVars
    /\ UNCHANGED <<replay, delivered, accepted>>


tok(c) == call[c].rq.token

\* What Verify and the checks after it refuse: no token, a signature that
\* does not verify, an expired token, no jti, another audience.
rejected(t) ==
    \/ t = NoToken
    \/ ~t.sigOK
    \/ unix >= t.exp
    \/ t.jti = "none"
    \/ t.aud # Audience

Verify(c) ==
    /\ up /\ call[c].stage = "verify"
    /\ IF rejected(tok(c))
       THEN Emit(c, "deny", Answered, Answered)
       ELSE /\ call' = [call EXCEPT ![c] = At(c, "ttl")]
            /\ UNCHANGED <<clock, received>> /\ UNCHANGED logVars
    /\ UNCHANGED <<replay, delivered, accepted>>

\* Mutant: the bound compared in whole seconds, rounded up.
ttlExcessive_loose(t) == t.exp * Second - clock > MaxTokenTTL + Second

\* The remaining lifetime may not exceed MaxTokenTTL.
ttlExcessive(t) == t.exp * Second - clock > MaxTokenTTL

BoundTTL(c) ==
    /\ up /\ call[c].stage = "ttl"
    /\ IF ttlExcessive(tok(c))
       THEN Emit(c, "deny", Answered, Answered)
       ELSE /\ call' = [call EXCEPT ![c] = At(c, "now")]
            /\ UNCHANGED <<clock, received>> /\ UNCHANGED logVars
    /\ UNCHANGED <<replay, delivered, accepted>>

\* replayCheck reads the clock before it takes the lock.
ReadNow(c) ==
    /\ up /\ call[c].stage = "now"
    /\ call' = [call EXCEPT ![c] = [At(c, "lock") EXCEPT !.now = unix]]
    /\ UNCHANGED <<clock, replay, received, delivered, accepted>>
    /\ UNCHANGED logVars

\* The slots a goroutine that read now does not prune.
unpruned(now) == {j \in DOMAIN replay : replay[j] > now}

slotExpiry(now) == now + ReplayWindow \div Second

\* replayCheck under the lock: prune, then duplicate, full or fresh.
ReplayCheck(c) ==
    LET now == call[c].now
        live == unpruned(now)
        jti == tok(c).jti
        fresh == jti \notin live /\ Cardinality(live) < ReplayCapacity
    IN
    /\ up /\ call[c].stage = "lock"
    /\ replay' = [j \in live \union (IF fresh THEN {jti} ELSE {}) |->
                    IF j \in live THEN replay[j] ELSE slotExpiry(now)]
    /\ call' = [call EXCEPT ![c] = At(c, IF fresh THEN "match" ELSE "deny")]
    /\ accepted' = IF fresh
                   THEN accepted \union {[n |-> call[c].n, token |-> tok(c),
                                       live |-> clock < tok(c).exp * Second]}
                   ELSE accepted
    /\ UNCHANGED <<clock, received, delivered>> /\ UNCHANGED logVars

\* The deny of a duplicate or of a full cache.
DenyReplay(c) ==
    /\ up /\ call[c].stage = "deny"
    /\ Emit(c, "deny", Answered, Answered)
    /\ UNCHANGED <<replay, delivered, accepted>>

matches(c) == tok(c).digest = call[c].rq.intent

\* Mutant: finish that returns the decision whether or not the receipt was logged.
Match_unlogged(c) ==
    /\ up /\ call[c].stage = "match"
    /\ IF matches(c)
       THEN Emit(c, "permit", At(c, "permitted"), At(c, "permitted"))
       ELSE Emit(c, "deny", Answered, Answered)
    /\ UNCHANGED <<replay, delivered, accepted>>

\* intent.Match, then finish: a permit whose receipt is not logged is a deny.
Match(c) ==
    /\ up /\ call[c].stage = "match"
    /\ IF matches(c)
       THEN Emit(c, "permit", At(c, "permitted"), Answered)
       ELSE Emit(c, "deny", Answered, Answered)
    /\ UNCHANGED <<replay, delivered, accepted>>

\* The authorization skins answer a permit; the proxy that asked passes the
\* request on without the token.
AnswerPermit(c) ==
    /\ up /\ call[c].stage = "permitted"
    /\ call[c].rq.skin \in {"extauthz", "grpc", "opa"}
    /\ call' = [call EXCEPT ![c] = Answered]
    /\ UNCHANGED <<clock, received, replay, delivered, accepted>>
    /\ UNCHANGED logVars

\* mcppep strips the token now and refuses when it cannot; a2apep has.
Strip(c) ==
    /\ up /\ call[c].stage = "permitted"
    /\ call[c].rq.skin \in {"mcp", "a2a"}
    /\ IF call[c].rq.shape = "unstrippable"
       THEN Emit(c, "deny", Answered, Answered)
       ELSE /\ call' = [call EXCEPT ![c] = At(c, "forward")]
            /\ UNCHANGED <<clock, received>> /\ UNCHANGED logVars
    /\ UNCHANGED <<replay, delivered, accepted>>

\* Forward: the wrapped server may have acted whether or not its answer came
\* back.
Forward(c) ==
    /\ up /\ call[c].stage = "forward"
    /\ \/ delivered' = Append(delivered, [n |-> call[c].n, rq |-> call[c].rq])
       \/ UNCHANGED delivered
    /\ call' = [call EXCEPT ![c] = Answered]
    /\ UNCHANGED <<clock, replay, received, accepted>> /\ UNCHANGED logVars

\* The receipts a stopping process may have written without returning.
unreturned ==
    {Receipt(c, IF call[c].stage = "match" /\ matches(c) THEN "permit" ELSE "deny") :
        c \in {d \in Calls : call[d].stage \notin {"idle", "now", "lock", "forward"}}}

\* The process stops: its requests and its replay cache are gone.
stopped ==
    /\ call' = [c \in Calls |-> Idle]
    /\ replay' = Empty /\ accepted' = {}
    /\ UNCHANGED <<clock, received, delivered>>

Crash == more /\ LogCrash(unreturned) /\ stopped
PowerLoss == more /\ LogPowerLoss /\ stopped

\* buildEngine and the skins' main: no log, no service.
Start == LogOpen /\ UNCHANGED gateVars

Publish == PublishRoot /\ UNCHANGED gateVars

Tick ==
    /\ clock < MaxTime /\ clock' = clock + 1
    /\ UNCHANGED <<replay, call, received, delivered, accepted>>
    /\ UNCHANGED logVars

\* The steps of the process itself.
OwnStep(c) ==
    \/ Refuse(c) \/ RefuseQuestion(c) \/ RefuseCheck(c) \/ Observe(c) \/ Enforce(c) \/ Verify(c) \/ BoundTTL(c)
    \/ ReadNow(c) \/ ReplayCheck(c) \/ DenyReplay(c) \/ Match(c)
    \/ AnswerPermit(c) \/ Strip(c)

Step(c) == OwnStep(c) \/ Forward(c)

Next ==
    \/ \E c \in Calls : Receive(c) \/ Step(c)
    \/ Crash \/ PowerLoss \/ Start \/ Publish \/ Tick

Spec == Init /\ [][Next]_vars

\* A call that waits for the wrapped MCP server.
awaitsMCP(c) == call[c].stage = "forward" /\ call[c].rq.skin = "mcp"

\* A goroutine with work to do gets to run.  A forward of a2a-pep ends at the
\* timeout of its HTTP client; one of mcp-pep has no timeout, ignores its
\* context and need not end.
FairSpec ==
    Spec /\ \A c \in Calls : WF_vars(OwnStep(c)) /\ WF_vars(Forward(c) /\ ~awaitsMCP(c))

(***************************************************************************)
(* Properties.                                                             *)
(***************************************************************************)

TypeOK ==
    /\ clock \in 0..MaxTime /\ received \in 0..MaxReceived /\ up \in BOOLEAN
    /\ synced \in 0..Len(file)
    /\ \A j \in DOMAIN replay : replay[j] \in 1..((MaxTime + ReplayWindow) \div Second)
    /\ \A c \in Calls : call[c].stage \in
          {"idle", "handle", "verify", "ttl", "now", "lock", "match", "deny",
           "permitted", "forward"}

\* A jti is found fresh at most once, within a run of the process, as long
\* as its token has not expired when the cache is consulted: neither stalls
\* between the readings of the clock and the lock, nor pruning by other
\* requests, nor a full cache, let a live token through twice
\* (decision.go replayCheck, New).
SingleUseWhileLive ==
    \A p, q \in accepted :
        (p.token.jti = q.token.jti /\ p.n # q.n) =>
            ~(p.live /\ q.live)

\* A jti this process accepted stays in the cache until its token expires:
\* the cache neither evicts nor forgets early (decision.go replayCheck).
AcceptedRemembered ==
    \A p \in accepted :
        clock < p.token.exp * Second => p.token.jti \in DOMAIN replay

\* One run of the process accepts a live token once: its presentations are
\* told apart and its record is kept for as long as the token lives.
ReplaySafe == TypeOK /\ SingleUseWhileLive /\ AcceptedRemembered

\* An enforced call reaches the wrapped server only with a permit on the
\* disk that names its presentation, and with the intent its token is bound
\* to, whatever failed and restarted in between (decision.go finish,
\* receiptlog Emit, audit Append).
DeliveredIsOnRecord ==
    \A i \in DOMAIN delivered :
        LET d == delivered[i] IN
        d.rq.method = "send" =>
            /\ d.rq.token.digest = d.rq.intent
            /\ \E k \in 1..synced :
                  file[k] # Torn /\ file[k].body = [n |-> d.n, dec |-> "permit"]

\* A request is answered, unless the process stops first, or is left with a
\* wrapped MCP server that has not answered it: a failing log, a full cache
\* or an unreachable agent delays no answer for ever (decision.go Decide).
AlwaysAnswered ==
    \A c \in Calls :
        call[c].stage = "handle" ~> (call[c].stage = "idle" \/ awaitsMCP(c))

=============================================================================
