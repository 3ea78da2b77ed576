---------------------------- MODULE GatewayProofs ----------------------------
(***************************************************************************)
(* Proofs about Gateway and the log it writes, for any requests, any       *)
(* number of goroutines, any window and capacity of the replay cache, and  *)
(* any number of crashes, failed writes and losses of power; about the     *)
(* Merkle tree over the log, for logs of any length; and about the JSON    *)
(* documents the enforcement points pass on, for documents of any shape.   *)
(***************************************************************************)
EXTENDS Gateway, MCLogs, MCDocuments, SequenceTheorems, FiniteSetTheorems,
        WellFoundedInduction, TLAPS

-----------------------------------------------------------------------------
(* The log.                                                                *)

\* A line that parses.
Entry == [seq : Nat \ {0}, prev : Seq(Body), body : Body]
Line  == Entry \union {Torn}

LogTyped ==
    /\ file \in Seq(Line) /\ synced \in 0..Len(file)
    /\ entries \in Seq(Entry) /\ acked \subseteq Entry
    /\ up \in BOOLEAN /\ ioFaults \in Nat /\ crashes \in Nat

\* A step of the log: what it may append is a body.
LogStep ==
    \/ \E b \in Body : AppendOK(b) \/ AppendFails(b)
    \/ \E S \in SUBSET Body : LogCrash(S)
    \/ PublishRoot \/ LogPowerLoss \/ LogOpen
    \/ UNCHANGED logVars

LEMMA EntryFields ==
    /\ \A e \in Entry : e.seq \in Nat \ {0} /\ e.prev \in Seq(Body) /\ e.body \in Body
    /\ Torn.seq = 0 /\ Torn \notin Entry
    /\ Entry \subseteq Line /\ Torn \in Line
  BY DEF Entry, Line, Torn

\* The entry newEntry makes.
LEMMA NewEntryType ==
    ASSUME LogTyped, NEW b \in Body
    PROVE  /\ newEntry(b) \in Entry
           /\ newEntry(b).body = b /\ newEntry(b).seq = Len(entries) + 1
           /\ newEntry(b).prev = lastHash(entries)
  <1>1. entries \in Seq(Entry) /\ Len(entries) \in Nat
    BY DEF LogTyped
  <1>2. lastHash(entries) \in Seq(Body)
    <2>1. CASE entries = <<>>
      BY <2>1 DEF lastHash
    <2>2. CASE entries # <<>>
      <3>1. Last(entries) \in Entry
        BY <1>1, <2>2 DEF Last
      <3>2. Last(entries).prev \in Seq(Body) /\ Last(entries).body \in Body
        BY <3>1, EntryFields
      <3> QED  BY <2>2, <3>2 DEF lastHash, computeHash
    <2> QED  BY <2>1, <2>2
  <1> QED  BY <1>1, <1>2 DEF newEntry, Entry

\* The part of the file that has reached the disk.
LEMMA FilePrefix ==
    ASSUME NEW f \in Seq(Line), NEW n \in 0..Len(f)
    PROVE  /\ SubSeq(f, 1, n) \in Seq(Line) /\ Len(SubSeq(f, 1, n)) = n
           /\ \A i \in 1..n : SubSeq(f, 1, n)[i] = f[i]
  OBVIOUS

\* A file that a line is added to.
LEMMA FileGrows ==
    ASSUME NEW f \in Seq(Line), NEW e \in Line
    PROVE  /\ Append(f, e) \in Seq(Line) /\ Len(Append(f, e)) = Len(f) + 1
           /\ \A i \in 1..Len(f) : Append(f, e)[i] = f[i]
           /\ Append(f, e)[Len(f) + 1] = e
  OBVIOUS

\* What has reached the disk stays there, and the types are kept.
LEMMA LogTypedStep ==
    ASSUME LogTyped, LogStep
    PROVE  /\ LogTyped'
           /\ synced' \in synced..Len(file')
           /\ \A k \in 1..synced : file'[k] = file[k]
  <1>t. /\ file \in Seq(Line) /\ synced \in 0..Len(file) /\ Len(file) \in Nat
        /\ entries \in Seq(Entry) /\ acked \subseteq Entry
        /\ up \in BOOLEAN /\ ioFaults \in Nat /\ crashes \in Nat
    BY DEF LogTyped
  <1>1. ASSUME NEW b \in Body, AppendOK(b)
        PROVE  /\ LogTyped' /\ synced' \in synced..Len(file')
               /\ \A k \in 1..synced : file'[k] = file[k]
    <2>1. newEntry(b) \in Entry /\ newEntry(b) \in Line
      BY NewEntryType, EntryFields
    <2>2. /\ file' = Append(file, newEntry(b)) /\ synced' = Len(file')
          /\ entries' = Append(entries, newEntry(b)) /\ acked' = acked \union {newEntry(b)}
          /\ UNCHANGED <<up, ioFaults, crashes>>
      BY <1>1 DEF AppendOK
    <2>3. entries' \in Seq(Entry) /\ acked' \subseteq Entry
      BY <1>t, <2>1, <2>2
    <2>4. /\ file' \in Seq(Line) /\ Len(file') = Len(file) + 1
          /\ \A i \in 1..Len(file) : file'[i] = file[i]
      BY <1>t, <2>1, <2>2, FileGrows
    <2> QED  BY <1>t, <2>2, <2>3, <2>4 DEF LogTyped
  <1>2. ASSUME file' = file \/ \E e \in Line : file' = Append(file, e),
               UNCHANGED <<synced, entries, acked>>,
               up' \in BOOLEAN, ioFaults' \in Nat, crashes' \in Nat
        PROVE  /\ LogTyped' /\ synced' \in synced..Len(file')
               /\ \A k \in 1..synced : file'[k] = file[k]
    <2>1. /\ file' \in Seq(Line) /\ Len(file') >= Len(file) /\ Len(file') \in Nat
          /\ \A i \in 1..Len(file) : file'[i] = file[i]
      <3>1. CASE file' = file
        BY <1>t, <3>1
      <3>2. ASSUME NEW e \in Line, file' = Append(file, e)
            PROVE  /\ file' \in Seq(Line) /\ Len(file') >= Len(file) /\ Len(file') \in Nat
                   /\ \A i \in 1..Len(file) : file'[i] = file[i]
        BY <1>t, <3>2, FileGrows
      <3> QED  BY <1>2, <3>1, <3>2
    <2> QED  BY <1>t, <1>2, <2>1 DEF LogTyped
  <1>3. ASSUME NEW b \in Body, AppendFails(b)
        PROVE  /\ LogTyped' /\ synced' \in synced..Len(file')
               /\ \A k \in 1..synced : file'[k] = file[k]
    BY <1>2, <1>3, <1>t, NewEntryType, EntryFields DEF AppendFails
  <1>4. ASSUME NEW S \in SUBSET Body, LogCrash(S)
        PROVE  /\ LogTyped' /\ synced' \in synced..Len(file')
               /\ \A k \in 1..synced : file'[k] = file[k]
    <2>1. file' = file \/ \E e \in Line : file' = Append(file, e)
      <3>1. \A b \in S : newEntry(b) \in Line
        BY NewEntryType, EntryFields
      <3> QED  BY <1>4, <3>1 DEF LogCrash
    <2>2. /\ UNCHANGED <<synced, entries, acked>> /\ up' \in BOOLEAN
          /\ ioFaults' = ioFaults /\ crashes' = crashes + 1
      BY <1>4 DEF LogCrash
    <2> QED  BY <1>2, <1>t, <2>1, <2>2
  <1>5. CASE PublishRoot
    BY <1>2, <1>5, <1>t DEF PublishRoot
  <1>6. CASE LogPowerLoss
    <2>1. PICK n \in synced..Len(file) :
              /\ file' = SubSeq(file, 1, n) \/ file' = Append(SubSeq(file, 1, n), Torn)
              /\ synced' = Len(file')
      BY <1>6 DEF LogPowerLoss
    <2>2. n \in 0..Len(file) /\ n \in Nat
      BY <1>t
    <2>3. /\ SubSeq(file, 1, n) \in Seq(Line) /\ Len(SubSeq(file, 1, n)) = n
          /\ \A i \in 1..n : SubSeq(file, 1, n)[i] = file[i]
      BY <1>t, <2>2, FilePrefix
    <2>4. /\ file' \in Seq(Line) /\ Len(file') \in {n, n + 1}
          /\ \A i \in 1..n : file'[i] = file[i]
      <3>1. CASE file' = SubSeq(file, 1, n)
        BY <2>2, <2>3, <3>1
      <3>2. CASE file' = Append(SubSeq(file, 1, n), Torn)
        <4>1. PICK f \in Seq(Line) : f = SubSeq(file, 1, n)
          BY <2>3
        <4>2. Torn \in Line /\ file' = Append(f, Torn) /\ Len(f) = n
          BY <2>3, <3>2, <4>1, EntryFields
        <4>3. file' \in Seq(Line) /\ Len(file') = n + 1 /\ \A i \in 1..n : file'[i] = f[i]
          BY <4>2, FileGrows
        <4> QED  BY <2>3, <4>1, <4>3
      <3> QED  BY <2>1, <3>1, <3>2
    <2>5. entries' = entries /\ acked' = acked /\ up' = FALSE /\ ioFaults' \in Nat
          /\ crashes' = crashes
      BY <1>6, <1>t DEF LogPowerLoss
    <2>6. synced' \in 0..Len(file') /\ synced' \in synced..Len(file')
      BY <1>t, <2>1, <2>2, <2>4
    <2>7. \A k \in 1..synced : file'[k] = file[k]
      BY <1>t, <2>2, <2>4
    <2> QED  BY <1>t, <2>4, <2>5, <2>6, <2>7 DEF LogTyped
  <1>7. CASE LogOpen
    <2>1. /\ entries' = file /\ up' = TRUE /\ loads(file)
          /\ UNCHANGED <<file, synced, ioFaults, crashes, acked>>
      BY <1>7 DEF LogOpen
    <2>2. \A i \in 1..Len(file) : file[i] \in Entry
      BY <1>t, <2>1 DEF loads, Line
    <2>3. file \in Seq(Entry)
      BY <1>t, <2>2
    <2> QED  BY <1>t, <2>1, <2>3 DEF LogTyped
  <1>8. CASE UNCHANGED logVars
    BY <1>2, <1>8, <1>t DEF logVars
  <1> QED  BY <1>1, <1>3, <1>4, <1>5, <1>6, <1>7, <1>8 DEF LogStep

-----------------------------------------------------------------------------
(* The goroutines.                                                         *)

Busy == {"handle", "verify", "ttl", "now", "lock", "match", "deny", "permitted", "forward"}
Sent == UNION {Requests[n] : n \in 1..MaxReceived}

\* What a goroutine that serves a request holds.
Job == [stage : Busy, rq : Sent, n : 1..MaxReceived, now : Nat]

Delivery == [n : 1..MaxReceived, rq : Sent]

GateTyped ==
    /\ LogTyped
    /\ clock \in 0..MaxTime /\ received \in 0..MaxReceived
    /\ call \in [Calls -> {Idle} \union Job]
    /\ delivered \in Seq(Delivery)

Decisions == {"permit", "deny", "observed"}

LEMMA JobFields ==
    /\ \A j \in Job : /\ j.stage \in Busy /\ j.rq \in Sent
                      /\ j.n \in 1..MaxReceived /\ j.now \in Nat
    /\ Idle.stage = "idle" /\ Idle \notin Job
  BY DEF Job, Idle, Busy

\* A goroutine that goes on keeps its request.
LEMMA GoesOn ==
    ASSUME GateTyped, NEW c \in Calls, call[c].stage \in Busy
    PROVE  /\ call[c] \in Job
           /\ \A s \in Busy : /\ At(c, s) \in Job /\ At(c, s).stage = s
                              /\ At(c, s).rq = call[c].rq /\ At(c, s).n = call[c].n
                              /\ At(c, s).now = call[c].now
           /\ \A dec \in Decisions : Receipt(c, dec) \in Body
  <1>1. call[c] \in Job
    BY JobFields DEF GateTyped, Busy
  <1>2. \A s \in Busy : /\ At(c, s) \in Job /\ At(c, s).stage = s
                        /\ At(c, s).rq = call[c].rq /\ At(c, s).n = call[c].n
                        /\ At(c, s).now = call[c].now
    BY <1>1 DEF At, Job
  <1>3. \A dec \in Decisions : Receipt(c, dec) \in Receipts
    BY <1>1, JobFields DEF Receipt, Receipts, Decisions
  <1> QED  BY <1>1, <1>2, <1>3, ReceiptsAssumption

\* What Emit does: the receipt is logged or not, and the goroutine goes on
\* accordingly.
LEMMA Emitted ==
    ASSUME GateTyped, NEW c \in Calls, call[c].stage \in Busy, NEW dec \in Decisions,
           NEW l, NEW f, Emit(c, dec, l, f)
    PROVE  /\ UNCHANGED <<clock, received>> /\ LogStep
           /\ \A d \in Calls \ {c} : call'[d] = call[d]
           /\ call' = [call EXCEPT ![c] = call'[c]]
           /\ \/ call'[c] = l /\ AppendOK(Receipt(c, dec))
              \/ call'[c] = f /\ AppendFails(Receipt(c, dec))
  <1>1. Receipt(c, dec) \in Body
    BY GoesOn
  <1>2. /\ UNCHANGED <<clock, received>>
        /\ \/ call' = [call EXCEPT ![c] = l] /\ AppendOK(Receipt(c, dec))
           \/ call' = [call EXCEPT ![c] = f] /\ AppendFails(Receipt(c, dec))
    BY DEF Emit
  <1>3. LogStep
    BY <1>1, <1>2 DEF LogStep
  <1> QED  BY <1>2, <1>3 DEF GateTyped

\* Where a step of goroutine c that does not answer takes it.
Moves(c) ==
    \/ call[c].stage = "handle" /\ call'[c] = At(c, "forward") /\ call[c].rq.method = "read"
    \/ call[c].stage = "handle" /\ call'[c] = At(c, "verify")
    \/ call[c].stage = "verify" /\ call'[c] = At(c, "ttl") /\ ~rejected(tok(c))
    \/ call[c].stage = "ttl" /\ call'[c] = At(c, "now") /\ ~ttlExcessive(tok(c))
    \/ call[c].stage = "now" /\ call'[c] = [At(c, "lock") EXCEPT !.now = unix]
    \/ ReplayCheck(c) /\ (call'[c] = At(c, "match") \/ call'[c] = At(c, "deny"))
    \/ /\ call[c].stage = "match" /\ call'[c] = At(c, "permitted")
       /\ matches(c) /\ AppendOK(Receipt(c, "permit"))
    \/ call[c].stage = "permitted" /\ call'[c] = At(c, "forward")

\* What a step of a goroutine writes to the log: nothing, or the receipt of
\* its request, logged or not.
Writes(c) ==
    \/ UNCHANGED logVars
    \/ /\ call[c].stage \notin {"idle", "now", "lock", "forward"}
       /\ \E dec \in Decisions :
             \/ AppendOK(Receipt(c, dec)) /\ (dec = "permit" => call[c].stage = "match")
             \/ AppendFails(Receipt(c, dec))
       /\ call'[c] \in {Idle, At(c, "permitted"), At(c, "forward")}

LEMMA StepMoves ==
    ASSUME GateTyped, NEW c \in Calls, Step(c)
    PROVE  /\ call[c].stage \in Busy /\ up /\ UNCHANGED <<clock, received>> /\ LogStep
           /\ \A d \in Calls \ {c} : call'[d] = call[d]
           /\ call' = [call EXCEPT ![c] = call'[c]]
           /\ call'[c] = Idle \/ Moves(c)
           /\ Writes(c)
           /\ ReplayCheck(c) \/ UNCHANGED <<replay, accepted>>
           /\ \/ delivered' = delivered
              \/ /\ call[c].stage = "forward"
                 /\ delivered' = Append(delivered, [n |-> call[c].n, rq |-> call[c].rq])
  <1> DEFINE Goal ==
               /\ call[c].stage \in Busy /\ UNCHANGED <<clock, received>> /\ LogStep
               /\ \A d \in Calls \ {c} : call'[d] = call[d]
               /\ call' = [call EXCEPT ![c] = call'[c]]
               /\ call'[c] = Idle \/ Moves(c)
               /\ Writes(c)
               /\ ReplayCheck(c) \/ UNCHANGED <<replay, accepted>>
               /\ \/ delivered' = delivered
                  \/ /\ call[c].stage = "forward"
                     /\ delivered' = Append(delivered, [n |-> call[c].n, rq |-> call[c].rq])
  <1>u. up
    BY DEF Step, OwnStep, Refuse, RefuseQuestion, RefuseCheck, Observe, Enforce, Verify, BoundTTL, ReadNow,
           ReplayCheck, DenyReplay, Match, AnswerPermit, Strip, Forward
  <1>t. call \in [Calls -> {Idle} \union Job]
    BY DEF GateTyped
  <1>b. /\ {"handle", "verify", "ttl", "match", "deny", "permitted"} \subseteq Busy \ {"now", "lock", "forward"}
        /\ Busy \ {"now", "lock", "forward"} \subseteq Busy /\ {"now", "lock", "forward"} \subseteq Busy
    BY DEF Busy
  <1>s. "permit" \in Decisions /\ "deny" \in Decisions /\ "observed" \in Decisions
    BY DEF Decisions
  <1> SUFFICES Goal
    BY <1>u
  \* A step that logs nothing.
  <1>q. ASSUME call[c].stage \in Busy, UNCHANGED <<clock, received, delivered>>,
               UNCHANGED logVars, NEW j, call' = [call EXCEPT ![c] = j],
               call'[c] = Idle \/ Moves(c),
               UNCHANGED <<replay, accepted>>
        PROVE  Goal
    BY <1>q, <1>t DEF Writes, LogStep
  \* A step that emits a receipt.
  <1>e. ASSUME call[c].stage \in Busy \ {"now", "lock", "forward"},
               NEW dec \in Decisions, NEW l, NEW f, Emit(c, dec, l, f),
               dec = "permit" => call[c].stage = "match",
               UNCHANGED <<delivered, replay, accepted>>,
               call'[c] \in {Idle, At(c, "permitted"), At(c, "forward")},
               call'[c] = Idle \/ Moves(c)
        PROVE  Goal
    <2>1. /\ UNCHANGED <<clock, received>> /\ LogStep
          /\ \A d \in Calls \ {c} : call'[d] = call[d]
          /\ call' = [call EXCEPT ![c] = call'[c]]
          /\ AppendOK(Receipt(c, dec)) \/ AppendFails(Receipt(c, dec))
      BY <1>e, Emitted
    <2>2. Writes(c)
      BY <1>e, <2>1 DEF Writes, Busy
    <2> QED  BY <1>e, <2>1, <2>2
  <1> HIDE DEF Goal
  \* A refusal.
  <1>r. ASSUME call[c].stage \in Busy \ {"now", "lock", "forward"},
               Emit(c, "deny", Idle, Idle), UNCHANGED <<replay, delivered, accepted>>
        PROVE  Goal
    <2>1. call'[c] = Idle
      BY <1>r, <1>s, Emitted
    <2> QED  BY <1>r, <1>s, <1>e, <2>1
  <1>1. CASE Refuse(c)
    <2>1. /\ call[c].stage = "handle" /\ Emit(c, "deny", Idle, Idle)
          /\ UNCHANGED <<replay, delivered, accepted>>
      BY <1>1 DEF Refuse, Answered
    <2> QED  BY <1>b, <1>r, <2>1
  <1>2. CASE RefuseQuestion(c)
    <2>1. /\ call[c].stage = "handle" /\ UNCHANGED <<replay, delivered, accepted>>
          /\ \/ Emit(c, "deny", Idle, Idle)
             \/ call' = [call EXCEPT ![c] = Idle] /\ UNCHANGED <<clock, received>>
                /\ UNCHANGED logVars
      BY <1>2 DEF RefuseQuestion, Answered
    <2>2. CASE Emit(c, "deny", Idle, Idle)
      BY <1>b, <1>r, <2>1, <2>2
    <2>3. CASE call' = [call EXCEPT ![c] = Idle] /\ UNCHANGED <<clock, received>>
               /\ UNCHANGED logVars
      BY <1>b, <1>q, <1>t, <2>1, <2>3
    <2> QED  BY <2>1, <2>2, <2>3
  <1>3. CASE RefuseCheck(c) \/ AnswerPermit(c)
    <2>1. /\ call[c].stage \in {"handle", "permitted"}
          /\ call' = [call EXCEPT ![c] = Idle]
          /\ UNCHANGED <<clock, received, replay, delivered, accepted>> /\ UNCHANGED logVars
      BY <1>3 DEF RefuseCheck, AnswerPermit, Answered
    <2> QED  BY <1>b, <1>q, <1>t, <2>1
  <1>4. CASE Observe(c)
    <2>1. /\ call[c].stage = "handle" /\ call[c].rq.method = "read"
          /\ Emit(c, "observed", At(c, "forward"), At(c, "forward"))
          /\ UNCHANGED <<replay, delivered, accepted>>
      BY <1>4 DEF Observe
    <2>2. call'[c] = At(c, "forward")
      BY <1>s, <2>1, Emitted DEF Busy
    <2> QED  BY <1>e, <1>s, <2>1, <2>2 DEF Busy, Moves
  \* A check that refuses or goes on.
  <1>k. ASSUME call[c].stage \in Busy \ {"now", "lock", "forward"}, NEW next,
               UNCHANGED <<replay, delivered, accepted>>,
               \/ Emit(c, "deny", Idle, Idle)
               \/ /\ call' = [call EXCEPT ![c] = At(c, next)] /\ (call'[c] = At(c, next) => Moves(c))
                  /\ UNCHANGED <<clock, received>> /\ UNCHANGED logVars
        PROVE  Goal
    <2>1. CASE Emit(c, "deny", Idle, Idle)
      BY <1>r, <1>k, <2>1
    <2>2. CASE /\ call' = [call EXCEPT ![c] = At(c, next)] /\ (call'[c] = At(c, next) => Moves(c))
               /\ UNCHANGED <<clock, received>> /\ UNCHANGED logVars
      BY <1>q, <1>k, <1>t, <2>2
    <2> QED  BY <1>k, <2>1, <2>2
  <1>5. CASE Enforce(c)
    <2>1. /\ call[c].stage = "handle" /\ UNCHANGED <<replay, delivered, accepted>>
          /\ \/ Emit(c, "deny", Idle, Idle)
             \/ /\ call' = [call EXCEPT ![c] = At(c, "verify")]
                /\ UNCHANGED <<clock, received>> /\ UNCHANGED logVars
      BY <1>5 DEF Enforce, Answered
    <2> QED  BY <1>k, <2>1 DEF Busy, Moves
  <1>6. CASE Verify(c)
    <2>1. /\ call[c].stage = "verify" /\ UNCHANGED <<replay, delivered, accepted>>
          /\ \/ Emit(c, "deny", Idle, Idle)
             \/ /\ call' = [call EXCEPT ![c] = At(c, "ttl")] /\ ~rejected(tok(c))
                /\ UNCHANGED <<clock, received>> /\ UNCHANGED logVars
      BY <1>6 DEF Verify, Answered
    <2> QED  BY <1>k, <2>1 DEF Busy, Moves
  <1>7. CASE BoundTTL(c)
    <2>1. /\ call[c].stage = "ttl" /\ UNCHANGED <<replay, delivered, accepted>>
          /\ \/ Emit(c, "deny", Idle, Idle)
             \/ /\ call' = [call EXCEPT ![c] = At(c, "now")] /\ ~ttlExcessive(tok(c))
                /\ UNCHANGED <<clock, received>> /\ UNCHANGED logVars
      BY <1>7 DEF BoundTTL, Answered
    <2> QED  BY <1>k, <2>1 DEF Busy, Moves
  <1>8. CASE ReadNow(c)
    <2>1. /\ call[c].stage = "now"
          /\ call' = [call EXCEPT ![c] = [At(c, "lock") EXCEPT !.now = unix]]
          /\ UNCHANGED <<clock, replay, received, delivered, accepted>> /\ UNCHANGED logVars
      BY <1>8 DEF ReadNow
    <2>2. call'[c] = [At(c, "lock") EXCEPT !.now = unix]
      BY <1>t, <2>1
    <2> QED  BY <1>q, <2>1, <2>2 DEF Busy, Moves
  <1>9. CASE ReplayCheck(c)
    <2>1. /\ call[c].stage = "lock"
          /\ \/ call' = [call EXCEPT ![c] = At(c, "match")]
             \/ call' = [call EXCEPT ![c] = At(c, "deny")]
          /\ UNCHANGED <<clock, received, delivered>> /\ UNCHANGED logVars
      BY <1>9 DEF ReplayCheck
    <2>2. Writes(c) /\ LogStep
      BY <2>1 DEF Writes, LogStep
    <2>3. Moves(c)
      BY <1>9, <1>t, <2>1 DEF Moves
    <2> QED  BY <1>9, <1>t, <2>1, <2>2, <2>3 DEF Goal, Busy
  <1>10. CASE DenyReplay(c)
    <2>1. /\ call[c].stage = "deny" /\ Emit(c, "deny", Idle, Idle)
          /\ UNCHANGED <<replay, delivered, accepted>>
      BY <1>10 DEF DenyReplay, Answered
    <2> QED  BY <1>b, <1>r, <2>1
  <1>11. CASE Match(c)
    <2>1. /\ call[c].stage = "match" /\ UNCHANGED <<replay, delivered, accepted>>
          /\ \/ matches(c) /\ Emit(c, "permit", At(c, "permitted"), Idle)
             \/ Emit(c, "deny", Idle, Idle)
      BY <1>11 DEF Match, Answered
    <2>2. CASE matches(c) /\ Emit(c, "permit", At(c, "permitted"), Idle)
      <3>1. \/ call'[c] = At(c, "permitted") /\ AppendOK(Receipt(c, "permit"))
            \/ call'[c] = Idle
        BY <1>s, <2>1, <2>2, Emitted DEF Busy
      <3> QED  BY <1>e, <1>s, <2>1, <2>2, <3>1 DEF Busy, Moves
    <2>3. CASE Emit(c, "deny", Idle, Idle)
      BY <1>b, <1>r, <2>1, <2>3
    <2> QED  BY <2>1, <2>2, <2>3
  <1>12. CASE Strip(c)
    <2>1. /\ call[c].stage = "permitted" /\ UNCHANGED <<replay, delivered, accepted>>
          /\ \/ Emit(c, "deny", Idle, Idle)
             \/ /\ call' = [call EXCEPT ![c] = At(c, "forward")]
                /\ UNCHANGED <<clock, received>> /\ UNCHANGED logVars
      BY <1>12 DEF Strip, Answered
    <2> QED  BY <1>k, <2>1 DEF Busy, Moves
  <1>13. CASE Forward(c)
    <2>1. /\ call[c].stage = "forward" /\ call' = [call EXCEPT ![c] = Idle]
          /\ \/ delivered' = delivered
             \/ delivered' = Append(delivered, [n |-> call[c].n, rq |-> call[c].rq])
          /\ UNCHANGED <<clock, replay, received, accepted>> /\ UNCHANGED logVars
      BY <1>13 DEF Forward, Answered
    <2>2. Writes(c) /\ LogStep
      BY <2>1 DEF Writes, LogStep
    <2> QED  BY <1>t, <2>1, <2>2 DEF Goal, Busy
  <1> QED
    BY <1>1, <1>2, <1>3, <1>4, <1>5, <1>6, <1>7, <1>8, <1>9, <1>10, <1>11, <1>12, <1>13
    DEF Step, OwnStep

\* The receipts that may be in flight are bodies.
LEMMA UnreturnedBodies ==
    ASSUME GateTyped
    PROVE  unreturned \in SUBSET Body
  <1> SUFFICES ASSUME NEW c \in Calls, call[c].stage \notin {"idle", "now", "lock", "forward"}
               PROVE  Receipt(c, IF call[c].stage = "match" /\ matches(c) THEN "permit" ELSE "deny")
                      \in Body
    BY DEF unreturned
  <1>1. call[c].stage \in Busy
    BY JobFields DEF GateTyped
  <1>2. Receipt(c, "permit") \in Body /\ Receipt(c, "deny") \in Body
    BY <1>1, GoesOn DEF Decisions
  <1> QED  BY <1>2

\* A step of no goroutine, and the arrival of a request.
LEMMA OtherMoves ==
    ASSUME GateTyped,
           \/ \E c \in Calls : Receive(c)
           \/ Crash \/ PowerLoss \/ Start \/ Publish \/ Tick \/ UNCHANGED vars
    PROVE  /\ LogStep /\ delivered' = delivered
           /\ clock' \in clock..MaxTime /\ received' \in 0..MaxReceived
           /\ \/ /\ replay' = replay /\ accepted' = accepted
                 /\ \/ call' = call
                    \/ \E c \in Calls, j \in Job :
                          call' = [call EXCEPT ![c] = j] /\ j.stage = "handle"
              \/ replay' = Empty /\ accepted' = {} /\ call' = [c \in Calls |-> Idle]
  <1>t. /\ clock \in 0..MaxTime /\ received \in 0..MaxReceived
        /\ MaxTime \in Nat /\ MaxReceived \in Nat
    BY GatewayAssumption DEF GateTyped
  <1>1. ASSUME NEW c \in Calls, Receive(c)
        PROVE  /\ UNCHANGED <<clock, replay, delivered, accepted>> /\ LogStep
               /\ received' \in 0..MaxReceived
               /\ \E j \in Job : call' = [call EXCEPT ![c] = j] /\ j.stage = "handle"
    <2>1. /\ UNCHANGED <<clock, replay, delivered, accepted>> /\ UNCHANGED logVars
          /\ received < MaxReceived /\ received' = received + 1
      BY <1>1 DEF Receive
    <2>2. PICK rq \in Requests[received + 1] :
              call' = [call EXCEPT ![c] = [stage |-> "handle", rq |-> rq,
                                           n |-> received + 1, now |-> 0]]
      BY <1>1 DEF Receive
    <2>3. received + 1 \in 1..MaxReceived
      BY <1>t, <2>1
    <2>4. rq \in Sent
      BY <2>2, <2>3 DEF Sent
    <2>5. [stage |-> "handle", rq |-> rq, n |-> received + 1, now |-> 0] \in Job
      BY <2>3, <2>4 DEF Job, Busy
    <2>6. LogStep
      BY <2>1 DEF LogStep
    <2>7. PICK j \in Job : j = [stage |-> "handle", rq |-> rq, n |-> received + 1, now |-> 0]
      BY <2>5
    <2>8. call' = [call EXCEPT ![c] = j] /\ j.stage = "handle"
      BY <2>2, <2>7
    <2>9. received' \in 0..MaxReceived
      BY <1>t, <2>1
    <2> QED  BY <2>1, <2>6, <2>8, <2>9
  <1>2. CASE Crash
    BY <1>2, <1>t, UnreturnedBodies DEF Crash, stopped, LogStep
  <1>3. CASE PowerLoss
    BY <1>3, <1>t DEF PowerLoss, stopped, LogStep
  <1>4. CASE Start
    BY <1>4, <1>t DEF Start, gateVars, LogStep
  <1>5. CASE Publish
    BY <1>5, <1>t DEF Publish, gateVars, LogStep
  <1>6. CASE Tick
    BY <1>6, <1>t DEF Tick, LogStep
  <1>7. CASE UNCHANGED vars
    BY <1>7, <1>t DEF vars, logVars, LogStep
  <1> QED  BY <1>1, <1>2, <1>3, <1>4, <1>5, <1>6, <1>7, <1>t

\* The types are kept, and so is what is on the disk.
LEMMA GateTypedStep ==
    ASSUME GateTyped, [Next]_vars
    PROVE  GateTyped' /\ LogStep
  <1>t. /\ LogTyped /\ clock \in 0..MaxTime /\ received \in 0..MaxReceived
        /\ call \in [Calls -> {Idle} \union Job] /\ delivered \in Seq(Delivery)
    BY DEF GateTyped
  <1>1. ASSUME NEW c \in Calls, Step(c)
        PROVE  GateTyped' /\ LogStep
    <2>1. /\ UNCHANGED <<clock, received>> /\ LogStep /\ call[c].stage \in Busy
          /\ call' = [call EXCEPT ![c] = call'[c]]
          /\ call'[c] = Idle \/ Moves(c)
          /\ \/ delivered' = delivered
             \/ delivered' = Append(delivered, [n |-> call[c].n, rq |-> call[c].rq])
      BY <1>1, StepMoves
    <2>2. /\ call[c] \in Job
          /\ \A s \in Busy : At(c, s) \in Job
      BY <2>1, GoesOn
    <2>3. unix \in Nat
      BY <1>t, GatewayAssumption DEF unix
    <2>4. call'[c] \in {Idle} \union Job
      <3>1. CASE call'[c] = [At(c, "lock") EXCEPT !.now = unix]
        <4>1. At(c, "lock") \in Job
          BY <2>2 DEF Busy
        <4> QED  BY <3>1, <4>1, <2>3 DEF Job
      <3> QED  BY <2>1, <2>2, <3>1 DEF Moves, Busy
    <2>5. call' \in [Calls -> {Idle} \union Job]
      BY <1>t, <2>1, <2>4
    <2>6. delivered' \in Seq(Delivery)
      <3>1. [n |-> call[c].n, rq |-> call[c].rq] \in Delivery
        BY <2>2, JobFields DEF Delivery
      <3> QED  BY <1>t, <2>1, <3>1
    <2>7. LogTyped'
      BY <1>t, <2>1, LogTypedStep
    <2> QED  BY <1>t, <2>1, <2>5, <2>6, <2>7 DEF GateTyped
  <1>2. ASSUME \/ \E c \in Calls : Receive(c)
               \/ Crash \/ PowerLoss \/ Start \/ Publish \/ Tick \/ UNCHANGED vars
        PROVE  GateTyped' /\ LogStep
    <2>1. /\ LogStep /\ delivered' = delivered
          /\ clock' \in clock..MaxTime /\ received' \in 0..MaxReceived
          /\ \/ call' = call
             \/ \E c \in Calls, j \in Job : call' = [call EXCEPT ![c] = j]
             \/ call' = [c \in Calls |-> Idle]
      BY <1>2, OtherMoves
    <2>2. call' \in [Calls -> {Idle} \union Job]
      BY <1>t, <2>1
    <2>3. LogTyped'
      BY <1>t, <2>1, LogTypedStep
    <2>4. clock' \in 0..MaxTime
      BY <1>t, <2>1, GatewayAssumption
    <2> QED  BY <1>t, <2>1, <2>2, <2>3, <2>4 DEF GateTyped
  <1> QED  BY <1>1, <1>2 DEF Next

LEMMA GateTypedInit ==
    ASSUME Init
    PROVE  GateTyped
  BY GatewayAssumption DEF Init, LogInit, GateTyped, LogTyped

-----------------------------------------------------------------------------
(* What is delivered is on record.                                         *)

\* A permit for the n-th request has reached the disk.
OnRecord(n) ==
    \E k \in 1..synced : file[k] # Torn /\ file[k].body = [n |-> n, dec |-> "permit"]

\* A call that was permitted, and one that was delivered, is bound to its
\* intent and on record.
PermittedInv ==
    \A c \in Calls, n \in 1..MaxReceived :
        (/\ call[c].stage \in {"permitted", "forward"}
         /\ call[c].rq.method = "send" /\ call[c].n = n)
            => call[c].rq.token.digest = call[c].rq.intent /\ OnRecord(n)

DeliveredInv ==
    \A i \in DOMAIN delivered, n \in 1..MaxReceived :
        delivered[i].rq.method = "send" /\ delivered[i].n = n
            => delivered[i].rq.token.digest = delivered[i].rq.intent /\ OnRecord(n)

RecordInv == GateTyped /\ PermittedInv /\ DeliveredInv

\* What is on record stays on record.
LEMMA OnRecordStays ==
    ASSUME LogTyped, LogStep
    PROVE  \A n : OnRecord(n) => OnRecord(n)'
  <1>1. /\ synced' \in synced..Len(file') /\ \A k \in 1..synced : file'[k] = file[k]
    BY LogTypedStep
  <1>2. synced \in Nat
    BY DEF LogTyped
  <1> SUFFICES ASSUME NEW n, OnRecord(n)
               PROVE  OnRecord(n)'
    OBVIOUS
  <1>3. PICK k \in 1..synced : file[k] # Torn /\ file[k].body = [n |-> n, dec |-> "permit"]
    BY DEF OnRecord
  <1>4. k \in 1..synced' /\ file'[k] = file[k]
    BY <1>1, <1>2
  <1> QED  BY <1>3, <1>4 DEF OnRecord

\* A receipt that was appended is on record.
LEMMA AppendedIsOnRecord ==
    ASSUME LogTyped, NEW b \in Body, AppendOK(b)
    PROVE  \E k \in 1..synced' : file'[k] # Torn /\ file'[k].body = b
  <1>1. newEntry(b) \in Entry /\ newEntry(b).body = b
    BY NewEntryType
  <1>2. file' = Append(file, newEntry(b)) /\ synced' = Len(file') /\ file \in Seq(Line)
    BY DEF AppendOK, LogTyped
  <1>3. newEntry(b) \in Line /\ newEntry(b) # Torn
    BY <1>1, EntryFields
  <1>4. Len(file') = Len(file) + 1 /\ file'[Len(file) + 1] = newEntry(b)
    BY <1>2, <1>3, FileGrows
  <1>5. Len(file) + 1 \in 1..synced'
    BY <1>2, <1>4
  <1> QED  BY <1>1, <1>3, <1>4, <1>5

LEMMA RecordStep ==
    ASSUME RecordInv, [Next]_vars
    PROVE  RecordInv'
  <1>t. /\ GateTyped /\ LogTyped /\ PermittedInv /\ DeliveredInv
        /\ call \in [Calls -> {Idle} \union Job] /\ delivered \in Seq(Delivery)
    BY DEF RecordInv, GateTyped
  <1>n. GateTyped' /\ LogStep
    BY <1>t, GateTypedStep
  <1>o. \A n : OnRecord(n) => OnRecord(n)'
    BY <1>n, <1>t, OnRecordStays
  <1>d. ASSUME delivered' = delivered
        PROVE  DeliveredInv'
    BY <1>d, <1>t, <1>o DEF DeliveredInv
  <1>1. ASSUME NEW c \in Calls, Step(c)
        PROVE  PermittedInv' /\ DeliveredInv'
    <2>1. /\ call[c].stage \in Busy
          /\ \A d \in Calls \ {c} : call'[d] = call[d]
          /\ call'[c] = Idle \/ Moves(c)
          /\ \/ delivered' = delivered
             \/ /\ call[c].stage = "forward"
                /\ delivered' = Append(delivered, [n |-> call[c].n, rq |-> call[c].rq])
      BY <1>1, <1>t, StepMoves
    <2>2. /\ call[c] \in Job
          /\ \A s \in Busy : /\ At(c, s).stage = s
                             /\ At(c, s).rq = call[c].rq /\ At(c, s).n = call[c].n
          /\ Receipt(c, "permit") \in Body
      BY <1>t, <2>1, GoesOn DEF Decisions
    <2>3. call[c].n \in 1..MaxReceived /\ Idle.stage = "idle"
      BY <2>2, JobFields
    <2>4. ASSUME call'[c].stage \in {"permitted", "forward"}, call'[c].rq.method = "send"
          PROVE  /\ call'[c].rq = call[c].rq /\ call'[c].n = call[c].n
                 /\ call[c].rq.token.digest = call[c].rq.intent
                 /\ \A n \in 1..MaxReceived : call[c].n = n => OnRecord(n)'
      <3>1. \/ call'[c] = At(c, "forward") /\ call[c].stage = "permitted"
            \/ call'[c] = At(c, "forward") /\ call[c].rq.method = "read"
            \/ call'[c] = At(c, "permitted") /\ matches(c) /\ AppendOK(Receipt(c, "permit"))
        <4>1. Moves(c)
          BY <2>1, <2>3, <2>4
        <4>2. call'[c] # [At(c, "lock") EXCEPT !.now = unix]
          <5>1. At(c, "lock") \in Job /\ At(c, "lock").stage = "lock"
            BY <1>t, <2>1, GoesOn DEF Busy
          <5>2. [At(c, "lock") EXCEPT !.now = unix].stage = "lock"
            BY <5>1 DEF Job
          <5> QED  BY <2>4, <5>2
        <4> QED  BY <2>2, <2>4, <4>1, <4>2 DEF Moves, Busy
      <3>2. /\ call'[c].rq = call[c].rq /\ call'[c].n = call[c].n
        BY <2>2, <3>1 DEF Busy
      <3>3. CASE call[c].stage = "permitted"
        <4>1. call[c].rq.method = "send"
          BY <2>4, <3>2
        <4>2. call[c].rq.token.digest = call[c].rq.intent
          BY <1>t, <2>3, <3>3, <4>1 DEF PermittedInv
        <4>3. \A n \in 1..MaxReceived : call[c].n = n => OnRecord(n)
          BY <1>t, <3>3, <4>1 DEF PermittedInv
        <4>4. \A n \in 1..MaxReceived : call[c].n = n => OnRecord(n)'
          BY <1>o, <4>3
        <4> QED  BY <3>2, <4>2, <4>4
      <3>4. CASE matches(c) /\ AppendOK(Receipt(c, "permit"))
        <4>1. call[c].rq.token.digest = call[c].rq.intent
          BY <3>4 DEF matches, tok
        <4>2. \E k \in 1..synced' : file'[k] # Torn /\ file'[k].body = Receipt(c, "permit")
          BY <1>t, <2>2, <3>4, AppendedIsOnRecord
        <4>3. \A n \in 1..MaxReceived : call[c].n = n => OnRecord(n)'
          BY <4>2 DEF OnRecord, Receipt
        <4> QED  BY <3>2, <4>1, <4>3
      <3> QED  BY <2>4, <3>1, <3>2, <3>3, <3>4
    <2>5. PermittedInv'
      <3> SUFFICES ASSUME NEW d \in Calls, NEW n \in 1..MaxReceived,
                          call'[d].stage \in {"permitted", "forward"},
                          call'[d].rq.method = "send", call'[d].n = n
                   PROVE  call'[d].rq.token.digest = call'[d].rq.intent /\ OnRecord(n)'
        BY DEF PermittedInv
      <3>1. CASE d = c
        BY <2>4, <3>1
      <3>2. CASE d # c
        <4>1. call'[d] = call[d]
          BY <2>1, <3>2
        <4> QED  BY <1>o, <1>t, <4>1 DEF PermittedInv
      <3> QED  BY <3>1, <3>2
    <2>6. DeliveredInv'
      <3>1. CASE /\ call[c].stage = "forward"
                 /\ delivered' = Append(delivered, [n |-> call[c].n, rq |-> call[c].rq])
        <4> DEFINE e == [n |-> call[c].n, rq |-> call[c].rq]
        <4>1. e \in Delivery /\ e.n = call[c].n /\ e.rq = call[c].rq
          BY <2>2, JobFields DEF Delivery
        <4> HIDE DEF e
        <4>2. /\ DOMAIN delivered' = 1..(Len(delivered) + 1)
              /\ DOMAIN delivered = 1..Len(delivered)
              /\ \A i \in 1..Len(delivered) : delivered'[i] = delivered[i]
              /\ delivered'[Len(delivered) + 1] = e
          BY <1>t, <3>1, <4>1 DEF e
        <4>3. ASSUME NEW n \in 1..MaxReceived, e.rq.method = "send", e.n = n
              PROVE  e.rq.token.digest = e.rq.intent /\ OnRecord(n)'
          BY <1>o, <1>t, <3>1, <4>1, <4>3 DEF PermittedInv
        <4>4. Len(delivered) \in Nat
          BY <1>t
        <4>5. ASSUME NEW i \in DOMAIN delivered', NEW n \in 1..MaxReceived,
                     delivered'[i].rq.method = "send", delivered'[i].n = n
              PROVE  delivered'[i].rq.token.digest = delivered'[i].rq.intent /\ OnRecord(n)'
          <5>1. (i \in DOMAIN delivered /\ delivered'[i] = delivered[i]) \/ delivered'[i] = e
            BY <4>2, <4>4
          <5> QED  BY <1>o, <1>t, <4>3, <4>5, <5>1 DEF DeliveredInv
        <4> QED  BY <4>5 DEF DeliveredInv
      <3> QED  BY <1>d, <2>1, <3>1
    <2> QED  BY <2>5, <2>6
  <1>2. ASSUME \/ \E c \in Calls : Receive(c)
               \/ Crash \/ PowerLoss \/ Start \/ Publish \/ Tick \/ UNCHANGED vars
        PROVE  PermittedInv' /\ DeliveredInv'
    <2>1. /\ delivered' = delivered
          /\ \/ call' = call
             \/ \E c \in Calls, j \in Job : call' = [call EXCEPT ![c] = j] /\ j.stage = "handle"
             \/ call' = [c \in Calls |-> Idle]
      BY <1>2, <1>t, OtherMoves
    <2>2. \A c \in Calls : call'[c] = call[c] \/ call'[c].stage \in {"handle", "idle"}
      BY <1>t, <2>1, JobFields
    <2>3. PermittedInv'
      BY <1>o, <1>t, <2>2 DEF PermittedInv
    <2> QED  BY <1>d, <2>1, <2>3
  <1> QED  BY <1>1, <1>2, <1>n DEF Next, RecordInv

LEMMA RecordSuffices == RecordInv => DeliveredIsOnRecord
  <1> SUFFICES ASSUME RecordInv, NEW i \in DOMAIN delivered, delivered[i].rq.method = "send"
               PROVE  /\ delivered[i].rq.token.digest = delivered[i].rq.intent
                      /\ \E k \in 1..synced :
                            file[k] # Torn /\ file[k].body = [n |-> delivered[i].n, dec |-> "permit"]
    BY DEF DeliveredIsOnRecord
  <1>1. delivered[i] \in Delivery
    BY DEF RecordInv, GateTyped
  <1>2. delivered[i].n \in 1..MaxReceived
    BY <1>1 DEF Delivery
  <1>3. PICK n \in 1..MaxReceived : n = delivered[i].n
    BY <1>2
  <1>4. delivered[i].rq.token.digest = delivered[i].rq.intent /\ OnRecord(n)
    BY <1>3 DEF RecordInv, DeliveredInv
  <1> QED  BY <1>3, <1>4 DEF OnRecord

\* A call reaches the wrapped server only with its permit on the disk and
\* the intent its token is bound to, however requests interleave and whatever
\* fails, crashes or restarts (decision.go finish, audit Append).
THEOREM DeliveriesAreOnRecord == Spec => []DeliveredIsOnRecord
  <1>1. Init => RecordInv
    <2>1. Init => DeliveredInv /\ PermittedInv
      BY DEF Init, DeliveredInv, PermittedInv, Idle
    <2> QED  BY <2>1, GateTypedInit DEF RecordInv
  <1>2. RecordInv /\ [Next]_vars => RecordInv'
    BY RecordStep
  <1> QED  BY <1>1, <1>2, RecordSuffices, PTL DEF Spec

-----------------------------------------------------------------------------
(* The replay cache.  Moments are in ticks, slots and expiries in seconds. *)

\* Division by a positive number.
LEMMA Division ==
    ASSUME NEW a \in Nat, NEW s \in Nat \ {0}
    PROVE  /\ a \div s \in Nat
           /\ s * (a \div s) <= a /\ a < s * (a \div s) + s
  OBVIOUS

LEMMA WholeDivision ==
    ASSUME NEW a \in Nat, NEW s \in Nat \ {0}, a % s = 0
    PROVE  a = s * (a \div s)
  OBVIOUS

LEMMA Scale ==
    ASSUME NEW s \in Nat \ {0}, NEW a \in Int, NEW b \in Int
    PROVE  /\ (a <= b) <=> (s * a <= s * b)
           /\ s * (a + 1) = s * a + s /\ s * (a + b) = s * a + s * b
           /\ s * (a - b) = s * a - s * b
           /\ a * s = s * a /\ s * a \in Int
  OBVIOUS

\* The second a moment t falls into is before k exactly when t is.
LEMMA BeforeSecond ==
    ASSUME NEW t \in Nat, NEW k \in Int
    PROVE  t < k * Second <=> t \div Second < k
  <1> DEFINE u == t \div Second
  <1>1. u \in Nat /\ Second * u <= t /\ t < Second * u + Second /\ Second \in Nat \ {0}
    BY Division, GatewayAssumption
  <1> HIDE DEF u
  <1>2. /\ k * Second = Second * k /\ Second * k \in Int
        /\ Second * (u + 1) = Second * u + Second /\ Second * u \in Int
    BY <1>1, Scale
  <1>3. (u + 1 <= k) <=> (Second * (u + 1) <= Second * k)
    BY <1>1, Scale
  <1>4. (k <= u) <=> (Second * k <= Second * u)
    BY <1>1, Scale
  <1>5. t < k * Second <=> u < k
    BY <1>1, <1>2, <1>3, <1>4
  <1> QED  BY <1>5 DEF u

\* The window in seconds.
LEMMA Window ==
    /\ ReplayWindow \div Second \in Nat \ {0}
    /\ ReplayWindow = Second * (ReplayWindow \div Second)
  <1> DEFINE w == ReplayWindow \div Second
  <1>1. w \in Nat /\ ReplayWindow = Second * w /\ Second \in Nat \ {0}
    BY Division, WholeDivision, GatewayAssumption
  <1>2. w # 0
    <2>1. CASE w = 0
      <3>1. ReplayWindow = 0
        BY <1>1, <2>1
      <3> QED  BY <3>1, GatewayAssumption
    <2> QED  BY <2>1
  <1> QED  BY <1>1, <1>2

\* A slot made at t outlives any token whose lifetime was bounded at t.
LEMMA SlotOutlives ==
    ASSUME NEW t \in Nat, NEW e \in Int, e * Second <= t + MaxTokenTTL
    PROVE  e <= t \div Second + ReplayWindow \div Second
  <1> DEFINE w == ReplayWindow \div Second
  <1>1. w \in Nat /\ ReplayWindow = Second * w /\ Second \in Nat \ {0}
        /\ MaxTokenTTL \in Nat /\ MaxTokenTTL <= ReplayWindow
    BY Window, GatewayAssumption
  <1> HIDE DEF w
  <1>2. (e - w) * Second = e * Second - Second * w
    BY <1>1, Scale
  <1>3. e * Second \in Int /\ e - w \in Int /\ Second * w \in Int
    BY <1>1
  <1>4. (e - w) * Second <= t
    BY <1>1, <1>2, <1>3
  <1>5. ~(t < (e - w) * Second)
    BY <1>1, <1>2, <1>3, <1>4
  <1>6. ~(t \div Second < e - w) /\ t \div Second \in Nat
    BY <1>3, <1>5, <1>1, BeforeSecond, Division
  <1>7. e <= t \div Second + w
    BY <1>1, <1>6
  <1> QED  BY <1>7 DEF w

LEMMA SecondsGrow ==
    ASSUME NEW t \in Nat, NEW u \in Nat, t <= u
    PROVE  /\ t \div Second <= u \div Second
           /\ t \div Second + ReplayWindow \div Second <= (u + ReplayWindow) \div Second
  <1> DEFINE w == ReplayWindow \div Second
             k == t \div Second
  <1>1. w \in Nat /\ ReplayWindow = Second * w /\ Second \in Nat \ {0} /\ k \in Nat
        /\ Second * k <= t /\ ReplayWindow \in Nat
    BY Window, Division, GatewayAssumption
  <1> HIDE DEF w, k
  <1>2. k * Second = Second * k /\ (k + w) * Second = Second * k + Second * w
        /\ Second * k \in Int /\ Second * w \in Int
    BY <1>1, Scale
  <1>3. ~(u < k * Second) /\ ~(u + ReplayWindow < (k + w) * Second)
    BY <1>1, <1>2
  <1>4. u \div Second \in Nat /\ (u + ReplayWindow) \div Second \in Nat
    BY <1>1, Division
  <1>5. ~(u \div Second < k) /\ ~((u + ReplayWindow) \div Second < k + w)
    BY <1>1, <1>3, BeforeSecond
  <1>6. k <= u \div Second /\ k + w <= (u + ReplayWindow) \div Second
    BY <1>1, <1>4, <1>5
  <1> QED  BY <1>6 DEF w, k

\* A token a client sent that carries the issuer's signature.
Signed(t) == (\E rq \in Sent : rq.token = t) /\ t # NoToken /\ t.sigOK

LEMMA SignedTokens ==
    ASSUME NEW t, NEW u, Signed(t), Signed(u)
    PROVE  t.exp \in Int /\ (t.jti = u.jti => t = u)
  <1>1. PICK p \in Sent, q \in Sent : p.token = t /\ q.token = u
    BY DEF Signed
  <1>2. PICK m \in 1..MaxReceived, n \in 1..MaxReceived : p \in Requests[m] /\ q \in Requests[n]
    BY DEF Sent
  <1> QED  BY <1>1, <1>2, RequestsAssumption DEF Signed

\* What a goroutine on its way to the lock knows of its token.
WaitInv ==
    \A c \in Calls :
        /\ call[c].stage \in {"ttl", "now", "lock"} => Signed(tok(c))
        /\ call[c].stage = "now" => tok(c).exp * Second <= clock + MaxTokenTTL
        /\ call[c].stage = "lock" =>
              call[c].now <= unix /\ tok(c).exp <= call[c].now + ReplayWindow \div Second

AcceptedInv ==
    \A p \in accepted : Signed(p.token) /\ p.live \in BOOLEAN

\* The slot of an accepted token lasts as long as the token.
SlotInv ==
    \A p \in accepted :
        clock < p.token.exp * Second =>
            p.token.jti \in DOMAIN replay /\ replay[p.token.jti] >= p.token.exp

SlotsTyped ==
    \A j \in DOMAIN replay : replay[j] \in 1..((MaxTime + ReplayWindow) \div Second)

ReplayInv ==
    /\ GateTyped /\ WaitInv /\ AcceptedInv /\ SlotInv /\ SlotsTyped
    /\ SingleUseWhileLive

\* A clock that goes on makes none of this false.
LEMMA ClockGoesOn ==
    ASSUME GateTyped, NEW t \in clock..MaxTime
    PROVE  /\ clock \in Nat /\ t \in Nat /\ MaxTime \in Nat
           /\ unix \in Nat /\ unix <= t \div Second
           /\ unix <= MaxTime \div Second
  <1>1. clock \in Nat /\ t \in Nat /\ MaxTime \in Nat /\ clock <= t /\ clock <= MaxTime
        /\ Second \in Nat \ {0}
    BY GatewayAssumption DEF GateTyped
  <1>2. unix \in Nat
    BY <1>1, Division DEF unix
  <1>3. unix <= t \div Second /\ unix <= MaxTime \div Second
    BY <1>1, SecondsGrow DEF unix
  <1> QED  BY <1>1, <1>2, <1>3

\* The lock is taken: what is pruned, recorded and accepted.
LEMMA LockStep ==
    ASSUME ReplayInv, NEW c \in Calls, ReplayCheck(c)
    PROVE  AcceptedInv' /\ SlotInv' /\ SlotsTyped' /\ SingleUseWhileLive'
  <1> DEFINE now   == call[c].now
             t     == call[c].rq.token
             live  == unpruned(now)
             fresh == t.jti \notin live /\ Cardinality(live) < ReplayCapacity
             w     == ReplayWindow \div Second
             e     == [n |-> call[c].n, token |-> t, live |-> clock < t.exp * Second]
  <1>1. /\ call[c].stage = "lock" /\ clock' = clock
        /\ replay' = [j \in live \union (IF fresh THEN {t.jti} ELSE {}) |->
                        IF j \in live THEN replay[j] ELSE now + w]
        /\ accepted' = IF fresh THEN accepted \union {e} ELSE accepted
    BY DEF ReplayCheck, tok, slotExpiry
  <1>2. /\ Signed(t) /\ now <= unix /\ t.exp <= now + w
        /\ \A p \in accepted : Signed(p.token) /\ p.live \in BOOLEAN
    BY <1>1 DEF ReplayInv, WaitInv, AcceptedInv, tok
  <1>3. /\ clock \in Nat /\ unix \in Nat /\ unix <= MaxTime \div Second /\ MaxTime \in Nat
    <2>1. GateTyped /\ clock \in 0..MaxTime /\ MaxTime \in Nat
      BY GatewayAssumption DEF ReplayInv, GateTyped
    <2>2. clock \in clock..MaxTime
      BY <2>1
    <2> QED  BY <2>1, <2>2, ClockGoesOn
  <1>4. now \in Nat /\ w \in Nat \ {0} /\ t.exp \in Int
    <2>1. GateTyped /\ call[c].stage \in Busy
      BY <1>1 DEF ReplayInv, Busy
    <2>2. call[c] \in Job
      BY <2>1, GoesOn
    <2> QED  BY <1>2, <2>2, JobFields, Window, SignedTokens
  <1>5. \A j : (j \in live <=> j \in DOMAIN replay /\ replay[j] > now)
    BY DEF unpruned
  <1>6. \A p \in accepted : /\ p.token.exp \in Int
                            /\ clock < p.token.exp * Second => unix < p.token.exp
                            /\ p.token.jti = t.jti => p.token = t
    BY <1>2, <1>3, SignedTokens, BeforeSecond DEF unix
  <1>7. \A p \in accepted : clock < p.token.exp * Second =>
                              /\ p.token.jti \in live
                              /\ replay[p.token.jti] >= p.token.exp
    <2> SUFFICES ASSUME NEW p \in accepted, clock < p.token.exp * Second
                 PROVE  p.token.jti \in live /\ replay[p.token.jti] >= p.token.exp
      OBVIOUS
    <2>1. p.token.jti \in DOMAIN replay /\ replay[p.token.jti] >= p.token.exp
      BY DEF ReplayInv, SlotInv
    <2>2. replay[p.token.jti] \in Int
      BY <2>1 DEF ReplayInv, SlotsTyped
    <2>3. replay[p.token.jti] > now
      BY <1>2, <1>3, <1>4, <1>6, <2>1, <2>2
    <2> QED  BY <1>5, <2>1, <2>3
  <1>8. \A j \in DOMAIN replay' : \/ j \in live /\ replay'[j] = replay[j]
                                  \/ j = t.jti /\ replay'[j] = now + w
    BY <1>1
  <1>9. /\ \A j \in live : j \in DOMAIN replay' /\ replay'[j] = replay[j]
        /\ fresh => t.jti \in DOMAIN replay' /\ replay'[t.jti] = now + w
    BY <1>1
  <1> HIDE DEF now, live, fresh, w
  <1>e. e.token = t /\ e.live = (clock < t.exp * Second) /\ e.live \in BOOLEAN
    BY DEF e
  <1> HIDE DEF t, e
  <1>10. AcceptedInv'
    BY <1>1, <1>2, <1>e DEF AcceptedInv
  <1>11. SlotInv'
    <2> SUFFICES ASSUME NEW p \in accepted', clock < p.token.exp * Second
                 PROVE  p.token.jti \in DOMAIN replay' /\ replay'[p.token.jti] >= p.token.exp
      BY <1>1 DEF SlotInv
    <2>1. CASE p \in accepted
      BY <1>7, <1>9, <2>1
    <2>2. CASE p = e /\ fresh
      <3>1. p.token = t
        BY <1>e, <2>2
      <3>2. now + w >= t.exp
        BY <1>2, <1>4
      <3> QED  BY <1>9, <2>2, <3>1, <3>2
    <2> QED  BY <1>1, <2>1, <2>2
  <1>12. SlotsTyped'
    <2> SUFFICES ASSUME NEW j \in DOMAIN replay'
                 PROVE  replay'[j] \in 1..((MaxTime + ReplayWindow) \div Second)
      BY DEF SlotsTyped
    <2>1. CASE j \in live /\ replay'[j] = replay[j]
      BY <1>5, <2>1 DEF ReplayInv, SlotsTyped
    <2>2. CASE replay'[j] = now + w
      <3>1. /\ MaxTime \div Second + w <= (MaxTime + ReplayWindow) \div Second
            /\ MaxTime \div Second \in Nat
            /\ (MaxTime + ReplayWindow) \div Second \in Nat
        BY <1>3, SecondsGrow, Division, GatewayAssumption DEF w
      <3> QED  BY <1>2, <1>3, <1>4, <2>2, <3>1
    <2> QED  BY <1>8, <2>1, <2>2
  <1>13. SingleUseWhileLive'
    <2> SUFFICES ASSUME NEW p \in accepted', NEW q \in accepted',
                        p.token.jti = q.token.jti, p.n # q.n, p.live, q.live
                 PROVE  FALSE
      BY DEF SingleUseWhileLive
    <2>1. CASE p \in accepted /\ q \in accepted
      BY <2>1 DEF ReplayInv, SingleUseWhileLive
    <2>2. ASSUME NEW x \in accepted, fresh, x.token.jti = t.jti, clock < t.exp * Second
          PROVE  FALSE
      <3>1. x.token = t
        BY <1>6, <2>2 DEF t
      <3>2. t.jti \in live
        BY <1>7, <2>2, <3>1
      <3> QED  BY <2>2, <3>2 DEF fresh
    <2>3. CASE p = e /\ q \in accepted /\ fresh
      BY <1>e, <2>2, <2>3
    <2>4. CASE q = e /\ p \in accepted /\ fresh
      BY <1>e, <2>2, <2>4
    <2> QED  BY <1>1, <2>1, <2>3, <2>4
  <1> QED  BY <1>10, <1>11, <1>12, <1>13

\* The goroutine that moves on towards the lock.
LEMMA WaitStep ==
    ASSUME ReplayInv, NEW c \in Calls, Step(c)
    PROVE  WaitInv'
  <1>t. GateTyped /\ WaitInv
    BY DEF ReplayInv
  <1>1. /\ call[c].stage \in Busy /\ clock' = clock
        /\ \A d \in Calls \ {c} : call'[d] = call[d]
        /\ call'[c] = Idle \/ Moves(c)
    BY <1>t, StepMoves
  <1>2. /\ call[c] \in Job /\ call[c].rq \in Sent
        /\ \A s \in Busy : /\ At(c, s) \in Job /\ At(c, s).stage = s
                           /\ At(c, s).rq = call[c].rq /\ At(c, s).now = call[c].now
    BY <1>t, <1>1, GoesOn, JobFields
  <1>3. clock \in Nat /\ unix \in Nat
    <2>1. clock \in 0..MaxTime /\ MaxTime \in Nat
      BY <1>t, GatewayAssumption DEF GateTyped
    <2>2. clock \in clock..MaxTime
      BY <2>1
    <2> QED  BY <1>t, <2>2, ClockGoesOn
  <1> DEFINE Known(j, t) ==
               /\ j.stage \in {"ttl", "now", "lock"} => Signed(t)
               /\ j.stage = "now" => t.exp * Second <= clock + MaxTokenTTL
               /\ j.stage = "lock" =>
                     j.now <= unix /\ t.exp <= j.now + ReplayWindow \div Second
             t == call[c].rq.token
  <1>4. \A d \in Calls : Known(call[d], call[d].rq.token)
    BY <1>t DEF WaitInv, tok
  <1>5. Known(call'[c], call'[c].rq.token)
    <2>1. CASE call'[c].stage \notin {"ttl", "now", "lock"}
      BY <2>1
    <2>2. CASE call'[c] = At(c, "ttl") /\ ~rejected(tok(c))
      <3>1. Signed(t)
        BY <1>2, <2>2 DEF rejected, tok, Signed
      <3>2. call'[c].stage = "ttl" /\ call'[c].rq = call[c].rq
        BY <1>2, <2>2 DEF Busy
      <3> QED  BY <3>1, <3>2
    <2>3. CASE call[c].stage = "ttl" /\ call'[c] = At(c, "now") /\ ~ttlExcessive(tok(c))
      <3>1. Signed(t)
        BY <1>4, <2>3
      <3>2. t.exp \in Int
        BY <3>1, SignedTokens
      <3>3. ~(t.exp * Second - clock > MaxTokenTTL)
        BY <2>3 DEF ttlExcessive, tok
      <3>4. t.exp * Second \in Int /\ MaxTokenTTL \in Nat
        BY <3>2, GatewayAssumption
      <3> HIDE DEF t
      <3>5. t.exp * Second <= clock + MaxTokenTTL
        BY <1>3, <3>3, <3>4
      <3>6. call'[c].stage = "now" /\ call'[c].rq.token = t
        BY <1>2, <2>3 DEF Busy, t
      <3> QED  BY <3>1, <3>5, <3>6
    <2>4. CASE call[c].stage = "now" /\ call'[c] = [At(c, "lock") EXCEPT !.now = unix]
      <3>1. Signed(t) /\ t.exp * Second <= clock + MaxTokenTTL
        BY <1>4, <2>4
      <3>2. t.exp \in Int
        BY <3>1, SignedTokens
      <3>3. t.exp <= clock \div Second + ReplayWindow \div Second
        BY <1>3, <3>1, <3>2, SlotOutlives
      <3>4. At(c, "lock") \in Job /\ At(c, "lock").stage = "lock" /\ At(c, "lock").rq = call[c].rq
        BY <1>2 DEF Busy
      <3>5. call'[c].stage = "lock" /\ call'[c].now = unix /\ call'[c].rq.token = t
        BY <2>4, <3>4 DEF Job
      <3> HIDE DEF t
      <3>6. call'[c].now <= unix
        BY <1>3, <3>5
      <3>7. t.exp <= call'[c].now + ReplayWindow \div Second
        BY <3>3, <3>5 DEF unix
      <3> QED  BY <3>1, <3>5, <3>6, <3>7
    <2>5. call'[c].stage \in {"ttl", "now", "lock"} => call'[c] # Idle
      BY JobFields
    <2> QED  BY <1>1, <1>2, <2>1, <2>2, <2>3, <2>4, <2>5 DEF Moves, Busy
  <1>6. \A d \in Calls : Known(call'[d], call'[d].rq.token)
    BY <1>1, <1>4, <1>5
  <1> QED  BY <1>1, <1>6 DEF WaitInv, tok, unix

LEMMA LaterBound ==
    ASSUME NEW x \in Int, NEW a \in Nat, NEW b \in Nat, NEW m \in Nat, a <= b, x <= a + m
    PROVE  x <= b + m
  OBVIOUS

LEMMA ReplayStep ==
    ASSUME ReplayInv, [Next]_vars
    PROVE  ReplayInv'
  <1>t. /\ GateTyped /\ WaitInv /\ AcceptedInv /\ SlotInv /\ SlotsTyped /\ SingleUseWhileLive
    BY DEF ReplayInv
  <1>n. GateTyped'
    BY <1>t, GateTypedStep
  <1>1. ASSUME NEW c \in Calls, Step(c)
        PROVE  WaitInv' /\ AcceptedInv' /\ SlotInv' /\ SlotsTyped' /\ SingleUseWhileLive'
    <2>1. WaitInv'
      BY <1>1, WaitStep
    <2>2. clock' = clock /\ (ReplayCheck(c) \/ UNCHANGED <<replay, accepted>>)
      BY <1>1, <1>t, StepMoves
    <2>3. CASE ReplayCheck(c)
      BY <2>1, <2>3, LockStep
    <2>4. CASE UNCHANGED <<replay, accepted>>
      BY <1>t, <2>1, <2>2, <2>4 DEF AcceptedInv, SlotInv, SlotsTyped, SingleUseWhileLive
    <2> QED  BY <2>2, <2>3, <2>4
  <1>2. ASSUME \/ \E c \in Calls : Receive(c)
               \/ Crash \/ PowerLoss \/ Start \/ Publish \/ Tick \/ UNCHANGED vars
        PROVE  WaitInv' /\ AcceptedInv' /\ SlotInv' /\ SlotsTyped' /\ SingleUseWhileLive'
    <2>1. /\ clock' \in clock..MaxTime
          /\ \/ /\ replay' = replay /\ accepted' = accepted
                /\ \/ call' = call
                   \/ \E c \in Calls, j \in Job :
                         call' = [call EXCEPT ![c] = j] /\ j.stage = "handle"
             \/ replay' = Empty /\ accepted' = {} /\ call' = [c \in Calls |-> Idle]
      BY <1>2, <1>t, OtherMoves
    <2>2. /\ call \in [Calls -> {Idle} \union Job]
          /\ \A c \in Calls : call'[c] = call[c] \/ call'[c].stage \in {"handle", "idle"}
      BY <1>t, <2>1, JobFields DEF GateTyped
    <2>3. /\ clock \in Nat /\ clock' \in Nat /\ clock <= clock'
          /\ unix \in Nat /\ unix <= unix' /\ unix' \in Nat
      <3>1. clock \in Nat /\ clock' \in Nat /\ unix \in Nat /\ unix <= clock' \div Second
        BY <1>t, <2>1, ClockGoesOn
      <3>2. clock' \div Second \in Nat
        BY <3>1, Division, GatewayAssumption
      <3> QED  BY <2>1, <3>1, <3>2 DEF unix
    <2>4. WaitInv'
      <3> SUFFICES ASSUME NEW c \in Calls, call'[c].stage \in {"ttl", "now", "lock"}
                   PROVE  /\ Signed(tok(c)')
                          /\ call'[c].stage = "now" => tok(c)'.exp * Second <= clock' + MaxTokenTTL
                          /\ call'[c].stage = "lock" =>
                                /\ call'[c].now <= unix'
                                /\ tok(c)'.exp <= call'[c].now + ReplayWindow \div Second
        BY DEF WaitInv, Signed, Sent
      <3>1. call'[c] = call[c]
        BY <2>2
      <3>2. tok(c)' = tok(c)
        BY <3>1 DEF tok
      <3>3. Signed(tok(c))
        BY <1>t, <3>1 DEF WaitInv
      <3>4. tok(c).exp \in Int
        BY <3>3, SignedTokens
      <3>5. PICK x \in Int : x = tok(c).exp * Second
        BY <3>4, GatewayAssumption
      <3>6. call[c].stage = "now" => x <= clock + MaxTokenTTL
        BY <1>t, <3>5 DEF WaitInv
      <3>7. call[c].stage = "now" => x <= clock' + MaxTokenTTL
        BY <2>3, <3>6, GatewayAssumption, LaterBound
      <3>8. call[c].stage = "lock" =>
                /\ call[c].now <= unix'
                /\ tok(c).exp <= call[c].now + ReplayWindow \div Second
        <4>1. call[c].stage = "lock" =>
                /\ call[c].now <= unix
                /\ tok(c).exp <= call[c].now + ReplayWindow \div Second
          BY <1>t DEF WaitInv
        <4>2. call[c].stage = "lock" => call[c].now \in Nat
          BY <2>2, JobFields
        <4> QED  BY <2>3, <4>1, <4>2
      <3> QED  BY <3>1, <3>2, <3>3, <3>5, <3>7, <3>8
    <2>5. CASE replay' = replay /\ accepted' = accepted
      <3>1. AcceptedInv' /\ SlotsTyped' /\ SingleUseWhileLive'
        BY <1>t, <2>5 DEF AcceptedInv, SlotsTyped, SingleUseWhileLive
      <3>2. \A q \in accepted : clock' < q.token.exp * Second => clock < q.token.exp * Second
        <4> SUFFICES ASSUME NEW q \in accepted, clock' < q.token.exp * Second
                     PROVE  clock < q.token.exp * Second
          OBVIOUS
        <4>1. q.token.exp \in Int
          BY <1>t, SignedTokens DEF AcceptedInv
        <4>2. q.token.exp * Second \in Int
          BY <4>1, GatewayAssumption
        <4> QED  BY <2>3, <4>2
      <3>3. SlotInv'
        BY <1>t, <2>5, <3>2 DEF SlotInv
      <3> QED  BY <2>4, <3>1, <3>3
    <2>6. CASE replay' = Empty /\ accepted' = {}
      BY <2>4, <2>6 DEF Empty, AcceptedInv, SlotInv, SlotsTyped, SingleUseWhileLive
    <2> QED  BY <2>1, <2>5, <2>6
  <1> QED  BY <1>1, <1>2, <1>n DEF Next, ReplayInv

LEMMA ReplaySuffices == ReplayInv => ReplaySafe
  <1> SUFFICES ASSUME ReplayInv
               PROVE  ReplaySafe
    OBVIOUS
  <1>1. TypeOK
    <2>1. /\ clock \in 0..MaxTime /\ received \in 0..MaxReceived /\ up \in BOOLEAN
          /\ synced \in 0..Len(file) /\ call \in [Calls -> {Idle} \union Job]
      BY DEF ReplayInv, GateTyped, LogTyped
    <2>2. \A c \in Calls : call[c].stage \in Busy \union {"idle"}
      BY <2>1, JobFields
    <2>3. \A j \in DOMAIN replay : replay[j] \in 1..((MaxTime + ReplayWindow) \div Second)
      BY DEF ReplayInv, SlotsTyped
    <2> QED  BY <2>1, <2>2, <2>3 DEF TypeOK, Busy
  <1>2. AcceptedRemembered
    BY DEF ReplayInv, SlotInv, AcceptedRemembered
  <1> QED  BY <1>1, <1>2 DEF ReplayInv, ReplaySafe

\* One run of the process accepts a live token once: for any number of
\* concurrent requests, however their readings of the clock, the pruning of
\* the cache and its lock interleave, and for any capacity and any window
\* that decision.New admits (decision.go replayCheck).
THEOREM LiveTokensAreUsedOnce == Spec => []ReplaySafe
  <1>1. Init => ReplayInv
    <2>1. Init => AcceptedInv /\ SlotInv /\ SlotsTyped /\ SingleUseWhileLive /\ WaitInv
      BY DEF Init, Idle, Empty, AcceptedInv, SlotInv, SlotsTyped, SingleUseWhileLive, WaitInv
    <2> QED  BY <2>1, GateTypedInit DEF ReplayInv
  <1>2. ReplayInv /\ [Next]_vars => ReplayInv'
    BY ReplayStep
  <1> QED  BY <1>1, <1>2, ReplaySuffices, PTL DEF Spec

-----------------------------------------------------------------------------
(* What the log promises over crashes, failed writes and losses of power.  *)

\* A line that is on the disk and that load refuses: Open never succeeds
\* again.
Spoiled == \E i \in 1..synced : file[i] = Torn \/ file[i].seq # i

\* What Append returned is on the disk where it was put, and in the memory of
\* a process that runs.
FlushedInv == \A e \in acked : e.seq \in 1..synced /\ file[e.seq] = e
HeldInv ==
    up => /\ Len(entries) <= Len(file)
          /\ \A e \in acked : e.seq \in 1..Len(entries) /\ entries[e.seq] = e

SurvivalInv == LogTyped /\ (Spoiled \/ FlushedInv) /\ HeldInv

LEMMA SpoiledStays ==
    ASSUME LogTyped, LogStep, Spoiled
    PROVE  Spoiled'
  <1>1. synced' \in synced..Len(file') /\ (\A k \in 1..synced : file'[k] = file[k])
    BY LogTypedStep
  <1>2. PICK i \in 1..synced : file[i] = Torn \/ file[i].seq # i
    BY DEF Spoiled
  <1>3. i \in 1..synced' /\ file'[i] = file[i]
    BY <1>1, <1>2 DEF LogTyped
  <1> QED  BY <1>2, <1>3 DEF Spoiled

LEMMA SpoiledNeverLoads ==
    ASSUME LogTyped, Spoiled
    PROVE  ~loads(file)
  BY DEF LogTyped, Spoiled, loads

\* A line that is not the next of the file spoils it.
LEMMA MisplacedSpoils ==
    ASSUME LogTyped, NEW b \in Body, AppendOK(b), Len(file) # Len(entries)
    PROVE  Spoiled'
  <1>t. file \in Seq(Line) /\ Len(file) \in Nat /\ Len(entries) \in Nat
    BY DEF LogTyped
  <1>1. PICK e \in Entry : e = newEntry(b) /\ e.seq = Len(entries) + 1
    BY NewEntryType
  <1>2. file' = Append(file, e) /\ synced' = Len(file') /\ e \in Line
    BY <1>1, EntryFields DEF AppendOK
  <1>3. Len(file') = Len(file) + 1 /\ file'[Len(file) + 1] = e
    BY <1>2, <1>t, FileGrows
  <1>4. Len(file) + 1 \in 1..synced' /\ file'[Len(file) + 1].seq # Len(file) + 1
    BY <1>1, <1>2, <1>3, <1>t
  <1> QED  BY <1>4 DEF Spoiled

LEMMA SurvivalStep ==
    ASSUME SurvivalInv, LogStep
    PROVE  SurvivalInv'
  <1>t. /\ LogTyped /\ HeldInv /\ file \in Seq(Line) /\ entries \in Seq(Entry)
        /\ synced \in 0..Len(file) /\ Len(file) \in Nat /\ Len(entries) \in Nat
    BY DEF SurvivalInv, LogTyped
  <1>d. /\ LogTyped' /\ synced' \in synced..Len(file')
        /\ \A k \in 1..synced : file'[k] = file[k]
    BY <1>t, LogTypedStep
  <1>s. Spoiled => Spoiled'
    BY <1>t, SpoiledStays
  \* Nothing is acknowledged, and what is on the disk stays.
  <1>a. ASSUME acked' = acked, FlushedInv
        PROVE  FlushedInv'
    <2>1. \A e \in acked : e.seq \in 1..synced' /\ file'[e.seq] = e
      BY <1>a, <1>d, <1>t DEF FlushedInv
    <2> QED  BY <1>a, <2>1 DEF FlushedInv
  <1>1. ASSUME NEW b \in Body, AppendOK(b)
        PROVE  SurvivalInv'
    <2>1. PICK e \in Entry : e = newEntry(b) /\ e.seq = Len(entries) + 1
      BY <1>t, NewEntryType
    <2>2. /\ up /\ file' = Append(file, e) /\ entries' = Append(entries, e)
          /\ acked' = acked \union {e} /\ synced' = Len(file') /\ e \in Line
      BY <1>1, <2>1, EntryFields DEF AppendOK
    <2>3. /\ Len(entries') = Len(entries) + 1 /\ entries'[Len(entries) + 1] = e
          /\ \A i \in 1..Len(entries) : entries'[i] = entries[i]
      BY <1>t, <2>2
    <2>4. /\ Len(file') = Len(file) + 1 /\ file'[Len(file) + 1] = e
      BY <1>t, <2>2, FileGrows
    <2>5. HeldInv'
      <3>1. Len(entries') <= Len(file')
        BY <1>t, <2>2, <2>3, <2>4 DEF HeldInv
      <3>2. \A x \in acked : x.seq \in 1..Len(entries') /\ entries'[x.seq] = x
        BY <1>t, <2>2, <2>3 DEF HeldInv
      <3>3. e.seq \in 1..Len(entries') /\ entries'[e.seq] = e
        BY <1>t, <2>1, <2>3
      <3> QED  BY <2>2, <3>1, <3>2, <3>3 DEF HeldInv
    <2>6. Spoiled' \/ FlushedInv'
      <3>1. CASE Len(file) # Len(entries)
        BY <1>1, <1>t, <3>1, MisplacedSpoils
      <3>2. CASE Len(file) = Len(entries) /\ FlushedInv
        <4>1. \A x \in acked : x.seq \in 1..synced' /\ file'[x.seq] = x
          BY <1>d, <1>t, <3>2 DEF FlushedInv
        <4>2. e.seq \in 1..synced' /\ file'[e.seq] = e
          BY <1>t, <2>1, <2>2, <2>4, <3>2
        <4> QED  BY <2>2, <4>1, <4>2 DEF FlushedInv
      <3> QED  BY <1>s, <3>1, <3>2 DEF SurvivalInv
    <2> QED  BY <1>d, <2>5, <2>6 DEF SurvivalInv
  <1>2. CASE LogOpen
    <2>1. /\ loads(file) /\ up' /\ entries' = file /\ UNCHANGED <<file, synced, acked>>
      BY <1>2 DEF LogOpen
    <2>2. FlushedInv
      BY <1>t, <2>1, SpoiledNeverLoads DEF SurvivalInv
    <2>3. HeldInv'
      BY <1>t, <2>1, <2>2 DEF HeldInv, FlushedInv
    <2> QED  BY <1>a, <1>d, <2>1, <2>2, <2>3 DEF SurvivalInv
  <1>3. CASE (\E S \in SUBSET Body : LogCrash(S)) \/ LogPowerLoss
    <2>1. up' = FALSE /\ acked' = acked
      BY <1>3 DEF LogCrash, LogPowerLoss
    <2> QED  BY <1>a, <1>d, <1>s, <2>1 DEF SurvivalInv, HeldInv
  <1>4. CASE (\E b \in Body : AppendFails(b)) \/ PublishRoot \/ UNCHANGED logVars
    <2>1. acked' = acked /\ up' = up /\ entries' = entries
      BY <1>4 DEF AppendFails, PublishRoot, logVars
    <2>2. Len(file') \in Nat /\ Len(file) <= Len(file')
      <3>1. CASE file' = file
        BY <1>t, <3>1
      <3>2. ASSUME NEW e \in Line, file' = Append(file, e)
            PROVE  Len(file') \in Nat /\ Len(file) <= Len(file')
        BY <1>t, <3>2, FileGrows
      <3>3. file' = file \/ \E e \in Line : file' = Append(file, e)
        BY <1>4, <1>t, NewEntryType, EntryFields DEF AppendFails, PublishRoot, logVars
      <3> QED  BY <3>1, <3>2, <3>3
    <2>3. HeldInv'
      BY <1>t, <2>1, <2>2 DEF HeldInv
    <2> QED  BY <1>a, <1>d, <1>s, <2>1, <2>3 DEF SurvivalInv
  <1> QED  BY <1>1, <1>2, <1>3, <1>4 DEF LogStep

\* The file is what memory holds, and after it attempts at the next entry.
Follows ==
    /\ Len(entries) <= Len(file)
    /\ \A i \in 1..Len(entries) : file[i] = entries[i] /\ entries[i].seq = i
    /\ \A i \in (Len(entries) + 1)..Len(file) :
          file[i] = Torn \/ file[i].seq = Len(entries) + 1

FileInv == SurvivalInv /\ (Spoiled \/ Follows)

\* The entries of a file that Open accepts: those memory last held, and at
\* most one more.
LEMMA OpenedFile ==
    ASSUME LogTyped, Follows, loads(file)
    PROVE  /\ file \in Seq(Entry)
           /\ file = entries \/ \E e \in Entry : file = Append(entries, e)
  <1>t. /\ file \in Seq(Line) /\ entries \in Seq(Entry)
        /\ Len(file) \in Nat /\ Len(entries) \in Nat /\ DOMAIN file = 1..Len(file)
    BY DEF LogTyped
  <1>1. \A i \in 1..Len(file) : file[i] \in Entry /\ file[i].seq = i /\ file[i] # Torn
    BY <1>t DEF loads, Line
  <1>2. file \in Seq(Entry)
    BY <1>t, <1>1
  <1>3. /\ Len(entries) <= Len(file)
        /\ \A i \in 1..Len(entries) : file[i] = entries[i]
        /\ \A i \in (Len(entries) + 1)..Len(file) : file[i].seq = Len(entries) + 1
    BY <1>t, <1>1 DEF Follows
  <1>4. Len(file) <= Len(entries) + 1
    <2>1. CASE Len(file) > Len(entries) + 1
      <3>1. /\ Len(entries) + 2 \in (Len(entries) + 1)..Len(file)
            /\ Len(entries) + 2 \in 1..Len(file)
        BY <1>t, <2>1
      <3> QED  BY <1>1, <1>3, <1>t, <3>1
    <2> QED  BY <1>t, <2>1
  <1>5. CASE Len(file) = Len(entries)
    <2>1. file = entries
      BY <1>t, <1>3, <1>5
    <2> QED  BY <1>2, <2>1
  <1>6. CASE Len(file) = Len(entries) + 1
    <2>1. file[Len(file)] \in Entry
      BY <1>1, <1>6, <1>t
    <2>2. file = Append(entries, file[Len(file)])
      BY <1>t, <1>2, <1>3, <1>6, <2>1
    <2> QED  BY <1>2, <2>1, <2>2
  <1>7. Len(file) = Len(entries) \/ Len(file) = Len(entries) + 1
    <2>1. Len(file) \in Nat /\ Len(entries) \in Nat /\ Len(entries) <= Len(file)
      BY <1>3, <1>t
    <2> QED  BY <1>4, <2>1
  <1> QED  BY <1>5, <1>6, <1>7

\* While the file does not spoil, each step keeps it in line with memory.
LEMMA FollowsStep ==
    ASSUME FileInv, LogStep, ~PowerLossAfterRecovery, Follows
    PROVE  Spoiled' \/ Follows'
  <1>t. /\ LogTyped /\ file \in Seq(Line) /\ entries \in Seq(Entry) /\ synced \in 0..Len(file)
        /\ Len(file) \in Nat /\ Len(entries) \in Nat /\ DOMAIN file = 1..Len(file)
    BY DEF FileInv, SurvivalInv, LogTyped
  <1>f. /\ Len(entries) <= Len(file)
        /\ \A i \in 1..Len(entries) : file[i] = entries[i] /\ entries[i].seq = i
        /\ \A i \in (Len(entries) + 1)..Len(file) :
              file[i] = Torn \/ file[i].seq = Len(entries) + 1
    BY DEF Follows
  <1>e. \A b \in Body : /\ newEntry(b) \in Entry /\ newEntry(b) \in Line
                        /\ newEntry(b).seq = Len(entries) + 1
    BY <1>t, NewEntryType, EntryFields
  \* One more attempt at the next entry.
  <1>a. ASSUME file' = file \/ \E e \in Line : /\ file' = Append(file, e)
                                               /\ e = Torn \/ e.seq = Len(entries) + 1,
               entries' = entries
        PROVE  Follows'
    <2>1. CASE file' = file
      BY <1>a, <1>f, <1>t, <2>1 DEF Follows
    <2>2. ASSUME NEW e \in Line, file' = Append(file, e), e = Torn \/ e.seq = Len(entries) + 1
          PROVE  Follows'
      <3>1. /\ Len(file') = Len(file) + 1 /\ file'[Len(file) + 1] = e
            /\ \A i \in 1..Len(file) : file'[i] = file[i]
        BY <1>t, <2>2, FileGrows
      <3>2. \A i \in (Len(entries) + 1)..Len(file') :
                file'[i] = Torn \/ file'[i].seq = Len(entries) + 1
        <4> SUFFICES ASSUME NEW i \in (Len(entries) + 1)..Len(file')
                     PROVE  file'[i] = Torn \/ file'[i].seq = Len(entries) + 1
          OBVIOUS
        <4>1. (i \in (Len(entries) + 1)..Len(file) /\ i \in 1..Len(file)) \/ i = Len(file) + 1
          BY <1>t, <3>1
        <4> QED  BY <1>f, <2>2, <3>1, <4>1
      <3>3. \A i \in 1..Len(entries) : file'[i] = entries[i] /\ entries[i].seq = i
        BY <1>f, <1>t, <3>1
      <3>4. Len(entries) <= Len(file')
        BY <1>f, <1>t, <3>1
      <3> QED  BY <1>a, <3>2, <3>3, <3>4 DEF Follows
    <2> QED  BY <1>a, <2>1, <2>2
  <1>1. ASSUME NEW b \in Body, AppendOK(b)
        PROVE  Spoiled' \/ Follows'
    <2>1. /\ file' = Append(file, newEntry(b)) /\ synced' = Len(file')
          /\ entries' = Append(entries, newEntry(b))
      BY <1>1 DEF AppendOK
    <2>2. PICK e \in Entry : e = newEntry(b)
      BY <1>e
    <2>3. /\ Len(file') = Len(file) + 1 /\ file'[Len(file) + 1] = e
          /\ \A i \in 1..Len(file) : file'[i] = file[i]
      BY <1>t, <2>1, <2>2, FileGrows, EntryFields
    <2>4. /\ Len(entries') = Len(entries) + 1 /\ entries'[Len(entries) + 1] = e
          /\ \A i \in 1..Len(entries) : entries'[i] = entries[i]
      BY <1>t, <2>1, <2>2
    <2>5. CASE Len(file) = Len(entries)
      <3>1. \A i \in 1..Len(entries') : file'[i] = entries'[i] /\ entries'[i].seq = i
        BY <1>e, <1>f, <1>t, <2>2, <2>3, <2>4, <2>5
      <3> QED  BY <1>t, <2>1, <2>3, <2>4, <2>5, <3>1 DEF Follows
    <2>6. CASE Len(file) # Len(entries)
      BY <1>1, <1>t, <2>6, MisplacedSpoils
    <2> QED  BY <2>5, <2>6
  <1>2. ASSUME NEW b \in Body, AppendFails(b)
        PROVE  Follows'
    <2>1. /\ entries' = entries
          /\ file' = file \/ file' = Append(file, Torn) \/ file' = Append(file, newEntry(b))
      BY <1>2 DEF AppendFails
    <2> QED  BY <1>a, <1>e, <2>1, EntryFields
  <1>3. ASSUME NEW S \in SUBSET Body, LogCrash(S)
        PROVE  Follows'
    <2>1. /\ entries' = entries
          /\ file' = file \/ \E b \in S : file' = Append(file, newEntry(b))
      BY <1>3 DEF LogCrash
    <2> QED  BY <1>a, <1>e, <2>1
  <1>4. CASE LogPowerLoss
    <2>1. PICK n \in synced..Len(file) :
              /\ file' = SubSeq(file, 1, n) \/ file' = Append(SubSeq(file, 1, n), Torn)
              /\ synced' = Len(file')
      BY <1>4 DEF LogPowerLoss
    <2>2. recovered = {} /\ entries' = entries
      BY <1>4 DEF LogPowerLoss
    <2> SUFFICES ASSUME ~Spoiled
                 PROVE  Follows'
      BY <1>t, SpoiledStays
    <2>s. Len(entries) <= synced
      <3> SUFFICES ASSUME ~(Len(entries) <= synced)
                   PROVE  FALSE
        OBVIOUS
      <3>1. synced + 1 \in (synced + 1)..Len(entries) /\ synced + 1 \in 1..Len(entries)
        BY <1>t
      <3>2. entries[synced + 1] \in acked
        BY <2>2, <3>1 DEF recovered
      <3>3. entries[synced + 1].seq = synced + 1 /\ entries[synced + 1].seq \in 1..synced
        BY <1>f, <3>1, <3>2 DEF FileInv, SurvivalInv, FlushedInv
      <3> QED  BY <1>t, <3>3
    <2>3. n \in 0..Len(file) /\ n >= Len(entries) /\ n \in Nat
      BY <1>f, <1>t, <2>s
    <2>4. /\ SubSeq(file, 1, n) \in Seq(Line) /\ Len(SubSeq(file, 1, n)) = n
          /\ \A i \in 1..n : SubSeq(file, 1, n)[i] = file[i]
      BY <1>t, <2>3, FilePrefix
    <2>5. /\ Len(file') = n \/ (Len(file') = n + 1 /\ file'[n + 1] = Torn)
          /\ \A i \in 1..n : file'[i] = file[i]
      <3>1. CASE file' = SubSeq(file, 1, n)
        BY <2>4, <3>1
      <3>2. CASE file' = Append(SubSeq(file, 1, n), Torn)
        <4>1. PICK f \in Seq(Line) : f = SubSeq(file, 1, n)
          BY <2>4
        <4>2. Torn \in Line /\ file' = Append(f, Torn) /\ Len(f) = n
          BY <2>4, <3>2, <4>1, EntryFields
        <4>3. /\ Len(file') = n + 1 /\ file'[n + 1] = Torn
              /\ \A i \in 1..n : file'[i] = f[i]
          BY <4>2, FileGrows
        <4> QED  BY <2>4, <4>1, <4>3
      <3> QED  BY <2>1, <3>1, <3>2
    <2>6. \A i \in (Len(entries) + 1)..Len(file') :
              file'[i] = Torn \/ file'[i].seq = Len(entries) + 1
      <3> SUFFICES ASSUME NEW i \in (Len(entries) + 1)..Len(file')
                   PROVE  file'[i] = Torn \/ file'[i].seq = Len(entries) + 1
        OBVIOUS
      <3>1. \/ i \in (Len(entries) + 1)..Len(file) /\ i \in 1..n
            \/ i = n + 1 /\ file'[n + 1] = Torn
        BY <1>t, <2>3, <2>5
      <3> QED  BY <1>f, <2>5, <3>1
    <2>7. /\ Len(entries) <= Len(file')
          /\ \A i \in 1..Len(entries) : file'[i] = entries[i] /\ entries[i].seq = i
      BY <1>f, <1>t, <2>3, <2>5
    <2> QED  BY <1>t, <2>1, <2>2, <2>6, <2>7 DEF Follows
  <1>5. CASE LogOpen
    <2>1. /\ entries' = file /\ file' = file /\ \A i \in 1..Len(file) : file[i].seq = i
      BY <1>5, <1>t DEF LogOpen, loads
    <2> QED  BY <1>t, <2>1 DEF Follows
  <1>6. CASE PublishRoot \/ UNCHANGED logVars
    <2>1. UNCHANGED <<file, entries>>
      BY <1>6 DEF PublishRoot, logVars
    <2> QED  BY <1>a, <2>1
  <1> QED  BY <1>1, <1>2, <1>3, <1>4, <1>5, <1>6 DEF LogStep

\* How a step of the log looks to its readers.
LEMMA LogGrows ==
    ASSUME FileInv, LogStep
    PROVE  \/ entries' = entries /\ (heads' = heads \/ heads' = heads \union {bodies(entries)})
           \/ \E e \in Entry : entries' = Append(entries, e) /\ heads' = heads
  <1>1. ASSUME NEW b \in Body, AppendOK(b)
        PROVE  \E e \in Entry : entries' = Append(entries, e) /\ heads' = heads
    BY <1>1, NewEntryType DEF AppendOK, FileInv, SurvivalInv
  <1>2. CASE LogOpen
    <2>1. loads(file) /\ entries' = file /\ heads' = heads
      BY <1>2 DEF LogOpen
    <2>2. Follows
      BY <2>1, SpoiledNeverLoads DEF FileInv, SurvivalInv
    <2> QED  BY <2>1, <2>2, OpenedFile DEF FileInv, SurvivalInv
  <1> QED  BY <1>1, <1>2 DEF LogStep, AppendFails, LogCrash, PublishRoot, LogPowerLoss, logVars

LEMMA FileStep ==
    ASSUME FileInv, LogStep, ~PowerLossAfterRecovery
    PROVE  FileInv'
  <1>1. SurvivalInv'
    BY SurvivalStep DEF FileInv
  <1>2. Spoiled' \/ Follows'
    BY FollowsStep, SpoiledStays DEF FileInv, SurvivalInv
  <1> QED  BY <1>1, <1>2 DEF FileInv

\* Before the first failed write or loss of power the file loads, and is
\* what memory holds while the process runs.
SoundInv == ioFaults = 0 => loads(file) /\ (up => file = entries)

\* A prefix of a file is not touched by a line added at its end.
LEMMA PrefixKept ==
    ASSUME NEW f \in Seq(Line), NEW e \in Line, NEW i \in 1..(Len(f) + 1)
    PROVE  /\ SubSeq(Append(f, e), 1, i - 1) = SubSeq(f, 1, i - 1)
           /\ i = Len(f) + 1 => SubSeq(f, 1, i - 1) = f
  OBVIOUS

\* A file that loads still does with the entry that follows it.
LEMMA LoadsOneMore ==
    ASSUME NEW f \in Seq(Line), loads(f), NEW e \in Entry,
           e.seq = Len(f) + 1, e.prev = lastHash(f)
    PROVE  loads(Append(f, e))
  <1> DEFINE g == Append(f, e)
  <1>1. /\ e \in Line /\ e # Torn /\ Len(f) \in Nat /\ DOMAIN f = 1..Len(f)
    BY EntryFields
  <1>2. /\ DOMAIN g = 1..(Len(f) + 1) /\ g[Len(f) + 1] = e
        /\ \A i \in 1..Len(f) : g[i] = f[i]
    BY <1>1, FileGrows
  <1>3. \A i \in 1..(Len(f) + 1) : /\ SubSeq(g, 1, i - 1) = SubSeq(f, 1, i - 1)
                                   /\ i = Len(f) + 1 => SubSeq(f, 1, i - 1) = f
    BY <1>1, PrefixKept
  <1> HIDE DEF g
  <1> SUFFICES ASSUME NEW i \in 1..(Len(f) + 1)
               PROVE  g[i] # Torn /\ g[i].seq = i /\ g[i].prev = lastHash(SubSeq(g, 1, i - 1))
    BY <1>2 DEF loads, g
  <1>4. CASE i = Len(f) + 1
    BY <1>1, <1>2, <1>3, <1>4
  <1>5. CASE i \in 1..Len(f)
    <2>1. g[i] = f[i] /\ f[i] # Torn /\ f[i].seq = i /\ f[i].prev = lastHash(SubSeq(f, 1, i - 1))
      BY <1>1, <1>2, <1>5 DEF loads
    <2> QED  BY <1>3, <2>1
  <1> QED  BY <1>1, <1>4, <1>5

LEMMA SoundStep ==
    ASSUME LogTyped, SoundInv, LogStep
    PROVE  SoundInv'
  <1>t. file \in Seq(Line) /\ entries \in Seq(Entry) /\ ioFaults \in Nat /\ up \in BOOLEAN
    BY DEF LogTyped
  <1>1. ASSUME NEW b \in Body, up, ioFaults = 0
        PROVE  loads(Append(file, newEntry(b)))
    <2>1. PICK e \in Entry : e = newEntry(b) /\ e.seq = Len(entries) + 1 /\ e.prev = lastHash(entries)
      BY NewEntryType
    <2>2. loads(file) /\ file = entries
      BY <1>1 DEF SoundInv
    <2>3. loads(Append(file, e))
      BY <1>t, <2>1, <2>2, LoadsOneMore
    <2> QED  BY <2>1, <2>3
  <1>2. ASSUME NEW b \in Body, AppendOK(b)
        PROVE  SoundInv'
    <2>1. /\ up /\ up' = up /\ ioFaults' = ioFaults /\ file' = Append(file, newEntry(b))
          /\ entries' = Append(entries, newEntry(b))
      BY <1>2 DEF AppendOK
    <2>2. ioFaults = 0 => loads(file') /\ file' = entries'
      BY <1>1, <2>1 DEF SoundInv
    <2> QED  BY <2>1, <2>2 DEF SoundInv
  <1>3. ASSUME NEW b \in Body, AppendFails(b)
        PROVE  SoundInv'
    BY <1>3, <1>t DEF AppendFails, SoundInv
  <1>4. ASSUME NEW S \in SUBSET Body, LogCrash(S)
        PROVE  SoundInv'
    <2>1. /\ up /\ up' = FALSE /\ ioFaults' = ioFaults
          /\ file' = file \/ \E b \in S : file' = Append(file, newEntry(b))
      BY <1>4 DEF LogCrash
    <2>2. ioFaults = 0 => loads(file')
      BY <1>1, <2>1 DEF SoundInv
    <2> QED  BY <2>1, <2>2 DEF SoundInv
  <1>5. CASE LogPowerLoss
    BY <1>5, <1>t DEF LogPowerLoss, SoundInv
  <1>6. CASE LogOpen
    BY <1>6 DEF LogOpen, SoundInv
  <1>7. CASE PublishRoot \/ UNCHANGED logVars
    <2>1. UNCHANGED <<file, entries, up, ioFaults>>
      BY <1>7 DEF PublishRoot, logVars
    <2> QED  BY <2>1 DEF SoundInv
  <1> QED  BY <1>2, <1>3, <1>4, <1>5, <1>6, <1>7 DEF LogStep

DurableInv == GateTyped /\ SurvivalInv /\ SoundInv

LEMMA DurableInit == Init => DurableInv /\ Follows
  <1> SUFFICES ASSUME Init
               PROVE  DurableInv /\ Follows
    OBVIOUS
  <1>1. GateTyped /\ LogTyped
    BY GateTypedInit DEF GateTyped
  <1>2. /\ file = <<>> /\ entries = <<>> /\ synced = 0 /\ acked = {} /\ up = TRUE
    BY DEF Init, LogInit
  <1>3. Follows /\ FlushedInv /\ HeldInv /\ SoundInv
    BY <1>2 DEF Follows, FlushedInv, HeldInv, SoundInv, loads
  <1> QED  BY <1>1, <1>3 DEF DurableInv, SurvivalInv

LEMMA DurableStep ==
    ASSUME DurableInv, [Next]_vars
    PROVE  DurableInv'
  <1>1. GateTyped' /\ LogStep
    BY GateTypedStep DEF DurableInv
  <1>2. SurvivalInv'
    BY <1>1, SurvivalStep DEF DurableInv
  <1>3. SoundInv'
    BY <1>1, SoundStep DEF DurableInv, GateTyped
  <1> QED  BY <1>1, <1>2, <1>3 DEF DurableInv

\* Every entry that Append returned is in every later run of the process, at
\* the number and over the hash it was returned with, and a crash alone
\* never leaves a file that the next start refuses: for any number of
\* requests, crashes, failed writes and losses of power (audit Append, load).
THEOREM AcknowledgedEntriesSurvive == Spec => []LogSurvives
  <1>1. Init => DurableInv
    BY DurableInit
  <1>2. DurableInv /\ [Next]_vars => DurableInv'
    BY DurableStep
  <1>3. DurableInv => LogSurvives
    <2> SUFFICES ASSUME DurableInv
                 PROVE  ReopensAfterCrash /\ AckedStays
      BY DEF LogSurvives
    <2>1. ReopensAfterCrash
      BY DEF DurableInv, SoundInv, ReopensAfterCrash
    <2>2. AckedStays
      BY DEF DurableInv, SurvivalInv, LogTyped, HeldInv, AckedStays
    <2> QED  BY <2>1, <2>2
  <1> QED  BY <1>1, <1>2, <1>3, PTL DEF Spec

\* The bodies of a log that an entry is added to.
LEMMA BodiesGrow ==
    ASSUME NEW es \in Seq(Entry), NEW e \in Entry
    PROVE  bodies(Append(es, e)) = Append(bodies(es), e.body)
  <1> DEFINE l == bodies(es)
             m == bodies(Append(es, e))
  <1>1. e.body \in Body /\ \A i \in 1..Len(es) : es[i].body \in Body
    BY EntryFields
  <1>2. l \in Seq(Body) /\ Len(l) = Len(es) /\ \A i \in 1..Len(es) : l[i] = es[i].body
    BY <1>1 DEF bodies
  <1>3. /\ m = [i \in 1..(Len(es) + 1) |-> Append(es, e)[i].body]
    BY DEF bodies
  <1>4. \A i \in 1..(Len(es) + 1) : m[i] = IF i = Len(es) + 1 THEN e.body ELSE l[i]
    BY <1>2, <1>3
  <1>5. Append(l, e.body) = [i \in 1..(Len(es) + 1) |-> IF i = Len(es) + 1 THEN e.body ELSE l[i]]
    BY <1>1, <1>2
  <1> QED  BY <1>3, <1>4, <1>5

\* To its readers the log is AppendOnly: a step adds one entry at the end,
\* publishes the log as it stands, or shows nothing, over any number of
\* crashes, failed and torn writes and losses of power, as long as power does
\* not fail while the log holds lines it recovered and has not flushed (audit
\* Append, load, PublishRoot).
THEOREM LogIsAppendOnly ==
    ASSUME ~PowerLossAfterRecovery
    PROVE  Spec => ImplementsAppendOnly
  <1> DEFINE I == GateTyped /\ FileInv
  <1>1. Init => I
    BY DurableInit DEF DurableInv, FileInv
  <1>2. I /\ [Next]_vars => I'
    BY GateTypedStep, FileStep
  <1>3. Init => AO!Init
    BY DEF Init, LogInit, AO!Init, bodies
  <1>4. I /\ [Next]_vars => [AO!Next]_AO!vars
    <2> SUFFICES ASSUME I, [Next]_vars
                 PROVE  [AO!Next]_AO!vars
      OBVIOUS
    <2>1. LogStep /\ FileInv /\ entries \in Seq(Entry)
      BY GateTypedStep DEF FileInv, SurvivalInv, LogTyped
    <2>2. CASE entries' = entries /\ (heads' = heads \/ heads' = heads \union {bodies(entries)})
      <3>1. bodies(entries)' = bodies(entries)
        BY <2>2 DEF bodies
      <3> QED  BY <2>2, <3>1 DEF AO!Next, AO!Publish, AO!vars
    <2>3. ASSUME NEW e \in Entry, entries' = Append(entries, e), heads' = heads
          PROVE  AO!Next
      <3>1. bodies(entries') = Append(bodies(entries), e.body)
        BY <2>1, <2>3, BodiesGrow
      <3>2. bodies(entries)' = Append(bodies(entries), e.body) /\ e.body \in Body
        BY <3>1, EntryFields DEF bodies
      <3> QED  BY <2>3, <3>2 DEF AO!Next, AO!Record
    <2> QED  BY <2>1, <2>2, <2>3, LogGrows
  <1> HIDE DEF I
  <1> QED  BY <1>1, <1>2, <1>3, <1>4, PTL DEF Spec, ImplementsAppendOnly, AO!Spec

-----------------------------------------------------------------------------
(***************************************************************************)
(* The tree over the log, for logs of every length.  A property of numbers *)
(* is given as the set of the numbers that have it, so that one lemma      *)
(* serves every induction over the rounds of a loop.                       *)
(***************************************************************************)

\* A set of numbers that is not empty has a least one.
LEMMA LeastNumber ==
    ASSUME NEW S \in SUBSET Nat, S # {}
    PROVE  \E m \in S : \A n \in S : m <= n
  <1>1. PICK m \in S : \A n \in S : ~ (<<n, m>> \in OpToRel(<, Nat))
    BY NatLessThanWellFounded, WFMin
  <1>2. \A n \in S : ~ (n < m)
    BY <1>1 DEF OpToRel
  <1> QED  BY <1>2

\* Induction, for a property given as the set of the numbers that have it.
LEMMA NumbersInSet ==
    ASSUME NEW S, 0 \in S, \A n \in Nat : n \in S => n + 1 \in S
    PROVE  \A n \in Nat : n \in S
  <1> SUFFICES ASSUME Nat \ S # {}
               PROVE  FALSE
    OBVIOUS
  <1>1. PICK m \in Nat \ S : \A n \in Nat \ S : m <= n
    BY LeastNumber
  <1>2. m - 1 \in Nat /\ m - 1 \notin Nat \ S
    BY <1>1
  <1> QED  BY <1>1, <1>2

\* The three loops of merkle.go and the three over JSON values, told apart by a
\* record: where loop p starts, and what its round n makes of x.
First(p) ==
    CASE p.loop = "layers" -> [i \in DOMAIN p.log |-> hashLeaf(p.log[i])]
      [] p.loop = "ascent" -> [path |-> <<>>, idx |-> p.index]
      [] p.loop = "gather" -> <<>>
      [] p.loop \in {"level", "inside"} -> {p.value}
      [] OTHER -> [h |-> hashLeaf(p.entry), idx |-> p.index, len |-> p.count, pi |-> 0, ok |-> TRUE]

Round(p, n, x) ==
    CASE p.loop = "layers" -> nextLayer(x)
      [] p.loop = "ascent" -> collect(layers(p.log)[n], x)
      [] p.loop = "gather" -> take(p.seq, p.keep, n + 1, x)
      [] p.loop = "level" -> childrenOf(x)
      [] p.loop = "inside" -> x \union childrenOf(x)
      [] OTHER -> climb(p.path, x)

\* g is what loop p computes in its first n rounds.
Rounds(p, n, g) == g = [j \in 0..n |-> IF j = 0 THEN First(p) ELSE Round(p, j - 1, g[j - 1])]

\* Every number of rounds can be run.
LEMMA RoundsExist ==
    ASSUME NEW p
    PROVE  \A n \in Nat : \E g : Rounds(p, n, g)
  <1> DEFINE S == {n \in Nat : \E g : Rounds(p, n, g)}
  <1>1. 0 \in S
    <2>1. Rounds(p, 0, [j \in 0..0 |-> First(p)])
      BY DEF Rounds
    <2> QED  BY <2>1
  <1>2. ASSUME NEW n \in Nat, n \in S
        PROVE  n + 1 \in S
    <2>1. PICK g : Rounds(p, n, g)
      BY <1>2
    <2> DEFINE h == [j \in 0..(n + 1) |-> IF j = n + 1 THEN Round(p, n, g[n]) ELSE g[j]]
    <2>2. \A j \in 0..(n + 1) : h[j] = IF j = 0 THEN First(p) ELSE Round(p, j - 1, h[j - 1])
      <3> SUFFICES ASSUME NEW j \in 0..(n + 1)
                   PROVE  h[j] = IF j = 0 THEN First(p) ELSE Round(p, j - 1, h[j - 1])
        OBVIOUS
      <3>1. CASE j = n + 1
        <4>1. h[j - 1] = g[n] /\ h[j] = Round(p, n, g[n]) /\ j - 1 = n /\ j # 0
          BY <3>1
        <4> QED  BY <4>1
      <3>2. CASE j # n + 1
        <4>1. j \in 0..n /\ h[j] = g[j] /\ (j # 0 => h[j - 1] = g[j - 1])
          BY <3>2
        <4> QED  BY <2>1, <4>1 DEF Rounds
      <3> QED  BY <3>1, <3>2
    <2>3. Rounds(p, n + 1, h)
      <3>1. h = [j \in 0..(n + 1) |-> h[j]]
        OBVIOUS
      <3> HIDE DEF h
      <3> QED  BY <2>2, <3>1 DEF Rounds
    <2> QED  BY <2>3
  <1>3. \A n \in Nat : n \in S
    <2> HIDE DEF S
    <2> QED  BY <1>1, <1>2, NumbersInSet
  <1> QED  BY <1>3

\* A longer run goes through the states of a shorter one.
LEMMA RoundsAgree ==
    ASSUME NEW p, NEW m \in Nat, NEW n \in Nat, NEW g, NEW h, Rounds(p, m, g), Rounds(p, n, h)
    PROVE  \A j \in Nat : j <= m /\ j <= n => g[j] = h[j]
  <1> DEFINE S == {j \in Nat : j <= m /\ j <= n => g[j] = h[j]}
  <1>1. 0 \in S
    BY DEF Rounds
  <1>2. ASSUME NEW j \in Nat, j \in S
        PROVE  j + 1 \in S
    <2> SUFFICES ASSUME j + 1 <= m, j + 1 <= n
                 PROVE  g[j + 1] = h[j + 1]
      OBVIOUS
    <2>1. /\ j + 1 \in 0..m /\ j + 1 \in 0..n /\ j + 1 # 0 /\ (j + 1) - 1 = j
          /\ g[j] = h[j]
      BY <1>2
    <2>2. g[j + 1] = Round(p, j, g[j]) /\ h[j + 1] = Round(p, j, h[j])
      BY <2>1 DEF Rounds
    <2> QED  BY <2>1, <2>2
  <1>3. \A j \in Nat : j \in S
    <2> HIDE DEF S
    <2> QED  BY <1>1, <1>2, NumbersInSet
  <1> QED  BY <1>3

\* Each loop computes a sequence of states.
LEMMA LoopRuns ==
    ASSUME NEW p
    PROVE  \E f : f = [k \in Nat |-> IF k = 0 THEN First(p) ELSE Round(p, k - 1, f[k - 1])]
  <1> DEFINE of(n) == CHOOSE g : Rounds(p, n, g)
             f == [k \in Nat |-> of(k)[k]]
  <1>1. \A n \in Nat : Rounds(p, n, of(n))
    BY RoundsExist
  <1> HIDE DEF of
  <1>2. ASSUME NEW k \in Nat
        PROVE  f[k] = IF k = 0 THEN First(p) ELSE Round(p, k - 1, f[k - 1])
    <2>1. Rounds(p, k, of(k)) /\ k \in 0..k
      BY <1>1
    <2>2. CASE k = 0
      BY <2>1, <2>2 DEF Rounds
    <2>3. CASE k # 0
      <3>1. k - 1 \in Nat /\ Rounds(p, k - 1, of(k - 1))
        BY <1>1, <2>3
      <3>2. of(k)[k - 1] = of(k - 1)[k - 1]
        BY <2>1, <3>1, RoundsAgree
      <3>3. of(k)[k] = Round(p, k - 1, of(k)[k - 1])
        BY <2>1, <2>3 DEF Rounds
      <3>4. f[k] = of(k)[k] /\ f[k - 1] = of(k - 1)[k - 1]
        BY <3>1
      <3> QED  BY <2>3, <3>2, <3>3, <3>4
    <2> QED  BY <2>2, <2>3
  <1>3. f = [k \in Nat |-> f[k]]
    OBVIOUS
  <1> HIDE DEF f
  <1>4. f = [k \in Nat |-> IF k = 0 THEN First(p) ELSE Round(p, k - 1, f[k - 1])]
    BY <1>2, <1>3
  <1> QED  BY <1>4

\* The loop of MerkleRoot.
LEMMA LayersUnfold ==
    ASSUME NEW a
    PROVE  /\ layers(a)[0] = [i \in DOMAIN a |-> hashLeaf(a[i])]
           /\ \A k \in Nat : layers(a)[k + 1] = nextLayer(layers(a)[k])
  <1> DEFINE p == [loop |-> "layers", log |-> a]
             all == layers(a)
  <1>1. First(p) = [i \in DOMAIN a |-> hashLeaf(a[i])] /\ \A n, x : Round(p, n, x) = nextLayer(x)
    BY DEF First, Round
  <1>2. PICK f : f = [k \in Nat |-> IF k = 0 THEN First(p) ELSE Round(p, k - 1, f[k - 1])]
    BY LoopRuns
  <1>3. f = [k \in Nat |-> IF k = 0 THEN [i \in DOMAIN a |-> hashLeaf(a[i])] ELSE nextLayer(f[k - 1])]
    BY <1>1, <1>2
  <1>4. all = [k \in Nat |-> IF k = 0 THEN [i \in DOMAIN a |-> hashLeaf(a[i])] ELSE nextLayer(all[k - 1])]
    BY <1>3 DEF layers
  <1> HIDE DEF all
  <1>5. \A k \in Nat : k + 1 \in Nat /\ k + 1 # 0 /\ (k + 1) - 1 = k
    OBVIOUS
  <1>6. all[0] = [i \in DOMAIN a |-> hashLeaf(a[i])] /\ \A k \in Nat : all[k + 1] = nextLayer(all[k])
    BY <1>4, <1>5
  <1> QED  BY <1>6 DEF all

\* The layers of log a: the length of layer k, and its nodes, counted from 1.
width(a, k) == Len(layers(a)[k])
node(a, k, i) == layers(a)[k][i]

\* The tags tell a leaf, an interior node and the empty log apart, and a hash
\* has one preimage.
LEMMA HashesApart ==
    \A x, y, l, r, m, s : /\ hashLeaf(x) = hashLeaf(y) => x = y
                          /\ hashInterior(l, r) = hashInterior(m, s) => l = m /\ r = s
                          /\ hashLeaf(x) # hashInterior(l, r)
                          /\ hashLeaf(x) # <<"empty">> /\ hashInterior(l, r) # <<"empty">>
  BY DEF hashLeaf, hashInterior

\* A function on 1..n has length n.
LEMMA LengthOf ==
    ASSUME NEW n \in Nat, NEW f, f = [i \in 1..n |-> f[i]]
    PROVE  Len(f) = n
  <1>1. f \in Seq({f[i] : i \in 1..n})
    OBVIOUS
  <1> QED  BY <1>1

\* A layer is a sequence with half the nodes of the one below, rounded up.
LEMMA LayerShape ==
    ASSUME NEW V, NEW a \in Seq(V), a # <<>>
    PROVE  /\ width(a, 0) = Len(a) /\ \A i \in 1..Len(a) : node(a, 0, i) = hashLeaf(a[i])
           /\ \A k \in Nat :
                 /\ width(a, k) \in Nat \ {0}
                 /\ layers(a)[k] = [i \in 1..width(a, k) |-> node(a, k, i)]
                 /\ width(a, k + 1) = (width(a, k) + 1) \div 2
  <1> DEFINE S == {k \in Nat : /\ width(a, k) \in Nat \ {0}
                               /\ layers(a)[k] = [i \in 1..width(a, k) |-> node(a, k, i)]}
             l0 == layers(a)[0]
  <1>1. Len(a) \in Nat \ {0} /\ DOMAIN a = 1..Len(a)
    BY EmptySeq
  <1>2. l0 = [i \in 1..Len(a) |-> hashLeaf(a[i])]
    BY <1>1, LayersUnfold
  <1>3. Len(l0) = Len(a)
    <2> HIDE DEF l0
    <2>1. l0 = [i \in 1..Len(a) |-> l0[i]]
      BY <1>2
    <2> QED  BY <1>1, <2>1, LengthOf
  <1>4. 0 \in S
    BY <1>1, <1>2, <1>3 DEF width, node
  <1>5. ASSUME NEW k \in Nat, k \in S
        PROVE  /\ k + 1 \in S /\ width(a, k + 1) = (width(a, k) + 1) \div 2
    <2> DEFINE w == (width(a, k) + 1) \div 2
               l == layers(a)[k]
               u == layers(a)[k + 1]
    <2>0. width(a, k) \in Nat \ {0}
      BY <1>5
    <2>1. w \in Nat \ {0} /\ Len(l) = width(a, k)
      <3>1. w \in Nat \ {0}
        BY <2>0
      <3> QED  BY <3>1 DEF width
    <2>2. u = nextLayer(l)
      BY LayersUnfold
    <2>3. u = [i \in 1..w |-> IF 2 * i <= Len(l) THEN hashInterior(l[2 * i - 1], l[2 * i])
                               ELSE l[2 * i - 1]]
      BY <2>1, <2>2 DEF nextLayer
    <2> HIDE DEF u, w, l
    <2>4. u = [i \in 1..w |-> u[i]]
      BY <2>3
    <2>5. Len(u) = w
      BY <2>1, <2>4, LengthOf
    <2>6. width(a, k + 1) = w
      BY <2>5 DEF u, width
    <2>7. layers(a)[k + 1] = [i \in 1..width(a, k + 1) |-> node(a, k + 1, i)]
      BY <2>4, <2>6 DEF u, node
    <2> QED  BY <2>1, <2>6, <2>7 DEF w
  <1>6. \A k \in Nat : k \in S
    <2> HIDE DEF S
    <2> QED  BY <1>4, <1>5, NumbersInSet
  <1> QED  BY <1>2, <1>3, <1>5, <1>6 DEF width, node

\* The same facts one by one, as the proofs below cite them.
LEMMA Width ==
    ASSUME NEW V, NEW a \in Seq(V), a # <<>>
    PROVE  \A k \in Nat : width(a, k) \in Nat /\ width(a, k) >= 1
  <1>1. \A k \in Nat : width(a, k) \in Nat \ {0}
    BY LayerShape
  <1> QED  BY <1>1

LEMMA Halves ==
    ASSUME NEW V, NEW a \in Seq(V), a # <<>>, NEW k \in Nat
    PROVE  width(a, k + 1) = (width(a, k) + 1) \div 2
  BY LayerShape

LEMMA Nodes ==
    ASSUME NEW V, NEW a \in Seq(V), a # <<>>, NEW k \in Nat
    PROVE  layers(a)[k] = [i \in 1..width(a, k) |-> node(a, k, i)]
  BY LayerShape

LEMMA Leaves ==
    ASSUME NEW V, NEW a \in Seq(V), a # <<>>
    PROVE  width(a, 0) = Len(a) /\ \A i \in 1..Len(a) : node(a, 0, i) = hashLeaf(a[i])
  BY LayerShape

\* What is above what.
LEMMA NodeAbove ==
    ASSUME NEW V, NEW a \in Seq(V), a # <<>>, NEW k \in Nat, NEW i \in 1..width(a, k + 1)
    PROVE  \/ /\ 2 * i <= width(a, k)
              /\ node(a, k + 1, i) = hashInterior(node(a, k, 2 * i - 1), node(a, k, 2 * i))
           \/ /\ 2 * i - 1 = width(a, k)
              /\ node(a, k + 1, i) = node(a, k, 2 * i - 1)
  <1> DEFINE w == width(a, k)
             l == layers(a)[k]
  <1>1. w \in Nat \ {0} /\ width(a, k + 1) = (w + 1) \div 2
    BY LayerShape
  <1>2. layers(a)[k + 1] = nextLayer(l) /\ Len(l) = w
    BY LayersUnfold DEF width
  <1> HIDE DEF l, w
  <1>3. i \in 1..((w + 1) \div 2)
    BY <1>1
  <1>4. nextLayer(l)[i] = IF 2 * i <= w THEN hashInterior(l[2 * i - 1], l[2 * i]) ELSE l[2 * i - 1]
    BY <1>2, <1>3 DEF nextLayer
  <1>5. 2 * i <= w \/ 2 * i - 1 = w
    BY <1>1, <1>3
  <1>6. 2 * i - 1 = w => ~(2 * i <= w)
    BY <1>1, <1>3
  <1> QED  BY <1>2, <1>4, <1>5, <1>6 DEF node, l, w

\* Halving ends in a layer of one node.
LEMMA OneAtLast ==
    ASSUME NEW V, NEW a \in Seq(V), a # <<>>
    PROVE  \A k \in Nat : k >= Len(a) => width(a, k) = 1
  <1> DEFINE S == {k \in Nat : width(a, k) = 1 \/ width(a, k) + k <= Len(a)}
  <1>1. Len(a) \in Nat \ {0}
    BY EmptySeq
  <1>2. 0 \in S
    BY <1>1, LayerShape
  <1>3. ASSUME NEW k \in Nat, k \in S
        PROVE  k + 1 \in S
    <2>1. width(a, k) \in Nat \ {0} /\ width(a, k + 1) = (width(a, k) + 1) \div 2
      BY LayerShape
    <2> QED  BY <1>1, <1>3, <2>1
  <1>4. \A k \in Nat : k \in S
    <2> HIDE DEF S
    <2> QED  BY <1>2, <1>3, NumbersInSet
  <1>5. \A k \in Nat : width(a, k) \in Nat \ {0}
    BY LayerShape
  <1> QED  BY <1>1, <1>4, <1>5

\* The node that is left is the root, however often the loop runs on.
LEMMA RootStays ==
    ASSUME NEW V, NEW a \in Seq(V), a # <<>>
    PROVE  \A k \in Nat : k >= Len(a) => node(a, k, 1) = MerkleRoot(a)
  <1> DEFINE S == {j \in Nat : node(a, Len(a) + j, 1) = MerkleRoot(a)}
  <1>1. Len(a) \in Nat \ {0}
    BY EmptySeq
  <1>2. 0 \in S
    BY <1>1 DEF MerkleRoot, node
  <1>3. ASSUME NEW j \in Nat, j \in S
        PROVE  j + 1 \in S
    <2>1. PICK k \in Nat : k = Len(a) + j
      BY <1>1
    <2>2. width(a, k) = 1 /\ width(a, k + 1) = 1
      BY <1>1, <2>1, OneAtLast
    <2>3. 1 \in 1..width(a, k + 1)
      BY <2>2
    <2>4. node(a, k + 1, 1) = node(a, k, 2 * 1 - 1)
      BY <2>2, <2>3, NodeAbove
    <2>5. Len(a) + (j + 1) = k + 1 /\ node(a, k, 1) = MerkleRoot(a)
      BY <1>1, <1>3, <2>1
    <2> QED  BY <2>4, <2>5
  <1>4. \A j \in Nat : j \in S
    <2> HIDE DEF S
    <2> QED  BY <1>2, <1>3, NumbersInSet
  <1> SUFFICES ASSUME NEW k \in Nat, k >= Len(a)
               PROVE  node(a, k, 1) = MerkleRoot(a)
    OBVIOUS
  <1>5. k - Len(a) \in Nat /\ Len(a) + (k - Len(a)) = k
    BY <1>1
  <1> QED  BY <1>4, <1>5

\* A node that was hashed in round k of the loop over a is none of the nodes
\* of an earlier round over b: it is taller on the left.
LEMMA Taller ==
    ASSUME NEW V, NEW a \in Seq(V), NEW b \in Seq(V), a # <<>>, b # <<>>
    PROVE  \A k \in Nat : \A i \in 1..width(a, k) :
              (k # 0 => 2 * i <= width(a, k - 1)) =>
                  \A j \in Nat : j < k => \A n \in 1..width(b, j) : node(a, k, i) # node(b, j, n)
  <1> DEFINE Apart(k, j) ==
                 \A i \in 1..width(a, k) : (k # 0 => 2 * i <= width(a, k - 1)) =>
                     \A n \in 1..width(b, j) : node(a, k, i) # node(b, j, n)
             S == {k \in Nat : \A j \in Nat : j < k => Apart(k, j)}
  <1>w. \A k \in Nat : /\ width(a, k) \in Nat /\ width(a, k + 1) \in Nat
                       /\ width(b, k) \in Nat /\ width(b, k + 1) \in Nat
    <2>1. \A k \in Nat : width(a, k) \in Nat /\ width(b, k) \in Nat
      BY Width
    <2>2. \A k \in Nat : k + 1 \in Nat
      OBVIOUS
    <2> QED  BY <2>1, <2>2, Zenon
  <1>1. 0 \in S
    OBVIOUS
  <1>2. ASSUME NEW k \in Nat, k \in S
        PROVE  k + 1 \in S
    <2> DEFINE T == {j \in Nat : j < k + 1 => Apart(k + 1, j)}
    <2>0. width(a, k) \in Nat /\ width(a, k + 1) \in Nat
      BY <1>w
    \* The left half of a hashed node is a hashed node of the round before.
    <2>1. ASSUME NEW i \in 1..width(a, k + 1), 2 * i <= width(a, k)
          PROVE  /\ node(a, k + 1, i) = hashInterior(node(a, k, 2 * i - 1), node(a, k, 2 * i))
                 /\ 2 * i - 1 \in 1..width(a, k)
                 /\ k # 0 => 2 * (2 * i - 1) <= width(a, k - 1)
      <3>1. node(a, k + 1, i) = hashInterior(node(a, k, 2 * i - 1), node(a, k, 2 * i))
        <4>1. i \in Nat /\ width(a, k) \in Nat
          BY <2>0
        <4>2. ~(2 * i - 1 = width(a, k))
          BY <2>1, <4>1
        <4> QED  BY <4>2, NodeAbove
      <3>2. i \in Nat /\ i >= 1 /\ width(a, k) \in Nat
        BY <2>0
      <3>3. ASSUME k # 0
            PROVE  2 * (2 * i - 1) <= width(a, k - 1)
        <4>1. k - 1 \in Nat /\ (k - 1) + 1 = k
          BY <3>3
        <4>2. width(a, k) = (width(a, k - 1) + 1) \div 2 /\ width(a, k - 1) \in Nat
          BY <4>1, Halves, Width
        <4> QED  BY <2>1, <3>2, <4>2
      <3> QED  BY <2>1, <3>1, <3>2, <3>3
    <2>2. 0 \in T
      <3> SUFFICES ASSUME NEW i \in 1..width(a, k + 1), 2 * i <= width(a, k), NEW n \in 1..width(b, 0)
                   PROVE  node(a, k + 1, i) # node(b, 0, n)
        OBVIOUS
      <3>1. node(b, 0, n) = hashLeaf(b[n])
        BY Leaves
      <3> QED  BY <2>1, <3>1, HashesApart
    <2>3. ASSUME NEW j \in Nat, j \in T
          PROVE  j + 1 \in T
      <3> SUFFICES ASSUME j + 1 < k + 1, NEW i \in 1..width(a, k + 1), 2 * i <= width(a, k),
                          NEW n \in 1..width(b, j + 1)
                   PROVE  node(a, k + 1, i) # node(b, j + 1, n)
        OBVIOUS
      <3>1. j < k + 1 /\ j < k /\ k + 1 # 0 /\ (k + 1) - 1 = k
        OBVIOUS
      <3>2. Apart(k + 1, j) /\ Apart(k, j)
        BY <1>2, <2>3, <3>1
      <3>3. n \in Nat /\ n >= 1 /\ width(b, j) \in Nat
        <4>1. width(b, j) \in Nat /\ width(b, j + 1) \in Nat
          BY <1>w
        <4> QED  BY <4>1
      <3>4. CASE /\ 2 * n <= width(b, j)
                 /\ node(b, j + 1, n) = hashInterior(node(b, j, 2 * n - 1), node(b, j, 2 * n))
        <4>1. 2 * n - 1 \in 1..width(b, j)
          BY <3>3, <3>4
        <4>2. /\ node(a, k + 1, i) = hashInterior(node(a, k, 2 * i - 1), node(a, k, 2 * i))
              /\ 2 * i - 1 \in 1..width(a, k)
              /\ k # 0 => 2 * (2 * i - 1) <= width(a, k - 1)
          BY <2>1
        <4>3. node(a, k, 2 * i - 1) # node(b, j, 2 * n - 1)
          BY <3>2, <4>1, <4>2
        <4> QED  BY <3>4, <4>2, <4>3, HashesApart
      <3>5. CASE 2 * n - 1 = width(b, j) /\ node(b, j + 1, n) = node(b, j, 2 * n - 1)
        <4>1. 2 * n - 1 \in 1..width(b, j)
          BY <3>3, <3>5
        <4> QED  BY <3>1, <3>2, <3>5, <4>1
      <3> QED  BY <3>4, <3>5, NodeAbove
    <2>4. \A j \in Nat : j \in T
      <3> HIDE DEF T
      <3> QED  BY <2>2, <2>3, NumbersInSet
    <2> QED  BY <2>4
  <1>3. \A k \in Nat : k \in S
    <2> HIDE DEF S
    <2> QED  BY <1>1, <1>2, NumbersInSet
  <1> QED  BY <1>3

\* Of two logs whose layers are equal, none has one node less below.
LEMMA WidthsBelow ==
    ASSUME NEW V, NEW a \in Seq(V), NEW b \in Seq(V), a # <<>>, b # <<>>,
           NEW k \in Nat, layers(a)[k + 1] = layers(b)[k + 1]
    PROVE  ~(width(a, k) = width(b, k) + 1)
  <1> SUFFICES ASSUME width(a, k) = width(b, k) + 1
               PROVE  FALSE
    OBVIOUS
  <1>1. width(a, k) \in Nat /\ width(b, k) \in Nat /\ width(b, k) >= 1
    BY Width
  <1>2. PICK m \in Nat : m = width(a, k + 1) /\ m >= 1
    BY Width
  <1>3. 2 * m = width(a, k) /\ 2 * m - 1 = width(b, k) /\ m = width(b, k + 1)
    <2>1. m = width(b, k + 1)
      BY <1>2 DEF width
    <2>2. m = (width(a, k) + 1) \div 2 /\ m = (width(b, k) + 1) \div 2
      BY <1>2, <2>1, Halves
    <2> QED  BY <1>1, <1>2, <2>1, <2>2
  <1>4. m \in 1..width(a, k + 1) /\ m \in 1..width(b, k + 1) /\ 2 * m - 1 \in 1..width(b, k)
    BY <1>1, <1>2, <1>3
  <1>5. node(b, k + 1, m) = node(b, k, 2 * m - 1)
    BY <1>1, <1>3, <1>4, NodeAbove
  <1>6. k + 1 # 0 /\ (k + 1) - 1 = k /\ k < k + 1 /\ k + 1 \in Nat /\ 2 * m <= width(a, k)
    BY <1>1, <1>3
  <1>7. node(a, k + 1, m) # node(b, k, 2 * m - 1)
    BY <1>4, <1>6, Taller
  <1> QED  BY <1>5, <1>7 DEF node

\* A layer determines the one below.
LEMMA LayersDescend ==
    ASSUME NEW V, NEW a \in Seq(V), NEW b \in Seq(V), a # <<>>, b # <<>>,
           NEW k \in Nat, layers(a)[k + 1] = layers(b)[k + 1]
    PROVE  layers(a)[k] = layers(b)[k]
  <1>0. width(a, k + 1) = width(b, k + 1)
    BY DEF width
  <1>1. /\ width(a, k) \in Nat /\ width(a, k + 1) = (width(a, k) + 1) \div 2
        /\ width(b, k) \in Nat /\ width(b, k + 1) = (width(b, k) + 1) \div 2
    BY Width, Halves
  <1>2. width(a, k) = width(b, k)
    <2>1. width(a, k) # width(b, k) + 1 /\ width(b, k) # width(a, k) + 1
      BY WidthsBelow
    <2>2. \A m, n \in Nat : (m + 1) \div 2 = (n + 1) \div 2 => m = n \/ m = n + 1 \/ n = m + 1
      OBVIOUS
    <2> QED  BY <1>0, <1>1, <2>1, <2>2
  <1>3. ASSUME NEW p \in 1..width(a, k)
        PROVE  node(a, k, p) = node(b, k, p)
    <2>1. PICK i \in Nat : i = (p + 1) \div 2
      BY <1>1
    <2>2. i \in 1..width(a, k + 1) /\ i \in 1..width(b, k + 1) /\ (p = 2 * i \/ p = 2 * i - 1)
      BY <1>0, <1>1, <1>2, <2>1
    <2>3. node(a, k + 1, i) = node(b, k + 1, i)
      BY DEF node
    <2>4. CASE 2 * i <= width(a, k)
      <3>1. ~(2 * i - 1 = width(a, k)) /\ ~(2 * i - 1 = width(b, k))
        BY <1>1, <1>2, <2>1, <2>4
      <3>2. /\ node(a, k + 1, i) = hashInterior(node(a, k, 2 * i - 1), node(a, k, 2 * i))
            /\ node(b, k + 1, i) = hashInterior(node(b, k, 2 * i - 1), node(b, k, 2 * i))
        BY <2>2, <3>1, NodeAbove
      <3>3. /\ node(a, k, 2 * i - 1) = node(b, k, 2 * i - 1)
            /\ node(a, k, 2 * i) = node(b, k, 2 * i)
        BY <2>3, <3>2, HashesApart
      <3> QED  BY <2>2, <3>3
    <2>5. CASE ~(2 * i <= width(a, k))
      <3>1. p = 2 * i - 1
        BY <1>1, <2>1, <2>2, <2>5
      <3>2. node(a, k + 1, i) = node(a, k, 2 * i - 1) /\ node(b, k + 1, i) = node(b, k, 2 * i - 1)
        BY <1>2, <2>2, <2>5, NodeAbove
      <3> QED  BY <2>3, <3>1, <3>2
    <2> QED  BY <2>4, <2>5
  <1>4. /\ layers(a)[k] = [i \in 1..width(a, k) |-> node(a, k, i)]
        /\ layers(b)[k] = [i \in 1..width(a, k) |-> node(b, k, i)]
    BY <1>2, Nodes
  <1> QED  BY <1>3, <1>4

\* No log but the empty one has the root of the empty one.
LEMMA NodeIsHash ==
    ASSUME NEW V, NEW a \in Seq(V), a # <<>>
    PROVE  MerkleRoot(a) # <<"empty">>
  <1> DEFINE S == {k \in Nat : \A i \in 1..width(a, k) : node(a, k, i) # <<"empty">>}
  <1>1. 0 \in S
    BY Leaves, HashesApart
  <1>2. ASSUME NEW k \in Nat, k \in S
        PROVE  k + 1 \in S
    <2> SUFFICES ASSUME NEW i \in 1..width(a, k + 1)
                 PROVE  node(a, k + 1, i) # <<"empty">>
      OBVIOUS
    <2>1. CASE 2 * i - 1 = width(a, k) /\ node(a, k + 1, i) = node(a, k, 2 * i - 1)
      <3>1. 2 * i - 1 \in 1..width(a, k)
        BY <2>1, Width
      <3> QED  BY <1>2, <2>1, <3>1
    <2>2. CASE node(a, k + 1, i) = hashInterior(node(a, k, 2 * i - 1), node(a, k, 2 * i))
      BY <2>2, HashesApart
    <2> QED  BY <2>1, <2>2, NodeAbove
  <1>3. \A k \in Nat : k \in S
    <2> HIDE DEF S
    <2> QED  BY <1>1, <1>2, NumbersInSet
  <1>4. Len(a) \in Nat /\ width(a, Len(a)) = 1 /\ node(a, Len(a), 1) = MerkleRoot(a)
    BY OneAtLast, RootStays
  <1>5. Len(a) \in S /\ 1 \in 1..width(a, Len(a))
    BY <1>3, <1>4
  <1> QED  BY <1>4, <1>5

\* The root commits to the log, its length included, for logs of any length:
\* the tags of leaves and interior nodes and the promotion of an unpaired node
\* leave no second log with the same root (audit merkle.go MerkleRoot).
THEOREM RootsCommitToLogs ==
    ASSUME NEW V, NEW a \in Seq(V), NEW b \in Seq(V)
    PROVE  RootCommits(a, b)
  <1> SUFFICES ASSUME MerkleRoot(a) = MerkleRoot(b)
               PROVE  a = b
    BY DEF RootCommits
  <1>1. CASE a = <<>> \/ b = <<>>
    BY <1>1, NodeIsHash DEF MerkleRoot
  <1>2. CASE a # <<>> /\ b # <<>>
    <2> DEFINE K == Len(a) + Len(b)
               S == {j \in Nat : j <= K => layers(a)[K - j] = layers(b)[K - j]}
    <2>1. Len(a) \in Nat /\ Len(b) \in Nat /\ K \in Nat /\ K >= Len(a) /\ K >= Len(b)
      OBVIOUS
    <2> HIDE DEF K
    <2>2. layers(a)[K] = layers(b)[K]
      <3>1. /\ width(a, K) = 1 /\ node(a, K, 1) = MerkleRoot(a)
            /\ width(b, K) = 1 /\ node(b, K, 1) = MerkleRoot(b)
        BY <1>2, <2>1, OneAtLast, RootStays
      <3>2. /\ layers(a)[K] = [i \in 1..1 |-> node(a, K, i)]
            /\ layers(b)[K] = [i \in 1..1 |-> node(b, K, i)]
        <4>1. /\ layers(a)[K] = [i \in 1..width(a, K) |-> node(a, K, i)]
              /\ layers(b)[K] = [i \in 1..width(b, K) |-> node(b, K, i)]
          BY <1>2, <2>1, Nodes
        <4> QED  BY <3>1, <4>1
      <3>3. \A i \in 1..1 : node(a, K, i) = node(b, K, i)
        BY <3>1
      <3> QED  BY <3>2, <3>3
    <2>3. 0 \in S
      BY <2>1, <2>2
    <2>4. ASSUME NEW j \in Nat, j \in S
          PROVE  j + 1 \in S
      <3> SUFFICES ASSUME j + 1 <= K
                   PROVE  layers(a)[K - (j + 1)] = layers(b)[K - (j + 1)]
        OBVIOUS
      <3>1. PICK k \in Nat : k = K - (j + 1) /\ k + 1 = K - j
        BY <2>1
      <3>2. layers(a)[k + 1] = layers(b)[k + 1]
        BY <2>1, <2>4, <3>1
      <3> QED  BY <1>2, <3>1, <3>2, LayersDescend
    <2>5. \A j \in Nat : j \in S
      <3> HIDE DEF S
      <3> QED  BY <2>3, <2>4, NumbersInSet
    <2>6. layers(a)[0] = layers(b)[0]
      <3>1. K \in S /\ K <= K /\ K - K = 0
        BY <2>1, <2>5
      <3> QED  BY <3>1
    <2>7. Len(a) = Len(b)
      <3>1. width(a, 0) = Len(a) /\ width(b, 0) = Len(b)
        BY <1>2, Leaves
      <3> QED  BY <2>6, <3>1 DEF width
    <2>8. \A i \in 1..Len(a) : a[i] = b[i]
      <3>1. \A i \in 1..Len(a) : node(a, 0, i) = hashLeaf(a[i]) /\ node(b, 0, i) = hashLeaf(b[i])
        BY <1>2, <2>7, Leaves
      <3>2. \A i \in 1..Len(a) : node(a, 0, i) = node(b, 0, i)
        BY <2>6 DEF node
      <3> QED  BY <3>1, <3>2, HashesApart
    <2> QED  BY <2>7, <2>8
  <1> QED  BY <1>1, <1>2

\* A receipt that verifies against a published head is in the published log.
LEMMA ReceiptsProven ==
    ASSUME NEW V, NEW a \in Seq(V), NEW b \in Seq(V)
    PROVE  ReceiptProven(a, b, V)
  <1> SUFFICES ASSUME NEW v \in V, receiptverify(v, a, MerkleRoot(b), Len(b))
               PROVE  \E i \in DOMAIN b : b[i] = v
    BY DEF ReceiptProven
  <1>1. PICK x \in 0..(Len(a) - 1) :
            /\ a[x + 1] = v /\ Len(b) <= Len(a) /\ x < Len(b)
            /\ MerkleRoot(SubSeq(a, 1, Len(b))) = MerkleRoot(b)
    BY DEF receiptverify
  <1>2. Len(a) \in Nat /\ Len(b) \in Nat
    OBVIOUS
  <1>3. /\ SubSeq(a, 1, Len(b)) \in Seq(V)
        /\ \A i \in 1..Len(b) : SubSeq(a, 1, Len(b))[i] = a[i]
    BY <1>1, <1>2
  <1>4. SubSeq(a, 1, Len(b)) = b
    BY <1>1, <1>3, RootsCommitToLogs DEF RootCommits
  <1>5. x + 1 \in 1..Len(b) /\ DOMAIN b = 1..Len(b)
    BY <1>1, <1>2
  <1> QED  BY <1>1, <1>3, <1>4, <1>5

\* The loop of MerkleProof.
Collects(at, a, x) ==
    /\ at[0] = [path |-> <<>>, idx |-> x]
    /\ \A k \in Nat : at[k + 1] = collect(layers(a)[k], at[k])

LEMMA AscentUnfold ==
    ASSUME NEW a, NEW x, NEW at, at = ascent(a, x)
    PROVE  Collects(at, a, x)
  <1> DEFINE p == [loop |-> "ascent", log |-> a, index |-> x]
  <1>1. First(p) = [path |-> <<>>, idx |-> x] /\ \A n, y : Round(p, n, y) = collect(layers(a)[n], y)
    BY DEF First, Round
  <1>2. PICK f : f = [k \in Nat |-> IF k = 0 THEN First(p) ELSE Round(p, k - 1, f[k - 1])]
    BY LoopRuns
  <1>3. f = [k \in Nat |-> IF k = 0 THEN [path |-> <<>>, idx |-> x]
                            ELSE collect(layers(a)[k - 1], f[k - 1])]
    BY <1>1, <1>2
  <1>4. at = [k \in Nat |-> IF k = 0 THEN [path |-> <<>>, idx |-> x]
                             ELSE collect(layers(a)[k - 1], at[k - 1])]
    BY <1>3 DEF ascent
  <1>5. \A k \in Nat : k + 1 \in Nat /\ k + 1 # 0 /\ (k + 1) - 1 = k
    OBVIOUS
  <1>6. at[0] = [path |-> <<>>, idx |-> x] /\ \A k \in Nat : at[k + 1] = collect(layers(a)[k], at[k])
    BY <1>4, <1>5
  <1> QED  BY <1>6 DEF Collects

\* The loop of VerifyInclusion.
AtLeaf(v, x, n) == [h |-> hashLeaf(v), idx |-> x, len |-> n, pi |-> 0, ok |-> TRUE]

Climbs(c, v, x, n, way) == c[0] = AtLeaf(v, x, n) /\ \A k \in Nat : c[k + 1] = climb(way, c[k])

LEMMA ClimbingUnfold ==
    ASSUME NEW v, NEW x, NEW n, NEW way, NEW c, c = climbing(v, x, n, way)
    PROVE  Climbs(c, v, x, n, way)
  <1> DEFINE p == [loop |-> "climbing", entry |-> v, index |-> x, count |-> n, path |-> way]
             s0 == AtLeaf(v, x, n)
  <1>1. First(p) = s0 /\ \A m, y : Round(p, m, y) = climb(way, y)
    BY DEF First, Round, AtLeaf
  <1>2. PICK f : f = [k \in Nat |-> IF k = 0 THEN First(p) ELSE Round(p, k - 1, f[k - 1])]
    BY LoopRuns
  <1>3. f = [k \in Nat |-> IF k = 0 THEN s0 ELSE climb(way, f[k - 1])]
    BY <1>1, <1>2
  <1>4. c = [k \in Nat |-> IF k = 0 THEN s0 ELSE climb(way, c[k - 1])]
    BY <1>3 DEF climbing, AtLeaf
  <1> HIDE DEF s0
  <1>5. \A k \in Nat : k + 1 \in Nat /\ k + 1 # 0 /\ (k + 1) - 1 = k
    OBVIOUS
  <1>6. c[0] = s0 /\ \A k \in Nat : c[k + 1] = climb(way, c[k])
    BY <1>4, <1>5
  <1> QED  BY <1>6 DEF s0, Climbs

\* The states of VerifyInclusion, and what one round makes of them.
Fields(s) == s = [f \in {"h", "idx", "len", "pi", "ok"} |-> s[f]]

LEMMA ClimbRound ==
    ASSUME NEW way, NEW s, Fields(s), NEW t, t = climb(way, s)
    PROVE  /\ Fields(t)
           /\ t.ok => s.ok
           /\ s.len <= 1 => t = s
           /\ ~(s.len <= 1) /\ t.ok =>
                /\ t.idx = s.idx \div 2 /\ t.len = (s.len + 1) \div 2
                /\ promoted(s.idx, s.len) => t.h = s.h /\ t.pi = s.pi
                /\ ~promoted(s.idx, s.len) =>
                      /\ t.pi = s.pi + 1
                      /\ s.idx % 2 = 0 => t.h = hashInterior(s.h, way[s.pi + 1])
                      /\ s.idx % 2 # 0 => t.h = hashInterior(way[s.pi + 1], s.h)
           /\ s.ok /\ (s.len <= 1 \/ promoted(s.idx, s.len) \/ ~(s.pi >= Len(way))) => t.ok
  <1>1. CASE s.len <= 1 \/ ~s.ok
    BY <1>1 DEF climb
  <1>2. CASE ~(s.len <= 1 \/ ~s.ok) /\ promoted(s.idx, s.len)
    <2>1. t = [s EXCEPT !.idx = s.idx \div 2, !.len = (s.len + 1) \div 2]
      BY <1>2 DEF climb
    <2>2. Fields(t) /\ t.ok = s.ok /\ t.h = s.h /\ t.pi = s.pi
      BY <2>1 DEF Fields
    <2>3. t.idx = s.idx \div 2 /\ t.len = (s.len + 1) \div 2
      BY <2>1 DEF Fields
    <2> QED  BY <1>2, <2>2, <2>3
  <1>3. CASE ~(s.len <= 1 \/ ~s.ok) /\ ~promoted(s.idx, s.len) /\ s.pi >= Len(way)
    <2>1. t = [s EXCEPT !.ok = FALSE]
      BY <1>3 DEF climb
    <2>2. Fields(t) /\ t.ok = FALSE
      BY <2>1 DEF Fields
    <2> QED  BY <1>3, <2>2
  <1>4. CASE ~(s.len <= 1 \/ ~s.ok) /\ ~promoted(s.idx, s.len) /\ ~(s.pi >= Len(way))
    <2> DEFINE g == IF s.idx % 2 = 0 THEN hashInterior(s.h, way[s.pi + 1])
                    ELSE hashInterior(way[s.pi + 1], s.h)
    <2>1. t = [s EXCEPT !.idx = s.idx \div 2, !.len = (s.len + 1) \div 2, !.pi = s.pi + 1, !.h = g]
      BY <1>4 DEF climb
    <2> HIDE DEF g
    <2>2. Fields(t) /\ t.ok = s.ok /\ t.h = g
      BY <2>1 DEF Fields
    <2>3. t.idx = s.idx \div 2 /\ t.len = (s.len + 1) \div 2 /\ t.pi = s.pi + 1
      BY <2>1 DEF Fields
    <2> QED  BY <1>4, <2>2, <2>3 DEF g
  <1> QED  BY <1>1, <1>2, <1>3, <1>4

\* While it has not failed, VerifyInclusion is on a node of the layer it has
\* counted itself to.
LEMMA ClimbOnLayer ==
    ASSUME NEW V, NEW a \in Seq(V), a # <<>>, NEW x \in Nat, x < Len(a), NEW v, NEW way,
           NEW c, c = climbing(v, x, Len(a), way)
    PROVE  \A k \in Nat : /\ Fields(c[k])
                          /\ c[k].ok => c[k].len = width(a, k) /\ c[k].idx \in Nat /\ c[k].idx < width(a, k)
  <1> DEFINE S == {k \in Nat : /\ Fields(c[k])
                               /\ c[k].ok => /\ c[k].len = width(a, k)
                                             /\ c[k].idx \in Nat /\ c[k].idx < width(a, k)}
  <1>u. c[0] = AtLeaf(v, x, Len(a)) /\ \A k \in Nat : c[k + 1] = climb(way, c[k])
    <2>1. Climbs(c, v, x, Len(a), way)
      BY ClimbingUnfold
    <2> QED  BY <2>1 DEF Climbs
  <1>1. 0 \in S
    <2>1. c[0] = AtLeaf(v, x, Len(a))
      BY <1>u
    <2>2. Fields(c[0])
      BY <2>1 DEF Fields, AtLeaf
    <2>3. c[0].len = Len(a) /\ c[0].idx = x
      BY <2>1 DEF AtLeaf
    <2>4. width(a, 0) = Len(a)
      BY Leaves
    <2> QED  BY <2>2, <2>3, <2>4
  <1>2. ASSUME NEW k \in Nat, k \in S
        PROVE  k + 1 \in S
    <2> DEFINE s == c[k]
               t == c[k + 1]
    <2>1. t = climb(way, s)
      BY <1>u
    <2>2. Fields(s) /\ (s.ok => s.len = width(a, k) /\ s.idx \in Nat /\ s.idx < width(a, k))
      BY <1>2
    <2>3. PICK w \in Nat : w = width(a, k) /\ w >= 1
      BY Width
    <2>4. width(a, k + 1) = (w + 1) \div 2
      BY <2>3, Halves
    <2> HIDE DEF s, t
    <2>5. Fields(t)
      BY <2>1, <2>2, ClimbRound
    <2>6. ASSUME t.ok
          PROVE  t.len = (w + 1) \div 2 /\ t.idx \in Nat /\ t.idx < (w + 1) \div 2
      <3>1. s.ok
        BY <2>1, <2>2, <2>6, ClimbRound
      <3>2. PICK y \in Nat : y = s.idx /\ y < w /\ s.len = w
        BY <2>2, <2>3, <3>1
      <3>3. CASE w <= 1
        <4>1. t = s
          BY <2>1, <2>2, <3>2, <3>3, ClimbRound
        <4>2. (w + 1) \div 2 = w
          BY <2>3, <3>3
        <4> QED  BY <3>2, <4>1, <4>2
      <3>4. CASE ~(w <= 1)
        <4>1. t.idx = y \div 2 /\ t.len = (w + 1) \div 2
          BY <2>1, <2>2, <2>6, <3>2, <3>4, ClimbRound
        <4>2. y \div 2 \in Nat /\ y \div 2 < (w + 1) \div 2
          BY <3>2, <3>4
        <4> QED  BY <4>1, <4>2
      <3> QED  BY <3>3, <3>4
    <2>7. Fields(c[k + 1]) /\ (c[k + 1].ok => /\ c[k + 1].len = width(a, k + 1)
                                              /\ c[k + 1].idx \in Nat /\ c[k + 1].idx < width(a, k + 1))
      BY <2>4, <2>5, <2>6 DEF t
    <2> QED  BY <2>7
  <1>3. \A k \in Nat : k \in S
    <2> HIDE DEF S
    <2> QED  BY <1>1, <1>2, NumbersInSet
  <1> QED  BY <1>3

\* Where a node of a layer is in its pair.
LEMMA PairOf ==
    ASSUME NEW w \in Nat, NEW y \in Nat, y < w, NEW i \in Nat, i = y \div 2 + 1
    PROVE  /\ promoted(y, w) => 2 * i - 1 = w /\ y + 1 = 2 * i - 1 /\ ~(2 * i <= w)
           /\ ~promoted(y, w) => 2 * i <= w /\ ~(2 * i - 1 = w)
           /\ y % 2 = 0 => y + 1 = 2 * i - 1
           /\ y % 2 # 0 => y + 1 = 2 * i
  <1>1. PICK m \in Nat : m = y \div 2 /\ (y = 2 * m \/ y = 2 * m + 1)
    OBVIOUS
  <1>2. i = m + 1 /\ (y % 2 = 0 <=> y = 2 * m)
    BY <1>1
  <1>3. ASSUME promoted(y, w)
        PROVE  2 * i - 1 = w
    <2>1. y = w - 1 /\ w % 2 = 1
      BY <1>3 DEF promoted
    <2> QED  BY <1>1, <1>2, <2>1
  <1>4. ASSUME ~promoted(y, w)
        PROVE  2 * i <= w
    <2>1. y # w - 1 \/ w % 2 # 1
      BY <1>4 DEF promoted
    <2> QED  BY <1>1, <1>2, <2>1
  <1> QED  BY <1>1, <1>2, <1>3, <1>4

\* The node below: a hash that is right after a round was right before it.
LEMMA ClimbDescends ==
    ASSUME NEW V, NEW a \in Seq(V), a # <<>>, NEW k \in Nat, NEW way,
           NEW s, Fields(s), s.ok => s.len = width(a, k) /\ s.idx \in Nat /\ s.idx < width(a, k),
           NEW t, t = climb(way, s), t.ok, t.h = node(a, k + 1, t.idx + 1)
    PROVE  s.ok /\ s.h = node(a, k, s.idx + 1)
  <1>1. s.ok
    BY ClimbRound
  <1>2. PICK w \in Nat : w = width(a, k) /\ w >= 1
    BY Width
  <1>3. PICK y \in Nat : y = s.idx /\ y < w /\ s.len = w
    BY <1>1, <1>2
  <1>4. width(a, k + 1) = (w + 1) \div 2
    BY <1>2, Halves
  <1>5. CASE w <= 1
    <2>1. t = s /\ y = 0 /\ width(a, k + 1) = 1 /\ w = 1
      <3>1. t = s
        BY <1>3, <1>5, ClimbRound
      <3>2. w = 1 /\ y = 0
        BY <1>2, <1>3, <1>5
      <3> QED  BY <1>4, <3>1, <3>2
    <2>2. 1 \in 1..width(a, k + 1) /\ ~(2 * 1 <= w)
      BY <2>1
    <2>3. node(a, k + 1, 1) = node(a, k, 2 * 1 - 1)
      BY <1>2, <2>2, NodeAbove
    <2> QED  BY <1>1, <1>3, <2>1, <2>3
  <1>6. CASE ~(w <= 1)
    <2>0. t.idx = y \div 2
      BY <1>3, <1>6, ClimbRound
    <2>1. PICK i \in Nat : i = y \div 2 + 1
      BY <1>3
    <2>2. i \in 1..width(a, k + 1) /\ t.h = node(a, k + 1, i)
      <3>1. i \in 1..((w + 1) \div 2)
        BY <1>2, <1>3, <1>6, <2>1
      <3> QED  BY <1>4, <2>0, <2>1, <3>1
    <2>3. CASE promoted(y, w)
      <3>1. 2 * i - 1 = w /\ y + 1 = 2 * i - 1 /\ ~(2 * i <= w)
        BY <1>3, <2>1, <2>3, PairOf
      <3>2. t.h = s.h
        BY <1>3, <1>6, <2>3, ClimbRound
      <3>3. node(a, k + 1, i) = node(a, k, 2 * i - 1)
        BY <1>2, <2>2, <3>1, NodeAbove
      <3> QED  BY <1>1, <1>3, <2>2, <3>1, <3>2, <3>3
    <2>4. CASE ~promoted(y, w)
      <3>1. 2 * i <= w /\ ~(2 * i - 1 = w) /\ (y % 2 = 0 => y + 1 = 2 * i - 1) /\ (y % 2 # 0 => y + 1 = 2 * i)
        <4>1. y < w /\ i = y \div 2 + 1
          BY <1>3, <2>1
        <4> QED  BY <1>2, <1>3, <2>1, <2>4, <4>1, PairOf
      <3>2. node(a, k + 1, i) = hashInterior(node(a, k, 2 * i - 1), node(a, k, 2 * i))
        BY <1>2, <2>2, <3>1, NodeAbove
      <3>3. CASE y % 2 = 0
        <4>1. t.h = hashInterior(s.h, way[s.pi + 1])
          BY <1>3, <1>6, <2>4, <3>3, ClimbRound
        <4>2. s.h = node(a, k, 2 * i - 1)
          BY <2>2, <3>2, <4>1, HashesApart
        <4> QED  BY <1>1, <1>3, <3>1, <3>3, <4>2
      <3>4. CASE y % 2 # 0
        <4>1. t.h = hashInterior(way[s.pi + 1], s.h)
          BY <1>3, <1>6, <2>4, <3>4, ClimbRound
        <4>2. s.h = node(a, k, 2 * i)
          BY <2>2, <3>2, <4>1, HashesApart
        <4> QED  BY <1>1, <1>3, <3>1, <3>4, <4>2
      <3> QED  BY <3>3, <3>4
    <2> QED  BY <2>3, <2>4
  <1> QED  BY <1>5, <1>6

\* Whatever path is presented, only the entry at the index verifies.
LEMMA InclusionSound ==
    ASSUME NEW V, NEW a \in Seq(V), NEW x \in Nat, NEW v, NEW way,
           VerifyInclusion(v, x, Len(a), way, MerkleRoot(a))
    PROVE  v = a[x + 1]
  <1>1. PICK K \in Nat : K = Len(a)
    OBVIOUS
  <1>2. PICK c : c = climbing(v, x, Len(a), way)
    OBVIOUS
  <1>3. x < Len(a) /\ c[K].ok /\ c[K].h = MerkleRoot(a)
    BY <1>1, <1>2 DEF VerifyInclusion
  <1>4. a # <<>>
    BY <1>1, <1>3, EmptySeq
  <1>5. \A k \in Nat : /\ Fields(c[k])
                       /\ c[k].ok => c[k].len = width(a, k) /\ c[k].idx \in Nat /\ c[k].idx < width(a, k)
    BY <1>2, <1>3, <1>4, ClimbOnLayer
  <1>u. c[0] = AtLeaf(v, x, Len(a)) /\ \A k \in Nat : c[k + 1] = climb(way, c[k])
    <2>1. Climbs(c, v, x, Len(a), way)
      BY <1>2, ClimbingUnfold
    <2> QED  BY <2>1 DEF Climbs
  <1>k. \A j \in Nat : j + 1 <= K => K - (j + 1) \in Nat /\ (K - (j + 1)) + 1 = K - j /\ j <= K
    BY <1>1
  <1> DEFINE Right(k) == c[k].ok /\ c[k].h = node(a, k, c[k].idx + 1)
             S == {j \in Nat : j <= K => Right(K - j)}
  <1>6. 0 \in S
    <2>1. width(a, K) = 1 /\ node(a, K, 1) = MerkleRoot(a)
      BY <1>1, <1>4, OneAtLast, RootStays
    <2>2. c[K].idx = 0
      BY <1>3, <1>5, <2>1
    <2>3. Right(K) /\ K - 0 = K
      BY <1>3, <2>1, <2>2
    <2> QED  BY <2>3
  <1>7. ASSUME NEW j \in Nat, j \in S
        PROVE  j + 1 \in S
    <2> SUFFICES ASSUME j + 1 <= K
                 PROVE  Right(K - (j + 1))
      OBVIOUS
    <2>1. PICK k \in Nat : k = K - (j + 1) /\ k + 1 = K - j /\ j <= K
      BY <1>k
    <2>2. c[k + 1].ok /\ c[k + 1].h = node(a, k + 1, c[k + 1].idx + 1)
      BY <1>7, <2>1
    <2>3. c[k + 1] = climb(way, c[k])
      BY <1>u
    <2>4. Right(k)
      BY <1>4, <1>5, <2>2, <2>3, ClimbDescends
    <2> QED  BY <2>1, <2>4
  <1>8. \A j \in Nat : j \in S
    <2> HIDE DEF S
    <2> QED  BY <1>6, <1>7, NumbersInSet
  <1>9. Right(0)
    <2>1. K \in S /\ K <= K /\ K - K = 0
      BY <1>1, <1>8
    <2> QED  BY <2>1
  <1>10. c[0].h = hashLeaf(v) /\ c[0].idx = x
    <2>1. c[0] = AtLeaf(v, x, Len(a))
      BY <1>u
    <2> QED  BY <2>1 DEF AtLeaf
  <1>11. x + 1 \in 1..Len(a)
    BY <1>1, <1>3
  <1>12. node(a, 0, x + 1) = hashLeaf(a[x + 1])
    BY <1>4, <1>11, Leaves
  <1> QED  BY <1>9, <1>10, <1>12, HashesApart

\* MerkleProof takes a sibling exactly where VerifyInclusion asks for one.
LEMMA SiblingOf ==
    ASSUME NEW w \in Nat, w > 1, NEW y \in Nat, y < w, NEW i \in Nat, i = y \div 2 + 1
    PROVE  /\ promoted(y, w) => ~(sibling(y) < w)
           /\ ~promoted(y, w) => sibling(y) < w /\ sibling(y) \in Nat
           /\ ~promoted(y, w) /\ y % 2 = 0 => sibling(y) + 1 = 2 * i
           /\ ~promoted(y, w) /\ y % 2 # 0 => sibling(y) + 1 = 2 * i - 1
  <1>1. /\ promoted(y, w) => 2 * i - 1 = w /\ y + 1 = 2 * i - 1
        /\ ~promoted(y, w) => 2 * i <= w
        /\ y % 2 = 0 => y + 1 = 2 * i - 1
        /\ y % 2 # 0 => y + 1 = 2 * i
    BY PairOf
  <1>2. CASE y % 2 = 0
    <2>1. sibling(y) = y + 1
      BY <1>2 DEF sibling
    <2> QED  BY <1>1, <1>2, <2>1
  <1>3. CASE y % 2 # 0
    <2>1. sibling(y) = y - 1
      BY <1>3 DEF sibling
    <2>2. y >= 1 /\ ~promoted(y, w)
      BY <1>1, <1>3
    <2> QED  BY <1>1, <1>3, <2>1, <2>2
  <1> QED  BY <1>2, <1>3

\* One round of MerkleProof.
LEMMA CollectRound ==
    ASSUME NEW a, NEW k \in Nat, NEW s, NEW t, t = collect(layers(a)[k], s)
    PROVE  /\ t.idx = s.idx \div 2
           /\ width(a, k) > 1 /\ sibling(s.idx) < width(a, k) =>
                  t.path = Append(s.path, node(a, k, sibling(s.idx) + 1))
           /\ ~(width(a, k) > 1 /\ sibling(s.idx) < width(a, k)) => t.path = s.path
  BY DEF collect, width, node

\* The ascent stays on the layers and collects their nodes.
LEMMA AscentOnLayer ==
    ASSUME NEW V, NEW a \in Seq(V), a # <<>>, NEW x \in Nat, x < Len(a), NEW at, Collects(at, a, x),
           NEW H, \A k \in Nat : \A i \in 1..width(a, k) : node(a, k, i) \in H
    PROVE  \A k \in Nat : at[k].path \in Seq(H) /\ at[k].idx \in Nat /\ at[k].idx < width(a, k)
  <1> DEFINE S == {k \in Nat : at[k].path \in Seq(H) /\ at[k].idx \in Nat /\ at[k].idx < width(a, k)}
  <1>u. \A k \in Nat : at[k + 1] = collect(layers(a)[k], at[k])
    BY DEF Collects
  <1>1. 0 \in S
    <2>1. at[0].path = <<>> /\ at[0].idx = x
      BY DEF Collects
    <2>2. width(a, 0) = Len(a)
      BY Leaves
    <2>3. at[0].path \in Seq(H)
      BY <2>1
    <2> QED  BY <2>1, <2>2, <2>3
  <1>2. ASSUME NEW k \in Nat, k \in S
        PROVE  k + 1 \in S
    <2> DEFINE s == at[k]
               t == at[k + 1]
    <2>1. t = collect(layers(a)[k], s)
      BY <1>u
    <2>2. s.path \in Seq(H) /\ s.idx \in Nat /\ s.idx < width(a, k)
      BY <1>2
    <2>3. PICK w \in Nat : w = width(a, k) /\ w >= 1
      BY Width
    <2>4. width(a, k + 1) = (w + 1) \div 2
      BY <2>3, Halves
    <2> HIDE DEF s, t, S
    <2>5. PICK y \in Nat : y = s.idx /\ y < w
      BY <2>2, <2>3
    <2>6. t.idx = y \div 2
      <3>1. t.idx = s.idx \div 2
        BY <2>1 DEF collect
      <3> QED  BY <2>5, <3>1
    <2>7. y \div 2 \in Nat /\ y \div 2 < (w + 1) \div 2
      BY <2>5
    <2>8. t.path \in Seq(H)
      <3>1. CASE w > 1 /\ sibling(y) < w
        <4>1. PICK i \in Nat : i = y \div 2 + 1
          BY <2>7
        <4>2. sibling(y) \in Nat
          BY <2>3, <2>5, <3>1, <4>1, SiblingOf
        <4>3. sibling(y) + 1 \in 1..w
          BY <3>1, <4>2
        <4>4. node(a, k, sibling(y) + 1) \in H
          BY <2>3, <4>3
        <4>5. t.path = Append(s.path, node(a, k, sibling(y) + 1))
          <5>1. width(a, k) > 1 /\ sibling(s.idx) < width(a, k)
            BY <2>3, <2>5, <3>1
          <5>2. t.path = Append(s.path, node(a, k, sibling(s.idx) + 1))
            BY <2>1, <5>1, CollectRound
          <5> QED  BY <2>5, <5>2
        <4> QED  BY <2>2, <4>4, <4>5
      <3>2. CASE ~(w > 1 /\ sibling(y) < w)
        <4>1. t.path = s.path
          BY <2>1, <2>3, <2>5, <3>2, CollectRound
        <4> QED  BY <2>2, <4>1
      <3> QED  BY <3>1, <3>2
    <2> QED  BY <2>4, <2>6, <2>7, <2>8 DEF S, t
  <1>3. \A k \in Nat : k \in S
    <2> HIDE DEF S
    <2> QED  BY <1>1, <1>2, NumbersInSet
  <1> QED  BY <1>3

\* What is on the path stays where it is.
Extends(at, k) ==
    \A j \in Nat : /\ Len(at[k].path) <= Len(at[k + j].path)
                   /\ \A q \in 1..Len(at[k].path) : at[k + j].path[q] = at[k].path[q]

LEMMA PathGrows ==
    ASSUME NEW a, NEW x, NEW at, Collects(at, a, x), NEW H, \A k \in Nat : at[k].path \in Seq(H),
           NEW k \in Nat
    PROVE  Extends(at, k)
  <1> DEFINE S == {j \in Nat : /\ Len(at[k].path) <= Len(at[k + j].path)
                               /\ \A q \in 1..Len(at[k].path) : at[k + j].path[q] = at[k].path[q]}
  <1>u. \A m \in Nat : at[m + 1] = collect(layers(a)[m], at[m])
    BY DEF Collects
  <1>1. 0 \in S
    <2>1. k + 0 = k /\ Len(at[k].path) \in Nat
      OBVIOUS
    <2> QED  BY <2>1
  <1>2. ASSUME NEW j \in Nat, j \in S
        PROVE  j + 1 \in S
    <2>1. PICK m \in Nat : m = k + j /\ k + (j + 1) = m + 1
      OBVIOUS
    <2>2. at[m + 1] = collect(layers(a)[m], at[m])
      BY <1>u
    <2>3. PICK old, mid, new \in Seq(H) : old = at[k].path /\ mid = at[m].path /\ new = at[m + 1].path
      OBVIOUS
    <2>4. Len(old) <= Len(mid) /\ \A q \in 1..Len(old) : mid[q] = old[q]
      BY <1>2, <2>1, <2>3
    <2>5. new = mid \/ \E e : new = Append(mid, e)
      <3> DEFINE y == at[m].idx
      <3>1. CASE width(a, m) > 1 /\ sibling(y) < width(a, m)
        <4>1. at[m + 1].path = Append(at[m].path, node(a, m, sibling(y) + 1))
          BY <2>2, <3>1, CollectRound
        <4> QED  BY <2>3, <4>1
      <3>2. CASE ~(width(a, m) > 1 /\ sibling(y) < width(a, m))
        <4>1. at[m + 1].path = at[m].path
          BY <2>2, <3>2, CollectRound
        <4> QED  BY <2>3, <4>1
      <3> QED  BY <3>1, <3>2
    <2>6. Len(old) <= Len(new) /\ \A q \in 1..Len(old) : new[q] = old[q]
      <3>1. CASE new = mid
        BY <2>4, <3>1
      <3>2. ASSUME NEW e, new = Append(mid, e)
            PROVE  Len(old) <= Len(new) /\ \A q \in 1..Len(old) : new[q] = old[q]
        <4>1. Len(new) = Len(mid) + 1 /\ \A q \in 1..Len(mid) : new[q] = mid[q]
          BY <2>3, <3>2
        <4>2. Len(old) \in Nat /\ Len(mid) \in Nat
          BY <2>3
        <4> QED  BY <2>4, <4>1, <4>2
      <3> QED  BY <2>5, <3>1, <3>2
    <2> QED  BY <2>1, <2>3, <2>6
  <1>3. \A j \in Nat : j \in S
    <2> HIDE DEF S
    <2> QED  BY <1>1, <1>2, NumbersInSet
  <1> QED  BY <1>3 DEF Extends

\* A round of VerifyInclusion that finds the sibling on the path.
LEMMA ClimbAscends ==
    ASSUME NEW V, NEW a \in Seq(V), a # <<>>, NEW k \in Nat, NEW way,
           NEW s, Fields(s), s.ok, s.len = width(a, k), s.idx \in Nat, s.idx < width(a, k),
           s.h = node(a, k, s.idx + 1),
           \/ width(a, k) <= 1
           \/ promoted(s.idx, width(a, k))
           \/ ~(s.pi >= Len(way)) /\ way[s.pi + 1] = node(a, k, sibling(s.idx) + 1),
           NEW t, t = climb(way, s)
    PROVE  t.ok /\ t.h = node(a, k + 1, t.idx + 1)
  <1>1. t.ok
    BY ClimbRound
  <1>2. PICK w \in Nat : w = width(a, k) /\ w >= 1
    BY Width
  <1>3. PICK y \in Nat : y = s.idx /\ y < w /\ s.len = w
    BY <1>2
  <1>4. width(a, k + 1) = (w + 1) \div 2
    BY <1>2, Halves
  <1>5. CASE w <= 1
    <2>1. w = 1 /\ y = 0
      BY <1>2, <1>3, <1>5
    <2>2. t = s
      BY <1>3, <1>5, ClimbRound
    <2>3. 1 \in 1..width(a, k + 1) /\ ~(2 * 1 <= w)
      BY <1>4, <2>1
    <2>4. node(a, k + 1, 1) = node(a, k, 2 * 1 - 1)
      BY <1>2, <2>3, NodeAbove
    <2>5. s.idx = 0 /\ t.idx = 0 /\ 0 + 1 = 1
      <3>1. s.idx = 0
        BY <1>3, <2>1
      <3>2. t.idx = s.idx
        BY <2>2
      <3> QED  BY <3>1, <3>2
    <2> QED  BY <1>1, <2>2, <2>4, <2>5
  <1>6. CASE ~(w <= 1)
    <2>0. t.idx = y \div 2
      BY <1>1, <1>3, <1>6, ClimbRound
    <2>1. PICK i \in Nat : i = y \div 2 + 1
      BY <1>3
    <2>2. i \in 1..width(a, k + 1) /\ t.idx + 1 = i
      <3>1. i \in 1..((w + 1) \div 2)
        BY <1>2, <1>3, <1>6, <2>1
      <3> QED  BY <1>4, <2>0, <2>1, <3>1
    <2>3. CASE promoted(y, w)
      <3>1. 2 * i - 1 = w /\ y + 1 = 2 * i - 1 /\ ~(2 * i <= w)
        BY <1>3, <2>1, <2>3, PairOf
      <3>2. t.h = s.h
        BY <1>1, <1>3, <1>6, <2>3, ClimbRound
      <3>3. node(a, k + 1, i) = node(a, k, 2 * i - 1)
        BY <1>2, <2>2, <3>1, NodeAbove
      <3> QED  BY <1>1, <1>3, <2>2, <3>1, <3>2, <3>3
    <2>4. CASE ~promoted(y, w)
      <3>0. /\ 2 * i <= w /\ ~(2 * i - 1 = w)
            /\ y % 2 = 0 => y + 1 = 2 * i - 1
            /\ y % 2 # 0 => y + 1 = 2 * i
        <4>1. y < w /\ i = y \div 2 + 1
          BY <1>3, <2>1
        <4> QED  BY <1>2, <1>3, <2>1, <2>4, <4>1, PairOf
      <3>1. /\ y % 2 = 0 => sibling(y) + 1 = 2 * i
            /\ y % 2 # 0 => sibling(y) + 1 = 2 * i - 1
        <4>1. y < w /\ i = y \div 2 + 1 /\ w > 1
          BY <1>2, <1>3, <1>6, <2>1
        <4> QED  BY <1>2, <1>3, <2>1, <2>4, <4>1, SiblingOf
      <3>2. node(a, k + 1, i) = hashInterior(node(a, k, 2 * i - 1), node(a, k, 2 * i))
        BY <1>2, <2>2, <3>0, NodeAbove
      <3>3. way[s.pi + 1] = node(a, k, sibling(y) + 1) /\ s.h = node(a, k, y + 1)
        BY <1>2, <1>3, <1>6, <2>4
      <3>4. CASE y % 2 = 0
        <4>1. t.h = hashInterior(s.h, way[s.pi + 1])
          BY <1>1, <1>3, <1>6, <2>4, <3>4, ClimbRound
        <4> QED  BY <1>1, <2>2, <3>0, <3>1, <3>2, <3>3, <3>4, <4>1
      <3>5. CASE y % 2 # 0
        <4>1. t.h = hashInterior(way[s.pi + 1], s.h)
          BY <1>1, <1>3, <1>6, <2>4, <3>5, ClimbRound
        <4> QED  BY <1>1, <2>2, <3>0, <3>1, <3>2, <3>3, <3>5, <4>1
      <3> QED  BY <3>4, <3>5
    <2> QED  BY <2>3, <2>4
  <1> QED  BY <1>5, <1>6

\* The path of an entry proves it.
LEMMA InclusionComplete ==
    ASSUME NEW V, NEW a \in Seq(V), NEW x \in Nat, x < Len(a)
    PROVE  VerifyInclusion(a[x + 1], x, Len(a), MerkleProof(a, x), MerkleRoot(a))
  <1> DEFINE H == UNION {{node(a, k, i) : i \in 1..width(a, k)} : k \in Nat}
  <1>0. PICK K \in Nat : K = Len(a)
    OBVIOUS
  <1>1. a # <<>>
    BY <1>0, EmptySeq
  <1>2. PICK at : at = ascent(a, x)
    OBVIOUS
  <1>3. PICK P : P = at[K].path
    OBVIOUS
  <1>4. PICK c : c = climbing(a[x + 1], x, Len(a), P)
    OBVIOUS
  <1>5. P = MerkleProof(a, x)
    BY <1>0, <1>2, <1>3 DEF MerkleProof
  <1>6. Collects(at, a, x)
    BY <1>2, AscentUnfold
  <1>7. \A k \in Nat : at[k].path \in Seq(H) /\ at[k].idx \in Nat /\ at[k].idx < width(a, k)
    <2>1. \A k \in Nat : \A i \in 1..width(a, k) : node(a, k, i) \in H
      OBVIOUS
    <2> HIDE DEF H
    <2> QED  BY <1>1, <1>6, <2>1, AscentOnLayer
  <1>8. \A k \in Nat : /\ Fields(c[k])
                       /\ c[k].ok => c[k].len = width(a, k) /\ c[k].idx \in Nat /\ c[k].idx < width(a, k)
    BY <1>1, <1>4, ClimbOnLayer
  <1> HIDE DEF H
  <1>9. Climbs(c, a[x + 1], x, Len(a), P)
    BY <1>4, ClimbingUnfold
  <1> DEFINE Right(k) == /\ c[k].ok /\ c[k].idx = at[k].idx /\ c[k].pi = Len(at[k].path)
                         /\ c[k].h = node(a, k, c[k].idx + 1)
             S == {k \in Nat : k <= K => Right(k)}
  <1>10. 0 \in S
    <2>1. c[0] = AtLeaf(a[x + 1], x, Len(a)) /\ at[0] = [path |-> <<>>, idx |-> x]
      BY <1>6, <1>9 DEF Climbs, Collects
    <2>2. c[0].ok /\ c[0].idx = x /\ c[0].pi = 0 /\ c[0].h = hashLeaf(a[x + 1])
      BY <2>1 DEF AtLeaf
    <2>3. at[0].idx = x /\ Len(at[0].path) = 0
      BY <2>1
    <2>4. x + 1 \in 1..Len(a)
      BY <1>0
    <2>5. node(a, 0, x + 1) = hashLeaf(a[x + 1])
      BY <1>1, <2>4, Leaves
    <2> QED  BY <2>2, <2>3, <2>5
  <1>11. ASSUME NEW k \in Nat, k \in S
         PROVE  k + 1 \in S
    <2> SUFFICES ASSUME k + 1 <= K
                 PROVE  Right(k + 1)
      OBVIOUS
    <2>1. Right(k)
      BY <1>11
    <2> PICK s, t, u, v : s = c[k] /\ t = c[k + 1] /\ u = at[k] /\ v = at[k + 1]
      OBVIOUS
    <2>2. s.ok /\ s.idx = u.idx /\ s.pi = Len(u.path) /\ s.h = node(a, k, s.idx + 1)
      BY <2>1
    <2> HIDE DEF S, Right
    <2>3. t = climb(P, s) /\ v = collect(layers(a)[k], u)
      BY <1>6, <1>9 DEF Climbs, Collects
    <2>4. Fields(s) /\ s.len = width(a, k) /\ s.idx \in Nat /\ s.idx < width(a, k)
      BY <1>8, <2>2
    <2>5. u.path \in Seq(H) /\ v.path \in Seq(H) /\ P \in Seq(H)
      <3>1. k + 1 \in Nat /\ K \in Nat
        OBVIOUS
      <3> QED  BY <1>3, <1>7, <3>1
    <2>6. PICK w \in Nat : w = width(a, k) /\ w >= 1
      BY <1>1, Width
    <2>7. PICK y \in Nat : y = s.idx /\ y = u.idx /\ y < w /\ s.len = w
      BY <2>2, <2>4, <2>6
    <2>8. v.idx = y \div 2
      <3>1. v.idx = u.idx \div 2
        BY <2>3 DEF collect
      <3> QED  BY <2>7, <3>1
    <2>9. Len(v.path) <= Len(P) /\ \A q \in 1..Len(v.path) : P[q] = v.path[q]
      <3>1. K - (k + 1) \in Nat /\ (k + 1) + (K - (k + 1)) = K /\ k + 1 \in Nat
        OBVIOUS
      <3>2. \A m \in Nat : at[m].path \in Seq(H)
        BY <1>7
      <3>3. PICK n, d \in Nat : n = k + 1 /\ d = K - (k + 1) /\ n + d = K
        BY <3>1
      <3>4. Extends(at, n)
        BY <1>6, <3>2, <3>3, PathGrows
      <3>5. /\ Len(at[n].path) <= Len(at[n + d].path)
            /\ \A q \in 1..Len(at[n].path) : at[n + d].path[q] = at[n].path[q]
        BY <3>3, <3>4 DEF Extends
      <3> QED  BY <1>3, <3>3, <3>5
    <2>10. CASE w <= 1
      <3>1. v.path = u.path
        BY <2>3, <2>6, <2>10, CollectRound
      <3>2. t = s
        BY <2>3, <2>4, <2>7, <2>10, ClimbRound
      <3>3. y = 0 /\ y \div 2 = y
        BY <2>7, <2>10
      <3>4. t.h = node(a, k + 1, t.idx + 1)
        BY <1>1, <2>2, <2>3, <2>4, <2>6, <2>10, ClimbAscends
      <3> QED  BY <2>2, <2>7, <2>8, <3>1, <3>2, <3>3, <3>4 DEF Right
    <2>11. CASE ~(w <= 1) /\ promoted(y, w)
      <3>1. t.ok /\ t.h = node(a, k + 1, t.idx + 1)
        BY <1>1, <2>2, <2>3, <2>4, <2>6, <2>7, <2>11, ClimbAscends
      <3>2. t.idx = y \div 2 /\ t.pi = s.pi
        <4>1. promoted(s.idx, s.len) /\ ~(s.len <= 1)
          BY <2>7, <2>11
        <4>2. t.idx = s.idx \div 2 /\ t.pi = s.pi
          BY <2>3, <2>4, <3>1, <4>1, ClimbRound
        <4> QED  BY <2>7, <4>2
      <3>3. ~(sibling(y) < w)
        <4>1. w > 1 /\ y \div 2 + 1 \in Nat
          BY <2>7, <2>11
        <4> QED  BY <2>7, <2>11, <4>1, SiblingOf
      <3>4. v.path = u.path
        BY <2>3, <2>6, <2>7, <3>3, CollectRound
      <3> QED  BY <2>2, <2>8, <3>1, <3>2, <3>4 DEF Right
    <2>12. CASE ~(w <= 1) /\ ~promoted(y, w)
      <3>1. sibling(y) < w /\ w > 1
        <4>1. w > 1 /\ y \div 2 + 1 \in Nat
          BY <2>7, <2>12
        <4> QED  BY <2>7, <2>12, <4>1, SiblingOf
      <3>2. v.path = Append(u.path, node(a, k, sibling(y) + 1))
        <4>1. width(a, k) > 1 /\ sibling(u.idx) < width(a, k)
          BY <2>6, <2>7, <3>1
        <4>2. v.path = Append(u.path, node(a, k, sibling(u.idx) + 1))
          BY <2>3, <4>1, CollectRound
        <4> QED  BY <2>7, <4>2
      <3>3. PICK q \in Nat : q = Len(u.path) /\ Len(v.path) = q + 1
                             /\ v.path[q + 1] = node(a, k, sibling(y) + 1)
        <4>0. PICK e : e = node(a, k, sibling(y) + 1)
          OBVIOUS
        <4>1. PICK short \in Seq(H) : short = u.path
          BY <2>5
        <4>2. Len(Append(short, e)) = Len(short) + 1 /\ Append(short, e)[Len(short) + 1] = e /\ Len(short) \in Nat
          OBVIOUS
        <4> QED  BY <3>2, <4>0, <4>1, <4>2
      <3>4. ~(q >= Len(P)) /\ P[q + 1] = node(a, k, sibling(y) + 1)
        <4>1. Len(P) \in Nat /\ q + 1 \in 1..Len(v.path)
          BY <2>5, <3>3
        <4>2. P[q + 1] = v.path[q + 1] /\ q + 1 <= Len(P)
          BY <2>9, <3>3, <4>1
        <4> QED  BY <3>3, <4>1, <4>2
      <3>5. t.ok /\ t.h = node(a, k + 1, t.idx + 1)
        <4>1. ~(s.pi >= Len(P)) /\ P[s.pi + 1] = node(a, k, sibling(s.idx) + 1)
          BY <2>2, <2>7, <3>3, <3>4
        <4>2. t = climb(P, s) /\ s.ok /\ s.h = node(a, k, s.idx + 1)
          BY <2>2, <2>3
        <4> QED  BY <1>1, <2>4, <4>1, <4>2, ClimbAscends
      <3>6. t.idx = y \div 2 /\ t.pi = s.pi + 1
        <4>1. ~promoted(s.idx, s.len) /\ ~(s.len <= 1)
          BY <2>7, <2>12
        <4>2. t.idx = s.idx \div 2 /\ t.pi = s.pi + 1
          BY <2>3, <2>4, <3>5, <4>1, ClimbRound
        <4> QED  BY <2>7, <4>2
      <3> QED  BY <2>2, <2>8, <3>3, <3>5, <3>6 DEF Right
    <2> QED  BY <2>10, <2>11, <2>12
  <1>12. \A k \in Nat : k \in S
    <2> HIDE DEF S
    <2> QED  BY <1>10, <1>11, NumbersInSet
  <1>13. Right(K)
    <2>1. K \in S /\ K <= K
      BY <1>0, <1>12
    <2> QED  BY <2>1
  <1>14. width(a, K) = 1 /\ node(a, K, 1) = MerkleRoot(a)
    BY <1>0, <1>1, OneAtLast, RootStays
  <1>15. c[K].idx = 0
    BY <1>0, <1>8, <1>13, <1>14
  <1>16. c[K].ok /\ c[K].pi = Len(P) /\ c[K].h = MerkleRoot(a)
    BY <1>3, <1>13, <1>14, <1>15
  <1> QED  BY <1>0, <1>4, <1>5, <1>16 DEF VerifyInclusion

\* The logs that a pair of logs is chosen from are sequences of entry hashes.
LogsInv == log \in Seq(EntryHashes) /\ twin \in Seq(EntryHashes)

\* A root stands for one log and an inclusion proof for one entry of it, for
\* logs of every length: MerkleProof's path is accepted by VerifyInclusion, no
\* other entry is accepted with any path, two logs never share a MerkleRoot,
\* and a receipt that receiptverify accepts is in the log that was signed.
THEOREM LogProofsAreSound == PairInit /\ [][ChooseLogs]_pairVars => []LogProofsSound
  <1>1. PairInit => LogsInv
    BY DEF PairInit, LogsInv
  <1>2. LogsInv /\ [ChooseLogs]_pairVars => LogsInv'
    <2>1. Logs \subseteq Seq(EntryHashes)
      BY DEF Logs
    <2> QED  BY <2>1 DEF LogsInv, ChooseLogs, pairVars
  <1>3. LogsInv => LogProofsSound
    <2> SUFFICES ASSUME LogsInv
                 PROVE  LogProofsSound
      OBVIOUS
    <2>0. log \in Seq(EntryHashes) /\ twin \in Seq(EntryHashes)
      BY DEF LogsInv
    <2>1. ProofsExact
      <3> SUFFICES ASSUME Len(log) = Len(twin), NEW i \in 0..(Len(log) - 1), NEW j \in 0..(Len(log) - 1)
                   PROVE  /\ VerifyInclusion(log[i + 1], i, Len(log), MerkleProof(log, i), MerkleRoot(log))
                          /\ \A v \in EntryHashes :
                                VerifyInclusion(v, i, Len(log), MerkleProof(twin, j), MerkleRoot(log))
                                    => v = log[i + 1]
        BY DEF ProofsExact, InclusionExact
      <3>1. i \in Nat /\ i < Len(log)
        BY <2>0
      <3>2. VerifyInclusion(log[i + 1], i, Len(log), MerkleProof(log, i), MerkleRoot(log))
        BY <2>0, <3>1, InclusionComplete
      <3>3. \A v, way : VerifyInclusion(v, i, Len(log), way, MerkleRoot(log)) => v = log[i + 1]
        BY <2>0, <3>1, InclusionSound
      <3> QED  BY <3>2, <3>3
    <2>2. RootsCommit
      BY <2>0, RootsCommitToLogs, ReceiptsProven DEF RootsCommit
    <2> QED  BY <2>1, <2>2 DEF LogProofsSound
  <1> QED  BY <1>1, <1>2, <1>3, PTL

(***************************************************************************)
(* JSON values: the loops that filter a sequence and walk a value.         *)
(***************************************************************************)

\* The loop that filters a sequence.
LEMMA GatherUnfold ==
    ASSUME NEW s, NEW keep
    PROVE  /\ gather(s, keep)[0] = <<>>
           /\ \A k \in Nat : gather(s, keep)[k + 1] = take(s, keep, k + 1, gather(s, keep)[k])
  <1> DEFINE p == [loop |-> "gather", seq |-> s, keep |-> keep]
             all == gather(s, keep)
  <1>1. /\ First(p) = <<>>
        /\ \A n, x : Round(p, n, x) = take(s, keep, n + 1, x)
    BY DEF First, Round
  <1>2. PICK f : f = [k \in Nat |-> IF k = 0 THEN First(p) ELSE Round(p, k - 1, f[k - 1])]
    BY LoopRuns
  <1>3. \A k \in Nat : (k - 1) + 1 = k
    OBVIOUS
  <1>4. f = [k \in Nat |-> IF k = 0 THEN <<>> ELSE take(s, keep, k, f[k - 1])]
    BY <1>1, <1>2, <1>3
  <1>5. all = [k \in Nat |-> IF k = 0 THEN <<>> ELSE take(s, keep, k, all[k - 1])]
    BY <1>4 DEF gather
  <1> HIDE DEF all
  <1>6. \A k \in Nat : k + 1 \in Nat /\ k + 1 # 0 /\ (k + 1) - 1 = k
    OBVIOUS
  <1>7. all[0] = <<>> /\ \A k \in Nat : all[k + 1] = take(s, keep, k + 1, all[k])
    BY <1>5, <1>6
  <1> QED  BY <1>7 DEF all

\* The walk of a value, level by level.
LEMMA LevelUnfold ==
    ASSUME NEW v
    PROVE  /\ level(v)[0] = {v}
           /\ \A k \in Nat : level(v)[k + 1] = childrenOf(level(v)[k])
  <1> DEFINE p == [loop |-> "level", value |-> v]
             all == level(v)
  <1>1. First(p) = {v} /\ \A n, x : Round(p, n, x) = childrenOf(x)
    BY DEF First, Round
  <1>2. PICK f : f = [k \in Nat |-> IF k = 0 THEN First(p) ELSE Round(p, k - 1, f[k - 1])]
    BY LoopRuns
  <1>3. f = [k \in Nat |-> IF k = 0 THEN {v} ELSE childrenOf(f[k - 1])]
    BY <1>1, <1>2
  <1>4. all = [k \in Nat |-> IF k = 0 THEN {v} ELSE childrenOf(all[k - 1])]
    BY <1>3 DEF level
  <1> HIDE DEF all
  <1>5. \A k \in Nat : k + 1 \in Nat /\ k + 1 # 0 /\ (k + 1) - 1 = k
    OBVIOUS
  <1>6. all[0] = {v} /\ \A k \in Nat : all[k + 1] = childrenOf(all[k])
    BY <1>4, <1>5
  <1> QED  BY <1>6 DEF all

\* What is inside a value, down to a depth.
LEMMA InsideUnfold ==
    ASSUME NEW v
    PROVE  /\ inside(v)[0] = {v}
           /\ \A k \in Nat : inside(v)[k + 1] = inside(v)[k] \union childrenOf(inside(v)[k])
  <1> DEFINE p == [loop |-> "inside", value |-> v]
             all == inside(v)
  <1>1. First(p) = {v} /\ \A n, x : Round(p, n, x) = x \union childrenOf(x)
    BY DEF First, Round
  <1>2. PICK f : f = [k \in Nat |-> IF k = 0 THEN First(p) ELSE Round(p, k - 1, f[k - 1])]
    BY LoopRuns
  <1>3. f = [k \in Nat |-> IF k = 0 THEN {v} ELSE f[k - 1] \union childrenOf(f[k - 1])]
    BY <1>1, <1>2
  <1>4. all = [k \in Nat |-> IF k = 0 THEN {v} ELSE all[k - 1] \union childrenOf(all[k - 1])]
    BY <1>3 DEF inside
  <1> HIDE DEF all
  <1>5. \A k \in Nat : k + 1 \in Nat /\ k + 1 # 0 /\ (k + 1) - 1 = k
    OBVIOUS
  <1>6. /\ all[0] = {v}
        /\ \A k \in Nat : all[k + 1] = all[k] \union childrenOf(all[k])
    BY <1>4, <1>5
  <1> QED  BY <1>6 DEF all

\* After n rounds the filter has what is kept of the first n elements.
Gathered(s, keep, n, g) ==
    LET now == {k \in keep : k <= n} IN
    /\ Len(g) = Cardinality(now)
    /\ \A i \in 1..Len(g) : \E k \in now : g[i] = s[k]
    /\ \A k \in now : \E i \in 1..Len(g) : g[i] = s[k]

\* The numbers of a set up to a bound, as the bound grows.
LEMMA UpToBound ==
    ASSUME NEW keep \in SUBSET (Nat \ {0}), NEW n \in Nat
    PROVE  /\ {k \in keep : k <= 0} = {}
           /\ n + 1 \notin {k \in keep : k <= n}
           /\ n + 1 \notin keep => {k \in keep : k <= n + 1} = {k \in keep : k <= n}
           /\ n + 1 \in keep => {k \in keep : k <= n + 1} = {k \in keep : k <= n} \union {n + 1}
  <1>1. ASSUME NEW k \in keep
        PROVE  ~(k <= 0) /\ (k <= n + 1 <=> (k <= n \/ k = n + 1))
    BY <1>1
  <1>2. ~(n + 1 <= n)
    OBVIOUS
  <1> QED  BY <1>1, <1>2, Zenon

\* A filtered sequence has the elements kept, and as many.
LEMMA SieveKeeps ==
    ASSUME NEW V, NEW s \in Seq(V), NEW keep \in SUBSET (1..Len(s))
    PROVE  /\ sieve(s, keep) \in Seq(V)
           /\ Len(sieve(s, keep)) = Cardinality(keep)
           /\ \A i \in 1..Len(sieve(s, keep)) : \E k \in keep : sieve(s, keep)[i] = s[k]
           /\ \A k \in keep : \E i \in 1..Len(sieve(s, keep)) : sieve(s, keep)[i] = s[k]
  <1> DEFINE G == gather(s, keep)
             S == {n \in Nat : n <= Len(s) => G[n] \in Seq(V) /\ Gathered(s, keep, n, G[n])}
  <1>1. Len(s) \in Nat /\ IsFiniteSet(keep)
        /\ keep \in SUBSET (Nat \ {0}) /\ \A k \in keep : k <= Len(s)
    <2>1. Len(s) \in Nat /\ 0 \in Int /\ 1 \in Int
      OBVIOUS
    <2>2. IsFiniteSet(1..Len(s))
      BY <2>1, FS_Interval
    <2>3. IsFiniteSet(keep)
      BY <2>2, FS_Subset
    <2> QED  BY <2>1, <2>3
  <1>2. 0 \in S
    <2>1. G[0] = <<>>
      BY GatherUnfold
    <2>2. {k \in keep : k <= 0} = {}
      BY <1>1, UpToBound
    <2>3. Len(<<>>) = 0 /\ 1..Len(<<>>) = {} /\ <<>> \in Seq(V)
      OBVIOUS
    <2>4. Cardinality({}) = 0
      BY FS_EmptySet
    <2>5. Gathered(s, keep, 0, <<>>)
      BY <2>2, <2>3, <2>4 DEF Gathered
    <2> QED  BY <2>1, <2>3, <2>5
  <1>3. ASSUME NEW n \in Nat, n \in S
        PROVE  n + 1 \in S
    <2> SUFFICES ASSUME n + 1 <= Len(s)
                 PROVE  G[n + 1] \in Seq(V) /\ Gathered(s, keep, n + 1, G[n + 1])
      OBVIOUS
    <2> DEFINE now == {k \in keep : k <= n}
               new == {k \in keep : k <= n + 1}
    <2>1. G[n] \in Seq(V) /\ Gathered(s, keep, n, G[n])
      BY <1>1, <1>3
    <2>2. G[n + 1] = IF n + 1 \in keep THEN Append(G[n], s[n + 1]) ELSE G[n]
      <3>1. G[n + 1] = take(s, keep, n + 1, G[n])
        BY GatherUnfold
      <3> QED  BY <3>1 DEF take
    <2> HIDE DEF G
    <2>3. CASE n + 1 \notin keep
      <3>1. new = now
        BY <1>1, <2>3, UpToBound
      <3> QED  BY <2>1, <2>2, <2>3, <3>1 DEF Gathered
    <2>4. CASE n + 1 \in keep
      <3>1. new = now \union {n + 1} /\ n + 1 \notin now
        BY <1>1, <2>4, UpToBound
      <3>2. IsFiniteSet(now) /\ Cardinality(new) = Cardinality(now) + 1
        BY <1>1, <3>1, FS_Subset, FS_AddElement
      <3>3. s[n + 1] \in V /\ G[n + 1] = Append(G[n], s[n + 1])
        BY <1>1, <2>2, <2>4
      <3>4. /\ G[n + 1] \in Seq(V) /\ Len(G[n + 1]) = Len(G[n]) + 1 /\ Len(G[n]) \in Nat
            /\ \A i \in 1..Len(G[n]) : G[n + 1][i] = G[n][i]
            /\ G[n + 1][Len(G[n]) + 1] = s[n + 1]
        BY <2>1, <3>3
      <3>5. /\ Len(G[n]) = Cardinality(now)
            /\ \A i \in 1..Len(G[n]) : \E k \in now : G[n][i] = s[k]
            /\ \A k \in now : \E i \in 1..Len(G[n]) : G[n][i] = s[k]
        BY <2>1 DEF Gathered
      <3> HIDE DEF now, new
      <3>6. Len(G[n + 1]) = Cardinality(new)
        BY <3>2, <3>4, <3>5
      <3>7. ASSUME NEW i \in 1..Len(G[n + 1])
            PROVE  \E k \in new : G[n + 1][i] = s[k]
        <4>1. i \in 1..Len(G[n]) \/ i = Len(G[n]) + 1
          BY <3>4
        <4>2. CASE i \in 1..Len(G[n])
          <5>1. PICK k \in now : G[n][i] = s[k]
            BY <3>5, <4>2
          <5>2. G[n + 1][i] = G[n][i] /\ k \in new
            BY <3>1, <3>4, <4>2
          <5> QED  BY <5>1, <5>2
        <4>3. CASE i = Len(G[n]) + 1
          <5>1. n + 1 \in new
            BY <3>1
          <5> QED  BY <3>4, <4>3, <5>1
        <4> QED  BY <4>1, <4>2, <4>3
      <3>8. \A k \in new : \E i \in 1..Len(G[n + 1]) : G[n + 1][i] = s[k]
        BY <3>1, <3>4, <3>5
      <3> QED  BY <3>4, <3>6, <3>7, <3>8 DEF Gathered, new
    <2> QED  BY <2>3, <2>4
  <1>4. Len(s) \in S
    <2> HIDE DEF S
    <2> QED  BY <1>1, <1>2, <1>3, NumbersInSet
  <1>5. {k \in keep : k <= Len(s)} = keep
    BY <1>1
  <1>6. G[Len(s)] \in Seq(V) /\ Gathered(s, keep, Len(s), G[Len(s)])
    BY <1>1, <1>4
  <1> QED  BY <1>5, <1>6 DEF sieve, Gathered

\* Which elements a filter has so far, in the order of the sequence.
InOrder(s, keep, g) ==
    \E f \in [1..Len(g) -> keep] :
        /\ \A i \in 1..Len(g) : g[i] = s[f[i]]
        /\ \A i, j \in 1..Len(g) : i < j => f[i] < f[j]

\* An element that comes later is added in order.
LEMMA OrderGrows ==
    ASSUME NEW V, NEW g \in Seq(V), NEW s, NEW now \in SUBSET Nat, NEW m \in Nat, s[m] \in V,
           \A k \in now : k < m, InOrder(s, now, g)
    PROVE  InOrder(s, now \union {m}, Append(g, s[m]))
  <1> DEFINE h == Append(g, s[m])
             n == Len(g)
  <1>1. /\ n \in Nat /\ Len(h) = n + 1 /\ h[n + 1] = s[m]
        /\ \A i \in 1..n : h[i] = g[i]
    OBVIOUS
  <1>2. PICK f \in [1..n -> now] :
            /\ \A i \in 1..n : g[i] = s[f[i]]
            /\ \A i, j \in 1..n : i < j => f[i] < f[j]
    BY DEF InOrder
  <1> HIDE DEF h, n
  <1> DEFINE e == [i \in 1..(n + 1) |-> IF i = n + 1 THEN m ELSE f[i]]
  <1>3. \A i \in 1..(n + 1) : i = n + 1 \/ i \in 1..n
    BY <1>1
  <1>4. ASSUME NEW i \in 1..n
        PROVE  e[i] = f[i] /\ f[i] \in now /\ f[i] < m /\ i # n + 1
    <2>1. i \in 1..(n + 1) /\ i # n + 1 /\ f[i] \in now
      BY <1>1, <1>2
    <2>2. e[i] = f[i]
      BY <2>1
    <2> HIDE DEF e
    <2> QED  BY <2>1, <2>2
  <1>5. e[n + 1] = m
    BY <1>1
  <1>6. e \in [1..(n + 1) -> now \union {m}]
    BY <1>3, <1>4, <1>5
  <1> HIDE DEF e
  <1>7. ASSUME NEW i \in 1..(n + 1)
        PROVE  h[i] = s[e[i]]
    BY <1>1, <1>2, <1>3, <1>4, <1>5
  <1>8. ASSUME NEW i \in 1..(n + 1), NEW j \in 1..(n + 1), i < j
        PROVE  e[i] < e[j]
    <2>1. i \in 1..n
      BY <1>1, <1>8
    <2>2. CASE j = n + 1
      BY <1>4, <1>5, <2>1, <2>2
    <2>3. CASE j \in 1..n
      BY <1>2, <1>4, <1>8, <2>1, <2>3
    <2> QED  BY <1>3, <2>2, <2>3
  <1>9. InOrder(s, now \union {m}, h)
    BY <1>1, <1>6, <1>7, <1>8 DEF InOrder
  <1> QED  BY <1>9 DEF h

\* A filtered sequence is in the order of the sequence.
LEMMA SieveOrders ==
    ASSUME NEW V, NEW s \in Seq(V), NEW keep \in SUBSET (1..Len(s))
    PROVE  InOrder(s, keep, sieve(s, keep))
  <1> DEFINE G == gather(s, keep)
             upTo(n) == {k \in keep : k <= n}
             S == {n \in Nat : n <= Len(s) => G[n] \in Seq(V) /\ InOrder(s, upTo(n), G[n])}
  <1>1. Len(s) \in Nat /\ keep \in SUBSET (Nat \ {0}) /\ \A k \in keep : k <= Len(s)
    OBVIOUS
  <1>2. 0 \in S
    <2>1. G[0] = <<>>
      BY GatherUnfold
    <2>2. Len(<<>>) = 0 /\ 1..0 = {} /\ <<>> \in Seq(V)
      OBVIOUS
    <2>3. InOrder(s, upTo(0), <<>>)
      <3> HIDE DEF upTo
      <3> DEFINE f == [i \in 1..0 |-> 0]
      <3>1. f \in [1..Len(<<>>) -> upTo(0)]
        BY <2>2
      <3> QED  BY <2>2, <3>1 DEF InOrder
    <2> QED  BY <2>1, <2>2, <2>3
  <1>3. ASSUME NEW n \in Nat, n \in S
        PROVE  n + 1 \in S
    <2> SUFFICES ASSUME n + 1 <= Len(s)
                 PROVE  G[n + 1] \in Seq(V) /\ InOrder(s, upTo(n + 1), G[n + 1])
      OBVIOUS
    <2>1. G[n] \in Seq(V) /\ InOrder(s, upTo(n), G[n])
      BY <1>1, <1>3
    <2>2. G[n + 1] = IF n + 1 \in keep THEN Append(G[n], s[n + 1]) ELSE G[n]
      <3>1. G[n + 1] = take(s, keep, n + 1, G[n])
        BY GatherUnfold
      <3> QED  BY <3>1 DEF take
    <2>3. s[n + 1] \in V /\ n + 1 \in Nat /\ \A k \in upTo(n) : k \in Nat /\ k < n + 1
      BY <1>1
    <2> HIDE DEF G
    <2>4. CASE n + 1 \notin keep
      <3>1. upTo(n + 1) = upTo(n)
        BY <1>1, <2>4, UpToBound
      <3> QED  BY <2>1, <2>2, <2>4, <3>1
    <2>5. CASE n + 1 \in keep
      <3>1. upTo(n + 1) = upTo(n) \union {n + 1}
        BY <1>1, <2>5, UpToBound
      <3>2. upTo(n) \in SUBSET Nat
        BY <2>3
      <3> HIDE DEF upTo
      <3>3. InOrder(s, upTo(n) \union {n + 1}, Append(G[n], s[n + 1]))
        BY <2>1, <2>3, <3>2, OrderGrows
      <3>4. G[n + 1] = Append(G[n], s[n + 1])
        BY <2>2, <2>5
      <3>5. Append(G[n], s[n + 1]) \in Seq(V)
        BY <2>1, <2>3
      <3> QED  BY <3>1, <3>3, <3>4, <3>5, Zenon
    <2> QED  BY <2>4, <2>5
  <1>4. Len(s) \in S
    <2> HIDE DEF S
    <2> QED  BY <1>1, <1>2, <1>3, NumbersInSet
  <1>5. upTo(Len(s)) = keep
    BY <1>1
  <1>6. InOrder(s, upTo(Len(s)), G[Len(s)])
    BY <1>1, <1>4
  <1> QED  BY <1>5, <1>6 DEF sieve

\* A value is inside itself, at every depth.
LEMMA InsideItself ==
    ASSUME NEW v
    PROVE  \A k \in Nat : v \in inside(v)[k]
  <1> DEFINE S == {k \in Nat : v \in inside(v)[k]}
  <1>1. 0 \in S
    BY InsideUnfold
  <1>2. ASSUME NEW k \in Nat, k \in S
        PROVE  k + 1 \in S
    <2>1. inside(v)[k + 1] = inside(v)[k] \union childrenOf(inside(v)[k])
      BY InsideUnfold
    <2> QED  BY <1>2, <2>1
  <1>3. \A k \in Nat : k \in S
    <2> HIDE DEF S
    <2> QED  BY <1>1, <1>2, NumbersInSet
  <1> QED  BY <1>3

\* What is inside a value is the value and what is inside its children.
LEMMA InsideParts ==
    ASSUME NEW v
    PROVE  \A k \in Nat : inside(v)[k + 1] = {v} \union UNION {inside(w)[k] : w \in children(v)}
  <1> DEFINE S == {k \in Nat : inside(v)[k + 1] = {v} \union UNION {inside(w)[k] : w \in children(v)}}
  <1>1. 0 \in S
    <2>1. inside(v)[0] = {v} /\ inside(v)[0 + 1] = inside(v)[0] \union childrenOf(inside(v)[0])
      BY InsideUnfold
    <2>2. \A w : inside(w)[0] = {w}
      BY InsideUnfold
    <2>3. childrenOf({v}) = children(v)
      BY Zenon DEF childrenOf
    <2>4. UNION {inside(w)[0] : w \in children(v)} = children(v)
      BY <2>2
    <2>5. inside(v)[0 + 1] = {v} \union UNION {inside(w)[0] : w \in children(v)}
      BY <2>1, <2>3, <2>4
    <2> QED  BY <2>5
  <1>2. ASSUME NEW k \in Nat, k \in S
        PROVE  k + 1 \in S
    <2> DEFINE I == inside(v)[k + 1]
               J == inside(v)[(k + 1) + 1]
    <2>1. J = I \union childrenOf(I)
      BY InsideUnfold
    <2>2. I = {v} \union UNION {inside(w)[k] : w \in children(v)}
      BY <1>2
    <2>3. \A w : inside(w)[k + 1] = inside(w)[k] \union childrenOf(inside(w)[k])
      BY InsideUnfold
    <2>4. \A w : w \in inside(w)[k]
      BY InsideItself
    <2> HIDE DEF I, J
    <2>5. J = {v} \union UNION {inside(w)[k + 1] : w \in children(v)}
      <3>1. ASSUME NEW x \in J
            PROVE  x \in {v} \union UNION {inside(w)[k + 1] : w \in children(v)}
        <4>1. CASE x \in I
          BY <2>2, <2>3, <4>1, Zenon
        <4>2. CASE x \in childrenOf(I)
          <5>1. PICK y \in I : x \in children(y)
            BY <4>2, Zenon DEF childrenOf
          <5>2. CASE y = v
            <6>1. x \in inside(x)[k] /\ x \in children(v)
              BY <2>4, <5>1, <5>2
            <6> QED  BY <2>3, <6>1, Zenon
          <5>3. CASE y # v
            <6>1. PICK w \in children(v) : y \in inside(w)[k]
              BY <2>2, <5>3, Zenon
            <6>2. x \in childrenOf(inside(w)[k])
              BY <5>1, <6>1, Zenon DEF childrenOf
            <6> QED  BY <2>3, <6>2, Zenon
          <5> QED  BY <5>2, <5>3
        <4> QED  BY <2>1, <4>1, <4>2, Zenon
      <3>2. v \in J
        BY <2>1, <2>2, Zenon
      <3>3. ASSUME NEW w \in children(v), NEW x \in inside(w)[k + 1]
            PROVE  x \in J
        <4>1. CASE x \in inside(w)[k]
          BY <2>1, <2>2, <4>1, Zenon
        <4>2. CASE x \in childrenOf(inside(w)[k])
          <5>1. PICK y \in inside(w)[k] : x \in children(y)
            BY <4>2, Zenon DEF childrenOf
          <5>2. y \in I
            BY <2>2, Zenon
          <5>3. x \in childrenOf(I)
            BY <5>1, <5>2, Zenon DEF childrenOf
          <5> QED  BY <2>1, <5>3, Zenon
        <4> QED  BY <2>3, <4>1, <4>2, Zenon
      <3> QED  BY <3>1, <3>2, <3>3, Zenon
    <2> QED  BY <2>5 DEF J
  <1>3. \A k \in Nat : k \in S
    <2> HIDE DEF S
    <2> QED  BY <1>1, <1>2, NumbersInSet
  <1> QED  BY <1>3

\* A level of a value is that level, less one, of its children.
LEMMA LevelParts ==
    ASSUME NEW v
    PROVE  \A k \in Nat : level(v)[k + 1] = UNION {level(w)[k] : w \in children(v)}
  <1> DEFINE S == {k \in Nat : level(v)[k + 1] = UNION {level(w)[k] : w \in children(v)}}
  <1>1. 0 \in S
    <2>1. level(v)[0] = {v} /\ level(v)[0 + 1] = childrenOf(level(v)[0])
      BY LevelUnfold
    <2>2. \A w : level(w)[0] = {w}
      BY LevelUnfold
    <2>3. childrenOf({v}) = children(v)
      BY Zenon DEF childrenOf
    <2>4. UNION {level(w)[0] : w \in children(v)} = children(v)
      BY <2>2
    <2>5. level(v)[0 + 1] = UNION {level(w)[0] : w \in children(v)}
      BY <2>1, <2>3, <2>4
    <2> QED  BY <2>5
  <1>2. ASSUME NEW k \in Nat, k \in S
        PROVE  k + 1 \in S
    <2> DEFINE I == level(v)[k + 1]
               J == level(v)[(k + 1) + 1]
    <2>1. J = childrenOf(I)
      BY LevelUnfold
    <2>2. I = UNION {level(w)[k] : w \in children(v)}
      BY <1>2
    <2>3. \A w : level(w)[k + 1] = childrenOf(level(w)[k])
      BY LevelUnfold
    <2> HIDE DEF I, J
    <2>4. J = UNION {level(w)[k + 1] : w \in children(v)}
      <3>1. ASSUME NEW x \in J
            PROVE  x \in UNION {level(w)[k + 1] : w \in children(v)}
        <4>1. PICK y \in I : x \in children(y)
          BY <2>1, Zenon DEF childrenOf
        <4>2. PICK w \in children(v) : y \in level(w)[k]
          BY <2>2, Zenon
        <4>3. x \in childrenOf(level(w)[k])
          BY <4>1, <4>2, Zenon DEF childrenOf
        <4> QED  BY <2>3, <4>3, Zenon
      <3>2. ASSUME NEW w \in children(v), NEW x \in level(w)[k + 1]
            PROVE  x \in J
        <4>0. x \in childrenOf(level(w)[k])
          BY <2>3
        <4>1. PICK y \in level(w)[k] : x \in children(y)
          BY <4>0, Zenon DEF childrenOf
        <4>2. y \in I
          BY <2>2, Zenon
        <4> QED  BY <2>1, <4>1, <4>2, Zenon DEF childrenOf
      <3> QED  BY <3>1, <3>2, Zenon
    <2> QED  BY <2>4 DEF J
  <1>3. \A k \in Nat : k \in S
    <2> HIDE DEF S
    <2> QED  BY <1>1, <1>2, NumbersInSet
  <1> QED  BY <1>3

\* What is inside a value down to a depth is on one of the levels to there.
LEMMA InsideLevels ==
    ASSUME NEW v
    PROVE  \A k \in Nat : \A x \in inside(v)[k] : \E j \in 0..k : x \in level(v)[j]
  <1> DEFINE S == {k \in Nat : \A x \in inside(v)[k] : \E j \in 0..k : x \in level(v)[j]}
  <1>1. 0 \in S
    <2>1. inside(v)[0] = {v} /\ level(v)[0] = {v} /\ 0 \in 0..0
      BY InsideUnfold, LevelUnfold
    <2> QED  BY <2>1
  <1>2. ASSUME NEW k \in Nat, k \in S
        PROVE  k + 1 \in S
    <2>1. inside(v)[k + 1] = inside(v)[k] \union childrenOf(inside(v)[k])
      BY InsideUnfold
    <2>2. \A j \in Nat : level(v)[j + 1] = childrenOf(level(v)[j])
      BY LevelUnfold
    <2>3. \A x \in inside(v)[k] : \E j \in 0..k : x \in level(v)[j]
      BY <1>2
    <2>4. ASSUME NEW x \in inside(v)[k + 1]
          PROVE  \E j \in 0..(k + 1) : x \in level(v)[j]
      <3>1. CASE x \in inside(v)[k]
        <4>1. PICK j \in 0..k : x \in level(v)[j]
          BY <2>3, <3>1
        <4>2. j \in 0..(k + 1)
          OBVIOUS
        <4> QED  BY <4>1, <4>2
      <3>2. CASE x \in childrenOf(inside(v)[k])
        <4>1. PICK y \in inside(v)[k] : x \in children(y)
          BY <3>2, Zenon DEF childrenOf
        <4>2. PICK j \in 0..k : y \in level(v)[j]
          BY <2>3
        <4>3. j \in Nat /\ j + 1 \in 0..(k + 1)
          OBVIOUS
        <4>4. x \in childrenOf(level(v)[j])
          BY <4>1, <4>2, Zenon DEF childrenOf
        <4> QED  BY <2>2, <4>3, <4>4
      <3> QED  BY <2>1, <3>1, <3>2, Zenon
    <2> QED  BY <2>4
  <1>3. \A k \in Nat : k \in S
    <2> HIDE DEF S
    <2> QED  BY <1>1, <1>2, NumbersInSet
  <1> QED  BY <1>3

-----------------------------------------------------------------------------
(* JSON values, which the documents are. *)

\* A value as encoding/json delivers it, as far as its own bytes go.
Node(w) ==
    /\ w \in {Null, Str(w.v), Num(w.v), Bool(w.v), Obj(w.e), Arr(w.e)}
    /\ w.e \in Seq({w.e[i] : i \in 1..Len(w.e)})
    /\ w.t = "obj" => \A i \in 1..Len(w.e) : w.e[i] = Mem(w.e[i].name, w.e[i].value)

\* A JSON value: it and everything inside it is one.
Json(v) == \A k \in Nat : \A w \in inside(v)[k] : Node(w)

\* The fields of a value.
LEMMA ValueFields ==
    ASSUME NEW x
    PROVE  /\ Str(x).t = "str" /\ Str(x).v = x /\ Str(x).e = <<>>
           /\ Num(x).t = "num" /\ Num(x).v = x /\ Num(x).e = <<>>
           /\ Bool(x).t = "bool" /\ Bool(x).v = x /\ Bool(x).e = <<>>
           /\ Obj(x).t = "obj" /\ Obj(x).v = NoText /\ Obj(x).e = x
           /\ Arr(x).t = "arr" /\ Arr(x).v = NoText /\ Arr(x).e = x
           /\ Null.t = "null" /\ Null.v = NoText /\ Null.e = <<>>
           /\ Absent.t = "absent" /\ Absent.v = NoText /\ Absent.e = <<>>
  BY DEF Str, Num, Bool, Null, Obj, Arr, Absent

LEMMA MemFields ==
    ASSUME NEW n, NEW x
    PROVE  Mem(n, x).name = n /\ Mem(n, x).value = x
  BY DEF Mem

\* A value has the form its type says.
LEMMA NodeForms ==
    ASSUME NEW w, Node(w)
    PROVE  /\ w.t \in {"null", "str", "num", "bool", "obj", "arr"}
           /\ Len(w.e) \in Nat /\ DOMAIN w.e = 1..Len(w.e)
           /\ w.t = "str" => w = Str(w.v)
           /\ w.t = "null" => w = Null
           /\ w.t = "obj" => w = Obj(w.e)
           /\ w.t = "arr" => w = Arr(w.e)
           /\ w.t \notin {"obj", "arr"} => w.e = <<>> /\ Len(w.e) = 0
  <1>1. w.e \in Seq({w.e[i] : i \in 1..Len(w.e)})
    BY DEF Node
  <1>2. Len(w.e) \in Nat /\ DOMAIN w.e = 1..Len(w.e)
    BY <1>1
  <1>3. w = Null \/ w = Str(w.v) \/ w = Num(w.v) \/ w = Bool(w.v) \/ w = Obj(w.e) \/ w = Arr(w.e)
    BY Zenon DEF Node
  <1>4. /\ w.t \in {"null", "str", "num", "bool", "obj", "arr"}
        /\ w.t = "str" => w = Str(w.v)
        /\ w.t = "null" => w = Null
        /\ w.t = "obj" => w = Obj(w.e)
        /\ w.t = "arr" => w = Arr(w.e)
        /\ w.t \notin {"obj", "arr"} => w.e = <<>>
    <2>1. CASE w = Null
      BY <2>1, ValueFields
    <2>2. CASE w = Str(w.v)
      BY <2>2, ValueFields
    <2>3. CASE w = Num(w.v)
      BY <2>3, ValueFields
    <2>4. CASE w = Bool(w.v)
      BY <2>4, ValueFields
    <2>5. CASE w = Obj(w.e)
      BY <2>5, ValueFields
    <2>6. CASE w = Arr(w.e)
      BY <2>6, ValueFields
    <2> QED  BY <1>3, <2>1, <2>2, <2>3, <2>4, <2>5, <2>6
  <1>5. Len(<<>>) = 0
    OBVIOUS
  <1> QED  BY <1>2, <1>4, <1>5, Zenon

\* The children of a value are JSON values, and a value whose children are is
\* one itself.
LEMMA JsonParts ==
    ASSUME NEW v
    PROVE  Json(v) <=> Node(v) /\ \A w \in children(v) : Json(w)
  <1>1. inside(v)[0] = {v} /\ 0 \in Nat
    BY InsideUnfold
  <1>2. ASSUME Json(v)
        PROVE  Node(v) /\ \A w \in children(v) : Json(w)
    <2>1. Node(v)
      BY <1>1, <1>2, Zenon DEF Json
    <2>2. ASSUME NEW w \in children(v), NEW k \in Nat, NEW x \in inside(w)[k]
          PROVE  Node(x)
      <3>1. inside(v)[k + 1] = {v} \union UNION {inside(y)[k] : y \in children(v)}
        BY InsideParts
      <3>2. x \in inside(v)[k + 1] /\ k + 1 \in Nat
        BY <3>1
      <3> QED  BY <1>2, <3>2, Zenon DEF Json
    <2> QED  BY <2>1, <2>2, Zenon DEF Json
  <1>3. ASSUME Node(v), \A w \in children(v) : Json(w)
        PROVE  Json(v)
    <2> SUFFICES ASSUME NEW k \in Nat, NEW x \in inside(v)[k], x # v
                 PROVE  Node(x)
      BY <1>3, Zenon DEF Json
    <2>1. k # 0
      BY <1>1
    <2>2. PICK j \in Nat : k = j + 1
      <3>1. k - 1 \in Nat /\ k = (k - 1) + 1
        BY <2>1
      <3> QED  BY <3>1
    <2>3. inside(v)[j + 1] = {v} \union UNION {inside(y)[j] : y \in children(v)}
      BY InsideParts
    <2>4. PICK w \in children(v) : x \in inside(w)[j]
      BY <2>2, <2>3
    <2> QED  BY <1>3, <2>4, Zenon DEF Json
  <1> QED  BY <1>2, <1>3, Zenon

\* The elements of an array and the members of an object.
LEMMA JsonElements ==
    ASSUME NEW v, Json(v), NEW i \in 1..Len(v.e)
    PROVE  /\ v.t = "arr" => Json(v.e[i])
           /\ v.t = "obj" => Json(v.e[i].value) /\ v.e[i] = Mem(v.e[i].name, v.e[i].value)
  <1>1. Node(v) /\ \A w \in children(v) : Json(w)
    BY JsonParts, Zenon
  <1>2. v.t = "arr" => v.e[i] \in children(v)
    BY DEF children
  <1>3. v.t = "obj" => v.e[i].value \in children(v)
    BY DEF children
  <1>4. v.t = "obj" => v.e[i] = Mem(v.e[i].name, v.e[i].value)
    BY <1>1 DEF Node
  <1> QED  BY <1>1, <1>2, <1>3, <1>4

\* A set of numbers with a bound that is not empty has a greatest one.
LEMMA GreatestNumber ==
    ASSUME NEW n \in Nat, NEW S \in SUBSET (0..n), S # {}
    PROVE  \E m \in S : \A k \in S : k <= m
  <1> DEFINE T == {m \in Nat : \A k \in S : k <= m}
  <1>1. n \in T /\ T \in SUBSET Nat
    OBVIOUS
  <1>2. PICK m \in T : \A k \in T : m <= k
    BY <1>1, LeastNumber
  <1>3. m \in S
    <2> SUFFICES ASSUME m \notin S
                 PROVE  FALSE
      OBVIOUS
    <2>1. PICK k \in S : k <= m
      BY <1>2
    <2>2. m - 1 \in Nat
      BY <2>1, <1>2
    <2>3. \A j \in S : j <= m - 1
      BY <1>2
    <2> QED  BY <1>2, <2>2, <2>3
  <1> QED  BY <1>2, <1>3

\* get finds a member that is there, and nothing that is not.
LEMMA GetFinds ==
    ASSUME NEW o, Node(o), NEW n
    PROVE  /\ o.t # "obj" \/ n \notin names(o) => get(o, n) = Absent
           /\ o.t = "obj" /\ n \in names(o) =>
                 \E i \in 1..Len(o.e) : o.e[i].name = n /\ get(o, n) = o.e[i].value
  <1> DEFINE at == {i \in 1..Len(o.e) : o.e[i].name = n}
             last == CHOOSE i \in at : \A j \in at : j <= i
  <1>1. Len(o.e) \in Nat
    BY NodeForms
  <1>2. at = {} <=> n \notin names(o)
    BY DEF names
  <1>3. get(o, n) = IF o.t # "obj" \/ at = {} THEN Absent ELSE o.e[last].value
    BY DEF get
  <1>4. ASSUME at # {}
        PROVE  last \in at
    <2>1. at \in SUBSET (0..Len(o.e))
      BY <1>1
    <2> HIDE DEF at
    <2>2. \E i \in at : \A j \in at : j <= i
      BY <1>1, <1>4, <2>1, GreatestNumber
    <2> QED  BY <2>2
  <1> HIDE DEF last
  <1> QED  BY <1>2, <1>3, <1>4

\* Where no name occurs twice, get finds each member.
LEMMA GetUnique ==
    ASSUME NEW o, Node(o), NEW allowed, scanObject(o, allowed), NEW i \in 1..Len(o.e)
    PROVE  get(o, o.e[i].name) = o.e[i].value /\ o.e[i].name \in allowed
  <1>1. o.t = "obj" /\ o.e[i].name \in names(o) /\ o.e[i].name \in allowed
    BY DEF scanObject, names
  <1>2. PICK j \in 1..Len(o.e) : o.e[j].name = o.e[i].name /\ get(o, o.e[i].name) = o.e[j].value
    BY <1>1, GetFinds
  <1>3. i = j
    BY <1>2 DEF scanObject
  <1> QED  BY <1>1, <1>2, <1>3

\* A member of a JSON value is one, if it is there.
LEMMA GetJson ==
    ASSUME NEW o, Json(o), NEW n
    PROVE  \/ get(o, n) = Absent /\ (o.t # "obj" \/ n \notin names(o))
           \/ Json(get(o, n)) /\ Node(get(o, n)) /\ get(o, n).t # "absent" /\ o.t = "obj" /\ n \in names(o)
  <1>1. Node(o)
    BY JsonParts, Zenon
  <1>2. CASE o.t # "obj" \/ n \notin names(o)
    BY <1>1, <1>2, GetFinds
  <1>3. CASE o.t = "obj" /\ n \in names(o)
    <2>1. PICK i \in 1..Len(o.e) : o.e[i].name = n /\ get(o, n) = o.e[i].value
      BY <1>1, <1>3, GetFinds
    <2>2. Json(get(o, n))
      BY <1>3, <2>1, JsonElements
    <2>3. Node(get(o, n))
      BY <2>2, JsonParts, Zenon
    <2>4. get(o, n).t # "absent"
      BY <2>3, NodeForms
    <2> QED  BY <1>3, <2>2, <2>3, <2>4
  <1> QED  BY <1>2, <1>3

\* r has the members of o whose position is in keep.
Kept(o, r, keep) ==
    /\ r.t = "obj" /\ Len(r.e) = Cardinality(keep) /\ Len(r.e) \in Nat /\ DOMAIN r.e = 1..Len(r.e)
    /\ \A i \in 1..Len(r.e) : \E k \in keep : r.e[i] = o.e[k]
    /\ \A k \in keep : \E i \in 1..Len(r.e) : r.e[i] = o.e[k]

\* An object made of some members of a value.
LEMMA SieveMembers ==
    ASSUME NEW o, Node(o), NEW keep \in SUBSET (1..Len(o.e))
    PROVE  Kept(o, Obj(sieve(o.e, keep)), keep) /\ (o.t = "obj" => Node(Obj(sieve(o.e, keep))))
  <1> DEFINE V == {o.e[i] : i \in 1..Len(o.e)}
             s == sieve(o.e, keep)
             r == Obj(s)
  <1>1. o.e \in Seq(V)
    BY DEF Node
  <1>2. r.t = "obj" /\ r.e = s
    BY ValueFields
  <1> HIDE DEF r
  <1>3. /\ s \in Seq(V) /\ Len(s) = Cardinality(keep)
        /\ \A i \in 1..Len(s) : \E k \in keep : s[i] = o.e[k]
        /\ \A k \in keep : \E i \in 1..Len(s) : s[i] = o.e[k]
    <2> HIDE DEF V
    <2> QED  BY <1>1, SieveKeeps
  <1> HIDE DEF s, V
  <1>4. Len(s) \in Nat /\ DOMAIN s = 1..Len(s) /\ s \in Seq({s[i] : i \in 1..Len(s)})
    <2>1. s \in Seq(V)
      BY <1>3
    <2>2. Len(s) \in Nat /\ s = [i \in 1..Len(s) |-> s[i]]
      BY <2>1
    <2> QED  BY <2>2
  <1>5. Kept(o, r, keep)
    BY <1>2, <1>3, <1>4 DEF Kept
  <1>6. ASSUME o.t = "obj"
        PROVE  Node(r)
    <2>1. ASSUME NEW i \in 1..Len(s)
          PROVE  s[i] = Mem(s[i].name, s[i].value)
      <3>1. PICK k \in keep : s[i] = o.e[k]
        BY <1>3
      <3>2. k \in 1..Len(o.e)
        OBVIOUS
      <3>3. o.e[k] = Mem(o.e[k].name, o.e[k].value)
        BY <1>6, <3>2 DEF Node
      <3> QED  BY <3>1, <3>3
    <2>2. r \in {Null, Str(r.v), Num(r.v), Bool(r.v), Obj(r.e), Arr(r.e)}
      BY <1>2 DEF r
    <2> QED  BY <1>2, <1>4, <2>1, <2>2 DEF Node
  <1> QED  BY <1>5, <1>6 DEF r, s

\* delete(m, name) leaves the other members.
LEMMA WithoutKeeps ==
    ASSUME NEW o, Node(o), NEW n
    PROVE  /\ Kept(o, without(o, n), {i \in 1..Len(o.e) : o.e[i].name # n})
           /\ o.t = "obj" => Node(without(o, n))
           /\ names(without(o, n)) = names(o) \ {n}
           /\ children(without(o, n)) \subseteq {o.e[i].value : i \in 1..Len(o.e)}
  <1> DEFINE keep == {i \in 1..Len(o.e) : o.e[i].name # n}
             r == without(o, n)
  <1>1. r = Obj(sieve(o.e, keep))
    BY DEF without
  <1>2. keep \in SUBSET (1..Len(o.e))
    OBVIOUS
  <1>3. Kept(o, r, keep) /\ (o.t = "obj" => Node(r))
    <2> HIDE DEF keep, r
    <2> QED  BY <1>1, <1>2, SieveMembers
  <1> HIDE DEF r
  <1>4. /\ r.t = "obj"
        /\ \A i \in 1..Len(r.e) : \E k \in keep : r.e[i] = o.e[k]
        /\ \A k \in keep : \E i \in 1..Len(r.e) : r.e[i] = o.e[k]
    BY <1>3 DEF Kept
  <1>5. names(r) = names(o) \ {n}
    <2>1. ASSUME NEW x \in names(r)
          PROVE  x \in names(o) \ {n}
      <3>1. PICK i \in 1..Len(r.e) : x = r.e[i].name
        BY DEF names
      <3>2. PICK k \in keep : r.e[i] = o.e[k]
        BY <1>4
      <3> QED  BY <3>1, <3>2 DEF names
    <2>2. ASSUME NEW x \in names(o), x # n
          PROVE  x \in names(r)
      <3>1. PICK k \in 1..Len(o.e) : x = o.e[k].name
        BY DEF names
      <3>2. k \in keep
        BY <2>2, <3>1
      <3>3. PICK i \in 1..Len(r.e) : r.e[i] = o.e[k]
        BY <1>4, <3>2
      <3> QED  BY <3>1, <3>3 DEF names
    <2> QED  BY <2>1, <2>2
  <1>6. children(r) \subseteq {o.e[i].value : i \in 1..Len(o.e)}
    <2>1. children(r) = {r.e[i].value : i \in 1..Len(r.e)}
      BY <1>4 DEF children
    <2>2. ASSUME NEW i \in 1..Len(r.e)
          PROVE  r.e[i].value \in {o.e[k].value : k \in 1..Len(o.e)}
      <3>1. PICK k \in keep : r.e[i] = o.e[k]
        BY <1>4
      <3> QED  BY <3>1
    <2> QED  BY <2>1, <2>2
  <1> QED  BY <1>3, <1>5, <1>6 DEF r

\* m[name] = value replaces the value of the members of that name.
LEMMA WithReplaces ==
    ASSUME NEW o, Node(o), o.t = "obj", NEW n, NEW x
    PROVE  /\ with(o, n, x).t = "obj" /\ Len(with(o, n, x).e) = Len(o.e) /\ Node(with(o, n, x))
           /\ \A i \in 1..Len(o.e) :
                 with(o, n, x).e[i] = IF o.e[i].name = n THEN Mem(n, x) ELSE o.e[i]
           /\ names(with(o, n, x)) = names(o)
  <1> DEFINE s == [i \in DOMAIN o.e |-> IF o.e[i].name = n THEN Mem(n, x) ELSE o.e[i]]
             r == with(o, n, x)
  <1>1. r = Obj(s) /\ r.t = "obj" /\ r.e = s
    BY ValueFields DEF with
  <1>2. Len(o.e) \in Nat /\ DOMAIN o.e = 1..Len(o.e)
    BY NodeForms
  <1>3. s = [i \in 1..Len(o.e) |-> s[i]]
    BY <1>2
  <1>4. \A i \in 1..Len(o.e) : s[i] = IF o.e[i].name = n THEN Mem(n, x) ELSE o.e[i]
    BY <1>2
  <1> HIDE DEF s, r
  <1>5. Len(s) = Len(o.e)
    BY <1>2, <1>3, LengthOf
  <1>6. s \in Seq({s[i] : i \in 1..Len(s)})
    BY <1>2, <1>3, <1>5
  <1>7. \A i \in 1..Len(s) : s[i].name = o.e[i].name /\ s[i] = Mem(s[i].name, s[i].value)
    <2>1. \A i \in 1..Len(o.e) : o.e[i] = Mem(o.e[i].name, o.e[i].value)
      BY DEF Node
    <2> QED  BY <1>4, <1>5, <2>1, MemFields
  <1>8. r \in {Null, Str(r.v), Num(r.v), Bool(r.v), Obj(r.e), Arr(r.e)}
    BY <1>1
  <1>9. Node(r)
    BY <1>1, <1>6, <1>7, <1>8 DEF Node
  <1>10. names(r) = names(o)
    BY <1>1, <1>5, <1>7 DEF names
  <1> QED  BY <1>1, <1>4, <1>5, <1>9, <1>10 DEF r

-----------------------------------------------------------------------------
(* What the A2A and MCP points pass on. *)

\* A send that no rule refuses has passed them all.
LEMMA SendDecided ==
    ASSUME NEW params, sendRule(params) = "decide"
    PROVE  LET msg == get(params, "message")
               metadata == get(msg, "metadata") IN
           /\ validateSendParams(params) /\ histLenOK(params)
           /\ \A n \in {"role", "kind", "messageId", "taskId", "contextId"} : stringField(msg, n)
           /\ missing(metadata) \/ metadata.t = "obj"
           /\ get(msg, "parts").t # "absent"
           /\ ~containsKey(stripToken(params), TokenMetaKey)
  BY DEF sendRule

\* The walk misses no object: a key that it does not find is a member of none
\* inside the value.
LEMMA WalkMissesNone ==
    ASSUME NEW v, NEW key, ~containsKey(v, key)
    PROVE  \A o \in objectsIn(v) : key \notin names(o)
  <1> SUFFICES ASSUME NEW o \in objectsIn(v), key \in names(o)
               PROVE  FALSE
    OBVIOUS
  <1>1. o \in inside(v)[MaxNesting] /\ o.t = "obj" /\ MaxNesting \in Nat
    BY NestingAssumption DEF objectsIn
  <1>2. PICK j \in 0..MaxNesting : o \in level(v)[j]
    BY <1>1, InsideLevels
  <1> QED  BY <1>1, <1>2 DEF containsKey

\* Which messages are passed on.
LEMMA PassedOn ==
    ASSUME NEW method, NEW params, rule(method, params) \in {"decide", "observe"}
    PROVE  ~tooDeep(params) /\ ~containsKey(forwarded(method, params), TokenMetaKey)
  <1>1. ~tooDeep(params)
    BY DEF rule
  <1>2. CASE method \in DOMAIN sendMethods
    <2>1. sendRule(params) \in {"decide", "observe"}
      BY <1>1, <1>2 DEF rule
    <2>2. sendRule(params) = "decide"
      BY <2>1 DEF sendRule
    <2>3. ~containsKey(stripToken(params), TokenMetaKey)
      BY <2>2, SendDecided
    <2> QED  BY <1>1, <1>2, <2>3 DEF forwarded
  <1>3. CASE method \notin DOMAIN sendMethods
    <2>1. readRule(method, params) \in {"decide", "observe"}
      BY <1>1, <1>3 DEF rule
    <2>2. ~containsKey(params, TokenMetaKey)
      BY <2>1 DEF readRule
    <2> QED  BY <1>1, <1>3, <2>2 DEF forwarded
  <1> QED  BY <1>2, <1>3

\* No message of any shape, read or send, is passed on with the credential
\* inside it.
THEOREM NoCredentialPassed ==
    ASSUME NEW method, NEW params
    PROVE  NoCredentialForwarded(method, params)
  <1> SUFFICES ASSUME rule(method, params) \in {"decide", "observe"}
               PROVE  \A o \in objectsIn(forwarded(method, params)) : TokenMetaKey \notin names(o)
    BY DEF NoCredentialForwarded
  <1>1. ~containsKey(forwarded(method, params), TokenMetaKey)
    BY PassedOn
  <1> QED  BY <1>1, WalkMissesNone

\* An object or an array at depth k.
Container(v, k) == \E w \in level(v)[k] : w.t \in {"obj", "arr"}

\* Only objects and arrays have children.
LEMMA ContainersHold ==
    ASSUME NEW v, NEW w \in children(v)
    PROVE  v.t \in {"obj", "arr"}
  BY DEF children

\* Containers are reached through containers.
LEMMA ContainerParts ==
    ASSUME NEW v, NEW k \in Nat
    PROVE  /\ Container(v, 0) <=> v.t \in {"obj", "arr"}
           /\ Container(v, k + 1) <=> \E w \in children(v) : Container(w, k)
           /\ Container(v, k + 1) => Container(v, k)
  <1>1. level(v)[0] = {v}
    BY LevelUnfold
  <1>2. level(v)[k + 1] = UNION {level(w)[k] : w \in children(v)}
    BY LevelParts
  <1>3. level(v)[k + 1] = childrenOf(level(v)[k])
    BY LevelUnfold
  <1>4. Container(v, 0) <=> v.t \in {"obj", "arr"}
    BY <1>1 DEF Container
  <1>5. Container(v, k + 1) <=> \E w \in children(v) : Container(w, k)
    BY <1>2, Zenon DEF Container
  <1>6. ASSUME Container(v, k + 1)
        PROVE  Container(v, k)
    <2>1. PICK x \in childrenOf(level(v)[k]) : x.t \in {"obj", "arr"}
      BY <1>3, <1>6 DEF Container
    <2>2. PICK y \in level(v)[k] : x \in children(y)
      BY <2>1, Zenon DEF childrenOf
    <2>3. y.t \in {"obj", "arr"}
      BY <2>2, ContainersHold
    <2> QED  BY <2>3 DEF Container
  <1> QED  BY <1>4, <1>5, <1>6

\* Below a level without containers there are none.
LEMMA ContainersEnd ==
    ASSUME NEW v, ~tooDeep(v)
    PROVE  \A k \in Nat : Container(v, k) => k < MaxNesting
  <1> DEFINE S == {d \in Nat : ~Container(v, MaxNesting + d)}
  <1>0. MaxNesting \in Nat /\ MaxNesting + 0 = MaxNesting
    BY NestingAssumption
  <1>1. 0 \in S
    BY <1>0 DEF tooDeep, Container
  <1>2. ASSUME NEW d \in Nat, d \in S
        PROVE  d + 1 \in S
    <2>1. MaxNesting + d \in Nat /\ MaxNesting + (d + 1) = (MaxNesting + d) + 1 /\ d + 1 \in Nat
      BY <1>0
    <2>2. ~Container(v, MaxNesting + d)
      BY <1>2
    <2>3. ~Container(v, (MaxNesting + d) + 1)
      BY <2>1, <2>2, ContainerParts
    <2>4. ~Container(v, MaxNesting + (d + 1))
      BY <2>1, <2>3
    <2> QED  BY <2>1, <2>4
  <1>3. \A d \in Nat : d \in S
    <2> HIDE DEF S
    <2> QED  BY <1>1, <1>2, NumbersInSet
  <1>4. ASSUME NEW k \in Nat, Container(v, k), ~(k < MaxNesting)
        PROVE  FALSE
    <2>1. k - MaxNesting \in Nat /\ MaxNesting + (k - MaxNesting) = k
      BY <1>0, <1>4
    <2>2. k - MaxNesting \in S
      BY <1>3, <2>1
    <2>3. ~Container(v, MaxNesting + (k - MaxNesting))
      BY <2>2
    <2> QED  BY <1>4, <2>1, <2>3
  <1> QED  BY <1>4

\* What stripToken leaves of a send that is passed on.
LEMMA StripShape ==
    ASSUME NEW params, Json(params), sendRule(params) = "decide"
    PROVE  LET msg == get(params, "message")
               cut == without(msg, "metadata")
               out == stripToken(params) IN
           /\ params.t = "obj" /\ Node(params) /\ Json(msg) /\ Node(msg) /\ msg.t = "obj" /\ Node(cut)
           /\ scanObject(params, allowedSendParams) /\ scanObject(msg, allowedMessageMembers)
           /\ Node(out) /\ out.t = "obj" /\ Len(out.e) = Len(params.e) /\ names(out) = names(params)
           /\ \A i \in 1..Len(params.e) :
                 out.e[i] = IF params.e[i].name = "message" THEN Mem("message", cut) ELSE params.e[i]
           /\ get(out, "message") = cut
           /\ get(out, "configuration") = get(params, "configuration")
           /\ msg \in children(params)
  <1> DEFINE msg == get(params, "message")
             cut == without(msg, "metadata")
             out == stripToken(params)
  <1>1. validateSendParams(params)
    BY SendDecided
  <1>2. scanObject(params, allowedSendParams) /\ scanObject(msg, allowedMessageMembers)
    BY <1>1 DEF validateSendParams
  <1>3. params.t = "obj" /\ msg.t = "obj" /\ Node(params)
    BY <1>2, JsonParts, Zenon DEF scanObject
  <1>4. Json(msg) /\ Node(msg) /\ "message" \in names(params)
    BY <1>3, GetJson, ValueFields
  <1>5. out = with(params, "message", cut)
    BY DEF stripToken
  <1>6. Node(cut)
    BY <1>3, <1>4, WithoutKeeps
  <1> HIDE DEF msg, cut, out
  <1>7. /\ out.t = "obj" /\ Len(out.e) = Len(params.e) /\ Node(out) /\ names(out) = names(params)
        /\ \A i \in 1..Len(params.e) :
              out.e[i] = IF params.e[i].name = "message" THEN Mem("message", cut) ELSE params.e[i]
    BY <1>3, <1>5, WithReplaces
  <1>8. get(out, "message") = cut
    <2>1. PICK i \in 1..Len(out.e) : out.e[i].name = "message" /\ get(out, "message") = out.e[i].value
      BY <1>4, <1>7, GetFinds
    <2>2. CASE params.e[i].name = "message"
      BY <1>7, <2>1, <2>2, MemFields
    <2>3. CASE params.e[i].name # "message"
      BY <1>7, <2>1, <2>3
    <2> QED  BY <2>2, <2>3
  <1>9. get(out, "configuration") = get(params, "configuration")
    <2>1. CASE "configuration" \notin names(params)
      BY <1>3, <1>7, <2>1, GetFinds
    <2>2. CASE "configuration" \in names(params)
      <3>1. PICK i \in 1..Len(out.e) :
                out.e[i].name = "configuration" /\ get(out, "configuration") = out.e[i].value
        BY <1>7, <2>2, GetFinds
      <3>2. i \in 1..Len(params.e) /\ out.e[i] = params.e[i]
        <4>1. params.e[i].name # "message"
          BY <1>7, <3>1, MemFields
        <4> QED  BY <1>7, <4>1
      <3>3. get(params, params.e[i].name) = params.e[i].value
        BY <1>2, <1>3, <3>2, GetUnique
      <3> QED  BY <3>1, <3>2, <3>3
    <2> QED  BY <2>1, <2>2
  <1>10. msg \in children(params)
    <2>1. PICK i \in 1..Len(params.e) : params.e[i].name = "message" /\ msg = params.e[i].value
      BY <1>3, <1>4, GetFinds DEF msg
    <2> QED  BY <1>3, <2>1 DEF children
  <1> QED  BY <1>2, <1>3, <1>4, <1>6, <1>7, <1>8, <1>9, <1>10 DEF msg, cut, out

\* Taking the credential out makes a message no deeper.
LEMMA StripNoDeeper ==
    ASSUME NEW params, Json(params), sendRule(params) = "decide", NEW k \in Nat,
           Container(stripToken(params), k)
    PROVE  Container(params, k)
  <1> DEFINE msg == get(params, "message")
             cut == without(msg, "metadata")
             out == stripToken(params)
  <1>1. /\ params.t = "obj" /\ Node(msg) /\ msg.t = "obj" /\ out.t = "obj" /\ Len(out.e) = Len(params.e)
        /\ \A i \in 1..Len(params.e) :
              out.e[i] = IF params.e[i].name = "message" THEN Mem("message", cut) ELSE params.e[i]
        /\ msg \in children(params)
    BY StripShape
  <1>2. cut.t = "obj" /\ children(cut) \subseteq children(msg)
    <2>1. Kept(msg, cut, {i \in 1..Len(msg.e) : msg.e[i].name # "metadata"})
      BY <1>1, WithoutKeeps
    <2>2. children(cut) \subseteq {msg.e[i].value : i \in 1..Len(msg.e)}
      BY <1>1, WithoutKeeps
    <2>3. children(msg) = {msg.e[i].value : i \in 1..Len(msg.e)}
      BY <1>1 DEF children
    <2> QED  BY <2>1, <2>2, <2>3 DEF Kept
  <1> HIDE DEF msg, cut, out
  <1>3. ASSUME NEW j \in Nat, Container(cut, j)
        PROVE  Container(msg, j)
    <2>1. CASE j = 0
      BY <1>1, <2>1, ContainerParts
    <2>2. CASE j # 0
      <3>1. PICK i \in Nat : j = i + 1
        <4>1. j - 1 \in Nat /\ j = (j - 1) + 1
          BY <2>2
        <4> QED  BY <4>1
      <3>2. PICK w \in children(cut) : Container(w, i)
        BY <1>3, <3>1, ContainerParts
      <3>3. Container(msg, i + 1)
        BY <1>2, <3>2, ContainerParts
      <3> QED  BY <3>1, <3>3
    <2> QED  BY <2>1, <2>2
  <1>4. CASE k = 0
    BY <1>1, <1>4, ContainerParts
  <1>5. CASE k # 0
    <2>1. PICK j \in Nat : k = j + 1
      <3>1. k - 1 \in Nat /\ k = (k - 1) + 1
        BY <1>5
      <3> QED  BY <3>1
    <2>2. PICK w \in children(out) : Container(w, j)
      BY <2>1, ContainerParts DEF out
    <2>3. PICK i \in 1..Len(params.e) : w = out.e[i].value
      BY <1>1 DEF children
    <2>4. CASE params.e[i].name = "message"
      <3>1. w = cut
        BY <1>1, <2>3, <2>4, MemFields
      <3>2. Container(msg, j)
        BY <1>3, <2>2, <3>1
      <3> QED  BY <1>1, <2>1, <3>2, ContainerParts
    <2>5. CASE params.e[i].name # "message"
      <3>1. w = params.e[i].value
        BY <1>1, <2>3, <2>5
      <3>2. w \in children(params)
        BY <1>1, <3>1 DEF children
      <3> QED  BY <2>1, <2>2, <3>2, ContainerParts
    <2> QED  BY <2>4, <2>5
  <1> QED  BY <1>4, <1>5

\* Nor below the depth that the walk goes to: nothing is passed on that is
\* nested deeper.
THEOREM NoCredentialAtAnyDepth ==
    ASSUME NEW method, NEW params, Json(params), rule(method, params) \in {"decide", "observe"}
    PROVE  \A k \in Nat : \A o \in inside(forwarded(method, params))[k] :
               o.t = "obj" => TokenMetaKey \notin names(o)
  <1> DEFINE out == forwarded(method, params)
  <1>1. ~tooDeep(params) /\ ~containsKey(out, TokenMetaKey)
    BY PassedOn
  <1>2. \A k \in Nat : Container(out, k) => k < MaxNesting
    <2>1. \A k \in Nat : Container(params, k) => k < MaxNesting
      BY <1>1, ContainersEnd
    <2>2. CASE method \in DOMAIN sendMethods
      <3>1. sendRule(params) \in {"decide", "observe"}
        BY <1>1, <2>2 DEF rule
      <3>2. sendRule(params) = "decide"
        BY <3>1 DEF sendRule
      <3>3. out = stripToken(params)
        BY <2>2 DEF forwarded
      <3> HIDE DEF out
      <3> QED  BY <2>1, <3>2, <3>3, StripNoDeeper
    <2>3. CASE method \notin DOMAIN sendMethods
      BY <2>1, <2>3 DEF forwarded
    <2> QED  BY <2>2, <2>3
  <1> HIDE DEF out
  <1>3. ASSUME NEW k \in Nat, NEW o \in inside(out)[k], o.t = "obj"
        PROVE  TokenMetaKey \notin names(o)
    <2>1. PICK j \in 0..k : o \in level(out)[j]
      BY InsideLevels
    <2>2. j \in Nat /\ Container(out, j)
      BY <1>3, <2>1 DEF Container
    <2>3. j < MaxNesting
      BY <1>2, <2>2
    <2>4. j \in 0..MaxNesting
      BY <2>2, <2>3, NestingAssumption
    <2> QED  BY <1>1, <1>3, <2>1, <2>4 DEF containsKey
  <1> QED  BY <1>3 DEF out

\* The members of an object that say something.
LEMMA SaidMembers ==
    ASSUME NEW o, NEW mb
    PROVE  mb \in said(o) <=> \E i \in 1..Len(o.e) : /\ mb = o.e[i]
                                                     /\ ~missing(mb.value) /\ mb.value # Str(NoText)
  BY DEF said

\* A value that says nothing has no members.
LEMMA MissingEmpty ==
    ASSUME NEW v, missing(v), v = Absent \/ Node(v)
    PROVE  Len(v.e) = 0
  <1>1. CASE v = Absent
    <2>1. v.e = <<>> /\ Len(<<>>) = 0
      BY <1>1, ValueFields
    <2> QED  BY <2>1
  <1>2. CASE Node(v)
    <2>1. v.t \notin {"obj", "arr"}
      BY DEF missing
    <2> QED  BY <1>2, <2>1, NodeForms
  <1> QED  BY <1>1, <1>2

\* The digest covers what an agent acts on: the members that a send is bound
\* by, where they are and what they hold.
LEMMA BoundMembers ==
    ASSUME NEW params, Json(params), sendRule(params) = "decide"
    PROVE  LET msg == get(params, "message")
               cfg == get(params, "configuration")
               B == boundFields(params) IN
           /\ DOMAIN B = {"parts"} \union {n \in {"taskId", "contextId"} : valueOf(msg, n) # NoText}
                         \union (IF missing(histLen(params)) THEN {} ELSE {"historyLength"})
           /\ \A n \in DOMAIN B : B[n] = IF n = "historyLength" THEN histLen(params) ELSE get(msg, n)
           /\ cfg = Absent \/ Json(cfg)
           /\ ~missing(cfg) => scanObject(cfg, allowedConfiguration) /\ histLen(params) = get(cfg, "historyLength")
           /\ missing(cfg) => histLen(params) = Absent
           /\ missing(histLen(params)) \/ histLen(params).t = "num"
  <1>1. validateSendParams(params) /\ histLenOK(params)
    BY SendDecided
  <1> QED  BY <1>1, GetJson DEF boundFields, validateSendParams, histLen, histLenOK, configured

\* Every send that is passed on says to the agent what its digest binds, and
\* nothing else that the agent acts on.
THEOREM SendsAreBound ==
    ASSUME NEW params, Json(params)
    PROVE  ActedOnIsBound(params)
  <1> SUFFICES ASSUME sendRule(params) = "decide"
               PROVE  actedOn(stripToken(params)) =
                      {Mem(n, boundFields(params)[n]) : n \in
                          {k \in DOMAIN boundFields(params) : /\ ~missing(boundFields(params)[k])
                                                              /\ boundFields(params)[k] # Str(NoText)}}
    BY DEF ActedOnIsBound
  <1> DEFINE msg == get(params, "message")
             cut == without(msg, "metadata")
             out == stripToken(params)
             cfg == get(params, "configuration")
             B == boundFields(params)
             rest == without(without(out, "message"), "configuration")
             N == {k \in DOMAIN B : ~missing(B[k]) /\ B[k] # Str(NoText)}
  <1>1. /\ Json(msg) /\ Node(msg) /\ msg.t = "obj"
        /\ scanObject(params, allowedSendParams) /\ scanObject(msg, allowedMessageMembers)
        /\ Node(out) /\ out.t = "obj" /\ names(out) = names(params)
        /\ get(out, "message") = cut /\ get(out, "configuration") = cfg
    BY StripShape
  <1>2. /\ DOMAIN B = {"parts"} \union {n \in {"taskId", "contextId"} : valueOf(msg, n) # NoText}
                      \union (IF missing(histLen(params)) THEN {} ELSE {"historyLength"})
        /\ \A n \in DOMAIN B : B[n] = IF n = "historyLength" THEN histLen(params) ELSE get(msg, n)
        /\ cfg = Absent \/ Json(cfg)
        /\ ~missing(cfg) => scanObject(cfg, allowedConfiguration) /\ histLen(params) = get(cfg, "historyLength")
        /\ missing(cfg) => histLen(params) = Absent
        /\ missing(histLen(params)) \/ histLen(params).t = "num"
    BY BoundMembers
  <1>3. \A n \in {"role", "kind", "messageId", "taskId", "contextId"} : stringField(msg, n)
    BY SendDecided
  <1>4. said(rest) = {}
    <2>1. /\ Node(without(out, "message")) /\ without(out, "message").t = "obj"
          /\ names(without(out, "message")) = names(out) \ {"message"}
      BY <1>1, WithoutKeeps DEF Kept
    <2>2. names(rest) = (names(out) \ {"message"}) \ {"configuration"}
      BY <2>1, WithoutKeeps
    <2>3. names(out) \subseteq {"message", "configuration"}
      BY <1>1 DEF scanObject, allowedSendParams
    <2>4. names(rest) = {}
      BY <2>2, <2>3
    <2>5. 1..Len(rest.e) = {}
      BY <2>4 DEF names
    <2> QED  BY <2>5 DEF said
  <1>5. actedOn(out) = {mb \in said(cut) \union said(cfg) : mb.name \notin presentation}
    BY <1>1, <1>4 DEF actedOn
  <1> HIDE DEF out, rest, cfg, B, cut, msg
  <1>6. /\ \A i \in 1..Len(cut.e) : \E k \in 1..Len(msg.e) : msg.e[k].name # "metadata" /\ cut.e[i] = msg.e[k]
        /\ \A k \in 1..Len(msg.e) : msg.e[k].name # "metadata" => \E i \in 1..Len(cut.e) : cut.e[i] = msg.e[k]
    <2>1. Kept(msg, cut, {i \in 1..Len(msg.e) : msg.e[i].name # "metadata"})
      BY <1>1, WithoutKeeps DEF cut
    <2> QED  BY <2>1 DEF Kept
  <1>7. ASSUME NEW mb \in said(cut), mb.name \notin presentation
        PROVE  mb.name \in N /\ mb = Mem(mb.name, B[mb.name])
    <2>1. PICK i \in 1..Len(cut.e) : mb = cut.e[i] /\ ~missing(mb.value) /\ mb.value # Str(NoText)
      BY SaidMembers
    <2>2. PICK k \in 1..Len(msg.e) : msg.e[k].name # "metadata" /\ mb = msg.e[k]
      BY <1>6, <2>1
    <2>3. /\ mb = Mem(mb.name, mb.value) /\ get(msg, mb.name) = mb.value
          /\ mb.name \in allowedMessageMembers /\ Json(mb.value)
      BY <1>1, <2>2, GetUnique, JsonElements
    <2>4. mb.name \in {"parts", "taskId", "contextId"}
      BY <1>7, <2>2, <2>3 DEF allowedMessageMembers, presentation
    <2>5. ASSUME mb.name # "parts"
          PROVE  valueOf(msg, mb.name) # NoText
      <3>1. stringField(msg, mb.name)
        BY <1>3, <2>4, <2>5
      <3>2. mb.value.t = "str" /\ Node(mb.value)
        BY <2>1, <2>3, <3>1, JsonParts DEF stringField
      <3>3. mb.value = Str(mb.value.v)
        BY <3>2, NodeForms
      <3>4. mb.value.v # NoText
        BY <2>1, <3>3
      <3> QED  BY <2>1, <2>3, <3>4 DEF valueOf
    <2>6. mb.name \in DOMAIN B /\ mb.name # "historyLength"
      BY <1>2, <2>4, <2>5
    <2>7. B[mb.name] = mb.value
      BY <1>2, <2>3, <2>6
    <2> QED  BY <2>1, <2>3, <2>6, <2>7
  <1>8. ASSUME NEW mb \in said(cfg), mb.name \notin presentation
        PROVE  mb.name \in N /\ mb = Mem(mb.name, B[mb.name])
    <2>1. PICK i \in 1..Len(cfg.e) : mb = cfg.e[i] /\ ~missing(mb.value) /\ mb.value # Str(NoText)
      BY SaidMembers
    <2>2. ~missing(cfg)
      <3> SUFFICES ASSUME missing(cfg)
                   PROVE  FALSE
        OBVIOUS
      <3>1. cfg = Absent \/ Node(cfg)
        BY <1>2, JsonParts
      <3>2. Len(cfg.e) = 0
        BY <3>1, MissingEmpty
      <3> QED  BY <2>1, <3>2
    <2>3. Json(cfg) /\ Node(cfg) /\ scanObject(cfg, allowedConfiguration)
      <3>1. cfg # Absent
        BY <2>2, ValueFields DEF missing
      <3>2. Json(cfg)
        BY <1>2, <3>1
      <3> QED  BY <1>2, <2>2, <3>2, JsonParts
    <2>4. cfg.t = "obj"
      BY <2>3 DEF scanObject
    <2>5. /\ mb = Mem(mb.name, mb.value) /\ get(cfg, mb.name) = mb.value
          /\ mb.name \in allowedConfiguration
      BY <2>1, <2>3, <2>4, GetUnique, JsonElements
    <2>6. mb.name = "historyLength"
      BY <1>8, <2>5 DEF allowedConfiguration, presentation
    <2>7. histLen(params) = mb.value
      BY <1>2, <2>2, <2>5, <2>6
    <2>8. mb.name \in DOMAIN B /\ B[mb.name] = mb.value
      BY <1>2, <2>1, <2>6, <2>7
    <2> QED  BY <2>1, <2>5, <2>8
  <1>9. ASSUME NEW n \in N
        PROVE  Mem(n, B[n]) \in said(cut) \union said(cfg) /\ Mem(n, B[n]).name \notin presentation
    <2>1. n \in DOMAIN B /\ ~missing(B[n]) /\ B[n] # Str(NoText)
      OBVIOUS
    <2>2. n \in {"parts", "taskId", "contextId", "historyLength"}
      BY <1>2, <2>1
    <2>3. Mem(n, B[n]).name = n /\ Mem(n, B[n]).value = B[n]
      BY MemFields
    <2>4. n \notin presentation
      BY <2>2 DEF presentation
    <2>5. CASE n = "historyLength"
      <3>1. B[n] = histLen(params) /\ ~missing(histLen(params))
        BY <1>2, <2>1, <2>5
      <3>2. histLen(params) # Absent
        BY <3>1, ValueFields DEF missing
      <3>3. ~missing(cfg)
        BY <1>2, <3>2
      <3>4. cfg # Absent
        BY <3>3, ValueFields DEF missing
      <3>5. Json(cfg) /\ Node(cfg) /\ get(cfg, "historyLength") = B[n]
        BY <1>2, <3>1, <3>3, <3>4, JsonParts
      <3>6. cfg.t = "obj" /\ "historyLength" \in names(cfg)
        BY <3>1, <3>2, <3>5, GetJson
      <3>7. PICK i \in 1..Len(cfg.e) : cfg.e[i].name = "historyLength" /\ cfg.e[i].value = B[n]
        BY <3>5, <3>6, GetFinds
      <3>8. cfg.e[i] = Mem(n, B[n])
        BY <2>5, <3>5, <3>6, <3>7, JsonElements
      <3>9. Mem(n, B[n]) \in said(cfg)
        BY <2>1, <2>3, <3>8, SaidMembers
      <3> QED  BY <2>3, <2>4, <3>9
    <2>6. CASE n # "historyLength"
      <3>1. B[n] = get(msg, n)
        BY <1>2, <2>1, <2>6
      <3>2. get(msg, n) # Absent
        BY <2>1, <3>1, ValueFields DEF missing
      <3>3. n \in names(msg)
        BY <1>1, <3>2, GetJson
      <3>4. PICK k \in 1..Len(msg.e) : msg.e[k].name = n /\ msg.e[k].value = B[n]
        BY <1>1, <3>1, <3>3, GetFinds
      <3>5. msg.e[k] = Mem(n, B[n])
        BY <1>1, <3>4, JsonElements
      <3>6. n # "metadata"
        BY <2>2
      <3>7. PICK i \in 1..Len(cut.e) : cut.e[i] = Mem(n, B[n])
        BY <1>6, <3>4, <3>5, <3>6
      <3>8. Mem(n, B[n]) \in said(cut)
        BY <2>1, <2>3, <3>7, SaidMembers
      <3> QED  BY <2>3, <2>4, <3>8
    <2> QED  BY <2>5, <2>6
  <1> HIDE DEF N
  <1>10. actedOn(out) = {Mem(n, B[n]) : n \in N}
    <2>1. ASSUME NEW mb \in actedOn(out)
          PROVE  mb \in {Mem(n, B[n]) : n \in N}
      <3>1. mb.name \in N /\ mb = Mem(mb.name, B[mb.name])
        BY <1>5, <1>7, <1>8
      <3> QED  BY <3>1
    <2>2. ASSUME NEW n \in N
          PROVE  Mem(n, B[n]) \in actedOn(out)
      BY <1>5, <1>9
    <2> QED  BY <2>1, <2>2
  <1> QED  BY <1>10 DEF out, B, N

\* A tools/call that is passed on is the bound name and arguments, and a _meta
\* that nothing binds, cleared of the credential at its top level only.
THEOREM CallsAreBound ==
    ASSUME NEW params, Json(params)
    PROVE  CallIsBound(params)
  <1> SUFFICES ASSUME callRule(params) = "decide"
               PROVE  LET fwd == stripCall(params) IN
                      /\ \A i \in 1..Len(fwd.e) :
                            \/ /\ fwd.e[i].name \in DOMAIN callBound(params)
                               /\ fwd.e[i].value = callBound(params)[fwd.e[i].name]
                            \/ fwd.e[i].name = "_meta" /\ names(fwd.e[i].value) = names(get(params, "_meta")) \ {TokenMetaKey}
                      /\ DOMAIN callBound(params) \subseteq names(fwd)
    BY DEF CallIsBound
  <1> DEFINE meta == get(params, "_meta")
             rest == without(meta, TokenMetaKey)
             fwd == stripCall(params)
             B == callBound(params)
  <1>1. /\ scanObject(params, allowedCallParams)
        /\ get(params, "name").t = "str"
        /\ missing(meta) \/ meta.t = "obj"
    BY DEF callRule, validateCallParams
  <1>2. params.t = "obj" /\ Node(params)
    BY <1>1, JsonParts DEF scanObject
  <1>3. "name" \in names(params)
    BY <1>1, <1>2, GetJson, ValueFields
  <1>4. /\ DOMAIN B = {"name"} \union (names(params) \intersect {"arguments"})
        /\ \A n \in DOMAIN B : B[n] = get(params, n)
    BY DEF callBound
  <1>5. fwd = IF meta.t = "absent" THEN params
              ELSE IF rest.e = <<>> THEN without(params, "_meta")
              ELSE with(params, "_meta", rest)
    BY DEF stripCall
  <1> SUFFICES /\ \A i \in 1..Len(fwd.e) :
                     \/ fwd.e[i].name \in DOMAIN B /\ fwd.e[i].value = B[fwd.e[i].name]
                     \/ fwd.e[i].name = "_meta" /\ names(fwd.e[i].value) = names(meta) \ {TokenMetaKey}
               /\ DOMAIN B \subseteq names(fwd)
    OBVIOUS
  <1> HIDE DEF fwd, B
  <1>6. DOMAIN B \subseteq names(params) \ {"_meta"}
    BY <1>3, <1>4
  <1>7. ASSUME NEW i \in 1..Len(params.e), params.e[i].name # "_meta"
        PROVE  params.e[i].name \in DOMAIN B /\ params.e[i].value = B[params.e[i].name]
    <2>1. get(params, params.e[i].name) = params.e[i].value /\ params.e[i].name \in allowedCallParams
      BY <1>1, <1>2, GetUnique
    <2>2. params.e[i].name \in {"name", "arguments"} /\ params.e[i].name \in names(params)
      BY <1>7, <2>1 DEF allowedCallParams, names
    <2>3. params.e[i].name \in DOMAIN B
      BY <1>4, <2>2
    <2> QED  BY <1>4, <2>1, <2>3
  <1>8. CASE meta.t = "absent"
    <2>1. "_meta" \notin names(params)
      BY <1>2, <1>8, GetJson
    <2>2. \A i \in 1..Len(params.e) : params.e[i].name # "_meta"
      BY <2>1 DEF names
    <2> QED  BY <1>5, <1>6, <1>7, <1>8, <2>2
  <1>9. CASE meta.t # "absent" /\ rest.e = <<>>
    <2>1. fwd = without(params, "_meta")
      BY <1>5, <1>9
    <2>2. /\ Kept(params, fwd, {i \in 1..Len(params.e) : params.e[i].name # "_meta"})
          /\ names(fwd) = names(params) \ {"_meta"}
      BY <1>2, <2>1, WithoutKeeps
    <2>3. ASSUME NEW i \in 1..Len(fwd.e)
          PROVE  fwd.e[i].name \in DOMAIN B /\ fwd.e[i].value = B[fwd.e[i].name]
      <3>1. PICK k \in 1..Len(params.e) : params.e[k].name # "_meta" /\ fwd.e[i] = params.e[k]
        BY <2>2 DEF Kept
      <3> QED  BY <1>7, <3>1
    <2> QED  BY <1>6, <2>2, <2>3
  <1>10. CASE meta.t # "absent" /\ rest.e # <<>>
    <2>1. fwd = with(params, "_meta", rest)
      BY <1>5, <1>10
    <2>2. /\ Len(fwd.e) = Len(params.e) /\ names(fwd) = names(params)
          /\ \A i \in 1..Len(params.e) :
                fwd.e[i] = IF params.e[i].name = "_meta" THEN Mem("_meta", rest) ELSE params.e[i]
      <3> HIDE DEF rest
      <3> QED  BY <1>2, <2>1, WithReplaces
    <2>3. Node(meta)
      BY <1>10, GetJson, ValueFields
    <2>4. names(rest) = names(meta) \ {TokenMetaKey}
      BY <2>3, WithoutKeeps
    <2>5. ASSUME NEW i \in 1..Len(fwd.e)
          PROVE  \/ fwd.e[i].name \in DOMAIN B /\ fwd.e[i].value = B[fwd.e[i].name]
                 \/ fwd.e[i].name = "_meta" /\ names(fwd.e[i].value) = names(meta) \ {TokenMetaKey}
      <3> HIDE DEF rest
      <3>1. CASE params.e[i].name = "_meta"
        <4>1. fwd.e[i] = Mem("_meta", rest)
          BY <2>2, <3>1
        <4>2. fwd.e[i].name = "_meta" /\ fwd.e[i].value = rest
          BY <4>1, MemFields
        <4> QED  BY <2>4, <4>2
      <3>2. CASE params.e[i].name # "_meta"
        <4>1. fwd.e[i] = params.e[i] /\ i \in 1..Len(params.e)
          BY <2>2, <3>2
        <4> QED  BY <1>7, <3>2, <4>1
      <3> QED  BY <3>1, <3>2
    <2> QED  BY <1>6, <2>2, <2>5
  <1> QED  BY <1>8, <1>9, <1>10

-----------------------------------------------------------------------------
(* The agent card. *)

\* v does not occur in a value.
Hides(v, a) == \A k \in Nat : a \notin inside(v)[k]

\* A value hides what it is not and its children hide.
LEMMA HidesParts ==
    ASSUME NEW v, NEW a, v # a, \A w \in children(v) : Hides(w, a)
    PROVE  Hides(v, a)
  <1> SUFFICES ASSUME NEW k \in Nat, a \in inside(v)[k]
               PROVE  FALSE
    BY Zenon DEF Hides
  <1>1. inside(v)[0] = {v}
    BY InsideUnfold
  <1>2. k # 0
    BY <1>1
  <1>3. PICK j \in Nat : k = j + 1
    <2>1. k - 1 \in Nat /\ k = (k - 1) + 1
      BY <1>2
    <2> QED  BY <2>1
  <1>4. inside(v)[j + 1] = {v} \union UNION {inside(y)[j] : y \in children(v)}
    BY InsideParts
  <1>5. PICK w \in children(v) : a \in inside(w)[j]
    BY <1>3, <1>4
  <1> QED  BY <1>5, Zenon DEF Hides

\* A scalar hides every other value.
LEMMA HidesScalar ==
    ASSUME NEW v, NEW a, v # a, v.t \notin {"obj", "arr"}
    PROVE  Hides(v, a)
  <1>1. children(v) = {}
    BY DEF children
  <1> QED  BY <1>1, HidesParts

\* An object hides a scalar when its members do, an array when its elements do.
LEMMA HidesContainer ==
    ASSUME NEW v, NEW a, a.t \notin {"obj", "arr"},
           \/ v.t = "obj" /\ \A i \in 1..Len(v.e) : Hides(v.e[i].value, a)
           \/ v.t = "arr" /\ \A i \in 1..Len(v.e) : Hides(v.e[i], a)
    PROVE  Hides(v, a)
  <1>1. v # a
    OBVIOUS
  <1>2. \A w \in children(v) : Hides(w, a)
    BY DEF children
  <1> QED  BY <1>1, <1>2, HidesParts

\* A card that is relayed has passed every check.
LEMMA CardServed ==
    ASSUME NEW publicURL, NEW reached, NEW card, serveCard(publicURL, reached, card).card # Absent
    PROVE  /\ serveCard(publicURL, reached, card).card = rewriteCard(card, publicURL)
           /\ ~cardRefused(card) /\ publicURL # Absent
  <1> DEFINE s == serveCard(publicURL, reached, card)
  <1>1. /\ publicURL # Absent /\ reached /\ ~cardRefused(card)
        /\ s = [status |-> 200, card |-> rewriteCard(card, publicURL)]
    <2>1. CASE publicURL = Absent \/ ~reached \/ cardRefused(card)
      <3>1. s.card = Absent
        BY <2>1 DEF serveCard
      <3> QED  BY <3>1
    <2>2. CASE ~(publicURL = Absent \/ ~reached \/ cardRefused(card))
      BY <2>2 DEF serveCard
    <2> QED  BY <2>1, <2>2
  <1> HIDE DEF s
  <1>2. s.card = rewriteCard(card, publicURL)
    BY <1>1
  <1> QED  BY <1>1, <1>2 DEF s

\* A sequence of members makes an object.
LEMMA ObjNode ==
    ASSUME NEW n \in Nat, NEW s, s = [i \in 1..n |-> s[i]],
           \A i \in 1..n : s[i] = Mem(s[i].name, s[i].value)
    PROVE  Node(Obj(s)) /\ Obj(s).t = "obj" /\ Obj(s).e = s /\ Len(s) = n
  <1> DEFINE r == Obj(s)
  <1>1. r.t = "obj" /\ r.e = s
    BY ValueFields
  <1>2. Len(s) = n
    BY LengthOf
  <1>3. s \in Seq({s[i] : i \in 1..Len(s)})
    BY <1>2
  <1>4. r \in {Null, Str(r.v), Num(r.v), Bool(r.v), Obj(r.e), Arr(r.e)}
    BY <1>1
  <1> HIDE DEF r
  <1>5. Node(r)
    BY <1>1, <1>2, <1>3, <1>4 DEF Node
  <1> QED  BY <1>1, <1>2, <1>5 DEF r

\* The members of a card that is relayed: those the agent wrote that are not
\* removed, each with its rewritten value, and preferredTransport beside a url.
LEMMA CardMembers ==
    ASSUME NEW publicURL, NEW card, Json(card), card.t = "obj"
    PROVE  LET out == rewriteCard(card, publicURL) IN
           /\ Node(out) /\ out.t = "obj"
           /\ \A i \in 1..Len(out.e) :
                 /\ out.e[i].value = rewrittenValue(card, out.e[i].name, publicURL)
                 /\ out.e[i].name \in (names(card) \ removedMembers) \union {"preferredTransport"}
           /\ names(card) \ removedMembers \subseteq names(out)
  <1> DEFINE keep == {i \in 1..Len(card.e) : card.e[i].name \notin removedMembers}
             left == sieve(card.e, keep)
             val(n) == rewrittenValue(card, n, publicURL)
             s == [i \in DOMAIN left |-> Mem(left[i].name, val(left[i].name))]
             extra == hasMember(card, "url") /\ ~hasMember(card, "preferredTransport")
             last == Mem("preferredTransport", Str("JSONRPC"))
             all == IF extra THEN Append(s, last) ELSE s
             out == rewriteCard(card, publicURL)
  <1>1. Node(card)
    BY JsonParts
  <1>2. out = Obj(all)
    BY DEF rewriteCard
  <1>3. val("preferredTransport") = Str("JSONRPC")
    BY DEF rewrittenValue
  <1> HIDE DEF val, out
  <1>4. /\ Len(left) \in Nat /\ DOMAIN left = 1..Len(left)
        /\ \A i \in 1..Len(left) : \E k \in keep : left[i] = card.e[k]
        /\ \A k \in keep : \E i \in 1..Len(left) : left[i] = card.e[k]
    <2>1. keep \in SUBSET (1..Len(card.e))
      OBVIOUS
    <2>2. Obj(left).e = left
      BY ValueFields
    <2> HIDE DEF keep
    <2>3. Kept(card, Obj(left), keep)
      BY <1>1, <2>1, SieveMembers
    <2> QED  BY <2>2, <2>3 DEF Kept
  <1> HIDE DEF left
  <1>5. s = [i \in 1..Len(left) |-> s[i]] /\ \A i \in 1..Len(left) : s[i] = Mem(left[i].name, val(left[i].name))
    BY <1>4
  <1> HIDE DEF s
  <1>6. \A i \in 1..Len(left) : s[i].name = left[i].name /\ s[i].value = val(left[i].name)
    BY <1>5, MemFields
  <1>7. last.name = "preferredTransport" /\ last.value = val("preferredTransport")
        /\ last = Mem(last.name, last.value)
    BY <1>3, MemFields
  <1> HIDE DEF last
  <1> DEFINE n == IF extra THEN Len(left) + 1 ELSE Len(left)
  <1>8. /\ n \in Nat /\ all = [i \in 1..n |-> all[i]]
        /\ \A i \in 1..Len(left) : all[i] = s[i]
        /\ n = Len(left) \/ (n = Len(left) + 1 /\ all[n] = last)
    <2>1. Len(s) = Len(left)
      BY <1>4, <1>5, LengthOf
    <2>2. s \in Seq({s[i] : i \in 1..Len(left)} \union {last})
      BY <1>4, <1>5
    <2>3. CASE extra
      <3>1. /\ Append(s, last) = [i \in 1..(Len(left) + 1) |-> Append(s, last)[i]]
            /\ \A i \in 1..Len(left) : Append(s, last)[i] = s[i]
            /\ Append(s, last)[Len(left) + 1] = last
        <4>1. Append(s, last) \in Seq({s[i] : i \in 1..Len(left)} \union {last})
          BY <2>2
        <4>2. Len(Append(s, last)) = Len(left) + 1
          BY <2>1, <2>2
        <4>3. Append(s, last) = [i \in 1..(Len(left) + 1) |-> Append(s, last)[i]]
          <5> DEFINE t == Append(s, last)
          <5> HIDE DEF t
          <5>1. t \in Seq({s[i] : i \in 1..Len(left)} \union {last}) /\ Len(t) = Len(left) + 1
            BY <4>1, <4>2 DEF t
          <5>2. t = [i \in 1..(Len(left) + 1) |-> t[i]]
            BY <5>1
          <5> QED  BY <5>2 DEF t
        <4> QED  BY <2>1, <2>2, <4>3
      <3>2. all = Append(s, last) /\ n = Len(left) + 1
        BY <2>3
      <3> HIDE DEF all, n
      <3>3. all = [i \in 1..n |-> all[i]]
        BY <3>1, <3>2, Zenon
      <3>4. n \in Nat
        BY <1>4, <3>2
      <3>5. all[n] = last /\ \A i \in 1..Len(left) : all[i] = s[i]
        BY <3>1, <3>2, Zenon
      <3> QED  BY <3>2, <3>3, <3>4, <3>5
    <2>4. CASE ~extra
      <3>1. all = s /\ n = Len(left)
        BY <2>4
      <3> HIDE DEF all, n
      <3> QED  BY <1>4, <1>5, <3>1
    <2> QED  BY <2>3, <2>4
  <1> HIDE DEF all, n
  <1>9. ASSUME NEW i \in 1..n
        PROVE  /\ all[i] = Mem(all[i].name, all[i].value)
               /\ all[i].value = val(all[i].name)
               /\ all[i].name \in (names(card) \ removedMembers) \union {"preferredTransport"}
    <2>1. i \in 1..Len(left) \/ (i = n /\ all[n] = last)
      BY <1>4, <1>8
    <2>2. CASE i \in 1..Len(left)
      <3>1. all[i] = s[i] /\ all[i].name = left[i].name /\ all[i].value = val(left[i].name)
        BY <1>6, <1>8, <2>2
      <3>2. all[i] = Mem(left[i].name, val(left[i].name))
        BY <1>5, <2>2, <3>1
      <3>3. PICK k \in keep : left[i] = card.e[k]
        BY <1>4, <2>2
      <3>4. left[i].name \in names(card) \ removedMembers
        BY <3>3 DEF names
      <3> QED  BY <3>1, <3>2, <3>4
    <2>3. CASE i = n /\ all[n] = last
      BY <1>7, <2>3
    <2> QED  BY <2>1, <2>2, <2>3
  <1>10. Node(out) /\ out.t = "obj" /\ out.e = all /\ Len(out.e) = n
    BY <1>2, <1>8, <1>9, ObjNode
  <1>11. ASSUME NEW x \in names(card) \ removedMembers
         PROVE  x \in names(out)
    <2>1. PICK k \in keep : x = card.e[k].name
      BY DEF names
    <2>2. PICK i \in 1..Len(left) : left[i] = card.e[k]
      BY <1>4
    <2>3. i \in 1..n
      BY <1>4, <1>8
    <2>4. all[i].name = x
      BY <1>6, <1>8, <2>1, <2>2
    <2> QED  BY <1>10, <2>3, <2>4 DEF names
  <1> QED  BY <1>9, <1>10, <1>11 DEF out, val

\* The value under a name of a card that is relayed.
LEMMA CardValue ==
    ASSUME NEW publicURL, NEW card, Json(card), card.t = "obj",
           NEW n \in names(rewriteCard(card, publicURL))
    PROVE  get(rewriteCard(card, publicURL), n) = rewrittenValue(card, n, publicURL)
  <1> DEFINE out == rewriteCard(card, publicURL)
  <1>1. /\ Node(out) /\ out.t = "obj"
        /\ \A i \in 1..Len(out.e) : out.e[i].value = rewrittenValue(card, out.e[i].name, publicURL)
    BY CardMembers
  <1>2. PICK i \in 1..Len(out.e) : out.e[i].name = n /\ get(out, n) = out.e[i].value
    BY <1>1, GetFinds
  <1> QED  BY <1>1, <1>2

\* The entries of supportedInterfaces, when there are none too.
LEMMA InterfaceEntries ==
    ASSUME NEW card, Json(card), card.t = "obj"
    PROVE  /\ interfaces(card) \in Seq({interfaces(card)[i] : i \in 1..Len(interfaces(card))})
           /\ Len(interfaces(card)) \in Nat
  <1> DEFINE v == get(card, "supportedInterfaces")
  <1>1. CASE v = Absent
    <2>1. interfaces(card) = <<>> /\ Len(<<>>) = 0
      BY <1>1, ValueFields DEF interfaces
    <2>2. <<>> \in Seq({<<>>[i] : i \in 1..Len(<<>>)})
      BY <2>1
    <2> QED  BY <2>1, <2>2
  <1>2. CASE v # Absent
    <2>1. Node(v)
      BY <1>2, GetJson
    <2>2. interfaces(card) = v.e
      BY DEF interfaces
    <2> HIDE DEF v
    <2>3. v.e \in Seq({v.e[i] : i \in 1..Len(v.e)}) /\ Len(v.e) \in Nat
      BY <2>1, NodeForms DEF Node
    <2> QED  BY <2>2, <2>3
  <1> QED  BY <1>1, <1>2

\* Those of them that are kept: which, and how many are not.
LEMMA KeptEntries ==
    ASSUME NEW publicURL, NEW card, Json(card), card.t = "obj"
    PROVE  LET K == {j \in 1..Len(interfaces(card)) : keptEntry(interfaces(card)[j])}
               ks == kept(card, publicURL) IN
           /\ Len(ks) \in Nat /\ ks = [i \in 1..Len(ks) |-> ks[i]]
           /\ \A i \in 1..Len(ks) : \E j \in K : ks[i] = freshEntry(interfaces(card)[j], publicURL)
           /\ \E f \in [1..Len(ks) -> K] :
                 /\ \A i \in 1..Len(ks) : ks[i] = freshEntry(interfaces(card)[f[i]], publicURL)
                 /\ \A i, j \in 1..Len(ks) : i < j => f[i] < f[j]
           /\ Len(ks) + Cardinality({j \in 1..Len(interfaces(card)) : ~keptEntry(interfaces(card)[j])})
              = Len(interfaces(card))
  <1> DEFINE es == interfaces(card)
             K == {j \in 1..Len(es) : keptEntry(es[j])}
             D == {j \in 1..Len(es) : ~keptEntry(es[j])}
             V == {es[i] : i \in 1..Len(es)}
             left == sieve(es, K)
             ks == kept(card, publicURL)
  <1>1. es \in Seq(V) /\ Len(es) \in Nat
    BY InterfaceEntries
  <1>2. ks = [i \in DOMAIN left |-> freshEntry(left[i], publicURL)]
    BY DEF kept
  <1> HIDE DEF ks
  <1>3. K \in SUBSET (1..Len(es)) /\ D = (1..Len(es)) \ K /\ (1..Len(es)) \intersect K = K
    OBVIOUS
  <1> HIDE DEF V, K, D, es
  <1>4. /\ left \in Seq(V) /\ Len(left) = Cardinality(K)
        /\ \A i \in 1..Len(left) : \E j \in K : left[i] = es[j]
    BY <1>1, <1>3, SieveKeeps
  <1>a. InOrder(es, K, left)
    BY <1>1, <1>3, SieveOrders
  <1> HIDE DEF left
  <1>5. Len(left) \in Nat /\ DOMAIN left = 1..Len(left)
    BY <1>4
  <1>6. ks = [i \in 1..Len(left) |-> freshEntry(left[i], publicURL)]
    BY <1>2, <1>5
  <1>7. ks = [i \in 1..Len(left) |-> ks[i]]
    BY <1>6
  <1>8. Len(ks) = Len(left)
    BY <1>5, <1>7, LengthOf
  <1>9. \A i \in 1..Len(ks) : \E j \in K : ks[i] = freshEntry(es[j], publicURL)
    BY <1>4, <1>6, <1>8
  <1>b. PICK f \in [1..Len(ks) -> K] :
            /\ \A i \in 1..Len(ks) : left[i] = es[f[i]]
            /\ \A i, j \in 1..Len(ks) : i < j => f[i] < f[j]
    BY <1>8, <1>a DEF InOrder
  <1>c. \A i \in 1..Len(ks) : ks[i] = freshEntry(es[f[i]], publicURL)
    BY <1>6, <1>8, <1>b
  <1>10. Cardinality(D) = Len(es) - Cardinality(K)
    <2>1. IsFiniteSet(1..Len(es)) /\ Cardinality(1..Len(es)) = Len(es)
      <3>1. PICK z : z = Len(es)
        OBVIOUS
      <3>2. z \in Nat /\ 1 \in Int /\ z \in Int
        BY <1>1, <3>1
      <3>3. IsFiniteSet(1..z) /\ Cardinality(1..z) = IF 1 > z THEN 0 ELSE z - 1 + 1
        BY <3>2, FS_Interval
      <3>4. Cardinality(1..z) = z
        BY <3>2, <3>3
      <3> QED  BY <3>1, <3>3, <3>4
    <2>2. Cardinality((1..Len(es)) \ K) = Cardinality(1..Len(es)) - Cardinality((1..Len(es)) \intersect K)
      BY <2>1, FS_Difference
    <2> QED  BY <1>3, <2>1, <2>2
  <1>11. Len(ks) + Cardinality(D) = Len(es)
    BY <1>1, <1>4, <1>5, <1>8, <1>10
  <1> QED  BY <1>5, <1>7, <1>8, <1>9, <1>11, <1>b, <1>c DEF ks, K, D, es

\* What a fresh entry says.
LEMMA FreshEntry ==
    ASSUME NEW e, NEW publicURL
    PROVE  LET f == freshEntry(e, publicURL) IN
           /\ Node(f) /\ f.t = "obj" /\ Len(f.e) = 3
           /\ f.e[1].value = publicURL /\ f.e[2].value = Str("JSONRPC")
           /\ f.e[3].value = get(e, "protocolVersion")
           /\ get(f, "url") = publicURL /\ get(f, "protocolBinding") = Str("JSONRPC")
           /\ get(f, "protocolVersion") = get(e, "protocolVersion")
  <1> DEFINE a == Mem("url", publicURL)
             b == Mem("protocolBinding", Str("JSONRPC"))
             c == Mem("protocolVersion", get(e, "protocolVersion"))
             s == <<a, b, c>>
             f == freshEntry(e, publicURL)
  <1>1. /\ a.name = "url" /\ a.value = publicURL
        /\ b.name = "protocolBinding" /\ b.value = Str("JSONRPC")
        /\ c.name = "protocolVersion" /\ c.value = get(e, "protocolVersion")
    BY MemFields
  <1>2. f = Obj(s)
    BY DEF freshEntry
  <1>3. a = Mem(a.name, a.value) /\ b = Mem(b.name, b.value) /\ c = Mem(c.name, c.value)
    BY <1>1
  <1> HIDE DEF a, b, c, f
  <1>4. s = [i \in 1..3 |-> s[i]] /\ s[1] = a /\ s[2] = b /\ s[3] = c
    OBVIOUS
  <1> HIDE DEF s
  <1>5. \A i \in 1..3 : i = 1 \/ i = 2 \/ i = 3
    OBVIOUS
  <1>6. \A i \in 1..3 : s[i] = Mem(s[i].name, s[i].value)
    BY <1>3, <1>4, <1>5
  <1>7. Node(f) /\ f.t = "obj" /\ f.e = s /\ Len(s) = 3
    BY <1>2, <1>4, <1>6, ObjNode
  <1>8. names(f) = {"url", "protocolBinding", "protocolVersion"}
    BY <1>1, <1>4, <1>7 DEF names
  <1>9. \A n \in names(f) : \E i \in 1..3 : s[i].name = n /\ get(f, n) = s[i].value
    BY <1>7, GetFinds
  <1>10. get(f, "url") = publicURL
    <2>1. PICK i \in 1..3 : s[i].name = "url" /\ get(f, "url") = s[i].value
      BY <1>8, <1>9
    <2> QED  BY <1>1, <1>4, <1>5, <2>1
  <1>11. get(f, "protocolBinding") = Str("JSONRPC")
    <2>1. PICK i \in 1..3 : s[i].name = "protocolBinding" /\ get(f, "protocolBinding") = s[i].value
      BY <1>8, <1>9
    <2> QED  BY <1>1, <1>4, <1>5, <2>1
  <1>12. get(f, "protocolVersion") = get(e, "protocolVersion")
    <2>1. PICK i \in 1..3 : s[i].name = "protocolVersion" /\ get(f, "protocolVersion") = s[i].value
      BY <1>8, <1>9
    <2> QED  BY <1>1, <1>4, <1>5, <2>1
  <1> QED  BY <1>1, <1>4, <1>7, <1>10, <1>11, <1>12 DEF f

\* The members of a card that is relayed, against those of the agent's.
LEMMA CardNames ==
    ASSUME NEW publicURL, NEW card, Json(card), card.t = "obj"
    PROVE  LET out == rewriteCard(card, publicURL) IN
           /\ Node(out) /\ out.t = "obj"
           /\ names(card) \ names(out) = names(card) \intersect removedMembers
           /\ \A n \in removedMembers : n \notin names(out) /\ get(out, n) = Absent
           /\ \A n \in {"supportedInterfaces", "capabilities", "skills"} :
                 IF n \in names(card) THEN get(out, n) = rewrittenValue(card, n, publicURL)
                 ELSE get(out, n) = Absent /\ get(card, n) = Absent
  <1> DEFINE out == rewriteCard(card, publicURL)
  <1>1. /\ Node(out) /\ out.t = "obj"
        /\ \A i \in 1..Len(out.e) :
              out.e[i].name \in (names(card) \ removedMembers) \union {"preferredTransport"}
        /\ names(card) \ removedMembers \subseteq names(out)
    BY CardMembers
  <1>2. \A n \in names(out) : get(out, n) = rewrittenValue(card, n, publicURL)
    BY CardValue
  <1>3. Node(card)
    BY JsonParts
  <1> HIDE DEF out
  <1>4. names(out) \subseteq (names(card) \ removedMembers) \union {"preferredTransport"}
    BY <1>1 DEF names
  <1>5. {"supportedInterfaces", "capabilities", "skills", "preferredTransport"} \intersect removedMembers = {}
    BY DEF removedMembers, droppedCardMembers
  <1>6. ASSUME NEW n, n \notin names(out)
        PROVE  get(out, n) = Absent
    BY <1>1, <1>6, GetFinds
  <1>7. ASSUME NEW n \in removedMembers
        PROVE  n \notin names(out) /\ get(out, n) = Absent
    BY <1>4, <1>5, <1>6
  <1>8. ASSUME NEW n \in {"supportedInterfaces", "capabilities", "skills"}
        PROVE  IF n \in names(card) THEN get(out, n) = rewrittenValue(card, n, publicURL)
               ELSE get(out, n) = Absent /\ get(card, n) = Absent
    <2>1. CASE n \in names(card)
      BY <1>1, <1>2, <1>5, <2>1
    <2>2. CASE n \notin names(card)
      <3>1. n \notin names(out) /\ n # "preferredTransport"
        BY <1>4, <2>2
      <3>2. get(card, n) = Absent
        BY <1>3, <2>2, GetFinds
      <3> QED  BY <1>6, <2>2, <3>1, <3>2
    <2> QED  BY <2>1, <2>2
  <1>9. names(card) \ names(out) = names(card) \intersect removedMembers
    BY <1>1, <1>4, <1>5
  <1> QED  BY <1>1, <1>7, <1>8, <1>9 DEF out

\* The interfaces of a card that is relayed are the agent's that are kept.
LEMMA CardInterfaces ==
    ASSUME NEW publicURL, NEW card, Json(card), card.t = "obj"
    PROVE  LET out == rewriteCard(card, publicURL)
               mine == interfaces(out)
               es == interfaces(card) IN
           /\ Len(mine) \in Nat /\ Len(es) \in Nat
           /\ \E f \in [1..Len(mine) -> {j \in 1..Len(es) : keptEntry(es[j])}] :
                 /\ \A i \in 1..Len(mine) : mine[i] = freshEntry(es[f[i]], publicURL)
                 /\ \A i, j \in 1..Len(mine) : i < j => f[i] < f[j]
           /\ Len(mine) + Cardinality({j \in 1..Len(es) : ~keptEntry(es[j])}) = Len(es)
  <1> DEFINE out == rewriteCard(card, publicURL)
             mine == interfaces(out)
             es == interfaces(card)
             K == {j \in 1..Len(es) : keptEntry(es[j])}
             D == Cardinality({j \in 1..Len(es) : ~keptEntry(es[j])})
             ks == kept(card, publicURL)
  <1>1. Len(es) \in Nat
    BY InterfaceEntries
  <1>2. IF "supportedInterfaces" \in names(card)
        THEN get(out, "supportedInterfaces") = rewrittenValue(card, "supportedInterfaces", publicURL)
        ELSE get(out, "supportedInterfaces") = Absent /\ get(card, "supportedInterfaces") = Absent
    BY CardNames
  <1> SUFFICES /\ Len(mine) \in Nat
               /\ \E f \in [1..Len(mine) -> K] :
                     /\ \A i \in 1..Len(mine) : mine[i] = freshEntry(es[f[i]], publicURL)
                     /\ \A i, j \in 1..Len(mine) : i < j => f[i] < f[j]
               /\ Len(mine) + D = Len(es)
    BY <1>1
  <1>3. CASE "supportedInterfaces" \in names(card)
    <2>1. rewrittenValue(card, "supportedInterfaces", publicURL) = Arr(ks)
      BY DEF rewrittenValue
    <2>2. mine = ks
      BY <1>2, <1>3, <2>1, ValueFields DEF interfaces
    <2>3. /\ Len(ks) \in Nat
          /\ \E f \in [1..Len(ks) -> K] :
                /\ \A i \in 1..Len(ks) : ks[i] = freshEntry(es[f[i]], publicURL)
                /\ \A i, j \in 1..Len(ks) : i < j => f[i] < f[j]
          /\ Len(ks) + D = Len(es)
      BY KeptEntries
    <2> HIDE DEF ks, mine, es, K, D
    <2> QED  BY <2>2, <2>3
  <1>4. CASE "supportedInterfaces" \notin names(card)
    <2>1. mine = <<>> /\ es = <<>> /\ Len(<<>>) = 0 /\ 1..0 = {}
      BY <1>2, <1>4, ValueFields DEF interfaces
    <2>2. D = 0
      <3>1. {j \in 1..Len(es) : ~keptEntry(es[j])} = {}
        BY <2>1
      <3> QED  BY <3>1, FS_EmptySet
    <2> HIDE DEF mine, es, K, D
    <2> DEFINE f == [i \in 1..0 |-> 0]
    <2>3. f \in [1..Len(mine) -> K]
      BY <2>1
    <2>4. Len(mine) = 0 /\ 1..Len(mine) = {} /\ Len(mine) + D = Len(es)
      BY <2>1, <2>2
    <2> HIDE DEF f
    <2>5. \E g \in [1..Len(mine) -> K] :
              /\ \A i \in 1..Len(mine) : mine[i] = freshEntry(es[g[i]], publicURL)
              /\ \A i, j \in 1..Len(mine) : i < j => g[i] < g[j]
      BY <2>3, <2>4, Zenon
    <2>6. Len(mine) \in Nat
      BY <2>4
    <2> QED  BY <2>4, <2>5, <2>6
  <1> QED  BY <1>3, <1>4

\* What is taken out of the capabilities and the skills.
LEMMA NestedRemovals ==
    ASSUME NEW publicURL, NEW card, Json(card), ~cardRefused(card)
    PROVE  LET out == rewriteCard(card, publicURL) IN
           /\ names(get(card, "capabilities")) \ names(get(out, "capabilities"))
                = names(get(card, "capabilities")) \intersect {"extensions"}
           /\ Len(get(out, "skills").e) = Len(get(card, "skills").e)
           /\ \A i \in 1..Len(get(card, "skills").e) :
                 names(skill(card, i)) \ names(skill(out, i))
                 = names(skill(card, i)) \intersect droppedSkillMembers
  <1> DEFINE out == rewriteCard(card, publicURL)
  <1>1. card.t = "obj"
    BY DEF cardRefused, scanObject
  <1>2. \A n \in {"capabilities", "skills"} :
            IF n \in names(card) THEN get(out, n) = rewrittenValue(card, n, publicURL)
            ELSE get(out, n) = Absent /\ get(card, n) = Absent
    BY <1>1, CardNames
  <1> HIDE DEF out
  <1>3. names(Absent) = {} /\ Absent.e = <<>> /\ Len(<<>>) = 0 /\ 1..0 = {}
    BY ValueFields DEF names
  <1>4. names(get(card, "capabilities")) \ names(get(out, "capabilities"))
            = names(get(card, "capabilities")) \intersect {"extensions"}
    <2> DEFINE caps == get(card, "capabilities")
    <2>1. CASE "capabilities" \in names(card)
      <3>1. get(out, "capabilities") = without(caps, "extensions")
        BY <1>2, <2>1 DEF rewrittenValue
      <3>2. Node(caps)
        BY <1>1, <2>1, GetJson
      <3> HIDE DEF caps
      <3>3. names(without(caps, "extensions")) = names(caps) \ {"extensions"}
        BY <3>2, WithoutKeeps
      <3> QED  BY <3>1, <3>3 DEF caps
    <2>2. CASE "capabilities" \notin names(card)
      BY <1>2, <1>3, <2>2
    <2> QED  BY <2>1, <2>2
  <1>5. /\ Len(get(out, "skills").e) = Len(get(card, "skills").e)
        /\ \A i \in 1..Len(get(card, "skills").e) :
              names(skill(card, i)) \ names(skill(out, i))
              = names(skill(card, i)) \intersect droppedSkillMembers
    <2> DEFINE sk == get(card, "skills")
               now == get(out, "skills")
    <2>1. CASE "skills" \in names(card)
      <3> DEFINE bare(x) == without(without(x, "security"), "securityRequirements")
                 t == [i \in DOMAIN sk.e |-> bare(sk.e[i])]
      <3>1. now = Arr(t)
        BY <1>2, <2>1 DEF rewrittenValue
      <3>2. Json(sk) /\ Node(sk) /\ sk.t = "arr"
            /\ \A i \in 1..Len(sk.e) : sk.e[i].t = "obj"
        <4>1. Json(sk) /\ Node(sk)
          BY <1>1, <2>1, GetJson
        <4>2. PICK k \in 1..Len(card.e) : card.e[k].name = "skills" /\ sk = card.e[k].value
          <5>1. Node(card)
            BY JsonParts
          <5> QED  BY <1>1, <2>1, <5>1, GetFinds
        <4>3. checkTyped("skills", sk)
          BY <4>2 DEF cardRefused
        <4>4. sk.t = "arr" /\ \A i \in 1..Len(sk.e) : objTyped(sk.e[i], skillSchema)
          <5> HIDE DEF sk
          <5> QED  BY <4>3 DEF checkTyped, relayedStrings, relayedModes
        <4> QED  BY <4>1, <4>4 DEF objTyped, scanObject
      <3>3. now.e = t
        BY <3>1, ValueFields
      <3> HIDE DEF now, sk
      <3>4. Len(sk.e) \in Nat /\ DOMAIN sk.e = 1..Len(sk.e)
        BY <3>2, NodeForms DEF Node
      <3> HIDE DEF bare
      <3>5. t = [i \in 1..Len(sk.e) |-> t[i]] /\ \A i \in 1..Len(sk.e) : t[i] = bare(sk.e[i])
        BY <3>4
      <3> HIDE DEF t
      <3>6. Len(now.e) = Len(sk.e)
        BY <3>3, <3>4, <3>5, LengthOf
      <3>7. ASSUME NEW i \in 1..Len(sk.e)
            PROVE  names(sk.e[i]) \ names(now.e[i]) = names(sk.e[i]) \intersect droppedSkillMembers
        <4> DEFINE x == sk.e[i]
                   y == without(x, "security")
        <4>1. Node(x) /\ x.t = "obj"
          BY <3>2, <3>7, JsonElements, JsonParts
        <4> HIDE DEF x
        <4>2. Node(y) /\ names(y) = names(x) \ {"security"}
          BY <4>1, WithoutKeeps
        <4> HIDE DEF y
        <4>3. names(without(y, "securityRequirements")) = names(y) \ {"securityRequirements"}
          BY <4>2, WithoutKeeps
        <4>4. now.e[i] = without(y, "securityRequirements")
          BY <3>3, <3>5 DEF bare, x, y
        <4>5. names(x) \ names(now.e[i]) = names(x) \intersect droppedSkillMembers
          BY <4>2, <4>3, <4>4 DEF droppedSkillMembers
        <4> QED  BY <4>5 DEF x
      <3> QED  BY <3>6, <3>7 DEF sk, now, skill
    <2>2. CASE "skills" \notin names(card)
      <3>1. sk = Absent /\ now = Absent
        BY <1>2, <2>2
      <3> HIDE DEF sk, now
      <3>2. Len(now.e) = Len(sk.e) /\ 1..Len(sk.e) = {}
        BY <1>3, <3>1
      <3> QED  BY <3>2 DEF sk, now
    <2> QED  BY <2>1, <2>2
  <1> QED  BY <1>4, <1>5 DEF out

\* A card advertises, for the agent, what the agent advertised and the point
\* serves, in the agent's order, and what is missing from it, at the top level
\* or nested, is reported.
THEOREM CardsAreHonest ==
    ASSUME NEW publicURL, NEW reached, NEW card, Json(card)
    PROVE  CardHonest(publicURL, reached, card)
  <1> DEFINE out == serveCard(publicURL, reached, card).card
             mine == interfaces(out)
             es == interfaces(card)
             extras == get(card, "additionalInterfaces").e
             sigs == get(card, "signatures").e
             D == Cardinality({j \in 1..Len(es) : ~keptEntry(es[j])})
             K == {j \in 1..Len(es) : keptEntry(es[j])}
  <1> SUFFICES ASSUME out # Absent
               PROVE  /\ InterfacesHere(publicURL, out)
                      /\ InterfacesTheAgents(card, out)
                      /\ RemovalsReported(card, out)
    BY DEF CardHonest
  <1>1. out = rewriteCard(card, publicURL) /\ ~cardRefused(card)
    BY CardServed
  <1>2. card.t = "obj" /\ names(card) \subseteq allowedCardMembers
    BY <1>1 DEF cardRefused, scanObject
  <1> HIDE DEF out
  <1>3. /\ names(card) \ names(out) = names(card) \intersect removedMembers
        /\ \A n \in removedMembers : get(out, n) = Absent
    BY <1>1, <1>2, CardNames
  <1>4. /\ Len(mine) \in Nat /\ Len(es) \in Nat
        /\ \E f \in [1..Len(mine) -> K] :
              /\ \A i \in 1..Len(mine) : mine[i] = freshEntry(es[f[i]], publicURL)
              /\ \A i, j \in 1..Len(mine) : i < j => f[i] < f[j]
        /\ Len(mine) + D = Len(es)
    BY <1>1, <1>2, CardInterfaces
  <1>5. /\ names(get(card, "capabilities")) \ names(get(out, "capabilities"))
             = names(get(card, "capabilities")) \intersect {"extensions"}
        /\ Len(get(out, "skills").e) = Len(get(card, "skills").e)
        /\ \A i \in 1..Len(get(card, "skills").e) :
              names(skill(card, i)) \ names(skill(out, i))
              = names(skill(card, i)) \intersect droppedSkillMembers
    BY <1>1, NestedRemovals
  <1>6. Len(extras) \in Nat /\ Len(sigs) \in Nat
    <2>1. Len(<<>>) = 0
      OBVIOUS
    <2>2. ASSUME NEW n
          PROVE  Len(get(card, n).e) \in Nat
      <3>1. get(card, n) = Absent \/ Node(get(card, n))
        BY GetJson
      <3> QED  BY <2>1, <3>1, ValueFields, NodeForms
    <2> QED  BY <2>2
  <1>7. PICK f \in [1..Len(mine) -> K] :
            /\ \A i \in 1..Len(mine) : mine[i] = freshEntry(es[f[i]], publicURL)
            /\ \A i, j \in 1..Len(mine) : i < j => f[i] < f[j]
    BY <1>4
  <1>8. InterfacesHere(publicURL, out)
    <2>1. \A i \in 1..Len(mine) :
            get(mine[i], "url") = publicURL /\ get(mine[i], "protocolBinding") = Str("JSONRPC")
      BY <1>7, FreshEntry
    <2> QED  BY <2>1 DEF InterfacesHere
  <1>9. InterfacesTheAgents(card, out)
    <2>1. \A k \in K : k \in 1..Len(es) /\ jsonrpc(es[k])
      BY DEF keptEntry
    <2> HIDE DEF mine, es, K
    <2>2. f \in [1..Len(mine) -> 1..Len(es)]
      BY <2>1
    <2>3. ASSUME NEW i \in 1..Len(mine)
          PROVE  jsonrpc(es[f[i]]) /\ get(mine[i], "protocolVersion") = get(es[f[i]], "protocolVersion")
      <3>1. f[i] \in K /\ mine[i] = freshEntry(es[f[i]], publicURL)
        BY <1>7
      <3> QED  BY <2>1, <3>1, FreshEntry
    <2> QED  BY <1>7, <2>2, <2>3 DEF InterfacesTheAgents, mine, es
  <1>10. Len(mine) + droppedInterfaces(card) = Len(es) + Len(extras)
    <2>1. droppedInterfaces(card) = Len(extras) + D
      BY DEF droppedInterfaces
    <2>2. D \in Nat
      <3>1. IsFiniteSet({j \in 1..Len(es) : ~keptEntry(es[j])})
        <4>1. IsFiniteSet(1..Len(es))
          <5>1. Len(es) \in Nat
            BY <1>4
          <5> HIDE DEF es
          <5>2. 1 \in Int /\ Len(es) \in Int
            BY <5>1
          <5> QED  BY <5>2, FS_Interval
        <4> QED  BY <4>1, FS_Subset
      <3> QED  BY <3>1, FS_CardinalityType
    <2> HIDE DEF D, es, mine, extras
    <2> QED  BY <1>4, <1>6, <2>1, <2>2
  <1>11. Len(get(out, "signatures").e) + strippedSignatures(card) = Len(sigs)
    <2>1. get(out, "signatures") = Absent
      BY <1>3 DEF removedMembers
    <2>2. Len(get(out, "signatures").e) = 0
      BY <2>1, ValueFields
    <2>3. strippedSignatures(card) = Len(sigs)
      BY DEF strippedSignatures
    <2> HIDE DEF sigs
    <2> QED  BY <1>6, <2>2, <2>3
  <1>12. lost(card, out) =
            droppedMembers(card)
            \union {<<n>> : n \in names(card) \intersect {"additionalInterfaces", "signatures"}}
    <2> DEFINE A == names(card)
               B == names(get(card, "capabilities"))
               N == 1..Len(get(card, "skills").e)
               own(i) == names(skill(card, i))
               left(i) == names(skill(out, i))
               cut(i) == {<<"skills", n>> : n \in own(i) \ left(i)}
               told(i) == {<<"skills", n>> : n \in own(i) \intersect droppedSkillMembers}
    <2>1. \A i \in N : cut(i) = told(i)
      BY <1>5
    <2>2. (UNION {cut(i) : i \in N}) = UNION {told(i) : i \in N}
      <3> HIDE DEF cut, told, N
      <3> QED  BY <2>1, Zenon
    <2>3. {<<n>> : n \in A \ names(out)} = {<<n>> : n \in A \intersect droppedCardMembers}
              \union {<<n>> : n \in A \intersect {"additionalInterfaces", "signatures"}}
      <3>1. A \ names(out) = (A \intersect droppedCardMembers)
                \union (A \intersect {"additionalInterfaces", "signatures"})
        BY <1>3 DEF removedMembers
      <3> HIDE DEF A
      <3> QED  BY <3>1, Zenon
    <2>4. {<<"capabilities", n>> : n \in B \ names(get(out, "capabilities"))}
             = {<<"capabilities", n>> : n \in B \intersect {"extensions"}}
      BY <1>5
    <2> DEFINE X == {<<n>> : n \in A \ names(out)}
               X1 == {<<n>> : n \in A \intersect droppedCardMembers}
               X2 == {<<n>> : n \in A \intersect {"additionalInterfaces", "signatures"}}
               Y == {<<"capabilities", n>> : n \in B \ names(get(out, "capabilities"))}
               Y1 == {<<"capabilities", n>> : n \in B \intersect {"extensions"}}
               Z == UNION {cut(i) : i \in N}
               Z1 == UNION {told(i) : i \in N}
    <2>5. lost(card, out) = X \union Y \union Z
      BY DEF lost
    <2>6. droppedMembers(card) = X1 \union Y1 \union Z1
      BY DEF droppedMembers
    <2>7. X = X1 \union X2 /\ Y = Y1 /\ Z = Z1
      BY <2>2, <2>3, <2>4
    <2> HIDE DEF X, X1, Y, Y1, Z, Z1
    <2>8. X2 = {<<n>> : n \in names(card) \intersect {"additionalInterfaces", "signatures"}}
      OBVIOUS
    <2> HIDE DEF X2
    <2>9. lost(card, out) = droppedMembers(card) \union X2
      BY <2>5, <2>6, <2>7
    <2> QED  BY <2>8, <2>9
  <1>13. RemovalsReported(card, out)
    BY <1>5, <1>10, <1>11, <1>12 DEF RemovalsReported
  <1> QED  BY <1>8, <1>9, <1>13

\* What counts as free text.
LEMMA FreeTextHas ==
    ASSUME NEW card
    PROVE  LET skills == get(card, "skills").e IN
           /\ \A n \in relayedStrings \ {"preferredTransport"} : get(card, n) \in freeText(card)
           /\ \A n \in relayedModes : \A i \in 1..Len(get(card, n).e) : get(card, n).e[i] \in freeText(card)
           /\ \A i \in 1..Len(skills) : \A n \in textMembers : get(skills[i], n) \in freeText(card)
           /\ \A i \in 1..Len(skills) : \A n \in arrayMembers :
                 \A k \in 1..Len(get(skills[i], n).e) : get(skills[i], n).e[k] \in freeText(card)
  <1> DEFINE skills == get(card, "skills").e
  <1>1. \A v : \A i \in 1..Len(v.e) : v.e[i] \in itemsOf(v)
    BY DEF itemsOf
  <1>2. \A sk : \A n \in textMembers : get(sk, n) \in skillText(sk)
    BY DEF skillText
  <1>3. ASSUME NEW sk, NEW n \in arrayMembers, NEW k \in 1..Len(get(sk, n).e)
        PROVE  get(sk, n).e[k] \in skillText(sk)
    <2>1. get(sk, n).e[k] \in itemsOf(get(sk, n))
      BY <1>1
    <2> QED  BY <2>1 DEF skillText
  <1>4. \A n \in relayedStrings \ {"preferredTransport"} : get(card, n) \in freeText(card)
    BY DEF freeText
  <1>5. ASSUME NEW n \in relayedModes, NEW i \in 1..Len(get(card, n).e)
        PROVE  get(card, n).e[i] \in freeText(card)
    <2>1. get(card, n).e[i] \in itemsOf(get(card, n))
      BY <1>1
    <2>2. get(card, n).e[i] \in UNION {itemsOf(get(card, m)) : m \in relayedModes}
      BY <2>1
    <2> QED  BY <2>2, Zenon DEF freeText
  <1>6. \A i \in 1..Len(skills) : skillText(skills[i]) \subseteq freeText(card)
    <2> SUFFICES ASSUME NEW i \in 1..Len(skills), NEW x \in skillText(skills[i])
                 PROVE  x \in freeText(card)
      OBVIOUS
    <2>1. skills[i] \in itemsOf(get(card, "skills"))
      BY <1>1
    <2> DEFINE C == UNION {skillText(sk) : sk \in itemsOf(get(card, "skills"))}
    <2>2. x \in C
      BY <2>1
    <2>3. C \subseteq freeText(card)
      <3> DEFINE A == {get(card, n) : n \in relayedStrings \ {"preferredTransport"}}
                 B == UNION {itemsOf(get(card, n)) : n \in relayedModes}
      <3>1. freeText(card) = A \union B \union C
        BY DEF freeText
      <3> HIDE DEF A, B, C
      <3> QED  BY <3>1
    <2> HIDE DEF C
    <2> QED  BY <2>2, <2>3
  <1> QED  BY <1>2, <1>3, <1>4, <1>5, <1>6

\* The kinds of the members of a skill.
LEMMA SkillKinds ==
    ASSUME NEW n \in DOMAIN skillSchema, n \notin {"security", "securityRequirements"}
    PROVE  \/ n \in textMembers /\ skillSchema[n] = kindString
           \/ n \in arrayMembers /\ skillSchema[n] = kindStringArray
  <1>1. skillSchema[n] = kindString \/ skillSchema[n] = kindStringArray
    BY DEF skillSchema
  <1> QED  BY <1>1 DEF textMembers, arrayMembers

\* A leaf of the type its kind says.
LEMMA LeafKinds ==
    ASSUME NEW v
    PROVE  /\ leafTyped(v, kindString) => v.t \in {"str", "null"}
           /\ leafTyped(v, kindBool) => v.t \in {"bool", "null"}
           /\ leafTyped(v, kindStringArray) =>
                 v.t = "arr" /\ \A i \in 1..Len(v.e) : v.e[i].t \in {"str", "null"}
  BY DEF leafTyped, kindString, kindBool, kindStringArray, isString, isBool

\* An array of strings hides what is none of them.
LEMMA StringsHide ==
    ASSUME NEW v, NEW a, a.t = "str", leafTyped(v, kindStringArray), \A i \in 1..Len(v.e) : v.e[i] # a
    PROVE  Hides(v, a)
  <1>1. v.t = "arr" /\ \A i \in 1..Len(v.e) : v.e[i].t \in {"str", "null"}
    BY LeafKinds
  <1>2. \A i \in 1..Len(v.e) : Hides(v.e[i], a)
    BY <1>1, HidesScalar
  <1> QED  BY <1>1, <1>2, HidesContainer

\* A member of a card that is relayed has been checked.
LEMMA MemberTyped ==
    ASSUME NEW card, Json(card), ~cardRefused(card), NEW n \in names(card)
    PROVE  checkTyped(n, get(card, n)) /\ Json(get(card, n)) /\ n \in allowedCardMembers /\ card.t = "obj"
  <1>1. /\ scanObject(card, allowedCardMembers)
        /\ \A i \in 1..Len(card.e) : checkTyped(card.e[i].name, card.e[i].value)
    BY DEF cardRefused
  <1>2. card.t = "obj" /\ Node(card) /\ n \in allowedCardMembers
    BY <1>1, JsonParts DEF scanObject
  <1>3. PICK i \in 1..Len(card.e) : card.e[i].name = n /\ get(card, n) = card.e[i].value
    BY <1>2, GetFinds
  <1>4. Json(get(card, n))
    BY <1>2, <1>3, JsonElements
  <1> QED  BY <1>1, <1>2, <1>3, <1>4

\* The entries of supportedInterfaces that are relayed name only the point.
LEMMA InterfacesHide ==
    ASSUME NEW card, Json(card), ~cardRefused(card), "supportedInterfaces" \in names(card),
           NEW publicURL, publicURL.t = "str", NEW a, a.t = "str",
           a # publicURL, a # Str("JSONRPC"), \A x \in knownProtocolVersions : a # Str(x)
    PROVE  Hides(Arr(kept(card, publicURL)), a)
  <1> DEFINE es == interfaces(card)
             ks == kept(card, publicURL)
             v == get(card, "supportedInterfaces")
  <1>1. /\ isArray(v) /\ \A j \in 1..Len(es) : ~entryRefused(es[j])
        /\ Json(v) /\ card.t = "obj"
    BY MemberTyped DEF cardRefused, hasMember
  <1>2. /\ Len(ks) \in Nat
        /\ \A i \in 1..Len(ks) :
              \E j \in {k \in 1..Len(es) : keptEntry(es[k])} : ks[i] = freshEntry(es[j], publicURL)
    BY <1>1, KeptEntries
  <1>3. es = v.e
    BY DEF interfaces
  <1> HIDE DEF es, ks, v
  <1>4. ASSUME NEW i \in 1..Len(ks)
        PROVE  Hides(ks[i], a)
    <2>1. PICK j \in 1..Len(es) : keptEntry(es[j]) /\ ks[i] = freshEntry(es[j], publicURL)
      BY <1>2
    <2> DEFINE e == es[j]
               version == get(e, "protocolVersion")
    <2>2. v.t = "arr"
      <3>1. Node(v)
        BY <1>1, JsonParts
      <3>2. Len(v.e) # 0
        BY <1>3
      <3>3. v.t \in {"obj", "arr"}
        BY <3>1, <3>2, NodeForms
      <3> QED  BY <1>1, <3>3 DEF isArray
    <2>3. Json(e)
      BY <1>1, <1>3, <2>2, JsonElements
    <2>4. version.v \in knownProtocolVersions /\ isString(version)
      <3>1. jsonrpc(e) /\ version.v \in knownProtocolVersions
        BY <2>1 DEF keptEntry
      <3>2. ~entryRefused(e)
        BY <1>1
      <3> QED  BY <3>1, <3>2 DEF entryRefused
    <2>5. version # a /\ version.t \in {"str", "null"}
      <3>1. version.t \in {"str", "null"}
        BY <2>4 DEF isString
      <3>2. CASE version.t = "str"
        <4>1. Node(version)
          BY <2>3, <3>2, GetJson, ValueFields
        <4>2. version = Str(version.v)
          BY <3>2, <4>1, NodeForms
        <4> QED  BY <2>4, <3>1, <4>2
      <3> QED  BY <3>1, <3>2
    <2> HIDE DEF e, version
    <2> DEFINE f == ks[i]
    <2>6. /\ f.t = "obj" /\ Len(f.e) = 3
          /\ f.e[1].value = publicURL /\ f.e[2].value = Str("JSONRPC") /\ f.e[3].value = version
      BY <2>1, FreshEntry DEF e, version
    <2> HIDE DEF f
    <2>7. Hides(publicURL, a) /\ Hides(Str("JSONRPC"), a) /\ Hides(version, a)
      BY <2>5, HidesScalar, ValueFields
    <2>8. \A k \in 1..3 : k = 1 \/ k = 2 \/ k = 3
      OBVIOUS
    <2>9. \A k \in 1..Len(f.e) : Hides(f.e[k].value, a)
      BY <2>6, <2>7, <2>8
    <2>10. Hides(f, a)
      BY <2>6, <2>9, HidesContainer
    <2> QED  BY <2>10 DEF f
  <1>5. Arr(ks).t = "arr" /\ Arr(ks).e = ks
    BY ValueFields
  <1>6. Hides(Arr(ks), a)
    BY <1>4, <1>5, HidesContainer
  <1> QED  BY <1>6 DEF ks

\* The capabilities that are relayed are booleans.
LEMMA CapabilitiesHide ==
    ASSUME NEW v, Json(v), objTyped(v, capabilitiesSchema), NEW a, a.t = "str"
    PROVE  Hides(without(v, "extensions"), a)
  <1> DEFINE r == without(v, "extensions")
  <1>1. /\ scanObject(v, DOMAIN capabilitiesSchema)
        /\ \A i \in 1..Len(v.e) : leafTyped(v.e[i].value, capabilitiesSchema[v.e[i].name])
    BY DEF objTyped
  <1>2. Node(v) /\ v.t = "obj" /\ names(v) \subseteq DOMAIN capabilitiesSchema
    BY <1>1, JsonParts DEF scanObject
  <1>3. Kept(v, r, {i \in 1..Len(v.e) : v.e[i].name # "extensions"})
    BY <1>2, WithoutKeeps
  <1> HIDE DEF r
  <1>4. ASSUME NEW i \in 1..Len(r.e)
        PROVE  Hides(r.e[i].value, a)
    <2>1. PICK k \in 1..Len(v.e) : v.e[k].name # "extensions" /\ r.e[i] = v.e[k]
      BY <1>3 DEF Kept
    <2>2. v.e[k].name \in DOMAIN capabilitiesSchema
      BY <1>2 DEF names
    <2>3. capabilitiesSchema[v.e[k].name] = kindBool
      BY <2>1, <2>2 DEF capabilitiesSchema
    <2>4. leafTyped(v.e[k].value, kindBool)
      BY <1>1, <2>3
    <2>5. v.e[k].value.t \in {"bool", "null"}
      BY <2>4, LeafKinds
    <2> QED  BY <2>1, <2>5, HidesScalar
  <1>5. r.t = "obj"
    BY <1>3 DEF Kept
  <1>6. Hides(r, a)
    BY <1>4, <1>5, HidesContainer
  <1> QED  BY <1>6 DEF r

\* What is relayed of a skill is its text.
LEMMA SkillHides ==
    ASSUME NEW sk, Json(sk), objTyped(sk, skillSchema), NEW a, a.t = "str",
           \A n \in textMembers : get(sk, n) # a,
           \A n \in arrayMembers : \A k \in 1..Len(get(sk, n).e) : get(sk, n).e[k] # a
    PROVE  Hides(without(without(sk, "security"), "securityRequirements"), a)
  <1> DEFINE q == without(sk, "security")
             r == without(q, "securityRequirements")
  <1>1. /\ scanObject(sk, DOMAIN skillSchema)
        /\ \A i \in 1..Len(sk.e) : leafTyped(sk.e[i].value, skillSchema[sk.e[i].name])
    BY DEF objTyped
  <1>2. Node(sk) /\ sk.t = "obj"
    BY <1>1, JsonParts DEF scanObject
  <1>3. Kept(sk, q, {i \in 1..Len(sk.e) : sk.e[i].name # "security"}) /\ Node(q)
    BY <1>2, WithoutKeeps
  <1> HIDE DEF q
  <1>4. Kept(q, r, {i \in 1..Len(q.e) : q.e[i].name # "securityRequirements"})
    BY <1>3, WithoutKeeps
  <1> HIDE DEF r
  <1>5. ASSUME NEW i \in 1..Len(r.e)
        PROVE  Hides(r.e[i].value, a)
    <2>1. PICK j \in 1..Len(q.e) : q.e[j].name # "securityRequirements" /\ r.e[i] = q.e[j]
      BY <1>4 DEF Kept
    <2>2. PICK k \in 1..Len(sk.e) : sk.e[k].name # "security" /\ q.e[j] = sk.e[k]
      BY <1>3 DEF Kept
    <2> DEFINE n == sk.e[k].name
               x == sk.e[k].value
    <2>3. /\ r.e[i].value = x /\ n \notin {"security", "securityRequirements"}
          /\ get(sk, n) = x /\ n \in DOMAIN skillSchema /\ leafTyped(x, skillSchema[n])
      BY <1>1, <1>2, <2>1, <2>2, GetUnique
    <2> HIDE DEF n, x
    <2>4. CASE n \in textMembers /\ skillSchema[n] = kindString
      <3>1. x # a /\ leafTyped(x, kindString)
        BY <2>3, <2>4
      <3>2. x.t \in {"str", "null"}
        BY <3>1, LeafKinds
      <3> QED  BY <2>3, <3>1, <3>2, HidesScalar
    <2>5. CASE n \in arrayMembers /\ skillSchema[n] = kindStringArray
      <3>1. leafTyped(x, kindStringArray) /\ \A m \in 1..Len(x.e) : x.e[m] # a
        BY <2>3, <2>5
      <3> QED  BY <2>3, <3>1, StringsHide
    <2> QED  BY <2>3, <2>4, <2>5, SkillKinds
  <1>6. r.t = "obj"
    BY <1>4 DEF Kept
  <1>7. Hides(r, a)
    BY <1>5, <1>6, HidesContainer
  <1> QED  BY <1>7 DEF r, q

\* The skills of a card, each without what is removed from it.
LEMMA SkillsHide ==
    ASSUME NEW card, Json(card), ~cardRefused(card), "skills" \in names(card), NEW publicURL,
           NEW a, a.t = "str", a \notin freeText(card)
    PROVE  Hides(rewrittenValue(card, "skills", publicURL), a)
  <1> DEFINE v == get(card, "skills")
             cut(sk) == without(without(sk, "security"), "securityRequirements")
             s == [i \in DOMAIN v.e |-> cut(v.e[i])]
  <1>1. rewrittenValue(card, "skills", publicURL) = Arr(s)
    BY DEF rewrittenValue
  <1>2. checkTyped("skills", v) /\ Json(v)
    BY MemberTyped
  <1>3. v.t = "arr" /\ \A i \in 1..Len(v.e) : objTyped(v.e[i], skillSchema)
    BY <1>2 DEF checkTyped, relayedStrings, relayedModes
  <1>4. Len(v.e) \in Nat /\ DOMAIN v.e = 1..Len(v.e)
    BY <1>2, JsonParts, NodeForms
  <1>5. /\ \A i \in 1..Len(v.e) : \A n \in textMembers : get(v.e[i], n) # a
        /\ \A i \in 1..Len(v.e) : \A n \in arrayMembers :
              \A k \in 1..Len(get(v.e[i], n).e) : get(v.e[i], n).e[k] # a
    BY FreeTextHas
  <1> HIDE DEF v
  <1>6. \A i \in 1..Len(v.e) : Hides(cut(v.e[i]), a)
    BY <1>2, <1>3, <1>5, JsonElements, SkillHides
  <1> HIDE DEF cut
  <1>7. s = [i \in 1..Len(v.e) |-> s[i]] /\ \A i \in 1..Len(v.e) : s[i] = cut(v.e[i])
    BY <1>4
  <1> HIDE DEF s
  <1>8. Len(s) = Len(v.e)
    BY <1>4, <1>7, LengthOf
  <1>9. Arr(s).t = "arr" /\ Arr(s).e = s
    BY ValueFields
  <1>10. \A i \in 1..Len(s) : Hides(s[i], a)
    BY <1>6, <1>7, <1>8
  <1> DEFINE r == Arr(s)
  <1> HIDE DEF r
  <1>11. r.t = "arr" /\ \A i \in 1..Len(r.e) : Hides(r.e[i], a)
    BY <1>9, <1>10 DEF r
  <1>12. Hides(r, a)
    BY <1>11, HidesContainer
  <1> QED  BY <1>1, <1>12 DEF r, s, cut, v

\* No card that is relayed names an address that is neither the point's nor
\* free text, wherever the agent put it.
THEOREM CardsHideAgent ==
    ASSUME NEW publicURL, publicURL = Absent \/ publicURL.t = "str", NEW reached,
           NEW card, Json(card), NEW address, address.t = "str"
    PROVE  CardHidesAgent(publicURL, reached, card, address)
  <1> DEFINE out == serveCard(publicURL, reached, card).card
  <1> SUFFICES ASSUME address \notin freeText(card), address # publicURL, address # Str("JSONRPC"),
                      \A x \in knownProtocolVersions : address # Str(x)
               PROVE  Hides(out, address)
    <2>1. Hides(out, address) => ~mentions(out, address)
      BY NestingAssumption DEF Hides, mentions
    <2> HIDE DEF out
    <2> QED  BY <2>1 DEF CardHidesAgent, out
  <1>1. CASE out = Absent
    BY <1>1, HidesScalar, ValueFields
  <1>2. CASE out # Absent
    <2>1. out = rewriteCard(card, publicURL) /\ ~cardRefused(card) /\ publicURL.t = "str"
      BY <1>2, CardServed
    <2>2. scanObject(card, allowedCardMembers)
      BY <2>1 DEF cardRefused
    <2>3. card.t = "obj" /\ names(card) \subseteq allowedCardMembers
      BY <2>2 DEF scanObject
    <2> HIDE DEF out
    <2>4. /\ out.t = "obj"
          /\ \A i \in 1..Len(out.e) :
                /\ out.e[i].value = rewrittenValue(card, out.e[i].name, publicURL)
                /\ out.e[i].name \in (names(card) \ removedMembers) \union {"preferredTransport"}
      BY <2>1, <2>3, CardMembers
    <2>5. ASSUME NEW n \in (names(card) \ removedMembers) \union {"preferredTransport"}
          PROVE  Hides(rewrittenValue(card, n, publicURL), address)
      <3>1. CASE n = "preferredTransport"
        <4>1. rewrittenValue(card, n, publicURL) = Str("JSONRPC")
          BY <3>1 DEF rewrittenValue
        <4> QED  BY <4>1, HidesScalar, ValueFields
      <3>2. CASE n = "url"
        <4>1. rewrittenValue(card, n, publicURL) = publicURL
          BY <3>2 DEF rewrittenValue
        <4> QED  BY <2>1, <4>1, HidesScalar
      <3>3. CASE n = "supportedInterfaces"
        <4>1. rewrittenValue(card, n, publicURL) = Arr(kept(card, publicURL))
          BY <3>3 DEF rewrittenValue
        <4>2. "supportedInterfaces" \in names(card)
          BY <3>3
        <4> QED  BY <2>1, <4>1, <4>2, InterfacesHide
      <3>4. CASE n = "capabilities"
        <4>1. rewrittenValue(card, n, publicURL) = without(get(card, n), "extensions")
          BY <3>4 DEF rewrittenValue
        <4>2. n \in names(card)
          BY <3>4
        <4>3. checkTyped(n, get(card, n)) /\ Json(get(card, n))
          BY <2>1, <4>2, MemberTyped
        <4>4. objTyped(get(card, n), capabilitiesSchema)
          BY <3>4, <4>3 DEF checkTyped, relayedStrings, relayedModes
        <4> QED  BY <4>1, <4>3, <4>4, CapabilitiesHide
      <3>5. CASE n = "skills"
        <4>1. "skills" \in names(card)
          BY <3>5
        <4> QED  BY <2>1, <3>5, <4>1, SkillsHide
      <3>6. CASE n \in relayedStrings \ {"preferredTransport"}
        <4>1. rewrittenValue(card, n, publicURL) = get(card, n)
          BY <3>6 DEF rewrittenValue, relayedStrings
        <4>2. n \in names(card)
          BY <3>6
        <4>3. checkTyped(n, get(card, n))
          BY <2>1, <4>2, MemberTyped
        <4>4. get(card, n).t \in {"str", "null"}
          BY <3>6, <4>3 DEF checkTyped, isString, relayedStrings, relayedModes
        <4>5. get(card, n) # address
          BY <3>6, FreeTextHas
        <4> QED  BY <4>1, <4>4, <4>5, HidesScalar
      <3>7. CASE n \in relayedModes
        <4>1. rewrittenValue(card, n, publicURL) = get(card, n)
          BY <3>7 DEF rewrittenValue, relayedModes
        <4>2. n \in names(card)
          BY <3>7 DEF relayedModes
        <4>3. checkTyped(n, get(card, n))
          BY <2>1, <4>2, MemberTyped
        <4>4. leafTyped(get(card, n), kindStringArray)
          BY <3>7, <4>3 DEF checkTyped, relayedStrings, relayedModes
        <4>5. \A i \in 1..Len(get(card, n).e) : get(card, n).e[i] # address
          BY <3>7, FreeTextHas
        <4> QED  BY <4>1, <4>4, <4>5, StringsHide
      <3>8. CASE n = "supportsAuthenticatedExtendedCard"
        <4>1. rewrittenValue(card, n, publicURL) = get(card, n)
          BY <3>8 DEF rewrittenValue
        <4>2. n \in names(card)
          BY <3>8
        <4>3. checkTyped(n, get(card, n))
          BY <2>1, <4>2, MemberTyped
        <4>4. get(card, n).t \in {"bool", "null"}
          BY <3>8, <4>3 DEF checkTyped, isBool, relayedStrings, relayedModes
        <4> QED  BY <4>1, <4>4, HidesScalar
      <3>9. n \in allowedCardMembers \ removedMembers \/ n = "preferredTransport"
        BY <2>3
      <3>10. \/ n \in {"preferredTransport", "url", "supportedInterfaces", "capabilities", "skills",
                       "supportsAuthenticatedExtendedCard"}
             \/ n \in relayedStrings \ {"preferredTransport"} \/ n \in relayedModes
        BY <3>9 DEF allowedCardMembers, handledMembers, removedMembers, droppedCardMembers
      <3> QED  BY <3>1, <3>2, <3>3, <3>4, <3>5, <3>6, <3>7, <3>8, <3>10
    <2>6. \A i \in 1..Len(out.e) : Hides(out.e[i].value, address)
      BY <2>4, <2>5
    <2> QED  BY <2>4, <2>6, HidesContainer
  <1> QED  BY <1>1, <1>2

-----------------------------------------------------------------------------
(* The documents of the run are JSON values. *)

JsonMember(m) == m = Mem(m.name, m.value) /\ Json(m.value)

LEMMA JsonMembers ==
    ASSUME NEW n, NEW v, Json(v)
    PROVE  JsonMember(Mem(n, v))
  <1>1. Mem(n, v).name = n /\ Mem(n, v).value = v
    BY MemFields
  <1> QED  BY <1>1 DEF JsonMember

\* Scalars.
LEMMA JsonScalars ==
    ASSUME NEW x
    PROVE  Json(Str(x)) /\ Json(Num(x)) /\ Json(Bool(x)) /\ Json(Null)
  <1>1. ASSUME NEW w, w.t \notin {"obj", "arr"}, w.e = <<>>,
               w \in {Null, Str(w.v), Num(w.v), Bool(w.v), Obj(w.e), Arr(w.e)}
        PROVE  Json(w)
    <2>1. children(w) = {}
      BY <1>1 DEF children
    <2>2. <<>> \in Seq({<<>>[i] : i \in 1..Len(<<>>)})
      OBVIOUS
    <2>3. Node(w)
      BY <1>1, <2>2 DEF Node
    <2> QED  BY <2>1, <2>3, JsonParts
  <1>2. Json(Str(x))
    <2> DEFINE w == Str(x)
    <2>1. w.t \notin {"obj", "arr"} /\ w.e = <<>> /\ w = Str(w.v)
      BY ValueFields
    <2> HIDE DEF w
    <2>2. Json(w)
      BY <1>1, <2>1
    <2> QED  BY <2>2 DEF w
  <1>3. Json(Num(x))
    <2> DEFINE w == Num(x)
    <2>1. w.t \notin {"obj", "arr"} /\ w.e = <<>> /\ w = Num(w.v)
      BY ValueFields
    <2> HIDE DEF w
    <2>2. Json(w)
      BY <1>1, <2>1
    <2> QED  BY <2>2 DEF w
  <1>4. Json(Bool(x))
    <2> DEFINE w == Bool(x)
    <2>1. w.t \notin {"obj", "arr"} /\ w.e = <<>> /\ w = Bool(w.v)
      BY ValueFields
    <2> HIDE DEF w
    <2>2. Json(w)
      BY <1>1, <2>1
    <2> QED  BY <2>2 DEF w
  <1>5. Json(Null)
    <2>1. Null.t \notin {"obj", "arr"} /\ Null.e = <<>>
      BY ValueFields
    <2> QED  BY <1>1, <2>1
  <1> QED  BY <1>2, <1>3, <1>4, <1>5

\* An object of JSON members, and an array of JSON values.
LEMMA JsonObject ==
    ASSUME NEW M, \A m \in M : JsonMember(m), NEW s \in Seq(M)
    PROVE  Json(Obj(s)) /\ Obj(s).t = "obj" /\ Obj(s).e = s
  <1> DEFINE n == Len(s)
             r == Obj(s)
  <1>1. n \in Nat /\ s = [i \in 1..n |-> s[i]] /\ \A i \in 1..n : s[i] \in M
    OBVIOUS
  <1>2. \A i \in 1..n : s[i] = Mem(s[i].name, s[i].value) /\ Json(s[i].value)
    BY <1>1 DEF JsonMember
  <1> HIDE DEF n
  <1>3. Node(r) /\ r.t = "obj" /\ r.e = s /\ Len(s) = n
    BY <1>1, <1>2, ObjNode
  <1> HIDE DEF r
  <1>4. \A w \in children(r) : Json(w)
    BY <1>2, <1>3 DEF children
  <1>5. Json(r)
    BY <1>3, <1>4, JsonParts
  <1> QED  BY <1>3, <1>5 DEF r

LEMMA JsonArray ==
    ASSUME NEW M, \A m \in M : Json(m), NEW s \in Seq(M)
    PROVE  Json(Arr(s))
  <1> DEFINE r == Arr(s)
  <1>1. r.t = "arr" /\ r.e = s
    BY ValueFields
  <1>2. s \in Seq({s[i] : i \in 1..Len(s)})
    <2>1. Len(s) \in Nat /\ s = [i \in 1..Len(s) |-> s[i]]
      OBVIOUS
    <2> QED  BY <2>1
  <1>3. r = Arr(r.e)
    BY <1>1
  <1> HIDE DEF r
  <1>4. Node(r)
    BY <1>1, <1>2, <1>3 DEF Node
  <1>5. \A i \in 1..Len(s) : Json(s[i])
    OBVIOUS
  <1>6. \A w \in children(r) : Json(w)
    BY <1>1, <1>5 DEF children
  <1>7. Json(r)
    BY <1>4, <1>6, JsonParts
  <1> QED  BY <1>7 DEF r

\* Small objects and arrays.
LEMMA SmallObjects ==
    ASSUME NEW a, JsonMember(a), NEW b, JsonMember(b), NEW c, JsonMember(c)
    PROVE  Json(Obj(<<a>>)) /\ Json(Obj(<<a, b>>)) /\ Json(Obj(<<a, b, c>>))
  <1> DEFINE M == {a, b, c}
  <1>1. \A m \in M : JsonMember(m)
    OBVIOUS
  <1>2. <<a>> \in Seq(M) /\ <<a, b>> \in Seq(M) /\ <<a, b, c>> \in Seq(M)
    OBVIOUS
  <1> HIDE DEF M
  <1> QED  BY <1>1, <1>2, JsonObject

LEMMA SmallArrays ==
    ASSUME NEW a, Json(a), NEW b, Json(b), NEW c, Json(c)
    PROVE  Json(Arr(<<a>>)) /\ Json(Arr(<<a, b>>)) /\ Json(Arr(<<a, b, c>>))
  <1> DEFINE M == {a, b, c}
  <1>1. \A m \in M : Json(m)
    OBVIOUS
  <1>2. <<a>> \in Seq(M) /\ <<a, b>> \in Seq(M) /\ <<a, b, c>> \in Seq(M)
    OBVIOUS
  <1> HIDE DEF M
  <1> QED  BY <1>1, <1>2, JsonArray

\* The forms that the pools are built of, in one statement.
LEMMA JsonForms ==
    /\ \A x : Json(Str(x)) /\ Json(Num(x)) /\ Json(Bool(x))
    /\ Json(Null)
    /\ \A n, v : Json(v) => JsonMember(Mem(n, v))
    /\ \A a : JsonMember(a) => Json(Obj(<<a>>))
    /\ \A a, b : JsonMember(a) /\ JsonMember(b) => Json(Obj(<<a, b>>))
    /\ \A a, b, c : JsonMember(a) /\ JsonMember(b) /\ JsonMember(c) => Json(Obj(<<a, b, c>>))
    /\ \A a : Json(a) => Json(Arr(<<a>>))
    /\ \A a, b : Json(a) /\ Json(b) => Json(Arr(<<a, b>>))
    /\ \A a, b, c : Json(a) /\ Json(b) /\ Json(c) => Json(Arr(<<a, b, c>>))
  BY JsonScalars, JsonMembers, SmallObjects, SmallArrays

LEMMA TokenJson == Json(Token) /\ Json(Hidden) /\ Json(Address)
  <1>1. Json(Token)
    BY JsonForms DEF Token
  <1>2. Json(Address)
    BY JsonForms DEF Address
  <1> QED  BY <1>1, <1>2, JsonForms DEF Hidden

LEMMA MessagesJson == \A mb \in MessagePool : JsonMember(mb)
  BY JsonForms, TokenJson DEF MessagePool

LEMMA ReadsJson == \A mb \in ReadPool : JsonMember(mb)
  BY JsonForms, TokenJson DEF ReadPool

LEMMA CallsJson == \A mb \in CallPool : JsonMember(mb)
  BY JsonForms, TokenJson DEF CallPool

LEMMA ConfigsJson == \A c \in Configs : c = Absent \/ Json(c)
  BY JsonForms, TokenJson DEF Configs

LEMMA InterfacesJson ==
    /\ Json(Good) /\ \A b, v : Json(b) /\ Json(v) => Json(Iface(b, v))
    /\ Json(Obj(Append(Good.e, Mem("tenant", Str("t")))))
  <1>1. \A b, v : Json(b) /\ Json(v) => Json(Iface(b, v))
    BY JsonForms, TokenJson DEF Iface
  <1>2. Json(Good)
    BY <1>1, JsonForms DEF Good
  <1> DEFINE a == Mem("url", Address)
             b == Mem("protocolBinding", Str("JSONRPC"))
             c == Mem("protocolVersion", Str("1.0"))
             d == Mem("tenant", Str("t"))
  <1>3. JsonMember(a) /\ JsonMember(b) /\ JsonMember(c) /\ JsonMember(d)
    BY JsonForms, TokenJson
  <1>4. Good.e = <<a, b, c>>
    BY ValueFields DEF Good, Iface
  <1> HIDE DEF a, b, c, d
  <1> DEFINE M == {a, b, c, d}
  <1>5. Append(<<a, b, c>>, d) \in Seq(M) /\ \A m \in M : JsonMember(m)
    <2>1. <<a, b, c>> \in Seq(M) /\ d \in M
      OBVIOUS
    <2>2. \A m \in M : JsonMember(m)
      BY <1>3
    <2> HIDE DEF M
    <2> QED  BY <2>1, <2>2
  <1> HIDE DEF M
  <1>6. Json(Obj(Append(Good.e, d)))
    BY <1>4, <1>5, JsonObject
  <1> QED  BY <1>1, <1>2, <1>6 DEF d

LEMMA CardsJson == \A mb \in CardPool : JsonMember(mb)
  BY JsonForms, TokenJson, InterfacesJson DEF CardPool

\* The documents of the run: what is built is a JSON object, and so is what it
\* is built into.
Documents ==
    /\ Json(obj) /\ obj.t = "obj"
    /\ frame.cfg = Absent \/ Json(frame.cfg)
    /\ kind = "card" => frame.cfg \in {Absent, PublicURL}

LEMMA FramesHold ==
    ASSUME NEW k \in DOMAIN Frames, NEW f \in Frames[k]
    PROVE  /\ k \in {"send", "read", "call", "card"}
           /\ k = "send" => f.cfg \in Configs
           /\ k = "card" => f.cfg \in {Absent, PublicURL}
           /\ k \in {"read", "call"} => f.cfg = Absent
  <1>1. DOMAIN Frames = {"send", "read", "call", "card"}
    BY DEF Frames
  <1>2. CASE k = "send"
    <2>1. Frames["send"] = [method : {"message/send", "SendMessage"}, cfg : Configs, sibling : BOOLEAN]
      BY DEF Frames
    <2>2. f.cfg \in Configs
      BY <1>2, <2>1
    <2> QED  BY <1>2, <2>2
  <1>3. CASE k = "read"
    <2>1. Frames["read"] = [method : DOMAIN observableMethods \union unmodelled \union {"tasks/cancel"},
                            cfg : {Absent}, sibling : {FALSE}]
      BY DEF Frames
    <2>2. f.cfg \in {Absent}
      BY <1>3, <2>1
    <2> QED  BY <1>3, <2>2
  <1>4. CASE k = "call"
    <2>1. Frames["call"] = [method : {"tools/call"}, cfg : {Absent}, sibling : {FALSE}]
      BY DEF Frames
    <2>2. f.cfg \in {Absent}
      BY <1>4, <2>1
    <2> QED  BY <1>4, <2>2
  <1>5. CASE k = "card"
    <2>1. Frames["card"] = [method : {NoText}, cfg : {Absent, PublicURL}, sibling : {FALSE}]
      BY DEF Frames
    <2>2. f.cfg \in {Absent, PublicURL}
      BY <1>5, <2>1
    <2> QED  BY <1>5, <2>2
  <1> QED  BY <1>1, <1>2, <1>3, <1>4, <1>5

LEMMA DocumentsInit == DocInit => Documents
  <1> SUFFICES ASSUME DocInit
               PROVE  Documents
    OBVIOUS
  <1>1. kind = "none" /\ frame = NoFrame /\ obj = Obj(<<>>)
    BY DEF DocInit
  <1>2. frame.cfg = Absent
    BY <1>1 DEF NoFrame
  <1>3. <<>> \in Seq({}) /\ \A m \in {} : JsonMember(m)
    OBVIOUS
  <1>4. Json(obj) /\ obj.t = "obj"
    BY <1>1, <1>3, JsonObject
  <1> QED  BY <1>1, <1>2, <1>4 DEF Documents

LEMMA DocumentsNext ==
    ASSUME Documents, [DocNext]_docVars
    PROVE  Documents'
  <1>1. CASE ChooseDocument
    <2>1. /\ kind' \in DOMAIN Frames /\ frame' \in Frames[kind'] /\ obj' = obj
      BY <1>1 DEF ChooseDocument
    <2>2. /\ kind' \in {"send", "read", "call", "card"}
          /\ kind' = "send" => frame'.cfg \in Configs
          /\ kind' = "card" => frame'.cfg \in {Absent, PublicURL}
          /\ kind' \in {"read", "call"} => frame'.cfg = Absent
      BY <2>1, FramesHold
    <2>3. Json(PublicURL)
      BY JsonForms DEF PublicURL
    <2>4. frame'.cfg = Absent \/ Json(frame'.cfg)
      BY <2>2, <2>3, ConfigsJson
    <2>5. Json(obj') /\ obj'.t = "obj"
      BY <2>1 DEF Documents
    <2> QED  BY <2>2, <2>4, <2>5 DEF Documents
  <1>2. CASE AddMember
    <2>1. PICK mb \in Pool : obj' = Obj(Append(obj.e, mb))
      BY <1>2 DEF AddMember
    <2>2. kind' = kind /\ frame' = frame
      BY <1>2 DEF AddMember
    <2>3. JsonMember(mb)
      <3>1. mb \in MessagePool \/ mb \in ReadPool \/ mb \in CallPool \/ mb \in CardPool
        BY <2>1 DEF Pool
      <3> QED  BY <3>1, MessagesJson, ReadsJson, CallsJson, CardsJson
    <2> DEFINE M == {obj.e[i] : i \in 1..Len(obj.e)} \union {mb}
    <2>4. Json(obj) /\ obj.t = "obj" /\ Node(obj)
      BY JsonParts DEF Documents
    <2>5. \A m \in M : JsonMember(m)
      BY <2>3, <2>4, JsonElements DEF JsonMember
    <2>6. Append(obj.e, mb) \in Seq(M)
      <3>1. obj.e \in Seq({obj.e[i] : i \in 1..Len(obj.e)})
        BY <2>4 DEF Node
      <3>2. obj.e \in Seq(M)
        BY <3>1
      <3>3. mb \in M
        OBVIOUS
      <3> HIDE DEF M
      <3> QED  BY <3>2, <3>3
    <2> HIDE DEF M
    <2>7. Json(obj') /\ obj'.t = "obj"
      BY <2>1, <2>5, <2>6, JsonObject
    <2> QED  BY <2>2, <2>7 DEF Documents
  <1>3. CASE UNCHANGED docVars
    BY <1>3 DEF Documents, docVars
  <1> QED  BY <1>1, <1>2, <1>3 DEF DocNext

LEMMA SendParamsJson ==
    ASSUME Documents
    PROVE  Json(SendParams)
  <1> DEFINE a == <<Mem("message", obj)>>
             b == IF frame.cfg = Absent THEN <<>> ELSE <<Mem("configuration", frame.cfg)>>
             c == IF frame.sibling THEN <<Mem("metadata", Str("x"))>> ELSE <<>>
             M == {m \in {Mem("message", obj), Mem("configuration", frame.cfg), Mem("metadata", Str("x"))} :
                      JsonMember(m)}
  <1>1. JsonMember(Mem("message", obj)) /\ JsonMember(Mem("metadata", Str("x")))
    BY JsonForms DEF Documents
  <1>2. frame.cfg = Absent \/ JsonMember(Mem("configuration", frame.cfg))
    BY JsonForms DEF Documents
  <1>3. a \in Seq(M)
    BY <1>1
  <1>4. b \in Seq(M)
    <2>1. CASE frame.cfg = Absent
      <3>1. b = <<>>
        BY <2>1
      <3> HIDE DEF b, M
      <3> QED  BY <3>1
    <2>2. CASE frame.cfg # Absent
      <3>1. b = <<Mem("configuration", frame.cfg)>> /\ Mem("configuration", frame.cfg) \in M
        BY <1>2, <2>2
      <3> HIDE DEF b, M
      <3> QED  BY <3>1
    <2> QED  BY <2>1, <2>2
  <1>5. c \in Seq(M)
    <2>1. c = <<>> \/ (c = <<Mem("metadata", Str("x"))>> /\ Mem("metadata", Str("x")) \in M)
      BY <1>1
    <2> HIDE DEF c, M
    <2>2. CASE c = <<>>
      BY <2>2
    <2>3. CASE c = <<Mem("metadata", Str("x"))>> /\ Mem("metadata", Str("x")) \in M
      BY <2>3
    <2> QED  BY <2>1, <2>2, <2>3
  <1>6. \A m \in M : JsonMember(m)
    OBVIOUS
  <1>7. SendParams = Obj((a \o b) \o c)
    BY DEF SendParams
  <1> HIDE DEF a, b, c, M
  <1>8. (a \o b) \o c \in Seq(M)
    BY <1>3, <1>4, <1>5
  <1> QED  BY <1>6, <1>7, <1>8, JsonObject

\* Whatever the documents are, what an A2A point passes on is what was
\* authorized, without a credential at any depth, and what an MCP point passes
\* on is the authorized call and an unbound _meta without the credential at
\* its top level.
THEOREM ForwardedDocumentsAreBound == DocInit /\ [][DocNext]_docVars => []ForwardedIsBound
  <1>1. DocInit => Documents
    BY DocumentsInit
  <1>2. Documents /\ [DocNext]_docVars => Documents'
    BY DocumentsNext
  <1>3. Documents => ForwardedIsBound
    <2> SUFFICES ASSUME Documents
                 PROVE  ForwardedIsBound
      OBVIOUS
    <2>1. NoCredential
      BY NoCredentialPassed DEF NoCredential
    <2>2. SendIsBound
      BY SendParamsJson, SendsAreBound DEF SendIsBound
    <2>3. ToolCallIsBound
      BY CallsAreBound DEF ToolCallIsBound, Documents
    <2> QED  BY <2>1, <2>2, <2>3 DEF ForwardedIsBound
  <1> QED  BY <1>1, <1>2, <1>3, PTL

\* Every card that is relayed shows the point and not the agent behind it, and
\* reports all that was taken out of it.
THEOREM RelayedCardsAreSafe == DocInit /\ [][DocNext]_docVars => []CardsSafe
  <1>1. DocInit => Documents
    BY DocumentsInit
  <1>2. Documents /\ [DocNext]_docVars => Documents'
    BY DocumentsNext
  <1>3. Documents => CardsSafe
    <2> SUFFICES ASSUME Documents, kind = "card"
                 PROVE  /\ \A reached \in BOOLEAN : CardHidesAgent(frame.cfg, reached, obj, Address)
                        /\ CardHonest(frame.cfg, TRUE, obj)
      BY DEF CardsSafe, NoBypassAdvertised, CardAccounted
    <2>1. Json(obj)
      BY DEF Documents
    <2>2. frame.cfg = Absent \/ frame.cfg.t = "str"
      BY ValueFields DEF Documents, PublicURL
    <2>3. Address.t = "str"
      BY ValueFields DEF Address
    <2> QED  BY <2>1, <2>2, <2>3, CardsHideAgent, CardsAreHonest
  <1> QED  BY <1>1, <1>2, <1>3, PTL

=============================================================================
