-------------------------- MODULE OperationsProofs --------------------------
(***************************************************************************)
(* Proofs about the parts a deployment is operated with: the witnesses of  *)
(* a log for any witness set and threshold, the stdio exchange of mcp-pep  *)
(* for any pipes and any conversation, spt-txn-init for any number of      *)
(* runs, signals and kills, and any configuration it accepts.              *)
(***************************************************************************)
EXTENDS MCOperations, FiniteSetTheorems, SequenceTheorems, TLAPS

-----------------------------------------------------------------------------
(* Witnesses.                                                              *)

\* g is the beginning of h.
Begins(g, h) == Len(g) <= Len(h) /\ \A i \in 1..Len(g) : g[i] = h[i]

LEMMA HeadIsSequence ==
    ASSUME NEW h \in Heads
    PROVE  \E S : h \in Seq(S)
  BY HeadsAssumption

\* The two ways the code compares a head with an earlier one.
LEMMA BeginsPrefix ==
    ASSUME NEW S, NEW T, NEW g \in Seq(S), NEW h \in Seq(T)
    PROVE  /\ Begins(g, h) => IsPrefix(g, h)
           /\ (Len(g) <= Len(h) /\ SubSeq(h, 1, Len(g)) = g) => Begins(g, h)
  <1>0. Len(g) \in Nat /\ Len(h) \in Nat
    OBVIOUS
  <1>1. ASSUME Begins(g, h)
        PROVE  IsPrefix(g, h)
    <2>1. Len(g) <= Len(h) /\ \A i \in 1..Len(g) : g[i] = h[i]
      BY <1>1 DEF Begins
    <2>2. SubSeq(g, 1, Len(g)) = [i \in 1..Len(g) |-> g[i]]
      BY <1>0
    <2>3. SubSeq(h, 1, Len(g)) = [i \in 1..Len(g) |-> h[i]]
      BY <1>0, <2>1
    <2> QED  BY <2>1, <2>2, <2>3 DEF IsPrefix
  <1>2. ASSUME Len(g) <= Len(h), SubSeq(h, 1, Len(g)) = g
        PROVE  Begins(g, h)
    <2>1. \A i \in 1..Len(g) : SubSeq(h, 1, Len(g))[i] = h[i]
      BY <1>0, <1>2
    <2> QED  BY <1>2, <2>1 DEF Begins
  <1> QED  BY <1>1, <1>2

\* Two beginnings of one head: one begins the other.
LEMMA BeginningsCompare ==
    ASSUME NEW S, NEW T, NEW U, NEW g \in Seq(S), NEW h \in Seq(T), NEW k \in Seq(U),
           Begins(g, k), Begins(h, k)
    PROVE  Begins(g, h) \/ Begins(h, g)
  <1>1. Len(g) \in Nat /\ Len(h) \in Nat /\ Len(k) \in Nat
    OBVIOUS
  <1> QED  BY <1>1 DEF Begins

LEMMA BeginsTransitive ==
    ASSUME NEW S, NEW T, NEW U, NEW g \in Seq(S), NEW h \in Seq(T), NEW k \in Seq(U),
           Begins(g, h), Begins(h, k)
    PROVE  Begins(g, k)
  <1>1. Len(g) \in Nat /\ Len(h) \in Nat /\ Len(k) \in Nat
    OBVIOUS
  <1> QED  BY <1>1 DEF Begins

WitnessTyped ==
    /\ anchor \in [Witnesses -> Heads \union {Nothing}]
    /\ inCosign \in [Witnesses -> SUBSET Heads]
    /\ cosigned \subseteq [id : Witnesses, head : Heads]
    /\ forgetful \subseteq Witnesses

\* What a witness that was not restarted has signed begins its anchor, and
\* what it is about to sign continues it; callers serialise Cosign, so that
\* is one head at most.
LoyalInv ==
    \A w \in Witnesses \ forgetful :
        /\ \A s \in cosigned : s.id = w => anchor[w] # Nothing /\ Begins(s.head, anchor[w])
        /\ \A h \in inCosign[w] : anchor[w] # Nothing => Begins(anchor[w], h)
        /\ \A g, h \in inCosign[w] : g = h

WitnessInv == WitnessTyped /\ LoyalInv

LEMMA WitnessStep ==
    ASSUME WitnessInv, [WitnessNext]_witnessVars
    PROVE  WitnessInv'
  <1>t. /\ anchor \in [Witnesses -> Heads \union {Nothing}]
        /\ inCosign \in [Witnesses -> SUBSET Heads]
        /\ cosigned \subseteq [id : Witnesses, head : Heads]
        /\ forgetful \subseteq Witnesses
        /\ LoyalInv
    BY DEF WitnessInv, WitnessTyped
  <1>1. ASSUME NEW w \in Witnesses, CosignChecks(w)
        PROVE  WitnessInv'
    <2>1. PICK h \in Heads : appendOnly(anchor[w], h) /\ inCosign' = [inCosign EXCEPT ![w] = {h}]
      BY <1>1 DEF CosignChecks
    <2>2. UNCHANGED <<anchor, cosigned, forgetful>>
      BY <1>1 DEF CosignChecks
    <2>3. anchor[w] # Nothing => Begins(anchor[w], h)
      <3>1. CASE anchor[w] # Nothing
        <4>1. anchor[w] \in Heads
          BY <1>t, <3>1
        <4>2. Len(anchor[w]) <= Len(h) /\ SubSeq(h, 1, Len(anchor[w])) = anchor[w]
          BY <2>1, <3>1 DEF appendOnly
        <4> QED  BY <4>1, <4>2, HeadIsSequence, BeginsPrefix
      <3> QED  BY <3>1
    <2>4. WitnessTyped'
      BY <1>t, <2>1, <2>2 DEF WitnessTyped
    <2>5. LoyalInv'
      BY <1>t, <2>1, <2>2, <2>3 DEF LoyalInv
    <2> QED  BY <2>4, <2>5 DEF WitnessInv
  <1>2. ASSUME NEW w \in Witnesses, CosignSigns(w)
        PROVE  WitnessInv'
    <2>1. PICK h \in inCosign[w] :
              /\ cosigned' = cosigned \union {[id |-> w, head |-> h]}
              /\ anchor' = [anchor EXCEPT ![w] = h]
              /\ inCosign' = [inCosign EXCEPT ![w] = @ \ {h}]
              /\ forgetful' = forgetful
      BY <1>2 DEF CosignSigns
    <2>2. h \in Heads /\ h # Nothing
      BY <1>t, HeadsAssumption
    <2>3. WitnessTyped'
      BY <1>t, <2>1, <2>2 DEF WitnessTyped
    <2>4. ASSUME NEW x \in Witnesses \ forgetful
          PROVE  /\ \A s \in cosigned' : s.id = x => anchor'[x] # Nothing /\ Begins(s.head, anchor'[x])
                 /\ \A k \in inCosign'[x] : anchor'[x] # Nothing => Begins(anchor'[x], k)
                 /\ \A g, k \in inCosign'[x] : g = k
      <3>0. /\ \A s \in cosigned : s.id = x => anchor[x] # Nothing /\ Begins(s.head, anchor[x])
            /\ \A k \in inCosign[x] : anchor[x] # Nothing => Begins(anchor[x], k)
            /\ \A g, k \in inCosign[x] : g = k
        BY <1>t DEF LoyalInv
      <3>1. CASE x # w
        BY <1>t, <2>1, <3>0, <3>1
      <3>2. CASE x = w
        <4>1. anchor'[x] = h /\ inCosign'[x] = {}
          BY <1>t, <2>1, <3>0, <3>2
        <4>2. ASSUME NEW s \in cosigned, s.id = x
              PROVE  Begins(s.head, h)
          <5>1. anchor[x] # Nothing /\ Begins(s.head, anchor[x]) /\ Begins(anchor[x], h)
            BY <3>0, <3>2, <4>2
          <5>2. anchor[x] \in Heads /\ s.head \in Heads
            BY <1>t, <5>1
          <5> QED  BY <2>2, <5>1, <5>2, HeadIsSequence, BeginsTransitive
        <4>3. Begins(h, h)
          <5>1. PICK S : h \in Seq(S)
            BY <2>2, HeadIsSequence
          <5>2. Len(h) \in Nat
            BY <5>1
          <5> QED  BY <5>2 DEF Begins
        <4> QED  BY <2>1, <2>2, <4>1, <4>2, <4>3
      <3> QED  BY <3>1, <3>2
    <2>5. LoyalInv'
      BY <2>1, <2>4 DEF LoyalInv
    <2> QED  BY <2>3, <2>5 DEF WitnessInv
  <1>3. ASSUME NEW w \in Witnesses, NewWitness(w)
        PROVE  WitnessInv'
    BY <1>3, <1>t DEF NewWitness, WitnessInv, WitnessTyped, LoyalInv
  <1>4. CASE UNCHANGED witnessVars
    BY <1>4 DEF witnessVars, WitnessInv, WitnessTyped, LoyalInv
  <1> QED  BY <1>1, <1>2, <1>3, <1>4 DEF WitnessNext

\* The witnesses that signed a head.
Signers(h) == {w \in Witnesses : [id |-> w, head |-> h] \in cosigned}

LEMMA AcceptedHasSigners ==
    ASSUME NEW h \in Heads, VerifyCosigned(h)
    PROVE  /\ IsFiniteSet(Signers(h)) /\ Cardinality(Signers(h)) \in Nat
           /\ Cardinality(Signers(h)) >= Threshold
  <1>1. PICK cosigs \in [1..Threshold -> Witnesses \union {Stranger}] :
            Cardinality(counted(h, cosigs)) >= Threshold
    BY DEF VerifyCosigned
  <1>2. counted(h, cosigs) \subseteq Signers(h) /\ Signers(h) \subseteq Witnesses
    BY DEF counted, Signers
  <1>3. IsFiniteSet(Signers(h)) /\ Cardinality(Signers(h)) \in Nat
    BY <1>2, WitnessAssumption, FS_Subset, FS_CardinalityType
  <1>4. /\ Cardinality(counted(h, cosigs)) <= Cardinality(Signers(h))
        /\ Cardinality(counted(h, cosigs)) \in Nat
    BY <1>2, <1>3, FS_Subset, FS_CardinalityType
  <1> QED  BY <1>1, <1>3, <1>4, WitnessAssumption

\* Two sets of signers share a witness that kept its anchor.
LEMMA LoyalWitness ==
    ASSUME NEW A \in SUBSET Witnesses, NEW B \in SUBSET Witnesses, NEW F \in SUBSET Witnesses,
           Cardinality(A) >= Threshold, Cardinality(B) >= Threshold,
           Cardinality(F) + Cardinality(Witnesses) < 2 * Threshold
    PROVE  \E w \in A \cap B : w \notin F
  <1>1. /\ IsFiniteSet(Witnesses) /\ IsFiniteSet(A) /\ IsFiniteSet(B) /\ IsFiniteSet(F)
        /\ IsFiniteSet(A \cup B) /\ IsFiniteSet(A \cap B)
    BY WitnessAssumption, FS_Subset
  <1>2. /\ Cardinality(Witnesses) \in Nat /\ Cardinality(A) \in Nat /\ Cardinality(B) \in Nat
        /\ Cardinality(F) \in Nat /\ Cardinality(A \cup B) \in Nat
        /\ Cardinality(A \cap B) \in Nat /\ Threshold \in Nat
    BY <1>1, WitnessAssumption, FS_CardinalityType
  <1>3. Cardinality(A \cup B) = Cardinality(A) + Cardinality(B) - Cardinality(A \cap B)
    BY <1>1, FS_Union
  <1>4. Cardinality(A \cup B) <= Cardinality(Witnesses)
    BY <1>1, FS_Subset
  <1>5. Cardinality(A \cap B) > Cardinality(F)
    BY <1>2, <1>3, <1>4
  <1>6. ~((A \cap B) \subseteq F)
    <2>1. CASE (A \cap B) \subseteq F
      <3>1. Cardinality(A \cap B) <= Cardinality(F)
        BY <1>1, <2>1, FS_Subset
      <3> QED  BY <1>2, <1>5, <3>1
    <2> QED  BY <2>1
  <1> QED  BY <1>6

LEMMA WitnessSuffices == WitnessInv => NoSplitView
  <1> SUFFICES ASSUME WitnessInv,
                      Cardinality(forgetful) + Cardinality(Witnesses) < 2 * Threshold,
                      NEW g \in Heads, NEW h \in Heads, VerifyCosigned(g), VerifyCosigned(h)
               PROVE  IsPrefix(g, h) \/ IsPrefix(h, g)
    BY DEF NoSplitView
  <1>1. /\ Signers(g) \in SUBSET Witnesses /\ Signers(h) \in SUBSET Witnesses
        /\ forgetful \in SUBSET Witnesses
        /\ Cardinality(Signers(g)) >= Threshold /\ Cardinality(Signers(h)) >= Threshold
    BY AcceptedHasSigners DEF Signers, WitnessInv, WitnessTyped
  <1>2. PICK w \in Signers(g) \cap Signers(h) : w \notin forgetful
    BY <1>1, LoyalWitness
  <1>3. /\ w \in Witnesses \ forgetful
        /\ [id |-> w, head |-> g] \in cosigned /\ [id |-> w, head |-> h] \in cosigned
    BY <1>2 DEF Signers
  <1>4. anchor[w] # Nothing /\ Begins(g, anchor[w]) /\ Begins(h, anchor[w])
    BY <1>3 DEF WitnessInv, LoyalInv
  <1>5. anchor[w] \in Heads
    BY <1>3, <1>4 DEF WitnessInv, WitnessTyped
  <1>6. Begins(g, h) \/ Begins(h, g)
    BY <1>4, <1>5, HeadIsSequence, BeginningsCompare
  <1> QED  BY <1>6, HeadIsSequence, BeginsPrefix

\* For any witness set and any threshold: while fewer witnesses lost their
\* anchor than two quorums share, any two heads that a verifier accepts are
\* states of one append-only log (witness.go Cosign, VerifyCosigned).
THEOREM NoSplitViews == WitnessInit /\ [][WitnessNext]_witnessVars => []NoSplitView
  <1>1. WitnessInit => WitnessInv
    BY DEF WitnessInit, WitnessInv, WitnessTyped, LoyalInv
  <1>2. WitnessInv /\ [WitnessNext]_witnessVars => WitnessInv'
    BY WitnessStep
  <1> QED  BY <1>1, <1>2, WitnessSuffices, PTL

-----------------------------------------------------------------------------
(* The stdio exchange.                                                     *)

Ids == ClientIds \union ServerIds \union {""}
Message == [kind : {"request", "notification", "reply", "response"}, id : Ids, n : Nat]
Stages == {"reading", "writing", "waiting"}

LEMMA MessageFields ==
    \A m \in Message : /\ m.kind \in {"request", "notification", "reply", "response"}
                       /\ m.id \in Ids /\ m.n \in Nat
  BY DEF Message

ExchangeTyped ==
    /\ stdin \in Seq(Message) /\ toServer \in Seq(Message) /\ fromServer \in Seq(Message)
    /\ lines \in Seq(Message) /\ relayed \in Seq(Message)
    /\ working \subseteq Message /\ serverUp \in BOOLEAN
    /\ pep \in [stage : Stages, line : Nat]

\* The client's lines carry their number; serve works on one of them, and what
\* it works on or has not read has no answer yet.
LinesInv ==
    /\ \A n \in 1..Len(lines) : lines[n].n = n
    /\ DOMAIN answer \subseteq 1..Len(lines)
    /\ \A i \in 1..Len(stdin) : /\ stdin[i].n \in (1..Len(lines)) \ DOMAIN answer
                                /\ pep.stage # "reading" => stdin[i].n # pep.line
    /\ \A i, j \in 1..Len(stdin) : stdin[i].n = stdin[j].n => i = j
    /\ pep.stage # "reading" => pep.line \in (1..Len(lines)) \ DOMAIN answer

\* Call n was answered by a line of the server that is not its answer.
Taken(n) == /\ n \in DOMAIN answer /\ answer[n].kind \in {"request", "response"}
            /\ ~(answer[n].kind = "response" /\ answer[n].n = n)

\* A request that the server has still to answer, or its answer, belongs to
\* the call that serve waits for or to one that was answered by mistake.
Owed(m) == /\ m.n \in 1..Len(lines) /\ m.id = lines[m.n].id
           /\ Taken(m.n) \/ (pep.stage = "waiting" /\ m.n = pep.line)

IsAsked(i) == i \in 1..Len(toServer) /\ toServer[i].kind = "request"
IsGiven(i) == i \in 1..Len(fromServer) /\ fromServer[i].kind = "response"

\* Each is at one place.
OneInv ==
    /\ \A i : IsGiven(i) => Owed(fromServer[i])
    /\ \A i, j : IsGiven(i) /\ IsGiven(j) /\ fromServer[i].n = fromServer[j].n => i = j
    /\ serverUp =>
          /\ \A m \in working : Owed(m)
          /\ \A i : IsAsked(i) => Owed(toServer[i])
          /\ \A m, k \in working : m.n = k.n => m = k
          /\ \A i, j : IsAsked(i) /\ IsAsked(j) /\ toServer[i].n = toServer[j].n => i = j
          /\ \A m \in working : \A i : IsAsked(i) => toServer[i].n # m.n
          /\ \A m \in working : \A i : IsGiven(i) => fromServer[i].n # m.n
          /\ \A i, j : IsGiven(i) /\ IsAsked(j) => fromServer[i].n # toServer[j].n

\* The server sends answers, notifications and requests.
SpeaksInv == \A i \in 1..Len(fromServer) : fromServer[i].kind # "reply"

ExchangeInv == ExchangeTyped /\ LinesInv /\ SpeaksInv /\ OneInv /\ AnswersTheirOwnCall

\* A queue that its first element leaves, and one that an element joins.
LEMMA QueueTail ==
    ASSUME NEW s \in Seq(Message), s # <<>>
    PROVE  /\ Tail(s) \in Seq(Message) /\ Len(Tail(s)) = Len(s) - 1
           /\ Head(s) = s[1] /\ 1 \in 1..Len(s) /\ Head(s) \in Message /\ Len(s) \in Nat
           /\ \A i \in 1..Len(Tail(s)) : /\ Tail(s)[i] = s[i + 1] /\ i + 1 \in 1..Len(s)
                                         /\ i + 1 # 1
           /\ \A i, j \in 1..Len(Tail(s)) : i + 1 = j + 1 => i = j
  OBVIOUS

LEMMA QueueAppend ==
    ASSUME NEW s \in Seq(Message), NEW m \in Message
    PROVE  /\ Append(s, m) \in Seq(Message) /\ Len(Append(s, m)) = Len(s) + 1
           /\ Len(s) \in Nat /\ Append(s, m)[Len(s) + 1] = m
           /\ \A i \in 1..Len(s) : Append(s, m)[i] = s[i] /\ i # Len(s) + 1
           /\ \A i \in 1..Len(Append(s, m)) : i \in 1..Len(s) \/ i = Len(s) + 1
  OBVIOUS

\* serve writes nothing, or an answer to the line it handles.
Answered(n, msg) ==
    /\ DOMAIN answer' = DOMAIN answer \union {n} /\ answer'[n] = msg
    /\ \A k \in DOMAIN answer : k # n => answer'[k] = answer[k]

LEMMA GiveForms ==
    ASSUME NEW n, NEW resp, Give(n, resp)
    PROVE  answer' = answer \/ Answered(n, resp) \/ Answered(n, Denied)
  BY DEF Give, Answered

LEMMA GiveError ==
    ASSUME NEW n, NEW err, Give(n, errorResponse(n, err)), err.kind \in {"denied", "upstream"}
    PROVE  \/ answer' = answer
           \/ \E msg : Answered(n, msg) /\ msg.kind \in {"denied", "upstream"}
  <1>1. errorResponse(n, err) = err \/ errorResponse(n, err) = Nil
    BY DEF errorResponse
  <1>2. Denied.kind = "denied"
    BY DEF Denied
  <1>3. CASE errorResponse(n, err) = err
    BY <1>2, <1>3, GiveForms
  <1>4. CASE errorResponse(n, err) = Nil
    BY <1>2, <1>4 DEF Give, Answered
  <1> QED  BY <1>1, <1>3, <1>4

\* An error for a line without an answer keeps every answer, and what the
\* server owes stays owed to the same calls unless serve waited for the line.
LEMMA ErrorStep ==
    ASSUME AnswersTheirOwnCall, NEW n, n \notin DOMAIN answer, DOMAIN answer \subseteq 1..Len(lines),
           lines' = lines,
           \/ answer' = answer
           \/ \E msg : Answered(n, msg) /\ msg.kind \in {"denied", "upstream"}
    PROVE  /\ AnswersTheirOwnCall' /\ DOMAIN answer' \subseteq DOMAIN answer \union {n}
           /\ \A k : Taken(k) => Taken(k)'
  <1>1. CASE answer' = answer
    BY <1>1 DEF AnswersTheirOwnCall, Taken
  <1>2. ASSUME NEW msg, Answered(n, msg), msg.kind \in {"denied", "upstream"}
        PROVE  /\ AnswersTheirOwnCall' /\ DOMAIN answer' \subseteq DOMAIN answer \union {n}
               /\ \A k : Taken(k) => Taken(k)'
    <2>1. /\ DOMAIN answer' = DOMAIN answer \union {n} /\ answer'[n] = msg
          /\ \A k \in DOMAIN answer : answer'[k] = answer[k]
      BY <1>2 DEF Answered
    <2>2. AnswersTheirOwnCall'
      BY <1>2, <2>1 DEF AnswersTheirOwnCall
    <2> QED  BY <2>1, <2>2 DEF Taken
  <1> QED  BY <1>1, <1>2

LEMMA ExchangeStep ==
    ASSUME ExchangeInv, [ExchangeNext]_exchangeVars
    PROVE  ExchangeInv'
  <1>t. /\ stdin \in Seq(Message) /\ toServer \in Seq(Message) /\ fromServer \in Seq(Message)
        /\ lines \in Seq(Message) /\ relayed \in Seq(Message)
        /\ working \subseteq Message /\ serverUp \in BOOLEAN
        /\ pep \in [stage : Stages, line : Nat]
    BY DEF ExchangeInv, ExchangeTyped
  <1>i. LinesInv /\ SpeaksInv /\ OneInv /\ AnswersTheirOwnCall
    BY DEF ExchangeInv
  \* What is owed stays owed.
  <1>o. ASSUME toServer' = toServer, fromServer' = fromServer, working' = working, lines' = lines,
               serverUp' => serverUp, \A m : Owed(m) => Owed(m)'
        PROVE  OneInv'
    BY <1>i, <1>o DEF OneInv, IsAsked, IsGiven
  <1>1. CASE ClientSends
    <2>1. /\ UNCHANGED <<pep, toServer, fromServer, serverUp, working, answer, relayed>>
          /\ \E msg \in Message : /\ lines' = Append(lines, msg) /\ stdin' = Append(stdin, msg)
                                  /\ msg.n = Len(lines) + 1
      <3>1. \A k \in 1..Len(relayed) : relayed[k] \in Message /\ relayed[k].id \in Ids
        BY <1>t, MessageFields
      <3>2. \A msg \in [kind : {"request"}, id : ClientIds \ outstanding, n : {Len(lines) + 1}]
             \union [kind : {"notification"}, id : {""}, n : {Len(lines) + 1}]
             \union [kind : {"reply"}, id : {r.id : r \in
                        {relayed[k] : k \in {j \in 1..Len(relayed) : relayed[j].kind = "request"}}},
                     n : {Len(lines) + 1}] :
              msg \in Message /\ msg.n = Len(lines) + 1
        <4>1. Len(lines) + 1 \in Nat
          BY <1>t
        <4> QED  BY <3>1, <4>1 DEF Message, Ids
      <3> QED  BY <1>1, <3>2 DEF ClientSends
    <2>2. PICK msg \in Message : /\ lines' = Append(lines, msg) /\ stdin' = Append(stdin, msg)
                                 /\ msg.n = Len(lines) + 1
      BY <2>1
    <2>3. ExchangeTyped'
      BY <1>t, <2>1, <2>2, QueueAppend DEF ExchangeTyped
    <2>l. /\ Len(lines) \in Nat /\ Len(lines') = Len(lines) + 1 /\ lines'[Len(lines) + 1] = msg
          /\ \A i \in 1..Len(lines) : lines'[i] = lines[i] /\ i # Len(lines) + 1 /\ i \in 1..Len(lines')
          /\ \A i \in 1..Len(lines') : i \in 1..Len(lines) \/ i = Len(lines) + 1
          /\ Len(lines) + 1 \in 1..Len(lines')
      BY <1>t, <2>2, QueueAppend
    <2>4. LinesInv'
      <3>2. /\ stdin'[Len(stdin) + 1] = msg
            /\ \A i \in 1..Len(stdin) : stdin'[i] = stdin[i] /\ i # Len(stdin) + 1
            /\ \A i \in 1..Len(stdin') : i \in 1..Len(stdin) \/ i = Len(stdin) + 1
        BY <1>t, <2>2, QueueAppend
      <3>4. (\A n \in 1..Len(lines') : lines'[n].n = n) /\ DOMAIN answer' \subseteq 1..Len(lines')
        BY <1>i, <2>1, <2>2, <2>l DEF LinesInv
      <3>5. \A i \in 1..Len(stdin') : /\ stdin'[i].n \in (1..Len(lines')) \ DOMAIN answer'
                                      /\ pep'.stage # "reading" => stdin'[i].n # pep'.line
        <4>1. ASSUME NEW i \in 1..Len(stdin)
              PROVE  /\ stdin'[i].n \in (1..Len(lines')) \ DOMAIN answer'
                     /\ pep'.stage # "reading" => stdin'[i].n # pep'.line
          BY <1>i, <2>1, <2>l, <3>2 DEF LinesInv
        <4>2. /\ stdin'[Len(stdin) + 1].n \in (1..Len(lines')) \ DOMAIN answer'
              /\ pep'.stage # "reading" => stdin'[Len(stdin) + 1].n # pep'.line
          BY <1>i, <2>1, <2>2, <2>l, <3>2 DEF LinesInv
        <4> QED  BY <3>2, <4>1, <4>2
      <3>6. \A i, j \in 1..Len(stdin') : stdin'[i].n = stdin'[j].n => i = j
        BY <1>i, <2>2, <2>l, <3>2 DEF LinesInv
      <3>7. pep'.stage # "reading" => pep'.line \in (1..Len(lines')) \ DOMAIN answer'
        BY <1>i, <2>1, <2>l DEF LinesInv
      <3> QED  BY <3>4, <3>5, <3>6, <3>7 DEF LinesInv
    <2>5. SpeaksInv' /\ AnswersTheirOwnCall'
      BY <1>i, <2>1, <2>l DEF SpeaksInv, AnswersTheirOwnCall, LinesInv
    <2>6. \A m : Owed(m) => Owed(m)'
      BY <2>1, <2>l DEF Owed, Taken
    <2>7. OneInv'
      BY <1>i, <2>1, <2>6 DEF OneInv, IsAsked, IsGiven
    <2> QED  BY <2>3, <2>4, <2>5, <2>7 DEF ExchangeInv
  <1>2. CASE Handle
    <2>1. /\ pep.stage = "reading" /\ stdin # <<>> /\ stdin' = Tail(stdin)
          /\ UNCHANGED <<toServer, fromServer, serverUp, working, lines, relayed>>
      BY <1>2 DEF Handle
    <2>p. PICK n : n = Head(stdin).n
      OBVIOUS
    <2>2. /\ stdin' \in Seq(Message) /\ n \in (1..Len(lines)) \ DOMAIN answer
          /\ \A i \in 1..Len(stdin') : stdin'[i].n \in (1..Len(lines)) \ DOMAIN answer /\ stdin'[i].n # n
          /\ \A i, j \in 1..Len(stdin') : stdin'[i].n = stdin'[j].n => i = j
      <3>1. /\ Head(stdin) = stdin[1] /\ 1 \in 1..Len(stdin) /\ stdin' \in Seq(Message)
            /\ \A i \in 1..Len(stdin') : /\ stdin'[i] = stdin[i + 1] /\ i + 1 \in 1..Len(stdin)
                                         /\ i + 1 # 1
            /\ \A i, j \in 1..Len(stdin') : i + 1 = j + 1 => i = j
        BY <1>t, <2>1, QueueTail
      <3>2. stdin[1].n = n
        BY <2>p, <3>1
      <3>3. n \in (1..Len(lines)) \ DOMAIN answer
        BY <1>i, <3>1, <3>2 DEF LinesInv
      <3>4. ASSUME NEW i \in 1..Len(stdin')
            PROVE  stdin'[i].n \in (1..Len(lines)) \ DOMAIN answer /\ stdin'[i].n # n
        BY <1>i, <3>1, <3>2, <3>4 DEF LinesInv
      <3>5. ASSUME NEW i \in 1..Len(stdin'), NEW j \in 1..Len(stdin'), stdin'[i].n = stdin'[j].n
            PROVE  i = j
        BY <1>i, <3>1, <3>5 DEF LinesInv
      <3> QED  BY <3>1, <3>3, <3>4, <3>5
    <2>3. CASE Give(n, errorResponse(n, Denied)) /\ pep' = pep
      <3>0. Denied.kind = "denied"
        BY DEF Denied
      <3>1. \/ answer' = answer
            \/ \E msg : Answered(n, msg) /\ msg.kind \in {"denied", "upstream"}
        BY <2>3, <3>0, GiveError
      <3>2. /\ AnswersTheirOwnCall' /\ DOMAIN answer' \subseteq DOMAIN answer \union {n}
            /\ \A k : Taken(k) => Taken(k)'
        BY <1>i, <2>1, <2>2, <3>1, ErrorStep DEF LinesInv
      <3>3. ExchangeTyped'
        BY <1>t, <2>1, <2>2, <2>3 DEF ExchangeTyped
      <3>4. LinesInv' /\ SpeaksInv'
        BY <1>i, <2>1, <2>2, <2>3, <3>2 DEF LinesInv, SpeaksInv
      <3>5. OneInv'
        BY <1>o, <2>1, <2>3, <3>2 DEF Owed
      <3> QED  BY <3>2, <3>3, <3>4, <3>5 DEF ExchangeInv
    <2>4. CASE pep' = [stage |-> "writing", line |-> n] /\ answer' = answer
      <3>1. pep'.stage = "writing" /\ pep'.line = n /\ pep' \in [stage : Stages, line : Nat]
        BY <2>2, <2>4 DEF Stages
      <3>2. ExchangeTyped'
        BY <1>t, <2>1, <2>2, <3>1 DEF ExchangeTyped
      <3>3. LinesInv' /\ SpeaksInv' /\ AnswersTheirOwnCall'
        BY <1>i, <2>1, <2>2, <2>4, <3>1 DEF LinesInv, SpeaksInv, AnswersTheirOwnCall
      <3>4. \A m : Owed(m) => Owed(m)'
        BY <2>1, <2>4, <3>1 DEF Owed, Taken
      <3>5. OneInv'
        BY <1>o, <2>1, <3>4
      <3> QED  BY <3>2, <3>3, <3>5 DEF ExchangeInv
    <2> QED  BY <1>2, <2>p, <2>3, <2>4 DEF Handle
  <1>3. CASE ForwardWrites
    <2>1. /\ pep.stage = "writing"
          /\ UNCHANGED <<stdin, fromServer, serverUp, working, lines, relayed>>
      BY <1>3 DEF ForwardWrites
    <2>2. /\ pep.line \in (1..Len(lines)) \ DOMAIN answer
          /\ lines[pep.line] \in Message /\ lines[pep.line].n = pep.line
      BY <1>i, <1>t, <2>1 DEF LinesInv
    <2>3. ASSUME pep' = Reading, serverUp' = serverUp, AnswersTheirOwnCall',
                 DOMAIN answer' \subseteq DOMAIN answer \union {pep.line},
                 \A k : Taken(k) => Taken(k)'
          PROVE  /\ pep' \in [stage : Stages, line : Nat] /\ LinesInv' /\ SpeaksInv'
                 /\ \A m : Owed(m) => Owed(m)'
      <3>1. pep'.stage = "reading" /\ pep' \in [stage : Stages, line : Nat]
        BY <2>3 DEF Reading, Stages
      <3>2. LinesInv' /\ SpeaksInv'
        BY <1>i, <2>1, <2>2, <2>3, <3>1 DEF LinesInv, SpeaksInv
      <3>3. \A m : Owed(m) => Owed(m)'
        BY <2>1, <2>3 DEF Owed
      <3> QED  BY <3>1, <3>2, <3>3
    <2>4. CASE ~serverUp /\ Give(pep.line, errorResponse(pep.line, Upstream)) /\ pep' = Reading
               /\ toServer' = toServer
      <3>0. Upstream.kind = "upstream"
        BY DEF Upstream
      <3>1. \/ answer' = answer
            \/ \E msg : Answered(pep.line, msg) /\ msg.kind \in {"denied", "upstream"}
        BY <2>4, <3>0, GiveError
      <3>2. /\ AnswersTheirOwnCall' /\ DOMAIN answer' \subseteq DOMAIN answer \union {pep.line}
            /\ \A k : Taken(k) => Taken(k)'
        BY <1>i, <2>1, <2>2, <3>1, ErrorStep DEF LinesInv
      <3>3. /\ pep' \in [stage : Stages, line : Nat] /\ LinesInv' /\ SpeaksInv'
            /\ \A m : Owed(m) => Owed(m)'
        BY <2>1, <2>3, <2>4, <3>2
      <3>4. ExchangeTyped' /\ OneInv'
        BY <1>o, <1>t, <2>1, <2>4, <3>3 DEF ExchangeTyped
      <3> QED  BY <3>2, <3>3, <3>4 DEF ExchangeInv
    \* The line joins the pipe.
    <2>a. ASSUME serverUp, toServer' = Append(toServer, lines[pep.line])
          PROVE  /\ toServer' \in Seq(Message)
                 /\ toServer'[Len(toServer) + 1] = lines[pep.line]
                 /\ \A i \in 1..Len(toServer) : toServer'[i] = toServer[i] /\ i # Len(toServer) + 1
                 /\ \A i \in 1..Len(toServer') : i \in 1..Len(toServer) \/ i = Len(toServer) + 1
      BY <1>t, <2>2, <2>a, QueueAppend
    <2>5. CASE /\ serverUp /\ toServer' = Append(toServer, lines[pep.line]) /\ answer' = answer
               /\ isRequest(lines[pep.line]) /\ pep' = [pep EXCEPT !.stage = "waiting"]
      <3>1. pep'.stage = "waiting" /\ pep'.line = pep.line /\ pep' \in [stage : Stages, line : Nat]
        BY <1>t, <2>5 DEF Stages
      <3>2. ExchangeTyped'
        BY <1>t, <2>1, <2>5, <2>a, <3>1 DEF ExchangeTyped
      <3>3. LinesInv' /\ SpeaksInv' /\ AnswersTheirOwnCall'
        BY <1>i, <2>1, <2>2, <2>5, <3>1 DEF LinesInv, SpeaksInv, AnswersTheirOwnCall
      <3>4. \A m : Owed(m) => Owed(m)' /\ m.n # pep.line
        BY <2>1, <2>2, <2>5, <3>1 DEF Owed, Taken
      <3>u. serverUp /\ serverUp'
        BY <2>1, <2>5
      <3>6. PICK e : \A i : IsAsked(i)' => (IsAsked(i) /\ toServer'[i] = toServer[i])
                                          \/ (i = e /\ toServer'[i] = lines[pep.line])
        BY <2>5, <2>a DEF IsAsked
      <3>7. \A i : IsGiven(i)' = IsGiven(i)
        BY <2>1 DEF IsGiven
      <3>m. PICK m : m = lines[pep.line] /\ m.n = pep.line /\ Owed(m)'
        <4>1. PICK m : m = lines[pep.line]
          OBVIOUS
        <4>2. m.n = pep.line /\ m.n \in 1..Len(lines) /\ m.id = lines[m.n].id
          BY <2>2, <4>1
        <4>3. Owed(m)'
          BY <2>1, <3>1, <4>2 DEF Owed
        <4> QED  BY <4>1, <4>2, <4>3
      <3>n. /\ \A k \in working : k.n # m.n
            /\ \A i : IsAsked(i) => toServer[i].n # m.n
            /\ \A i : IsGiven(i) => fromServer[i].n # m.n
        BY <1>i, <2>5, <3>4, <3>m DEF OneInv
      <3>8. \A i, j : IsAsked(i)' /\ IsAsked(j)' /\ toServer'[i].n = toServer'[j].n => i = j
        <4> SUFFICES ASSUME NEW i, NEW j, IsAsked(i)', IsAsked(j)', toServer'[i].n = toServer'[j].n
                     PROVE  i = j
          OBVIOUS
        <4>1. \/ IsAsked(i) /\ IsAsked(j) /\ toServer[i].n = toServer[j].n
              \/ i = e /\ j = e
          BY <3>6, <3>m, <3>n
        <4> QED  BY <1>i, <3>u, <4>1 DEF OneInv
      <3>9. /\ \A i : IsAsked(i)' => Owed(toServer[i])'
            /\ \A k \in working : \A i : IsAsked(i)' => toServer'[i].n # k.n
            /\ \A i, j : IsGiven(i)' /\ IsAsked(j)' => fromServer'[i].n # toServer'[j].n
        <4>1. ASSUME NEW i, IsAsked(i)'
              PROVE  Owed(toServer[i])' /\ \A k \in working : toServer'[i].n # k.n
          <5>1. CASE IsAsked(i) /\ toServer'[i] = toServer[i]
            <6>1. PICK k : k = toServer[i]
              OBVIOUS
            <6>2. Owed(k) /\ \A r \in working : k.n # r.n
              BY <1>i, <3>u, <5>1, <6>1 DEF OneInv
            <6>3. Owed(k)'
              BY <3>4, <6>2
            <6> QED  BY <5>1, <6>1, <6>2, <6>3 DEF Owed
          <5>2. CASE toServer'[i] = m
            BY <3>m, <3>n, <5>2 DEF Owed
          <5> QED  BY <3>6, <3>m, <4>1, <5>1, <5>2
        <4>2. ASSUME NEW i, NEW j, IsGiven(i)', IsAsked(j)'
              PROVE  fromServer'[i].n # toServer'[j].n
          BY <1>i, <2>1, <3>6, <3>7, <3>m, <3>n, <3>u, <4>2 DEF OneInv
        <4> QED  BY <4>1, <4>2
      <3>10. OneInv'
        <4>1. /\ \A i : IsGiven(i)' => Owed(fromServer[i])'
              /\ \A k \in working' : Owed(k)'
          BY <1>i, <2>1, <3>4, <3>7, <3>u DEF OneInv
        <4> QED  BY <1>i, <2>1, <3>7, <3>8, <3>9, <3>u, <4>1 DEF OneInv
      <3> QED  BY <3>2, <3>3, <3>10 DEF ExchangeInv
    <2>6. CASE /\ serverUp /\ toServer' = Append(toServer, lines[pep.line])
               /\ ~isRequest(lines[pep.line]) /\ pep' = Reading /\ Give(pep.line, Nil)
      <3>0. Denied.kind = "denied"
        BY DEF Denied
      <3>1. \/ answer' = answer
            \/ \E msg : Answered(pep.line, msg) /\ msg.kind \in {"denied", "upstream"}
        BY <2>6, <3>0 DEF Give, Answered
      <3>2. /\ AnswersTheirOwnCall' /\ DOMAIN answer' \subseteq DOMAIN answer \union {pep.line}
            /\ \A k : Taken(k) => Taken(k)'
        BY <1>i, <2>1, <2>2, <3>1, ErrorStep DEF LinesInv
      <3>3. /\ pep' \in [stage : Stages, line : Nat] /\ LinesInv' /\ SpeaksInv'
            /\ \A m : Owed(m) => Owed(m)'
        BY <2>1, <2>3, <2>6, <3>2
      <3>4. ExchangeTyped'
        BY <1>t, <2>1, <2>6, <2>a, <3>3 DEF ExchangeTyped
      <3>5. \A i : IsAsked(i)' => IsAsked(i) /\ toServer'[i] = toServer[i]
        BY <2>6, <2>a DEF IsAsked, isRequest
      <3>6. \A i : IsGiven(i)' = IsGiven(i)
        BY <2>1 DEF IsGiven
      <3>7. OneInv'
        <4>1. serverUp /\ serverUp'
          BY <2>1, <2>6
        <4> QED  BY <1>i, <2>1, <3>3, <3>5, <3>6, <4>1 DEF OneInv
      <3> QED  BY <3>2, <3>3, <3>4, <3>7 DEF ExchangeInv
    <2> QED  BY <1>3, <2>4, <2>5, <2>6 DEF ForwardWrites
  <1>4. CASE ForwardReads
    <2>1. /\ pep.stage = "waiting" /\ fromServer # <<>> /\ fromServer' = Tail(fromServer)
          /\ UNCHANGED <<stdin, toServer, serverUp, working, lines>>
      BY <1>4 DEF ForwardReads
    <2>2. PICK msg \in Message : msg = Head(fromServer) /\ msg = fromServer[1] /\ 1 \in 1..Len(fromServer)
      BY <1>t, <2>1, QueueTail
    <2>3. /\ fromServer' \in Seq(Message) /\ Len(fromServer) \in Nat
          /\ \A i \in 1..Len(fromServer') : /\ fromServer'[i] = fromServer[i + 1]
                                            /\ i + 1 \in 1..Len(fromServer) /\ i + 1 # 1
          /\ \A i, j \in 1..Len(fromServer') : i + 1 = j + 1 => i = j
      BY <1>t, <2>1, QueueTail
    <2>4. SpeaksInv' /\ \A i : IsGiven(i)' => IsGiven(i + 1) /\ fromServer'[i] = fromServer[i + 1]
                                              /\ i + 1 # 1 /\ i \in 1..Len(fromServer')
      BY <1>i, <2>3 DEF SpeaksInv, IsGiven
    <2>5. \A i, j : IsGiven(i)' /\ IsGiven(j)' /\ fromServer'[i].n = fromServer'[j].n => i = j
      BY <1>i, <2>3, <2>4 DEF OneInv
    <2>6. \A i : IsAsked(i)' = IsAsked(i)
      BY <2>1 DEF IsAsked
    <2>7. pep.line \in (1..Len(lines)) \ DOMAIN answer
      BY <1>i, <2>1 DEF LinesInv
    <2>8. CASE matches(msg, pep.line) /\ Give(pep.line, msg) /\ pep' = Reading /\ relayed' = relayed
      <3>1. msg.id = lines[pep.line].id /\ msg.kind \in {"request", "response"}
        BY <1>i, <2>2, <2>8, MessageFields DEF matches, hasId, SpeaksInv
      <3>2. Answered(pep.line, msg)
        <4>1. msg # Nil
          <5>1. Nil.kind = "nil"
            BY DEF Nil
          <5> QED  BY <3>1, <5>1
        <4> QED  BY <2>8, <4>1 DEF Give, Answered
      <3>3. /\ DOMAIN answer' = DOMAIN answer \union {pep.line} /\ answer'[pep.line] = msg
            /\ \A k \in DOMAIN answer : answer'[k] = answer[k]
        BY <2>7, <3>2 DEF Answered
      <3>4. pep'.stage = "reading" /\ pep' \in [stage : Stages, line : Nat]
        BY <2>8 DEF Reading, Stages
      <3>5. ExchangeTyped'
        BY <1>t, <2>1, <2>3, <2>8, <3>4 DEF ExchangeTyped
      <3>6. LinesInv'
        BY <1>i, <2>1, <2>7, <3>3, <3>4 DEF LinesInv
      <3>7. \A k : Taken(k) => Taken(k)'
        BY <3>3 DEF Taken
      <3>8. AnswersTheirOwnCall'
        <4>2. msg.kind = "response" => msg.n = pep.line \/ (Taken(msg.n) /\ lines[msg.n].id = msg.id)
          BY <1>i, <2>2 DEF OneInv, Owed, IsGiven
        <4>3. \/ msg.kind = "response" /\ msg.n = pep.line
              \/ \E k \in DOMAIN answer' : answer'[k].kind = "request" /\ lines[k].id = lines[pep.line].id
          <5>1. CASE msg.kind = "request"
            BY <3>3, <5>1
          <5>2. CASE Taken(msg.n) /\ lines[msg.n].id = msg.id
            <6>1. \E k \in DOMAIN answer : answer[k].kind = "request" /\ lines[k].id = lines[msg.n].id
              BY <1>i, <5>2 DEF AnswersTheirOwnCall, Taken
            <6> QED  BY <3>1, <3>3, <5>2, <6>1
          <5> QED  BY <3>1, <4>2, <5>1, <5>2
        <4>4. \A k \in DOMAIN answer : k \in DOMAIN answer' /\ answer'[k] = answer[k]
          BY <3>3
        <4> QED  BY <1>i, <2>1, <3>1, <3>3, <4>3, <4>4 DEF AnswersTheirOwnCall
      <3>9. CASE msg.kind = "request"
        <4>1. \A m : Owed(m) => Owed(m)'
          <5>1. PICK n : n = pep.line
            OBVIOUS
          <5>2. Taken(n)'
            BY <3>3, <3>9, <5>1 DEF Taken
          <5> QED  BY <2>1, <3>7, <5>1, <5>2 DEF Owed
        <4> QED  BY <1>i, <2>1, <2>4, <2>5, <2>6, <3>5, <3>6, <3>8, <4>1 DEF OneInv, ExchangeInv
      <3>10. CASE msg.kind = "response"
        <4>1. \A m : Owed(m) /\ m.n # msg.n => Owed(m)'
          <5>1. Owed(msg) /\ IsGiven(1)
            BY <1>i, <2>2, <3>10 DEF OneInv, IsGiven
          <5>2. CASE msg.n = pep.line
            BY <2>1, <3>7, <5>2 DEF Owed
          <5>3. CASE msg.n # pep.line
            <6>1. PICK n : n = pep.line
              OBVIOUS
            <6>2. Taken(n)'
              BY <3>3, <3>10, <5>3, <6>1 DEF Taken
            <6> QED  BY <2>1, <3>7, <6>1, <6>2 DEF Owed
          <5> QED  BY <5>2, <5>3
        <4>2. IsGiven(1)
          BY <2>2, <3>10 DEF IsGiven
        <4>3. /\ \A i : IsGiven(i)' => fromServer'[i].n # msg.n
              /\ serverUp => \A m \in working : m.n # msg.n
              /\ serverUp => \A i : IsAsked(i) => toServer[i].n # msg.n
          BY <1>i, <2>2, <2>4, <4>2 DEF OneInv
        <4> QED  BY <1>i, <2>1, <2>4, <2>5, <2>6, <3>5, <3>6, <3>8, <4>1, <4>3 DEF OneInv, ExchangeInv
      <3> QED  BY <3>1, <3>9, <3>10
    <2>9. CASE relayed' = Append(relayed, msg) /\ pep' = pep /\ answer' = answer
      <3>1. ExchangeTyped'
        BY <1>t, <2>1, <2>3, <2>9, QueueAppend DEF ExchangeTyped
      <3>2. LinesInv' /\ AnswersTheirOwnCall'
        BY <1>i, <2>1, <2>9 DEF LinesInv, AnswersTheirOwnCall
      <3>3. \A m : Owed(m) => Owed(m)'
        BY <2>1, <2>9 DEF Owed, Taken
      <3>4. OneInv'
        BY <1>i, <2>1, <2>4, <2>5, <2>6, <3>3 DEF OneInv
      <3> QED  BY <2>4, <3>1, <3>2, <3>4 DEF ExchangeInv
    <2> QED  BY <1>4, <2>2, <2>8, <2>9 DEF ForwardReads
  <1>5. CASE ForwardEnds
    <2>1. /\ pep.stage = "waiting" /\ fromServer = <<>> /\ ~serverUp /\ pep' = Reading
          /\ Give(pep.line, errorResponse(pep.line, Upstream))
          /\ UNCHANGED <<stdin, toServer, fromServer, serverUp, working, lines, relayed>>
      BY <1>5 DEF ForwardEnds
    <2>2. pep.line \in (1..Len(lines)) \ DOMAIN answer
      BY <1>i, <2>1 DEF LinesInv
    <2>3. Upstream.kind = "upstream"
      BY DEF Upstream
    <2>4. \/ answer' = answer
          \/ \E msg : Answered(pep.line, msg) /\ msg.kind \in {"denied", "upstream"}
      BY <2>1, <2>3, GiveError
    <2>5. AnswersTheirOwnCall' /\ DOMAIN answer' \subseteq DOMAIN answer \union {pep.line}
      BY <1>i, <2>1, <2>2, <2>4, ErrorStep DEF LinesInv
    <2>6. ExchangeTyped' /\ pep'.stage = "reading"
      BY <1>t, <2>1 DEF ExchangeTyped, Reading, Stages
    <2>7. LinesInv' /\ SpeaksInv'
      BY <1>i, <2>1, <2>2, <2>5, <2>6 DEF LinesInv, SpeaksInv
    <2>8. OneInv'
      BY <2>1 DEF OneInv, IsGiven
    <2> QED  BY <2>5, <2>6, <2>7, <2>8 DEF ExchangeInv
  <1>6. CASE ServerReads
    <2>1. /\ serverUp /\ toServer # <<>> /\ toServer' = Tail(toServer)
          /\ working' = working \union (IF isRequest(Head(toServer)) THEN {Head(toServer)} ELSE {})
          /\ UNCHANGED <<stdin, pep, fromServer, serverUp, lines, answer, relayed>>
      BY <1>6 DEF ServerReads
    <2>2. PICK m \in Message : m = Head(toServer) /\ m = toServer[1] /\ 1 \in 1..Len(toServer)
      BY <1>t, <2>1, QueueTail
    <2>3. /\ toServer' \in Seq(Message) /\ Len(toServer) \in Nat
          /\ \A i \in 1..Len(toServer') : /\ toServer'[i] = toServer[i + 1]
                                          /\ i + 1 \in 1..Len(toServer) /\ i + 1 # 1
          /\ \A i, j \in 1..Len(toServer') : i + 1 = j + 1 => i = j
      BY <1>t, <2>1, QueueTail
    <2>4. working' = IF m.kind = "request" THEN working \union {m} ELSE working
      BY <2>1, <2>2 DEF isRequest
    <2>5. ExchangeTyped'
      BY <1>t, <2>1, <2>3, <2>4 DEF ExchangeTyped
    <2>6. LinesInv' /\ SpeaksInv' /\ AnswersTheirOwnCall'
      BY <1>i, <2>1 DEF LinesInv, SpeaksInv, AnswersTheirOwnCall
    <2>7. \A i : IsAsked(i)' => /\ IsAsked(i + 1) /\ toServer'[i] = toServer[i + 1]
                                /\ i + 1 # 1 /\ i \in 1..Len(toServer')
      BY <2>3 DEF IsAsked
    <2>8. \A i, j : IsAsked(i)' /\ IsAsked(j)' /\ toServer'[i].n = toServer'[j].n => i = j
      BY <1>i, <2>1, <2>3, <2>7 DEF OneInv
    <2>9. m.kind = "request" => IsAsked(1)
      BY <2>2 DEF IsAsked
    <2>10. m.kind = "request" => /\ Owed(m) /\ \A k \in working : k.n # m.n
                                 /\ \A i : IsAsked(i)' => toServer'[i].n # m.n
                                 /\ \A i : IsGiven(i) => fromServer[i].n # m.n
      BY <1>i, <2>1, <2>2, <2>7, <2>9 DEF OneInv
    <2>11. (\A k : Owed(k) => Owed(k)') /\ \A i : IsGiven(i)' = IsGiven(i)
      BY <2>1 DEF Owed, Taken, IsGiven
    <2>12. OneInv'
      BY <1>i, <2>1, <2>4, <2>7, <2>8, <2>10, <2>11 DEF OneInv
    <2> QED  BY <2>5, <2>6, <2>12 DEF ExchangeInv
  \* The server adds a line.
  <1>a. ASSUME NEW m \in Message, fromServer' = Append(fromServer, m), serverUp,
               m.kind # "reply", working' \subseteq working,
               m.kind = "response" =>
                   /\ Owed(m) /\ \A k \in working' : k.n # m.n
                   /\ \A i : IsAsked(i) => toServer[i].n # m.n
                   /\ \A i : IsGiven(i) => fromServer[i].n # m.n,
               UNCHANGED <<stdin, pep, toServer, serverUp, lines, answer, relayed>>
        PROVE  ExchangeInv'
    <2>1. /\ fromServer' \in Seq(Message)
          /\ fromServer'[Len(fromServer) + 1] = m
          /\ \A i \in 1..Len(fromServer) : fromServer'[i] = fromServer[i] /\ i # Len(fromServer) + 1
          /\ \A i \in 1..Len(fromServer') : i \in 1..Len(fromServer) \/ i = Len(fromServer) + 1
      BY <1>a, <1>t, QueueAppend
    <2>2. ExchangeTyped'
      BY <1>a, <1>t, <2>1 DEF ExchangeTyped
    <2>3. LinesInv' /\ SpeaksInv' /\ AnswersTheirOwnCall'
      BY <1>a, <1>i, <2>1 DEF LinesInv, SpeaksInv, AnswersTheirOwnCall
    <2>4. \A i : IsGiven(i)' => \/ IsGiven(i) /\ fromServer'[i] = fromServer[i]
                                \/ /\ i = Len(fromServer) + 1 /\ fromServer'[i] = m
                                   /\ m.kind = "response"
      BY <2>1 DEF IsGiven
    <2>5. (\A k : Owed(k) => Owed(k)') /\ \A i : IsAsked(i)' = IsAsked(i)
      BY <1>a DEF Owed, Taken, IsAsked
    <2>u. /\ serverUp /\ serverUp' /\ working' \subseteq working /\ toServer' = toServer
          /\ m.kind = "response" =>
                   /\ Owed(m) /\ \A k \in working' : k.n # m.n
                   /\ \A i : IsAsked(i) => toServer[i].n # m.n
                   /\ \A i : IsGiven(i) => fromServer[i].n # m.n
      BY <1>a
    <2>e. PICK e : \A i : IsGiven(i)' => \/ IsGiven(i) /\ fromServer'[i] = fromServer[i]
                                         \/ i = e /\ fromServer'[i] = m /\ m.kind = "response"
      BY <2>4
    <2>6. \A i, j : IsGiven(i)' /\ IsGiven(j)' /\ fromServer'[i].n = fromServer'[j].n => i = j
      <3> SUFFICES ASSUME NEW i, NEW j, IsGiven(i)', IsGiven(j)', fromServer'[i].n = fromServer'[j].n
                   PROVE  i = j
        OBVIOUS
      <3>1. \/ IsGiven(i) /\ IsGiven(j) /\ fromServer[i].n = fromServer[j].n
            \/ i = e /\ j = e
        BY <2>u, <2>e
      <3> QED  BY <1>i, <3>1 DEF OneInv
    <2>7. OneInv'
      BY <1>i, <2>5, <2>6, <2>e, <2>u DEF OneInv
    <2> QED  BY <2>2, <2>3, <2>7 DEF ExchangeInv
  <1>7. CASE ServerAnswers
    <2>1. PICK rq \in working :
              /\ working' = working \ {rq}
              /\ fromServer' = Append(fromServer, [kind |-> "response", id |-> rq.id, n |-> rq.n])
      BY <1>7 DEF ServerAnswers
    <2>2. serverUp /\ UNCHANGED <<stdin, pep, toServer, serverUp, lines, answer, relayed>>
      BY <1>7 DEF ServerAnswers
    <2>3. PICK m \in Message : /\ m = [kind |-> "response", id |-> rq.id, n |-> rq.n]
                               /\ m.kind = "response" /\ m.n = rq.n /\ m.id = rq.id
      <3>1. rq.id \in Ids /\ rq.n \in Nat
        BY <1>t, MessageFields
      <3>2. [kind |-> "response", id |-> rq.id, n |-> rq.n] \in Message
        BY <3>1 DEF Message
      <3> QED  BY <3>2
    <2>4. /\ Owed(m) /\ \A k \in working' : k.n # m.n
          /\ \A i : IsAsked(i) => toServer[i].n # m.n
          /\ \A i : IsGiven(i) => fromServer[i].n # m.n
      <3>1. Owed(rq) /\ \A k \in working : k.n = rq.n => k = rq
        BY <1>i, <2>2 DEF OneInv
      <3>2. Owed(m)
        BY <2>3, <3>1 DEF Owed
      <3> QED  BY <1>i, <2>1, <2>2, <2>3, <3>1, <3>2 DEF OneInv
    <2>5. m.kind # "reply" /\ working' \subseteq working
      BY <2>1, <2>3
    <2> QED  BY <1>a, <2>1, <2>2, <2>3, <2>4, <2>5
  <1>8. CASE ServerSpeaks
    <2>1. serverUp /\ UNCHANGED <<stdin, pep, toServer, serverUp, working, lines, answer, relayed>>
      BY <1>8 DEF ServerSpeaks
    <2>2. PICK msg \in [kind : {"notification"}, id : {""}, n : {0}]
                       \union [kind : {"request"}, id : ServerIds, n : {0}] :
              fromServer' = Append(fromServer, msg)
      BY <1>8 DEF ServerSpeaks
    <2>3. msg \in Message /\ msg.kind \in {"notification", "request"}
      <3>1. CASE msg \in [kind : {"notification"}, id : {""}, n : {0}]
        <4>1. msg = [kind |-> "notification", id |-> "", n |-> 0]
          BY <3>1
        <4>2. [kind |-> "notification", id |-> "", n |-> 0] \in Message
          BY DEF Message, Ids
        <4> QED  BY <4>1, <4>2
      <3>2. CASE msg \in [kind : {"request"}, id : ServerIds, n : {0}]
        <4>1. PICK x \in ServerIds : msg = [kind |-> "request", id |-> x, n |-> 0]
          BY <3>2
        <4>2. [kind |-> "request", id |-> x, n |-> 0] \in Message
          BY DEF Message, Ids
        <4> QED  BY <4>1, <4>2
      <3> QED  BY <2>2, <3>1, <3>2
    <2> QED  BY <1>a, <2>1, <2>2, <2>3
  <1>9. CASE ServerExits
    <2>1. serverUp' = FALSE /\ UNCHANGED <<stdin, pep, toServer, fromServer, working, lines, answer, relayed>>
      BY <1>9 DEF ServerExits
    <2>2. ExchangeTyped' /\ LinesInv' /\ SpeaksInv' /\ AnswersTheirOwnCall'
      BY <1>t, <1>i, <2>1 DEF ExchangeTyped, LinesInv, SpeaksInv, AnswersTheirOwnCall
    <2>3. OneInv'
      BY <1>i, <2>1 DEF OneInv, Owed, Taken, IsGiven
    <2> QED  BY <2>2, <2>3 DEF ExchangeInv
  <1>10. CASE UNCHANGED exchangeVars
    <2>1. UNCHANGED <<stdin, pep, toServer, fromServer, serverUp, working, lines, answer, relayed>>
      BY <1>10 DEF exchangeVars
    <2>2. ExchangeTyped' /\ LinesInv' /\ SpeaksInv' /\ AnswersTheirOwnCall'
      BY <1>t, <1>i, <2>1 DEF ExchangeTyped, LinesInv, SpeaksInv, AnswersTheirOwnCall
    <2>3. OneInv'
      BY <1>o, <2>1 DEF Owed, Taken
    <2> QED  BY <2>2, <2>3 DEF ExchangeInv
  <1> QED  BY <1>1, <1>2, <1>3, <1>4, <1>5, <1>6, <1>7, <1>8, <1>9, <1>10 DEF ExchangeNext, PepStep

\* What the client receives for a call is the server's answer to that very
\* call or an error, for pipes of any size, any conversation and whenever the
\* server exits, except under an id for which the server's own request was
\* taken for an answer (mcp-pep childConn.forward compares nothing but ids).
THEOREM AnswersReachTheirCall ==
    ExchangeInit /\ [][ExchangeNext]_exchangeVars => []AnswersTheirOwnCall
  <1>1. ExchangeInit => ExchangeInv
    BY DEF ExchangeInit, Reading, Stages, ExchangeInv, ExchangeTyped, LinesInv, SpeaksInv, OneInv,
           IsAsked, IsGiven, AnswersTheirOwnCall
  <1>2. ExchangeInv /\ [ExchangeNext]_exchangeVars => ExchangeInv'
    BY ExchangeStep
  <1>3. ExchangeInv => AnswersTheirOwnCall
    BY DEF ExchangeInv
  <1> QED  BY <1>1, <1>2, <1>3, PTL

-----------------------------------------------------------------------------
(* spt-txn-init.                                                           *)

Placing == {"recheck", "link", "unstage", "remove", "rename", "unlock"}
Places == {"check", "mkdir", "arm", "populate", "stop", "cleanup", "gone"} \union Placing
FileNames ==
    {"issuer.key", "issuer.pub", "log.key", "publication.key", "publication.pub", "registry.json",
     "registry.json.manifest.json", "policy.json", "run.sh", "mint.sh", "README.md"}
Owner == Runs \union {"nobody"}
All(r) == ToSet(artifacts(r))

\* The files that populate has written, in order.
Staged(r) ==
    \E k \in 0..Len(artifacts(r)) :
        tmp[r] = {artifacts(r)[i] : i \in 1..k} /\ Cardinality(tmp[r]) = k

DeployTyped ==
    /\ out \in [kind : {"absent", "empty", "file", "full", "deployment"}, run : Owner,
                files : SUBSET FileNames]
    /\ keyFile \in Owner
    /\ tmpDir \in [Runs -> BOOLEAN] /\ tmp \in [Runs -> SUBSET FileNames]
    /\ pc \in [Runs -> Places] /\ lock \in [Runs -> {"free", "main", "handler"}]
    /\ notified \in [Runs -> BOOLEAN] /\ caught \in [Runs -> BOOLEAN]
    /\ success \in [Runs -> BOOLEAN] /\ ended \in [Runs -> Ends]

\* Where a run is, who holds its lock and what its temporary directory holds.
\* The handler has the lock only while nothing is being placed.
RunInv(r) ==
    /\ ended[r] = "running" <=> pc[r] # "gone"
    /\ lock[r] = "main" <=> pc[r] \in Placing
    /\ lock[r] = "handler" => pc[r] \in {"populate", "stop", "cleanup"}
    /\ (caught[r] \/ notified[r]) => pc[r] \notin {"check", "mkdir", "arm", "gone"}
    /\ pc[r] \in {"check", "mkdir"} => ~tmpDir[r]
    /\ pc[r] \in {"check", "mkdir", "arm"} => tmp[r] = {}
    /\ pc[r] = "populate" /\ lock[r] # "handler" => Staged(r)
    /\ pc[r] \in {"recheck", "link", "unstage"} => tmp[r] = All(r)
    /\ pc[r] \in {"remove", "rename"} => tmp[r] = All(r) \ {"issuer.key"}
    /\ pc[r] \in {"link", "unstage"} => r \in SelfIssued
    /\ success[r] => ~tmpDir[r] /\ pc[r] \in {"unlock", "stop", "cleanup", "gone"}
    /\ ended[r] \in {"ok", "error", "interrupted"} => ~tmpDir[r]

\* A run between the link and the rename owns the key, and a key is its
\* deployment's, or that of a run that is placing it, was killed or could not
\* remove it.
Justified(r) ==
    \/ out.run = r \/ pc[r] \in {"unstage", "remove", "rename"}
    \/ ended[r] \in {"killed", "signalled"} \/ r \in stray

KeyInv ==
    \A r \in Runs :
        /\ r \in SelfIssued /\ pc[r] \in {"unstage", "remove", "rename"} => keyFile = r
        /\ keyFile = r => r \in SelfIssued /\ Justified(r)

OutInv ==
    /\ out.kind = "deployment" =>
          /\ out.run \in Runs /\ success[out.run]
          /\ out.files = All(out.run) \ {"issuer.key"}
          /\ out.run \in SelfIssued => keyFile = out.run
    /\ out.kind # "deployment" => out.run = "nobody"

DeployInv == DeployTyped /\ (\A r \in Runs : RunInv(r)) /\ KeyInv /\ OutInv

\* What populate writes: no file twice.
LEMMA Published ==
    /\ published \in Seq(FileNames) /\ Len(published) = 10
    /\ \A i, j \in 1..10 : published[i] = published[j] => i = j
    /\ \A i \in 1..10 : published[i] # "issuer.key"
  <1> DEFINE rank(f) ==
        IF f = "issuer.pub" THEN 1
        ELSE IF f = "log.key" THEN 2
        ELSE IF f = "publication.key" THEN 3
        ELSE IF f = "publication.pub" THEN 4
        ELSE IF f = "registry.json" THEN 5
        ELSE IF f = "registry.json.manifest.json" THEN 6
        ELSE IF f = "policy.json" THEN 7
        ELSE IF f = "run.sh" THEN 8
        ELSE IF f = "mint.sh" THEN 9
        ELSE IF f = "README.md" THEN 10 ELSE 0
  <1>1. published \in Seq(FileNames) /\ Len(published) = 10
    <2>1. /\ "issuer.pub" \in FileNames /\ "log.key" \in FileNames /\ "publication.key" \in FileNames
          /\ "publication.pub" \in FileNames /\ "registry.json" \in FileNames
          /\ "registry.json.manifest.json" \in FileNames /\ "policy.json" \in FileNames
          /\ "run.sh" \in FileNames /\ "mint.sh" \in FileNames /\ "README.md" \in FileNames
      BY DEF FileNames
    <2> QED  BY <2>1 DEF published
  <1>2. /\ published[1] = "issuer.pub"
        /\ published[2] = "log.key"
        /\ published[3] = "publication.key"
        /\ published[4] = "publication.pub"
        /\ published[5] = "registry.json"
        /\ published[6] = "registry.json.manifest.json"
        /\ published[7] = "policy.json"
        /\ published[8] = "run.sh"
        /\ published[9] = "mint.sh"
        /\ published[10] = "README.md"
    BY DEF published
  <1>3. \A i \in 1..10 : rank(published[i]) = i
    <2> SUFFICES ASSUME NEW i \in 1..10
                 PROVE  rank(published[i]) = i
      OBVIOUS
    <2>1. \/ i = 1 \/ i = 2 \/ i = 3 \/ i = 4 \/ i = 5 \/ i = 6 \/ i = 7 \/ i = 8 \/ i = 9 \/ i = 10
      OBVIOUS
    <2> QED  BY <1>2, <2>1
  <1>4. rank("issuer.key") = 0
    OBVIOUS
  <1> HIDE DEF rank
  <1>5. \A i \in 1..10 : published[i] # "issuer.key"
    BY <1>3, <1>4
  <1>6. \A i, j \in 1..10 : published[i] = published[j] => i = j
    BY <1>3
  <1> QED  BY <1>1, <1>5, <1>6

LEMMA Prepended ==
    ASSUME NEW x \in FileNames, NEW s \in Seq(FileNames)
    PROVE  /\ <<x>> \o s \in Seq(FileNames) /\ Len(<<x>> \o s) = Len(s) + 1
           /\ (<<x>> \o s)[1] = x
           /\ \A i \in 2..(Len(s) + 1) : (<<x>> \o s)[i] = s[i - 1]
  <1>1. <<x>> \in Seq(FileNames) /\ Len(<<x>>) = 1 /\ <<x>>[1] = x /\ Len(s) \in Nat
    OBVIOUS
  <1> DEFINE t == <<x>>
  <1> HIDE DEF t
  <1>2. /\ t \o s \in Seq(FileNames) /\ Len(t \o s) = Len(t) + Len(s)
        /\ \A i \in 1..(Len(t) + Len(s)) : (t \o s)[i] = IF i <= Len(t) THEN t[i] ELSE s[i - Len(t)]
    BY <1>1, ConcatProperties DEF t
  <1>3. t \in Seq(FileNames) /\ Len(t) = 1 /\ t[1] = x
    BY <1>1 DEF t
  <1>4. Len(t \o s) = Len(s) + 1 /\ (t \o s)[1] = x
    BY <1>1, <1>2, <1>3
  <1>5. \A i \in 2..(Len(s) + 1) : (t \o s)[i] = s[i - 1]
    <2> SUFFICES ASSUME NEW i \in 2..(Len(s) + 1)
                 PROVE  (t \o s)[i] = s[i - 1]
      OBVIOUS
    <2>1. i \in 1..(1 + Len(s)) /\ ~(i <= 1)
      BY <1>1
    <2> QED  BY <1>2, <1>3, <2>1
  <1> QED  BY <1>2, <1>4, <1>5 DEF t

LEMMA Artifacts ==
    ASSUME NEW r
    PROVE  /\ artifacts(r) \in Seq(FileNames)
           /\ \A i, j \in 1..Len(artifacts(r)) : artifacts(r)[i] = artifacts(r)[j] => i = j
           /\ r \notin SelfIssued => "issuer.key" \notin All(r)
  <1>1. CASE r \in SelfIssued
    <2>1. artifacts(r) = <<"issuer.key">> \o published
      BY <1>1 DEF artifacts
    <2>2. /\ artifacts(r) \in Seq(FileNames) /\ Len(artifacts(r)) = 11
          /\ artifacts(r)[1] = "issuer.key"
          /\ \A i \in 2..11 : artifacts(r)[i] = published[i - 1]
      <3>1. "issuer.key" \in FileNames /\ published \in Seq(FileNames) /\ Len(published) = 10
        BY Published DEF FileNames
      <3> DEFINE s == published
                 t == <<"issuer.key">> \o s
      <3> HIDE DEF s
      <3>2. s \in Seq(FileNames) /\ Len(s) = 10
        BY <3>1 DEF s
      <3>3. /\ t \in Seq(FileNames) /\ Len(t) = Len(s) + 1 /\ t[1] = "issuer.key"
            /\ \A i \in 2..(Len(s) + 1) : t[i] = s[i - 1]
        BY <3>1, <3>2, Prepended
      <3>4. t = artifacts(r)
        BY <2>1 DEF s
      <3> HIDE DEF t
      <3>5. Len(t) = 11 /\ \A i \in 2..11 : t[i] = s[i - 1]
        BY <3>2, <3>3
      <3> QED  BY <3>3, <3>4, <3>5 DEF s
    <2>3. ASSUME NEW i \in 1..11, NEW j \in 1..11, artifacts(r)[i] = artifacts(r)[j]
          PROVE  i = j
      <3>1. \A k \in 2..11 : k - 1 \in 1..10 /\ artifacts(r)[k] # "issuer.key"
        BY <2>2, Published
      <3>2. CASE i = 1 \/ j = 1
        BY <2>2, <2>3, <3>1, <3>2
      <3>3. CASE i \in 2..11 /\ j \in 2..11
        <4>1. published[i - 1] = published[j - 1] /\ i - 1 \in 1..10 /\ j - 1 \in 1..10
          BY <2>2, <2>3, <3>1, <3>3
        <4>2. i - 1 = j - 1
          BY <4>1, Published
        <4> QED  BY <3>3, <4>2
      <3> QED  BY <3>2, <3>3
    <2> QED  BY <1>1, <2>2, <2>3
  <1>2. CASE r \notin SelfIssued
    <2>1. artifacts(r) = published
      BY <1>2 DEF artifacts
    <2> QED  BY <1>2, <2>1, Published DEF All, ToSet
  <1> QED  BY <1>1, <1>2

\* One more write, and the last one.
LEMMA StagedGrows ==
    ASSUME NEW r \in Runs, Staged(r), DeployTyped
    PROVE  /\ Cardinality(tmp[r]) < Len(artifacts(r)) /\
              tmp'[r] = tmp[r] \union {artifacts(r)[Cardinality(tmp[r]) + 1]}
              => Staged(r)' /\ tmp'[r] \subseteq FileNames
           /\ Cardinality(tmp[r]) = Len(artifacts(r)) => tmp[r] = All(r)
  <1> DEFINE a == artifacts(r)
  <1>a. /\ a \in Seq(FileNames) /\ Len(a) \in Nat /\ DOMAIN a = 1..Len(a)
        /\ \A i, j \in 1..Len(a) : a[i] = a[j] => i = j
    BY Artifacts
  <1> HIDE DEF a
  <1>1. PICK k \in 0..Len(a) : tmp[r] = {a[i] : i \in 1..k} /\ Cardinality(tmp[r]) = k
    BY DEF Staged, a
  <1>2. IsFiniteSet(tmp[r])
    <2>1. IsFiniteSet(1..k)
      <3>1. k \in Int /\ 1 \in Int
        BY <1>1, <1>a
      <3> QED  BY <3>1, FS_Interval
    <2>2. [i \in 1..k |-> a[i]] \in Surjection(1..k, tmp[r])
      BY <1>1 DEF Surjection
    <2> QED  BY <2>1, <2>2, FS_Surjection
  <1>3. ASSUME Cardinality(tmp[r]) < Len(a), tmp'[r] = tmp[r] \union {a[Cardinality(tmp[r]) + 1]}
        PROVE  Staged(r)' /\ tmp'[r] \subseteq FileNames
    <2>1. k + 1 \in 1..Len(a) /\ k + 1 \in 0..Len(a) /\ tmp'[r] = tmp[r] \union {a[k + 1]}
      BY <1>1, <1>3, <1>a
    <2>2. a[k + 1] \notin tmp[r]
      BY <1>1, <1>a, <2>1
    <2>3. Cardinality(tmp'[r]) = k + 1
      BY <1>1, <1>2, <2>1, <2>2, FS_AddElement
    <2>4. tmp'[r] = {a[i] : i \in 1..(k + 1)}
      BY <1>1, <1>a, <2>1
    <2>5. tmp'[r] \subseteq FileNames
      BY <1>a, <2>1, <2>4
    <2> QED  BY <2>1, <2>3, <2>4, <2>5 DEF Staged, a
  <1>4. ASSUME Cardinality(tmp[r]) = Len(a)
        PROVE  tmp[r] = All(r)
    BY <1>1, <1>4, <1>a DEF All, ToSet, a
  <1> QED  BY <1>3, <1>4 DEF a

\* A step of run r leaves the other runs where they are.
Others(r) ==
    \A x \in Runs \ {r} :
        /\ tmpDir'[x] = tmpDir[x] /\ tmp'[x] = tmp[x] /\ pc'[x] = pc[x] /\ lock'[x] = lock[x]
        /\ notified'[x] = notified[x] /\ caught'[x] = caught[x]
        /\ success'[x] = success[x] /\ ended'[x] = ended[x]

LEMMA OthersKeep ==
    ASSUME DeployInv, NEW r \in Runs, Others(r), RunInv(r)'
    PROVE  \A x \in Runs : RunInv(x)'
  <1> SUFFICES ASSUME NEW x \in Runs, x # r
               PROVE  RunInv(x)'
    OBVIOUS
  <1>1. RunInv(x)
    BY DEF DeployInv
  <1>2. /\ tmpDir'[x] = tmpDir[x] /\ tmp'[x] = tmp[x] /\ pc'[x] = pc[x] /\ lock'[x] = lock[x]
        /\ notified'[x] = notified[x] /\ caught'[x] = caught[x]
        /\ success'[x] = success[x] /\ ended'[x] = ended[x]
    BY DEF Others
  <1>3. Staged(x)' <=> Staged(x)
    BY <1>2 DEF Staged
  <1> QED  BY <1>1, <1>2, <1>3 DEF RunInv, All

\* A step that changes neither the output path, the key beside it nor a
\* success flag.
LEMMA PathsKeep ==
    ASSUME DeployInv, NEW r \in Runs, Others(r), DeployTyped', RunInv(r)',
           out' = out, keyFile' = keyFile, stray' = stray, success' = success,
           r \in SelfIssued /\ pc'[r] \in {"unstage", "remove", "rename"} => keyFile = r,
           keyFile = r => Justified(r)'
    PROVE  DeployInv'
  <1>1. \A x \in Runs : RunInv(x)'
    BY OthersKeep
  <1>2. KeyInv'
    BY DEF DeployInv, KeyInv, Justified, Others
  <1>3. OutInv'
    BY DEF DeployInv, OutInv, All
  <1> QED  BY <1>1, <1>2, <1>3 DEF DeployInv

\* A failing run takes back the key, which is its own if it linked one.
LEMMA KeyTaken ==
    ASSUME DeployInv, NEW r \in Runs, Others(r), DeployTyped', RunInv(r)',
           out' = out, success' = success, undoKey(r), pc'[r] = "unlock", ended'[r] = "running",
           pc[r] \in {"unstage", "remove", "rename"}
    PROVE  DeployInv'
  <1>1. \A x \in Runs : RunInv(x)'
    BY OthersKeep
  <1>2. "nobody" \notin Runs
    BY DeploymentAssumption
  <1>3. r \in SelfIssued => /\ keyFile = r
                            /\ keyFile' = "nobody" \/ (keyFile' = r /\ r \in stray')
    BY DEF DeployInv, KeyInv, undoKey
  <1>4. r \notin SelfIssued => keyFile # r /\ keyFile' = keyFile
    BY DEF DeployInv, KeyInv, undoKey
  <1>s. stray \subseteq stray'
    BY DEF undoKey
  <1>5. ~success[r]
    BY DEF DeployInv, RunInv
  <1>6. KeyInv'
    <2> SUFFICES ASSUME NEW x \in Runs
                 PROVE  /\ x \in SelfIssued /\ pc'[x] \in {"unstage", "remove", "rename"} => keyFile' = x
                        /\ keyFile' = x => x \in SelfIssued /\ Justified(x)'
      BY DEF KeyInv
    <2>1. CASE x = r
      BY <1>2, <1>3, <1>4, <2>1 DEF Justified
    <2>2. CASE x # r
      BY <1>2, <1>3, <1>4, <1>s, <2>2 DEF DeployInv, KeyInv, Justified, Others
    <2> QED  BY <2>1, <2>2
  <1>7. OutInv'
    <2>1. ASSUME out.kind = "deployment", out.run \in SelfIssued
          PROVE  keyFile' = out.run
      <3>1. keyFile = out.run /\ out.run # r
        BY <1>5, <2>1 DEF DeployInv, OutInv
      <3> QED  BY <1>3, <1>4, <3>1
    <2> QED  BY <2>1 DEF DeployInv, OutInv, All
  <1> QED  BY <1>1, <1>6, <1>7 DEF DeployInv

\* Each step of a run keeps the invariant.
LEMMA RunStep ==
    ASSUME DeployInv, NEW r \in Runs,
           \/ RunChecks(r) \/ RunMakesTemp(r) \/ RunArms(r) \/ RunWrites(r) \/ RunLocks(r)
           \/ RunRechecks(r) \/ RunLinksKey(r) \/ RunUnstages(r) \/ RunRemovesOut(r)
           \/ RunRenames(r) \/ RunUnlocks(r) \/ RunStops(r) \/ RunCleansUp(r) \/ RunExits(r)
           \/ HandlerLocks(r) \/ HandlerRemoves(r) \/ Signal(r) \/ Kill(r)
    PROVE  DeployInv'
  <1>t. DeployTyped
    BY DEF DeployInv
  <1>r. RunInv(r)
    BY DEF DeployInv
  <1>k. /\ r \in SelfIssued /\ pc[r] \in {"unstage", "remove", "rename"} => keyFile = r
        /\ keyFile = r => r \in SelfIssued /\ Justified(r)
    BY DEF DeployInv, KeyInv
  <1>s. tmp'[r] = tmp[r] => (Staged(r)' <=> Staged(r))
    BY DEF Staged
  <1>d. DeployTyped /\ RunInv(r)
    BY <1>t, <1>r
  <1>1. CASE RunChecks(r)
    <2>1. Others(r) /\ DeployTyped'
      <3>1. CASE checkOutDir(out) /\ (r \in SelfIssued => keyFile = "nobody")
        BY <1>t, <1>1, <3>1 DEF Others, DeployTyped, Places, Placing, Ends, faults, RunChecks, at, goes, dies
      <3>2. CASE ~(checkOutDir(out) /\ (r \in SelfIssued => keyFile = "nobody"))
        <4>1. /\ dies(r, "error")
              /\ UNCHANGED <<out, keyFile, stray, tmpDir, tmp, success>>
          BY <1>1, <3>2 DEF RunChecks
        <4> QED  BY <1>t, <4>1 DEF Others, DeployTyped, Places, Placing, Ends, dies
      <3> QED  BY <3>1, <3>2
    <2>2. RunInv(r)'
      BY <1>t, <1>r, <1>s, <1>1 DEF RunInv, DeployTyped, Placing, Places, All, faults, RunChecks, at, goes, dies
    <2>3. /\ out' = out /\ keyFile' = keyFile /\ stray' = stray /\ success' = success
          /\ r \in SelfIssued /\ pc'[r] \in {"unstage", "remove", "rename"} => keyFile = r
          /\ keyFile = r => Justified(r)'
      BY <1>t, <1>r, <1>k, <1>1 DEF Justified, RunInv, DeployTyped, Places, Placing, faults, RunChecks, at, goes, dies
    <2> QED  BY <2>1, <2>2, <2>3, PathsKeep
  <1>2. CASE RunMakesTemp(r)
    <2>1. Others(r) /\ DeployTyped'
      BY <1>t, <1>2 DEF Others, DeployTyped, Places, Placing, Ends, faults, RunMakesTemp, at, goes
    <2>2. RunInv(r)'
      BY <1>t, <1>r, <1>s, <1>2 DEF RunInv, DeployTyped, Placing, Places, All, faults, RunMakesTemp, at, goes
    <2>3. /\ out' = out /\ keyFile' = keyFile /\ stray' = stray /\ success' = success
          /\ r \in SelfIssued /\ pc'[r] \in {"unstage", "remove", "rename"} => keyFile = r
          /\ keyFile = r => Justified(r)'
      BY <1>t, <1>r, <1>k, <1>2 DEF Justified, RunInv, DeployTyped, Places, Placing, faults, RunMakesTemp, at, goes
    <2> QED  BY <2>1, <2>2, <2>3, PathsKeep
  <1>3. CASE RunArms(r)
    <2>1. Others(r) /\ DeployTyped'
      BY <1>t, <1>3 DEF Others, DeployTyped, Places, Placing, Ends, faults, RunArms, at, goes
    <2>2. RunInv(r)'
      <3>1. tmp'[r] = {}
        BY <1>r, <1>3 DEF RunInv, RunArms, at, goes
      <3>2. Staged(r)'
        <4>1. Len(artifacts(r)) \in Nat /\ 0 \in 0..Len(artifacts(r))
          BY Artifacts
        <4>2. tmp'[r] = {artifacts(r)[i] : i \in 1..0} /\ Cardinality(tmp'[r]) = 0
          BY <3>1, FS_EmptySet
        <4> QED  BY <4>1, <4>2 DEF Staged
      <3> QED  BY <1>t, <1>r, <1>3, <3>1, <3>2 DEF RunInv, DeployTyped, Placing, Places, faults, RunArms, at, goes
    <2>3. /\ out' = out /\ keyFile' = keyFile /\ stray' = stray /\ success' = success
          /\ r \in SelfIssued /\ pc'[r] \in {"unstage", "remove", "rename"} => keyFile = r
          /\ keyFile = r => Justified(r)'
      BY <1>t, <1>r, <1>k, <1>3 DEF Justified, RunInv, DeployTyped, Places, Placing, faults, RunArms, at, goes
    <2> QED  BY <2>1, <2>2, <2>3, PathsKeep
  <1>4. CASE RunWrites(r)
    <2>0. Staged(r)' /\ tmp'[r] \subseteq FileNames
      BY <1>t, <1>r, <1>4, StagedGrows DEF RunInv, DeployTyped, RunWrites, at, goes
    <2>1. Others(r) /\ DeployTyped'
      BY <1>t, <1>4, <2>0 DEF Others, DeployTyped, Places, Placing, Ends, faults, RunWrites, at, goes
    <2>2. RunInv(r)'
      BY <1>t, <1>r, <1>4, <2>0 DEF RunInv, DeployTyped, Placing, Places, faults, RunWrites, at, goes
    <2>3. /\ out' = out /\ keyFile' = keyFile /\ stray' = stray /\ success' = success
          /\ r \in SelfIssued /\ pc'[r] \in {"unstage", "remove", "rename"} => keyFile = r
          /\ keyFile = r => Justified(r)'
      BY <1>t, <1>r, <1>k, <1>4 DEF Justified, RunInv, DeployTyped, Places, Placing, faults, RunWrites, at, goes
    <2> QED  BY <2>1, <2>2, <2>3, PathsKeep
  <1>5. CASE RunLocks(r)
    <2>0. tmp'[r] = All(r)
      BY <1>t, <1>r, <1>5, StagedGrows DEF RunInv, DeployTyped, faults, RunLocks, at, goes
    <2>1. Others(r) /\ DeployTyped'
      BY <1>t, <1>5 DEF Others, DeployTyped, Places, Placing, Ends, faults, RunLocks, at, goes
    <2>2. RunInv(r)'
      <3>1. lock'[r] = "main" /\ pc'[r] = "recheck" /\ ended'[r] = "running" /\ pc[r] = "populate"
        BY <1>t, <1>5 DEF DeployTyped, RunLocks, at, goes
      <3> QED  BY <1>t, <1>r, <1>5, <2>0, <3>1 DEF RunInv, Placing, faults, All, RunLocks, at, goes
    <2>3. /\ out' = out /\ keyFile' = keyFile /\ stray' = stray /\ success' = success
          /\ r \in SelfIssued /\ pc'[r] \in {"unstage", "remove", "rename"} => keyFile = r
          /\ keyFile = r => Justified(r)'
      BY <1>t, <1>r, <1>k, <1>5 DEF Justified, RunInv, DeployTyped, Places, Placing, faults, RunLocks, at, goes
    <2> QED  BY <2>1, <2>2, <2>3, PathsKeep
  <1>6. CASE RunRechecks(r)
    <2>0. r \notin SelfIssued => All(r) = All(r) \ {"issuer.key"}
      BY Artifacts
    <2>1. Others(r) /\ DeployTyped'
      BY <1>t, <1>6 DEF Others, DeployTyped, Places, Placing, Ends, faults, RunRechecks, at, goes
    <2>2. RunInv(r)'
      <3>1. /\ pc[r] = "recheck" /\ ended'[r] = "running" /\ pc'[r] \in {"unlock", "link", "remove"}
            /\ pc'[r] = "link" => r \in SelfIssued
            /\ pc'[r] = "remove" => r \notin SelfIssued
        BY <1>t, <1>6 DEF DeployTyped, RunRechecks, at, goes
      <3> QED  BY <1>t, <1>r, <1>6, <2>0, <3>1 DEF RunInv, Placing, faults, All, RunRechecks, at, goes
    <2>3. /\ out' = out /\ keyFile' = keyFile /\ stray' = stray /\ success' = success
          /\ r \in SelfIssued /\ pc'[r] \in {"unstage", "remove", "rename"} => keyFile = r
          /\ keyFile = r => Justified(r)'
      BY <1>t, <1>r, <1>k, <1>6 DEF Justified, RunInv, DeployTyped, Places, Placing, faults, RunRechecks, at, goes
    <2> QED  BY <2>1, <2>2, <2>3, PathsKeep
  <1>7. CASE RunLinksKey(r)
    <2>1. Others(r) /\ DeployTyped'
      BY <1>t, <1>7 DEF Others, DeployTyped, Owner, Places, Placing, Ends, faults, at, goes, RunLinksKey
    <2>2. RunInv(r)'
      BY <1>t, <1>r, <1>s, <1>7 DEF RunInv, DeployTyped, Placing, Places, All, faults, at, goes, RunLinksKey
    <2>3. \A x \in Runs : RunInv(x)'
      BY <2>1, <2>2, OthersKeep
    <2>4. CASE keyFile # "nobody"
      <3>1. /\ out' = out /\ keyFile' = keyFile /\ stray' = stray /\ success' = success
            /\ pc'[r] = "unlock" /\ pc[r] = "link" /\ ended[r] = "running"
        BY <1>t, <1>7, <2>4 DEF DeployTyped, RunLinksKey, at, goes
      <3>2. keyFile = r => Justified(r)'
        BY <1>k, <3>1 DEF Justified
      <3> QED  BY <2>1, <2>2, <3>1, <3>2, PathsKeep
    <2>5. CASE keyFile = "nobody"
      <3>1. /\ out' = out /\ keyFile' = r /\ stray' = stray /\ success' = success
            /\ pc'[r] = "unstage" /\ r \in SelfIssued
        BY <1>t, <1>r, <1>7, <2>5 DEF DeployTyped, RunInv, RunLinksKey, at, goes
      <3>2. "nobody" \notin Runs
        BY DeploymentAssumption
      <3>3. KeyInv'
        BY <2>1, <2>5, <3>1, <3>2 DEF DeployInv, KeyInv, Justified, Others
      <3>4. OutInv'
        BY <2>5, <3>1, <3>2 DEF DeployInv, OutInv, All
      <3> QED  BY <2>1, <2>3, <3>3, <3>4 DEF DeployInv
    <2> QED  BY <2>4, <2>5
  <1>8. CASE RunUnstages(r)
    <2>1. Others(r) /\ DeployTyped'
      <3>1. keyFile' \in Owner
        BY <1>t, <1>8 DEF DeployTyped, Owner, RunUnstages, undoKey
      <3>2. tmp' \in [Runs -> SUBSET FileNames] /\ \A x \in Runs \ {r} : tmp'[x] = tmp[x]
        BY <1>t, <1>8 DEF DeployTyped, RunUnstages
      <3>3. pc' \in [Runs -> Places] /\ \A x \in Runs \ {r} : pc'[x] = pc[x]
        BY <1>t, <1>8 DEF DeployTyped, Places, Placing, RunUnstages, goes
      <3> QED  BY <1>t, <1>8, <3>1, <3>2, <3>3 DEF Others, DeployTyped, Owner, Places, Placing, Ends, faults, at, goes, RunUnstages
    <2>2. RunInv(r)'
      BY <1>t, <1>r, <1>s, <1>8 DEF RunInv, DeployTyped, Placing, Places, All, faults, at, goes, RunUnstages
    <2>3. /\ out' = out /\ success' = success /\ pc[r] = "unstage" /\ ended'[r] = "running"
          /\ \/ pc'[r] = "remove" /\ keyFile' = keyFile /\ stray' = stray
             \/ pc'[r] = "unlock" /\ undoKey(r)
      BY <1>t, <1>8 DEF DeployTyped, RunUnstages, at, goes
    <2>4. CASE pc'[r] = "remove" /\ keyFile' = keyFile /\ stray' = stray
      <3>1. keyFile = r => Justified(r)'
        BY <2>4 DEF Justified
      <3> QED  BY <1>k, <2>1, <2>2, <2>3, <2>4, <3>1, PathsKeep
    <2>5. CASE pc'[r] = "unlock" /\ undoKey(r)
      BY <2>1, <2>2, <2>3, <2>5, KeyTaken
    <2> QED  BY <2>3, <2>4, <2>5
  <1>9. CASE RunRemovesOut(r)
    <2>1. Others(r) /\ DeployTyped'
      <3>1. keyFile' \in Owner
        BY <1>t, <1>9 DEF DeployTyped, Owner, RunRemovesOut, undoKey
      <3>2. NoDir \in [kind : {"absent", "empty", "file", "full", "deployment"}, run : Owner,
                      files : SUBSET FileNames]
        BY DEF NoDir, Owner
      <3>3. pc' \in [Runs -> Places] /\ \A x \in Runs \ {r} : pc'[x] = pc[x]
        BY <1>t, <1>9 DEF DeployTyped, Places, Placing, RunRemovesOut, goes
      <3> QED  BY <1>t, <1>9, <3>1, <3>2, <3>3 DEF Others, DeployTyped, Owner, Places, Placing, Ends, faults, at, goes, RunRemovesOut
    <2>2. RunInv(r)'
      BY <1>t, <1>r, <1>s, <1>9 DEF RunInv, DeployTyped, Placing, Places, All, faults, at, goes, RunRemovesOut
    <2>3. CASE out.kind \in {"full", "deployment"}
      <3>1. /\ out' = out /\ success' = success /\ pc[r] = "remove" /\ ended'[r] = "running"
            /\ pc'[r] = "unlock" /\ undoKey(r)
        BY <1>t, <1>9, <2>3 DEF DeployTyped, RunRemovesOut, at, goes
      <3> QED  BY <2>1, <2>2, <3>1, KeyTaken
    <2>4. CASE out.kind \notin {"full", "deployment"}
      <3>1. /\ out' = NoDir /\ success' = success /\ keyFile' = keyFile /\ stray' = stray
            /\ pc[r] = "remove" /\ pc'[r] = "rename"
        BY <1>t, <1>9, <2>4 DEF DeployTyped, RunRemovesOut, at, goes
      <3>2. out'.kind = "absent" /\ out'.run = "nobody" /\ out.run = "nobody"
        BY <2>4, <3>1 DEF NoDir, DeployInv, OutInv
      <3>3. KeyInv'
        BY <2>1, <3>1, <3>2 DEF DeployInv, KeyInv, Justified, Others
      <3>4. OutInv'
        BY <3>2 DEF OutInv
      <3> QED  BY <2>1, <2>2, <3>3, <3>4, OthersKeep DEF DeployInv
    <2> QED  BY <2>3, <2>4
  <1>10. CASE RunRenames(r)
    <2>0. /\ pc[r] = "rename" /\ pc' = [pc EXCEPT ![r] = "unlock"] /\ pc'[r] = "unlock"
          /\ ended' = ended /\ ended[r] = "running"
          /\ lock' = lock /\ notified' = notified /\ caught' = caught
      BY <1>t, <1>10 DEF DeployTyped, RunRenames, at, goes
    <2>1. CASE tmpDir[r] /\ out.kind \in {"absent", "empty"}
      <3>1. /\ out' = Placed(r, tmp[r]) /\ keyFile' = keyFile /\ stray' = stray
            /\ tmpDir' = [tmpDir EXCEPT ![r] = FALSE] /\ tmp' = [tmp EXCEPT ![r] = {}]
            /\ success' = [success EXCEPT ![r] = TRUE]
        BY <1>10, <2>1 DEF RunRenames
      <3>2. /\ out'.kind = "deployment" /\ out'.run = r /\ out'.files = tmp[r]
            /\ out' \in [kind : {"absent", "empty", "file", "full", "deployment"}, run : Owner,
                         files : SUBSET FileNames]
        BY <1>t, <3>1 DEF Placed, DeployTyped, Owner
      <3>3. Others(r) /\ DeployTyped'
        BY <1>t, <2>0, <3>1, <3>2 DEF Others, DeployTyped, Places, Placing
      <3>4. ~tmpDir'[r] /\ success'[r] /\ lock[r] = "main"
        BY <1>t, <1>r, <2>0, <3>1 DEF DeployTyped, RunInv, Placing
      <3>5. RunInv(r)'
        BY <1>r, <2>0, <3>4 DEF RunInv, Placing
      <3>6. out.run = "nobody" /\ "nobody" \notin Runs
        BY <2>1, DeploymentAssumption DEF DeployInv, OutInv
      <3>7. KeyInv'
        BY <2>0, <3>1, <3>2, <3>3, <3>6 DEF DeployInv, KeyInv, Justified, Others
      <3>8. OutInv'
        <4>1. tmp[r] = All(r) \ {"issuer.key"} /\ (r \in SelfIssued => keyFile = r)
          BY <1>r, <1>k, <2>0 DEF RunInv
        <4> QED  BY <3>1, <3>2, <3>4, <4>1 DEF OutInv, All
      <3> QED  BY <3>3, <3>5, <3>7, <3>8, OthersKeep DEF DeployInv
    <2>2. CASE ~(tmpDir[r] /\ out.kind \in {"absent", "empty"})
      <3>1. undoKey(r) /\ out' = out /\ tmpDir' = tmpDir /\ tmp' = tmp /\ success' = success
        BY <1>10, <2>2 DEF RunRenames
      <3>2. keyFile' \in Owner
        BY <1>t, <3>1 DEF DeployTyped, Owner, undoKey
      <3>3. Others(r) /\ DeployTyped'
        BY <1>t, <2>0, <3>1, <3>2 DEF Others, DeployTyped, Places, Placing
      <3>4. RunInv(r)'
        BY <1>r, <2>0, <3>1 DEF RunInv, Placing
      <3> QED  BY <2>0, <3>1, <3>3, <3>4, KeyTaken
    <2> QED  BY <2>1, <2>2
  <1>11. CASE RunUnlocks(r)
    <2>1. Others(r) /\ DeployTyped'
      BY <1>t, <1>11 DEF Others, DeployTyped, Places, Placing, Ends, faults, RunUnlocks, at, goes
    <2>2. RunInv(r)'
      BY <1>t, <1>r, <1>s, <1>11 DEF RunInv, DeployTyped, Placing, Places, All, faults, RunUnlocks, at, goes
    <2>3. /\ out' = out /\ keyFile' = keyFile /\ stray' = stray /\ success' = success
          /\ r \in SelfIssued /\ pc'[r] \in {"unstage", "remove", "rename"} => keyFile = r
          /\ keyFile = r => Justified(r)'
      BY <1>t, <1>r, <1>k, <1>11 DEF Justified, RunInv, DeployTyped, Places, Placing, faults, RunUnlocks, at, goes
    <2> QED  BY <2>1, <2>2, <2>3, PathsKeep
  <1>12. CASE RunStops(r)
    <2>1. Others(r) /\ DeployTyped'
      BY <1>t, <1>12 DEF Others, DeployTyped, Places, Placing, Ends, faults, RunStops, at, goes
    <2>2. RunInv(r)'
      BY <1>t, <1>r, <1>s, <1>12 DEF RunInv, DeployTyped, Placing, Places, All, faults, RunStops, at, goes
    <2>3. /\ out' = out /\ keyFile' = keyFile /\ stray' = stray /\ success' = success
          /\ r \in SelfIssued /\ pc'[r] \in {"unstage", "remove", "rename"} => keyFile = r
          /\ keyFile = r => Justified(r)'
      BY <1>t, <1>r, <1>k, <1>12 DEF Justified, RunInv, DeployTyped, Places, Placing, faults, RunStops, at, goes
    <2> QED  BY <2>1, <2>2, <2>3, PathsKeep
  <1>13. CASE RunCleansUp(r)
    <2>1. Others(r) /\ DeployTyped'
      <3>1. CASE tmp[r] = {}
        BY <1>t, <1>13, <3>1 DEF Others, DeployTyped, Places, Placing, Ends, faults, RunCleansUp, at, goes
      <3>2. CASE ~(tmp[r] = {})
        BY <1>t, <1>13, <3>2 DEF Others, DeployTyped, Places, Placing, Ends, faults, RunCleansUp, at, goes
      <3> QED  BY <3>1, <3>2
    <2>2. RunInv(r)'
      BY <1>t, <1>r, <1>s, <1>13 DEF RunInv, DeployTyped, Placing, Places, All, faults, RunCleansUp, at, goes
    <2>3. /\ out' = out /\ keyFile' = keyFile /\ stray' = stray /\ success' = success
          /\ r \in SelfIssued /\ pc'[r] \in {"unstage", "remove", "rename"} => keyFile = r
          /\ keyFile = r => Justified(r)'
      BY <1>t, <1>r, <1>k, <1>13 DEF Justified, RunInv, DeployTyped, Places, Placing, faults, RunCleansUp, at, goes
    <2> QED  BY <2>1, <2>2, <2>3, PathsKeep
  <1>14. CASE RunExits(r)
    <2>1. Others(r) /\ DeployTyped'
      BY <1>t, <1>14 DEF Others, DeployTyped, Places, Placing, Ends, faults, RunExits, at, goes, dies
    <2>2. RunInv(r)'
      BY <1>t, <1>r, <1>s, <1>14 DEF RunInv, DeployTyped, Placing, Places, All, faults, RunExits, at, goes, dies
    <2>3. /\ out' = out /\ keyFile' = keyFile /\ stray' = stray /\ success' = success
          /\ r \in SelfIssued /\ pc'[r] \in {"unstage", "remove", "rename"} => keyFile = r
          /\ keyFile = r => Justified(r)'
      BY <1>t, <1>r, <1>k, <1>14 DEF Justified, RunInv, DeployTyped, Places, Placing, faults, RunExits, at, goes, dies
    <2> QED  BY <2>1, <2>2, <2>3, PathsKeep
  <1>15. CASE HandlerLocks(r)
    <2>1. Others(r) /\ DeployTyped'
      BY <1>t, <1>15 DEF Others, DeployTyped, Places, Placing, Ends, faults, HandlerLocks, at, goes
    <2>2. RunInv(r)'
      BY <1>t, <1>r, <1>s, <1>15 DEF RunInv, DeployTyped, Placing, Places, All, faults, HandlerLocks, at, goes
    <2>3. /\ out' = out /\ keyFile' = keyFile /\ stray' = stray /\ success' = success
          /\ r \in SelfIssued /\ pc'[r] \in {"unstage", "remove", "rename"} => keyFile = r
          /\ keyFile = r => Justified(r)'
      BY <1>t, <1>r, <1>k, <1>15 DEF Justified, RunInv, DeployTyped, Places, Placing, faults, HandlerLocks, at, goes
    <2> QED  BY <2>1, <2>2, <2>3, PathsKeep
  <1>16. CASE HandlerRemoves(r)
    <2>1. Others(r) /\ DeployTyped'
      <3>1. CASE tmpDir[r]
        <4>1. CASE tmp[r] = {}
          BY <1>t, <1>16, <3>1, <4>1 DEF Others, DeployTyped, Places, Placing, Ends, faults, HandlerRemoves, at, goes, dies
        <4>2. CASE ~(tmp[r] = {})
          BY <1>t, <1>16, <3>1, <4>2 DEF Others, DeployTyped, Places, Placing, Ends, faults, HandlerRemoves, at, goes, dies
        <4> QED  BY <4>1, <4>2
      <3>2. CASE ~(tmpDir[r])
        <4>1. /\ dies(r, "interrupted")
              /\ UNCHANGED <<out, keyFile, stray, tmpDir, tmp, success>>
          BY <1>16, <3>2 DEF HandlerRemoves
        <4> QED  BY <1>t, <4>1 DEF Others, DeployTyped, Places, Placing, Ends, dies
      <3> QED  BY <3>1, <3>2
    <2>2. RunInv(r)'
      BY <1>t, <1>r, <1>s, <1>16 DEF RunInv, DeployTyped, Placing, Places, All, faults, HandlerRemoves, at, goes, dies
    <2>3. /\ out' = out /\ keyFile' = keyFile /\ stray' = stray /\ success' = success
          /\ r \in SelfIssued /\ pc'[r] \in {"unstage", "remove", "rename"} => keyFile = r
          /\ keyFile = r => Justified(r)'
      BY <1>t, <1>r, <1>k, <1>16 DEF Justified, RunInv, DeployTyped, Places, Placing, faults, HandlerRemoves, at, goes, dies
    <2> QED  BY <2>1, <2>2, <2>3, PathsKeep
  <1>17. CASE Signal(r)
    <2>1. Others(r) /\ DeployTyped'
      <3>1. CASE notified[r]
        BY <1>t, <1>17, <3>1 DEF Others, DeployTyped, Places, Placing, Ends, faults, Signal, at, goes, dies
      <3>2. CASE ~(notified[r])
        <4>1. /\ dies(r, "signalled")
              /\ UNCHANGED <<out, keyFile, stray, tmpDir, tmp, success>>
          BY <1>17, <3>2 DEF Signal
        <4> QED  BY <1>t, <4>1 DEF Others, DeployTyped, Places, Placing, Ends, dies
      <3> QED  BY <3>1, <3>2
    <2>2. RunInv(r)'
      BY <1>t, <1>r, <1>s, <1>17 DEF RunInv, DeployTyped, Placing, Places, All, faults, Signal, at, goes, dies
    <2>3. /\ out' = out /\ keyFile' = keyFile /\ stray' = stray /\ success' = success
          /\ r \in SelfIssued /\ pc'[r] \in {"unstage", "remove", "rename"} => keyFile = r
          /\ keyFile = r => Justified(r)'
      BY <1>t, <1>r, <1>k, <1>17 DEF Justified, RunInv, DeployTyped, Places, Placing, faults, Signal, at, goes, dies
    <2> QED  BY <2>1, <2>2, <2>3, PathsKeep
  <1>18. CASE Kill(r)
    <2>1. Others(r) /\ DeployTyped'
      BY <1>t, <1>18 DEF Others, DeployTyped, Places, Placing, Ends, faults, Kill, at, goes, dies
    <2>2. RunInv(r)'
      BY <1>t, <1>r, <1>s, <1>18 DEF RunInv, DeployTyped, Placing, Places, All, faults, Kill, at, goes, dies
    <2>3. /\ out' = out /\ keyFile' = keyFile /\ stray' = stray /\ success' = success
          /\ r \in SelfIssued /\ pc'[r] \in {"unstage", "remove", "rename"} => keyFile = r
          /\ keyFile = r => Justified(r)'
      BY <1>t, <1>r, <1>k, <1>18 DEF Justified, RunInv, DeployTyped, Places, Placing, faults, Kill, at, goes, dies
    <2> QED  BY <2>1, <2>2, <2>3, PathsKeep
  <1> QED  BY <1>1, <1>2, <1>3, <1>4, <1>5, <1>6, <1>7, <1>8, <1>9, <1>10, <1>11, <1>12, <1>13, <1>14, <1>15, <1>16, <1>17, <1>18

\* Somebody else at the output path finds nothing there, so nobody's key is
\* the key of what was there.
LEMMA OutsiderStep == DeployInv /\ Outsider => DeployInv'
  <1> SUFFICES ASSUME DeployInv, Outsider
               PROVE  DeployInv'
    OBVIOUS
  <1>1. PICK k \in {"empty", "file", "full"} : out' = Dir(k)
    BY DEF Outsider
  <1>2. /\ keyFile' = keyFile /\ stray' = stray /\ tmpDir' = tmpDir /\ tmp' = tmp /\ pc' = pc /\ lock' = lock
        /\ notified' = notified /\ caught' = caught /\ success' = success /\ ended' = ended
        /\ out.kind # "deployment"
    BY DEF Outsider
  <1>3. /\ out'.kind # "deployment" /\ out'.run = "nobody" /\ out.run = "nobody"
        /\ out' \in [kind : {"absent", "empty", "file", "full", "deployment"}, run : Owner,
                     files : SUBSET FileNames]
    BY <1>1, <1>2 DEF Dir, Owner, DeployInv, OutInv
  <1>4. DeployTyped'
    BY <1>2, <1>3 DEF DeployInv, DeployTyped
  <1>5. \A r \in Runs : RunInv(r)'
    <2> SUFFICES ASSUME NEW r \in Runs
                 PROVE  RunInv(r)'
      OBVIOUS
    <2> QED  BY <1>2 DEF DeployInv, RunInv, Staged, All
  <1>6. KeyInv'
    BY <1>2, <1>3 DEF DeployInv, KeyInv, Justified
  <1>7. OutInv'
    BY <1>3 DEF OutInv
  <1> QED  BY <1>4, <1>5, <1>6, <1>7 DEF DeployInv

LEMMA DeployStep == DeployInv /\ [DeployNext]_deployVars => DeployInv'
  <1> SUFFICES ASSUME DeployInv, [DeployNext]_deployVars
               PROVE  DeployInv'
    OBVIOUS
  <1>1. CASE Outsider
    BY <1>1, OutsiderStep
  <1>2. CASE DeployNext /\ ~Outsider
    <2>1. PICK r \in Runs :
            \/ RunChecks(r) \/ RunMakesTemp(r) \/ RunArms(r) \/ RunWrites(r) \/ RunLocks(r)
            \/ RunRechecks(r) \/ RunLinksKey(r) \/ RunUnstages(r) \/ RunRemovesOut(r)
            \/ RunRenames(r) \/ RunUnlocks(r) \/ RunStops(r) \/ RunCleansUp(r) \/ RunExits(r)
            \/ HandlerLocks(r) \/ HandlerRemoves(r) \/ Signal(r) \/ Kill(r)
      BY <1>2 DEF DeployNext
    <2> QED  BY <2>1, RunStep
  <1>3. CASE UNCHANGED deployVars
    <2>1. \A r \in Runs : RunInv(r)'
      <3> SUFFICES ASSUME NEW r \in Runs
                   PROVE  RunInv(r)'
        OBVIOUS
      <3> QED  BY <1>3 DEF deployVars, DeployInv, RunInv, Staged, All
    <2> QED  BY <1>3, <2>1 DEF deployVars, DeployInv, DeployTyped, KeyInv, Justified, OutInv, All
  <1> QED  BY <1>1, <1>2, <1>3

\* Whatever runs of spt-txn-init, their signal handlers, kills and others at
\* the output path do between each other's system calls, what a run renames
\* into place is whole, with its issuer key beside it, and a run that has ended
\* by itself or in its handler leaves no key behind unless the removal of it
\* failed (generator.run, populate, cleanupOnSignal).
THEOREM DeploymentsAreWhole == DeployInit /\ [][DeployNext]_deployVars => []DeploymentSafe
  <1>1. DeployInit => DeployInv
    <2> SUFFICES ASSUME DeployInit
                 PROVE  DeployInv
      OBVIOUS
    <2>1. /\ out.kind # "deployment" /\ out.run = "nobody" /\ "nobody" \notin Runs
          /\ out \in [kind : {"absent", "empty", "file", "full", "deployment"}, run : Owner,
                      files : SUBSET FileNames]
      BY DeploymentAssumption DEF DeployInit, NoDir, Dir, Owner
    <2>2. DeployTyped
      BY <2>1 DEF DeployInit, DeployTyped, Owner, Places, Ends
    <2>3. \A r \in Runs : RunInv(r)
      BY DEF DeployInit, RunInv, Placing
    <2>4. KeyInv /\ OutInv
      BY <2>1 DEF DeployInit, KeyInv, OutInv
    <2> QED  BY <2>2, <2>3, <2>4 DEF DeployInv
  <1>2. DeployInv /\ [DeployNext]_deployVars => DeployInv'
    BY DeployStep
  <1>3. DeployInv => DeploymentSafe
    <2> SUFFICES ASSUME DeployInv
                 PROVE  DeploymentSafe
      OBVIOUS
    <2>1. WholeDeployment
      BY DEF DeployInv, OutInv, WholeDeployment, All
    <2>2. EndedLeavesNoKeys
      <3> SUFFICES ASSUME NEW r \in Runs, ended[r] \in {"ok", "error", "interrupted"}
                   PROVE  ~tmpDir[r] /\ (keyFile = r => out.run = r \/ r \in stray)
        BY DEF EndedLeavesNoKeys
      <3>1. RunInv(r) /\ (keyFile = r => Justified(r))
        BY DEF DeployInv, KeyInv
      <3> QED  BY <3>1 DEF RunInv, Justified
    <2> QED  BY <2>1, <2>2 DEF DeploymentSafe
  <1> QED  BY <1>1, <1>2, <1>3, PTL

\* No step of a run, and no other program the model knows of, touches an output
\* path that has something in it: Remove refuses it, and so does Rename.
THEOREM NothingIsOverwritten == DeployInit /\ [][DeployNext]_deployVars => NeverOverwrites
  <1>1. [DeployNext]_deployVars
        => [out.kind \in {"full", "deployment"} => out' = out]_deployVars
    <2> SUFFICES ASSUME DeployNext, out.kind \in {"full", "deployment"}
                 PROVE  out' = out
      OBVIOUS
    <2> QED  BY DEF DeployNext, RunChecks, RunMakesTemp, RunArms, RunWrites, RunLocks, RunRechecks,
               RunLinksKey, RunUnstages, RunRemovesOut, RunRenames, RunUnlocks, RunStops,
               RunCleansUp, RunExits, HandlerLocks, HandlerRemoves, Signal, Kill, Outsider
  <1> QED  BY <1>1, PTL DEF NeverOverwrites

-----------------------------------------------------------------------------
(* The configuration that spt-txn-init accepts.                            *)

\* A text that is not set is none of the shapes of a text that is.
LEMMA UnsetIsNoText ==
    unset \notin {"blank", "ctrl", "spaced", "dotted", "relative", "good", "generated",
                  "unparsable", "scheme", "nohost", "noport", "wordport", "highport", "upper", "short"}
  BY Zenon DEF unset

\* A configuration whose lifetime is a positive number and whose issuer key
\* is of one of the shapes a key has.
Installable(c) == c["ttl"] \in Int /\ c["ttl"] > 0 /\ c["ttsPub"] \in shapes("ttsPub")

\* validate looks at everything the enforcement point relies on.
LEMMA ValidatedStarts ==
    ASSUME NEW c, Installable(c), validate(c)
    PROVE  /\ runScript(c, issuerKey(c), TRUE) /\ PepConfigured(c["profile"], pepFlags(c))
           /\ c["listen"] # "highport" => PepStarts(c["profile"], pepFlags(c))
<1>1. /\ nonEmpty(c["audience"]) /\ nonEmpty(c["identity"])
      /\ c["profile"] = "mcp" => c["cmd"] # unset
      /\ c["profile"] = "a2a" =>
            /\ validateAbsoluteURL(c["upstream"])
            /\ c["publicURL"] # unset => validateAbsoluteURL(c["publicURL"])
  BY DEF validate, validateProfile
<1>2. parseHexKey(issuerKey(c)) /\ issuerKey(c) # unset
  <2>1. c["ttsPub"] \in {unset, "good", "upper", "short", "blank", "ctrl"}
    BY DEF Installable, shapes
  <2>2. c["ttsPub"] # unset => c["ttsPub"] \notin {"upper", "short", "blank", "ctrl"}
    BY DEF validate, validTTSPub
  <2>3. issuerKey(c) \in {"generated", "good"}
    BY <2>1, <2>2 DEF issuerKey
  <2> QED  BY <2>3, UnsetIsNoText DEF parseHexKey
<1>3. c["ttl"] > 0 /\ defaultReplayWindow >= c["ttl"]
  BY DEF Installable, validate, maxAcceptableTokenTTL, defaultReplayWindow
<1> DEFINE f == pepFlags(c)
<1>4. /\ f.identity = c["identity"] /\ f.audience = c["audience"] /\ f.ttsPub = issuerKey(c)
      /\ f.logKey = "good" /\ f.policyHash = "good" /\ f.ttl = c["ttl"] /\ f.cmd = c["cmd"]
      /\ f.upstream = shellWord(c["upstream"]) /\ f.publicURL = shellWord(c["publicURL"])
      /\ f.listen = shellWord(c["listen"])
  BY <1>1 DEF pepFlags, shellWord, nonEmpty
<1> HIDE DEF f
<1>5. f.identity # unset /\ f.audience # unset /\ f.policyHash # unset /\ f.logKey # unset
  BY <1>1, <1>4, UnsetIsNoText DEF nonEmpty
<1>6. ASSUME c["profile"] = "a2a"
      PROVE  a2aURL(f.upstream) /\ (f.publicURL # unset => a2aURL(f.publicURL)) /\ f.upstream # unset
  <2>1. \A s : validateAbsoluteURL(s) => shellWord(s) = s /\ a2aURL(s) /\ s # unset
    BY DEF validateAbsoluteURL, nonEmpty, shellWord, a2aURL
  <2>2. c["publicURL"] = unset => f.publicURL = unset
    BY <1>4, UnsetIsNoText DEF shellWord
  <2> QED  BY <1>1, <1>4, <1>6, <2>1, <2>2
<1>7. ~ pepMissing(c["profile"], f)
  BY <1>1, <1>2, <1>4, <1>5, <1>6 DEF pepMissing
<1>8. buildEngine(f)
  BY <1>2, <1>3, <1>4, <1>5 DEF buildEngine, decisionNew
<1>9. PepConfigured(c["profile"], f)
  BY <1>6, <1>7, <1>8 DEF PepConfigured
<1>10. c["profile"] = "a2a" /\ c["listen"] # "highport" => netListen(f.listen)
  <2>1. c["profile"] = "a2a" => validateListenAddr(c["listen"])
    BY DEF validate
  <2>2. \A s : validateListenAddr(s) /\ s # "highport" => shellWord(s) = s /\ netListen(s)
    BY DEF validateListenAddr, nonEmpty, shellWord, netListen
  <2> QED  BY <1>4, <2>1, <2>2
<1> QED  BY <1>9, <1>10 DEF f, runScript, PepStarts

\* What reaches the shell is what the policy bundle names: validate refuses
\* the texts the shell would change.
LEMMA ValidatedIsPolicy ==
    ASSUME NEW c, validate(c)
    PROVE  LET p == policyBundle(c) f == pepFlags(c) IN
           /\ p.target = f.identity /\ p.audience = f.audience /\ p.ttsPub = f.ttsPub
           /\ p.ttl = f.ttl /\ p.jurisdiction = f.jurisdiction
<1>1. /\ nonEmpty(c["audience"]) /\ nonEmpty(c["identity"])
      /\ c["jurisdiction"] = unset \/ nonEmpty(c["jurisdiction"])
  BY DEF validate, validateProfile
<1>2. \A s : nonEmpty(s) \/ s = unset => shellWord(s) = s
  BY UnsetIsNoText DEF nonEmpty, shellWord
<1> QED  BY <1>1, <1>2 DEF policyBundle, pepFlags

\* The flags are given field by field; of their values only the lifetime and
\* the issuer key need to be known.
FlagsInv ==
    /\ DOMAIN given = Fields /\ given = [f \in Fields |-> given[f]]
    /\ given["ttl"] \in Int /\ given["ttsPub"] \in shapes("ttsPub")

LEMMA DefaultsInstallable ==
    ASSUME NEW c, DOMAIN c = Fields, c = [f \in Fields |-> c[f]],
           c["ttl"] \in Int, c["ttsPub"] \in shapes("ttsPub")
    PROVE  Installable(applyDefaults(c))
<1>1. /\ applyDefaults(c)["ttl"] = (IF c["ttl"] <= 0 THEN defaultTTL ELSE c["ttl"])
      /\ applyDefaults(c)["ttsPub"] = c["ttsPub"]
  BY DEF applyDefaults, Fields
<1> QED  BY <1>1 DEF Installable, defaultTTL

LEMMA AcceptedInstallable ==
    ASSUME FlagsInv, NEW c \in Accepted
    PROVE  Installable(c) /\ validate(c)
<1>1. \/ c \in accepted(given, Answers, TRUE)
      \/ c \in accepted(given, Answers, FALSE)
  <2> DEFINE A == accepted(given, Answers, TRUE)
             B == accepted(given, Answers, FALSE)
  <2>1. Accepted = A \union B
    BY DEF Accepted
  <2> HIDE DEF A, B
  <2>2. c \in A \/ c \in B
    BY <2>1
  <2> QED  BY <2>2 DEF A, B
<1>2. validate(c) /\ (c \in resolveInteractive(given, Answers) \/ c \in resolveNonInteractive(given))
  BY <1>1 DEF accepted
<1>3. CASE c \in resolveInteractive(given, Answers)
  <2>1. PICK t \in prompted(given, Answers) : c = applyDefaults(withAnswers(given, t))
    BY <1>3 DEF resolveInteractive
  <2>2. PICK d : d = withAnswers(given, t)
    OBVIOUS
  <2>3. /\ DOMAIN d = Fields /\ d = [f \in Fields |-> d[f]]
        /\ d["ttl"] = given["ttl"] /\ d["ttsPub"] = given["ttsPub"]
    BY <2>2 DEF withAnswers, FlagsInv, Fields
  <2>4. Installable(applyDefaults(d))
    BY <2>3, DefaultsInstallable DEF FlagsInv
  <2> QED  BY <1>2, <2>1, <2>2, <2>4
<1>4. CASE c \in resolveNonInteractive(given)
  <2>1. c = applyDefaults(given)
    BY <1>4 DEF resolveNonInteractive
  <2>2. PICK d : d = given
    OBVIOUS
  <2>3. Installable(applyDefaults(d))
    BY <2>2, DefaultsInstallable DEF FlagsInv
  <2> QED  BY <1>2, <2>1, <2>2, <2>3
<1> QED  BY <1>2, <1>3, <1>4

\* Whatever flags and answers spt-txn-init accepts, the deployment it writes
\* starts its enforcement point, with the values the policy bundle names; only
\* a port above 65535 is accepted (validateListenAddr) and not listened on.
THEOREM ConfigurationsAreSound == OpsSpec => []ConfigSound
<1>1. OpsInit => FlagsInv
  <2> SUFFICES ASSUME NEW profile, given = plain(profile) PROVE FlagsInv
    BY DEF OpsInit
  <2>1. plain(profile)["ttl"] = 60 /\ plain(profile)["ttsPub"] = unset
    BY DEF plain, Fields
  <2>2. DOMAIN plain(profile) = Fields /\ plain(profile) = [f \in Fields |-> plain(profile)[f]]
    BY DEF plain
  <2>3. unset \in shapes("ttsPub")
    BY DEF shapes
  <2> QED  BY <2>1, <2>2, <2>3 DEF FlagsInv
<1>2. FlagsInv /\ [OpsNext]_opsVars => FlagsInv'
  <2> SUFFICES ASSUME FlagsInv, [OpsNext]_opsVars PROVE FlagsInv'
    OBVIOUS
  <2>1. CASE ChangeField
    <3>1. PICK f \in Fields : \E v \in shapes(f) : given' = [given EXCEPT ![f] = v]
      BY <2>1 DEF ChangeField
    <3>2. PICK v \in shapes(f) : given' = [given EXCEPT ![f] = v]
      BY <3>1
    <3>3. f = "ttl" => v \in Int
      BY <3>2 DEF shapes
    <3>4. DOMAIN given' = Fields /\ given' = [g \in Fields |-> given'[g]]
      BY <3>2 DEF FlagsInv
    <3>5. given'["ttl"] \in Int /\ given'["ttsPub"] \in shapes("ttsPub")
      BY <3>2, <3>3 DEF FlagsInv, Fields
    <3> QED  BY <3>4, <3>5 DEF FlagsInv
  <2>2. CASE UNCHANGED given
    BY <2>2 DEF FlagsInv
  <2>3. ChangeField \/ UNCHANGED given
    BY DEF OpsNext, opsVars, configVars
  <2> QED  BY <2>1, <2>2, <2>3
<1>3. FlagsInv => ConfigSound
  <2> SUFFICES ASSUME FlagsInv PROVE ConfigSound
    OBVIOUS
  <2>1. AcceptedConfigStarts
    BY AcceptedInstallable, ValidatedStarts DEF AcceptedConfigStarts
  <2>2. PolicyIsWhatRuns
    BY AcceptedInstallable, ValidatedIsPolicy DEF PolicyIsWhatRuns
  <2> QED  BY <2>1, <2>2 DEF ConfigSound
<1> QED  BY <1>1, <1>2, <1>3, PTL DEF OpsSpec

=============================================================================
