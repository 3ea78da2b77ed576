------------------------------- MODULE Witness -------------------------------
(***************************************************************************)
(* Witnesses that cosign the tree heads of an audit log, and the verifier  *)
(* that asks for a threshold of them, pkg/audit/witness.go.  The operator  *)
(* holds the log key and may sign a head over any history; a head is       *)
(* identified with the history it covers, since the root commits to it     *)
(* (Merkle).  Cosign is split where it has compared with the anchor and    *)
(* has not yet advanced it.                                                *)
(***************************************************************************)
EXTENDS Naturals, Sequences, SequencesExt, FiniteSets

CONSTANTS
    Witnesses,         \* the verifier's witness set
    Threshold,         \* how many of them it asks for
    Heads,             \* the histories the operator may sign a head over
    MaxForgets,        \* bound on restarts of witnesses
    Stranger           \* an id outside the witness set

ASSUME WitnessAssumption ==
    /\ IsFiniteSet(Witnesses) /\ Stranger \notin Witnesses
    /\ Threshold \in Nat /\ MaxForgets \in Nat

VARIABLES
    anchor,    \* witness -> the head it attested last, if any (lastRoot, lastCount)
    inCosign,  \* witness -> heads that passed the checks and await the signature
    cosigned,  \* co-signatures in circulation
    forgetful  \* history: witnesses that were restarted

witnessVars == <<anchor, inCosign, cosigned, forgetful>>

Nothing == <<"none">>

\* A head is a history, and none is the lack of one.
ASSUME HeadsAssumption ==
    Nothing \notin Heads /\ \A h \in Heads : h \in Seq(ToSet(h))

WitnessInit ==
    /\ anchor = [w \in Witnesses |-> Nothing]
    /\ inCosign = [w \in Witnesses |-> {}]
    /\ cosigned = {} /\ forgetful = {}

\* Mutant: any head at least as long as the last one is taken.
appendOnly_byCount(last, head) == last = Nothing \/ Len(last) <= Len(head)

\* The presented log must not be shorter than the last attested one, and its
\* prefix of that length must reproduce the root.
appendOnly(last, head) ==
    last = Nothing \/ (Len(last) <= Len(head) /\ SubSeq(head, 1, Len(last)) = last)

\* Cosign up to its checks.  Callers serialise Cosign on a witness, as its
\* documentation asks.
CosignChecks(w) ==
    /\ inCosign[w] = {}
    /\ \E head \in Heads :
          /\ appendOnly(anchor[w], head)
          /\ inCosign' = [inCosign EXCEPT ![w] = {head}]
    /\ UNCHANGED <<anchor, cosigned, forgetful>>

\* Cosign signs and advances the anchor.
CosignSigns(w) ==
    \E head \in inCosign[w] :
        /\ cosigned' = cosigned \union {[id |-> w, head |-> head]}
        /\ anchor' = [anchor EXCEPT ![w] = head]
        /\ inCosign' = [inCosign EXCEPT ![w] = @ \ {head}]
        /\ UNCHANGED forgetful

\* A witness is restarted: NewWitness has no anchor.
NewWitness(w) ==
    /\ Cardinality(forgetful \union {w}) <= MaxForgets
    /\ anchor' = [anchor EXCEPT ![w] = Nothing]
    /\ inCosign' = [inCosign EXCEPT ![w] = {}]
    /\ forgetful' = forgetful \union {w}
    /\ UNCHANGED cosigned

\* The distinct known witnesses among the presented co-signatures that signed
\* this very head.
counted(head, cosigs) ==
    {w \in Witnesses : \E i \in DOMAIN cosigs :
        cosigs[i] = w /\ [id |-> w, head |-> head] \in cosigned}

\* A verifier accepts the head with some co-signatures, in any order, with
\* repetitions and strangers among them.
VerifyCosigned(head) ==
    \E cosigs \in [1..Threshold -> Witnesses \union {Stranger}] :
        Cardinality(counted(head, cosigs)) >= Threshold

WitnessNext ==
    \E w \in Witnesses : CosignChecks(w) \/ CosignSigns(w) \/ NewWitness(w)

-----------------------------------------------------------------------------
\* No split view: as long as fewer witnesses lost their anchor than any two
\* quorums share, every two heads that a verifier accepts are states of one
\* append-only log.
NoSplitView ==
    Cardinality(forgetful) + Cardinality(Witnesses) < 2 * Threshold =>
        \A g, h \in Heads :
            VerifyCosigned(g) /\ VerifyCosigned(h) => IsPrefix(g, h) \/ IsPrefix(h, g)

=============================================================================
