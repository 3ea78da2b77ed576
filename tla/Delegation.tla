----------------------------- MODULE Delegation ------------------------------
(***************************************************************************)
(* The life of a delegated authority: cattoken.Issue mints a root CAT,     *)
(* cttoken.Issue, cttoken.IssueSubbands and cttoken.Delegate mint CTs      *)
(* below it, txntoken.Issue mints SPT-Txns, and step 6 to 8 of the         *)
(* verifier walk a presented chain and decide one transaction.             *)
(*                                                                         *)
(* The verifier does not trust the issuers between the root and the leaf   *)
(* to have run their checks, so a registered ct_issuer may also mint a     *)
(* child with any claims (ForgeCT).                                        *)
(*                                                                         *)
(* A token's jti stands for its bytes, so spt_parent_hash and              *)
(* spt_parent_ref are one field.  Signatures, keys, DPoP proofs, status    *)
(* lists, iat and a wall clock that is stepped are in Enforcement: here    *)
(* one clock dates tokens and records.                                     *)
(***************************************************************************)
EXTENDS Scope, FiniteSets

CONSTANTS
    CatRequests,   \* cattoken.IssueRequest with its division
    CtRequests,    \* cttoken.IssueRequest and DelegateRequest
    TxnRequests,   \* txntoken.IssueRequest
    Forgeries,     \* claims of a child minted without checks
    Contexts,      \* transactions presented for execution
    Presentations, \* calls of Verify that may be under way at once
    CTDefaultTTL,  \* cttoken.DefaultTTL
    TxnDefaultTTL, \* txntoken.DefaultTTL
    MaxMintDelay,  \* bound on the seconds IssueSubbands takes for a slice
    MaxCaps,       \* bound on the CATs and CTs minted
    MaxTxns,       \* bound on the SPT-Txns minted
    MaxChain,      \* bound on the tokens of a presented chain
    MaxTime        \* bound on the clock

Context == [amount : Int, currency : ExactValues]

\* A band of a schedule, and the window the division is committed under.
IsBand(b) == IsScope(b.scope) /\ b.nbf \in Nat /\ b.exp \in Nat

\* The claims of a CAT or CT that decide authority.  nbf and leg are 0 when
\* the claim is absent, root is empty.  The depth of a CAT is its
\* delegation_depth_max, of a CT its delegation_depth_remaining.
IsCap(c) ==
    /\ c.kind \in {"CAT", "CT"}
    /\ IsScope(c.scope)
    /\ c.depth \in Int /\ c.exp \in Nat /\ c.nbf \in Nat
    /\ c.leg \in Nat /\ c.size \in Nat

ASSUME RequestsAssumption ==
    /\ \A q \in CatRequests :
          IsScope(q.scope) /\ q.depth \in Int /\ q.ttl \in Nat
    /\ \A q \in CatRequests :
          /\ Len(q.bands) \in Nat /\ DOMAIN q.bands = 1..Len(q.bands)
          /\ \A i \in DOMAIN q.bands : IsBand(q.bands[i])
    /\ \A q \in CtRequests : IsScope(q.scope) /\ q.ttl \in Nat /\ q.nbf \in Nat
    /\ \A q \in TxnRequests : q.tc \in Context /\ q.ttl \in Nat
    /\ \A f \in Forgeries :
          /\ IsScope(f.scope) /\ f.depth \in Int
          /\ f.exp \in Nat /\ f.nbf \in Nat /\ f.leg \in Nat /\ f.size \in Nat
    /\ Contexts \subseteq Context
    /\ CTDefaultTTL \in Nat /\ TxnDefaultTTL \in Nat /\ MaxMintDelay \in Nat
    /\ MaxCaps \in Nat /\ MaxTxns \in Nat /\ MaxChain \in Nat
    /\ MaxTime \in Nat

VARIABLES
    now,        \* the clock
    caps,       \* CATs and CTs that were minted
    txns,       \* SPT-Txns that were minted
    view,       \* what each call of Verify has established
    usedTxns,   \* replayCache: jtis of consumed SPT-Txns, with their expiry
    usedSlices, \* replayCache: consumed slices by sliceIdentity, likewise
    \* History, read by no action:
    allowed     \* the presentations that were allowed

tokenVars   == <<caps, txns>>
recordVars  == <<usedTxns, usedSlices>>
vars == <<now, caps, txns, view, usedTxns, usedSlices, allowed>>

NoSlice == [root |-> <<>>, leg |-> 0]
NoView  == [stage |-> "idle"]

-----------------------------------------------------------------------------
(* Minting.                                                                *)

\* newJTI: a jti no other token has.
FreshCap == Cardinality(caps) + 1
FreshTxn == Cardinality(txns) + 1

\* A parent that declares a cumulative budget or committed a division.
budgeted(c) == DeclaresCumulativeBudget(c.scope) \/ c.root # <<>>

\* The expiry of a child: the default lifetime is cut at the parent's, an
\* explicit one that overruns is refused by the caller of this operator.
childExp(parent, ttl, default) ==
    IF ttl # 0 THEN now + ttl
    ELSE IF now + default > parent.exp THEN parent.exp ELSE now + default

\* Whether attenuateNotBefore returns an opening, and which.
attenuateNotBeforeOK(parent, nbf, exp) ==
    /\ nbf # 0 => nbf >= parent.nbf
    /\ LET n == IF nbf = 0 THEN parent.nbf ELSE nbf IN n > 0 => n < exp
attenuateNotBefore(parent, nbf) == IF nbf = 0 THEN parent.nbf ELSE nbf

\* The checks that Issue and Delegate share: the parent token is live, has
\* depth left, and contains the requested scope; the child has a unit for
\* each of its ceilings and a window inside the parent's.
mayMint(parent, scope, exp, nbf) ==
    /\ now < parent.exp
    /\ parent.depth - 1 >= 0
    /\ Contains(parent.scope, scope)
    /\ InheritMoneyUnitOK(parent.scope, scope)
    /\ ValidateIssuance(InheritMoneyUnit(parent.scope, scope))
    /\ exp <= parent.exp
    /\ attenuateNotBeforeOK(parent, nbf, exp)

\* The child of parent with these claims.
child(parent, jti, scope, exp, nbf, root, leg, size) ==
    [kind |-> "CT", jti |-> jti, parent |-> parent.jti, cat |-> parent.cat,
     anchor |-> parent.anchor,
     scope |-> InheritMoneyUnit(parent.scope, scope),
     depth |-> parent.depth - 1, exp |-> exp,
     nbf |-> attenuateNotBefore(parent, nbf),
     root |-> root, leg |-> leg, size |-> size]

\* cattoken.Issue, given the root of a division; the empty root commits to
\* none.  It cannot look into the division behind the root.
IssueCAT(q, root) ==
    LET jti == FreshCap
    IN  /\ jti <= MaxCaps
        /\ q.depth >= 1
        /\ ValidateIssuance(q.scope)
        /\ root # <<>> => DeclaresCumulativeBudget(q.scope)
        /\ caps' = caps \union
              {[kind |-> "CAT", jti |-> jti, parent |-> 0, cat |-> jti,
                anchor |-> q.anchor, scope |-> q.scope, depth |-> q.depth,
                exp |-> now + q.ttl, nbf |-> 0,
                root |-> root, leg |-> 0, size |-> Len(q.bands)]}
        /\ UNCHANGED <<now, txns, view, recordVars, allowed>>

\* The human's issuer: the root it has signed, if any, is the one that
\* tbac.CommitBandDivision returned, which it does for a sound division only.
CommitAndIssue(q) ==
    /\ q.bands # <<>> => ValidateBandDivision(q.scope, q.from, q.to, q.bands)
    /\ IssueCAT(q, CommitBandDivision(q.scope, q.bands))

\* cttoken.Issue and cttoken.Delegate: an ordinary child, of a CAT or a CT.
MintCT(kind, parent, q) ==
    LET exp == childExp(parent, q.ttl, CTDefaultTTL)
    IN  /\ FreshCap <= MaxCaps
        /\ parent.kind = kind
        /\ ~budgeted(parent)
        /\ mayMint(parent, q.scope, exp, q.nbf)
        /\ caps' = caps \union {child(parent, FreshCap, q.scope, exp, q.nbf, <<>>, 0, 0)}
        /\ UNCHANGED <<now, txns, view, recordVars, allowed>>

Issue(parent, q)    == MintCT("CAT", parent, q)
Delegate(parent, q) == MintCT("CT", parent, q)

\* cttoken.IssueSubbands: all slices of the committed division or none.  The
\* lifetime of a slice is taken from the clock and added to it again inside
\* Issue, delays[i] whole seconds later.
IssueSubbands(cat, q, delays) ==
    LET n == Len(q.bands)
        exp(i) == q.bands[i].exp + delays[i]
    IN  /\ FreshCap + n - 1 <= MaxCaps
        /\ cat.kind = "CAT"
        /\ cat.root # <<>>
        /\ ValidateBandDivision(cat.scope, q.from, q.to, q.bands)
        /\ CommitBandDivision(cat.scope, q.bands) = cat.root
        /\ \A i \in 1..n : mayMint(cat, q.bands[i].scope, exp(i), q.bands[i].nbf)
        /\ caps' = caps \union
              {child(cat, FreshCap + i - 1, q.bands[i].scope, exp(i), q.bands[i].nbf,
                     cat.root, i, n) : i \in 1..n}
        /\ UNCHANGED <<now, txns, view, recordVars, allowed>>

\* A registered issuer signs a child without the checks of this repository.
ForgeCT(parent, f) ==
    /\ FreshCap <= MaxCaps
    /\ caps' = caps \union
          {[kind |-> "CT", jti |-> FreshCap, parent |-> parent.jti,
            cat |-> parent.cat, anchor |-> f.anchor, scope |-> f.scope,
            depth |-> f.depth, exp |-> f.exp, nbf |-> f.nbf,
            root |-> IF f.leg = 0 THEN <<>> ELSE parent.root,
            leg |-> f.leg, size |-> f.size]}
    /\ UNCHANGED <<now, txns, view, recordVars, allowed>>

\* txntoken.Issue looks at the CT it is given, not at the chain above it.
IssueTxn(ct, q) ==
    LET exp == childExp(ct, q.ttl, TxnDefaultTTL)
    IN  /\ FreshTxn <= MaxTxns
        /\ ct.kind = "CT"
        /\ now < ct.exp
        /\ Authorizes(ct.scope, q.tc)
        /\ exp <= ct.exp
        /\ txns' = txns \union {[jti |-> FreshTxn, ct |-> ct.jti, anchor |-> ct.anchor,
                                 tc |-> q.tc, exp |-> exp]}
        /\ UNCHANGED <<now, caps, view, recordVars, allowed>>

-----------------------------------------------------------------------------
(* The verifier.  Of the view v of a call, v.pos is the last token of the  *)
(* chain that passed, v.effective the intersection of the scopes up to it, *)
(* v.slice the sliceIdentity of that token, v.at the clock when it passed. *)
(* Calls share the records of what was used and nothing else.              *)

live(c) == now < c.exp /\ (c.nbf # 0 => c.nbf < c.exp /\ now >= c.nbf)

\* checkSubbandMembership: what the parent declares decides.
isMember(parent, c) ==
    /\ c.root = parent.root
    /\ c.leg \in 1..c.size /\ c.leg \in DOMAIN parent.root
    /\ parent.root[c.leg] =
          SubbandLeaf(SubbandParentCommit(parent.scope),
                      [scope |-> c.scope, nbf |-> c.nbf, exp |-> c.exp],
                      c.leg, c.size)

checkSubbandMembership(parent, c) ==
    IF budgeted(parent)
    THEN DeclaresCumulativeBudget(c.scope) /\ parent.root # <<>> /\ isMember(parent, c)
    ELSE ~DeclaresCumulativeBudget(c.scope)

sliceIdentity(parent, c) ==
    IF budgeted(parent) THEN [root |-> parent.root, leg |-> c.leg] ELSE NoSlice

nbfAttenuates(parent, c) == parent.nbf # 0 => c.nbf >= parent.nbf

\* Mutant: the depth only has to be left over.
depthOK_positive(budget, c) == c.depth >= 0

depthOK(budget, c) == c.depth = budget - 1 /\ c.depth >= 0

\* One hop of step6Chain.
hopOK(v, parent, c) ==
    LET cat == v.chain[1]
    IN  /\ c.kind = "CT"
        /\ c.parent = parent.jti /\ c.cat = cat.jti /\ c.anchor = cat.anchor
        /\ Contains(parent.scope, c.scope)
        /\ checkSubbandMembership(parent, c)
        /\ depthOK(v.budget, c)
        /\ c.exp <= parent.exp
        /\ nbfAttenuates(parent, c)
        /\ live(c)

\* A chain of minted tokens is presented with an SPT-Txn and the transaction
\* to execute.  An expired SPT-Txn or CAT, or a root that is no CAT, is
\* refused with no trace.
Present(r, x, chain, tc) ==
    /\ view[r].stage = "idle"
    /\ now < x.exp
    /\ chain[1].kind = "CAT" /\ live(chain[1])
    /\ view' = [view EXCEPT ![r] =
                  [stage |-> "walk", txn |-> x, chain |-> chain, tc |-> tc,
                   pos |-> 1, effective |-> chain[1].scope,
                   budget |-> chain[1].depth, slice |-> NoSlice, at |-> now]]
    /\ UNCHANGED <<now, tokenVars, recordVars, allowed>>

\* What a call has established once c, the child of parent, passed too.
walked(v, parent, c) ==
    [stage |-> "walk", txn |-> v.txn, chain |-> v.chain, tc |-> v.tc,
     pos |-> v.pos + 1, effective |-> overlayScope(v.effective, c.scope),
     budget |-> c.depth, slice |-> sliceIdentity(parent, c), at |-> now]

\* The next hop passes, or the presentation is refused at step 6.
Hop(r) ==
    LET v == view[r]
        parent == v.chain[v.pos]
        c == v.chain[v.pos + 1]
    IN  /\ v.stage = "walk"
        /\ v.pos < Len(v.chain)
        /\ \/ hopOK(v, parent, c) /\ view' = [view EXCEPT ![r] = walked(v, parent, c)]
           \/ ~hopOK(v, parent, c) /\ view' = [view EXCEPT ![r] = NoView]
        /\ UNCHANGED <<now, tokenVars, recordVars, allowed>>

bound(v) ==
    LET leaf == v.chain[v.pos]
    IN  /\ v.txn.ct = leaf.jti
        /\ v.txn.anchor = v.chain[1].anchor
        /\ v.txn.exp <= leaf.exp

\* Mutant: the pruning drops the records that are still needed.
unexpired_inverted(records) == {u \in records : u.until <= now}

\* The records consumeAll has not pruned, and how long a new one is held
\* (ttlUntil): as long as what it guards is valid, a second at least.
unexpired(records) == {u \in records : now < u.until}
recordUntil(exp) == IF exp <= now THEN now + 1 ELSE exp

txnUse(v) == [jti |-> v.txn.jti, until |-> recordUntil(v.txn.exp)]
sliceUse(v) ==
    IF v.slice = NoSlice THEN {}
    ELSE {[slice |-> v.slice, until |-> recordUntil(v.chain[v.pos].exp)]}

alreadyUsed(v) ==
    \/ \E u \in unexpired(usedTxns) : u.jti = v.txn.jti
    \/ v.slice # NoSlice /\ \E u \in unexpired(usedSlices) : u.slice = v.slice

\* An allowed presentation; no tells apart two that agree in everything.
Outcome(v) == [no |-> Cardinality(allowed) + 1, txn |-> v.txn, chain |-> v.chain,
               tc |-> v.tc, slice |-> v.slice, at |-> v.at, decided |-> now]

\* The end of step 6, steps 7 and 8, and consumeOnAllow, which prunes the
\* records and then takes those it needs, all or none, in one critical section.
Decide(r) ==
    LET v == view[r]
        ok == bound(v) /\ Authorizes(v.effective, v.tc) /\ v.tc = v.txn.tc
    IN  /\ v.stage = "walk"
        /\ v.pos = Len(v.chain)
        /\ \/ ~ok /\ UNCHANGED <<recordVars, allowed>>
           \/ /\ ok /\ alreadyUsed(v)
              /\ usedTxns' = unexpired(usedTxns)
              /\ usedSlices' = unexpired(usedSlices)
              /\ UNCHANGED allowed
           \/ /\ ok /\ ~alreadyUsed(v)
              /\ usedTxns' = unexpired(usedTxns) \union {txnUse(v)}
              /\ usedSlices' = unexpired(usedSlices) \union sliceUse(v)
              /\ allowed' = allowed \union {Outcome(v)}
        /\ view' = [view EXCEPT ![r] = NoView]
        /\ UNCHANGED <<now, tokenVars>>

Tick ==
    /\ now < MaxTime
    /\ now' = now + 1
    /\ UNCHANGED <<tokenVars, view, recordVars, allowed>>

-----------------------------------------------------------------------------
Init ==
    /\ now = 0
    /\ caps = {} /\ txns = {}
    /\ view = [r \in Presentations |-> NoView]
    /\ usedTxns = {} /\ usedSlices = {}
    /\ allowed = {}

\* What may be presented: any tokens in any order.
Chains == UNION {[1..n -> caps] : n \in 2..MaxChain}

Mint ==
    \/ \E q \in CatRequests : CommitAndIssue(q)
    \/ \E p \in caps, q \in CtRequests : Issue(p, q) \/ Delegate(p, q)
    \/ \E p \in caps, q \in CatRequests :
          \E delays \in [1..Len(q.bands) -> 0..MaxMintDelay] : IssueSubbands(p, q, delays)
    \/ \E p \in caps, f \in Forgeries : ForgeCT(p, f)
    \/ \E p \in caps, q \in TxnRequests : IssueTxn(p, q)

Verify(r) ==
    \/ \E x \in txns, chain \in Chains, tc \in Contexts : Present(r, x, chain, tc)
    \/ Hop(r)
    \/ Decide(r)

Next == Mint \/ (\E r \in Presentations : Verify(r)) \/ Tick

Spec == Init /\ [][Next]_vars

-----------------------------------------------------------------------------
(* Properties.                                                             *)

\* What a call has established consists of minted tokens.
IsView(v) ==
    /\ v.stage \in {"idle", "walk"}
    /\ v.stage # "idle" =>
          /\ v.txn \in txns /\ v.tc \in Context
          /\ v.chain \in Seq(caps) /\ v.pos \in 1..Len(v.chain)
          /\ IsScope(v.effective) /\ v.budget \in Nat /\ v.at \in Nat

\* Every variable keeps its type; a presentation consists of minted tokens.
TypeOK ==
    /\ now \in Nat
    /\ \A c \in caps : IsCap(c)
    /\ \A x \in txns : x.tc \in Context /\ x.exp \in Nat
    /\ DOMAIN view = Presentations
    /\ \A r \in Presentations : IsView(view[r])
    /\ \A u \in usedTxns \union usedSlices : u.until \in Nat
    /\ \A a \in allowed :
          /\ a.txn \in txns /\ a.tc \in Context /\ a.at \in Nat /\ a.decided \in Nat
          /\ a.chain \in Seq(caps) /\ a.chain # <<>>

\* Attenuation cannot be undone: an allowed transaction respects the amount
\* and currency bounds of every token above it, although each hop is only
\* compared with its parent, may drop any dimension, and may come from an
\* issuer that checked nothing (step6Chain, overlayScope, step7Scope).
NoWidening ==
    \A a \in allowed : \A n \in DOMAIN a.chain : Within(a.chain[n].scope, a.tc)

\* The root decides how far its authority travels: no allowed chain has more
\* hops than the CAT's delegation_depth_max, whatever the depths in between
\* claim.
DepthBounded ==
    \A a \in allowed : Len(a.chain) - 1 <= a.chain[1].depth

\* The decision fell while the leaf of the chain was valid.  Validity is
\* checked during the walk, the record of a use is held until the expiry, and
\* a call may stall in between: a draw decided at the expiry or later may be
\* a second one on its slice (the race of ConcurrentSingleUse, Enforcement).
Timely(a) == a.decided < a.chain[Len(a.chain)].exp

Spent(cat) ==
    SumFunctionOnSet([a \in allowed |-> a.tc.amount],
                     {a \in allowed : a.chain[1] = cat /\ Timely(a)})

\* What is spent under one CAT by timely decisions stays within its
\* max_cumulative, although the verifier keeps no total: every child of the
\* CAT is a slice of its one committed division, and the slice is spent once
\* however often it is minted and however the calls overlap.
BudgetBounded ==
    \A c \in caps :
        c.kind = "CAT" /\ DeclaresCumulativeBudget(c.scope) =>
            Spent(c) <= c.scope["max_cumulative"]

\* "$3 today, not $6" (comment of ValidateBandDivision, subband.go): of the
\* slices of one committed CAT that pass step 6 at one moment at most one is
\* spent in time, because the bands do not overlap and each is spent once.
OneBandPerMoment ==
    \A a, b \in allowed :
        /\ a.chain[1] = b.chain[1] /\ a.chain[1].root # <<>>
        /\ Timely(a) /\ Timely(b)
        /\ a.at = b.at
        => a = b

\* Draws decided while their slice is valid never overspend a committed
\* budget, in total or in any one band.
BudgetSafe == BudgetBounded /\ OneBandPerMoment
=============================================================================
