------------------------------ MODULE RwaToken ------------------------------
(***************************************************************************)
(* The compliant token contracts, solidity/src/CompliantRWAToken.sol       *)
(* (edition "v1") and CompliantRWATokenV2.sol (its modes "address" and     *)
(* "issuer"): a holder becomes eligible by a zero-knowledge proof, the     *)
(* admin mints to eligible holders and changes the policy, and tokens move *)
(* between eligible holders.  A call that reverts changes nothing and is   *)
(* no step.  A proof is identified with the public inputs it verifies for. *)
(***************************************************************************)
EXTENDS Integers, FiniteSets, Functions

CONSTANTS
    Holders,      \* addresses
    Thresholds,   \* attribute thresholds the admin may set
    Roots,        \* Merkle roots of approved holders, or pinned issuer keys
    Proofs,       \* proofs that exist: [who, threshold, root]
    MaxUint,      \* type(uint256).max
    MaxCalls

ASSUME RwaAssumption == MaxUint \in Nat \ {0} /\ MaxCalls \in Nat /\ IsFiniteSet(Holders)

VARIABLES
    edition,      \* which contract, and in which mode
    policy,       \* [threshold, root, membership, attribute]
    supply,       \* totalSupply
    balance,      \* balanceOf
    allowance,    \* allowance[owner][spender]
    eligible,
    grants,       \* history: [who, proof, policy] of every registration
    approved,     \* history: all that an owner let a spender move
    spent,        \* history: all that a spender moved for an owner
    calls

rwaVars == <<edition, policy, supply, balance, allowance, eligible, grants, approved, spent, calls>>

Pairs == Holders \X Holders

\* The constructors: v1 refuses a policy that requires nothing.
RwaInit ==
    /\ edition \in {"v1", "address", "issuer"}
    /\ policy \in [threshold : Thresholds, root : Roots, membership : BOOLEAN, attribute : BOOLEAN]
    /\ IF edition = "v1" THEN policy.membership \/ policy.attribute
       ELSE ~policy.membership /\ policy.attribute
    /\ supply = 0 /\ balance = [h \in Holders |-> 0]
    /\ allowance = [p \in Pairs |-> 0] /\ eligible = {}
    /\ grants = {} /\ approved = [p \in Pairs |-> 0] /\ spent = [p \in Pairs |-> 0] /\ calls = 0

called == calls < MaxCalls /\ calls' = calls + 1

\* Mutant: the caller is not among the public inputs.
verifies_anyone(who, p, m) == p.threshold = policy.threshold /\ (edition = "issuer" => p.root = policy.root)

\* The public inputs the contract gives the verifiers: in v1 the root to that
\* of the membership proof m and the threshold to that of the attribute proof
\* p, each if it is required; in v2, which takes p alone, the caller too, and
\* in issuer mode the pinned key.
verifies(who, p, m) ==
    CASE edition = "v1" -> /\ policy.membership => m.root = policy.root
                           /\ policy.attribute => p.threshold = policy.threshold
      [] edition = "address" -> p.threshold = policy.threshold /\ p.who = who
      [] OTHER -> p.threshold = policy.threshold /\ p.root = policy.root /\ p.who = who

register(who) ==
    /\ called
    /\ \E p, m \in Proofs :
          /\ verifies(who, p, m)
          /\ grants' = grants \cup {[who |-> who, proof |-> p, policy |-> policy]}
    /\ eligible' = eligible \cup {who}
    /\ UNCHANGED <<edition, policy, supply, balance, allowance, approved, spent>>

\* Checked arithmetic: an overflow reverts.
mint(to, n) ==
    /\ called /\ to \in eligible
    /\ supply + n <= MaxUint /\ balance[to] + n <= MaxUint
    /\ supply' = supply + n
    /\ balance' = [balance EXCEPT ![to] = @ + n]
    /\ UNCHANGED <<edition, policy, allowance, eligible, grants, approved, spent>>

approve(owner, spender, n) ==
    /\ called
    /\ allowance' = [allowance EXCEPT ![<<owner, spender>>] = n]
    /\ approved' = [approved EXCEPT ![<<owner, spender>>] =
                                                @ + IF n = MaxUint THEN MaxCalls * n ELSE n]
    /\ UNCHANGED <<edition, policy, supply, balance, eligible, grants, spent>>

\* The recipient's balance is read after the sender's has been written.
moved(from, to, n) ==
    LET debited == [balance EXCEPT ![from] = @ - n] IN [debited EXCEPT ![to] = @ + n]

\* The counterparties are eligible and the balance is there.
canMove(from, to, n) == from \in eligible /\ to \in eligible /\ balance[from] >= n

transfer(from, to, n) ==
    /\ called /\ canMove(from, to, n)
    /\ balance' = moved(from, to, n)
    /\ UNCHANGED <<edition, policy, supply, allowance, eligible, grants, approved, spent>>

\* An allowance of MaxUint is not used up.
reduced(a, n) == IF a = MaxUint THEN a ELSE a - n

transferFrom(spender, from, to, n) ==
    /\ called /\ allowance[<<from, spender>>] >= n /\ canMove(from, to, n)
    /\ allowance' = [allowance EXCEPT ![<<from, spender>>] = reduced(@, n)]
    /\ balance' = moved(from, to, n)
    /\ spent' = [spent EXCEPT ![<<from, spender>>] = @ + n]
    /\ UNCHANGED <<edition, policy, supply, eligible, grants, approved>>

\* The admin changes the policy; whoever is eligible stays so.
setConfig ==
    /\ called
    /\ policy' \in [threshold : Thresholds, root : Roots,
                    membership : IF edition = "v1" THEN BOOLEAN ELSE {FALSE},
                    attribute : IF edition = "v1" THEN BOOLEAN ELSE {TRUE}]
    /\ policy' # policy /\ (policy'.membership \/ policy'.attribute)
    /\ UNCHANGED <<edition, supply, balance, allowance, eligible, grants, approved, spent>>

Amounts == 0..MaxUint

RwaNext ==
    \/ setConfig
    \/ \E h \in Holders : register(h)
    \/ \E h \in Holders, n \in Amounts : mint(h, n)
    \/ \E h, k \in Holders, n \in Amounts : transfer(h, k, n) \/ approve(h, k, n)
    \/ \E s, h, k \in Holders, n \in Amounts : transferFrom(s, h, k, n)

-----------------------------------------------------------------------------
\* Tokens are neither made nor lost by transfers, those of a holder to itself
\* included, and every token is with an eligible holder.
SupplyConserved ==
    /\ supply = SumFunction(balance)
    /\ \A h \in Holders : balance[h] > 0 => h \in eligible

\* In both modes of the second edition, every eligible address showed a proof
\* made for that address, under the threshold, and in issuer mode the key,
\* that was in force when it did.
EligibleByOwnProof ==
    edition # "v1" =>
        \A h \in eligible : \E g \in grants :
            /\ g.who = h /\ g.proof.who = h /\ g.proof.threshold = g.policy.threshold
            /\ edition = "issuer" => g.proof.root = g.policy.root

\* A spender never moves more of an owner's tokens than the owner approved
\* for it over time, unless it approved without limit.
SpentWithinApproved ==
    \A p \in Pairs : spent[p] <= approved[p]

\* Tokens are conserved, stay with eligible holders, and move only as their
\* owners approved.
RwaTokenSafe == SupplyConserved /\ EligibleByOwnProof /\ SpentWithinApproved
=============================================================================
