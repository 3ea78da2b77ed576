---------------------------- MODULE MCEnforcement ----------------------------
(***************************************************************************)
(* Small instances of Enforcement: one CAT, slices and plain CTs below it, *)
(* SPT-Txns on them, and the presentations that make the store, the clocks *)
(* and the registry interact.                                              *)
(***************************************************************************)
EXTENDS Enforcement, TLC

CONSTANTS r1, r2, kc, kt

MCKeys == {kc, kt}

Cat   == [jti |-> 1, key |-> kc, iat |-> 0, exp |-> 5, nbf |-> 0,
          parent |-> 0, holder |-> 50, slice |-> NoSlice]
\* A CAT with a shorter life, and the CT below it that outlives it.
Short == [Cat EXCEPT !.jti = 2, !.exp = 2]
Over  == [Cat EXCEPT !.jti = 3, !.parent = 2, !.exp = 4, !.holder = 51]
\* The slice opens at 1; Plain is an unbudgeted CT and Sub its child.
Slice == [Cat EXCEPT !.jti = 4, !.parent = 1, !.exp = 4, !.nbf = 1,
                     !.holder = 51, !.slice = [root |-> 70, leg |-> 1]]
Plain == [Cat EXCEPT !.jti = 5, !.parent = 1, !.exp = 4, !.holder = 51]
Sub   == [Plain EXCEPT !.jti = 6, !.parent = 5, !.exp = 3]
\* A CT whose status entry the chain run revokes.
Rev   == [Plain EXCEPT !.jti = 7]

Txn(jti, exp, leaf) == [jti |-> jti, key |-> kt, iat |-> 0, exp |-> exp,
                        ct |-> leaf.jti, jkt |-> leaf.holder]
Proof(jti, t, iat)  == [jti |-> jti, jkt |-> t.jkt, ath |-> t.jti, iat |-> iat]

TS1 == Txn(11, 2, Slice)
TS2 == Txn(12, 4, Slice)
TP  == Txn(13, 3, Sub)
TO  == Txn(14, 4, Over)
TZ  == Txn(15, 3, Sub)
TR  == Txn(16, 3, Rev)

In(role, t, p, chain, zk, fault) ==
    [role |-> role, txn |-> t, proof |-> p, chain |-> chain, zk |-> zk,
     fault |-> fault]

\* Two SPT-Txns on one slice, at both roles, one proof for both tries of one
\* token, and an input refused by a pure comparison after its proof was used.
SliceInputs == {
    In("gate",   TS1, Proof(21, TS1, 1), <<Cat, Slice>>, FALSE, 0),
    In("gate",   TS1, Proof(22, TS1, 0), <<Cat, Slice>>, FALSE, 0),
    In("gate",   TS2, Proof(23, TS2, 1), <<Cat, Slice>>, FALSE, 0),
    In("settle", TS1, Proof(21, TS1, 1), <<Cat, Slice>>, FALSE, 0),
    In("settle", TS2, Proof(23, TS2, 1), <<Cat, Slice>>, FALSE, 0),
    In("gate",   TS2, Proof(23, TS2, 1), <<Cat, Slice>>, FALSE, 8) }

\* Chains that are longer, that outlive their parent, that are spliced, and
\* the ZK variant; pure comparisons that fail at each step.
ChainInputs == {
    In("gate",   TP, Proof(31, TP, 0), <<Cat, Plain, Sub>>, FALSE, 0),
    In("settle", TO, Proof(32, TO, 0), <<Short, Over>>, FALSE, 0),
    In("settle", TP, Proof(31, TP, 0), <<Cat, Sub>>, FALSE, 0),
    In("gate",   TP, Proof(32, TO, 0), <<Cat, Plain, Sub>>, FALSE, 0),
    In("settle", TZ, Proof(31, TP, 0), <<Cat, Plain, Sub>>, TRUE, 0),
    In("settle", TP, Proof(31, TP, 0), <<Cat, Plain, Sub>>, FALSE, 3),
    In("settle", TP, Proof(31, TP, 0), <<Cat, Plain, Sub>>, FALSE, 6),
    In("settle", TP, Proof(31, TP, 0), <<Cat, Plain, Sub>>, FALSE, 7),
    In("settle", TR, Proof(31, TP, 0), <<Cat, Rev>>, FALSE, 0),
    In("settle", TP, Proof(31, TP, 0), <<Cat>>, FALSE, 0) }

\* One token presented again and again, for the race with its expiry.
RaceInputs == { In("gate", TP, Proof(31, TP, 0), <<Cat, Plain, Sub>>, FALSE, 0),
                In("gate", TP, Proof(33, TP, 0), <<Cat, Plain, Sub>>, FALSE, 0) }

RequestSymmetry == Permutations(Requests)

=============================================================================
