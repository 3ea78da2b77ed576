-------------------------------- MODULE Merkle --------------------------------
(***************************************************************************)
(* The Merkle tree over the audit log, pkg/audit/merkle.go: the root that  *)
(* is signed, the audit path of one entry and its verification.  A hash is *)
(* the term it was computed from, with its domain tag.                     *)
(***************************************************************************)
EXTENDS Naturals, Sequences

hashLeaf(entryHash) == <<"leaf", entryHash>>
hashInterior(l, r) == <<"interior", l, r>>

\* One level up; an unpaired last node is promoted unchanged.
nextLayer(layer) ==
    [i \in 1..((Len(layer) + 1) \div 2) |->
        IF 2 * i <= Len(layer) THEN hashInterior(layer[2 * i - 1], layer[2 * i])
        ELSE layer[2 * i - 1]]

\* The layers from the leaves up, as the loops that build them go through
\* them; a layer of one node is its own successor.
layers(log) ==
    LET up[k \in Nat] == IF k = 0 THEN [i \in DOMAIN log |-> hashLeaf(log[i])]
                         ELSE nextLayer(up[k - 1])
    IN up

MerkleRoot(log) == IF log = <<>> THEN <<"empty">> ELSE layers(log)[Len(log)][1]

sibling(idx) == IF idx % 2 = 0 THEN idx + 1 ELSE idx - 1

\* One round of MerkleProof: the sibling, if the node has one, joins the path.
collect(layer, s) ==
    [path |-> IF Len(layer) > 1 /\ sibling(s.idx) < Len(layer)
              THEN Append(s.path, layer[sibling(s.idx) + 1]) ELSE s.path,
     idx  |-> s.idx \div 2]

ascent(log, index) ==
    LET at[k \in Nat] == IF k = 0 THEN [path |-> <<>>, idx |-> index]
                         ELSE collect(layers(log)[k - 1], at[k - 1])
    IN at

\* The siblings on the way up from index, counted from 0, bottom first.
MerkleProof(log, index) == ascent(log, index)[Len(log)].path

\* Mutant: the last node of a layer is taken for promoted although it has a sibling.
promoted_last(idx, layerLen) == idx = layerLen - 1
promoted(idx, layerLen) == idx = layerLen - 1 /\ layerLen % 2 = 1

\* One round of VerifyInclusion; ok turns false when the path is too short.
climb(path, s) ==
    IF s.len <= 1 \/ ~s.ok THEN s
    ELSE IF promoted(s.idx, s.len)
    THEN [s EXCEPT !.idx = @ \div 2, !.len = (@ + 1) \div 2]
    ELSE IF s.pi >= Len(path) THEN [s EXCEPT !.ok = FALSE]
    ELSE [s EXCEPT !.idx = @ \div 2, !.len = (@ + 1) \div 2, !.pi = @ + 1,
             !.h = IF s.idx % 2 = 0 THEN hashInterior(@, path[s.pi + 1])
                   ELSE hashInterior(path[s.pi + 1], @)]

climbing(entryHash, index, count, path) ==
    LET at[k \in Nat] ==
            IF k = 0 THEN [h |-> hashLeaf(entryHash), idx |-> index, len |-> count, pi |-> 0, ok |-> TRUE]
            ELSE climb(path, at[k - 1])
    IN at

\* Recompute the root from the leaf; every sibling must be used.
VerifyInclusion(entryHash, index, count, path, root) ==
    LET top == climbing(entryHash, index, count, path)[count] IN
    index >= 0 /\ index < count /\ top.ok /\ top.pi = Len(path) /\ top.h = root

\* receiptverify finds the receipt in the log it is presented with, checks its
\* path there, and then in the prefix that the published head covers.
receiptverify(entry, log, root, count) ==
    \E idx \in 0..(Len(log) - 1) :
        /\ log[idx + 1] = entry /\ \A i \in 1..idx : log[i] # entry
        /\ VerifyInclusion(entry, idx, Len(log), MerkleProof(log, idx), MerkleRoot(log))
        /\ count <= Len(log)
        /\ MerkleRoot(SubSeq(log, 1, count)) = root
        /\ idx < count
        /\ VerifyInclusion(entry, idx, count, MerkleProof(SubSeq(log, 1, count), idx), root)

-----------------------------------------------------------------------------
\* The path of an entry proves it, and it proves nothing else: with the path
\* of any entry of any log of the same length, only the entry that is at the
\* index verifies against the root.
InclusionExact(log, other, values) ==
    \A i, j \in 0..(Len(log) - 1) :
        /\ VerifyInclusion(log[i + 1], i, Len(log), MerkleProof(log, i), MerkleRoot(log))
        /\ \A v \in values :
              VerifyInclusion(v, i, Len(log), MerkleProof(other, j), MerkleRoot(log))
                  => v = log[i + 1]

\* The root commits to the whole log: two logs with one root are the same,
\* whatever their lengths.
RootCommits(log, other) == MerkleRoot(log) = MerkleRoot(other) => log = other

\* A receipt that verifies against a published head is in the log the head was
\* signed over, whatever log was presented with it.
ReceiptProven(log, published, values) ==
    \A v \in values :
        receiptverify(v, log, MerkleRoot(published), Len(published)) =>
            \E i \in DOMAIN published : published[i] = v

=============================================================================
