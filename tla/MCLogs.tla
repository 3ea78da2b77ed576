------------------------------- MODULE MCLogs --------------------------------
(***************************************************************************)
(* The tree over the audit log, for every pair of logs up to a length.     *)
(* MCAlgebra runs it beside the other algorithms.                          *)
(***************************************************************************)
EXTENDS Merkle

CONSTANTS
    EntryHashes, \* hashes of entries
    MaxLog       \* bound on the length of a log

VARIABLES log, twin   \* a pair of logs

pairVars == <<log, twin>>

Logs == UNION {[1..n -> EntryHashes] : n \in 0..MaxLog}

PairInit == log = <<>> /\ twin = <<>>

ChooseLogs == log = <<>> /\ twin = <<>> /\ log' \in Logs /\ twin' \in Logs

-----------------------------------------------------------------------------
\* Inclusion proofs are complete, and sound against the paths of every other
\* log of the same length.
ProofsExact == Len(log) = Len(twin) => InclusionExact(log, twin, EntryHashes)

\* One root, one log; and a verified receipt is in the published log.
RootsCommit == RootCommits(log, twin) /\ ReceiptProven(log, twin, EntryHashes)

\* A root stands for one log, and a proof against it for one of its entries.
LogProofsSound == ProofsExact /\ RootsCommit

=============================================================================
