------------------------------- MODULE MCTrust -------------------------------
(***************************************************************************)
(* Model checking the trust registry and the snapshots of it.  A behaviour *)
(* exercises one of them, the one in focus; the snapshots' registry stands *)
(* for the file the other one writes.                                      *)
(***************************************************************************)
EXTENDS TrustRegistry, TrustSnapshot, TLC

CONSTANTS a, b, k1, k2, zero

VARIABLE focus

MCSeeds == <<a>>
KeySymmetry == Permutations(Keys)

trustVars == <<vars, snapshotVars, focus>>

TrustInit == focus \in {"registry", "snapshot"} /\ Init /\ SnapshotInit

TrustNext ==
    \/ focus = "registry" /\ Next /\ UNCHANGED <<snapshotVars, focus>>
    \/ focus = "snapshot" /\ SnapshotNext /\ UNCHANGED <<vars, focus>>

TrustSpec == TrustInit /\ [][TrustNext]_trustVars
=============================================================================
