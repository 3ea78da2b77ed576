------------------------------ MODULE SingleUse ------------------------------
(***************************************************************************)
(* What an authority over single-use rights promises: a grant takes all    *)
(* the rights it is for or none, no right is granted twice, no one is      *)
(* granted twice, and no grant is taken back.  Enforcement implements this *)
(* specification for the SPT-Txns and slices that are still alive.         *)
(***************************************************************************)
CONSTANTS
    Holder,     \* those who may be granted something
    Right       \* what may be granted once

VARIABLE grants \* the grants made: a holder and its rights

Init == grants = {}

Grant(h, rights) ==
    /\ rights # {}
    /\ \A g \in grants : g.holder # h /\ g.rights \intersect rights = {}
    /\ grants' = grants \union {[holder |-> h, rights |-> rights]}

Next == \E h \in Holder, rights \in SUBSET Right : Grant(h, rights)

Spec == Init /\ [][Next]_grants

=============================================================================
