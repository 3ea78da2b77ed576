------------------------------ MODULE MCAlgebra ------------------------------
(***************************************************************************)
(* Model checking the algorithms over every small input: the scope         *)
(* algebra, the checks on documents and the tree of a log; and the         *)
(* delegation of tokens without budgets, which rests on the first.  A      *)
(* behaviour exercises one of them, the one in focus.                      *)
(***************************************************************************)
EXTENDS MCScope, MCDocuments, MCLogs, MCDelegation

VARIABLE focus

allVars == <<algebraVars, docVars, pairVars, vars, focus>>

AllInit ==
    /\ focus \in {"algebra", "documents", "logs", "tokens"}
    /\ AlgebraInit /\ DocInit /\ PairInit /\ Init

AllNext ==
    \/ focus = "algebra" /\ AlgebraNext /\ UNCHANGED <<docVars, pairVars, vars, focus>>
    \/ focus = "documents" /\ DocNext /\ UNCHANGED <<algebraVars, pairVars, vars, focus>>
    \/ focus = "logs" /\ ChooseLogs /\ UNCHANGED <<algebraVars, docVars, vars, focus>>
    \/ focus = "tokens" /\ Next /\ UNCHANGED <<algebraVars, docVars, pairVars, focus>>

AllSpec == AllInit /\ [][AllNext]_allVars
=============================================================================
