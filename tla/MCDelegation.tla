---------------------------- MODULE MCDelegation -----------------------------
(***************************************************************************)
(* Small instances of Delegation.                                          *)
(***************************************************************************)
EXTENDS Delegation, TLC

CONSTANTS p1, p2   \* calls of Verify

MCUnit == [d \in moneyDims |-> "currency"]

Usd(d, n) == [e \in {d, "currency"} |-> IF e = "currency" THEN "USD" ELSE n]
Bare(d, n) == [e \in {d} |-> n]
Open == [e \in {} |-> 0]

Cat(scope, depth, bands) ==
    [scope |-> scope, depth |-> depth, ttl |-> 3, anchor |-> 1,
     bands |-> bands, from |-> 0, to |-> 3]
Tc(n, cur) == [amount |-> n, currency |-> cur]
Forged(scope, depth, exp, nbf, leg, size) ==
    [scope |-> scope, depth |-> depth, exp |-> exp, nbf |-> nbf, anchor |-> 1,
     leg |-> leg, size |-> size]

\* Delegation of a per-transaction ceiling of 2 USD over at most two hops:
\* children that tighten it and children that drop it, and forged ones that
\* raise it, re-declare it in another currency, or claim more depth.
WideCats == {Cat(Usd("max_amount", 2), 2, <<>>), Cat(Usd("max_amount", 2), 1, <<>>)}
WideCts  == {[scope |-> Bare("max_amount", 1), ttl |-> 0, nbf |-> 0],
             [scope |-> Open, ttl |-> 3, nbf |-> 1]}
WideForgeries == {Forged(Usd("max_amount", 3), 1, 3, 0, 0, 0),
                  Forged(Open, 0, 3, 0, 0, 0),
                  Forged([Usd("max_amount", 2) EXCEPT !["currency"] = "EUR"], 0, 3, 0, 0, 0),
                  Forged(Open, -1, 2, 0, 0, 0)}
WideTxns == {[tc |-> Tc(1, "USD"), ttl |-> 0], [tc |-> Tc(2, "USD"), ttl |-> 1],
             [tc |-> Tc(3, "EUR"), ttl |-> 0]}
WideContexts == {Tc(1, "USD"), Tc(2, "USD"), Tc(3, "EUR")}

\* A budget of 2 USD committed as two bands of 1 USD, one after the other.
\* The forgeries copy a slice and drop the budget.
Band(n, nbf, exp) == [scope |-> Usd("max_cumulative", n), nbf |-> nbf, exp |-> exp]
Schedule == <<Band(1, 0, 1), Band(1, 1, 3)>>
BudgetCats == {Cat(Usd("max_cumulative", 2), 2, Schedule)}
BudgetForgeries == {Forged(Usd("max_cumulative", 1), 1, 3, 1, 2, 2),
                    Forged(Open, 1, 3, 0, 0, 0)}
BudgetCts  == {[scope |-> Open, ttl |-> 0, nbf |-> 0]}
BudgetTxns == {[tc |-> Tc(1, "USD"), ttl |-> 0]}
BudgetContexts == {Tc(1, "USD")}

\* The calls of Verify are alike.
PresentationSymmetry == Permutations(Presentations)

=============================================================================
