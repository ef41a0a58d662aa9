------------------------------- MODULE Coins -------------------------------
(***************************************************************************)
(* The part of cosmos-sdk's sdk.Coins (v0.46) the client relies on.  A     *)
(* bag of coins is a function from denominations to amounts; a denom that  *)
(* sdk.Coins leaves out has amount 0.  The library is external: the        *)
(* operators are modelled from the calls in src/eibc/lp.go and             *)
(* src/eibc/order_tracker.go, under the library's method names.            *)
(***************************************************************************)
EXTENDS Naturals, Integers, FiniteSetsExt

CONSTANT Denom
ASSUME DenomAssumption == Denom # {}

Bag == [Denom -> Nat]

NoCoins == [d \in Denom |-> 0]

Add(a, b) == [d \in Denom |-> a[d] + b[d]]

\* Total of f(x) over a finite set of orders, denomination by denomination.
Total(f(_), S) == [d \in Denom |-> MapThenSumSet(LAMBDA x : f(x)[d], S)]

IsAllGTE(a, b) == \A d \in Denom : a[d] >= b[d]

\* Bug variant: a negative difference is kept.
SafeSub_Unchecked(a, b) == [d \in Denom |-> a[d] - b[d]]

(***************************************************************************)
(* SafeSub reports a negative result, it does not clamp it: the callers    *)
(* then replace the whole bag with the empty one (lp.go:68-71).            *)
(***************************************************************************)
SafeSub(a, b) ==
    LET diff == [d \in Denom |-> a[d] - b[d]]
    IN  IF diff \in Bag THEN diff ELSE NoCoins
=============================================================================
