------------------------------ MODULE LPFunds ------------------------------
(***************************************************************************)
(* The liquidity providers the order tracker knows (orderTracker.lps, the  *)
(* lp struct of src/eibc/lp.go): the criteria of the grant last loaded for *)
(* each, and its ledger, the balance last read from the chain and the      *)
(* funds reserved for orders on their way to a fulfiller.  lpmu is held    *)
(* for the whole of every operation below, so each is one atomic step.     *)
(***************************************************************************)
EXTENDS Coins

CONSTANTS
    LP,       \* addresses of liquidity providers
    Rank,     \* Rank[l]: place of l in the sort of selectBestLP, ties allowed
    MaxGrants \* bound on the grants a provider makes one after the other

\* A provider's grants are numbered; one may differ from the one before in
\* the rollapps, denominations, limits or fees it names.
Grant == 1..MaxGrants

ASSUME FundsAssumption ==
    /\ Rank \in [LP -> Nat]
    /\ MaxGrants \in Nat \ {0}

VARIABLES
    lps,      \* the loaded providers, keys of orderTracker.lps
    balance,  \* lp.balance
    reserved, \* lp.reservedFunds
    criteria  \* lp.Rollapps: the grant its criteria and limits were read from

fundVars == <<lps, balance, reserved, criteria>>

FundsTypeOK ==
    /\ lps \subseteq LP
    /\ balance \in [LP -> Bag]
    /\ reserved \in [LP -> Bag]
    /\ criteria \in [LP -> Grant]

----------------------------------------------------------------------------
(* A provider that is not loaded has no lp object; NoCoins and 1 stand for *)
(* its fields.                                                             *)

Overdrawn(l) == ~IsAllGTE(balance[l], reserved[l])

\* spendableBalance: Coins.Sub panics when the result would be negative.
hasBalance(l, price) ==
    \A d \in Denom : balance[l][d] >= reserved[l][d] + price[d]

\* Bug variant: the providers' criteria are not looked at.
filterLPsForOrder_AnyProvider(accepting, price) == {l \in lps : hasBalance(l, price)}

filterLPsForOrder(accepting, price) ==
    {l \in lps \cap accepting : hasBalance(l, price)}

\* hasBalance runs for every provider whose criteria accept the order.
filterPanics(accepting) == \E l \in lps \cap accepting : Overdrawn(l)

selectBestLP(ls) == {l \in ls : \A m \in ls : Rank[l] <= Rank[m]}

(***************************************************************************)
(* The providers findLPForOrder may settle on for an order that holds a    *)
(* reservation with provider current (or with none); {} is its error.      *)
(***************************************************************************)
findLPForOrder(current, accepting, price) ==
    LET candidates == filterLPsForOrder(accepting, price)
    IN  IF current \in candidates THEN {current} ELSE selectBestLP(candidates)

\* The order keeps its provider, or reserves its price with the new one; a
\* reservation with the previous provider is left where it is.
assignLP(l, current, price) ==
    /\ reserved' = IF l = current THEN reserved
                   ELSE [reserved EXCEPT ![l] = Add(@, price)]
    /\ UNCHANGED <<lps, balance, criteria>>

\* Bug variant: nothing is given back.
releaseAllReservedOrdersFunds_Skipped(due) == UNCHANGED fundVars

\* due[l] is the total price of the released orders assigned to l.
releaseAllReservedOrdersFunds(due) ==
    /\ reserved' = [l \in LP |-> IF l \in lps THEN SafeSub(reserved[l], due[l])
                                              ELSE reserved[l]]
    /\ UNCHANGED <<lps, balance, criteria>>

\* Bug variant: the balance is not debited together with the reservation.
debitAllReservedOrdersFunds_ReserveOnly(due) ==
    /\ reserved' = [l \in LP |-> IF l \in lps THEN SafeSub(reserved[l], due[l])
                                              ELSE reserved[l]]
    /\ UNCHANGED <<lps, balance, criteria>>

\* Bug variant: the spent funds stay reserved.
debitAllReservedOrdersFunds_BalanceOnly(due) ==
    /\ balance' = [l \in LP |-> IF l \in lps THEN SafeSub(balance[l], due[l])
                                             ELSE balance[l]]
    /\ UNCHANGED <<lps, reserved, criteria>>

debitAllReservedOrdersFunds(due) ==
    /\ reserved' = [l \in LP |-> IF l \in lps THEN SafeSub(reserved[l], due[l])
                                              ELSE reserved[l]]
    /\ balance' = [l \in LP |-> IF l \in lps THEN SafeSub(balance[l], due[l])
                                             ELSE balance[l]]
    /\ UNCHANGED <<lps, criteria>>

(***************************************************************************)
(* loadLPs: providers without a grant are dropped; every provider in       *)
(* loaded gets a new lp object, with the criteria of its grant, the        *)
(* chain's balance and nothing reserved.  The others that are granted are  *)
(* those behind a query that failed, and those skipped because their grant *)
(* names no supported rollapp: they stay as they were.                     *)
(***************************************************************************)
loadLPs(granted, loaded, bank, grants) ==
    /\ lps' = (lps \cap granted) \cup loaded
    /\ balance' = [l \in LP |-> IF l \in loaded THEN bank[l]
                                ELSE IF l \in granted THEN balance[l] ELSE NoCoins]
    /\ reserved' = [l \in LP |-> IF l \in granted \ loaded THEN reserved[l]
                                 ELSE NoCoins]
    /\ criteria' = [l \in LP |-> IF l \in loaded THEN grants[l]
                                 ELSE IF l \in granted THEN criteria[l] ELSE 1]

\* refreshBalances: a provider whose query fails keeps its balance.
refreshBalances(reached, bank) ==
    /\ balance' = [l \in LP |-> IF l \in reached THEN bank[l] ELSE balance[l]]
    /\ UNCHANGED <<lps, reserved, criteria>>
=============================================================================
