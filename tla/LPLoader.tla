------------------------------ MODULE LPLoader ------------------------------
(***************************************************************************)
(* How the providers' grants reach the client: loadLPs (src/eibc/lp.go)    *)
(* copies the criteria of every grant to the group policy, and resets the  *)
(* poller (src/eibc/order_poller.go) when an order that had no provider    *)
(* could have one now; filterLPsForOrder (src/eibc/order_tracker.go) says  *)
(* which orders a provider's criteria accept.                              *)
(***************************************************************************)
EXTENDS Coins, FiniteSets

CONSTANTS
    LP,         \* addresses that may grant
    Rollapp,
    Supported,  \* the rollapps of the configuration
    MinShare,   \* operator.min_fee_share, in percent
    Grant,      \* grants: criteria per rollapp
    Order       \* orders the poller may see

Criteria == [denoms : SUBSET Denom, maxPrice : Bag, minFee : Nat, share : Nat,
             settled : BOOLEAN, spendLimit : Bag]

ASSUME LPLoaderAssumption ==
    /\ Supported \subseteq Rollapp
    /\ \A g \in Grant : DOMAIN g \subseteq Rollapp /\ \A r \in DOMAIN g : g[r] \in Criteria
    /\ MinShare \in Nat
    /\ \A o \in Order : /\ o.rollapp \in Rollapp /\ o.denom \in Denom
                        /\ o.price \in Bag /\ {o.fee, o.amount} \subseteq Nat

VARIABLES
    granted,  \* on the hub: what each address grants, or Revoked
    lps,      \* orderTracker.lps: the criteria of each provider, or Revoked
    solvent,  \* the providers whose balance covers an order
    noted     \* noLPOrders: orders for which no provider was found

loaderVars == <<granted, lps, solvent, noted>>

\* No grant, no entry.  (An entry of the client always has a rollapp.)
Revoked == <<>>

LoaderTypeOK ==
    /\ granted \in [LP -> Grant \cup {Revoked}]
    /\ \A l \in LP : /\ DOMAIN lps[l] \subseteq Supported
                     /\ \A r \in DOMAIN lps[l] : lps[l][r].share >= MinShare
    /\ solvent \subseteq LP
    /\ noted \subseteq Order

LoaderInit ==
    /\ granted = [l \in LP |-> Revoked]
    /\ lps = [l \in LP |-> Revoked]
    /\ solvent = {}
    /\ noted = {}

----------------------------------------------------------------------------
\* External: sdk.Coins.  Denoms that b does not have are not compared.
IsAnyGT(a, b) == \E d \in Denom : b[d] # 0 /\ a[d] > b[d]

IsAllPositive(a) == a # NoCoins

\* The criteria c of a provider allow order o, its balance apart.
Allows(c, o) ==
    /\ c.denoms # {} => o.denom \in c.denoms
    /\ ~(IsAllPositive(c.maxPrice) /\ IsAnyGT(o.price, c.maxPrice))
    /\ IsAllGTE(c.spendLimit, o.price)
    /\ o.fee >= (o.amount * c.minFee) \div 100

Accepts(entry, o) == o.rollapp \in DOMAIN entry /\ Allows(entry[o.rollapp], o)

----------------------------------------------------------------------------
\* Bug variant: the share is not compared with the operator's minimum.
Usable_AnyShare(g) == DOMAIN g \cap Supported

\* The rollapps of a grant the client takes over.
Usable(g) == {r \in DOMAIN g \cap Supported : g[r].share >= MinShare}

Entry(g) == [r \in Usable(g) |-> g[r]]

\* The hash leaves the spend limit out: every fulfillment changes it.
Hashed(entry) == [r \in DOMAIN entry |-> [entry[r] EXCEPT !.spendLimit = NoCoins]]

\* Bug variant: a spend limit that is raised is not noticed.
SpendLimitRaised_Never(old, new) == FALSE

SpendLimitRaised(old, new) ==
    \E r \in DOMAIN old \cap DOMAIN new : IsAnyGT(new[r].spendLimit, old[r].spendLimit)

\* The entries after the grants of the providers in done have been handled;
\* a grant without a usable rollapp leaves the entry as it was.
LoadedFrom(done) ==
    [l \in LP |-> CASE granted[l] = Revoked -> Revoked
                    [] l \in done /\ Usable(granted[l]) # {} -> Entry(granted[l])
                    [] OTHER -> lps[l]]

\* lpsUpdated: a provider is new, or its criteria or its spend limit allow more.
Updated(new) ==
    \E l \in LP : /\ granted[l] # Revoked /\ Usable(granted[l]) # {}
                  /\ \/ lps[l] = Revoked
                     \/ Hashed(lps[l]) # Hashed(new[l])
                     \/ SpendLimitRaised(lps[l], new[l])

Load ==
    /\ lps' = LoadedFrom(LP)
    /\ noted' = IF Updated(LoadedFrom(LP)) THEN {} ELSE noted
    /\ UNCHANGED <<granted, solvent>>

\* A grant that cannot be read or a balance that cannot be had ends the
\* round: what is done stays done, and the poller is not reset.
LoadFails ==
    /\ \E done \in (SUBSET LP) \ {LP} : lps' = LoadedFrom(done)
    /\ UNCHANGED <<granted, solvent, noted>>

\* convertOrders finds no provider.
NoteOrder(o) ==
    /\ o \notin noted
    /\ \A l \in solvent : ~Accepts(lps[l], o)
    /\ noted' = noted \cup {o}
    /\ UNCHANGED <<granted, lps, solvent>>

\* External: a provider changes or revokes its grant, spends or receives.
Regrant(l, g) ==
    /\ g # granted[l]
    /\ granted' = [granted EXCEPT ![l] = g]
    /\ UNCHANGED <<lps, solvent, noted>>

BalanceChanges(l) ==
    /\ solvent' = IF l \in solvent THEN solvent \ {l} ELSE solvent \cup {l}
    /\ UNCHANGED <<granted, lps, noted>>

LoaderNext ==
    \/ Load \/ LoadFails
    \/ \E o \in Order : NoteOrder(o)
    \/ \E l \in LP, g \in Grant \cup {Revoked} : Regrant(l, g)
    \/ \E l \in LP : BalanceChanges(l)

LoaderSpec == LoaderInit /\ [][LoaderNext]_loaderVars

----------------------------------------------------------------------------
\* The spend limit the client knew had nothing left of what the order costs:
\* IsAnyGT does not compare with an amount of zero.
UsedUp(l, o) ==
    /\ o.rollapp \in DOMAIN lps[l]
    /\ \E d \in Denom : o.price[d] > 0 /\ lps[l][o.rollapp].spendLimit[d] = 0

(***************************************************************************)
(* Whatever changes in a grant, a load that makes a provider accept an     *)
(* order it did not accept lets the poller look at the noted orders again; *)
(* only a limit raised from zero does not (lp.go:186-223, 277-284).        *)
(***************************************************************************)
ResetWhenWider ==
    [][Load => \A l \in LP, o \in Order :
          ~Accepts(lps[l], o) /\ Accepts(lps'[l], o) /\ ~UsedUp(l, o)
              => noted' = {}]_loaderVars
=============================================================================
