----------------------------- MODULE OrderPool -----------------------------
(***************************************************************************)
(* orderPool (src/eibc/pool.go): the map from order ids to *demandOrder    *)
(* shared by the event subscriptions, the poller, the order validator and  *)
(* the result manager.  Every method holds opmu for its whole body, so     *)
(* every operator below is one atomic step on the pool.                    *)
(*                                                                         *)
(* A member of Obj is one allocation of a demandOrder.  Pointers to it     *)
(* outlive its pool entry (in channels, batches, retry lists), which is    *)
(* why the flags checking and valid belong to the object, not to the id.   *)
(***************************************************************************)
EXTENDS Naturals, FiniteSets

CONSTANTS
    Id,       \* demand order ids
    Obj,      \* allocations of demandOrder
    IdOf,     \* the id each allocation is made for
    Nil       \* no order

ASSUME PoolAssumption ==
    /\ IdOf \in [Obj -> Id]
    /\ Nil \notin Obj

VARIABLES
    pool,     \* orders: id -> the order pooled under it, or Nil
    checking, \* the orders whose checking flag is set
    valid     \* the orders whose valid flag is set

poolVars == <<pool, checking, valid>>

PoolTypeOK ==
    /\ pool \in [Id -> Obj \cup {Nil}]
    /\ \A id \in Id : pool[id] # Nil => IdOf[pool[id]] = id
    /\ checking \subseteq Obj
    /\ valid \subseteq Obj

PoolInit ==
    /\ pool = [id \in Id |-> Nil]
    /\ checking = {}
    /\ valid = {}

----------------------------------------------------------------------------
Pooled == {pool[id] : id \in Id} \ {Nil}

Flagged(o) == o \in checking \cup valid

\* The order for id in a list that holds at most one order per id.
InList(os, id) == CHOOSE o \in os : IdOf[o] = id

Listed(os, id) == \E o \in os : IdOf[o] = id

getOrder(id) == pool[id]

\* Bug variant: a pooled order is replaced instead of kept.
addOrder_Replaces(os) ==
    /\ pool' = [id \in Id |-> IF Listed(os, id) THEN InList(os, id) ELSE pool[id]]
    /\ UNCHANGED <<checking, valid>>

addOrder(os) ==
    /\ pool' = [id \in Id |-> IF Listed(os, id) /\ pool[id] = Nil
                                THEN InList(os, id) ELSE pool[id]]
    /\ UNCHANGED <<checking, valid>>

\* A flagged entry makes upsertOrder skip the order.
Guarded(id) == pool[id] # Nil /\ Flagged(pool[id])

\* Bug variant: the flags of the pooled order are not looked at.
upsertOrder_Unguarded(os) ==
    pool' = [id \in Id |-> IF Listed(os, id) THEN InList(os, id) ELSE pool[id]]

upsertOrder(os) ==
    pool' = [id \in Id |-> IF Listed(os, id) /\ ~Guarded(id)
                             THEN InList(os, id) ELSE pool[id]]

removeOrder(id) == pool' = [pool EXCEPT ![id] = Nil]

\* setValid marks whatever order is pooled under the id, not the caller's.
setValid(id) == valid' = valid \cup ({pool[id]} \ {Nil})

\* Bug variant: popping does not claim the orders.
popOrders_NoClaim(limit) ==
    LET free == {o \in Pooled : ~Flagged(o)}
    IN  {[orders |-> os, checking |-> checking] :
            os \in {s \in SUBSET free : Cardinality(s) = limit \/ (s = free /\ Cardinality(s) < limit)}}

(***************************************************************************)
(* popOrders(limit) returns some limit unflagged orders, or all of them if *)
(* there are fewer (Go's map iteration order is arbitrary), and flags what *)
(* it returns.  The operator is the set of possible outcomes.              *)
(***************************************************************************)
popOrders(limit) ==
    LET free == {o \in Pooled : ~Flagged(o)}
    IN  {[orders |-> os, checking |-> checking \cup os] :
            os \in {s \in SUBSET free : Cardinality(s) = limit \/ (s = free /\ Cardinality(s) < limit)}}
=============================================================================
