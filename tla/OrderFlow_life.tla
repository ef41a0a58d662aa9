--------------------------- MODULE OrderFlow_life ---------------------------
(***************************************************************************)
(* OrderFlow implements OrderLife: the refinement mapping.                 *)
(***************************************************************************)
EXTENDS OrderFlow

\* The orders under way, with their places.
Flights == UNION {{<<p, o>> : o \in hold[p]} : p \in Place}

CheckingPlace ==
    {ToValidate} \cup {Popped(c) : c \in Checker} \cup {ToCheck(k) : k \in ToCheckSlot}

ApprovedPlace ==
    {ValidOrders} \cup {Output(k) : k \in OutputSlot} \cup {Batch(f) : f \in Fulfiller}

\* The stage of each flight; a processed order has its result.
StageOf ==
    [x \in Place \X Obj |->
        IF x[1] \in CheckingPlace THEN "checking"
        ELSE IF x[1] \in ApprovedPlace THEN "approved"
        ELSE IF x[1] \in {InTx(f) : f \in Fulfiller} THEN "sent"
        ELSE IF failedOrderHash[x[2]] = 0 THEN "succeeded"
        ELSE "failed"]

\* "torn" is no stage of OrderLife: two orders of one id are under way.
Stages ==
    [id \in Id |->
        IF \A x \in Flights : IdOf[x[2]] # id THEN "idle"
        ELSE IF \A x, y \in Flights : IdOf[x[2]] = id /\ IdOf[y[2]] = id => x = y
             THEN StageOf[CHOOSE x \in Flights : IdOf[x[2]] = id]
             ELSE "torn"]

Life == INSTANCE OrderLife WITH
            pooled <- {id \in Id : pool[id] # Nil},
            stage  <- Stages,
            proven <- proven,
            filled <- {id \in Id : status[id] = "filled"}

(***************************************************************************)
(* Every behaviour of the sources, checkers, validator, fulfillers and     *)
(* result manager is a behaviour of OrderLife: an id has one flight at a   *)
(* time, which goes through validation before it is sent, is booked as a   *)
(* success only when the hub has fulfilled the order, and is the only one  *)
(* to remove the id's entry (src/eibc/order_tracker.go:127-252,            *)
(* src/eibc/order_fulfiller.go:79-159, src/eibc/pool.go).                  *)
(***************************************************************************)
ImplementsLife == Life!LifeSpec
=============================================================================
