------------------------- MODULE OrderFlow_life_proofs -------------------------
(***************************************************************************)
(* OrderFlow implements OrderLife, for any pool, any number of goroutines  *)
(* and any environment.                                                    *)
(*                                                                         *)
(* By SingleFlight an id has at most one flight, so its stage is that of   *)
(* the place of this one order.  What a step does to the stages then       *)
(* follows from what it does to places: it keeps an order where it is,     *)
(* moves it to a place with another stage, drops it, or forgets all of     *)
(* them.  That only orders that are vouched for are sent is SentVouched;   *)
(* that only those the hub has filled are booked as successes is OkFilled. *)
(***************************************************************************)
EXTENDS OrderFlow_proofs, OrderFlow_life

----------------------------------------------------------------------------
(* The stage of an id is that of its one flight.                           *)

\* The lists before a transaction are different ones.
LEMMA ListsDiffer ==
    /\ \A c, k, f : Popped(c) \notin {ToCheck(k), ToValidate, ValidOrders, Output(k), Batch(f)}
    /\ \A k, f : \A p \in {ToValidate, ValidOrders, Batch(f)} : p # ToCheck(k) /\ p # Output(k)
    /\ \A k, l : ToCheck(k) # Output(l)
    /\ \A f : Batch(f) # ToValidate /\ Batch(f) # ValidOrders
    /\ \A c, k, f : \A p \in {Popped(c), ToCheck(k), ToValidate, ValidOrders, Output(k), Batch(f)} :
          \A g, l : p # InTx(g) /\ p # Successes(g) /\ p # Failures(g) /\ p # Processed(l)
<1>1. \A c, k, f : Popped(c) \notin {ToCheck(k), ToValidate, ValidOrders, Output(k), Batch(f)}
      BY DEF Popped, ToCheck, ToValidate, ValidOrders, Output, Batch
<1>2. \A k, f : \A p \in {ToValidate, ValidOrders, Batch(f)} : p # ToCheck(k) /\ p # Output(k)
      BY DEF ToCheck, ToValidate, ValidOrders, Output, Batch
<1>3. \A k, l : ToCheck(k) # Output(l)
      BY DEF ToCheck, Output
<1>4. \A f : Batch(f) # ToValidate /\ Batch(f) # ValidOrders
      BY DEF ToValidate, ValidOrders, Batch
<1>5. \A c, k, f : \A p \in {Popped(c), ToCheck(k), ToValidate, ValidOrders, Output(k), Batch(f)} :
          \A g, l : p # InTx(g) /\ p # Successes(g) /\ p # Failures(g) /\ p # Processed(l)
      BY DEF Popped, ToCheck, ToValidate, ValidOrders, Output, Batch, InTx, Successes,
         Failures, Processed
<1>   QED BY <1>1, <1>2, <1>3, <1>4, <1>5

\* An id without a flight is idle.
LEMMA StageIdle ==
    \A id \in Id : (\A p \in Place : \A o \in hold[p] : IdOf[o] # id) => Stages[id] = "idle"
<1>  SUFFICES ASSUME NEW id \in Id, \A p \in Place : \A o \in hold[p] : IdOf[o] # id
              PROVE  Stages[id] = "idle"
     OBVIOUS
<1>1. \A x \in Flights : IdOf[x[2]] # id
      BY DEF Flights
<1>   QED BY <1>1 DEF Stages

\* An order on its way has the id's stage.
LEMMA StageOne ==
    TypeOK /\ SingleFlight
        => \A p \in Place : \A o \in hold[p] : Stages[IdOf[o]] = StageOf[<<p, o>>]
<1>  SUFFICES ASSUME TypeOK, SingleFlight, NEW p \in Place, NEW o \in hold[p]
              PROVE  Stages[IdOf[o]] = StageOf[<<p, o>>]
     OBVIOUS
<1>1. \A q \in Place : \A x \in hold[q] : IdOf[x] = IdOf[o] => x = o /\ q = p
  <2>1. o \in InFlight /\ \A q \in Place : \A x \in hold[q] : x \in InFlight
        BY DEF InFlight
  <2>2. \A q \in Place : \A x \in hold[q] : IdOf[x] = IdOf[o] => x = o
        BY <2>1 DEF SingleFlight, Claimed
  <2>3. \A q \in Place : o \in hold[q] => q = p
        BY DEF SingleFlight, Apart
  <2>   QED BY <2>2, <2>3
<1>2. <<p, o>> \in Flights /\ \A x \in Flights : IdOf[x[2]] = IdOf[o] => x = <<p, o>>
      BY <1>1 DEF Flights
<1>3. (CHOOSE x \in Flights : IdOf[x[2]] = IdOf[o]) = <<p, o>>
      BY <1>2
<1>4. IdOf[o] \in Id
      BY PoolAssumption DEF TypeOK, PipeTypeOK
<1>   QED BY <1>2, <1>3, <1>4 DEF Stages

\* The same of the next state.
LEMMA NextStages ==
    /\ \A id \in Id : (\A p \in Place : \A o \in hold'[p] : IdOf[o] # id) => Stages'[id] = "idle"
    /\ TypeOK' /\ SingleFlight'
        => \A p \in Place : \A o \in hold'[p] : Stages'[IdOf[o]] = StageOf'[<<p, o>>]
<1>1. (\A id \in Id : (\A p \in Place : \A o \in hold[p] : IdOf[o] # id) => Stages[id] = "idle")'
      BY StageIdle, PTL
<1>2. (TypeOK /\ SingleFlight
        => \A p \in Place : \A o \in hold[p] : Stages[IdOf[o]] = StageOf[<<p, o>>])'
      BY StageOne, PTL
<1>   QED BY <1>1, <1>2

Outcome(o) == IF failedOrderHash[o] = 0 THEN "succeeded" ELSE "failed"

\* What the places stand for.
PlaceStages ==
    \A o \in Obj :
        /\ \A c \in Checker : StageOf[<<Popped(c), o>>] = "checking"
        /\ \A k \in ToCheckSlot : StageOf[<<ToCheck(k), o>>] = "checking"
        /\ StageOf[<<ToValidate, o>>] = "checking"
        /\ StageOf[<<ValidOrders, o>>] = "approved"
        /\ \A k \in OutputSlot : StageOf[<<Output(k), o>>] = "approved"
        /\ \A f \in Fulfiller : StageOf[<<Batch(f), o>>] = "approved"
        /\ \A f \in Fulfiller : StageOf[<<InTx(f), o>>] = "sent"
        /\ \A f \in Fulfiller : /\ StageOf[<<Successes(f), o>>] = Outcome(o)
                                /\ StageOf[<<Failures(f), o>>] = Outcome(o)
        /\ \A k \in ProcessedSlot : StageOf[<<Processed(k), o>>] = Outcome(o)

\* StageOf is what the places stand for,
LEMMA PlacesHaveStages == PlaceStages
<1>1. ASSUME NEW o \in Obj, NEW p \in Place, p \in CheckingPlace
      PROVE  StageOf[<<p, o>>] = "checking"
      BY <1>1 DEF StageOf
<1>2. ASSUME NEW o \in Obj, NEW p \in Place, p \in ApprovedPlace, p \notin CheckingPlace
      PROVE  StageOf[<<p, o>>] = "approved"
      BY <1>2 DEF StageOf
<1>3. /\ ValidOrders \notin CheckingPlace
      /\ \A k \in OutputSlot : Output(k) \notin CheckingPlace
      /\ \A f \in Fulfiller : Batch(f) \notin CheckingPlace
      BY ListsDiffer, PlacesDiffer DEF CheckingPlace
<1>4. ASSUME NEW p, p[1] \in {"tx", "success", "fail", "processed"}
      PROVE  p \notin CheckingPlace /\ p \notin ApprovedPlace
  <2>1. \A c : p # Popped(c)
        BY <1>4 DEF Popped
  <2>2. \A k : p # ToCheck(k) /\ p # Output(k)
        BY <1>4 DEF ToCheck, Output
  <2>3. p # ToValidate /\ p # ValidOrders
        BY <1>4 DEF ToValidate, ValidOrders
  <2>4. \A f : p # Batch(f)
        BY <1>4 DEF Batch
  <2>   QED BY <2>1, <2>2, <2>3, <2>4 DEF CheckingPlace, ApprovedPlace
<1>5. \A f \in Fulfiller : InTx(f)[1] = "tx"
      BY DEF InTx
<1>6. \A o \in Obj : \A f \in Fulfiller : StageOf[<<InTx(f), o>>] = "sent"
      BY <1>4, <1>5, PlaceMembers DEF StageOf
<1>7. ASSUME NEW o \in Obj, NEW p \in Place, p[1] \in {"success", "fail", "processed"}
      PROVE  StageOf[<<p, o>>] = Outcome(o)
  <2>1. \A f \in Fulfiller : p # InTx(f)
        BY <1>5, <1>7
  <2>   QED BY <1>4, <1>7, <2>1 DEF StageOf, Outcome
<1>8. /\ \A f \in Fulfiller : Successes(f)[1] = "success" /\ Failures(f)[1] = "fail"
      /\ \A k \in ProcessedSlot : Processed(k)[1] = "processed"
      BY DEF Successes, Failures, Processed
<1>9. /\ \A p \in {Popped(c) : c \in Checker} \cup {ToCheck(k) : k \in ToCheckSlot} \cup {ToValidate} :
            p \in CheckingPlace /\ p \in Place
      /\ \A p \in {Output(k) : k \in OutputSlot} \cup {Batch(f) : f \in Fulfiller} \cup {ValidOrders} :
            p \in ApprovedPlace /\ p \in Place
      BY PlaceMembers DEF CheckingPlace, ApprovedPlace
<1>   QED BY <1>1, <1>2, <1>3, <1>6, <1>7, <1>8, <1>9, PlaceMembers DEF PlaceStages, Outcome

\* in the next state, too.
LEMMA NextPlacesHaveStages == PlaceStages'
BY PlacesHaveStages, PTL
----------------------------------------------------------------------------
(* A fulfiller and its transaction.                                        *)

\* A transaction is about the chunk its fulfiller holds, which has nothing
\* else in the way; one that is executed has filled its orders.
TxHeld ==
    \A f \in Fulfiller :
        /\ wire[f].state # "none" => hold[InTx(f)] # {}
        /\ Processing(f) => hold[Failures(f)] = {}
        /\ wire[f].state # "none" => \A o \in hold[InTx(f)] : IdOf[o] \in TxIds(f)

OkFilled ==
    \A f \in Fulfiller : wire[f].state = "ok" => \A m \in wire[f].msgs : status[m.id] = "filled"

\* A list that is not empty has no empty chunks.
LEMMA ChunkNonempty ==
    ASSUME NEW os, os # {}, NEW n, n # 0, NEW c \in Chunks(os, n)
    PROVE  c # {}
BY FS_EmptySet DEF Chunks

\* Every step keeps transactions and their orders together.
LEMMA TxHeldKept ==
    ASSUME TypeOK, TypeOK', TxHeld, [Next]_vars
    PROVE  TxHeld'
<1>  SUFFICES ASSUME NEW f \in Fulfiller
              PROVE  /\ wire'[f].state # "none" => hold'[InTx(f)] # {}
                     /\ hold'[Batch(f)] # {} \/ hold'[InTx(f)] # {} => hold'[Failures(f)] = {}
                     /\ wire'[f].state # "none" => \A o \in hold'[InTx(f)] : IdOf[o] \in TxIds(f)'
     BY DEF TxHeld, Processing
<1>0. /\ wire[f].state # "none" => hold[InTx(f)] # {}
      /\ hold[Batch(f)] # {} \/ hold[InTx(f)] # {} => hold[Failures(f)] = {}
      /\ wire[f].state # "none" => \A o \in hold[InTx(f)] : IdOf[o] \in TxIds(f)
      BY DEF TxHeld, Processing
<1>a. /\ Batch(f) \in Place /\ InTx(f) \in Place /\ Failures(f) \in Place
      /\ Successes(f) \in Place
      BY PlaceMembers
<1>b. /\ Batch(f) # InTx(f) /\ Batch(f) # Failures(f) /\ InTx(f) # Failures(f)
      /\ \A p \in {Batch(f), InTx(f), Failures(f)} : p # Successes(f)
      /\ \A k : \A p \in {Batch(f), InTx(f), Failures(f)} : p # Output(k) /\ p # Processed(k)
      BY DEF Batch, InTx, Failures, Successes, Output, Processed
<1>1. CASE SameOwn(f)
      BY <1>0, <1>1 DEF SameOwn, Own, TxIds
<1>2. CASE Die
      BY <1>2, <1>a DEF Die, NoTx
<1>3. ASSUME NEW k \in OutputSlot, ReceiveBatch(f, k)
      PROVE  hold'[InTx(f)] = {} /\ hold'[Failures(f)] = {} /\ wire'[f].state = "none"
  <2>1. /\ hold[InTx(f)] = {} /\ hold[Failures(f)] = {} /\ wire' = wire
        /\ Output(k) \in Place
        BY <1>3, PlaceMembers DEF ReceiveBatch, txVars
  <2>   QED BY <1>0, <1>3, <1>a, <1>b, <2>1 DEF ReceiveBatch, Move, TypeOK, PipeTypeOK
<1>4. ASSUME Submit(f)
      PROVE  /\ hold'[InTx(f)] # {} /\ hold'[Failures(f)] = {}
             /\ \A o \in hold'[InTx(f)] : IdOf[o] \in TxIds(f)'
  <2>1. PICK chunk \in Chunks(hold[Batch(f)], MaxOrdersPerTx) :
              /\ Move(chunk, Batch(f), InTx(f))
              /\ wire' = [wire EXCEPT ![f] = [state |-> "sent",
                                              msgs |-> {MsgFor(o) : o \in chunk}]]
        BY <1>4 DEF Submit
  <2>a. hold[InTx(f)] = {} /\ hold[Batch(f)] # {} /\ MaxOrdersPerTx # 0
        BY <1>4, FlowAssumption DEF Submit
  <2>2. chunk # {}
        BY <2>1, <2>a, ChunkNonempty
  <2>3. hold'[InTx(f)] = chunk /\ hold'[Failures(f)] = hold[Failures(f)]
        BY <1>a, <1>b, <2>1, <2>a DEF Move, TypeOK, PipeTypeOK
  <2>4. wire'[f].msgs = {MsgFor(o) : o \in chunk}
        BY <2>1 DEF TypeOK, TxTypeOK
  <2>5. \A o \in chunk : IdOf[o] \in TxIds(f)'
    <3>1. \A o \in chunk : MsgFor(o) \in wire'[f].msgs
          BY <2>4
    <3>2. \A o \in chunk : MsgFor(o).id = IdOf[o]
          BY DEF MsgFor
    <3>   QED BY <3>1, <3>2 DEF TxIds
  <2>6. hold'[Failures(f)] = {}
        BY <1>0, <2>a, <2>3
  <2>   QED BY <2>2, <2>3, <2>5, <2>6
<1>5. CASE Succeed(f)
  <2>1. wire'[f].state = "none"
        BY <1>5 DEF Succeed, NoTx, TypeOK, TxTypeOK
  <2>2. hold'[InTx(f)] = {} /\ \A p \in {Batch(f), Failures(f)} : hold'[p] = hold[p]
        BY <1>5, <1>a, <1>b DEF Succeed, Move, TypeOK, PipeTypeOK
  <2>   QED BY <1>0, <2>1, <2>2
<1>6. CASE Fail(f) \/ RPCError(f)
  <2>1. wire'[f].state = "none"
        BY <1>6 DEF Fail, RPCError, Abort, NoTx, TypeOK, TxTypeOK
  <2>2. hold'[InTx(f)] = {} /\ hold'[Batch(f)] = {}
        BY <1>6, <1>a, <1>b DEF Fail, RPCError, TypeOK, PipeTypeOK
  <2>   QED BY <2>1, <2>2
<1>7. ASSUME NEW k \in ProcessedSlot, SendSuccesses(f, k) \/ SendFailures(f, k)
      PROVE  /\ hold'[Batch(f)] = hold[Batch(f)] /\ hold'[InTx(f)] = hold[InTx(f)]
             /\ hold'[Failures(f)] \subseteq hold[Failures(f)] /\ wire' = wire
      BY <1>7, <1>a, <1>b DEF SendSuccesses, SendFailures, Move, TypeOK, PipeTypeOK, txVars
<1>8. CASE \E k \in ProcessedSlot : SendSuccesses(f, k) \/ SendFailures(f, k)
      BY <1>0, <1>7, <1>8 DEF TxIds
<1>   QED BY <1>1, <1>2, <1>3, <1>4, <1>5, <1>6, <1>8, OwnStep DEF FulfillerStep

\* Nothing the client does changes the hub at once.
LEMMA ClientLeavesHub ==
    ASSUME TypeOK, Client
    PROVE  UNCHANGED hubVars
<1>1. CASE Poll \/ \E s \in Source : SourceStep(s)
      BY <1>1, SourceQuiet DEF Poll
<1>2. CASE (\E c \in Checker : CheckerStep(c)) \/ ValidatorStep
           \/ (\E f \in Fulfiller : FulfillerStep(f)) \/ ManagerStep
      BY <1>2, CheckerHeld, ValidatorHeld, FulfillerHeld, ManagerHeld
<1>3. CASE ReloadLPs \/ RefreshBalances \/ \E o \in Obj : DeadlinePasses(o)
      BY <1>3 DEF ReloadLPs, RefreshBalances, DeadlinePasses
<1>4. CASE Panic \/ Crash \/ \E f \in Fulfiller : Fatal(f)
      BY <1>4 DEF Panic, Crash, Fatal, Die
<1>   QED BY <1>1, <1>2, <1>3, <1>4 DEF Client

\* What is filled on the hub stays filled.
LEMMA FilledStays ==
    ASSUME TypeOK, [Next]_vars, NEW id \in Id, status[id] = "filled"
    PROVE  status'[id] = "filled"
<1>1. CASE UNCHANGED status
      BY <1>1
<1>2. CASE \E i \in Id : OrderCreated(i) \/ FeeUpdated(i) \/ BlockProven(i) \/ Gone(i)
      BY <1>2 DEF OrderCreated, FeeUpdated, BlockProven, Gone, TypeOK, HubTypeOK
<1>3. CASE (\E f \in Fulfiller : Execute(f) \/ Reject(f)) \/ \E msgs \in orphans : Settle(msgs)
      BY <1>1, <1>3 DEF Execute, Reject, Settle, Fulfill, hubVars
<1>4. CASE \E l \in LP : Transfer(l) \/ GrantOrRevoke(l)
      BY <1>1, <1>4 DEF Transfer, GrantOrRevoke
<1>5. CASE Restart \/ UNCHANGED vars
      BY <1>1, <1>5 DEF Restart, vars, hubVars
<1>6. CASE Client
      BY <1>1, <1>6, ClientLeavesHub DEF hubVars
<1>   QED BY <1>2, <1>3, <1>4, <1>5, <1>6 DEF Next, Hub

\* Only the hub turns a transaction into one that is executed.
LEMMA WireVerdict ==
    ASSUME TypeOK, [Next]_vars, NEW f \in Fulfiller
    PROVE  wire'[f] = wire[f] \/ wire'[f].state # "ok" \/ Execute(f)
<1>1. CASE UNCHANGED wire
      BY <1>1
<1>2. CASE Poll \/ \E s \in Source : SourceStep(s)
      BY <1>1, <1>2, SourceQuiet DEF Poll, txVars
<1>3. CASE (\E c \in Checker : CheckerStep(c)) \/ ValidatorStep \/ ManagerStep
      BY <1>1, <1>3 DEF CheckerStep, PopOrders, SendToCheck, ValidatorStep, ReceiveToCheck,
         NodeError, FoundValid, GiveUp, NotValidYet, ReleaseEvicted, SendValid, AddRetried,
         ManagerStep, ManageProcessed, txVars
<1>4. CASE ReloadLPs \/ RefreshBalances \/ \E o \in Obj : DeadlinePasses(o)
      BY <1>1, <1>4 DEF ReloadLPs, RefreshBalances, DeadlinePasses, txVars
<1>5. CASE Restart \/ UNCHANGED vars
      BY <1>1, <1>5 DEF Restart, vars, txVars
<1>6. CASE Die
      BY <1>6 DEF Die, NoTx
<1>7. ASSUME NEW g \in Fulfiller, FulfillerStep(g)
      PROVE  wire'[f] = wire[f] \/ wire'[f].state # "ok"
  <2>1. CASE \/ \E k \in OutputSlot : ReceiveBatch(g, k)
             \/ \E k \in ProcessedSlot : SendSuccesses(g, k) \/ SendFailures(g, k)
        BY <1>1, <2>1 DEF ReceiveBatch, SendSuccesses, SendFailures, txVars
  <2>2. CASE Submit(g)
        BY <2>2 DEF Submit, TypeOK, TxTypeOK
  <2>3. CASE Succeed(g) \/ Fail(g) \/ RPCError(g)
        BY <2>3 DEF Succeed, Fail, RPCError, Abort, NoTx, TypeOK, TxTypeOK
  <2>   QED BY <1>7, <2>1, <2>2, <2>3 DEF FulfillerStep
<1>8. ASSUME NEW g \in Fulfiller, Execute(g) \/ Reject(g)
      PROVE  wire'[f] = wire[f] \/ wire'[f].state # "ok" \/ Execute(f)
      BY <1>8 DEF Execute, Reject, TypeOK, TxTypeOK
<1>9. CASE Hub
  <2>1. CASE \E id \in Id : OrderCreated(id) \/ FeeUpdated(id) \/ BlockProven(id) \/ Gone(id)
        BY <1>1, <2>1 DEF OrderCreated, FeeUpdated, BlockProven, Gone, txVars
  <2>2. CASE (\E msgs \in orphans : Settle(msgs))
             \/ \E l \in LP : Transfer(l) \/ GrantOrRevoke(l)
        BY <1>1, <2>2 DEF Settle, Transfer, GrantOrRevoke, txVars
  <2>   QED BY <1>8, <1>9, <2>1, <2>2 DEF Hub
<1>10. CASE Client
  <2>1. CASE Panic \/ Crash \/ \E g \in Fulfiller : Fatal(g)
        BY <1>6, <2>1 DEF Panic, Fatal, Crash
  <2>   QED BY <1>2, <1>3, <1>4, <1>7, <1>10, <2>1 DEF Client
<1>   QED BY <1>5, <1>9, <1>10 DEF Next

\* Every step keeps executed transactions filled.
LEMMA OkFilledKept ==
    ASSUME TypeOK, TypeOK', OkFilled, [Next]_vars
    PROVE  OkFilled'
<1>  SUFFICES ASSUME NEW f \in Fulfiller, wire'[f].state = "ok", NEW m \in wire'[f].msgs
              PROVE  status'[m.id] = "filled"
     BY DEF OkFilled
<1>1. m.id \in Id
      BY DEF TypeOK, TxTypeOK, Msg
<1>2. CASE wire'[f] = wire[f]
  <2>1. status[m.id] = "filled"
        BY <1>2 DEF OkFilled
  <2>   QED BY <1>1, <2>1, FilledStays
<1>3. CASE Execute(f)
  <2>1. wire'[f].msgs = wire[f].msgs
        BY <1>3 DEF Execute, TypeOK, TxTypeOK
  <2>2. status' = [i \in Id |-> IF \E x \in wire[f].msgs : x.id = i THEN "filled" ELSE status[i]]
        BY <1>3 DEF Execute, Fulfill
  <2>3. \E x \in wire[f].msgs : x.id = m.id
        BY <2>1
  <2>   QED BY <1>1, <2>2, <2>3
<1>   QED BY <1>2, <1>3, WireVerdict

\* Both are invariants.
LEMMA TxAlways == Spec => [](TxHeld /\ OkFilled)
<1>1. Init => TxHeld /\ OkFilled
      BY DEF Init, ProcessInit, TxHeld, OkFilled, NoTx, Processing, Place
<1>2. TypeOK /\ TypeOK' /\ TxHeld /\ OkFilled /\ [Next]_vars => TxHeld' /\ OkFilled'
      BY TxHeldKept, OkFilledKept
<1>   QED BY <1>1, <1>2, TypeCorrect, PTL DEF Spec

----------------------------------------------------------------------------
(* What moving and dropping orders does to the stages.                     *)

\* The invariants of this module's steps.
Sound == TypeOK /\ SingleFlight

\* An id whose flight stays where it is, with its result, keeps its stage.
LEMMA KeptStage ==
    ASSUME Sound, Sound', NEW id \in Id,
           \A p \in Place : \A o \in Obj : IdOf[o] = id => (o \in hold'[p] <=> o \in hold[p]),
           \A o \in InFlight : IdOf[o] = id => failedOrderHash'[o] = failedOrderHash[o]
    PROVE  Stages'[id] = Stages[id]
<1>1. \A p \in Place : hold[p] \subseteq Obj /\ hold'[p] \subseteq Obj
      BY DEF Sound, TypeOK, PipeTypeOK
<1>2. CASE \A p \in Place : \A o \in hold[p] : IdOf[o] # id
  <2>1. \A p \in Place : \A o \in hold'[p] : IdOf[o] # id
        BY <1>1, <1>2
  <2>   QED BY <1>2, <2>1, StageIdle, NextStages
<1>3. ASSUME NEW p \in Place, NEW o \in hold[p], IdOf[o] = id
      PROVE  Stages'[id] = Stages[id]
  <2>1. o \in Obj /\ o \in hold'[p]
        BY <1>1, <1>3
  <2>2. Stages[id] = StageOf[<<p, o>>]
        BY <1>3, StageOne DEF Sound
  <2>3. Stages'[id] = StageOf'[<<p, o>>]
        BY <1>3, <2>1, NextStages DEF Sound
  <2>4. failedOrderHash'[o] = failedOrderHash[o]
        BY <1>3 DEF InFlight
  <2>5. StageOf'[<<p, o>>] = StageOf[<<p, o>>]
        BY <2>1, <2>4 DEF StageOf
  <2>   QED BY <2>2, <2>3, <2>5
<1>   QED BY <1>2, <1>3

\* An order that moves takes the stage of its new place.
LEMMA MovedStage ==
    ASSUME Sound, Sound', NEW from \in Place, NEW to \in Place, from # to,
           NEW os \in SUBSET hold[from], Move(os, from, to),
           \A o \in InFlight \ os : failedOrderHash'[o] = failedOrderHash[o],
           NEW id \in Id
    PROVE  \/ Stages'[id] = Stages[id]
           \/ \E o \in os : /\ o \in Obj /\ IdOf[o] = id
                            /\ Stages[id] = StageOf[<<from, o>>]
                            /\ Stages'[id] = StageOf'[<<to, o>>]
<1>1. /\ hold'[from] = hold[from] \ os
      /\ hold'[to] = hold[to] \cup os
      /\ \A p \in Place : p # from /\ p # to => hold'[p] = hold[p]
      /\ os \subseteq Obj
      BY DEF Move, Sound, TypeOK, PipeTypeOK
<1>2. ASSUME NEW o \in os, IdOf[o] = id
      PROVE  /\ Stages[id] = StageOf[<<from, o>>]
             /\ Stages'[id] = StageOf'[<<to, o>>]
  <2>1. o \in hold[from] /\ o \in hold'[to]
        BY <1>1
  <2>   QED BY <1>2, <2>1, StageOne, NextStages DEF Sound
<1>3. CASE \A o \in os : IdOf[o] # id
  <2>1. \A p \in Place : \A o \in Obj : IdOf[o] = id => (o \in hold'[p] <=> o \in hold[p])
        BY <1>1, <1>3
  <2>2. \A o \in InFlight : IdOf[o] = id => failedOrderHash'[o] = failedOrderHash[o]
        BY <1>3
  <2>   QED BY <2>1, <2>2, KeptStage
<1>   QED BY <1>1, <1>2, <1>3

\* An order that is dropped leaves its id idle.
LEMMA DroppedStage ==
    ASSUME Sound, Sound', NEW from \in Place, NEW os \in SUBSET hold[from], Drop(os, from),
           \A o \in InFlight \ os : failedOrderHash'[o] = failedOrderHash[o],
           NEW id \in Id
    PROVE  \/ Stages'[id] = Stages[id] /\ \A o \in os : IdOf[o] # id
           \/ \E o \in os : /\ o \in Obj /\ IdOf[o] = id
                            /\ Stages[id] = StageOf[<<from, o>>]
                            /\ Stages'[id] = "idle"
<1>1. /\ hold'[from] = hold[from] \ os
      /\ \A p \in Place : p # from => hold'[p] = hold[p]
      /\ os \subseteq Obj
      BY DEF Drop, Sound, TypeOK, PipeTypeOK
<1>2. ASSUME NEW o \in os, IdOf[o] = id
      PROVE  Stages[id] = StageOf[<<from, o>>] /\ Stages'[id] = "idle"
  <2>1. \A p \in Place : \A x \in hold[p] : IdOf[x] = id => x = o /\ p = from
    <3>1. o \in InFlight /\ \A p \in Place : \A x \in hold[p] : x \in InFlight
          BY DEF InFlight
    <3>2. \A p \in Place : \A x \in hold[p] : IdOf[x] = id => x = o
          BY <1>2, <3>1 DEF Sound, SingleFlight, Claimed
    <3>3. \A p \in Place : o \in hold[p] => p = from
          BY DEF Sound, SingleFlight, Apart
    <3>   QED BY <3>2, <3>3
  <2>2. \A p \in Place : \A x \in hold'[p] : IdOf[x] # id
        BY <1>1, <2>1
  <2>   QED BY <1>2, <2>2, StageOne, NextStages DEF Sound
<1>3. CASE \A o \in os : IdOf[o] # id
  <2>1. \A p \in Place : \A o \in Obj : IdOf[o] = id => (o \in hold'[p] <=> o \in hold[p])
        BY <1>1, <1>3
  <2>2. \A o \in InFlight : IdOf[o] = id => failedOrderHash'[o] = failedOrderHash[o]
        BY <1>3
  <2>3. Stages'[id] = Stages[id]
        BY <2>1, <2>2, KeptStage
  <2>   QED BY <1>3, <2>3
<1>   QED BY <1>1, <1>2, <1>3

----------------------------------------------------------------------------
(* The edges each step takes.                                              *)

\* An id takes an edge of OrderLife.
Taken(id) == Life!Edge(id, Stages[id], Stages'[id])

\* The edges, in terms of the pool.
LEMMA EdgesOf ==
    ASSUME NEW id \in Id,
           \/ /\ pool'[id] = Nil <=> pool[id] = Nil
              /\ \/ Stages'[id] = Stages[id]
                 \/ Stages[id] = "checking" /\ Stages'[id] = "approved" /\ id \in proven \cup Unreadable
                 \/ Stages[id] = "approved" /\ Stages'[id] = "sent"
                 \/ Stages[id] = "sent" /\ Stages'[id] = "succeeded" /\ status[id] = "filled"
                 \/ Stages[id] = "sent" /\ Stages'[id] = "failed"
                 \/ Stages[id] \in {"checking", "approved", "sent"} /\ Stages'[id] = "idle"
           \/ /\ pool'[id] # Nil /\ Stages[id] = "idle"
              /\ Stages'[id] = "idle" \/ (pool[id] # Nil /\ Stages'[id] = "checking")
           \/ /\ pool'[id] = Nil /\ Stages'[id] = "idle"
              /\ Stages[id] \in {"checking", "succeeded", "failed"}
    PROVE  Taken(id)
BY DEF Taken, Life!Edge, Life!Stays, Life!Rest, Life!Track, Life!Claim, Life!Approve, Life!Send,
       Life!Succeed, Life!Fail, Life!GiveBack, Life!Evict, Life!Book

\* OrderLife moves when every id takes an edge.
LEMMA AllTaken == (\A id \in Id : Taken(id)) => Life!Live
BY DEF Taken, Life!Live

\* A step that moves no order and removes no entry.
LEMMA QuietEdges ==
    ASSUME Sound, Sound', UNCHANGED hold,
           \A o \in InFlight : failedOrderHash'[o] = failedOrderHash[o],
           \A id \in Id : pool[id] # Nil => pool'[id] # Nil
    PROVE  \A id \in Id : Taken(id)
<1>  SUFFICES ASSUME NEW id \in Id PROVE Taken(id)
     OBVIOUS
<1>1. Stages'[id] = Stages[id]
      BY KeptStage
<1>2. CASE pool'[id] = Nil <=> pool[id] = Nil
      BY <1>1, <1>2, EdgesOf
<1>3. CASE pool[id] = Nil /\ pool'[id] # Nil
  <2>1. ASSUME NEW p \in Place, NEW o \in hold[p], IdOf[o] = id
        PROVE  FALSE
    <3>1. o \in InFlight
          BY DEF InFlight
    <3>2. o \in Obj /\ pool[id] = o
          BY <2>1, <3>1, ClaimGuards DEF Sound, SingleFlight
    <3>   QED BY <1>3, <3>2, PoolAssumption
  <2>2. Stages[id] = "idle"
        BY <2>1, StageIdle
  <2>   QED BY <1>1, <1>3, <2>2, EdgesOf
<1>   QED BY <1>2, <1>3

\* Orders that go on to a place of the same stage.
LEMMA PassedOn ==
    ASSUME Sound, Sound', NEW from \in Place, NEW to \in Place, from # to,
           NEW os \in SUBSET hold[from], Move(os, from, to),
           UNCHANGED <<pool, failedOrderHash>>,
           \A o \in Obj : StageOf'[<<to, o>>] = StageOf[<<from, o>>]
    PROVE  \A id \in Id : Taken(id)
<1>  SUFFICES ASSUME NEW id \in Id PROVE Taken(id)
     OBVIOUS
<1>1. \A o \in InFlight \ os : failedOrderHash'[o] = failedOrderHash[o]
      OBVIOUS
<1>2. \/ Stages'[id] = Stages[id]
      \/ \E o \in os : /\ o \in Obj
                       /\ Stages[id] = StageOf[<<from, o>>]
                       /\ Stages'[id] = StageOf'[<<to, o>>]
      BY <1>1, MovedStage
<1>3. Stages'[id] = Stages[id]
      BY <1>2
<1>   QED BY <1>3, EdgesOf

\* The sources track ids, and touch no flight.
LEMMA SourceEdges ==
    ASSUME Sound, Sound', NEW s \in Source, SourceStep(s)
    PROVE  \A id \in Id : Taken(id)
<1>1. UNCHANGED hold
      BY SourceQuiet DEF pipeVars
<1>2. \A o \in InFlight : failedOrderHash'[o] = failedOrderHash[o]
  <2>1. ASSUME NEW m \in inbox[s], NEW x \in Obj, LookupNew(s, m, x), NEW o \in InFlight
        PROVE  failedOrderHash'[o] = failedOrderHash[o]
    <3>1. x \notin InFlight /\ failedOrderHash' = [failedOrderHash EXCEPT ![x] = 0]
          BY <2>1 DEF LookupNew, Unreferenced
    <3>   QED BY <3>1 DEF Sound, TypeOK, OrderTypeOK
  <2>2. CASE UNCHANGED failedOrderHash
        BY <2>2
  <2>   QED BY <2>1, <2>2 DEF SourceStep, LookupPooled, Update, Refuse, Admit, NoProvider,
                NoteMiss, TrackOrders, orderVars
<1>3. \A id \in Id : pool[id] # Nil => pool'[id] # Nil
  <2>1. ASSUME NEW os \in SUBSET Obj, upsertOrder(os), NEW id \in Id, pool[id] # Nil
        PROVE  pool'[id] # Nil
        BY <2>1, InListType, PoolAssumption DEF upsertOrder
  <2>2. CASE Update(s)
    <3>1. {task[s].order} \in SUBSET Obj
          BY <2>2 DEF Update, Sound, TypeOK, SourceTypeOK, Task
    <3>   QED BY <2>1, <2>2, <3>1 DEF Update
  <2>3. CASE TrackOrders(s)
    <3>1. fresh[s] \in SUBSET Obj
          BY DEF Sound, TypeOK, SourceTypeOK
    <3>   QED BY <2>1, <2>3, <3>1 DEF TrackOrders
  <2>4. CASE UNCHANGED pool
        BY <2>4
  <2>   QED BY <2>2, <2>3, <2>4 DEF SourceStep, LookupPooled, LookupNew, Refuse, Admit,
                NoProvider, NoteMiss, poolVars
<1>   QED BY <1>1, <1>2, <1>3, QuietEdges

\* popOrders claims orders of ids that have no flight.
LEMMA CheckerEdges ==
    ASSUME Sound, Sound', NEW c \in Checker, CheckerStep(c)
    PROVE  \A id \in Id : Taken(id)
<1>0. Popped(c) \in Place /\ UNCHANGED <<pool, failedOrderHash>>
      BY PlaceMembers DEF CheckerStep, PopOrders, SendToCheck, poolVars, orderVars
<1>1. ASSUME PopOrders(c), NEW id \in Id PROVE Taken(id)
  <2>1. PICK pop \in popOrders(PopLimit) : hold' = [hold EXCEPT ![Popped(c)] = pop.orders]
        BY <1>1 DEF PopOrders
  <2>2. \A o \in pop.orders : o \in Obj /\ pool[IdOf[o]] = o /\ ~Flagged(o)
        BY <2>1, PopType DEF Sound, TypeOK
  <2>3. hold[Popped(c)] = {}
        BY <1>1 DEF PopOrders
  <2>4. /\ hold'[Popped(c)] = pop.orders
        /\ \A p \in Place : p # Popped(c) => hold'[p] = hold[p]
        BY <1>0, <2>1 DEF Sound, TypeOK, PipeTypeOK
  <2>5. CASE \A o \in pop.orders : IdOf[o] # id
    <3>1. \A p \in Place : \A o \in Obj : IdOf[o] = id => (o \in hold'[p] <=> o \in hold[p])
          BY <2>3, <2>4, <2>5
    <3>2. Stages'[id] = Stages[id]
          BY <1>0, <3>1, KeptStage
    <3>   QED BY <1>0, <3>2, EdgesOf
  <2>6. ASSUME NEW o \in pop.orders, IdOf[o] = id
        PROVE  Taken(id)
    <3>1. \A p \in Place : \A x \in hold[p] : IdOf[x] # id
      <4>1. \A p \in Place : \A x \in hold[p] : x \in InFlight
            BY DEF InFlight
      <4>2. \A x \in InFlight : IdOf[x] = id => pool[id] = x /\ Flagged(x)
            BY DEF Sound, SingleFlight, Claimed, Flagged
      <4>   QED BY <2>2, <2>6, <4>1, <4>2
    <3>2. Stages[id] = "idle"
          BY <3>1, StageIdle
    <3>3. Stages'[id] = StageOf'[<<Popped(c), o>>]
          BY <1>0, <2>4, <2>6, NextStages DEF Sound
    <3>4. StageOf'[<<Popped(c), o>>] = "checking"
          BY <2>2, NextPlacesHaveStages DEF PlaceStages, Outcome
    <3>5. pool[id] # Nil
          BY <2>2, <2>6, PoolAssumption
    <3>   QED BY <1>0, <3>2, <3>3, <3>4, <3>5, EdgesOf
  <2>   QED BY <2>5, <2>6
<1>2. ASSUME NEW k \in ToCheckSlot, SendToCheck(c, k)
      PROVE  \A id \in Id : Taken(id)
  <2>1. \A o \in Obj : StageOf'[<<ToCheck(k), o>>] = StageOf[<<Popped(c), o>>]
        BY PlacesHaveStages, NextPlacesHaveStages DEF PlaceStages, Outcome
  <2>2. Move(hold[Popped(c)], Popped(c), ToCheck(k)) /\ Popped(c) # ToCheck(k)
        BY <1>2, PlacesDiffer DEF SendToCheck
  <2>   QED BY <1>0, <2>1, <2>2, PlaceMembers, PassedOn
<1>   QED BY <1>1, <1>2 DEF CheckerStep

\* Orders that are dropped from a place and stay pooled.
LEMMA GivenBack ==
    ASSUME Sound, Sound', NEW from \in Place, NEW os \in SUBSET hold[from], Drop(os, from),
           UNCHANGED <<pool, failedOrderHash>>,
           \A o \in Obj : StageOf[<<from, o>>] \in {"checking", "approved", "sent"}
    PROVE  \A id \in Id : Taken(id)
<1>  SUFFICES ASSUME NEW id \in Id PROVE Taken(id)
     OBVIOUS
<1>1. \A o \in InFlight \ os : failedOrderHash'[o] = failedOrderHash[o]
      OBVIOUS
<1>2. \/ Stages'[id] = Stages[id]
      \/ \E o \in os : /\ o \in Obj
                       /\ Stages[id] = StageOf[<<from, o>>]
                       /\ Stages'[id] = "idle"
      BY <1>1, DroppedStage
<1>3. \/ Stages'[id] = Stages[id]
      \/ Stages[id] \in {"checking", "approved", "sent"} /\ Stages'[id] = "idle"
      BY <1>2
<1>   QED BY <1>3, EdgesOf

\* An order that is dropped from a place, and its entry with it.
LEMMA TakenOut ==
    ASSUME Sound, Sound', NEW from \in Place, NEW o \in hold[from], Drop({o}, from),
           removeOrder(IdOf[o]), UNCHANGED failedOrderHash,
           StageOf[<<from, o>>] \in {"checking", "succeeded", "failed"}
    PROVE  \A id \in Id : Taken(id)
<1>  SUFFICES ASSUME NEW id \in Id PROVE Taken(id)
     OBVIOUS
<1>1. /\ \A x \in InFlight \ {o} : failedOrderHash'[x] = failedOrderHash[x]
      /\ {o} \in SUBSET hold[from]
      OBVIOUS
<1>a. \/ Stages'[id] = Stages[id] /\ \A x \in {o} : IdOf[x] # id
      \/ \E x \in {o} : /\ x \in Obj /\ IdOf[x] = id
                        /\ Stages[id] = StageOf[<<from, x>>]
                        /\ Stages'[id] = "idle"
      BY <1>1, DroppedStage
<1>2. \/ Stages'[id] = Stages[id] /\ IdOf[o] # id
      \/ IdOf[o] = id /\ Stages[id] = StageOf[<<from, o>>] /\ Stages'[id] = "idle"
      BY <1>a
<1>3. pool'[id] = IF id = IdOf[o] THEN Nil ELSE pool[id]
      BY DEF removeOrder, Sound, TypeOK, PoolTypeOK
<1>4. CASE Stages'[id] = Stages[id] /\ IdOf[o] # id
      BY <1>3, <1>4, EdgesOf
<1>5. CASE IdOf[o] = id /\ Stages[id] = StageOf[<<from, o>>] /\ Stages'[id] = "idle"
  <2>1. pool'[id] = Nil /\ Stages[id] \in {"checking", "succeeded", "failed"}
        BY <1>3, <1>5
  <2>   QED BY <1>5, <2>1, EdgesOf
<1>   QED BY <1>2, <1>4, <1>5

\* The validator approves, evicts and gives back.
LEMMA ValidatorEdges ==
    ASSUME Sound, Sound', ProvenInv, ValidatorStep
    PROVE  \A id \in Id : Taken(id)
<1>0. /\ ToValidate \in Place /\ ValidOrders \in Place /\ ToValidate # ValidOrders
      /\ UNCHANGED failedOrderHash
      BY PlaceMembers, PlacesDiffer DEF ValidatorStep, ReceiveToCheck, NodeError, FoundValid,
         GiveUp, NotValidYet, ReleaseEvicted, SendValid, AddRetried, orderVars
<1>a. \A o \in Obj : /\ StageOf[<<ToValidate, o>>] = "checking"
                     /\ StageOf'[<<ValidOrders, o>>] = "approved"
      BY PlacesHaveStages, NextPlacesHaveStages DEF PlaceStages, Outcome
<1>1. ASSUME NEW k \in ToCheckSlot, ReceiveToCheck(k)
      PROVE  \A id \in Id : Taken(id)
  <2>1. \A o \in Obj : StageOf'[<<ToValidate, o>>] = StageOf[<<ToCheck(k), o>>]
        BY PlacesHaveStages, NextPlacesHaveStages DEF PlaceStages, Outcome
  <2>2. /\ Move(hold[ToCheck(k)], ToCheck(k), ToValidate) /\ UNCHANGED pool
        /\ ToCheck(k) # ToValidate /\ ToCheck(k) \in Place
        BY <1>1, PlaceMembers, PlacesDiffer DEF ReceiveToCheck, poolVars
  <2>   QED BY <1>0, <2>1, <2>2, PassedOn
<1>2. ASSUME NEW o \in Obj, NodeError(o) \/ NotValidYet(o)
      PROVE  \A id \in Id : Taken(id)
  <2>1. {o} \in SUBSET hold[ToValidate] /\ Drop({o}, ToValidate) /\ UNCHANGED pool
        BY <1>2 DEF NodeError, NotValidYet, Validating, poolVars
  <2>   QED BY <1>0, <1>a, <2>1, GivenBack
<1>3. ASSUME NEW o \in Obj, FoundValid(o), NEW id \in Id
      PROVE  Taken(id)
  <2>1. /\ {o} \in SUBSET hold[ToValidate] /\ Move({o}, ToValidate, ValidOrders)
        /\ UNCHANGED pool
        BY <1>3 DEF FoundValid, Validating
  <2>2. IdOf[o] \in proven \cup Unreadable
        BY <1>3, FoundVouched DEF Sound, ProvenInv, Vouched, HeightUnread
  <2>3. \A x \in InFlight \ {o} : failedOrderHash'[x] = failedOrderHash[x]
        BY <1>0
  <2>4. \/ Stages'[id] = Stages[id]
        \/ \E x \in {o} : /\ x \in Obj /\ IdOf[x] = id
                          /\ Stages[id] = StageOf[<<ToValidate, x>>]
                          /\ Stages'[id] = StageOf'[<<ValidOrders, x>>]
        BY <1>0, <2>1, <2>3, MovedStage
  <2>5. \/ Stages'[id] = Stages[id]
        \/ Stages[id] = "checking" /\ Stages'[id] = "approved" /\ id \in proven \cup Unreadable
        BY <1>a, <2>1, <2>4, <2>2
  <2>   QED BY <2>1, <2>5, EdgesOf
<1>4. ASSUME NEW o \in Obj, GiveUp(o)
      PROVE  \A id \in Id : Taken(id)
  <2>1. o \in hold[ToValidate] /\ Drop({o}, ToValidate) /\ removeOrder(IdOf[o])
        BY <1>4 DEF GiveUp, Evict, Validating
  <2>   QED BY <1>0, <1>a, <2>1, TakenOut
<1>5. CASE ReleaseEvicted
      BY <1>0, <1>5, QuietEdges DEF ReleaseEvicted, poolVars
<1>6. ASSUME NEW k \in OutputSlot, SendValid(k)
      PROVE  \A id \in Id : Taken(id)
  <2>1. \A o \in Obj : StageOf'[<<Output(k), o>>] = StageOf[<<ValidOrders, o>>]
        BY PlacesHaveStages, NextPlacesHaveStages DEF PlaceStages, Outcome
  <2>2. PICK chunk \in SUBSET hold[ValidOrders] : Move(chunk, ValidOrders, Output(k))
        BY <1>6 DEF SendValid, Chunks
  <2>3. ValidOrders # Output(k) /\ Output(k) \in Place /\ UNCHANGED pool
        BY <1>6, PlaceMembers, PlacesDiffer DEF SendValid, poolVars
  <2>   QED BY <1>0, <2>1, <2>2, <2>3, PassedOn
<1>7. CASE AddRetried
  <2>1. UNCHANGED hold /\ retry \in SUBSET Obj /\ addOrder(retry)
        BY <1>7 DEF AddRetried, Sound, TypeOK, PipeTypeOK
  <2>2. \A id \in Id : pool[id] # Nil => pool'[id] # Nil
        BY <2>1 DEF addOrder
  <2>   QED BY <1>0, <2>1, <2>2, QuietEdges
<1>   QED BY <1>1, <1>2, <1>3, <1>4, <1>5, <1>6, <1>7 DEF ValidatorStep

\* The manager books results and removes their entries.
LEMMA ManagerEdges ==
    ASSUME Sound, Sound', ManagerStep
    PROVE  \A id \in Id : Taken(id)
<1>1. PICK k \in ProcessedSlot, o \in Obj : ManageProcessed(k, o)
      BY DEF ManagerStep
<1>2. /\ Processed(k) \in Place /\ o \in hold[Processed(k)] /\ Drop({o}, Processed(k))
      /\ removeOrder(IdOf[o]) /\ UNCHANGED failedOrderHash
      BY <1>1, PlaceMembers DEF ManageProcessed, orderVars
<1>3. StageOf[<<Processed(k), o>>] \in {"checking", "succeeded", "failed"}
      BY PlacesHaveStages DEF PlaceStages, Outcome
<1>   QED BY <1>2, <1>3, TakenOut

\* The id of an order whose way has ended is idle.
LEMMA EndedStage ==
    ASSUME Sound, NEW o \in InFlight, o \notin InFlight', InFlight' \subseteq InFlight
    PROVE  Stages'[IdOf[o]] = "idle"
<1>1. \A x \in InFlight : IdOf[x] = IdOf[o] => x = o
      BY DEF Sound, SingleFlight, Claimed
<1>2. \A p \in Place : \A x \in hold'[p] : x \in InFlight'
      BY DEF InFlight
<1>3. IdOf[o] \in Id
      BY ClaimGuards, PoolAssumption DEF Sound, SingleFlight
<1>   QED BY <1>1, <1>2, <1>3, NextStages

\* A transaction that comes to nothing ends the way of the orders of the
\* batch, but for failed results of the ones it was about.
LEMMA AbortEdges ==
    ASSUME Sound, Sound', NEW f \in Fulfiller, UNCHANGED pool,
           \A p \in Place \ {Batch(f), InTx(f), Failures(f)} : hold'[p] = hold[p],
           hold'[Batch(f)] = {}, hold'[InTx(f)] = {},
           \/ hold'[Failures(f)] = hold[Failures(f)]
           \/ hold[Failures(f)] = {} /\ hold'[Failures(f)] = hold[InTx(f)],
           \A o \in InFlight \ hold[InTx(f)] : failedOrderHash'[o] = failedOrderHash[o],
           \A o \in hold'[Failures(f)] \cap hold[InTx(f)] : failedOrderHash'[o] # 0
    PROVE  \A id \in Id : Taken(id)
<1>  SUFFICES ASSUME NEW id \in Id PROVE Taken(id)
     OBVIOUS
<1>a. /\ Batch(f) \in Place /\ InTx(f) \in Place /\ Failures(f) \in Place
      /\ Batch(f) # InTx(f) /\ Batch(f) # Failures(f) /\ InTx(f) # Failures(f)
      /\ \A p \in Place : hold[p] \subseteq Obj /\ hold'[p] \subseteq Obj
      BY PlaceMembers, PlacesDiffer DEF Sound, TypeOK, PipeTypeOK
<1>b. /\ \A p \in Place : \A o \in hold[p] : o \in InFlight
      /\ \A p \in Place : \A o \in hold'[p] : o \in InFlight'
      /\ \A o \in InFlight' : \E p \in Place : o \in hold'[p]
      BY DEF InFlight
<1>c. InFlight' \subseteq InFlight
      BY <1>a, <1>b
<1>d. \A o \in Obj : StageOf[<<Batch(f), o>>] = "approved" /\ StageOf[<<InTx(f), o>>] = "sent"
      BY PlacesHaveStages DEF PlaceStages
<1>e. \A o \in Obj : failedOrderHash'[o] # 0 => StageOf'[<<Failures(f), o>>] = "failed"
  <2>1. \A o \in Obj : StageOf'[<<Failures(f), o>>] = Outcome(o)'
        BY NextPlacesHaveStages DEF PlaceStages
  <2>   QED BY <2>1 DEF Outcome
<1>1. ASSUME NEW o \in hold[InTx(f)], IdOf[o] = id, o \in hold'[Failures(f)]
      PROVE  Taken(id)
  <2>1. Stages[id] = StageOf[<<InTx(f), o>>] /\ Stages'[id] = StageOf'[<<Failures(f), o>>]
        BY <1>a, <1>1, StageOne, NextStages DEF Sound
  <2>2. o \in Obj /\ failedOrderHash'[o] # 0
        BY <1>a, <1>1
  <2>3. Stages[id] = "sent" /\ Stages'[id] = "failed"
        BY <1>d, <1>e, <2>1, <2>2
  <2>   QED BY <2>3, EdgesOf
<1>2. ASSUME NEW p \in {Batch(f), InTx(f)}, NEW o \in hold[p], IdOf[o] = id,
             o \notin hold'[Failures(f)]
      PROVE  Taken(id)
  <2>1. \A q \in Place : o \in hold[q] => q = p
        BY <1>2, <1>a DEF Sound, SingleFlight, Apart
  <2>2. o \notin InFlight'
        BY <1>2, <1>a, <1>b, <2>1
  <2>3. Stages'[id] = "idle"
        BY <1>2, <1>a, <1>b, <1>c, <2>2, EndedStage
  <2>4. Stages[id] = StageOf[<<p, o>>]
        BY <1>2, <1>a, StageOne DEF Sound
  <2>5. Stages[id] \in {"approved", "sent"}
    <3>1. o \in Obj
          BY <1>2, <1>a
    <3>2. CASE p = Batch(f)
          BY <1>d, <2>4, <3>1, <3>2
    <3>3. CASE p = InTx(f)
          BY <1>d, <2>4, <3>1, <3>3
    <3>   QED BY <1>2, <3>2, <3>3
  <2>   QED BY <2>3, <2>5, EdgesOf
<1>3. ASSUME NEW o \in hold[Batch(f)], IdOf[o] = id, o \in hold'[Failures(f)]
      PROVE  FALSE
      BY <1>3, <1>a DEF Sound, SingleFlight, Apart
<1>4. CASE \A p \in {Batch(f), InTx(f)} : \A o \in hold[p] : IdOf[o] # id
  <2>1. \A p \in Place : \A o \in Obj : IdOf[o] = id => (o \in hold'[p] <=> o \in hold[p])
        BY <1>4, <1>a
  <2>2. \A o \in InFlight : IdOf[o] = id => failedOrderHash'[o] = failedOrderHash[o]
        BY <1>4
  <2>3. Stages'[id] = Stages[id]
        BY <2>1, <2>2, KeptStage
  <2>   QED BY <2>3, EdgesOf
<1>   QED BY <1>1, <1>2, <1>3, <1>4

\* The fulfillers send, succeed on what the hub has filled, fail and give back.
LEMMA FulfillerEdges ==
    ASSUME Sound, Sound', TxHeld, OkFilled, NEW f \in Fulfiller, FulfillerStep(f)
    PROVE  \A id \in Id : Taken(id)
<1>0. /\ Batch(f) \in Place /\ InTx(f) \in Place /\ Failures(f) \in Place
      /\ Successes(f) \in Place /\ UNCHANGED pool
      /\ Batch(f) # InTx(f) /\ Batch(f) # Failures(f) /\ InTx(f) # Failures(f)
      /\ InTx(f) # Successes(f)
      BY PlaceMembers, PlacesDiffer DEF FulfillerStep, ReceiveBatch, Submit, Succeed, Fail,
         RPCError, SendSuccesses, SendFailures, poolVars
<1>1. ASSUME NEW k \in OutputSlot, ReceiveBatch(f, k)
      PROVE  \A id \in Id : Taken(id)
  <2>1. ASSUME NEW o \in Obj
        PROVE  StageOf'[<<Batch(f), o>>] = StageOf[<<Output(k), o>>]
    <3>1. StageOf[<<Output(k), o>>] = "approved"
          BY PlacesHaveStages DEF PlaceStages
    <3>2. StageOf'[<<Batch(f), o>>] = "approved"
          BY NextPlacesHaveStages DEF PlaceStages
    <3>   QED BY <3>1, <3>2
  <2>2. /\ Move(hold[Output(k)], Output(k), Batch(f)) /\ UNCHANGED failedOrderHash
        /\ Output(k) # Batch(f) /\ Output(k) \in Place
        BY <1>1, PlaceMembers, PlacesDiffer DEF ReceiveBatch, orderVars
  <2>   QED BY <1>0, <2>1, <2>2, PassedOn
<1>2. ASSUME Submit(f), NEW id \in Id PROVE Taken(id)
  <2>1. PICK chunk \in SUBSET hold[Batch(f)] : Move(chunk, Batch(f), InTx(f))
        BY <1>2 DEF Submit, Chunks
  <2>2. \A o \in InFlight \ chunk : failedOrderHash'[o] = failedOrderHash[o]
        BY <1>2 DEF Submit, orderVars
  <2>3. \/ Stages'[id] = Stages[id]
        \/ \E o \in chunk : /\ o \in Obj /\ IdOf[o] = id
                            /\ Stages[id] = StageOf[<<Batch(f), o>>]
                            /\ Stages'[id] = StageOf'[<<InTx(f), o>>]
        BY <1>0, <2>1, <2>2, MovedStage
  <2>4. \/ Stages'[id] = Stages[id]
        \/ Stages[id] = "approved" /\ Stages'[id] = "sent"
        BY <2>3, PlacesHaveStages, NextPlacesHaveStages DEF PlaceStages, Outcome
  <2>   QED BY <1>0, <2>4, EdgesOf
<1>3. ASSUME Succeed(f), NEW id \in Id PROVE Taken(id)
  <2>0. PICK os \in SUBSET hold[InTx(f)] : os = hold[InTx(f)]
        OBVIOUS
  <2>1. /\ Move(os, InTx(f), Successes(f)) /\ wire[f].state = "ok"
        /\ failedOrderHash' = [o \in Obj |-> IF o \in os THEN 0 ELSE failedOrderHash[o]]
        BY <1>3, <2>0 DEF Succeed
  <2>2. \A o \in InFlight : o \in Obj
        BY DEF InFlight, Sound, TypeOK, PipeTypeOK
  <2>3. \A o \in InFlight \ os : failedOrderHash'[o] = failedOrderHash[o]
        BY <2>1, <2>2
  <2>5. \/ Stages'[id] = Stages[id]
        \/ \E o \in os : /\ o \in Obj /\ IdOf[o] = id
                         /\ Stages[id] = StageOf[<<InTx(f), o>>]
                         /\ Stages'[id] = StageOf'[<<Successes(f), o>>]
    <3>1. /\ InTx(f) \in Place /\ Successes(f) \in Place /\ InTx(f) # Successes(f)
          /\ Move(os, InTx(f), Successes(f))
          BY <1>0, <2>1
    <3>   QED BY <2>3, <3>1, MovedStage
  <2>6. ASSUME NEW o \in os, o \in Obj, IdOf[o] = id,
               Stages[id] = StageOf[<<InTx(f), o>>],
               Stages'[id] = StageOf'[<<Successes(f), o>>]
        PROVE  Taken(id)
    <3>1. id \in TxIds(f)
          BY <2>0, <2>1, <2>6 DEF TxHeld
    <3>2. status[id] = "filled"
          BY <2>1, <3>1 DEF OkFilled, TxIds
    <3>3. Stages[id] = "sent"
          BY <2>6, PlacesHaveStages DEF PlaceStages, Outcome
    <3>4. failedOrderHash'[o] = 0
          BY <2>1, <2>6
    <3>5. Stages'[id] = "succeeded"
          BY <2>6, <3>4, NextPlacesHaveStages DEF PlaceStages, Outcome
    <3>   QED BY <1>0, <3>2, <3>3, <3>5, EdgesOf
  <2>7. CASE Stages'[id] = Stages[id]
        BY <1>0, <2>7, EdgesOf
  <2>   QED BY <2>5, <2>6, <2>7
<1>4. CASE Fail(f)
  <2>1. wire[f].state # "none"
        BY <1>4 DEF Fail, TimedOut
  <2>2. hold[Failures(f)] = {}
        BY <2>1 DEF TxHeld, Processing
  <2>3. /\ hold'[Batch(f)] = {} /\ hold'[InTx(f)] = {} /\ hold'[Failures(f)] = hold[InTx(f)]
        /\ \A p \in Place \ {Batch(f), InTx(f), Failures(f)} : hold'[p] = hold[p]
        BY <1>0, <1>4 DEF Fail, Sound, TypeOK, PipeTypeOK
  <2>4. \A o \in Obj : /\ o \in hold[InTx(f)] => failedOrderHash'[o] = terms[o]
                       /\ o \notin hold[InTx(f)] => failedOrderHash'[o] = failedOrderHash[o]
                       /\ terms[o] # 0
        BY <1>4 DEF Fail, Sound, TypeOK, OrderTypeOK, Terms
  <2>5. InFlight \subseteq Obj /\ hold[InTx(f)] \subseteq Obj
        BY <1>0 DEF InFlight, Sound, TypeOK, PipeTypeOK
  <2>6. /\ \A o \in InFlight \ hold[InTx(f)] : failedOrderHash'[o] = failedOrderHash[o]
        /\ \A o \in hold'[Failures(f)] \cap hold[InTx(f)] : failedOrderHash'[o] # 0
        BY <2>4, <2>5
  <2>   QED BY <1>0, <2>2, <2>3, <2>6, AbortEdges
<1>5. CASE RPCError(f)
  <2>1. /\ hold'[Batch(f)] = {} /\ hold'[InTx(f)] = {} /\ hold'[Failures(f)] = hold[Failures(f)]
        /\ \A p \in Place \ {Batch(f), InTx(f), Failures(f)} : hold'[p] = hold[p]
        /\ UNCHANGED failedOrderHash
        BY <1>0, <1>5 DEF RPCError, Sound, TypeOK, PipeTypeOK, orderVars
  <2>2. hold'[Failures(f)] \cap hold[InTx(f)] = {}
        BY <1>0, <2>1 DEF Sound, SingleFlight, Apart
  <2>   QED BY <1>0, <2>1, <2>2, AbortEdges
<1>6. ASSUME NEW k \in ProcessedSlot, SendSuccesses(f, k)
      PROVE  \A id \in Id : Taken(id)
  <2>1. /\ Move(hold[Successes(f)], Successes(f), Processed(k)) /\ UNCHANGED failedOrderHash
        /\ Successes(f) # Processed(k) /\ Processed(k) \in Place
        BY <1>6, PlaceMembers, PlacesDiffer DEF SendSuccesses, orderVars
  <2>2. ASSUME NEW o \in Obj
        PROVE  StageOf'[<<Processed(k), o>>] = StageOf[<<Successes(f), o>>]
    <3>1. StageOf[<<Successes(f), o>>] = Outcome(o)
          BY PlacesHaveStages DEF PlaceStages
    <3>2. StageOf'[<<Processed(k), o>>] = Outcome(o)'
          BY NextPlacesHaveStages DEF PlaceStages
    <3>   QED BY <2>1, <3>1, <3>2 DEF Outcome
  <2>   QED BY <1>0, <2>1, <2>2, PassedOn
<1>7. ASSUME NEW k \in ProcessedSlot, SendFailures(f, k)
      PROVE  \A id \in Id : Taken(id)
  <2>1. /\ Move(hold[Failures(f)], Failures(f), Processed(k)) /\ UNCHANGED failedOrderHash
        /\ Failures(f) # Processed(k) /\ Processed(k) \in Place
        BY <1>7, PlaceMembers, PlacesDiffer DEF SendFailures, orderVars
  <2>2. ASSUME NEW o \in Obj
        PROVE  StageOf'[<<Processed(k), o>>] = StageOf[<<Failures(f), o>>]
    <3>1. StageOf[<<Failures(f), o>>] = Outcome(o)
          BY PlacesHaveStages DEF PlaceStages
    <3>2. StageOf'[<<Processed(k), o>>] = Outcome(o)'
          BY NextPlacesHaveStages DEF PlaceStages
    <3>   QED BY <2>1, <3>1, <3>2 DEF Outcome
  <2>   QED BY <1>0, <2>1, <2>2, PassedOn
<1>   QED BY <1>1, <1>2, <1>3, <1>4, <1>5, <1>6, <1>7 DEF FulfillerStep

----------------------------------------------------------------------------
(* OrderFlow implements OrderLife.                                         *)

\* The end of the process forgets every flight.
LEMMA DieForgets == Die => Life!Forget
<1>  SUFFICES ASSUME Die PROVE Life!Forget
     OBVIOUS
<1>1. {id \in Id : pool[id] # Nil}' = {}
      BY DEF Die
<1>2. \A id \in Id : Stages'[id] = "idle"
  <2>1. \A p \in Place : hold'[p] = {}
        BY DEF Die
  <2>   QED BY <2>1, NextStages
<1>3. Stages' = [id \in Id |-> "idle"]
      BY <1>2 DEF Stages
<1>   QED BY <1>1, <1>3 DEF Life!Forget

\* The hub, a restart and the timers move no order.
LEMMA OtherEdges ==
    ASSUME Sound, Sound',
           \/ Poll \/ ReloadLPs \/ RefreshBalances \/ \E o \in Obj : DeadlinePasses(o)
           \/ Restart \/ Hub \/ UNCHANGED vars
    PROVE  \A id \in Id : Taken(id)
<1>1. UNCHANGED <<pool, hold, failedOrderHash>>
  <2>1. CASE Hub
        BY <2>1 DEF Hub, OrderCreated, FeeUpdated, BlockProven, Gone, Execute, Reject,
           Settle, Transfer, GrantOrRevoke, poolVars, orderVars, pipeVars
  <2>2. CASE Poll \/ ReloadLPs \/ RefreshBalances \/ \E o \in Obj : DeadlinePasses(o)
        BY <2>2 DEF Poll, ReloadLPs, RefreshBalances, DeadlinePasses, poolVars, orderVars, pipeVars
  <2>3. CASE Restart \/ UNCHANGED vars
        BY <2>3 DEF Restart, vars, poolVars, orderVars, pipeVars
  <2>   QED BY <2>1, <2>2, <2>3
<1>   QED BY <1>1, QuietEdges

\* Every step of the specification.
LEMMA NextEdges ==
    ASSUME Sound, Sound', ProvenInv, TxHeld, OkFilled, [Next]_vars
    PROVE  Life!Live \/ Life!Forget
<1>1. CASE Die
      BY <1>1, DieForgets
<1>2. CASE \/ Poll \/ ReloadLPs \/ RefreshBalances \/ \E o \in Obj : DeadlinePasses(o)
           \/ Restart \/ Hub \/ UNCHANGED vars
      BY <1>2, OtherEdges, AllTaken
<1>3. CASE \E s \in Source : SourceStep(s)
      BY <1>3, SourceEdges, AllTaken
<1>4. CASE \E c \in Checker : CheckerStep(c)
      BY <1>4, CheckerEdges, AllTaken
<1>5. CASE ValidatorStep
      BY <1>5, ValidatorEdges, AllTaken
<1>6. CASE \E f \in Fulfiller : FulfillerStep(f)
      BY <1>6, FulfillerEdges, AllTaken
<1>7. CASE ManagerStep
      BY <1>7, ManagerEdges, AllTaken
<1>8. CASE Panic \/ Crash \/ \E f \in Fulfiller : Fatal(f)
      BY <1>1, <1>8 DEF Panic, Crash, Fatal
<1>   QED BY <1>2, <1>3, <1>4, <1>5, <1>6, <1>7, <1>8 DEF Next, Client

\* What has been submitted was vouched for, also what nobody waits for any more.
SentVouched == \A msgs \in Messages : \A m \in msgs : m.id \in proven \cup Unreadable

LEMMA SentVouchedKept ==
    ASSUME TypeOK, ProvenInv, SentVouched, [Next]_vars
    PROVE  SentVouched'
<1>  SUFFICES ASSUME NEW msgs \in Messages', NEW m \in msgs
              PROVE  m.id \in proven' \cup Unreadable
     BY DEF SentVouched
<1>1. proven \subseteq proven'
      BY ProvenGrows
<1>2. (\E old \in Messages : m \in old) \/ \E o \in BeyondOrders : m = MsgFor(o)
      BY MessageStep
<1>3. CASE \E old \in Messages : m \in old
      BY <1>1, <1>3 DEF SentVouched
<1>4. ASSUME NEW o \in BeyondOrders, m = MsgFor(o)
      PROVE  m.id \in proven \cup Unreadable
  <2>1. IdOf[o] \in proven \cup Unreadable
        BY DEF ProvenInv, BeyondProven, Vouched, HeightUnread
  <2>   QED BY <1>4, <2>1 DEF MsgFor
<1>   QED BY <1>1, <1>2, <1>3, <1>4

LEMMA SentVouchedAlways == Spec => []SentVouched
<1>1. Init => SentVouched
      BY DEF Init, SentVouched, Messages, NoTx
<1>2. TypeOK /\ ProvenInv /\ SentVouched /\ [Next]_vars => SentVouched'
      BY SentVouchedKept
<1>   QED BY <1>1, <1>2, TypeCorrect, ProvenAlways, PTL DEF Spec

\* The hub fulfills only what has been submitted, and the nodes have proven.
LEMMA FilledAreProven ==
    ASSUME TypeOK, SentVouched, [Next]_vars, NEW id \in Id, status'[id] = "filled"
    PROVE  status[id] = "filled" \/ id \in proven \cup Unreadable
<1>1. CASE UNCHANGED status
      BY <1>1
<1>2. CASE \E i \in Id : OrderCreated(i) \/ FeeUpdated(i) \/ BlockProven(i) \/ Gone(i)
      BY <1>2 DEF OrderCreated, FeeUpdated, BlockProven, Gone, TypeOK, HubTypeOK
<1>3. ASSUME NEW msgs, \A m \in msgs : m.id \in proven \cup Unreadable, Fulfill(msgs)
      PROVE  status[id] = "filled" \/ id \in proven \cup Unreadable
      BY <1>3 DEF Fulfill
<1>4. CASE (\E f \in Fulfiller : Execute(f) \/ Reject(f)) \/ \E msgs \in orphans : Settle(msgs)
  <2>1. ASSUME NEW f \in Fulfiller, Execute(f)
        PROVE  status[id] = "filled" \/ id \in proven \cup Unreadable
        BY <1>3, <2>1 DEF Execute, SentVouched, Messages
  <2>2. ASSUME NEW msgs \in orphans, Settle(msgs)
        PROVE  status[id] = "filled" \/ id \in proven \cup Unreadable
        BY <1>1, <1>3, <2>2 DEF Settle, SentVouched, Messages
  <2>   QED BY <1>1, <1>4, <2>1, <2>2 DEF Reject, hubVars
<1>5. CASE \E l \in LP : Transfer(l) \/ GrantOrRevoke(l)
      BY <1>1, <1>5 DEF Transfer, GrantOrRevoke
<1>6. CASE Restart \/ UNCHANGED vars
      BY <1>1, <1>6 DEF Restart, vars, hubVars
<1>7. CASE Client
      BY <1>1, <1>7, ClientLeavesHub DEF hubVars
<1>   QED BY <1>2, <1>4, <1>5, <1>6, <1>7 DEF Next, Hub

\* Every stage is one of OrderLife: no id is torn between two flights.
LEMMA StagesType == Sound => Stages \in [Id -> Life!Stage]
<1>  SUFFICES ASSUME Sound, NEW id \in Id PROVE Stages[id] \in Life!Stage
     BY DEF Stages
<1>1. CASE \A p \in Place : \A o \in hold[p] : IdOf[o] # id
      BY <1>1, StageIdle DEF Life!Stage
<1>2. ASSUME NEW p \in Place, NEW o \in hold[p], IdOf[o] = id
      PROVE  Stages[id] \in Life!Stage
  <2>1. Stages[id] = StageOf[<<p, o>>] /\ o \in Obj
        BY <1>2, StageOne DEF Sound, TypeOK, PipeTypeOK
  <2>   QED BY <2>1 DEF StageOf, Life!Stage
<1>   QED BY <1>1, <1>2

(***************************************************************************)
(* The client implements OrderLife for every pool, every number of         *)
(* goroutines and channel slots, and whatever the environment does: the    *)
(* flight of an id is checked, approved, sent and booked in this order,    *)
(* booked as a success only when the hub has fulfilled the order, and ends *)
(* with, or without, the id's entry as OrderLife says; only the end of the *)
(* process forgets flights.                                                *)
(***************************************************************************)
THEOREM FlowImplementsLife == Spec => ImplementsLife
<1>1. Init => Life!LifeInit
  <2>   SUFFICES ASSUME Init PROVE Life!LifeInit
        OBVIOUS
  <2>1. {id \in Id : pool[id] # Nil} = {} /\ {id \in Id : status[id] = "filled"} = {}
        BY DEF Init, ProcessInit, PoolInit
  <2>2. \A p \in Place : hold[p] = {}
        BY DEF Init, ProcessInit
  <2>3. Stages = [id \in Id |-> "idle"]
    <3>1. \A id \in Id : Stages[id] = "idle"
          BY <2>2, StageIdle
    <3>   QED BY <3>1 DEF Stages
  <2>   QED BY <2>1, <2>3 DEF Init, Life!LifeInit
<1>2. Sound /\ Sound' /\ TxHeld /\ OkFilled /\ ProvenInv /\ SentVouched /\ [Next]_vars
         /\ (Stages \in [Id -> Life!Stage])'
         => Life!LifeNext
  <2>   SUFFICES ASSUME Sound, Sound', TxHeld, OkFilled, ProvenInv, SentVouched, [Next]_vars,
                        Stages' \in [Id -> Life!Stage]
                 PROVE  Life!LifeNext
        OBVIOUS
  <2>1. Life!Live \/ Life!Forget
        BY NextEdges
  <2>2. proven \subseteq proven' /\ proven' \subseteq Id
        BY ProvenGrows DEF Sound, TypeOK, HubTypeOK
  <2>3. \A id \in Id : status[id] = "filled" => status'[id] = "filled"
        BY FilledStays DEF Sound
  <2>4. \A id \in Id : status'[id] = "filled" => status[id] = "filled" \/ id \in proven \cup Unreadable
        BY FilledAreProven DEF Sound
  <2>5. Life!Hub
        BY <2>2, <2>3, <2>4 DEF Life!Hub
  <2>   QED BY <2>1, <2>5 DEF Life!LifeNext
<1>3. TypeOK /\ SingleFlight <=> Sound
      BY DEF Sound
<1>4. Sound => Stages \in [Id -> Life!Stage]
      BY StagesType
<1>   QED BY <1>1, <1>2, <1>3, <1>4, TypeCorrect, FlightsAreSingle, ProvenAlways,
             SentVouchedAlways, TxAlways, PTL DEF Spec, ImplementsLife, Life!LifeSpec
=============================================================================
