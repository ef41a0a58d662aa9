-------------------------- MODULE OrderFlow_proofs --------------------------
(***************************************************************************)
(* Type correctness of OrderFlow and the claim protocol of the order pool: *)
(* TypeOK and SingleFlight are invariants, RemovesOwnEntry is an action    *)
(* property, for any number of orders, objects, providers, goroutines and  *)
(* channel slots.                                                          *)
(*                                                                         *)
(* TypeOK is a conjunction of one part per group of variables.  The first  *)
(* lemmas say what the pool's and the ledger's operators do to their part; *)
(* then there is one lemma per action, which proves the parts the action   *)
(* changes and takes the others from SameTypes.                            *)
(*                                                                         *)
(* TypeOK /\ SingleFlight is inductive.  Apart alone is not: that a popped *)
(* order is nowhere else needs that an order on its way is flagged, which  *)
(* needs in turn that no upsert, update or removal touches the entry of an *)
(* order on its way.                                                       *)
(*                                                                         *)
(* Then what it means for the transactions: OnlyProvenSubmitted,           *)
(* OneSubmission and RetriedStayPooled are invariants.  Each needs a       *)
(* strengthening.  The orders the validator has let through have a         *)
(* validated block, or a height of 0 (BeyondProven); a transaction is      *)
(* about orders of the chunk its fulfiller holds (WireCarries); no order   *)
(* for the id of an order to retry has got as far as the validator's list  *)
(* (RetryAlone).                                                           *)
(*                                                                         *)
(* SubmittedToAcceptingLP is an invariant whatever the loader reads: the   *)
(* terms an order is submitted under are terms some version of its         *)
(* provider's grant has accepted (AcceptedInv), although not always the    *)
(* version loaded at the time.                                             *)
(*                                                                         *)
(* At last StrandedByFault: an order on its way gets stuck with its flag   *)
(* by a step with a fault or a restart, and by none other.  It needs that  *)
(* an order nobody else knows has no flag yet, that an order being evicted *)
(* is flagged and off its way, and that failures are booked before the     *)
(* next chunk is sent (AsideInv).                                          *)
(***************************************************************************)
EXTENDS OrderFlow, FiniteSetTheorems, TLAPS

\* A part whose variables do not change stays true.
LEMMA SameTypes ==
    /\ PoolTypeOK /\ UNCHANGED poolVars => PoolTypeOK'
    /\ FundsTypeOK /\ UNCHANGED fundVars => FundsTypeOK'
    /\ OrderTypeOK /\ UNCHANGED orderVars => OrderTypeOK'
    /\ SourceTypeOK /\ UNCHANGED sourceVars /\ UNCHANGED failedOrderHashes => SourceTypeOK'
    /\ PipeTypeOK /\ UNCHANGED pipeVars => PipeTypeOK'
    /\ HubTypeOK /\ UNCHANGED hubVars => HubTypeOK'
    /\ TxTypeOK /\ UNCHANGED txVars => TxTypeOK'
BY DEF PoolTypeOK, poolVars, FundsTypeOK, fundVars, OrderTypeOK, orderVars,
       SourceTypeOK, sourceVars, PipeTypeOK, pipeVars, HubTypeOK, hubVars,
       TxTypeOK, txVars

----------------------------------------------------------------------------
(* The pool's operators.                                                   *)

\* Looking an order up in a list yields an order of the list with that id.
LEMMA InListType ==
    ASSUME NEW os \in SUBSET Obj, NEW id \in Id, Listed(os, id)
    PROVE  InList(os, id) \in os /\ IdOf[InList(os, id)] = id
BY DEF Listed, InList

\* upsertOrder keeps the pool a map from ids to orders of that id.
LEMMA UpsertType ==
    ASSUME PoolTypeOK, NEW os \in SUBSET Obj, upsertOrder(os),
           UNCHANGED <<checking, valid>>
    PROVE  PoolTypeOK'
BY InListType, PoolAssumption DEF PoolTypeOK, upsertOrder

\* So does addOrder.
LEMMA AddType ==
    ASSUME PoolTypeOK, NEW os \in SUBSET Obj, addOrder(os)
    PROVE  PoolTypeOK'
BY InListType, PoolAssumption DEF PoolTypeOK, addOrder

\* So does removeOrder.
LEMMA RemoveType ==
    ASSUME PoolTypeOK, NEW id \in Id, removeOrder(id), UNCHANGED <<checking, valid>>
    PROVE  PoolTypeOK'
BY DEF PoolTypeOK, removeOrder

\* setValid flags an order.
LEMMA SetValidType ==
    ASSUME PoolTypeOK, NEW id \in Id, setValid(id), UNCHANGED <<pool, checking>>
    PROVE  PoolTypeOK'
BY DEF PoolTypeOK, setValid

\* popOrders returns orders of the pool that had no flag, and flags them.
LEMMA PopType ==
    ASSUME PoolTypeOK, NEW limit, NEW pop \in popOrders(limit)
    PROVE  /\ pop.orders \in SUBSET Obj
           /\ pop.checking = checking \cup pop.orders
           /\ \A o \in pop.orders : pool[IdOf[o]] = o /\ ~Flagged(o)
<1>1. \A o \in Pooled : o \in Obj /\ pool[IdOf[o]] = o
      BY DEF PoolTypeOK, Pooled
<1>2. /\ pop.orders \subseteq {o \in Pooled : ~Flagged(o)}
      /\ pop.checking = checking \cup pop.orders
      BY DEF popOrders
<1>   QED BY <1>1, <1>2

----------------------------------------------------------------------------
(* The ledger's operators.                                                 *)

\* SafeSub yields a bag whatever is subtracted.
LEMMA SafeSubType == \A a, b : SafeSub(a, b) \in Bag
BY DEF SafeSub, Bag, NoCoins

\* findLPForOrder yields loaded providers whose criteria accept the order.
LEMMA FindLPType ==
    ASSUME FundsTypeOK, NEW current, NEW accepting, NEW price
    PROVE  /\ findLPForOrder(current, accepting, price) \subseteq LP
           /\ findLPForOrder(current, accepting, price) \subseteq accepting
BY DEF FundsTypeOK, findLPForOrder, selectBestLP, filterLPsForOrder

\* Reserving the price of an order leaves a ledger.
LEMMA AssignType ==
    ASSUME FundsTypeOK, NEW l \in LP, NEW current, NEW price \in Bag,
           assignLP(l, current, price)
    PROVE  FundsTypeOK'
<1>1. Add(reserved[l], price) \in Bag
      BY DEF FundsTypeOK, Add, Bag
<1>   QED BY <1>1 DEF FundsTypeOK, assignLP

\* So does releasing,
LEMMA ReleaseType ==
    ASSUME FundsTypeOK, NEW due, releaseAllReservedOrdersFunds(due)
    PROVE  FundsTypeOK'
BY SafeSubType DEF FundsTypeOK, releaseAllReservedOrdersFunds

\* debiting,
LEMMA DebitType ==
    ASSUME FundsTypeOK, NEW due, debitAllReservedOrdersFunds(due)
    PROVE  FundsTypeOK'
BY SafeSubType DEF FundsTypeOK, debitAllReservedOrdersFunds

\* reloading the providers,
LEMMA LoadType ==
    ASSUME FundsTypeOK, HubTypeOK, NEW loaded \in SUBSET granted,
           loadLPs(granted, loaded, bank, grants)
    PROVE  FundsTypeOK'
<1>1. NoCoins \in Bag /\ 1 \in Grant
      BY FundsAssumption DEF NoCoins, Bag, Grant
<1>   QED BY <1>1 DEF FundsTypeOK, HubTypeOK, loadLPs

\* and refreshing their balances.
LEMMA RefreshType ==
    ASSUME FundsTypeOK, HubTypeOK, NEW reached \in SUBSET lps,
           refreshBalances(reached, bank)
    PROVE  FundsTypeOK'
BY DEF FundsTypeOK, HubTypeOK, refreshBalances

\* The price of an order is a bag.
LEMMA PriceType ==
    ASSUME OrderTypeOK, NEW o \in Obj
    PROVE  PriceOf(o) \in Bag
BY PoolAssumption, FlowAssumption DEF OrderTypeOK, PriceOf

----------------------------------------------------------------------------
(* Places.                                                                 *)

\* The places of the goroutines and channels are places.
LEMMA PlaceMembers ==
    /\ \A c \in Checker : Popped(c) \in Place
    /\ \A k \in ToCheckSlot : ToCheck(k) \in Place
    /\ ToValidate \in Place /\ ValidOrders \in Place
    /\ \A k \in OutputSlot : Output(k) \in Place
    /\ \A f \in Fulfiller : /\ Batch(f) \in Place /\ InTx(f) \in Place
                            /\ Successes(f) \in Place /\ Failures(f) \in Place
    /\ \A k \in ProcessedSlot : Processed(k) \in Place
BY DEF Place

\* Moving orders between places leaves every place with a set of orders.
LEMMA MoveType ==
    ASSUME hold \in [Place -> SUBSET Obj], NEW from \in Place, NEW to \in Place,
           NEW os \in SUBSET hold[from], Move(os, from, to)
    PROVE  hold' \in [Place -> SUBSET Obj]
BY DEF Move

\* Dropping orders from a place does, too.
LEMMA DropType ==
    ASSUME hold \in [Place -> SUBSET Obj], NEW from, NEW os, Drop(os, from)
    PROVE  hold' \in [Place -> SUBSET Obj]
BY DEF Drop

\* A chunk size is a natural number.
LEMMA ChunkSizeType ==
    ASSUME TypeOK
    PROVE  ChunkSize \in Nat
<1>1. IsFiniteSet(hold[ValidOrders])
      <2>1. hold[ValidOrders] \subseteq Obj
            BY PlaceMembers DEF TypeOK, PipeTypeOK
      <2>   QED BY <2>1, FS_Subset, FlowAssumption
<1>2. Cardinality(hold[ValidOrders]) \in Nat
      BY <1>1, FS_CardinalityType
<1>3. Cardinality(Fulfiller) \in Nat /\ Cardinality(Fulfiller) # 0
      BY FS_CardinalityType, FS_EmptySet, FlowAssumption
<1>4. \A a \in Nat, b \in Nat : b # 0 => a \div b \in Nat
      OBVIOUS
<1>5. Cardinality(hold[ValidOrders]) \div Cardinality(Fulfiller) \in Nat
      BY <1>2, <1>3, <1>4
<1>   QED BY <1>5, FlowAssumption DEF ChunkSize, Larger, TypeOK, PipeTypeOK

\* What the cache holds of a rollapp is a height, or nothing.
LEMMA NoteType ==
    ASSUME lastValidHeight \in [Rollapp -> Nat \cup {Nil}],
           NEW o \in Obj, NEW height \in Nat \cup {Nil}, Note(o, height)
    PROVE  lastValidHeight' \in [Rollapp -> Nat \cup {Nil}]
BY DEF Note

----------------------------------------------------------------------------
(* One lemma per action.                                                   *)

\* The snapshot Poll takes is a set of messages.
LEMMA PollType ==
    ASSUME TypeOK, Poll
    PROVE  TypeOK'
<1>1. \A i \in Id : [id |-> i, terms |-> asked[i]] \in Message
      BY DEF TypeOK, HubTypeOK, Message
<1>2. SourceTypeOK'
      BY <1>1 DEF TypeOK, SourceTypeOK, Poll
<1>   QED BY <1>2, SameTypes DEF TypeOK, Poll

\* An order remembered for an update is one of the pool.
LEMMA LookupPooledType ==
    ASSUME TypeOK, NEW s \in Source, NEW m \in inbox[s], LookupPooled(s, m)
    PROVE  TypeOK'
<1>1. m \in Message
      BY DEF TypeOK, SourceTypeOK
<1>2. getOrder(m.id) \in Obj
      BY <1>1 DEF TypeOK, PoolTypeOK, Message, getOrder, LookupPooled
<1>3. [step |-> "update", order |-> getOrder(m.id), terms |-> m.terms] \in Task
      BY <1>1, <1>2 DEF Message, Task
<1>4. SourceTypeOK'
      BY <1>3 DEF TypeOK, SourceTypeOK, LookupPooled
<1>   QED BY <1>4, SameTypes DEF TypeOK, LookupPooled

\* A new allocation starts with the terms of its message.
LEMMA LookupNewType ==
    ASSUME TypeOK, NEW s \in Source, NEW m \in inbox[s], NEW o \in Obj, LookupNew(s, m, o)
    PROVE  TypeOK'
<1>1. m \in Message
      BY DEF TypeOK, SourceTypeOK
<1>2. [step |-> "admit", order |-> o, terms |-> m.terms] \in Task
      BY <1>1 DEF Message, Task
<1>3. PoolTypeOK'
      BY DEF TypeOK, PoolTypeOK, LookupNew
<1>4. OrderTypeOK'
      <2>1. ReadHeight(s, m.id) \in Nat
            BY <1>1, FlowAssumption DEF ReadHeight, Message
      <2>   QED BY <1>1, <2>1 DEF TypeOK, OrderTypeOK, LookupNew, Message
<1>5. SourceTypeOK'
      BY <1>2 DEF TypeOK, SourceTypeOK, LookupNew
<1>   QED BY <1>3, <1>4, <1>5, SameTypes DEF TypeOK, LookupNew

\* An update keeps the pool and gives the order terms of a message.
LEMMA UpdateType ==
    ASSUME TypeOK, NEW s \in Source, Update(s)
    PROVE  TypeOK'
<1>1. task[s] \in Task
      BY DEF TypeOK, SourceTypeOK, Update
<1>2. PoolTypeOK'
      BY <1>1, UpsertType DEF TypeOK, Update, Task
<1>3. OrderTypeOK'
      BY <1>1 DEF TypeOK, OrderTypeOK, Update, Task
<1>4. SourceTypeOK'
      BY DEF TypeOK, SourceTypeOK, Update
<1>   QED BY <1>2, <1>3, <1>4, SameTypes DEF TypeOK, Update

\* A refused order is forgotten.
LEMMA RefuseType ==
    ASSUME TypeOK, NEW s \in Source, Refuse(s)
    PROVE  TypeOK'
<1>1. SourceTypeOK'
      BY DEF TypeOK, SourceTypeOK, Refuse, sourceVars
<1>   QED BY <1>1, SameTypes DEF TypeOK, Refuse

\* An admitted order gets a provider, which reserves its price.
LEMMA AdmitType ==
    ASSUME TypeOK, NEW s \in Source, Admit(s)
    PROVE  TypeOK'
<1>1. task[s].order \in Obj
      BY DEF TypeOK, SourceTypeOK, Task, Admit
<1>2. PICK l \in findLPForOrder(Nil, AcceptingOf(task[s].order), PriceOf(task[s].order)) :
            /\ assignLP(l, Nil, PriceOf(task[s].order))
            /\ lpAddress' = [lpAddress EXCEPT ![task[s].order] = l]
      BY DEF Admit
<1>3. l \in LP
      BY <1>2, FindLPType DEF TypeOK
<1>4. FundsTypeOK'
      BY <1>1, <1>2, <1>3, PriceType, AssignType DEF TypeOK
<1>5. OrderTypeOK'
      BY <1>2, <1>3 DEF TypeOK, OrderTypeOK, Admit
<1>6. SourceTypeOK'
      BY <1>1, PoolAssumption DEF TypeOK, SourceTypeOK, Admit
<1>   QED BY <1>4, <1>5, <1>6, SameTypes DEF TypeOK, Admit

\* A task without a provider stays a task.
LEMMA NoProviderType ==
    ASSUME TypeOK, NEW s \in Source, NoProvider(s)
    PROVE  TypeOK'
<1>1. task[s] \in Task
      BY DEF TypeOK, SourceTypeOK, NoProvider
<1>2. [task[s] EXCEPT !.step = "miss"] \in Task
      BY <1>1 DEF Task
<1>3. task' \in [Source -> Task \cup {Nil}]
      BY <1>2 DEF TypeOK, SourceTypeOK, NoProvider
<1>4. failedOrderHashes' \in [Id -> Terms \cup {0}]
      BY DEF TypeOK, SourceTypeOK, NoProvider
<1>5. SourceTypeOK'
      BY <1>3, <1>4 DEF TypeOK, SourceTypeOK, NoProvider
<1>   QED BY <1>5, SameTypes DEF TypeOK, NoProvider

\* The poller notes an id.
LEMMA NoteMissType ==
    ASSUME TypeOK, NEW s \in Source, NoteMiss(s)
    PROVE  TypeOK'
<1>1. task[s].order \in Obj
      BY DEF TypeOK, SourceTypeOK, Task, NoteMiss
<1>2. SourceTypeOK'
      BY <1>1, PoolAssumption DEF TypeOK, SourceTypeOK, NoteMiss
<1>   QED BY <1>2, SameTypes DEF TypeOK, NoteMiss

\* trackOrders keeps the pool.
LEMMA TrackOrdersType ==
    ASSUME TypeOK, NEW s \in Source, TrackOrders(s)
    PROVE  TypeOK'
<1>1. PoolTypeOK'
      BY UpsertType DEF TypeOK, SourceTypeOK, TrackOrders
<1>2. SourceTypeOK'
      BY DEF TypeOK, SourceTypeOK, TrackOrders
<1>   QED BY <1>1, <1>2, SameTypes DEF TypeOK, TrackOrders

\* checkOrders pops and flags orders of the pool.
LEMMA PopOrdersType ==
    ASSUME TypeOK, NEW c \in Checker, PopOrders(c)
    PROVE  TypeOK'
<1>1. PICK pop \in popOrders(PopLimit) :
            /\ checking' = pop.checking
            /\ hold' = [hold EXCEPT ![Popped(c)] = pop.orders]
      BY DEF PopOrders
<1>2. pop.orders \in SUBSET Obj /\ pop.checking = checking \cup pop.orders
      BY PopType DEF TypeOK
<1>3. PoolTypeOK'
      BY <1>1, <1>2 DEF TypeOK, PoolTypeOK, PopOrders
<1>4. PipeTypeOK'
      BY <1>1, <1>2 DEF TypeOK, PipeTypeOK, PopOrders
<1>   QED BY <1>3, <1>4, SameTypes DEF TypeOK, PopOrders

\* Popped orders move into the channel,
LEMMA SendToCheckType ==
    ASSUME TypeOK, NEW c \in Checker, NEW k \in ToCheckSlot, SendToCheck(c, k)
    PROVE  TypeOK'
<1>1. PipeTypeOK'
      BY PlaceMembers, MoveType DEF TypeOK, PipeTypeOK, SendToCheck
<1>   QED BY <1>1, SameTypes DEF TypeOK, SendToCheck

\* and from there to the validator.
LEMMA ReceiveToCheckType ==
    ASSUME TypeOK, NEW k \in ToCheckSlot, ReceiveToCheck(k)
    PROVE  TypeOK'
<1>1. PipeTypeOK'
      BY PlaceMembers, MoveType DEF TypeOK, PipeTypeOK, ReceiveToCheck
<1>   QED BY <1>1, SameTypes DEF TypeOK, ReceiveToCheck

\* An order whose node fails is dropped.
LEMMA NodeErrorType ==
    ASSUME TypeOK, NEW o \in Obj, NodeError(o)
    PROVE  TypeOK'
<1>1. PipeTypeOK'
      BY DropType DEF TypeOK, PipeTypeOK, NodeError
<1>   QED BY <1>1, SameTypes DEF TypeOK, NodeError

\* A valid order is flagged and moves on.
LEMMA FoundValidType ==
    ASSUME TypeOK, NEW o \in Obj, FoundValid(o)
    PROVE  TypeOK'
<1>1. PoolTypeOK'
      BY SetValidType, PoolAssumption DEF TypeOK, FoundValid
<1>2. PipeTypeOK'
      <2>1. {o} \in SUBSET hold[ToValidate]
            BY DEF FoundValid, Validating
      <2>2. lastValidHeight' \in [Rollapp -> Nat \cup {Nil}]
            BY NoteType DEF TypeOK, PipeTypeOK, OrderTypeOK, FoundValid, Confirmed
      <2>3. hold' \in [Place -> SUBSET Obj]
            BY <2>1, PlaceMembers, MoveType DEF TypeOK, PipeTypeOK, FoundValid
      <2>   QED BY <2>2, <2>3 DEF TypeOK, PipeTypeOK, FoundValid
<1>   QED BY <1>1, <1>2, SameTypes DEF TypeOK, FoundValid

\* An evicted order leaves the pool and the list.
LEMMA GiveUpType ==
    ASSUME TypeOK, NEW o \in Obj, GiveUp(o)
    PROVE  TypeOK'
<1>1. PoolTypeOK'
      BY RemoveType, PoolAssumption DEF TypeOK, GiveUp, Evict
<1>2. PipeTypeOK'
      BY DropType, NoteType DEF TypeOK, PipeTypeOK, GiveUp, Evict, NoteDenied
<1>   QED BY <1>1, <1>2, SameTypes DEF TypeOK, GiveUp

\* Its funds are given back.
LEMMA ReleaseEvictedType ==
    ASSUME TypeOK, ReleaseEvicted
    PROVE  TypeOK'
<1>1. FundsTypeOK'
      BY ReleaseType DEF TypeOK, ReleaseEvicted
<1>2. PipeTypeOK'
      BY DEF TypeOK, PipeTypeOK, ReleaseEvicted
<1>   QED BY <1>1, <1>2, SameTypes DEF TypeOK, ReleaseEvicted

\* An order to retry keeps or changes its provider.
LEMMA NotValidYetType ==
    ASSUME TypeOK, NEW o \in Obj, NotValidYet(o)
    PROVE  TypeOK'
<1>1. PICK l \in findLPForOrder(lpAddress[o], AcceptingOf(o), PriceOf(o)) :
            /\ assignLP(l, lpAddress[o], PriceOf(o))
            /\ lpAddress' = [lpAddress EXCEPT ![o] = l]
      BY DEF NotValidYet
<1>2. l \in LP
      BY <1>1, FindLPType DEF TypeOK
<1>3. FundsTypeOK'
      BY <1>1, <1>2, PriceType, AssignType DEF TypeOK
<1>4. OrderTypeOK'
      BY <1>1, <1>2 DEF TypeOK, OrderTypeOK, NotValidYet
<1>5. PoolTypeOK'
      BY DEF TypeOK, PoolTypeOK, NotValidYet
<1>6. PipeTypeOK'
      BY DropType, NoteType DEF TypeOK, PipeTypeOK, NotValidYet, NoteDenied
<1>   QED BY <1>3, <1>4, <1>5, <1>6, SameTypes DEF TypeOK, NotValidYet

\* A chunk of the valid orders moves into the channel.
LEMMA SendValidType ==
    ASSUME TypeOK, NEW k \in OutputSlot, SendValid(k)
    PROVE  TypeOK'
<1>1. PICK chunk \in Chunks(hold[ValidOrders], ChunkSize) :
            /\ Move(chunk, ValidOrders, Output(k))
            /\ chunkSize' = IF chunk = hold[ValidOrders] THEN 0 ELSE ChunkSize
      BY DEF SendValid
<1>2. hold' \in [Place -> SUBSET Obj]
      BY <1>1, PlaceMembers, MoveType DEF TypeOK, PipeTypeOK, Chunks
<1>3. chunkSize' \in Nat
      BY <1>1, ChunkSizeType
<1>4. PipeTypeOK'
      BY <1>2, <1>3 DEF TypeOK, PipeTypeOK, SendValid
<1>   QED BY <1>4, SameTypes DEF TypeOK, SendValid

\* addOrder keeps the pool.
LEMMA AddRetriedType ==
    ASSUME TypeOK, AddRetried
    PROVE  TypeOK'
<1>1. PoolTypeOK'
      BY AddType DEF TypeOK, PipeTypeOK, AddRetried
<1>2. PipeTypeOK'
      BY DEF TypeOK, PipeTypeOK, AddRetried
<1>   QED BY <1>1, <1>2, SameTypes DEF TypeOK, AddRetried

\* A batch moves to its fulfiller.
LEMMA ReceiveBatchType ==
    ASSUME TypeOK, NEW f \in Fulfiller, NEW k \in OutputSlot, ReceiveBatch(f, k)
    PROVE  TypeOK'
<1>1. PipeTypeOK'
      BY PlaceMembers, MoveType DEF TypeOK, PipeTypeOK, ReceiveBatch
<1>   QED BY <1>1, SameTypes DEF TypeOK, ReceiveBatch

\* The transaction a fulfiller sends is a set of messages.
LEMMA SubmitType ==
    ASSUME TypeOK, NEW f \in Fulfiller, Submit(f)
    PROVE  TypeOK'
<1>1. PICK chunk \in Chunks(hold[Batch(f)], MaxOrdersPerTx) :
            /\ Move(chunk, Batch(f), InTx(f))
            /\ wire' = [wire EXCEPT ![f] = [state |-> "sent",
                                            msgs |-> {MsgFor(o) : o \in chunk}]]
      BY DEF Submit
<1>2. chunk \in SUBSET hold[Batch(f)] /\ chunk \subseteq Obj
      BY PlaceMembers DEF TypeOK, PipeTypeOK, Chunks
<1>3. PipeTypeOK'
      BY <1>1, <1>2, PlaceMembers, MoveType DEF TypeOK, PipeTypeOK, Submit
<1>4. {MsgFor(o) : o \in chunk} \subseteq Msg
      BY <1>2, PoolAssumption DEF TypeOK, OrderTypeOK, MsgFor, Msg
<1>5. TxTypeOK'
      BY <1>1, <1>4 DEF TypeOK, TxTypeOK, Submit
<1>   QED BY <1>3, <1>5, SameTypes DEF TypeOK, Submit

\* A success debits the providers.
LEMMA SucceedType ==
    ASSUME TypeOK, NEW f \in Fulfiller, Succeed(f)
    PROVE  TypeOK'
<1>1. FundsTypeOK'
      BY DebitType DEF TypeOK, Succeed
<1>2. OrderTypeOK'
      BY DEF TypeOK, OrderTypeOK, Succeed
<1>3. PipeTypeOK'
      BY PlaceMembers, MoveType DEF TypeOK, PipeTypeOK, Succeed
<1>4. TxTypeOK'
      BY DEF TypeOK, TxTypeOK, Succeed, NoTx
<1>   QED BY <1>1, <1>2, <1>3, <1>4, SameTypes DEF TypeOK, Succeed

\* A failure gives the funds back and marks the orders.
LEMMA FailType ==
    ASSUME TypeOK, NEW f \in Fulfiller, Fail(f)
    PROVE  TypeOK'
<1>1. FundsTypeOK'
      BY ReleaseType DEF TypeOK, Fail, Abort
<1>2. OrderTypeOK'
      BY DEF TypeOK, OrderTypeOK, Fail
<1>3. PipeTypeOK'
      BY PlaceMembers DEF TypeOK, PipeTypeOK, Fail
<1>4. TxTypeOK'
      BY DEF TypeOK, TxTypeOK, Fail, Abort, Unseen, NoTx
<1>   QED BY <1>1, <1>2, <1>3, <1>4, SameTypes DEF TypeOK, Fail

\* So does an RPC error, but for the marks.
LEMMA RPCErrorType ==
    ASSUME TypeOK, NEW f \in Fulfiller, RPCError(f)
    PROVE  TypeOK'
<1>1. FundsTypeOK'
      BY ReleaseType DEF TypeOK, RPCError, Abort
<1>2. OrderTypeOK'
      BY DEF TypeOK, OrderTypeOK, RPCError, orderVars
<1>3. PipeTypeOK'
      BY PlaceMembers DEF TypeOK, PipeTypeOK, RPCError
<1>4. TxTypeOK'
      BY DEF TypeOK, TxTypeOK, RPCError, Abort, Unseen, NoTx
<1>   QED BY <1>1, <1>2, <1>3, <1>4, SameTypes DEF TypeOK, RPCError

\* The results move into the channel,
LEMMA SendSuccessesType ==
    ASSUME TypeOK, NEW f \in Fulfiller, NEW k \in ProcessedSlot, SendSuccesses(f, k)
    PROVE  TypeOK'
<1>1. PipeTypeOK'
      BY PlaceMembers, MoveType DEF TypeOK, PipeTypeOK, SendSuccesses
<1>   QED BY <1>1, SameTypes DEF TypeOK, SendSuccesses

\* the failures after the successes.
LEMMA SendFailuresType ==
    ASSUME TypeOK, NEW f \in Fulfiller, NEW k \in ProcessedSlot, SendFailures(f, k)
    PROVE  TypeOK'
<1>1. PipeTypeOK'
      BY PlaceMembers, MoveType DEF TypeOK, PipeTypeOK, SendFailures
<1>   QED BY <1>1, SameTypes DEF TypeOK, SendFailures

\* A result is booked and its order leaves the pool.
LEMMA ManageProcessedType ==
    ASSUME TypeOK, NEW k \in ProcessedSlot, NEW o \in Obj, ManageProcessed(k, o)
    PROVE  TypeOK'
<1>1. PoolTypeOK'
      BY RemoveType, PoolAssumption DEF TypeOK, ManageProcessed
<1>2. SourceTypeOK'
      BY DEF TypeOK, SourceTypeOK, OrderTypeOK, ManageProcessed, sourceVars
<1>3. PipeTypeOK'
      BY DropType DEF TypeOK, PipeTypeOK, ManageProcessed
<1>   QED BY <1>1, <1>2, <1>3, SameTypes DEF TypeOK, ManageProcessed

\* Reloading the providers leaves a ledger.
LEMMA ReloadLPsType ==
    ASSUME TypeOK, ReloadLPs
    PROVE  TypeOK'
<1>1. PICK reached \in Reached(granted), skipped \in SUBSET MaySkip :
            loadLPs(granted, reached \ skipped, bank, grants)
      BY DEF ReloadLPs
<1>2. FundsTypeOK'
      BY <1>1, LoadType DEF TypeOK, Reached
<1>3. noLPOrders' \subseteq Id
      BY DEF TypeOK, SourceTypeOK, ReloadLPs, AfterLoad
<1>4. SourceTypeOK'
      BY <1>3 DEF TypeOK, SourceTypeOK, ReloadLPs
<1>   QED BY <1>2, <1>4, SameTypes DEF TypeOK, ReloadLPs

\* So does refreshing their balances.
LEMMA RefreshBalancesType ==
    ASSUME TypeOK, RefreshBalances
    PROVE  TypeOK'
<1>1. PICK reached \in Reached(lps) : refreshBalances(reached, bank)
      BY DEF RefreshBalances
<1>2. FundsTypeOK'
      BY <1>1, RefreshType DEF TypeOK, Reached
<1>   QED BY <1>2, SameTypes DEF TypeOK, RefreshBalances

\* A deadline passes.
LEMMA DeadlinePassesType ==
    ASSUME TypeOK, NEW o \in Obj, DeadlinePasses(o)
    PROVE  TypeOK'
<1>1. OrderTypeOK'
      BY DEF TypeOK, OrderTypeOK, DeadlinePasses
<1>   QED BY <1>1, SameTypes DEF TypeOK, DeadlinePasses

\* What a crash leaves behind has the right types.
LEMMA DieType ==
    ASSUME TypeOK, Die
    PROVE  TypeOK'
<1>1. PoolTypeOK' /\ FundsTypeOK' /\ OrderTypeOK'
      BY FlowAssumption, FundsAssumption
      DEF Die, PoolTypeOK, FundsTypeOK, OrderTypeOK, NoCoins, Bag, Terms, Grant
<1>2. SourceTypeOK' /\ PipeTypeOK'
      BY DEF Die, SourceTypeOK, PipeTypeOK
<1>3. TxTypeOK'
      BY DEF TypeOK, TxTypeOK, Die, NoTx
<1>   QED BY <1>1, <1>2, <1>3, SameTypes DEF TypeOK, Die

\* A restart loads the providers.
LEMMA RestartType ==
    ASSUME TypeOK, Restart
    PROVE  TypeOK'
<1>1. PICK skipped \in SUBSET MaySkip : loadLPs(granted, granted \ skipped, bank, grants)
      BY DEF Restart
<1>2. FundsTypeOK'
      BY <1>1, LoadType DEF TypeOK
<1>   QED BY <1>2, SameTypes DEF TypeOK, Restart

\* An event about a new order is a message,
LEMMA OrderCreatedType ==
    ASSUME TypeOK, NEW id \in Id, OrderCreated(id)
    PROVE  TypeOK'
<1>1. HubTypeOK'
      BY FlowAssumption DEF TypeOK, HubTypeOK, OrderCreated, Terms
<1>2. SourceTypeOK'
      <2>1. [id |-> id, terms |-> asked'[id]] \in Message
            BY <1>1 DEF HubTypeOK, Message
      <2>2. inbox' \in [Source -> SUBSET Message]
            BY <2>1 DEF TypeOK, SourceTypeOK, OrderCreated, Deliver
      <2>   QED BY <2>2 DEF TypeOK, SourceTypeOK, OrderCreated
<1>   QED BY <1>1, <1>2, SameTypes DEF TypeOK, OrderCreated

\* and so is one about a new fee.
LEMMA FeeUpdatedType ==
    ASSUME TypeOK, NEW id \in Id, FeeUpdated(id)
    PROVE  TypeOK'
<1>1. HubTypeOK'
      BY FlowAssumption DEF TypeOK, HubTypeOK, FeeUpdated, Terms
<1>2. SourceTypeOK'
      <2>1. [id |-> id, terms |-> asked'[id]] \in Message
            BY <1>1 DEF HubTypeOK, Message
      <2>2. inbox' \in [Source -> SUBSET Message]
            BY <2>1 DEF TypeOK, SourceTypeOK, FeeUpdated, Deliver
      <2>   QED BY <2>2 DEF TypeOK, SourceTypeOK, FeeUpdated
<1>   QED BY <1>1, <1>2, SameTypes DEF TypeOK, FeeUpdated

\* A block is validated.
LEMMA BlockProvenType ==
    ASSUME TypeOK, NEW id \in Id, BlockProven(id)
    PROVE  TypeOK'
<1>1. HubTypeOK'
      BY DEF TypeOK, HubTypeOK, BlockProven
<1>   QED BY <1>1, SameTypes DEF TypeOK, BlockProven

\* An order is taken by somebody else.
LEMMA GoneType ==
    ASSUME TypeOK, NEW id \in Id, Gone(id)
    PROVE  TypeOK'
<1>1. HubTypeOK'
      BY DEF TypeOK, HubTypeOK, Gone
<1>   QED BY <1>1, SameTypes DEF TypeOK, Gone

\* The hub executes a transaction,
LEMMA ExecuteType ==
    ASSUME TypeOK, NEW f \in Fulfiller, Execute(f)
    PROVE  TypeOK'
<1>1. HubTypeOK'
      BY SafeSubType DEF TypeOK, HubTypeOK, Execute, Fulfill
<1>2. TxTypeOK'
      BY DEF TypeOK, TxTypeOK, Execute
<1>   QED BY <1>1, <1>2, SameTypes DEF TypeOK, Execute

\* or rejects it.
LEMMA RejectType ==
    ASSUME TypeOK, NEW f \in Fulfiller, Reject(f)
    PROVE  TypeOK'
<1>1. TxTypeOK'
      BY DEF TypeOK, TxTypeOK, Reject
<1>   QED BY <1>1, SameTypes DEF TypeOK, Reject

\* An orphaned transaction is settled, or lost.
LEMMA SettleType ==
    ASSUME TypeOK, NEW msgs \in orphans, Settle(msgs)
    PROVE  TypeOK'
<1>1. HubTypeOK'
      BY SafeSubType DEF TypeOK, HubTypeOK, Settle, Fulfill
<1>2. TxTypeOK'
      BY DEF TypeOK, TxTypeOK, Settle
<1>   QED BY <1>1, <1>2, SameTypes DEF TypeOK, Settle

\* A provider moves its funds.
LEMMA TransferType ==
    ASSUME TypeOK, NEW l \in LP, Transfer(l)
    PROVE  TypeOK'
<1>1. HubTypeOK'
      BY FlowAssumption DEF TypeOK, HubTypeOK, Transfer, NoCoins, Bag
<1>   QED BY <1>1, SameTypes DEF TypeOK, Transfer

\* A provider grants or revokes.
LEMMA GrantOrRevokeType ==
    ASSUME TypeOK, NEW l \in LP, GrantOrRevoke(l)
    PROVE  TypeOK'
<1>1. HubTypeOK'
      BY FundsAssumption DEF TypeOK, HubTypeOK, GrantOrRevoke, Grant
<1>   QED BY <1>1, SameTypes DEF TypeOK, GrantOrRevoke

----------------------------------------------------------------------------
(* The types at the start, in every step, and therefore always.            *)

\* The process starts with an empty pool and a loaded ledger.
LEMMA InitType == Init => TypeOK
<1>   SUFFICES ASSUME Init PROVE TypeOK
      OBVIOUS
<1>1. PoolTypeOK /\ FundsTypeOK
      BY FlowAssumption, FundsAssumption
      DEF Init, ProcessInit, PoolInit, PoolTypeOK, FundsTypeOK, NoCoins, Bag, Grant
<1>2. OrderTypeOK /\ SourceTypeOK /\ PipeTypeOK
      BY FlowAssumption DEF Init, ProcessInit, OrderTypeOK, SourceTypeOK, PipeTypeOK, Terms
<1>3. HubTypeOK /\ TxTypeOK
      BY FlowAssumption, FundsAssumption DEF Init, HubTypeOK, TxTypeOK, NoTx, Terms, Grant
<1>   QED BY <1>1, <1>2, <1>3 DEF TypeOK, Init

\* A step that changes nothing keeps the types.
LEMMA StutterType == TypeOK /\ UNCHANGED vars => TypeOK'
BY SameTypes DEF TypeOK, vars, sourceVars

\* Every step of an ingesting goroutine keeps the types.
LEMMA SourceStepType ==
    ASSUME TypeOK, NEW s \in Source, SourceStep(s)
    PROVE  TypeOK'
<1>1. CASE \E m \in inbox[s] : LookupPooled(s, m)
      BY <1>1, LookupPooledType
<1>2. CASE \E m \in inbox[s] : \E o \in Obj : LookupNew(s, m, o)
      BY <1>2, LookupNewType
<1>3. CASE Update(s) \/ Refuse(s) \/ Admit(s)
      BY <1>3, UpdateType, RefuseType, AdmitType
<1>4. CASE NoProvider(s) \/ NoteMiss(s) \/ TrackOrders(s)
      BY <1>4, NoProviderType, NoteMissType, TrackOrdersType
<1>   QED BY <1>1, <1>2, <1>3, <1>4 DEF SourceStep

\* So does every step of the validator,
LEMMA ValidatorStepType ==
    ASSUME TypeOK, ValidatorStep
    PROVE  TypeOK'
<1>1. CASE \E k \in ToCheckSlot : ReceiveToCheck(k)
      BY <1>1, ReceiveToCheckType
<1>2. CASE \E o \in Obj : NodeError(o) \/ FoundValid(o) \/ GiveUp(o) \/ NotValidYet(o)
      BY <1>2, NodeErrorType, FoundValidType, GiveUpType, NotValidYetType
<1>3. CASE \E k \in OutputSlot : SendValid(k)
      BY <1>3, SendValidType
<1>4. CASE ReleaseEvicted \/ AddRetried
      BY <1>4, ReleaseEvictedType, AddRetriedType
<1>   QED BY <1>1, <1>2, <1>3, <1>4 DEF ValidatorStep

\* of every fulfiller,
LEMMA FulfillerStepType ==
    ASSUME TypeOK, NEW f \in Fulfiller, FulfillerStep(f)
    PROVE  TypeOK'
<1>1. CASE \E k \in OutputSlot : ReceiveBatch(f, k)
      BY <1>1, ReceiveBatchType
<1>2. CASE Submit(f) \/ Succeed(f) \/ Fail(f) \/ RPCError(f)
      BY <1>2, SubmitType, SucceedType, FailType, RPCErrorType
<1>3. CASE \E k \in ProcessedSlot : SendSuccesses(f, k) \/ SendFailures(f, k)
      BY <1>3, SendSuccessesType, SendFailuresType
<1>   QED BY <1>1, <1>2, <1>3 DEF FulfillerStep

\* and of the hub.
LEMMA HubType ==
    ASSUME TypeOK, Hub
    PROVE  TypeOK'
<1>1. CASE \E id \in Id : OrderCreated(id) \/ FeeUpdated(id) \/ BlockProven(id) \/ Gone(id)
      BY <1>1, OrderCreatedType, FeeUpdatedType, BlockProvenType, GoneType
<1>2. CASE \E f \in Fulfiller : Execute(f) \/ Reject(f)
      BY <1>2, ExecuteType, RejectType
<1>3. CASE \E msgs \in orphans : Settle(msgs)
      BY <1>3, SettleType
<1>4. CASE \E l \in LP : Transfer(l) \/ GrantOrRevoke(l)
      BY <1>4, TransferType, GrantOrRevokeType
<1>   QED BY <1>1, <1>2, <1>3, <1>4 DEF Hub

\* Every step of the client keeps the types.
LEMMA ClientType ==
    ASSUME TypeOK, Client
    PROVE  TypeOK'
<1>1. CASE Poll
      BY <1>1, PollType
<1>2. CASE \E s \in Source : SourceStep(s)
      BY <1>2, SourceStepType
<1>3. CASE \E c \in Checker : CheckerStep(c)
      BY <1>3, PopOrdersType, SendToCheckType DEF CheckerStep
<1>4. CASE ValidatorStep
      BY <1>4, ValidatorStepType
<1>5. CASE \E f \in Fulfiller : FulfillerStep(f)
      BY <1>5, FulfillerStepType
<1>6. CASE ManagerStep
      BY <1>6, ManageProcessedType DEF ManagerStep
<1>7. CASE ReloadLPs \/ RefreshBalances \/ \E o \in Obj : DeadlinePasses(o)
      BY <1>7, ReloadLPsType, RefreshBalancesType, DeadlinePassesType
<1>8. CASE Panic \/ Crash \/ \E f \in Fulfiller : Fatal(f)
      BY <1>8, DieType DEF Panic, Fatal, Crash
<1>   QED BY <1>1, <1>2, <1>3, <1>4, <1>5, <1>6, <1>7, <1>8 DEF Client

(***************************************************************************)
(* Every reachable state has the types TypeOK states: in particular, the   *)
(* pool maps an id to an order of that id only, and neither a provider's   *)
(* balance nor its reservations are ever negative, whatever is released,  *)
(* debited, refreshed and reloaded in between.                             *)
(***************************************************************************)
THEOREM TypeCorrect == Spec => []TypeOK
<1>1. Init => TypeOK
      BY InitType
<1>2. TypeOK /\ [Next]_vars => TypeOK'
      <2>   SUFFICES ASSUME TypeOK, [Next]_vars PROVE TypeOK'
            OBVIOUS
      <2>1. CASE Client
            BY <2>1, ClientType
      <2>2. CASE Restart
            BY <2>2, RestartType
      <2>3. CASE Hub
            BY <2>3, HubType
      <2>4. CASE UNCHANGED vars
            BY <2>4, StutterType
      <2>   QED BY <2>1, <2>2, <2>3, <2>4 DEF Next
<1>   QED BY <1>1, <1>2, PTL DEF Spec

----------------------------------------------------------------------------
(* The claim protocol.                                                     *)

\* Places of different kinds, and of different goroutines, are different.
LEMMA PlacesDiffer ==
    /\ \A c, k : Popped(c) # ToCheck(k)
    /\ \A k : ToCheck(k) # ToValidate
    /\ ToValidate # ValidOrders
    /\ \A k : ValidOrders # Output(k)
    /\ \A k, f : Output(k) # Batch(f)
    /\ \A f : /\ Batch(f) # InTx(f) /\ Batch(f) # Failures(f)
              /\ InTx(f) # Successes(f) /\ InTx(f) # Failures(f)
    /\ \A f, k : Successes(f) # Processed(k) /\ Failures(f) # Processed(k)
BY DEF Popped, ToCheck, ToValidate, ValidOrders, Output, Batch, InTx,
       Successes, Failures, Processed

----------------------------------------------------------------------------
(* What moving, dropping and claiming orders does to Apart and InFlight.   *)

\* Orders moved from one place to another are still in one place.
LEMMA MoveApart ==
    ASSUME hold \in [Place -> SUBSET Obj], Apart,
           NEW from \in Place, NEW to \in Place, from # to,
           NEW os \in SUBSET hold[from], Move(os, from, to)
    PROVE  Apart' /\ InFlight' = InFlight
<1>1. /\ hold'[from] = hold[from] \ os
      /\ hold'[to] = hold[to] \cup os
      /\ \A p \in Place : p # from /\ p # to => hold'[p] = hold[p]
      BY DEF Move
<1>2. Apart'
      BY <1>1 DEF Apart
<1>3. InFlight' = InFlight
      BY <1>1 DEF InFlight
<1>   QED BY <1>2, <1>3

\* Orders dropped from the place that holds them are no longer on their way.
LEMMA DropApart ==
    ASSUME hold \in [Place -> SUBSET Obj], Apart,
           NEW from \in Place, NEW os \in SUBSET hold[from], Drop(os, from)
    PROVE  Apart' /\ InFlight' = InFlight \ os
<1>1. /\ hold'[from] = hold[from] \ os
      /\ \A p \in Place : p # from => hold'[p] = hold[p]
      BY DEF Drop
<1>2. Apart'
      BY <1>1 DEF Apart
<1>3. InFlight' = InFlight \ os
      BY <1>1 DEF InFlight, Apart
<1>   QED BY <1>2, <1>3

\* Orders on their way stay claimed if their entries and flags stay.
LEMMA KeepClaims ==
    ASSUME Claimed, InFlight' \subseteq InFlight,
           \A o \in InFlight' : /\ pool'[IdOf[o]] = pool[IdOf[o]]
                                /\ o \in checking'
    PROVE  Claimed'
BY DEF Claimed

\* A step that changes no place, no entry and no checking flag is harmless.
LEMMA SameFlight ==
    ASSUME SingleFlight, UNCHANGED <<pool, checking, hold>>
    PROVE  SingleFlight' /\ RemovesOnlyEnded
BY DEF SingleFlight, Apart, Claimed, InFlight, RemovesOnlyEnded

\* So is a move that changes no entry and no flag.
LEMMA MoveFlight ==
    ASSUME TypeOK, SingleFlight, NEW from \in Place, NEW to \in Place, from # to,
           NEW os \in SUBSET hold[from], Move(os, from, to),
           UNCHANGED <<pool, checking>>
    PROVE  SingleFlight' /\ RemovesOnlyEnded
<1>1. Apart' /\ InFlight' = InFlight
      BY MoveApart DEF TypeOK, PipeTypeOK, SingleFlight
<1>   QED BY <1>1 DEF SingleFlight, Claimed, RemovesOnlyEnded

\* An order on its way has its own object pooled and flagged.
LEMMA ClaimGuards ==
    ASSUME TypeOK, Claimed, NEW o \in InFlight
    PROVE  o \in Obj /\ Guarded(IdOf[o]) /\ pool[IdOf[o]] = o
<1>1. o \in Obj
      BY DEF InFlight, TypeOK, PipeTypeOK
<1>   QED BY <1>1, PoolAssumption DEF Claimed, Guarded, Flagged

\* upsertOrder leaves orders on their way alone, and removes no entry.
LEMMA UpsertFlight ==
    ASSUME TypeOK, SingleFlight, NEW os \in SUBSET Obj, upsertOrder(os),
           UNCHANGED <<checking, hold>>
    PROVE  SingleFlight' /\ RemovesOnlyEnded
<1>1. \A o \in InFlight : IdOf[o] \in Id /\ pool'[IdOf[o]] = pool[IdOf[o]]
      BY ClaimGuards, PoolAssumption DEF SingleFlight, upsertOrder
<1>2. InFlight' = InFlight /\ Apart'
      BY DEF SingleFlight, Apart, InFlight
<1>3. Claimed'
      BY <1>1, <1>2, KeepClaims DEF SingleFlight, Claimed
<1>4. \A id \in Id : pool[id] # Nil => pool'[id] # Nil
      BY InListType, PoolAssumption DEF upsertOrder
<1>   QED BY <1>2, <1>3, <1>4 DEF SingleFlight, RemovesOnlyEnded

\* Removing the entry of an order whose way ends touches no other order.
LEMMA RemoveFlight ==
    ASSUME TypeOK, SingleFlight, NEW p \in Place, NEW o \in hold[p],
           removeOrder(IdOf[o]), Drop({o}, p), UNCHANGED checking
    PROVE  SingleFlight' /\ RemovesOnlyEnded
<1>1. o \in InFlight
      BY DEF InFlight
<1>2. o \in Obj /\ pool[IdOf[o]] = o
      BY <1>1, ClaimGuards DEF SingleFlight
<1>3. Apart' /\ InFlight' = InFlight \ {o}
      BY DropApart DEF TypeOK, PipeTypeOK, SingleFlight
<1>4. \A x \in InFlight' : IdOf[x] # IdOf[o] /\ IdOf[x] \in Id
      BY <1>2, <1>3, ClaimGuards, PoolAssumption DEF SingleFlight, Claimed
<1>5. \A id \in Id : id # IdOf[o] => pool'[id] = pool[id]
      BY DEF removeOrder, TypeOK, PoolTypeOK
<1>6. Claimed'
      BY <1>3, <1>4, <1>5, KeepClaims DEF SingleFlight, Claimed
<1>7. RemovesOnlyEnded
      BY <1>1, <1>2, <1>3, <1>5 DEF RemovesOnlyEnded
<1>   QED BY <1>3, <1>6, <1>7 DEF SingleFlight

----------------------------------------------------------------------------
(* The actions that touch the pool, the flags or the places in a way of    *)
(* their own.                                                              *)

\* A new allocation is not on its way: resetting its flags harms nobody.
LEMMA LookupNewFlight ==
    ASSUME TypeOK, SingleFlight, NEW s \in Source, NEW m \in inbox[s],
           NEW o \in Obj, LookupNew(s, m, o)
    PROVE  SingleFlight' /\ RemovesOnlyEnded
<1>1. o \notin InFlight
      BY DEF LookupNew, Unreferenced
<1>2. InFlight' = InFlight /\ Apart'
      BY DEF SingleFlight, Apart, InFlight, LookupNew, pipeVars
<1>3. Claimed'
      BY <1>1, <1>2 DEF SingleFlight, Claimed, LookupNew
<1>   QED BY <1>2, <1>3 DEF SingleFlight, RemovesOnlyEnded, LookupNew

\* Orders that are popped had no flag, so they are nowhere on their way.
LEMMA PopOrdersFlight ==
    ASSUME TypeOK, SingleFlight, NEW c \in Checker, PopOrders(c)
    PROVE  SingleFlight' /\ RemovesOnlyEnded
<1>1. PICK pop \in popOrders(PopLimit) :
            /\ checking' = pop.checking
            /\ hold' = [hold EXCEPT ![Popped(c)] = pop.orders]
      BY DEF PopOrders
<1>2. /\ pop.orders \in SUBSET Obj
      /\ pop.checking = checking \cup pop.orders
      /\ \A o \in pop.orders : pool[IdOf[o]] = o /\ ~Flagged(o)
      BY PopType DEF TypeOK
<1>3. pop.orders \cap InFlight = {}
      BY <1>2 DEF SingleFlight, Claimed, Flagged
<1>4. /\ Popped(c) \in Place /\ hold[Popped(c)] = {}
      /\ hold'[Popped(c)] = pop.orders
      /\ \A p \in Place : p # Popped(c) => hold'[p] = hold[p]
      BY <1>1, PlaceMembers DEF PopOrders, TypeOK, PipeTypeOK
<1>5. \A p \in Place : hold[p] \cap pop.orders = {}
      BY <1>3 DEF InFlight
<1>6. Apart'
      BY <1>4, <1>5 DEF SingleFlight, Apart
<1>7. InFlight' = InFlight \cup pop.orders
      BY <1>4 DEF InFlight
<1>8. Claimed'
      BY <1>1, <1>2, <1>7 DEF SingleFlight, Claimed, PopOrders
<1>   QED BY <1>6, <1>8 DEF SingleFlight, RemovesOnlyEnded, PopOrders

\* An order to be retried leaves the validator before its flag is cleared.
LEMMA NotValidYetFlight ==
    ASSUME TypeOK, SingleFlight, NEW o \in Obj, NotValidYet(o)
    PROVE  SingleFlight' /\ RemovesOnlyEnded
<1>1. ToValidate \in Place /\ o \in hold[ToValidate]
      BY PlaceMembers DEF NotValidYet, Validating
<1>2. Apart' /\ InFlight' = InFlight \ {o}
      BY <1>1, DropApart DEF TypeOK, PipeTypeOK, SingleFlight, NotValidYet
<1>3. Claimed'
      BY <1>2 DEF SingleFlight, Claimed, NotValidYet
<1>   QED BY <1>2, <1>3 DEF SingleFlight, RemovesOnlyEnded, NotValidYet

\* addOrder only fills empty entries.
LEMMA AddRetriedFlight ==
    ASSUME TypeOK, SingleFlight, AddRetried
    PROVE  SingleFlight' /\ RemovesOnlyEnded
<1>1. \A o \in InFlight : pool'[IdOf[o]] = pool[IdOf[o]]
      BY ClaimGuards, PoolAssumption DEF SingleFlight, AddRetried, addOrder, Guarded
<1>2. InFlight' = InFlight /\ Apart'
      BY DEF SingleFlight, Apart, InFlight, AddRetried
<1>3. Claimed'
      BY <1>1, <1>2, KeepClaims DEF SingleFlight, Claimed, AddRetried, addOrder
<1>4. \A id \in Id : pool[id] # Nil => pool'[id] # Nil
      BY DEF AddRetried, addOrder
<1>   QED BY <1>2, <1>3, <1>4 DEF SingleFlight, RemovesOnlyEnded

\* An order dropped by the validator or the fulfiller keeps its entry.
LEMMA NodeErrorFlight ==
    ASSUME TypeOK, SingleFlight, NEW o \in Obj, NodeError(o)
    PROVE  SingleFlight' /\ RemovesOnlyEnded
<1>1. ToValidate \in Place /\ o \in hold[ToValidate]
      BY PlaceMembers DEF NodeError, Validating
<1>2. Apart' /\ InFlight' = InFlight \ {o}
      BY <1>1, DropApart DEF TypeOK, PipeTypeOK, SingleFlight, NodeError
<1>   QED BY <1>2 DEF SingleFlight, Claimed, RemovesOnlyEnded, NodeError, poolVars

\* A failed transaction ends the way of the batch but for the failed chunk.
LEMMA FailFlight ==
    ASSUME TypeOK, SingleFlight, NEW f \in Fulfiller, Fail(f)
    PROVE  SingleFlight' /\ RemovesOnlyEnded
<1>1. /\ Batch(f) \in Place /\ InTx(f) \in Place /\ Failures(f) \in Place
      /\ Batch(f) # InTx(f) /\ Batch(f) # Failures(f) /\ InTx(f) # Failures(f)
      BY PlaceMembers, PlacesDiffer
<1>2. /\ hold'[Batch(f)] = {} /\ hold'[InTx(f)] = {}
      /\ hold'[Failures(f)] = hold[InTx(f)]
      /\ \A p \in Place : p \notin {Batch(f), InTx(f), Failures(f)} => hold'[p] = hold[p]
      BY <1>1 DEF Fail, TypeOK, PipeTypeOK
<1>3. Apart'
      BY <1>1, <1>2 DEF SingleFlight, Apart
<1>4. InFlight' \subseteq InFlight
      BY <1>1, <1>2 DEF InFlight
<1>   QED BY <1>3, <1>4 DEF SingleFlight, Claimed, RemovesOnlyEnded, Fail, poolVars

\* After an RPC error the whole batch has left.
LEMMA RPCErrorFlight ==
    ASSUME TypeOK, SingleFlight, NEW f \in Fulfiller, RPCError(f)
    PROVE  SingleFlight' /\ RemovesOnlyEnded
<1>1. \A p \in Place : hold'[p] \subseteq hold[p]
      BY DEF RPCError, TypeOK, PipeTypeOK
<1>2. Apart'
      BY <1>1 DEF SingleFlight, Apart
<1>3. InFlight' \subseteq InFlight
      BY <1>1 DEF InFlight
<1>   QED BY <1>2, <1>3 DEF SingleFlight, Claimed, RemovesOnlyEnded, RPCError, poolVars

\* A crash leaves nothing on its way, and a restart starts with nothing.
LEMMA DieFlight ==
    ASSUME Die
    PROVE  SingleFlight' /\ RemovesOnlyEnded
<1>1. SingleFlight'
      BY DEF Die, SingleFlight, Apart, Claimed, InFlight
<1>   QED BY <1>1 DEF Die, RemovesOnlyEnded

----------------------------------------------------------------------------
(* Every step keeps SingleFlight and removes no entry but as stated.       *)

\* The ingesting goroutines reach the pool through upsertOrder only.
LEMMA SourceFlight ==
    ASSUME TypeOK, SingleFlight, NEW s \in Source, SourceStep(s)
    PROVE  SingleFlight' /\ RemovesOnlyEnded
<1>1. CASE \E m \in inbox[s] : LookupPooled(s, m)
      BY <1>1, SameFlight DEF LookupPooled, poolVars, pipeVars
<1>2. CASE \E m \in inbox[s] : \E o \in Obj : LookupNew(s, m, o)
      BY <1>2, LookupNewFlight
<1>3. CASE Update(s)
      <2>1. {task[s].order} \in SUBSET Obj
            BY <1>3 DEF TypeOK, SourceTypeOK, Update, Task
      <2>   QED BY <1>3, <2>1, UpsertFlight DEF Update, pipeVars
<1>4. CASE Refuse(s) \/ Admit(s)
      BY <1>4, SameFlight DEF Refuse, Admit, poolVars, pipeVars
<1>5. CASE NoProvider(s) \/ NoteMiss(s)
      BY <1>5, SameFlight DEF NoProvider, NoteMiss, poolVars, pipeVars
<1>6. CASE TrackOrders(s)
      BY <1>6, UpsertFlight DEF TypeOK, SourceTypeOK, TrackOrders, pipeVars
<1>   QED BY <1>1, <1>2, <1>3, <1>4, <1>5, <1>6 DEF SourceStep

\* checkOrders claims orders and hands them on.
LEMMA CheckerFlight ==
    ASSUME TypeOK, SingleFlight, NEW c \in Checker, CheckerStep(c)
    PROVE  SingleFlight' /\ RemovesOnlyEnded
<1>1. CASE PopOrders(c)
      BY <1>1, PopOrdersFlight
<1>2. ASSUME NEW k \in ToCheckSlot, SendToCheck(c, k)
      PROVE  SingleFlight' /\ RemovesOnlyEnded
      BY <1>2, MoveFlight, PlaceMembers, PlacesDiffer DEF SendToCheck, poolVars
<1>   QED BY <1>1, <1>2 DEF CheckerStep

\* The validator passes orders on, evicts them, or clears their claim.
LEMMA ValidatorFlight ==
    ASSUME TypeOK, SingleFlight, ValidatorStep
    PROVE  SingleFlight' /\ RemovesOnlyEnded
<1>1. ASSUME NEW k \in ToCheckSlot, ReceiveToCheck(k)
      PROVE  SingleFlight' /\ RemovesOnlyEnded
      BY <1>1, MoveFlight, PlaceMembers, PlacesDiffer DEF ReceiveToCheck, poolVars
<1>2. ASSUME NEW o \in Obj, FoundValid(o)
      PROVE  SingleFlight' /\ RemovesOnlyEnded
      <2>1. {o} \in SUBSET hold[ToValidate]
            BY <1>2 DEF FoundValid, Validating
      <2>   QED BY <1>2, <2>1, MoveFlight, PlaceMembers, PlacesDiffer DEF FoundValid
<1>3. ASSUME NEW o \in Obj, GiveUp(o)
      PROVE  SingleFlight' /\ RemovesOnlyEnded
      BY <1>3, RemoveFlight, PlaceMembers DEF GiveUp, Evict, Validating
<1>4. ASSUME NEW k \in OutputSlot, SendValid(k)
      PROVE  SingleFlight' /\ RemovesOnlyEnded
      BY <1>4, MoveFlight, PlaceMembers, PlacesDiffer DEF SendValid, Chunks, poolVars
<1>5. CASE ReleaseEvicted
      BY <1>5, SameFlight DEF ReleaseEvicted, poolVars
<1>   QED BY <1>1, <1>2, <1>3, <1>4, <1>5, NodeErrorFlight, NotValidYetFlight,
             AddRetriedFlight DEF ValidatorStep

\* The fulfillers move orders, or forget them.
LEMMA FulfillerFlight ==
    ASSUME TypeOK, SingleFlight, NEW f \in Fulfiller, FulfillerStep(f)
    PROVE  SingleFlight' /\ RemovesOnlyEnded
<1>1. ASSUME NEW k \in OutputSlot, ReceiveBatch(f, k)
      PROVE  SingleFlight' /\ RemovesOnlyEnded
      BY <1>1, MoveFlight, PlaceMembers, PlacesDiffer DEF ReceiveBatch, poolVars
<1>2. CASE Submit(f)
      BY <1>2, MoveFlight, PlaceMembers, PlacesDiffer DEF Submit, Chunks, poolVars
<1>3. CASE Succeed(f)
      BY <1>3, MoveFlight, PlaceMembers, PlacesDiffer DEF Succeed, poolVars
<1>4. ASSUME NEW k \in ProcessedSlot, SendSuccesses(f, k)
      PROVE  SingleFlight' /\ RemovesOnlyEnded
      BY <1>4, MoveFlight, PlaceMembers, PlacesDiffer DEF SendSuccesses, poolVars
<1>5. ASSUME NEW k \in ProcessedSlot, SendFailures(f, k)
      PROVE  SingleFlight' /\ RemovesOnlyEnded
      BY <1>5, MoveFlight, PlaceMembers, PlacesDiffer DEF SendFailures, poolVars
<1>   QED BY <1>1, <1>2, <1>3, <1>4, <1>5, FailFlight, RPCErrorFlight DEF FulfillerStep

\* The hub does not reach into the client but for its inboxes.
LEMMA HubFlight ==
    ASSUME SingleFlight, Hub
    PROVE  SingleFlight' /\ RemovesOnlyEnded
<1>1. UNCHANGED <<pool, checking, hold>>
      BY DEF Hub, OrderCreated, FeeUpdated, BlockProven, Gone, Execute, Reject,
             Settle, Transfer, GrantOrRevoke, poolVars, pipeVars
<1>   QED BY <1>1, SameFlight

\* Every step of the specification.
LEMMA NextFlight ==
    ASSUME TypeOK, SingleFlight, [Next]_vars
    PROVE  SingleFlight' /\ [RemovesOnlyEnded]_vars
<1>1. CASE Poll
      BY <1>1, SameFlight DEF Poll, poolVars, pipeVars
<1>2. CASE \E s \in Source : SourceStep(s)
      BY <1>2, SourceFlight
<1>3. CASE \E c \in Checker : CheckerStep(c)
      BY <1>3, CheckerFlight
<1>4. CASE ValidatorStep
      BY <1>4, ValidatorFlight
<1>5. CASE \E f \in Fulfiller : FulfillerStep(f)
      BY <1>5, FulfillerFlight
<1>6. CASE ManagerStep
      BY <1>6, RemoveFlight, PlaceMembers DEF ManagerStep, ManageProcessed
<1>7. CASE ReloadLPs \/ RefreshBalances \/ \E o \in Obj : DeadlinePasses(o)
      BY <1>7, SameFlight DEF ReloadLPs, RefreshBalances, DeadlinePasses, poolVars, pipeVars
<1>8. CASE Panic \/ Crash \/ \E f \in Fulfiller : Fatal(f)
      BY <1>8, DieFlight DEF Panic, Fatal, Crash
<1>9. CASE Restart
      BY <1>9, SameFlight DEF Restart, poolVars, pipeVars
<1>10. CASE Hub
      BY <1>10, HubFlight
<1>11. CASE UNCHANGED vars
      BY <1>11, SameFlight DEF vars, poolVars, pipeVars
<1>   QED BY <1>1, <1>2, <1>3, <1>4, <1>5, <1>6, <1>7, <1>8, <1>9, <1>10, <1>11
          DEF Next, Client

\* At the start nothing is on its way.
LEMMA InitFlight == Init => SingleFlight
BY DEF Init, ProcessInit, SingleFlight, Apart, Claimed, InFlight

(***************************************************************************)
(* Every order on its way from popOrders to manageProcessed is in exactly  *)
(* one channel or list, and its own object is pooled and flagged under its *)
(* id all the while: the claim popOrders makes excludes every other one.   *)
(***************************************************************************)
THEOREM FlightsAreSingle == Spec => []SingleFlight
<1>1. Init => SingleFlight
      BY InitFlight
<1>2. TypeOK /\ TypeOK' /\ SingleFlight /\ [Next]_vars => SingleFlight'
      BY NextFlight
<1>   QED BY <1>1, <1>2, TypeCorrect, PTL DEF Spec

(***************************************************************************)
(* manageProcessed and evictOrder, which remove pool entries by id, remove *)
(* the entry of the order they have at hand and no other.                  *)
(***************************************************************************)
THEOREM RemovalsAreOwn == Spec => RemovesOwnEntry
<1>1. TypeOK /\ SingleFlight /\ [Next]_vars => [RemovesOnlyEnded]_vars
      BY NextFlight
<1>   QED BY <1>1, TypeCorrect, FlightsAreSingle, PTL DEF Spec, RemovesOwnEntry

----------------------------------------------------------------------------
(* The orders the client holds.                                            *)

\* The orders a source has admitted, and those it is about to upsert again.
Fresh == {o \in Obj : \E s \in Source : o \in fresh[s]}

Updating ==
    {o \in Obj : \E s \in Source :
        task[s] # Nil /\ task[s].step = "update" /\ task[s].order = o}

\* The orders some goroutine or the pool has, once they are admitted.
Held == Pooled \cup InFlight \cup retry \cup Fresh \cup Updating

\* The ingesting goroutines touch no list, no transaction and not the hub.
LEMMA SourceQuiet ==
    ASSUME NEW s \in Source, SourceStep(s)
    PROVE  UNCHANGED <<pipeVars, hubVars, txVars>>
<1>1. CASE \E m \in inbox[s] : LookupPooled(s, m)
      BY <1>1 DEF LookupPooled
<1>2. CASE \E m \in inbox[s] : \E o \in Obj : LookupNew(s, m, o)
      BY <1>2 DEF LookupNew
<1>3. CASE Update(s) \/ Refuse(s) \/ Admit(s)
      BY <1>3 DEF Update, Refuse, Admit
<1>4. CASE NoProvider(s)
      BY <1>4 DEF NoProvider
<1>5. CASE NoteMiss(s) \/ TrackOrders(s)
      BY <1>5 DEF NoteMiss, TrackOrders
<1>   QED BY <1>1, <1>2, <1>3, <1>4, <1>5 DEF SourceStep

\* Moved orders are where they were, or in a place others have left.
LEMMA MoveHeld ==
    ASSUME TypeOK, NEW from \in Place, NEW to \in Place,
           NEW os \in SUBSET hold[from], Move(os, from, to)
    PROVE  InFlight' \subseteq InFlight
<1>1. \A p \in Place : hold'[p] \subseteq hold[p] \cup hold[from]
      BY DEF Move, TypeOK, PipeTypeOK
<1>   QED BY <1>1 DEF InFlight

\* Dropping orders adds none.
LEMMA DropHeld ==
    ASSUME TypeOK, NEW from \in Place, NEW os, Drop(os, from)
    PROVE  InFlight' \subseteq InFlight
<1>1. \A p \in Place : hold'[p] \subseteq hold[p]
      BY DEF Drop, TypeOK, PipeTypeOK
<1>   QED BY <1>1 DEF InFlight

\* An upsert adds orders of its list to the pool, and no others.
LEMMA UpsertHeld ==
    ASSUME TypeOK, NEW os \in SUBSET Obj, upsertOrder(os)
    PROVE  Pooled' \subseteq Pooled \cup os
BY InListType DEF upsertOrder, Pooled

\* So does adding retried orders.
LEMMA AddHeld ==
    ASSUME TypeOK, NEW os \in SUBSET Obj, addOrder(os)
    PROVE  Pooled' \subseteq Pooled \cup os
BY InListType DEF addOrder, Pooled

\* Removing an entry adds none.
LEMMA RemoveHeld ==
    ASSUME TypeOK, NEW id, removeOrder(id)
    PROVE  Pooled' \subseteq Pooled
BY DEF removeOrder, Pooled, TypeOK, PoolTypeOK

\* The checkers take orders from the pool and pass them on.
LEMMA CheckerHeld ==
    ASSUME TypeOK, NEW c \in Checker, CheckerStep(c)
    PROVE  /\ InFlight' \subseteq Pooled \cup InFlight
           /\ UNCHANGED <<pool, retry, terms, lpAddress, sourceVars, hubVars>>
<1>1. CASE PopOrders(c)
  <2>1. PICK pop \in popOrders(PopLimit) : hold' = [hold EXCEPT ![Popped(c)] = pop.orders]
        BY <1>1 DEF PopOrders
  <2>2. pop.orders \subseteq Pooled
        BY <2>1 DEF popOrders
  <2>3. \A p \in Place : hold'[p] \subseteq hold[p] \cup Pooled
        BY <2>1, <2>2 DEF TypeOK, PipeTypeOK
  <2>4. InFlight' \subseteq Pooled \cup InFlight
        BY <2>3 DEF InFlight
  <2>   QED BY <1>1, <2>4 DEF PopOrders, orderVars
<1>2. ASSUME NEW k \in ToCheckSlot, SendToCheck(c, k)
      PROVE  InFlight' \subseteq InFlight
      BY <1>2, PlaceMembers, MoveHeld DEF SendToCheck
<1>   QED BY <1>1, <1>2 DEF CheckerStep, SendToCheck, poolVars, orderVars

\* The validator passes them on or puts them aside; only a retry may get
\* another provider.
LEMMA ValidatorHeld ==
    ASSUME TypeOK, ValidatorStep
    PROVE  /\ Pooled' \cup InFlight' \cup retry' \subseteq Pooled \cup InFlight \cup retry
           /\ UNCHANGED <<terms, sourceVars, hubVars>>
           /\ UNCHANGED lpAddress \/ \E o \in Obj : NotValidYet(o)
<1>1. ASSUME NEW k \in ToCheckSlot, ReceiveToCheck(k)
      PROVE  InFlight' \subseteq InFlight /\ UNCHANGED <<pool, retry>>
      BY <1>1, PlaceMembers, MoveHeld DEF ReceiveToCheck, poolVars
<1>2. ASSUME NEW o \in Obj, NodeError(o)
      PROVE  InFlight' \subseteq InFlight /\ UNCHANGED <<pool, retry>>
      BY <1>2, PlaceMembers, DropHeld DEF NodeError, poolVars
<1>3. ASSUME NEW o \in Obj, FoundValid(o)
      PROVE  InFlight' \subseteq InFlight /\ UNCHANGED <<pool, retry>>
  <2>1. {o} \in SUBSET hold[ToValidate]
        BY <1>3 DEF FoundValid, Validating
  <2>   QED BY <1>3, <2>1, PlaceMembers, MoveHeld DEF FoundValid
<1>4. ASSUME NEW o \in Obj, GiveUp(o)
      PROVE  InFlight' \subseteq InFlight /\ Pooled' \subseteq Pooled /\ UNCHANGED retry
      BY <1>4, PlaceMembers, DropHeld, RemoveHeld DEF GiveUp, Evict
<1>5. ASSUME NEW o \in Obj, NotValidYet(o)
      PROVE  /\ InFlight' \subseteq InFlight /\ retry' \subseteq retry \cup InFlight
             /\ UNCHANGED pool
  <2>1. o \in InFlight
        BY <1>5, PlaceMembers DEF NotValidYet, Validating, InFlight
  <2>   QED BY <1>5, <2>1, PlaceMembers, DropHeld DEF NotValidYet
<1>6. CASE ReleaseEvicted
      BY <1>6 DEF ReleaseEvicted, poolVars, orderVars, InFlight, Pooled
<1>7. ASSUME NEW k \in OutputSlot, SendValid(k)
      PROVE  InFlight' \subseteq InFlight /\ UNCHANGED <<pool, retry>>
      BY <1>7, PlaceMembers, MoveHeld DEF SendValid, Chunks, poolVars
<1>8. CASE AddRetried
  <2>1. Pooled' \subseteq Pooled \cup retry
        BY <1>8, AddHeld DEF AddRetried, TypeOK, PipeTypeOK
  <2>   QED BY <1>8, <2>1 DEF AddRetried, orderVars, InFlight
<1>9. Pooled' \cup InFlight' \cup retry' \subseteq Pooled \cup InFlight \cup retry
      BY <1>1, <1>2, <1>3, <1>4, <1>5, <1>6, <1>7, <1>8 DEF ValidatorStep, Pooled
<1>10. /\ UNCHANGED <<terms, sourceVars, hubVars>>
       /\ UNCHANGED lpAddress \/ \E o \in Obj : NotValidYet(o)
      BY DEF ValidatorStep, ReceiveToCheck, NodeError, FoundValid, GiveUp, NotValidYet,
         ReleaseEvicted, SendValid, AddRetried, orderVars
<1>   QED BY <1>9, <1>10

\* The fulfillers move orders or forget them.
LEMMA FulfillerHeld ==
    ASSUME TypeOK, NEW f \in Fulfiller, FulfillerStep(f)
    PROVE  /\ InFlight' \subseteq InFlight
           /\ UNCHANGED <<pool, retry, terms, lpAddress, sourceVars, hubVars>>
<1>1. ASSUME NEW k \in OutputSlot, ReceiveBatch(f, k)
      PROVE  InFlight' \subseteq InFlight
      BY <1>1, PlaceMembers, MoveHeld DEF ReceiveBatch
<1>0. Batch(f) \in Place /\ InTx(f) \in Place /\ Successes(f) \in Place
      BY PlaceMembers
<1>2. ASSUME Submit(f) PROVE InFlight' \subseteq InFlight
  <2>1. PICK chunk \in SUBSET hold[Batch(f)] : Move(chunk, Batch(f), InTx(f))
        BY <1>2 DEF Submit, Chunks
  <2>   QED BY <1>0, <2>1, MoveHeld
<1>3. ASSUME Succeed(f) PROVE InFlight' \subseteq InFlight
      BY <1>0, <1>3, MoveHeld DEF Succeed
<1>4. ASSUME Fail(f) \/ RPCError(f) PROVE InFlight' \subseteq InFlight
  <2>1. \A p \in Place : hold'[p] \subseteq hold[p] \cup hold[InTx(f)]
        BY <1>4, PlaceMembers, PlacesDiffer DEF Fail, RPCError, TypeOK, PipeTypeOK
  <2>   QED BY <1>0, <2>1 DEF InFlight
<1>5. ASSUME NEW k \in ProcessedSlot, SendSuccesses(f, k) \/ SendFailures(f, k)
      PROVE  InFlight' \subseteq InFlight
      BY <1>5, PlaceMembers, MoveHeld DEF SendSuccesses, SendFailures
<1>6. UNCHANGED <<pool, retry, terms, lpAddress, sourceVars, hubVars>>
      BY DEF FulfillerStep, ReceiveBatch, Submit, Succeed, Fail, RPCError,
         SendSuccesses, SendFailures, poolVars, orderVars
<1>   QED BY <1>1, <1>2, <1>3, <1>4, <1>5, <1>6 DEF FulfillerStep

\* The manager takes orders out.
LEMMA ManagerHeld ==
    ASSUME TypeOK, ManagerStep
    PROVE  /\ InFlight' \subseteq InFlight /\ Pooled' \subseteq Pooled
           /\ UNCHANGED <<retry, terms, lpAddress, sourceVars, hubVars>>
<1>1. PICK k \in ProcessedSlot, o \in Obj : ManageProcessed(k, o)
      BY DEF ManagerStep
<1>2. InFlight' \subseteq InFlight /\ Pooled' \subseteq Pooled
      BY <1>1, PlaceMembers, DropHeld, RemoveHeld DEF ManageProcessed
<1>   QED BY <1>1, <1>2 DEF ManageProcessed, orderVars

\* What is held are orders.
LEMMA HeldType == TypeOK => Held \subseteq Obj
<1> SUFFICES ASSUME TypeOK PROVE Held \subseteq Obj
    OBVIOUS
<1>1. Pooled \subseteq Obj
      BY DEF TypeOK, PoolTypeOK, Pooled
<1>2. InFlight \cup retry \subseteq Obj
      BY DEF TypeOK, PipeTypeOK, InFlight
<1>3. Fresh \cup Updating \subseteq Obj
      BY DEF Fresh, Updating
<1>   QED BY <1>1, <1>2, <1>3 DEF Held

\* The sources add the orders they admit, and no others.
LEMMA SourceHeld ==
    ASSUME TypeOK, NEW s \in Source, SourceStep(s), NEW o \in Held'
    PROVE  o \in Held \/ (Admit(s) /\ o = task[s].order)
<1>a. InFlight' = InFlight /\ retry' = retry
      BY SourceQuiet DEF InFlight, pipeVars
<1>b. UNCHANGED pool => Pooled' = Pooled
      BY DEF Pooled
<1>c. \/ o \in Pooled' \/ o \in Fresh' \/ o \in Updating' \/ o \in Held
      BY <1>a DEF Held
<1>d. Pooled \subseteq Held /\ Fresh \subseteq Held /\ Updating \subseteq Held
      BY DEF Held
<1>1. ASSUME NEW m \in inbox[s], LookupPooled(s, m)
      PROVE  o \in Held
  <2>1. m.id \in Id
        BY DEF TypeOK, SourceTypeOK, Message
  <2>2. Updating' \subseteq Updating \cup Pooled
        BY <1>1, <2>1 DEF LookupPooled, Updating, Pooled, getOrder, TypeOK, SourceTypeOK
  <2>   QED BY <1>1, <1>b, <1>c, <1>d, <2>2 DEF LookupPooled, Fresh, poolVars
<1>2. ASSUME NEW m \in inbox[s], NEW x \in Obj, LookupNew(s, m, x)
      PROVE  o \in Held
  <2>1. Updating' \subseteq Updating
        BY <1>2 DEF LookupNew, Updating, TypeOK, SourceTypeOK
  <2>   QED BY <1>2, <1>b, <1>c, <1>d, <2>1 DEF LookupNew, Fresh
<1>3. CASE Update(s)
  <2>1. task[s].order \in Updating /\ task[s].order \in Obj
        BY <1>3 DEF Update, Updating, TypeOK, SourceTypeOK, Task
  <2>2. Pooled' \subseteq Pooled \cup Updating
        BY <1>3, <2>1, UpsertHeld DEF Update
  <2>3. Updating' \subseteq Updating
        BY <1>3 DEF Update, Updating, TypeOK, SourceTypeOK
  <2>   QED BY <1>3, <1>c, <1>d, <2>2, <2>3 DEF Update, Fresh
<1>4. CASE Refuse(s) \/ NoteMiss(s)
  <2>1. Updating' \subseteq Updating
        BY <1>4 DEF Refuse, NoteMiss, Updating, TypeOK, SourceTypeOK
  <2>   QED BY <1>4, <1>b, <1>c, <1>d, <2>1 DEF Refuse, NoteMiss, Fresh, poolVars
<1>5. CASE NoProvider(s)
  <2>1. task[s] \in Task /\ task[s].step = "admit"
        BY <1>5 DEF NoProvider, TypeOK, SourceTypeOK
  <2>2. task'[s] = Nil \/ task'[s].step = "miss"
        BY <1>5, <2>1 DEF NoProvider, TypeOK, SourceTypeOK, Task
  <2>3. Updating' \subseteq Updating
        BY <1>5, <2>2 DEF NoProvider, Updating, TypeOK, SourceTypeOK
  <2>   QED BY <1>5, <1>b, <1>c, <1>d, <2>3 DEF NoProvider, Fresh, poolVars
<1>6. CASE Admit(s)
  <2> DEFINE x == task[s].order
  <2>1. /\ fresh' = [fresh EXCEPT ![s] = @ \cup {x}]
        /\ task' = [task EXCEPT ![s] = Nil] /\ pool' = pool
        BY <1>6 DEF Admit, poolVars
  <2>2. Updating' \subseteq Updating
        BY <2>1 DEF Updating, TypeOK, SourceTypeOK
  <2>3. Fresh' \subseteq Fresh \cup {x}
        BY <2>1 DEF Fresh, TypeOK, SourceTypeOK
  <2>   QED BY <1>6, <1>b, <1>c, <1>d, <2>1, <2>2, <2>3
<1>7. CASE TrackOrders(s)
  <2>1. Pooled' \subseteq Pooled \cup fresh[s]
        BY <1>7, UpsertHeld DEF TrackOrders, TypeOK, SourceTypeOK
  <2>2. Fresh' \subseteq Fresh
        BY <1>7 DEF Fresh, TrackOrders, TypeOK, SourceTypeOK
  <2>3. Updating' = Updating /\ fresh[s] \subseteq Fresh
        BY <1>7 DEF TrackOrders, Updating, Fresh, TypeOK, SourceTypeOK
  <2>   QED BY <1>c, <1>d, <2>1, <2>2, <2>3
<1>   QED BY <1>1, <1>2, <1>3, <1>4, <1>5, <1>6, <1>7 DEF SourceStep

\* So does every step.
LEMMA HeldStep ==
    ASSUME TypeOK, [Next]_vars, NEW o \in Held'
    PROVE  o \in Held \/ \E s \in Source : Admit(s) /\ o = task[s].order
<1>1. CASE UNCHANGED <<pool, hold, retry, fresh, task>>
      BY <1>1 DEF Held, Pooled, InFlight, Fresh, Updating
<1>2. CASE (\E c \in Checker : CheckerStep(c)) \/ (\E f \in Fulfiller : FulfillerStep(f))
           \/ ManagerStep \/ ValidatorStep
  <2>1. /\ Pooled' \cup InFlight' \cup retry' \subseteq Pooled \cup InFlight \cup retry
        /\ UNCHANGED sourceVars
    <3>1. CASE \E c \in Checker : CheckerStep(c)
          BY <3>1, CheckerHeld DEF Pooled
    <3>2. CASE \E f \in Fulfiller : FulfillerStep(f)
          BY <3>2, FulfillerHeld DEF Pooled
    <3>3. CASE ManagerStep \/ ValidatorStep
          BY <3>3, ManagerHeld, ValidatorHeld
    <3>   QED BY <1>2, <3>1, <3>2, <3>3
  <2>   QED BY <2>1 DEF Held, Fresh, Updating, sourceVars
<1>3. CASE Poll \/ ReloadLPs \/ RefreshBalances \/ \E x \in Obj : DeadlinePasses(x)
      BY <1>1, <1>3 DEF Poll, ReloadLPs, RefreshBalances, DeadlinePasses, poolVars,
         sourceVars, pipeVars
<1>4. CASE Die
      BY <1>4 DEF Die, Held, Pooled, InFlight, Fresh, Updating
<1>5. CASE Hub
      BY <1>1, <1>5 DEF Hub, OrderCreated, FeeUpdated, BlockProven, Gone, Execute, Reject, Settle,
         Transfer, GrantOrRevoke, poolVars, sourceVars, pipeVars
<1>6. CASE Restart \/ UNCHANGED vars
      BY <1>1, <1>6 DEF Restart, vars, poolVars, sourceVars, pipeVars
<1>   QED BY <1>2, <1>3, <1>4, <1>5, <1>6, SourceHeld DEF Next, Client, Panic, Fatal, Crash

\* Only an allocation changes the height of an order, or whose it is.
LEMMA HeightStep ==
    ASSUME TypeOK, [Next]_vars, NEW o \in Obj, o \in Held \/ \E s \in Source : task[s] # Nil /\ task[s].order = o
    PROVE  Die \/ proofHeight'[o] = proofHeight[o]
<1>1. ASSUME NEW s \in Source, SourceStep(s)
      PROVE  proofHeight'[o] = proofHeight[o]
  <2>1. ASSUME NEW m \in inbox[s], NEW x \in Obj, LookupNew(s, m, x)
        PROVE  proofHeight'[o] = proofHeight[o]
    <3>1. x # o
          BY <2>1 DEF LookupNew, Unreferenced, Working, Held, Fresh, Updating
    <3>   QED BY <2>1, <3>1 DEF LookupNew, TypeOK, OrderTypeOK
  <2>   QED BY <1>1, <2>1 DEF SourceStep, LookupPooled, Update, Refuse, Admit, NoProvider,
             NoteMiss, TrackOrders, orderVars
<1>2. CASE \E f \in Fulfiller : FulfillerStep(f)
      BY <1>2 DEF FulfillerStep, ReceiveBatch, Submit, Succeed, Fail, RPCError,
         SendSuccesses, SendFailures, orderVars
<1>3. CASE ValidatorStep
      BY <1>3 DEF ValidatorStep, ReceiveToCheck, NodeError, FoundValid, GiveUp, NotValidYet,
         ReleaseEvicted, SendValid, AddRetried, orderVars
<1>4. CASE ManagerStep \/ (\E c \in Checker : CheckerStep(c))
      BY <1>4 DEF ManagerStep, ManageProcessed, CheckerStep, PopOrders, SendToCheck, orderVars
<1>5. CASE Poll \/ ReloadLPs \/ RefreshBalances \/ (\E x \in Obj : DeadlinePasses(x))
           \/ Restart \/ Hub \/ UNCHANGED vars
      BY <1>5 DEF Poll, ReloadLPs, RefreshBalances, DeadlinePasses, Restart, Hub, OrderCreated,
         FeeUpdated, BlockProven, Gone, Execute, Reject, Settle, Transfer, GrantOrRevoke, vars,
         orderVars
<1>   QED BY <1>1, <1>2, <1>3, <1>4, <1>5 DEF Next, Client, Panic, Fatal, Crash

\* A source goes on with its order, or begins with one it has a message about.
LEMMA TaskStep ==
    ASSUME TypeOK, [Next]_vars, NEW s \in Source, task'[s] # Nil
    PROVE  \/ /\ task[s] # Nil
              /\ task'[s].order = task[s].order /\ task'[s].terms = task[s].terms
           \/ \E m \in inbox[s] :
                 /\ task'[s].terms = m.terms /\ IdOf[task'[s].order] = m.id
                 /\ task'[s].order \in Held \/ \E x \in Obj : LookupNew(s, m, x) /\ task'[s].order = x
<1>  DEFINE Goes == \/ /\ task[s] # Nil
                       /\ task'[s].order = task[s].order /\ task'[s].terms = task[s].terms
                    \/ \E m \in inbox[s] :
                          /\ task'[s].terms = m.terms /\ IdOf[task'[s].order] = m.id
                          /\ \/ task'[s].order \in Held
                             \/ \E x \in Obj : LookupNew(s, m, x) /\ task'[s].order = x
<1>1. CASE task'[s] = task[s]
      BY <1>1
<1>2. ASSUME NEW t \in Source, SourceStep(t)
      PROVE  Goes
  <2>1. ASSUME t # s PROVE task'[s] = task[s]
        BY <1>2, <2>1 DEF SourceStep, LookupPooled, LookupNew, Update, Refuse, Admit, NoProvider,
           NoteMiss, TrackOrders, TypeOK, SourceTypeOK
  <2>2. ASSUME t = s, NEW m \in inbox[s], LookupPooled(s, m)
        PROVE  Goes
    <3>1. m.id \in Id /\ pool[m.id] # Nil
          BY <2>2 DEF LookupPooled, getOrder, TypeOK, SourceTypeOK, Message
    <3>2. pool[m.id] \in Held /\ IdOf[pool[m.id]] = m.id
          BY <3>1 DEF Held, Pooled, TypeOK, PoolTypeOK
    <3>3. task'[s] = [step |-> "update", order |-> pool[m.id], terms |-> m.terms]
          BY <2>2 DEF LookupPooled, getOrder, TypeOK, SourceTypeOK
    <3>   QED BY <3>2, <3>3
  <2>3. ASSUME t = s, NEW m \in inbox[s], NEW x \in Obj, LookupNew(s, m, x)
        PROVE  Goes
    <3>1. task'[s] = [step |-> "admit", order |-> x, terms |-> m.terms] /\ IdOf[x] = m.id
          BY <2>3 DEF LookupNew, TypeOK, SourceTypeOK
    <3>   QED BY <2>3, <3>1
  <2>4. ASSUME t = s, Update(s) \/ Refuse(s) \/ Admit(s) \/ NoteMiss(s) \/ TrackOrders(s)
        PROVE  task'[s] \in {Nil, task[s]}
        BY <2>4 DEF Update, Refuse, Admit, NoteMiss, TrackOrders, TypeOK, SourceTypeOK
  <2>5. ASSUME t = s, NoProvider(s)
        PROVE  Goes
        BY <2>5 DEF NoProvider, TypeOK, SourceTypeOK, Task
  <2>   QED BY <1>1, <1>2, <2>1, <2>2, <2>3, <2>4, <2>5 DEF SourceStep
<1>3. CASE (\E c \in Checker : CheckerStep(c)) \/ (\E f \in Fulfiller : FulfillerStep(f))
           \/ ManagerStep \/ ValidatorStep
      BY <1>1, <1>3, CheckerHeld, FulfillerHeld, ManagerHeld, ValidatorHeld DEF sourceVars
<1>4. CASE Poll \/ ReloadLPs \/ RefreshBalances \/ \E x \in Obj : DeadlinePasses(x)
      BY <1>1, <1>4 DEF Poll, ReloadLPs, RefreshBalances, DeadlinePasses, sourceVars
<1>5. CASE Die
      BY <1>5 DEF Die
<1>6. CASE Hub \/ Restart \/ UNCHANGED vars
      BY <1>1, <1>6 DEF Hub, OrderCreated, FeeUpdated, BlockProven, Gone, Execute, Reject, Settle,
         Transfer, GrantOrRevoke, Restart, vars, sourceVars
<1>   QED BY <1>2, <1>3, <1>4, <1>5, <1>6 DEF Next, Client, Panic, Fatal, Crash

----------------------------------------------------------------------------
(* What the protocol means for the transactions.                           *)

\* The places behind the validator's list, and the orders in them.
Beyond ==
    UNION {{ValidOrders},
           {Output(k) : k \in OutputSlot},
           UNION {{Batch(f), InTx(f), Successes(f), Failures(f)} : f \in Fulfiller},
           {Processed(k) : k \in ProcessedSlot}}

BeyondOrders == UNION {hold[p] : p \in Beyond}

Messages == orphans \cup {wire[f].msgs : f \in Fulfiller}

WireCarries == \A f \in Fulfiller : TxIds(f) \subseteq {IdOf[o] : o \in hold[InTx(f)]}

RetryAlone ==
    \A o \in retry :
        /\ pool[IdOf[o]] # Nil
        /\ \A x \in BeyondOrders \cup hold[ToValidate] : IdOf[x] # IdOf[o]

----------------------------------------------------------------------------
\* The places behind the validator's list are places; the others are not.
LEMMA BeyondMembers ==
    /\ Beyond \subseteq Place
    /\ ValidOrders \in Beyond
    /\ \A k \in OutputSlot : Output(k) \in Beyond
    /\ \A f \in Fulfiller : /\ Batch(f) \in Beyond /\ InTx(f) \in Beyond
                            /\ Successes(f) \in Beyond /\ Failures(f) \in Beyond
    /\ \A k \in ProcessedSlot : Processed(k) \in Beyond
    /\ ToValidate \notin Beyond
    /\ \A c : Popped(c) \notin Beyond
    /\ \A k : ToCheck(k) \notin Beyond
<1>1. ToValidate \notin Beyond
      BY DEF Beyond, ToValidate, ValidOrders, Output, Batch, InTx, Successes, Failures, Processed
<1>2. \A c : Popped(c) \notin Beyond
      BY DEF Beyond, Popped, ValidOrders, Output, Batch, InTx, Successes, Failures, Processed
<1>3. \A k : ToCheck(k) \notin Beyond
      BY DEF Beyond, ToCheck, ValidOrders, Output, Batch, InTx, Successes, Failures, Processed
<1>   QED BY <1>1, <1>2, <1>3 DEF Beyond, Place

\* A fulfiller's chunk is in a place no other list or channel shares.
LEMMA InTxDiffers ==
    /\ \A f, g : f # g => InTx(f) # InTx(g)
    /\ \A f, g : InTx(f) # Batch(g) /\ InTx(f) # Successes(g) /\ InTx(f) # Failures(g)
    /\ \A f, k : /\ InTx(f) # Popped(k) /\ InTx(f) # ToCheck(k)
                 /\ InTx(f) # Output(k) /\ InTx(f) # Processed(k)
    /\ \A f : InTx(f) # ToValidate /\ InTx(f) # ValidOrders
BY DEF Popped, ToCheck, ToValidate, ValidOrders, Output, Batch, InTx,
       Successes, Failures, Processed

\* Two places behind the validator exchange orders among themselves.
LEMMA MoveWithin ==
    ASSUME TypeOK, NEW from \in Beyond, NEW to \in Beyond,
           NEW os \in SUBSET hold[from], Move(os, from, to)
    PROVE  BeyondOrders' \subseteq BeyondOrders
<1>1. from \in Place /\ to \in Place
      BY BeyondMembers
<1>2. \A p \in Place : hold'[p] \subseteq hold[p] \cup hold[from]
      BY <1>1 DEF Move, TypeOK, PipeTypeOK
<1>   QED BY <1>2, BeyondMembers DEF BeyondOrders

\* Moves and drops elsewhere do not matter to them.
LEMMA SameBeyond ==
    ASSUME \A p \in Beyond : hold'[p] = hold[p]
    PROVE  BeyondOrders' = BeyondOrders
BY DEF BeyondOrders, Beyond

\* Only orders found valid get past the validator's list.
LEMMA BeyondStep ==
    ASSUME TypeOK, [Next]_vars
    PROVE  \A o \in BeyondOrders' :
              o \in BeyondOrders \/ (o \in Obj /\ FoundValid(o))
<1>1. CASE UNCHANGED hold
      BY <1>1, SameBeyond
<1>2. CASE Die
      BY <1>2, BeyondMembers DEF Die, BeyondOrders, Beyond
<1>3. ASSUME NEW c \in Checker, PopOrders(c)
      PROVE  BeyondOrders' = BeyondOrders
      BY <1>3, BeyondMembers, SameBeyond DEF PopOrders, TypeOK, PipeTypeOK
<1>4. ASSUME NEW c \in Checker, NEW k \in ToCheckSlot, SendToCheck(c, k)
      PROVE  BeyondOrders' = BeyondOrders
      BY <1>4, BeyondMembers, SameBeyond DEF SendToCheck, Move, TypeOK, PipeTypeOK
<1>5. ASSUME NEW k \in ToCheckSlot, ReceiveToCheck(k)
      PROVE  BeyondOrders' = BeyondOrders
      BY <1>5, BeyondMembers, SameBeyond DEF ReceiveToCheck, Move, TypeOK, PipeTypeOK
<1>6. ASSUME NEW o \in Obj, NodeError(o) \/ GiveUp(o) \/ NotValidYet(o)
      PROVE  BeyondOrders' = BeyondOrders
      <2>1. Drop({o}, ToValidate)
            BY <1>6 DEF NodeError, GiveUp, Evict, NotValidYet
      <2>   QED BY <2>1, BeyondMembers, SameBeyond DEF Drop, TypeOK, PipeTypeOK
<1>7. ASSUME NEW o \in Obj, FoundValid(o)
      PROVE  BeyondOrders' \subseteq BeyondOrders \cup {o}
      <2>1. \A p \in Beyond : hold'[p] \subseteq hold[p] \cup {o}
            BY <1>7, BeyondMembers DEF FoundValid, Move, TypeOK, PipeTypeOK
      <2>   QED BY <2>1 DEF BeyondOrders
<1>8. ASSUME NEW k \in OutputSlot, SendValid(k)
      PROVE  BeyondOrders' \subseteq BeyondOrders
      BY <1>8, BeyondMembers, MoveWithin DEF SendValid, Chunks
<1>9. ASSUME NEW f \in Fulfiller, FulfillerStep(f)
      PROVE  BeyondOrders' \subseteq BeyondOrders
      <2>1. ASSUME NEW k \in OutputSlot, ReceiveBatch(f, k)
            PROVE  BeyondOrders' \subseteq BeyondOrders
            BY <2>1, BeyondMembers, MoveWithin DEF ReceiveBatch
      <2>2. CASE Submit(f)
            BY <2>2, BeyondMembers, MoveWithin DEF Submit, Chunks
      <2>3. CASE Succeed(f)
            BY <2>3, BeyondMembers, MoveWithin DEF Succeed
      <2>4. CASE Fail(f) \/ RPCError(f)
            <3>1. \A p \in Beyond : hold'[p] \subseteq hold[p] \cup hold[InTx(f)]
                  BY <2>4, BeyondMembers, PlacesDiffer DEF Fail, RPCError, TypeOK, PipeTypeOK
            <3>   QED BY <3>1, BeyondMembers DEF BeyondOrders
      <2>5. ASSUME NEW k \in ProcessedSlot, SendSuccesses(f, k) \/ SendFailures(f, k)
            PROVE  BeyondOrders' \subseteq BeyondOrders
            BY <2>5, BeyondMembers, MoveWithin DEF SendSuccesses, SendFailures
      <2>   QED BY <1>9, <2>1, <2>2, <2>3, <2>4, <2>5 DEF FulfillerStep
<1>10. ASSUME NEW k \in ProcessedSlot, NEW o \in Obj, ManageProcessed(k, o)
      PROVE  BeyondOrders' \subseteq BeyondOrders
      <2>1. \A p \in Beyond : hold'[p] \subseteq hold[p]
            BY <1>10, BeyondMembers DEF ManageProcessed, Drop, TypeOK, PipeTypeOK
      <2>   QED BY <2>1 DEF BeyondOrders
<1>11. CASE Client
      <2>1. CASE Poll \/ \E s \in Source : SourceStep(s)
            BY <1>1, <2>1, SourceQuiet DEF Poll, pipeVars
      <2>2. CASE \E c \in Checker : CheckerStep(c)
            BY <1>3, <1>4, <2>2 DEF CheckerStep
      <2>3. CASE ValidatorStep
            <3>1. ReleaseEvicted \/ AddRetried => UNCHANGED hold
                  BY DEF ReleaseEvicted, AddRetried
            <3>   QED BY <1>1, <1>5, <1>6, <1>7, <1>8, <2>3, <3>1 DEF ValidatorStep
      <2>4. CASE \E f \in Fulfiller : FulfillerStep(f)
            BY <1>9, <2>4
      <2>5. CASE ManagerStep
            BY <1>10, <2>5 DEF ManagerStep
      <2>6. CASE ReloadLPs \/ RefreshBalances \/ \E o \in Obj : DeadlinePasses(o)
            BY <1>1, <2>6 DEF ReloadLPs, RefreshBalances, DeadlinePasses, pipeVars
      <2>7. CASE Panic \/ Crash \/ \E f \in Fulfiller : Fatal(f)
            BY <1>2, <2>7 DEF Panic, Fatal, Crash
      <2>   QED BY <1>11, <2>1, <2>2, <2>3, <2>4, <2>5, <2>6, <2>7 DEF Client
<1>12. CASE Restart \/ Hub \/ UNCHANGED vars
      <2>1. UNCHANGED hold
            BY <1>12 DEF Restart, Hub, OrderCreated, FeeUpdated, BlockProven, Gone, Execute,
                   Reject, Settle, Transfer, GrantOrRevoke, vars, pipeVars
      <2>   QED BY <1>1, <2>1
<1>   QED BY <1>11, <1>12 DEF Next

\* While an order waits to be retried the validator takes no new list.
LEMMA ToValidateStep ==
    ASSUME TypeOK, [Next]_vars, retry # {}
    PROVE  hold'[ToValidate] \subseteq hold[ToValidate]
<1>1. CASE UNCHANGED hold
      BY <1>1
<1>2. CASE Die
      BY <1>2, PlaceMembers DEF Die
<1>3. CASE \E c \in Checker : CheckerStep(c)
      BY <1>3, PlaceMembers, BeyondMembers, PlacesDiffer DEF CheckerStep, PopOrders, SendToCheck, Move, TypeOK, PipeTypeOK, Popped, ToValidate
<1>4. CASE ValidatorStep
      <2>1. \A k : ~ReceiveToCheck(k)
            BY DEF ReceiveToCheck, ValidatorIdle
      <2>2. ReleaseEvicted \/ AddRetried => UNCHANGED hold
            BY DEF ReleaseEvicted, AddRetried
      <2>3. \A o \in Obj : NodeError(o) \/ GiveUp(o) \/ NotValidYet(o) => Drop({o}, ToValidate)
            BY DEF NodeError, GiveUp, Evict, NotValidYet
      <2>4. \A o \in Obj : FoundValid(o) => Move({o}, ToValidate, ValidOrders)
            BY DEF FoundValid
      <2>5. ASSUME NEW k \in OutputSlot, SendValid(k)
            PROVE  hold'[ToValidate] \subseteq hold[ToValidate]
            BY <2>5, BeyondMembers, PlaceMembers DEF SendValid, Move, TypeOK, PipeTypeOK
      <2>   QED BY <1>1, <1>4, <2>1, <2>2, <2>3, <2>4, <2>5, PlaceMembers, PlacesDiffer
                DEF ValidatorStep, Drop, Move, TypeOK, PipeTypeOK
<1>5. ASSUME NEW f \in Fulfiller, FulfillerStep(f)
      PROVE  hold'[ToValidate] \subseteq hold[ToValidate]
      <2>1. CASE \E k \in OutputSlot : ReceiveBatch(f, k)
            BY <2>1, BeyondMembers, PlaceMembers DEF ReceiveBatch, Move, TypeOK, PipeTypeOK
      <2>2. CASE Submit(f) \/ Succeed(f)
            BY <2>2, BeyondMembers, PlaceMembers DEF Submit, Succeed, Move, TypeOK, PipeTypeOK
      <2>3. CASE Fail(f) \/ RPCError(f)
            BY <2>3, BeyondMembers, PlaceMembers DEF Fail, RPCError, TypeOK, PipeTypeOK
      <2>4. CASE \E k \in ProcessedSlot : SendSuccesses(f, k) \/ SendFailures(f, k)
            BY <2>4, BeyondMembers, PlaceMembers DEF SendSuccesses, SendFailures, Move, TypeOK, PipeTypeOK
      <2>   QED BY <1>5, <2>1, <2>2, <2>3, <2>4 DEF FulfillerStep
<1>6. CASE ManagerStep
      BY <1>6, BeyondMembers, PlaceMembers DEF ManagerStep, ManageProcessed, Drop, TypeOK, PipeTypeOK
<1>7. CASE Client
      <2>1. CASE Poll \/ \E s \in Source : SourceStep(s)
            BY <1>1, <2>1, SourceQuiet DEF Poll, pipeVars
      <2>2. CASE ReloadLPs \/ RefreshBalances \/ \E o \in Obj : DeadlinePasses(o)
            BY <1>1, <2>2 DEF ReloadLPs, RefreshBalances, DeadlinePasses, pipeVars
      <2>3. CASE Panic \/ Crash \/ \E f \in Fulfiller : Fatal(f)
            BY <1>2, <2>3 DEF Panic, Fatal, Crash
      <2>   QED BY <1>3, <1>4, <1>5, <1>6, <1>7, <2>1, <2>2, <2>3 DEF Client
<1>8. CASE Restart \/ Hub \/ UNCHANGED vars
      BY <1>1, <1>8 DEF Restart, Hub, OrderCreated, FeeUpdated, BlockProven, Gone, Execute,
         Reject, Settle, Transfer, GrantOrRevoke, vars, pipeVars
<1>   QED BY <1>7, <1>8 DEF Next

----------------------------------------------------------------------------
(* Only proven orders are submitted, but for those without a height.       *)

\* What the poller makes of a height it cannot read.
HeightUnread(o) == proofHeight[o] = 0 /\ IdOf[o] \in Unreadable /\ "poller" \in Source

HeightsRead ==
    /\ \A o \in Held : proofHeight[o] = HeightOf[IdOf[o]] \/ HeightUnread(o)
    /\ \A s \in Source : task[s] # Nil =>
          LET o == task[s].order
          IN  proofHeight[o] = HeightOf[IdOf[o]] \/ HeightUnread(o)

\* A block is validated together with those below it.
ProvenBelow ==
    \A i, j \in Id : RollappOf[i] = RollappOf[j] /\ HeightOf[i] <= HeightOf[j] /\ j \in proven
                        => i \in proven

\* So what the height asked last vouches for is validated.
CacheProven ==
    \A id \in Id : LET h == lastValidHeight[RollappOf[id]]
                   IN  h # Nil /\ HeightOf[id] <= h => id \in proven

Vouched(o) == IdOf[o] \in proven \/ HeightUnread(o)

BeyondProven == \A o \in BeyondOrders : Vouched(o)

ProvenInv == HeightsRead /\ ProvenBelow /\ CacheProven /\ BeyondProven

\* Only the full nodes validate blocks,
LEMMA ProvenStep ==
    ASSUME [Next]_vars
    PROVE  proven' = proven \/ \E id \in Id : BlockProven(id)
<1>1. CASE UNCHANGED hubVars
      BY <1>1 DEF hubVars
<1>2. CASE Client
      <2>1. CASE Poll \/ \E s \in Source : SourceStep(s)
            BY <1>1, <2>1, SourceQuiet DEF Poll
      <2>2. CASE ManagerStep \/ \E c \in Checker : CheckerStep(c)
            BY <1>1, <2>2 DEF CheckerStep, PopOrders, SendToCheck, ManagerStep, ManageProcessed
      <2>3. CASE ValidatorStep
            BY <1>1, <2>3 DEF ValidatorStep, ReceiveToCheck, NodeError, FoundValid, GiveUp,
               NotValidYet, ReleaseEvicted, SendValid, AddRetried
      <2>4. CASE \E f \in Fulfiller : FulfillerStep(f)
            BY <1>1, <2>4 DEF FulfillerStep, ReceiveBatch, Submit, Succeed, Fail, RPCError,
               SendSuccesses, SendFailures
      <2>5. CASE ReloadLPs \/ RefreshBalances \/ \E o \in Obj : DeadlinePasses(o)
            BY <1>1, <2>5 DEF ReloadLPs, RefreshBalances, DeadlinePasses
      <2>6. CASE Panic \/ Crash \/ \E f \in Fulfiller : Fatal(f)
            BY <1>1, <2>6 DEF Panic, Fatal, Crash, Die
      <2>   QED BY <1>2, <2>1, <2>2, <2>3, <2>4, <2>5, <2>6 DEF Client
<1>3. CASE Hub
      BY <1>3 DEF Hub, OrderCreated, FeeUpdated, BlockProven, Gone, Execute, Reject,
         Settle, Transfer, GrantOrRevoke, hubVars
<1>4. CASE Restart \/ UNCHANGED vars
      BY <1>1, <1>4 DEF Restart, vars
<1>   QED BY <1>2, <1>3, <1>4 DEF Next

\* and blocks stay validated.
LEMMA ProvenGrows ==
    ASSUME [Next]_vars
    PROVE  proven \subseteq proven'
BY ProvenStep DEF BlockProven

\* The height of an order is the one its source has read for its id.
LEMMA HeightsReadKept ==
    ASSUME TypeOK, HeightsRead, [Next]_vars
    PROVE  HeightsRead'
<1>  DEFINE Known(o) == proofHeight[o] = HeightOf[IdOf[o]] \/ HeightUnread(o)
<1>1. CASE Die
      BY <1>1 DEF Die, HeightsRead, HeightUnread, Held, Pooled, InFlight, Fresh, Updating
<1>2. ASSUME ~Die, NEW o \in Obj, Known(o),
             o \in Held \/ \E s \in Source : task[s] # Nil /\ task[s].order = o
      PROVE  Known(o)'
      BY <1>2, HeightStep DEF HeightUnread
<1>3. \A s \in Source : task[s] # Nil => task[s].order \in Obj /\ Known(task[s].order)
      BY DEF HeightsRead, TypeOK, SourceTypeOK, Task
<1>4. \A o \in Held : o \in Obj /\ Known(o)
      BY HeldType DEF HeightsRead
<1>5. ASSUME ~Die, NEW o \in Held' PROVE Known(o)'
  <2>1. CASE o \in Held
        BY <1>2, <1>4, <1>5, <2>1
  <2>2. ASSUME NEW s \in Source, Admit(s), o = task[s].order PROVE Known(o)'
        BY <1>2, <1>3, <1>5, <2>2 DEF Admit
  <2>   QED BY <2>1, <2>2, HeldStep
<1>6. ASSUME ~Die, NEW s \in Source, task'[s] # Nil PROVE Known(task[s].order)'
  <2>1. CASE task[s] # Nil /\ task'[s].order = task[s].order
        BY <1>2, <1>3, <1>6, <2>1
  <2>2. CASE task'[s].order \in Held
        BY <1>2, <1>4, <1>6, <2>2
  <2>3. ASSUME NEW m \in inbox[s], NEW x \in Obj, LookupNew(s, m, x), task'[s].order = x
        PROVE  Known(task[s].order)'
    <3>1. IdOf[x] = m.id /\ proofHeight'[x] = ReadHeight(s, m.id)
          BY <2>3 DEF LookupNew, TypeOK, OrderTypeOK
    <3>   QED BY <2>3, <3>1 DEF ReadHeight, HeightUnread
  <2>   QED BY <1>6, <2>1, <2>2, <2>3, TaskStep
<1>   QED BY <1>1, <1>5, <1>6 DEF HeightsRead, HeightUnread

\* Blocks are validated from below.
LEMMA ProvenBelowKept ==
    ASSUME TypeOK, ProvenBelow, [Next]_vars
    PROVE  ProvenBelow'
<1>1. CASE proven' = proven
      BY <1>1 DEF ProvenBelow
<1>2. ASSUME NEW id \in Id, BlockProven(id) PROVE ProvenBelow'
  <2>1. proven' = proven \cup {i \in Id : RollappOf[i] = RollappOf[id] /\ HeightOf[i] <= HeightOf[id]}
        BY <1>2 DEF BlockProven
  <2>2. \A i \in Id : HeightOf[i] \in Nat
        BY FlowAssumption
  <2>   QED BY <2>1, <2>2 DEF ProvenBelow
<1>   QED BY <1>1, <1>2, ProvenStep

\* The validator answers from what has been confirmed.
LEMMA FoundVouched ==
    ASSUME TypeOK, HeightsRead, CacheProven, NEW o \in Obj, FoundValid(o)
    PROVE  Vouched(o)
<1>1. o \in Held /\ IdOf[o] \in Id
      BY PlaceMembers, PoolAssumption DEF FoundValid, Validating, Held, InFlight
<1>2. proofHeight[o] = HeightOf[IdOf[o]] \/ HeightUnread(o)
      BY <1>1 DEF HeightsRead
<1>3. HeightOf[IdOf[o]] # 0
      BY <1>1, FlowAssumption
<1>4. CASE Cached(o)
      BY <1>1, <1>2, <1>4 DEF Cached, LastValid, CacheProven, Vouched
<1>5. CASE ~Cached(o)
      BY <1>2, <1>3, <1>5 DEF FoundValid, Confirmed, Vouched
<1>   QED BY <1>4, <1>5

\* What it remembers of an answer is confirmed.
LEMMA CacheProvenKept ==
    ASSUME TypeOK, TypeOK', HeightsRead, ProvenBelow, CacheProven, [Next]_vars
    PROVE  CacheProven'
<1>1. proven \subseteq proven'
      BY ProvenGrows
<1>2. ASSUME UNCHANGED lastValidHeight PROVE CacheProven'
      BY <1>1, <1>2 DEF CacheProven
<1>3. ASSUME NEW o \in Obj, GiveUp(o) \/ NotValidYet(o) PROVE CacheProven'
  <2>1. lastValidHeight' = [lastValidHeight EXCEPT ![RollappOf[IdOf[o]]] = Nil]
        BY <1>3 DEF GiveUp, NotValidYet, NoteDenied, Note
  <2>2. \A id \in Id : RollappOf[id] \in Rollapp
        BY FlowAssumption
  <2>   QED BY <1>1, <2>1, <2>2 DEF CacheProven, TypeOK, PipeTypeOK
<1>4. ASSUME NEW o \in Obj, FoundValid(o) PROVE CacheProven'
  <2>1. /\ IdOf[o] \in Id /\ \A id \in Id : RollappOf[id] \in Rollapp /\ HeightOf[id] \in Nat \ {0}
        BY FlowAssumption, PoolAssumption
  <2>2. CASE Cached(o)
        BY <1>2, <1>4, <2>2 DEF FoundValid, Confirmed
  <2>3. CASE ~Cached(o)
    <3>1. lastValidHeight' = [lastValidHeight EXCEPT ![RollappOf[IdOf[o]]] = proofHeight[o]]
          BY <1>4, <2>3 DEF FoundValid, Confirmed, Note
    <3>2. \/ proofHeight[o] = 0
          \/ proofHeight[o] = HeightOf[IdOf[o]] /\ IdOf[o] \in proven
      <4>1. o \in Held
            BY <1>4, PlaceMembers DEF FoundValid, Validating, Held, InFlight
      <4>   QED BY <1>4, <2>3, <4>1 DEF FoundValid, Confirmed, HeightsRead, HeightUnread
    <3>3. ASSUME NEW id \in Id, RollappOf[id] = RollappOf[IdOf[o]], HeightOf[id] <= proofHeight[o]
          PROVE  id \in proven
          BY <2>1, <3>2, <3>3 DEF ProvenBelow
    <3>   QED BY <1>1, <2>1, <3>1, <3>3 DEF CacheProven, TypeOK, PipeTypeOK
  <2>   QED BY <2>2, <2>3
<1>5. CASE Die
      BY <1>5, FlowAssumption DEF Die, CacheProven
<1>6. CASE ValidatorStep
      BY <1>2, <1>3, <1>4, <1>6 DEF ValidatorStep, ReceiveToCheck, NodeError, ReleaseEvicted,
         SendValid, AddRetried
<1>7. CASE \E f \in Fulfiller : FulfillerStep(f)
      BY <1>2, <1>7 DEF FulfillerStep, ReceiveBatch, Submit, Succeed, Fail, RPCError,
         SendSuccesses, SendFailures
<1>8. CASE ManagerStep \/ \E c \in Checker : CheckerStep(c)
      BY <1>2, <1>8 DEF ManagerStep, ManageProcessed, CheckerStep, PopOrders, SendToCheck
<1>9. CASE Poll \/ (\E s \in Source : SourceStep(s)) \/ ReloadLPs \/ RefreshBalances
           \/ \E x \in Obj : DeadlinePasses(x)
      BY <1>2, <1>9, SourceQuiet DEF Poll, ReloadLPs, RefreshBalances, DeadlinePasses, pipeVars
<1>10. CASE Restart \/ Hub \/ UNCHANGED vars
      BY <1>2, <1>10 DEF Restart, Hub, OrderCreated, FeeUpdated, BlockProven, Gone, Execute,
         Reject, Settle, Transfer, GrantOrRevoke, vars, pipeVars
<1>   QED BY <1>5, <1>6, <1>7, <1>8, <1>9, <1>10 DEF Next, Client, Panic, Fatal, Crash

\* Only orders that are vouched for get past the validator's list.
LEMMA BeyondProvenKept ==
    ASSUME TypeOK, HeightsRead, CacheProven, BeyondProven, [Next]_vars
    PROVE  BeyondProven'
<1>1. CASE Die
      BY <1>1, BeyondMembers DEF Die, BeyondProven, BeyondOrders, Vouched, HeightUnread
<1>2. ASSUME ~Die, NEW o \in BeyondOrders' PROVE Vouched(o)'
  <2>1. o \in BeyondOrders \/ FoundValid(o)
        BY BeyondStep
  <2>2. o \in InFlight
        BY <2>1, BeyondMembers, PlaceMembers DEF BeyondOrders, InFlight, FoundValid, Validating
  <2>3. o \in Obj /\ o \in Held
        BY <2>2, HeldType DEF Held
  <2>4. Vouched(o)
        BY <2>1, <2>3, FoundVouched DEF BeyondProven
  <2>5. proofHeight'[o] = proofHeight[o] /\ proven \subseteq proven'
        BY <1>2, <2>3, HeightStep, ProvenGrows
  <2>   QED BY <2>4, <2>5 DEF Vouched, HeightUnread
<1>   QED BY <1>1, <1>2 DEF BeyondProven, Vouched, HeightUnread

\* So the orders beyond it always are.
LEMMA ProvenAlways == Spec => []ProvenInv
<1>1. Init => ProvenInv
      <2>   SUFFICES ASSUME Init PROVE ProvenInv
            OBVIOUS
      <2>1. BeyondOrders = {} /\ Held = {}
            BY BeyondMembers DEF Init, ProcessInit, PoolInit, BeyondOrders, Held, Pooled, InFlight,
               Fresh, Updating
      <2>2. HeightsRead /\ BeyondProven
            BY <2>1 DEF Init, ProcessInit, HeightsRead, BeyondProven
      <2>3. ProvenBelow /\ CacheProven
            BY FlowAssumption DEF Init, ProcessInit, ProvenBelow, CacheProven
      <2>   QED BY <2>2, <2>3 DEF ProvenInv
<1>2. TypeOK /\ TypeOK' /\ ProvenInv /\ [Next]_vars => ProvenInv'
      BY HeightsReadKept, ProvenBelowKept, CacheProvenKept, BeyondProvenKept DEF ProvenInv
<1>   QED BY <1>1, <1>2, TypeCorrect, PTL DEF Spec

(***************************************************************************)
(* Every order the client has submitted, and so far every order it has     *)
(* found valid, has a validated block; or the poller found it and could    *)
(* not read its height (order_tracker.go:205-214, node_client.go:90).  The *)
(* cache of the node client is sound because enough full nodes confirm a   *)
(* height only when they have validated all blocks up to it.               *)
(***************************************************************************)
THEOREM SubmissionsAreProven == Spec => []OnlyProvenSubmitted
<1>1. ProvenInv => OnlyProvenSubmitted
      BY BeyondMembers DEF ProvenInv, BeyondProven, BeyondOrders, OnlyProvenSubmitted, Vouched,
         HeightUnread
<1>   QED BY <1>1, ProvenAlways, PTL

----------------------------------------------------------------------------
(* A retry never re-adds a removed order.                                  *)

\* What waits to be retried was so before, or has just left the validator.
LEMMA RetryStep ==
    ASSUME [Next]_vars
    PROVE  \/ retry' \subseteq retry
           \/ \E o \in Obj : NotValidYet(o)
<1>1. CASE UNCHANGED retry
      BY <1>1
<1>2. CASE Client
      <2>1. CASE Poll \/ \E s \in Source : SourceStep(s)
            BY <1>1, <2>1, SourceQuiet DEF Poll, pipeVars
      <2>2. CASE ManagerStep \/ \E c \in Checker : CheckerStep(c)
            BY <1>1, <2>2 DEF CheckerStep, PopOrders, SendToCheck, ManagerStep, ManageProcessed
      <2>3. CASE ValidatorStep
            BY <1>1, <2>3 DEF ValidatorStep, ReceiveToCheck, NodeError, FoundValid, GiveUp,
               ReleaseEvicted, SendValid, AddRetried
      <2>4. CASE \E f \in Fulfiller : FulfillerStep(f)
            BY <1>1, <2>4 DEF FulfillerStep, ReceiveBatch, Submit, Succeed, Fail, RPCError,
               SendSuccesses, SendFailures
      <2>5. CASE ReloadLPs \/ RefreshBalances \/ \E o \in Obj : DeadlinePasses(o)
            BY <1>1, <2>5 DEF ReloadLPs, RefreshBalances, DeadlinePasses, pipeVars
      <2>6. CASE Panic \/ Crash \/ \E f \in Fulfiller : Fatal(f)
            BY <2>6 DEF Panic, Fatal, Crash, Die
      <2>   QED BY <1>2, <2>1, <2>2, <2>3, <2>4, <2>5, <2>6 DEF Client
<1>3. CASE Restart \/ Hub \/ UNCHANGED vars
      BY <1>1, <1>3 DEF Restart, Hub, OrderCreated, FeeUpdated, BlockProven, Gone, Execute,
         Reject, Settle, Transfer, GrantOrRevoke, vars, pipeVars
<1>   QED BY <1>2, <1>3 DEF Next

\* A pool entry is removed on behalf of an order in the validator's list or
\* behind it, or by the end of the process.
LEMMA RemovalStep ==
    ASSUME TypeOK, SingleFlight, [Next]_vars, NEW id \in Id,
           pool[id] # Nil, pool'[id] = Nil
    PROVE  \/ retry' = {}
           \/ \E x \in BeyondOrders \cup hold[ToValidate] : IdOf[x] = id
<1>1. CASE UNCHANGED pool
      BY <1>1
<1>2. ASSUME NEW os \in SUBSET Obj, upsertOrder(os)
      PROVE  FALSE
      BY <1>2, InListType, PoolAssumption DEF upsertOrder
<1>3. CASE Client
      <2>1. CASE Poll
            BY <1>1, <2>1 DEF Poll, poolVars
      <2>2. ASSUME NEW s \in Source, SourceStep(s)
            PROVE  FALSE
            <3>1. CASE \E m \in inbox[s] : LookupPooled(s, m)
                  BY <3>1 DEF LookupPooled, poolVars
            <3>2. CASE \E m \in inbox[s] : \E o \in Obj : LookupNew(s, m, o)
                  BY <3>2 DEF LookupNew
            <3>3. CASE Update(s)
                  <4>1. {task[s].order} \in SUBSET Obj
                        BY <3>3 DEF TypeOK, SourceTypeOK, Update, Task
                  <4>   QED BY <1>2, <3>3, <4>1 DEF Update
            <3>4. CASE Refuse(s) \/ Admit(s)
                  BY <3>4 DEF Refuse, Admit, poolVars
            <3>5. CASE NoProvider(s) \/ NoteMiss(s)
                  BY <3>5 DEF NoProvider, NoteMiss, poolVars
            <3>6. CASE TrackOrders(s)
                  BY <1>2, <3>6 DEF TrackOrders, TypeOK, SourceTypeOK
            <3>   QED BY <2>2, <3>1, <3>2, <3>3, <3>4, <3>5, <3>6 DEF SourceStep
      <2>3. CASE \E c \in Checker : CheckerStep(c)
            BY <1>1, <2>3 DEF CheckerStep, PopOrders, SendToCheck, poolVars
      <2>4. CASE ValidatorStep
            <3>1. AddRetried => retry' = {}
                  BY DEF AddRetried
            <3>2. ASSUME NEW o \in Obj, GiveUp(o)
                  PROVE  o \in hold[ToValidate] /\ IdOf[o] = id
                  BY <3>2 DEF GiveUp, Evict, removeOrder, Validating, TypeOK, PoolTypeOK
            <3>   QED BY <1>1, <2>4, <3>1, <3>2 DEF ValidatorStep, ReceiveToCheck, NodeError,
                     FoundValid, NotValidYet, ReleaseEvicted, SendValid, poolVars
      <2>5. CASE \E f \in Fulfiller : FulfillerStep(f)
            BY <1>1, <2>5 DEF FulfillerStep, ReceiveBatch, Submit, Succeed, Fail, RPCError,
               SendSuccesses, SendFailures, poolVars
      <2>6. CASE ManagerStep
            <3>1. PICK k \in ProcessedSlot, o \in Obj : ManageProcessed(k, o)
                  BY <2>6 DEF ManagerStep
            <3>2. IdOf[o] = id
                  BY <3>1 DEF ManageProcessed, removeOrder, TypeOK, PoolTypeOK
            <3>3. o \in BeyondOrders
                  BY <3>1, BeyondMembers DEF ManageProcessed, BeyondOrders
            <3>   QED BY <3>2, <3>3
      <2>7. CASE ReloadLPs \/ RefreshBalances \/ \E o \in Obj : DeadlinePasses(o)
            BY <1>1, <2>7 DEF ReloadLPs, RefreshBalances, DeadlinePasses, poolVars
      <2>8. CASE Panic \/ Crash \/ \E f \in Fulfiller : Fatal(f)
            BY <2>8 DEF Panic, Fatal, Crash, Die
      <2>   QED BY <1>3, <2>1, <2>2, <2>3, <2>4, <2>5, <2>6, <2>7, <2>8 DEF Client
<1>4. CASE Restart \/ Hub \/ UNCHANGED vars
      BY <1>1, <1>4 DEF Restart, Hub, OrderCreated, FeeUpdated, BlockProven, Gone, Execute,
         Reject, Settle, Transfer, GrantOrRevoke, vars, poolVars
<1>   QED BY <1>3, <1>4 DEF Next

\* An order put aside for a retry has left every place, and so has its id.
LEMMA NewRetry ==
    ASSUME TypeOK, SingleFlight, NEW o \in Obj, NotValidYet(o)
    PROVE  /\ retry' = retry \cup {o}
           /\ pool' = pool /\ pool[IdOf[o]] # Nil
           /\ \A x \in BeyondOrders' \cup hold'[ToValidate] : IdOf[x] # IdOf[o]
<1>1. ToValidate \in Place /\ o \in hold[ToValidate]
      BY PlaceMembers DEF NotValidYet, Validating
<1>2. o \in InFlight /\ InFlight' = InFlight \ {o}
      <2>1. o \in InFlight
            BY <1>1 DEF InFlight
      <2>   QED BY <1>1, <2>1, DropApart DEF TypeOK, PipeTypeOK, SingleFlight, NotValidYet
<1>3. \A x \in InFlight' : IdOf[x] # IdOf[o]
      BY <1>2 DEF SingleFlight, Claimed
<1>4. BeyondOrders' \cup hold'[ToValidate] \subseteq InFlight'
      BY BeyondMembers, PlaceMembers DEF BeyondOrders, InFlight, Beyond, Place
<1>   QED BY <1>2, <1>3, <1>4, ClaimGuards, PoolAssumption DEF NotValidYet, SingleFlight, Claimed

(***************************************************************************)
(* addOrder, called after a round of validation for the orders to retry,   *)
(* never finds an id missing from the pool: the retry cannot bring back an *)
(* order that was fulfilled, failed or evicted meanwhile.                  *)
(***************************************************************************)
THEOREM RetriesStayPooled == Spec => []RetriedStayPooled
<1>1. Init => RetryAlone
      BY DEF Init, ProcessInit, RetryAlone
<1>2. TypeOK /\ TypeOK' /\ SingleFlight /\ RetryAlone /\ [Next]_vars => RetryAlone'
      <2>   SUFFICES ASSUME TypeOK, TypeOK', SingleFlight, RetryAlone, [Next]_vars
                     PROVE  RetryAlone'
            OBVIOUS
      <2>1. CASE \E o \in Obj : NotValidYet(o)
            <3>1. PICK o \in Obj : NotValidYet(o)
                  BY <2>1
            <3>2. \A x \in BeyondOrders' \cup hold'[ToValidate] :
                        x \in BeyondOrders \cup hold[ToValidate]
                  <4>1. hold'[ToValidate] \subseteq hold[ToValidate]
                        BY <3>1, PlaceMembers DEF NotValidYet, Drop, TypeOK, PipeTypeOK
                  <4>   QED BY <4>1, BeyondStep DEF FoundValid, Validating
            <3>   QED BY <3>1, <3>2, NewRetry DEF RetryAlone
      <2>2. CASE retry' \subseteq retry /\ retry' # {}
            <3>1. hold'[ToValidate] \subseteq hold[ToValidate]
                  BY <2>2, ToValidateStep
            <3>2. \A x \in BeyondOrders' \cup hold'[ToValidate] :
                        x \in BeyondOrders \cup hold[ToValidate]
                  BY <3>1, BeyondStep DEF FoundValid, Validating
            <3>3. \A o \in retry' : o \in Obj /\ IdOf[o] \in Id /\ pool'[IdOf[o]] # Nil
                  BY <2>2, RemovalStep, PoolAssumption DEF RetryAlone, TypeOK, PipeTypeOK
            <3>   QED BY <2>2, <3>2, <3>3 DEF RetryAlone
      <2>3. CASE retry' = {}
            BY <2>3 DEF RetryAlone
      <2>   QED BY <2>1, <2>2, <2>3, RetryStep
<1>3. RetryAlone => RetriedStayPooled
      BY DEF RetryAlone, RetriedStayPooled
<1>   QED BY <1>1, <1>2, <1>3, TypeCorrect, FlightsAreSingle, PTL DEF Spec

----------------------------------------------------------------------------
(* No order is in two transactions.                                        *)

\* A fulfiller's chunk and its transaction change together: when it submits
\* them, and when it lets go of both.
LEMMA InTxStep ==
    ASSUME TypeOK, [Next]_vars, NEW f \in Fulfiller
    PROVE  \/ hold'[InTx(f)] = hold[InTx(f)] /\ TxIds(f)' = TxIds(f)
           \/ Submit(f)
           \/ TxIds(f)' = {}
<1>1. InTx(f) \in Place
      BY PlaceMembers
<1>2. CASE UNCHANGED <<hold, wire>>
      BY <1>2 DEF TxIds
<1>3. CASE Die
      BY <1>3 DEF Die, TxIds, NoTx
<1>4. CASE \E c \in Checker : CheckerStep(c)
      <2>1. wire' = wire /\ hold'[InTx(f)] = hold[InTx(f)]
            BY <1>1, <1>4, InTxDiffers DEF CheckerStep, PopOrders, SendToCheck, Move,
               TypeOK, PipeTypeOK, txVars
      <2>   QED BY <2>1 DEF TxIds
<1>5. CASE ValidatorStep
      <2>1. wire' = wire
            BY <1>5 DEF ValidatorStep, ReceiveToCheck, NodeError, FoundValid, GiveUp,
               NotValidYet, ReleaseEvicted, SendValid, AddRetried, txVars
      <2>2. ReleaseEvicted \/ AddRetried => UNCHANGED hold
            BY DEF ReleaseEvicted, AddRetried
      <2>3. \A k \in ToCheckSlot : ReceiveToCheck(k) => hold'[InTx(f)] = hold[InTx(f)]
            BY <1>1, InTxDiffers DEF ReceiveToCheck, Move, TypeOK, PipeTypeOK
      <2>4. \A o \in Obj : NodeError(o) \/ GiveUp(o) \/ NotValidYet(o)
                              => hold'[InTx(f)] = hold[InTx(f)]
            BY <1>1, InTxDiffers DEF NodeError, GiveUp, Evict, NotValidYet, Drop,
               TypeOK, PipeTypeOK
      <2>5. \A o \in Obj : FoundValid(o) => hold'[InTx(f)] = hold[InTx(f)]
            BY <1>1, InTxDiffers DEF FoundValid, Move, TypeOK, PipeTypeOK
      <2>6. \A k \in OutputSlot : SendValid(k) => hold'[InTx(f)] = hold[InTx(f)]
            BY <1>1, InTxDiffers DEF SendValid, Move, TypeOK, PipeTypeOK
      <2>   QED BY <1>5, <2>1, <2>2, <2>3, <2>4, <2>5, <2>6 DEF ValidatorStep, TxIds
<1>6. ASSUME NEW g \in Fulfiller, FulfillerStep(g)
      PROVE  \/ hold'[InTx(f)] = hold[InTx(f)] /\ TxIds(f)' = TxIds(f)
             \/ Submit(f)
             \/ TxIds(f)' = {}
      <2>1. CASE \E k \in OutputSlot : ReceiveBatch(g, k)
            BY <1>1, <2>1, InTxDiffers DEF ReceiveBatch, Move, TypeOK, PipeTypeOK, txVars, TxIds
      <2>2. CASE \E k \in ProcessedSlot : SendSuccesses(g, k) \/ SendFailures(g, k)
            BY <1>1, <2>2, InTxDiffers DEF SendSuccesses, SendFailures, Move,
               TypeOK, PipeTypeOK, txVars, TxIds
      <2>3. CASE g = f /\ (Succeed(f) \/ Fail(f) \/ RPCError(f))
            BY <2>3 DEF Succeed, Fail, RPCError, Abort, NoTx, TypeOK, TxTypeOK, TxIds
      <2>4. CASE g # f /\ (Submit(g) \/ Succeed(g))
            <3>1. wire'[f] = wire[f]
                  BY <2>4 DEF Submit, Succeed, TypeOK, TxTypeOK
            <3>2. Submit(g) => hold'[InTx(f)] = hold[InTx(f)]
                  BY <1>1, <2>4, InTxDiffers DEF Submit, Move, TypeOK, PipeTypeOK
            <3>3. Succeed(g) => hold'[InTx(f)] = hold[InTx(f)]
                  BY <1>1, <2>4, InTxDiffers DEF Succeed, Move, TypeOK, PipeTypeOK
            <3>   QED BY <2>4, <3>1, <3>2, <3>3 DEF TxIds
      <2>5. CASE g # f /\ (Fail(g) \/ RPCError(g))
            BY <1>1, <2>5, InTxDiffers DEF Fail, RPCError, Abort, TypeOK, PipeTypeOK,
               TxTypeOK, TxIds
      <2>   QED BY <1>6, <2>1, <2>2, <2>3, <2>4, <2>5 DEF FulfillerStep
<1>7. CASE ManagerStep
      BY <1>1, <1>7, InTxDiffers DEF ManagerStep, ManageProcessed, Drop, TypeOK,
         PipeTypeOK, txVars, TxIds
<1>8. CASE Client
      <2>1. CASE Poll \/ \E s \in Source : SourceStep(s)
            BY <1>2, <2>1, SourceQuiet DEF Poll, pipeVars, txVars
      <2>2. CASE ReloadLPs \/ RefreshBalances \/ \E o \in Obj : DeadlinePasses(o)
            BY <1>2, <2>2 DEF ReloadLPs, RefreshBalances, DeadlinePasses, pipeVars, txVars
      <2>3. CASE Panic \/ Crash \/ \E g \in Fulfiller : Fatal(g)
            BY <1>3, <2>3 DEF Panic, Fatal, Crash
      <2>   QED BY <1>4, <1>5, <1>6, <1>7, <1>8, <2>1, <2>2, <2>3 DEF Client
<1>9. CASE Hub
      <2>1. ASSUME NEW g \in Fulfiller, Execute(g) \/ Reject(g)
            PROVE  hold' = hold /\ wire'[f].msgs = wire[f].msgs
            <3>1. CASE Execute(g)
                  BY <3>1 DEF Execute, pipeVars, TypeOK, TxTypeOK
            <3>2. CASE Reject(g)
                  BY <3>2 DEF Reject, pipeVars, TypeOK, TxTypeOK
            <3>   QED BY <2>1, <3>1, <3>2
      <2>   QED BY <1>2, <1>9, <2>1 DEF Hub, OrderCreated, FeeUpdated, BlockProven, Gone,
               Settle, Transfer, GrantOrRevoke, pipeVars, txVars, TxIds
<1>10. CASE Restart \/ UNCHANGED vars
      BY <1>2, <1>10 DEF Restart, vars, pipeVars, txVars
<1>   QED BY <1>8, <1>9, <1>10 DEF Next

\* The messages of a new transaction are those of its chunk.
LEMMA SubmitCarries ==
    ASSUME TypeOK, NEW f \in Fulfiller, Submit(f)
    PROVE  TxIds(f)' \subseteq {IdOf[o] : o \in hold'[InTx(f)]}
<1>1. PICK chunk \in SUBSET hold[Batch(f)] :
            /\ Move(chunk, Batch(f), InTx(f))
            /\ wire' = [wire EXCEPT ![f] = [state |-> "sent",
                                            msgs |-> {MsgFor(o) : o \in chunk}]]
      BY DEF Submit, Chunks
<1>2. chunk \subseteq hold'[InTx(f)]
      BY <1>1, PlaceMembers, PlacesDiffer DEF Move, TypeOK, PipeTypeOK
<1>3. wire'[f].msgs = {MsgFor(o) : o \in chunk}
      BY <1>1 DEF TypeOK, TxTypeOK
<1>   QED BY <1>2, <1>3 DEF TxIds, MsgFor

\* Every transaction is about orders its fulfiller holds.
LEMMA CarriesAlways == Spec => []WireCarries
<1>1. Init => WireCarries
      BY DEF Init, WireCarries, TxIds, NoTx
<1>2. TypeOK /\ WireCarries /\ [Next]_vars => WireCarries'
      <2>   SUFFICES ASSUME TypeOK, WireCarries, [Next]_vars, NEW f \in Fulfiller
                     PROVE  TxIds(f)' \subseteq {IdOf[o] : o \in hold'[InTx(f)]}
            BY DEF WireCarries
      <2>   QED BY InTxStep, SubmitCarries DEF WireCarries
<1>   QED BY <1>1, <1>2, TypeCorrect, PTL DEF Spec

(***************************************************************************)
(* Two fulfillers never have the same order under way, or one under way    *)
(* and the other one already successful, although processBatch itself      *)
(* looks at neither the pool nor the other fulfillers.                     *)
(***************************************************************************)
THEOREM SubmissionsAreSingle == Spec => []OneSubmission
<1>1. TypeOK /\ SingleFlight /\ WireCarries => OneSubmission
      <2>   SUFFICES ASSUME TypeOK, SingleFlight, WireCarries,
                            NEW f \in Fulfiller, NEW g \in Fulfiller, f # g,
                            NEW id \in TxIds(f),
                            id \in TxIds(g) \/ id \in {IdOf[o] : o \in hold[Successes(g)]}
                     PROVE  FALSE
            BY DEF OneSubmission
      <2>1. PICK o \in hold[InTx(f)] : IdOf[o] = id
            BY DEF WireCarries
      <2>2. PICK p \in {InTx(g), Successes(g)} : \E x \in hold[p] : IdOf[x] = id
            BY DEF WireCarries
      <2>3. PICK x \in hold[p] : IdOf[x] = id
            BY <2>2
      <2>4. p \in Place /\ InTx(f) \in Place /\ p # InTx(f)
            BY <2>2, PlaceMembers, InTxDiffers
      <2>5. o \in InFlight /\ x \in InFlight
            BY <2>4 DEF InFlight
      <2>6. o = x
            BY <2>1, <2>3, <2>5 DEF SingleFlight, Claimed
      <2>   QED BY <2>4, <2>6 DEF SingleFlight, Apart
<1>   QED BY <1>1, TypeCorrect, FlightsAreSingle, CarriesAlways, PTL

----------------------------------------------------------------------------
(* Messages.                                                               *)

\* A message says of an order found valid what its object says at that moment.
LEMMA MessageStep ==
    ASSUME TypeOK, [Next]_vars
    PROVE  \A msgs \in Messages' : \A m \in msgs :
              \/ \E old \in Messages : m \in old
              \/ \E o \in BeyondOrders : m = MsgFor(o)
<1>1. CASE UNCHANGED <<wire, orphans>>
      BY <1>1 DEF Messages
<1>2. CASE Die
      BY <1>2 DEF Die, Messages, NoTx
<1>3. ASSUME NEW f \in Fulfiller, Submit(f)
      PROVE  \A msgs \in Messages' : \A m \in msgs :
                \/ \E old \in Messages : m \in old
                \/ \E o \in BeyondOrders : m = MsgFor(o)
      <2>1. PICK chunk \in SUBSET hold[Batch(f)] :
                  wire' = [wire EXCEPT ![f] = [state |-> "sent",
                                               msgs |-> {MsgFor(o) : o \in chunk}]]
            BY <1>3 DEF Submit, Chunks
      <2>2. \A m \in wire'[f].msgs : \E o \in BeyondOrders : m = MsgFor(o)
            BY <2>1, BeyondMembers DEF BeyondOrders, TypeOK, TxTypeOK
      <2>3. \A g \in Fulfiller : g # f => wire'[g] = wire[g]
            BY <2>1 DEF TypeOK, TxTypeOK
      <2>4. orphans' = orphans
            BY <1>3 DEF Submit
      <2>   QED BY <2>2, <2>3, <2>4 DEF Messages
<1>4. ASSUME NEW f \in Fulfiller, Succeed(f) \/ Fail(f) \/ RPCError(f)
      PROVE  \A msgs \in Messages' : msgs \in Messages \cup {{}}
      <2>1. wire' = [wire EXCEPT ![f] = NoTx] /\ orphans' \subseteq orphans \cup {wire[f].msgs}
            BY <1>4 DEF Succeed, Fail, RPCError, Abort, Unseen
      <2>2. \A g \in Fulfiller : wire'[g].msgs \in {wire[g].msgs, {}}
            BY <2>1 DEF NoTx, TypeOK, TxTypeOK
      <2>   QED BY <2>1, <2>2 DEF Messages
<1>5. ASSUME NEW f \in Fulfiller, Execute(f) \/ Reject(f)
      PROVE  Messages' = Messages
      <2>1. orphans' = orphans /\ \A g \in Fulfiller : wire'[g].msgs = wire[g].msgs
            <3>1. CASE Execute(f)
                  BY <3>1 DEF Execute, TypeOK, TxTypeOK
            <3>2. CASE Reject(f)
                  BY <3>2 DEF Reject, TypeOK, TxTypeOK
            <3>   QED BY <1>5, <3>1, <3>2
      <2>   QED BY <2>1 DEF Messages
<1>6. ASSUME NEW msgs \in orphans, Settle(msgs)
      PROVE  Messages' \subseteq Messages
      BY <1>6 DEF Settle, Messages
<1>7. ASSUME NEW f \in Fulfiller, FulfillerStep(f)
      PROVE  \/ UNCHANGED <<wire, orphans>>
             \/ Submit(f)
             \/ Succeed(f) \/ Fail(f) \/ RPCError(f)
      BY <1>7 DEF FulfillerStep, ReceiveBatch, SendSuccesses, SendFailures, txVars
<1>8. CASE Client
      <2>1. CASE Poll \/ \E s \in Source : SourceStep(s)
            BY <1>1, <2>1, SourceQuiet DEF Poll, txVars
      <2>2. CASE ManagerStep \/ \E c \in Checker : CheckerStep(c)
            BY <1>1, <2>2 DEF CheckerStep, PopOrders, SendToCheck, ManagerStep,
               ManageProcessed, txVars
      <2>3. CASE ValidatorStep
            BY <1>1, <2>3 DEF ValidatorStep, ReceiveToCheck, NodeError, FoundValid, GiveUp,
               NotValidYet, ReleaseEvicted, SendValid, AddRetried, txVars
      <2>4. CASE \E f \in Fulfiller : FulfillerStep(f)
            BY <1>1, <1>3, <1>4, <1>7, <2>4
      <2>5. CASE ReloadLPs \/ RefreshBalances \/ \E o \in Obj : DeadlinePasses(o)
            BY <1>1, <2>5 DEF ReloadLPs, RefreshBalances, DeadlinePasses, txVars
      <2>6. CASE Panic \/ Crash \/ \E f \in Fulfiller : Fatal(f)
            BY <1>2, <2>6 DEF Panic, Fatal, Crash
      <2>   QED BY <1>8, <2>1, <2>2, <2>3, <2>4, <2>5, <2>6 DEF Client
<1>9. CASE Hub
      BY <1>1, <1>5, <1>6, <1>9 DEF Hub, OrderCreated, FeeUpdated, BlockProven, Gone,
         Transfer, GrantOrRevoke, txVars
<1>10. CASE Restart \/ UNCHANGED vars
      BY <1>1, <1>10 DEF Restart, vars, txVars
<1>   QED BY <1>8, <1>9, <1>10 DEF Next

----------------------------------------------------------------------------
(* A provider pays for orders it has accepted only.                        *)

\* Nobody has seen terms an order has not had,
TermsKnown ==
    /\ \A o \in Obj : terms[o] <= asked[IdOf[o]]
    /\ \A s \in Source : \A m \in inbox[s] : m.terms <= asked[m.id]
    /\ \A s \in Source : task[s] # Nil => task[s].terms <= asked[IdOf[task[s].order]]

\* or a grant that was not made,
GrantsKnown == \A l \in LP : criteria[l] <= grants[l]

\* and the orders that are held have a provider that has accepted them.
Assigned == \A o \in Held : HasAccepted(lpAddress[o], IdOf[o])

AcceptedInv == TermsKnown /\ GrantsKnown /\ Assigned /\ SubmittedToAcceptingLP

\* The hub only adds terms and grants.
LEMMA AskedGrows ==
    ASSUME TypeOK, [Next]_vars
    PROVE  /\ \A id \in Id : asked[id] <= asked'[id]
           /\ \A l \in LP : grants[l] <= grants'[l]
<1>1. ASSUME UNCHANGED <<asked, grants>>
      PROVE  /\ \A id \in Id : asked[id] <= asked'[id]
             /\ \A l \in LP : grants[l] <= grants'[l]
      BY <1>1 DEF TypeOK, HubTypeOK, Terms, Grant
<1>2. CASE Client
      BY <1>1, <1>2, SourceQuiet, CheckerHeld, ValidatorHeld, FulfillerHeld, ManagerHeld
         DEF Client, Poll, ReloadLPs, RefreshBalances, DeadlinePasses, Panic, Fatal, Crash, Die,
             hubVars
<1>3. ASSUME NEW id \in Id, FeeUpdated(id)
      PROVE  /\ \A i \in Id : asked[i] <= asked'[i]
             /\ \A l \in LP : grants[l] <= grants'[l]
      BY <1>3 DEF FeeUpdated, TypeOK, HubTypeOK, Terms, Grant
<1>4. ASSUME NEW x \in LP, GrantOrRevoke(x)
      PROVE  /\ \A i \in Id : asked[i] <= asked'[i]
             /\ \A l \in LP : grants[l] <= grants'[l]
      BY <1>4 DEF GrantOrRevoke, TypeOK, HubTypeOK, Terms, Grant
<1>5. CASE Hub
      BY <1>1, <1>3, <1>4, <1>5 DEF Hub, OrderCreated, BlockProven, Gone, Execute, Reject,
         Settle, Transfer, hubVars
<1>6. CASE Restart \/ UNCHANGED vars
      BY <1>1, <1>6 DEF Restart, vars, hubVars
<1>   QED BY <1>2, <1>5, <1>6 DEF Next

\* What a provider has accepted it has accepted for good.
LEMMA KeepAccepted ==
    ASSUME TypeOK, TypeOK', [Next]_vars, NEW l, NEW id \in Id, HasAccepted(l, id)
    PROVE  HasAccepted(l, id)'
<1>1. asked[id] <= asked'[id] /\ grants[l] <= grants'[l] /\ l \in LP
      BY AskedGrows DEF HasAccepted
<1>2. asked[id] \in Nat /\ asked'[id] \in Nat /\ grants[l] \in Nat /\ grants'[l] \in Nat
      BY <1>1 DEF TypeOK, HubTypeOK, Terms, Grant
<1>3. 1..asked[id] \subseteq 1..asked'[id] /\ 1..grants[l] \subseteq 1..grants'[l]
      BY <1>1, <1>2
<1>   QED BY <1>1, <1>3 DEF HasAccepted

\* The criteria a provider is chosen by are a grant it has made, the order's
\* terms are some it has had.
LEMMA ChosenAccepts ==
    ASSUME TypeOK, TermsKnown, GrantsKnown, NEW o \in Obj, NEW l \in AcceptingOf(o)
    PROVE  HasAccepted(l, IdOf[o])
<1>1. l \in LP /\ l \in Accepting[criteria[l]][IdOf[o]][terms[o]]
      BY DEF AcceptingOf
<1>2. criteria[l] \in 1..grants[l]
      BY <1>1 DEF GrantsKnown, TypeOK, FundsTypeOK, HubTypeOK, Grant
<1>3. IdOf[o] \in Id
      BY PoolAssumption
<1>4. terms[o] \in 1..asked[IdOf[o]]
      BY <1>3 DEF TermsKnown, TypeOK, OrderTypeOK, HubTypeOK, Terms
<1>   QED BY <1>1, <1>2, <1>4 DEF HasAccepted

\* A message is one received before, or states the current terms.
LEMMA InboxStep ==
    ASSUME TypeOK, [Next]_vars, NEW s \in Source, NEW m \in inbox'[s]
    PROVE  m \in inbox[s] \/ (m.id \in Id /\ m.terms = asked'[m.id])
<1>1. CASE UNCHANGED inbox
      BY <1>1
<1>2. CASE Poll
      BY <1>2 DEF Poll, hubVars, TypeOK, SourceTypeOK
<1>3. ASSUME NEW t \in Source, SourceStep(t)
      PROVE  m \in inbox[s]
      BY <1>3 DEF SourceStep, LookupPooled, LookupNew, Update, Refuse, Admit, NoProvider,
         NoteMiss, TrackOrders, TypeOK, SourceTypeOK
<1>4. CASE (\E c \in Checker : CheckerStep(c)) \/ (\E f \in Fulfiller : FulfillerStep(f))
           \/ ManagerStep \/ ValidatorStep
      BY <1>1, <1>4, CheckerHeld, FulfillerHeld, ManagerHeld, ValidatorHeld DEF sourceVars
<1>5. CASE ReloadLPs \/ RefreshBalances \/ \E x \in Obj : DeadlinePasses(x)
      BY <1>1, <1>5 DEF ReloadLPs, RefreshBalances, DeadlinePasses, sourceVars
<1>6. CASE Die
      BY <1>6 DEF Die
<1>7. ASSUME NEW id \in Id, OrderCreated(id) \/ FeeUpdated(id)
      PROVE  m \in inbox[s] \/ (m.id \in Id /\ m.terms = asked'[m.id])
      BY <1>7 DEF OrderCreated, FeeUpdated, Deliver, TypeOK, SourceTypeOK
<1>8. CASE Hub
      BY <1>1, <1>7, <1>8 DEF Hub, BlockProven, Gone, Execute, Reject, Settle, Transfer,
         GrantOrRevoke, sourceVars
<1>9. CASE Restart \/ UNCHANGED vars
      BY <1>1, <1>9 DEF Restart, vars, sourceVars
<1>   QED BY <1>2, <1>3, <1>4, <1>5, <1>6, <1>8, <1>9 DEF Next, Client, Panic, Fatal, Crash

\* An order gets the terms of the message that is about it.
LEMMA TermsStep ==
    ASSUME TypeOK, [Next]_vars, NEW o \in Obj
    PROVE  \/ terms'[o] \in {1, terms[o]}
           \/ \E s \in Source : /\ task[s] # Nil /\ task[s].order = o
                               /\ terms'[o] = task[s].terms
           \/ \E s \in Source : \E m \in inbox[s] : IdOf[o] = m.id /\ terms'[o] = m.terms
<1>  DEFINE Gets == \/ terms'[o] \in {1, terms[o]}
                    \/ \E s \in Source : /\ task[s] # Nil /\ task[s].order = o
                                        /\ terms'[o] = task[s].terms
                    \/ \E s \in Source : \E m \in inbox[s] : /\ IdOf[o] = m.id
                                                            /\ terms'[o] = m.terms
<1>1. CASE UNCHANGED terms
      BY <1>1
<1>2. ASSUME NEW s \in Source, SourceStep(s)
      PROVE  Gets
  <2>1. ASSUME NEW m \in inbox[s], NEW x \in Obj, LookupNew(s, m, x)
        PROVE  Gets
        BY <2>1 DEF LookupNew, TypeOK, OrderTypeOK
  <2>2. CASE Update(s)
        BY <2>2 DEF Update, TypeOK, OrderTypeOK
  <2>   QED BY <1>1, <1>2, <2>1, <2>2 DEF SourceStep, LookupPooled, Refuse, Admit, NoProvider,
             NoteMiss, TrackOrders, orderVars
<1>3. CASE (\E c \in Checker : CheckerStep(c)) \/ (\E f \in Fulfiller : FulfillerStep(f))
           \/ ManagerStep \/ ValidatorStep
      BY <1>1, <1>3, CheckerHeld, FulfillerHeld, ManagerHeld, ValidatorHeld
<1>4. CASE Poll \/ ReloadLPs \/ RefreshBalances \/ \E x \in Obj : DeadlinePasses(x)
      BY <1>1, <1>4 DEF Poll, ReloadLPs, RefreshBalances, DeadlinePasses, orderVars
<1>5. CASE Die
      BY <1>5 DEF Die
<1>6. CASE Hub \/ Restart \/ UNCHANGED vars
      BY <1>1, <1>6 DEF Hub, OrderCreated, FeeUpdated, BlockProven, Gone, Execute, Reject, Settle,
         Transfer, GrantOrRevoke, Restart, vars, orderVars
<1>   QED BY <1>2, <1>3, <1>4, <1>5, <1>6 DEF Next, Client, Panic, Fatal, Crash

\* Terms come from the hub.
LEMMA TermsKnownKept ==
    ASSUME TypeOK, TypeOK', TermsKnown, [Next]_vars
    PROVE  TermsKnown'
<1>1. \A id \in Id : asked[id] \in Nat /\ asked'[id] \in Nat /\ 1 <= asked'[id]
                     /\ asked[id] <= asked'[id]
      BY AskedGrows DEF TypeOK, HubTypeOK, Terms
<1>2. \A s \in Source : \A m \in inbox[s] : m.id \in Id /\ m.terms \in Nat
      BY DEF TypeOK, SourceTypeOK, Message, Terms
<1>3. \A s \in Source : task[s] # Nil =>
            task[s].order \in Obj /\ task[s].terms \in Nat
      BY DEF TypeOK, SourceTypeOK, Task, Terms
<1>4. ASSUME NEW o \in Obj PROVE terms'[o] <= asked'[IdOf[o]]
  <2>1. IdOf[o] \in Id /\ terms[o] \in Nat
        BY PoolAssumption DEF TypeOK, OrderTypeOK, Terms
  <2>2. CASE terms'[o] \in {1, terms[o]}
        BY <1>1, <2>1, <2>2 DEF TermsKnown
  <2>3. ASSUME NEW s \in Source, task[s] # Nil, task[s].order = o, terms'[o] = task[s].terms
        PROVE  terms'[o] <= asked'[IdOf[o]]
        BY <1>1, <1>3, <2>1, <2>3 DEF TermsKnown
  <2>4. ASSUME NEW s \in Source, NEW m \in inbox[s], IdOf[o] = m.id, terms'[o] = m.terms
        PROVE  terms'[o] <= asked'[IdOf[o]]
        BY <1>1, <1>2, <2>1, <2>4 DEF TermsKnown
  <2>   QED BY <2>2, <2>3, <2>4, TermsStep
<1>5. ASSUME NEW s \in Source, NEW m \in inbox'[s] PROVE m.terms <= asked'[m.id]
  <2>1. CASE m \in inbox[s]
        BY <1>1, <1>2, <2>1 DEF TermsKnown
  <2>2. CASE m.id \in Id /\ m.terms = asked'[m.id]
        BY <1>1, <2>2
  <2>   QED BY <2>1, <2>2, InboxStep
<1>6. ASSUME NEW s \in Source, task'[s] # Nil
      PROVE  task'[s].terms <= asked'[IdOf[task'[s].order]]
  <2>1. CASE /\ task[s] # Nil
             /\ task'[s].order = task[s].order /\ task'[s].terms = task[s].terms
    <3>1. IdOf[task[s].order] \in Id
          BY <1>3, <2>1, PoolAssumption
    <3>   QED BY <1>1, <1>3, <2>1, <3>1 DEF TermsKnown
  <2>2. ASSUME NEW m \in inbox[s], task'[s].terms = m.terms, IdOf[task'[s].order] = m.id
        PROVE  task'[s].terms <= asked'[IdOf[task'[s].order]]
        BY <1>1, <1>2, <2>2 DEF TermsKnown
  <2>   QED BY <1>6, <2>1, <2>2, TaskStep
<1>   QED BY <1>4, <1>5, <1>6 DEF TermsKnown

\* Criteria are read from the grants the hub has.
LEMMA GrantsKnownKept ==
    ASSUME TypeOK, TypeOK', GrantsKnown, [Next]_vars
    PROVE  GrantsKnown'
<1>1. \A l \in LP : /\ grants[l] \in Nat /\ grants'[l] \in Nat /\ criteria[l] \in Nat
                    /\ 1 <= grants'[l] /\ grants[l] <= grants'[l]
      BY AskedGrows DEF TypeOK, HubTypeOK, FundsTypeOK, Grant
<1>2. ASSUME \A l \in LP : criteria'[l] \in {1, criteria[l], grants[l]}
      PROVE  GrantsKnown'
      BY <1>1, <1>2 DEF GrantsKnown
<1>3. CASE UNCHANGED criteria
      BY <1>2, <1>3
<1>4. CASE ReloadLPs \/ Restart
      BY <1>2, <1>4 DEF ReloadLPs, Restart, loadLPs
<1>5. CASE Die
      BY <1>2, <1>5 DEF Die
<1>6. CASE \E s \in Source : SourceStep(s)
  <2>1. CASE \E s \in Source : Admit(s)
        BY <1>3, <2>1 DEF Admit, assignLP
  <2>   QED BY <1>3, <1>6, <2>1 DEF SourceStep, LookupPooled, LookupNew, Update, Refuse,
             NoProvider, NoteMiss, TrackOrders, fundVars
<1>7. CASE ValidatorStep
      BY <1>3, <1>7 DEF ValidatorStep, ReceiveToCheck, NodeError, FoundValid, GiveUp, NotValidYet,
         ReleaseEvicted, SendValid, AddRetried, assignLP, releaseAllReservedOrdersFunds, fundVars
<1>8. CASE \E f \in Fulfiller : FulfillerStep(f)
      BY <1>3, <1>8 DEF FulfillerStep, ReceiveBatch, Submit, Succeed, Fail, RPCError, Abort,
         SendSuccesses, SendFailures, debitAllReservedOrdersFunds,
         releaseAllReservedOrdersFunds, fundVars
<1>9. CASE \/ Poll \/ ManagerStep \/ (\E c \in Checker : CheckerStep(c))
           \/ RefreshBalances \/ (\E x \in Obj : DeadlinePasses(x)) \/ UNCHANGED vars
      BY <1>3, <1>9 DEF Poll, ManagerStep, ManageProcessed, CheckerStep, PopOrders, SendToCheck,
         RefreshBalances, refreshBalances, DeadlinePasses, vars, fundVars
<1>10. CASE Hub
      BY <1>3, <1>10 DEF Hub, OrderCreated, FeeUpdated, BlockProven, Gone, Execute, Reject, Settle,
         Transfer, GrantOrRevoke, fundVars
<1>   QED BY <1>4, <1>5, <1>6, <1>7, <1>8, <1>9, <1>10
             DEF Next, Client, Panic, Fatal, Crash

\* A held order keeps its provider, or gets one whose criteria accept it.
LEMMA ProviderStep ==
    ASSUME TypeOK, [Next]_vars, NEW o \in Obj
    PROVE  \/ lpAddress'[o] = lpAddress[o]
           \/ lpAddress'[o] \in AcceptingOf(o)
           \/ Die
           \/ o \notin Held /\ ~\E s \in Source : Admit(s)
<1>  DEFINE Gets == \/ lpAddress'[o] = lpAddress[o]
                    \/ lpAddress'[o] \in AcceptingOf(o)
                    \/ Die
                    \/ o \notin Held /\ ~\E s \in Source : Admit(s)
<1>1. CASE UNCHANGED lpAddress
      BY <1>1
<1>2. ASSUME NEW s \in Source, SourceStep(s)
      PROVE  Gets
  <2>1. ASSUME NEW m \in inbox[s], NEW x \in Obj, LookupNew(s, m, x)
        PROVE  Gets
    <3>1. x \notin Held
          BY <2>1 DEF LookupNew, Unreferenced, Working, Held, Fresh, Updating
    <3>2. failedOrderHashes' = failedOrderHashes /\ inbox' = [inbox EXCEPT ![s] = @ \ {m}]
          BY <2>1 DEF LookupNew
    <3>3. inbox' # inbox
          BY <3>2 DEF TypeOK, SourceTypeOK
    <3>4. ~\E t \in Source : Admit(t)
          BY <3>3 DEF Admit
    <3>5. CASE x = o
          BY <3>1, <3>4, <3>5
    <3>6. CASE x # o
          BY <2>1, <3>6 DEF LookupNew, TypeOK, OrderTypeOK
    <3>   QED BY <3>5, <3>6
  <2>2. CASE Admit(s)
    <3> DEFINE x == task[s].order
    <3>1. PICK l \in findLPForOrder(Nil, AcceptingOf(x), PriceOf(x)) :
                lpAddress' = [lpAddress EXCEPT ![x] = l]
          BY <2>2 DEF Admit
    <3>2. l \in AcceptingOf(x)
          BY <3>1, FindLPType DEF TypeOK
    <3>   QED BY <3>1, <3>2 DEF TypeOK, OrderTypeOK
  <2>   QED BY <1>1, <1>2, <2>1, <2>2 DEF SourceStep, LookupPooled, Update, Refuse, NoProvider,
             NoteMiss, TrackOrders, orderVars
<1>3. CASE (\E c \in Checker : CheckerStep(c)) \/ (\E f \in Fulfiller : FulfillerStep(f))
           \/ ManagerStep
      BY <1>1, <1>3, CheckerHeld, FulfillerHeld, ManagerHeld
<1>4. CASE ValidatorStep
  <2>1. ASSUME NEW x \in Obj, NotValidYet(x)
        PROVE  Gets
    <3>1. PICK l \in findLPForOrder(lpAddress[x], AcceptingOf(x), PriceOf(x)) :
                lpAddress' = [lpAddress EXCEPT ![x] = l]
          BY <2>1 DEF NotValidYet
    <3>2. l \in AcceptingOf(x)
          BY <3>1, FindLPType DEF TypeOK
    <3>   QED BY <3>1, <3>2 DEF TypeOK, OrderTypeOK
  <2>   QED BY <1>1, <1>4, <2>1, ValidatorHeld
<1>5. CASE Poll \/ ReloadLPs \/ RefreshBalances \/ \E x \in Obj : DeadlinePasses(x)
      BY <1>1, <1>5 DEF Poll, ReloadLPs, RefreshBalances, DeadlinePasses, orderVars
<1>6. CASE Hub \/ Restart \/ UNCHANGED vars
      BY <1>1, <1>6 DEF Hub, OrderCreated, FeeUpdated, BlockProven, Gone, Execute, Reject, Settle,
         Transfer, GrantOrRevoke, Restart, vars, orderVars
<1>   QED BY <1>2, <1>3, <1>4, <1>5, <1>6 DEF Next, Client, Panic, Fatal, Crash

\* Every step keeps the assignments.
LEMMA AssignedKept ==
    ASSUME TypeOK, TypeOK', TermsKnown, GrantsKnown, Assigned, [Next]_vars
    PROVE  Assigned'
<1>  SUFFICES ASSUME NEW o \in Held' PROVE HasAccepted(lpAddress[o], IdOf[o])'
     BY DEF Assigned
<1>1. o \in Obj /\ IdOf[o] \in Id
      BY HeldType, PoolAssumption DEF Held, Pooled, InFlight, Fresh, Updating, TypeOK, PoolTypeOK,
         PipeTypeOK
<1>2. CASE lpAddress'[o] \in AcceptingOf(o)
      BY <1>1, <1>2, ChosenAccepts, KeepAccepted
<1>3. ~Die
      BY DEF Die, Held, Pooled, InFlight, Fresh, Updating
<1>4. CASE o \in Held /\ lpAddress'[o] = lpAddress[o]
      BY <1>1, <1>4, KeepAccepted DEF Assigned
<1>5. ASSUME NEW s \in Source, Admit(s), o = task[s].order
      PROVE  lpAddress'[o] \in AcceptingOf(o)
  <2>1. PICK l \in findLPForOrder(Nil, AcceptingOf(o), PriceOf(o)) :
              lpAddress' = [lpAddress EXCEPT ![o] = l]
        BY <1>5 DEF Admit
  <2>2. l \in AcceptingOf(o)
        BY <2>1, FindLPType DEF TypeOK
  <2>   QED BY <1>1, <2>1, <2>2 DEF TypeOK, OrderTypeOK
<1>   QED BY <1>1, <1>2, <1>3, <1>4, <1>5, HeldStep, ProviderStep

(***************************************************************************)
(* No provider has to pay for an order it never agreed to pay for: every   *)
(* transaction, also one given up before a restart, names a provider that  *)
(* by then had made a grant for the order, under terms the order had; for  *)
(* every policy, whatever grants are changed, fees updated and providers   *)
(* reloaded meanwhile (order_tracker.go:311-334, lp.go:181-215).           *)
(***************************************************************************)
THEOREM SubmittedToAccepting == Spec => []SubmittedToAcceptingLP
<1>1. Init => AcceptedInv
  <2>  SUFFICES ASSUME Init PROVE AcceptedInv
       OBVIOUS
  <2>1. Held = {}
        BY DEF Init, ProcessInit, PoolInit, Held, Pooled, InFlight, Fresh, Updating
  <2>2. TermsKnown /\ GrantsKnown
        BY PoolAssumption DEF Init, ProcessInit, TermsKnown, GrantsKnown
  <2>3. SubmittedToAcceptingLP
        BY DEF Init, SubmittedToAcceptingLP, NoTx
  <2>   QED BY <2>1, <2>2, <2>3 DEF AcceptedInv, Assigned
<1>2. TypeOK /\ TypeOK' /\ AcceptedInv /\ [Next]_vars => AcceptedInv'
  <2>  SUFFICES ASSUME TypeOK, TypeOK', AcceptedInv, [Next]_vars PROVE AcceptedInv'
       OBVIOUS
  <2>1. TermsKnown' /\ GrantsKnown' /\ Assigned'
        BY TermsKnownKept, GrantsKnownKept, AssignedKept DEF AcceptedInv
  <2>2. ASSUME NEW msgs \in Messages', NEW m \in msgs
        PROVE  HasAccepted(m.lp, m.id)'
    <3>1. ASSUME NEW old \in Messages, m \in old
          PROVE  HasAccepted(m.lp, m.id)'
      <4>1. m \in Msg
            BY <3>1 DEF Messages, TypeOK, TxTypeOK
      <4>2. m.id \in Id /\ HasAccepted(m.lp, m.id)
            BY <3>1, <4>1 DEF Messages, Msg, AcceptedInv, SubmittedToAcceptingLP
      <4>   QED BY <4>2, KeepAccepted
    <3>2. ASSUME NEW o \in InFlight, m = MsgFor(o)
          PROVE  HasAccepted(m.lp, m.id)'
      <4>1. o \in Held /\ IdOf[o] \in Id
            BY HeldType, PoolAssumption DEF Held
      <4>   QED BY <3>2, <4>1, KeepAccepted DEF AcceptedInv, Assigned, MsgFor
    <3>3. BeyondOrders \subseteq InFlight
          BY BeyondMembers DEF BeyondOrders, InFlight
    <3>   QED BY <3>1, <3>2, <3>3, MessageStep
  <2>3. SubmittedToAcceptingLP'
        BY <2>2 DEF Messages, SubmittedToAcceptingLP
  <2>   QED BY <2>1, <2>3 DEF AcceptedInv
<1>3. AcceptedInv => SubmittedToAcceptingLP
      BY DEF AcceptedInv
<1>   QED BY <1>1, <1>2, <1>3, TypeCorrect, PTL DEF Spec

----------------------------------------------------------------------------
(* What only one goroutine knows of.                                       *)

\* The order a source is about to admit, and all it has not pooled yet.
Admitting(s) == {o \in Obj : task[s] # Nil /\ task[s].step = "admit" /\ task[s].order = o}

New(s) == fresh[s] \cup Admitting(s)

\* Nobody but its source knows an order before it is pooled,
NewPrivate ==
    \A s \in Source :
        /\ Admitting(s) \cap fresh[s] = {}
        /\ \A o \in New(s) : o \notin Pooled \cup InFlight \cup retry \cup evicting \cup Updating
        /\ \A t \in Source : s # t => New(s) \cap New(t) = {}

\* and it has no flag, and no provider before it is admitted.
NewPlain ==
    \A s \in Source :
        /\ \A o \in New(s) : ~Flagged(o)
        /\ \A o \in Admitting(s) : lpAddress[o] = Nil

\* An order that evictOrder is about to release is flagged and off its way.
EvictedAside == \A o \in evicting : o \in checking /\ o \notin InFlight

\* An order that is not yet known to be valid is not flagged valid.
EarlyNotValid == \A p \in Place \ Beyond : hold[p] \cap valid = {}

\* A fulfiller's failures are those of the last chunk of its batch.
FailuresLast ==
    \A f \in Fulfiller : wire[f].state # "none" \/ hold[Batch(f)] # {} => hold[Failures(f)] = {}

AsideInv == NewPrivate /\ NewPlain /\ EvictedAside /\ EarlyNotValid /\ FailuresLast

----------------------------------------------------------------------------
(* New orders.                                                             *)

\* The other goroutines flag pooled orders only, and pool none.
LEMMA FlagsOfPooled ==
    ASSUME TypeOK, RetriedStayPooled,
           (\E c \in Checker : CheckerStep(c)) \/ ValidatorStep
               \/ (\E f \in Fulfiller : FulfillerStep(f)) \/ ManagerStep
    PROVE  /\ UNCHANGED sourceVars
           /\ Pooled' \subseteq Pooled
           /\ \A o \in Obj : Flagged(o)' => Flagged(o) \/ o \in Pooled
<1>1. ASSUME NEW c \in Checker, PopOrders(c)
      PROVE  \A o \in Obj : Flagged(o)' => Flagged(o) \/ o \in Pooled
  <2>1. PICK pop \in popOrders(PopLimit) : checking' = pop.checking
        BY <1>1 DEF PopOrders
  <2>2. pop.checking \subseteq checking \cup Pooled
        BY DEF popOrders
  <2>   QED BY <1>1, <2>1, <2>2 DEF PopOrders, Flagged
<1>2. CASE \E c \in Checker : CheckerStep(c)
  <2>1. UNCHANGED <<pool, sourceVars>>
        BY <1>2, CheckerHeld
  <2>   QED BY <1>1, <1>2, <2>1 DEF CheckerStep, SendToCheck, poolVars, Flagged, Pooled
<1>3. ASSUME NEW o \in Obj, FoundValid(o)
      PROVE  valid' \subseteq valid \cup Pooled
      BY <1>3, PoolAssumption DEF FoundValid, setValid, Pooled
<1>4. CASE ValidatorStep
  <2>1. CASE AddRetried
    <3>1. \A id \in Id : Listed(retry, id) => pool[id] # Nil
          BY DEF RetriedStayPooled, Listed
    <3>2. pool' = pool /\ UNCHANGED <<checking, valid>>
          BY <2>1, <3>1 DEF AddRetried, addOrder, TypeOK, PoolTypeOK
    <3>   QED BY <2>1, <3>2 DEF AddRetried, Flagged, Pooled
  <2>2. CASE \E o \in Obj : FoundValid(o)
        BY <1>3, <2>2 DEF FoundValid, Flagged, Pooled
  <2>3. CASE \E o \in Obj : GiveUp(o) \/ NotValidYet(o) \/ NodeError(o)
        BY <2>3, RemoveHeld DEF GiveUp, Evict, NotValidYet, NodeError, poolVars, Flagged, Pooled
  <2>4. CASE ReleaseEvicted \/ (\E k \in ToCheckSlot : ReceiveToCheck(k))
             \/ \E k \in OutputSlot : SendValid(k)
        BY <2>4 DEF ReleaseEvicted, ReceiveToCheck, SendValid, poolVars, Flagged, Pooled
  <2>   QED BY <1>4, <2>1, <2>2, <2>3, <2>4 DEF ValidatorStep
<1>5. CASE \E f \in Fulfiller : FulfillerStep(f)
  <2>1. UNCHANGED <<poolVars, sourceVars>>
        BY <1>5 DEF FulfillerStep, ReceiveBatch, Submit, Succeed, Fail, RPCError,
           SendSuccesses, SendFailures
  <2>   QED BY <2>1 DEF poolVars, Flagged, Pooled
<1>6. CASE ManagerStep
      BY <1>6, ManagerHeld DEF ManagerStep, ManageProcessed, Flagged
<1>   QED BY <1>2, <1>4, <1>5, <1>6

\* Only an order on its way is evicted.
LEMMA EvictingStep ==
    ASSUME (\E c \in Checker : CheckerStep(c)) \/ ValidatorStep
               \/ (\E f \in Fulfiller : FulfillerStep(f)) \/ ManagerStep
    PROVE  evicting' \subseteq evicting \cup InFlight
<1>1. ASSUME NEW o \in Obj, GiveUp(o) PROVE evicting' \subseteq InFlight
      BY <1>1, PlaceMembers DEF GiveUp, Evict, Validating, InFlight
<1>2. CASE ValidatorStep
      BY <1>1, <1>2 DEF ValidatorStep, ReceiveToCheck, NodeError, FoundValid, NotValidYet,
         ReleaseEvicted, SendValid, AddRetried
<1>3. CASE \E f \in Fulfiller : FulfillerStep(f)
      BY <1>3 DEF FulfillerStep, ReceiveBatch, Submit, Succeed, Fail, RPCError, SendSuccesses,
         SendFailures, pipeVars
<1>4. CASE ManagerStep \/ \E c \in Checker : CheckerStep(c)
      BY <1>4 DEF ManagerStep, ManageProcessed, CheckerStep, PopOrders, SendToCheck
<1>   QED BY <1>2, <1>3, <1>4

\* What a source has at hand, in the words of its task.
AtHand ==
    \A s \in Source :
        /\ New(s) \subseteq Obj
        /\ task[s] = Nil \/ task[s].step # "admit" => Admitting(s) = {} /\ New(s) = fresh[s]
        /\ task[s] # Nil /\ task[s].step = "admit"
              => /\ Admitting(s) = {task[s].order} /\ task[s].order \in Obj
                 /\ New(s) = fresh[s] \cup {task[s].order}

\* It is so,
LEMMA TaskAtHand == TypeOK => AtHand
<1>  SUFFICES ASSUME TypeOK, NEW s \in Source
              PROVE  /\ New(s) \subseteq Obj
                     /\ task[s] = Nil \/ task[s].step # "admit"
                           => Admitting(s) = {} /\ New(s) = fresh[s]
                     /\ task[s] # Nil /\ task[s].step = "admit"
                           => /\ Admitting(s) = {task[s].order} /\ task[s].order \in Obj
                              /\ New(s) = fresh[s] \cup {task[s].order}
     BY DEF AtHand
<1>1. task[s] # Nil => task[s].order \in Obj
      BY DEF TypeOK, SourceTypeOK, Task
<1>2. fresh[s] \subseteq Obj
      BY DEF TypeOK, SourceTypeOK
<1>   QED BY <1>1, <1>2 DEF Admitting, New

\* in the next state, too.
LEMMA NextTaskAtHand == TypeOK' => AtHand'
BY TaskAtHand, PTL

\* A step that gives others no order they did not have.
LEMMA SamePrivate ==
    ASSUME NewPrivate, UNCHANGED <<task, fresh>>,
           Pooled' \cup InFlight' \cup retry' \cup evicting'
               \subseteq Pooled \cup InFlight \cup retry \cup evicting
    PROVE  NewPrivate'
<1>1. Updating' = Updating /\ \A s \in Source : New(s)' = New(s) /\ Admitting(s)' = Admitting(s)
      BY DEF Updating, New, Admitting
<1>   QED BY <1>1 DEF NewPrivate

\* A source that ends its task or begins one.
LEMMA SourcePrivate ==
    ASSUME TypeOK, TypeOK', NewPrivate, NEW s \in Source, SourceStep(s)
    PROVE  NewPrivate'
<1>0. UNCHANGED <<hold, retry, evicting>> /\ InFlight' = InFlight
      BY SourceQuiet DEF pipeVars, InFlight
<1>a. AtHand /\ AtHand'
      BY TaskAtHand, NextTaskAtHand
<1>1. ASSUME UNCHANGED fresh, Pooled' = Pooled,
             \A t \in Source : t # s => task'[t] = task[t],
             task'[s] = Nil \/ task'[s].step = "miss"
      PROVE  NewPrivate'
  <2>1. Updating' \subseteq Updating
        BY <1>1, PoolAssumption DEF Updating
  <2>2. \A t \in Source : New(t)' \subseteq New(t) /\ Admitting(t)' \subseteq Admitting(t)
        BY <1>1 DEF New, Admitting
  <2>   QED BY <1>0, <1>1, <2>1, <2>2 DEF NewPrivate
<1>2. ASSUME NEW m \in inbox[s], LookupPooled(s, m) PROVE NewPrivate'
  <2>1. /\ UNCHANGED <<fresh, pool>> /\ \A t \in Source : t # s => task'[t] = task[t]
        /\ task'[s].step = "update" /\ task'[s].order = pool[m.id]
        /\ m.id \in Id /\ pool[m.id] # Nil
        BY <1>2, PoolAssumption DEF LookupPooled, getOrder, poolVars, TypeOK, SourceTypeOK, Message,
           Task
  <2>2. Updating' \subseteq Updating \cup Pooled /\ Pooled' = Pooled
        BY <2>1 DEF Updating, Pooled
  <2>3. \A t \in Source : New(t)' \subseteq New(t) /\ Admitting(t)' \subseteq Admitting(t)
        BY <2>1 DEF New, Admitting
  <2>   QED BY <1>0, <2>1, <2>2, <2>3 DEF NewPrivate
<1>3. ASSUME NEW m \in inbox[s], NEW x \in Obj, LookupNew(s, m, x) PROVE NewPrivate'
  <2>1. /\ UNCHANGED <<fresh, pool>> /\ \A t \in Source : t # s => task'[t] = task[t]
        /\ task'[s].step = "admit" /\ task'[s].order = x
        /\ task[s] = Nil
        BY <1>3, PoolAssumption DEF LookupNew, MayLook, TypeOK, SourceTypeOK, Task
  <2>2. /\ x \notin Pooled \cup InFlight \cup retry \cup evicting
        /\ \A t \in Source : x \notin fresh[t] /\ (task[t] # Nil => task[t].order # x)
        BY <1>3 DEF LookupNew, Unreferenced, Working
  <2>3. Updating' \subseteq Updating /\ x \notin Updating /\ Pooled' = Pooled
        BY <2>1, <2>2 DEF Updating, Pooled
  <2>4. \A t \in Source : /\ t # s => New(t)' = New(t) /\ Admitting(t)' = Admitting(t)
                          /\ x \notin New(t)
        BY <2>1, <2>2 DEF New, Admitting
  <2>5. New(s)' \subseteq New(s) \cup {x} /\ Admitting(s)' \subseteq {x}
        BY <2>1 DEF New, Admitting
  <2>   QED BY <1>0, <2>1, <2>2, <2>3, <2>4, <2>5 DEF NewPrivate
<1>4. CASE Update(s)
  <2> DEFINE o == task[s].order
  <2>1. o \in Obj /\ o \in Updating /\ task[s].step = "update"
        BY <1>4 DEF Update, Updating, TypeOK, SourceTypeOK, Task
  <2>2. Pooled' \subseteq Pooled \cup {o}
        BY <1>4, <2>1, UpsertHeld DEF Update
  <2>3. UNCHANGED fresh /\ task'[s] = Nil /\ \A t \in Source : t # s => task'[t] = task[t]
        BY <1>4 DEF Update, TypeOK, SourceTypeOK
  <2>4. Updating' \subseteq Updating
        BY <2>3 DEF Updating
  <2>5. \A t \in Source : New(t)' \subseteq New(t) /\ Admitting(t)' \subseteq Admitting(t)
        BY <2>3 DEF New, Admitting
  <2>   QED BY <1>0, <2>1, <2>2, <2>3, <2>4, <2>5 DEF NewPrivate
<1>5. CASE Refuse(s) \/ NoProvider(s) \/ NoteMiss(s)
  <2>1. /\ UNCHANGED fresh /\ Pooled' = Pooled
        /\ \A t \in Source : t # s => task'[t] = task[t]
        BY <1>5 DEF Refuse, NoProvider, NoteMiss, poolVars, Pooled, TypeOK, SourceTypeOK
  <2>2. task'[s] = Nil \/ task'[s].step = "miss"
        BY <1>5 DEF Refuse, NoProvider, NoteMiss, TypeOK, SourceTypeOK, Task
  <2>   QED BY <1>1, <2>1, <2>2
<1>6. CASE Admit(s)
  <2> DEFINE o == task[s].order
  <2>1. /\ Admitting(s) = {o} /\ New(s) = fresh[s] \cup {o}
        BY <1>6, <1>a DEF Admit, AtHand
  <2>2. /\ fresh' = [fresh EXCEPT ![s] = @ \cup {o}] /\ pool' = pool
        /\ task'[s] = Nil /\ \A t \in Source : t # s => task'[t] = task[t]
        BY <1>6 DEF Admit, poolVars, TypeOK, SourceTypeOK
  <2>3. Updating' \subseteq Updating /\ Pooled' = Pooled
        BY <2>2 DEF Updating, Pooled
  <2>4. New(s)' = New(s) /\ Admitting(s)' = {}
        BY <1>a, <2>1, <2>2 DEF AtHand, TypeOK, SourceTypeOK
  <2>5. \A t \in Source : t # s => New(t)' = New(t) /\ Admitting(t)' = Admitting(t)
                                  /\ fresh'[t] = fresh[t]
        BY <2>2 DEF New, Admitting, TypeOK, SourceTypeOK
  <2>   QED BY <1>0, <2>3, <2>4, <2>5 DEF NewPrivate
<1>7. CASE TrackOrders(s)
  <2>1. /\ fresh' = [fresh EXCEPT ![s] = {}] /\ task' = task /\ task[s] = Nil
        /\ Pooled' \subseteq Pooled \cup fresh[s]
        BY <1>7, UpsertHeld DEF TrackOrders, TypeOK, SourceTypeOK
  <2>2. Updating' = Updating
        BY <2>1 DEF Updating
  <2>3. New(s)' = {} /\ Admitting(s)' = {}
        BY <1>a, <2>1 DEF AtHand, TypeOK, SourceTypeOK
  <2>4. \A t \in Source : t # s => New(t)' = New(t) /\ Admitting(t)' = Admitting(t)
                                  /\ fresh'[t] = fresh[t]
        BY <2>1 DEF New, Admitting, TypeOK, SourceTypeOK
  <2>5. \A t \in Source : t # s => New(t) \cap fresh[s] = {}
        BY DEF NewPrivate, New
  <2>   QED BY <1>0, <2>1, <2>2, <2>3, <2>4, <2>5 DEF NewPrivate
<1>   QED BY <1>2, <1>3, <1>4, <1>5, <1>6, <1>7 DEF SourceStep

\* Every step keeps new orders private.
LEMMA PrivateKept ==
    ASSUME TypeOK, TypeOK', SingleFlight, RetriedStayPooled, NewPrivate, [Next]_vars
    PROVE  NewPrivate'
<1>1. CASE (\E c \in Checker : CheckerStep(c)) \/ ValidatorStep
               \/ (\E f \in Fulfiller : FulfillerStep(f)) \/ ManagerStep
  <2>1. UNCHANGED <<task, fresh>> /\ evicting' \subseteq evicting \cup InFlight
        BY <1>1, EvictingStep, FlagsOfPooled DEF sourceVars
  <2>2. ASSUME NEW c \in Checker, CheckerStep(c)
        PROVE  Pooled' \cup InFlight' \cup retry' \subseteq Pooled \cup InFlight \cup retry
        BY <2>2, CheckerHeld DEF Pooled
  <2>3. ASSUME NEW f \in Fulfiller, FulfillerStep(f)
        PROVE  Pooled' \cup InFlight' \cup retry' \subseteq Pooled \cup InFlight \cup retry
        BY <2>3, FulfillerHeld DEF Pooled
  <2>4. Pooled' \cup InFlight' \cup retry' \subseteq Pooled \cup InFlight \cup retry
        BY <1>1, <2>2, <2>3, ValidatorHeld, ManagerHeld
  <2>   QED BY <2>1, <2>4, SamePrivate
<1>2. CASE Die
  <2>1. \A s \in Source : task'[s] = Nil /\ fresh'[s] = {}
        BY <1>2 DEF Die
  <2>2. \A s \in Source : New(s)' = {} /\ Admitting(s)' = {}
        BY <2>1 DEF New, Admitting
  <2>   QED BY <2>2 DEF NewPrivate
<1>3. CASE Poll \/ ReloadLPs \/ RefreshBalances \/ (\E o \in Obj : DeadlinePasses(o))
           \/ Restart \/ Hub \/ UNCHANGED vars
  <2>1. UNCHANGED <<task, fresh, pool, hold, retry, evicting>>
        BY <1>3 DEF Poll, ReloadLPs, RefreshBalances, DeadlinePasses, Restart, Hub, OrderCreated,
           FeeUpdated, BlockProven, Gone, Execute, Reject, Settle, Transfer, GrantOrRevoke, vars,
           poolVars, sourceVars, pipeVars
  <2>2. Pooled' = Pooled /\ InFlight' = InFlight
        BY <2>1 DEF Pooled, InFlight
  <2>   QED BY <2>1, <2>2, SamePrivate
<1>   QED BY <1>1, <1>2, <1>3, SourcePrivate DEF Next, Client, Panic, Fatal, Crash

\* A source has new orders by allocation only, and admits one of its own.
LEMMA SourceNew ==
    ASSUME TypeOK, TypeOK', NEW s \in Source, SourceStep(s), NEW t \in Source
    PROVE  /\ \A o \in New(t)' : o \in New(t) \/ \E m \in inbox[s] : LookupNew(s, m, o)
           /\ \A o \in Admitting(t)' : o \in Admitting(t) \/ \E m \in inbox[s] : LookupNew(s, m, o)
           /\ Admit(s) /\ t = s => Admitting(t)' = {}
<1>a. AtHand /\ AtHand'
      BY TaskAtHand, NextTaskAtHand
<1>1. ASSUME NEW m \in inbox[s], LookupPooled(s, m)
      PROVE  New(t)' \subseteq New(t) /\ Admitting(t)' \subseteq Admitting(t)
             /\ fresh' = fresh
  <2>1. /\ UNCHANGED fresh /\ \A u \in Source : u # s => task'[u] = task[u]
        /\ task'[s].step = "update"
        BY <1>1, PoolAssumption DEF LookupPooled, TypeOK, SourceTypeOK
  <2>   QED BY <2>1 DEF New, Admitting
<1>2. ASSUME NEW m \in inbox[s], NEW x \in Obj, LookupNew(s, m, x)
      PROVE  /\ New(t)' \subseteq New(t) \cup {x} /\ Admitting(t)' \subseteq Admitting(t) \cup {x}
             /\ fresh' = fresh
  <2>1. /\ UNCHANGED fresh /\ \A u \in Source : u # s => task'[u] = task[u]
        /\ task'[s].order = x
        BY <1>2, PoolAssumption DEF LookupNew, TypeOK, SourceTypeOK
  <2>   QED BY <2>1 DEF New, Admitting
<1>3. CASE Update(s) \/ Refuse(s) \/ NoteMiss(s) \/ NoProvider(s)
  <2>1. /\ UNCHANGED fresh /\ \A u \in Source : u # s => task'[u] = task[u]
        /\ task'[s] = Nil \/ task'[s].step = "miss"
        BY <1>3 DEF Update, Refuse, NoteMiss, NoProvider, TypeOK, SourceTypeOK, Task
  <2>2. New(t)' \subseteq New(t) /\ Admitting(t)' \subseteq Admitting(t)
        BY <2>1 DEF New, Admitting
  <2>3. task[s] # Nil /\ (task'[s] = Nil \/ task'[s].step = "miss")
        BY <1>3, <2>1 DEF Update, Refuse, NoteMiss, NoProvider
  <2>4. Admitting(s)' = {}
        BY <1>a, <2>3 DEF AtHand
  <2>   QED BY <2>2, <2>4
<1>4. CASE TrackOrders(s)
  <2>1. task' = task /\ task[s] = Nil /\ \A u \in Source : fresh'[u] \subseteq fresh[u]
        BY <1>4 DEF TrackOrders, TypeOK, SourceTypeOK
  <2>   QED BY <1>4, <2>1 DEF New, Admitting, Admit
<1>5. CASE Admit(s)
  <2>1. /\ fresh' = [fresh EXCEPT ![s] = @ \cup {task[s].order}]
        /\ task'[s] = Nil /\ \A u \in Source : u # s => task'[u] = task[u]
        /\ task[s].order \in New(s)
        BY <1>5, <1>a DEF Admit, AtHand, TypeOK, SourceTypeOK
  <2>2. \A u \in Source : u # s => New(u)' = New(u) /\ Admitting(u)' = Admitting(u)
        BY <2>1 DEF New, Admitting, TypeOK, SourceTypeOK
  <2>3. New(s)' \subseteq New(s) /\ Admitting(s)' = {}
        BY <1>a, <2>1 DEF AtHand, New, TypeOK, SourceTypeOK
  <2>   QED BY <2>2, <2>3
<1>6. \/ Admit(s) \/ TrackOrders(s) \/ Update(s) \/ Refuse(s) \/ NoteMiss(s) \/ NoProvider(s)
      \/ \E m \in inbox[s] : LookupPooled(s, m) \/ \E x \in Obj : LookupNew(s, m, x)
      BY DEF SourceStep
<1>7. Admit(s) => \A m \in inbox[s] : ~LookupPooled(s, m)
      BY DEF Admit, LookupPooled, MayLook
<1>8. Admit(s) => ~(Update(s) \/ NoteMiss(s) \/ NoProvider(s) \/ Refuse(s))
      BY DEF Admit, Update, NoteMiss, NoProvider, Refuse
<1>   QED BY <1>1, <1>2, <1>3, <1>4, <1>5, <1>6, <1>7, <1>8

\* Every step leaves new orders without a flag and a provider.
LEMMA PlainKept ==
    ASSUME TypeOK, TypeOK', SingleFlight, RetriedStayPooled, NewPrivate, NewPlain, [Next]_vars
    PROVE  NewPlain'
<1>1. ASSUME NEW s \in Source, SourceStep(s) PROVE NewPlain'
  <2>  SUFFICES ASSUME NEW t \in Source
                PROVE  /\ \A o \in New(t)' : ~Flagged(o)'
                       /\ \A o \in Admitting(t)' : lpAddress'[o] = Nil
       BY DEF NewPlain
  <2>1. ASSUME NEW m \in inbox[s], NEW x \in Obj, LookupNew(s, m, x)
        PROVE  /\ ~Flagged(x)' /\ lpAddress'[x] = Nil
               /\ \A o \in Obj : /\ Flagged(o)' => Flagged(o)
                                 /\ lpAddress[o] = Nil => lpAddress'[o] = Nil
        BY <2>1 DEF LookupNew, Flagged, TypeOK, OrderTypeOK
  <2>2. ASSUME Admit(s), t # s, NEW o \in New(t)
        PROVE  lpAddress'[o] = lpAddress[o]
    <3>1. task[s].order \in New(s)
          BY <2>2 DEF Admit, New, Admitting, TypeOK, SourceTypeOK, Task
    <3>2. task[s].order # o
          BY <2>2, <3>1 DEF NewPrivate
    <3>   QED BY <2>2, <3>2 DEF Admit, TypeOK, OrderTypeOK
  <2>3. ASSUME ~\E m \in inbox[s], x \in Obj : LookupNew(s, m, x)
        PROVE  /\ UNCHANGED <<checking, valid>>
               /\ UNCHANGED lpAddress \/ Admit(s)
        BY <1>1, <2>3 DEF SourceStep, LookupPooled, Update, Refuse, Admit, NoProvider, NoteMiss,
           TrackOrders, poolVars, orderVars
  <2>4. /\ \A o \in New(t) \cup New(t)' : o \in Obj
        /\ \A o \in Admitting(t)' : o \in Obj
        BY DEF New, Admitting, TypeOK, SourceTypeOK
  <2>5. Admitting(t) \subseteq New(t)
        BY DEF New
  <2>6. ASSUME NEW o \in New(t)' PROVE o \in New(t) \/ \E m \in inbox[s] : LookupNew(s, m, o)
        BY <1>1, SourceNew
  <2>7. ASSUME NEW o \in Admitting(t)'
        PROVE  o \in Admitting(t) \/ \E m \in inbox[s] : LookupNew(s, m, o)
        BY <1>1, SourceNew
  <2>8. Admit(s) /\ t = s => Admitting(t)' = {}
        BY <1>1, SourceNew
  <2>9. CASE \E m \in inbox[s], x \in Obj : LookupNew(s, m, x)
    <3>1. ASSUME NEW o \in Obj, o \in New(t)' PROVE ~Flagged(o)'
      <4>1. CASE o \in New(t)
            BY <2>1, <2>9, <4>1 DEF NewPlain
      <4>2. CASE \E m \in inbox[s] : LookupNew(s, m, o)
            BY <2>1, <4>2
      <4>   QED BY <2>6, <3>1, <4>1, <4>2
    <3>2. ASSUME NEW o \in Obj, o \in Admitting(t)' PROVE lpAddress'[o] = Nil
          BY <1>1, <2>1, <2>9, <3>2, SourceNew DEF NewPlain
    <3>   QED BY <2>4, <3>1, <3>2
  <2>10. CASE ~\E m \in inbox[s], x \in Obj : LookupNew(s, m, x)
    <3>1. ASSUME NEW o \in New(t)' PROVE o \in New(t)
          BY <2>4, <2>10, <2>6
    <3>2. ASSUME NEW o \in Admitting(t)' PROVE o \in Admitting(t) /\ (Admit(s) => t # s)
          BY <2>4, <2>10, <2>7, <2>8
    <3>3. /\ \A o \in New(t)' : o \in New(t)
          /\ \A o \in Admitting(t)' : o \in Admitting(t) /\ (Admit(s) => t # s)
          BY <3>1, <3>2
    <3>4. \A o \in New(t) : Flagged(o)' => Flagged(o)
          BY <2>3, <2>10 DEF Flagged
    <3>   QED BY <2>2, <2>3, <2>5, <2>10, <3>3, <3>4 DEF NewPlain
  <2>   QED BY <2>9, <2>10
<1>2. CASE (\E c \in Checker : CheckerStep(c)) \/ ValidatorStep
               \/ (\E f \in Fulfiller : FulfillerStep(f)) \/ ManagerStep
  <2>1. \A s \in Source : New(s)' = New(s) /\ Admitting(s)' = Admitting(s)
        BY <1>2, FlagsOfPooled DEF New, Admitting, sourceVars
  <2>2. ASSUME NEW s \in Source, NEW o \in New(s)
        PROVE  ~Flagged(o)' /\ lpAddress'[o] = lpAddress[o]
    <3>1. o \in Obj /\ ~Flagged(o) /\ o \notin Pooled /\ o \notin InFlight
          BY DEF NewPlain, NewPrivate, New, Admitting, TypeOK, SourceTypeOK
    <3>2. ASSUME NEW x \in Obj, NotValidYet(x) PROVE lpAddress'[o] = lpAddress[o]
      <4>1. x \in InFlight
            BY <3>2, PlaceMembers DEF NotValidYet, Validating, InFlight
      <4>   QED BY <3>1, <3>2, <4>1 DEF NotValidYet, TypeOK, OrderTypeOK
    <3>3. lpAddress'[o] = lpAddress[o]
          BY <1>2, <3>2, CheckerHeld, ValidatorHeld, FulfillerHeld, ManagerHeld
    <3>   QED BY <1>2, <3>1, <3>3, FlagsOfPooled
  <2>   QED BY <2>1, <2>2 DEF NewPlain, New
<1>3. CASE Die
      BY <1>3 DEF Die, NewPlain, New, Admitting
<1>4. CASE Poll \/ ReloadLPs \/ RefreshBalances \/ (\E o \in Obj : DeadlinePasses(o))
           \/ Restart \/ Hub \/ UNCHANGED vars
  <2>1. UNCHANGED <<task, fresh, checking, valid, lpAddress>>
        BY <1>4 DEF Poll, ReloadLPs, RefreshBalances, DeadlinePasses, Restart, Hub, OrderCreated,
           FeeUpdated, BlockProven, Gone, Execute, Reject, Settle, Transfer, GrantOrRevoke, vars,
           poolVars, sourceVars, orderVars
  <2>   QED BY <2>1 DEF NewPlain, New, Admitting, Flagged
<1>   QED BY <1>1, <1>2, <1>3, <1>4 DEF Next, Client, Panic, Fatal, Crash

----------------------------------------------------------------------------
(* Evicted orders.                                                         *)

\* The goroutines behind the pool evict orders on their way.
LEMMA EvictedStep ==
    ASSUME TypeOK, SingleFlight, RetriedStayPooled, EvictedAside,
           (\E c \in Checker : CheckerStep(c)) \/ ValidatorStep
               \/ (\E f \in Fulfiller : FulfillerStep(f)) \/ ManagerStep
    PROVE  EvictedAside'
<1>1. ASSUME UNCHANGED checking, evicting' \subseteq evicting, InFlight' \subseteq InFlight
      PROVE  EvictedAside'
      BY <1>1 DEF EvictedAside
<1>2. ASSUME NEW c \in Checker, CheckerStep(c) PROVE EvictedAside'
  <2>1. CASE PopOrders(c)
    <3>1. PICK pop \in popOrders(PopLimit) :
             checking' = pop.checking /\ hold' = [hold EXCEPT ![Popped(c)] = pop.orders]
          BY <2>1 DEF PopOrders
    <3>2. /\ checking \subseteq checking' /\ \A o \in pop.orders : ~Flagged(o)
          BY <3>1 DEF popOrders
    <3>3. InFlight' \subseteq InFlight \cup pop.orders
          BY <3>1 DEF InFlight, TypeOK, PipeTypeOK
    <3>   QED BY <2>1, <3>2, <3>3 DEF PopOrders, EvictedAside, Flagged
  <2>2. CASE \E k \in ToCheckSlot : SendToCheck(c, k)
    <3>1. InFlight' \subseteq InFlight
          BY <2>2, MoveHeld, PlaceMembers DEF SendToCheck
    <3>   QED BY <1>1, <2>2, <3>1 DEF SendToCheck, poolVars
  <2>   QED BY <1>2, <2>1, <2>2 DEF CheckerStep
<1>3. CASE ValidatorStep
  <2>1. ASSUME NEW o \in Obj, GiveUp(o) PROVE EvictedAside'
    <3>1. o \in hold[ToValidate] /\ o \in InFlight
          BY <2>1, PlaceMembers DEF GiveUp, Validating, InFlight
    <3>2. InFlight' = InFlight \ {o}
          BY <2>1, <3>1, DropApart, PlaceMembers DEF GiveUp, Evict, SingleFlight, TypeOK, PipeTypeOK
    <3>   QED BY <2>1, <3>1, <3>2 DEF GiveUp, Evict, SingleFlight, Claimed, EvictedAside
  <2>2. ASSUME NEW o \in Obj, NotValidYet(o) PROVE EvictedAside'
        BY <2>2 DEF NotValidYet, Validating, EvictedAside
  <2>3. ASSUME NEW o \in Obj, FoundValid(o) \/ NodeError(o) PROVE EvictedAside'
        BY <2>3 DEF FoundValid, NodeError, Validating, EvictedAside
  <2>4. CASE ReleaseEvicted
        BY <2>4 DEF ReleaseEvicted, EvictedAside
  <2>5. CASE (\E k \in ToCheckSlot : ReceiveToCheck(k)) \/ (\E k \in OutputSlot : SendValid(k))
             \/ AddRetried
        BY <2>5 DEF ReceiveToCheck, ValidatorIdle, SendValid, AddRetried, EvictedAside
  <2>   QED BY <1>3, <2>1, <2>2, <2>3, <2>4, <2>5 DEF ValidatorStep
<1>4. CASE \E f \in Fulfiller : FulfillerStep(f)
  <2>1. InFlight' \subseteq InFlight
        BY <1>4, FulfillerHeld
  <2>2. UNCHANGED <<checking, evicting>>
        BY <1>4 DEF FulfillerStep, ReceiveBatch, Submit, Succeed, Fail, RPCError,
           SendSuccesses, SendFailures, poolVars
  <2>   QED BY <1>1, <2>1, <2>2
<1>5. CASE ManagerStep
  <2>1. InFlight' \subseteq InFlight
        BY <1>5, ManagerHeld
  <2>   QED BY <1>1, <1>5, <2>1 DEF ManagerStep, ManageProcessed
<1>   QED BY <1>2, <1>3, <1>4, <1>5

\* Every step leaves an evicted order flagged and off its way.
LEMMA EvictedKept ==
    ASSUME TypeOK, SingleFlight, RetriedStayPooled, EvictedAside, [Next]_vars
    PROVE  EvictedAside'
<1>1. ASSUME NEW s \in Source, SourceStep(s) PROVE EvictedAside'
  <2>1. UNCHANGED evicting /\ InFlight' = InFlight
        BY <1>1, SourceQuiet DEF pipeVars, InFlight
  <2>2. ASSUME NEW m \in inbox[s], NEW x \in Obj, LookupNew(s, m, x)
        PROVE  x \notin evicting /\ checking' = checking \ {x}
        BY <2>2 DEF LookupNew, Unreferenced
  <2>3. ASSUME ~\E m \in inbox[s], x \in Obj : LookupNew(s, m, x) PROVE checking' = checking
        BY <1>1, <2>3 DEF SourceStep, LookupPooled, Update, Refuse, Admit, NoProvider, NoteMiss,
           TrackOrders, poolVars
  <2>   QED BY <2>1, <2>2, <2>3 DEF EvictedAside
<1>2. CASE Die
      BY <1>2 DEF Die, EvictedAside
<1>3. CASE Poll \/ ReloadLPs \/ RefreshBalances \/ (\E o \in Obj : DeadlinePasses(o))
           \/ Restart \/ Hub \/ UNCHANGED vars
  <2>1. UNCHANGED <<checking, hold, evicting>>
        BY <1>3 DEF Poll, ReloadLPs, RefreshBalances, DeadlinePasses, Restart, Hub, OrderCreated,
           FeeUpdated, BlockProven, Gone, Execute, Reject, Settle, Transfer, GrantOrRevoke, vars,
           poolVars, pipeVars
  <2>   QED BY <2>1 DEF EvictedAside, InFlight
<1>   QED BY <1>1, <1>2, <1>3, EvictedStep DEF Next, Client, Panic, Fatal, Crash

----------------------------------------------------------------------------
(* The valid flag.                                                         *)

Early == Place \ Beyond

\* The goroutines behind the validator's list touch no earlier place.
LEMMA LateSteps ==
    ASSUME TypeOK, (\E k \in OutputSlot : SendValid(k))
                   \/ (\E f \in Fulfiller : FulfillerStep(f)) \/ ManagerStep
    PROVE  (\A p \in Early : hold'[p] = hold[p]) /\ valid' = valid
<1>1. CASE \E k \in OutputSlot : SendValid(k)
      BY <1>1, BeyondMembers DEF SendValid, Move, TypeOK, PipeTypeOK, Early, poolVars
<1>2. ASSUME NEW f \in Fulfiller, FulfillerStep(f)
      PROVE  (\A p \in Early : hold'[p] = hold[p]) /\ valid' = valid
  <2>1. CASE \E k \in OutputSlot : ReceiveBatch(f, k)
        BY <2>1, BeyondMembers DEF ReceiveBatch, Move, TypeOK, PipeTypeOK, Early, poolVars
  <2>2. CASE Submit(f) \/ Succeed(f)
        BY <2>2, BeyondMembers DEF Submit, Succeed, Move, TypeOK, PipeTypeOK, Early, poolVars
  <2>3. CASE Fail(f) \/ RPCError(f)
        BY <2>3, BeyondMembers DEF Fail, RPCError, TypeOK, PipeTypeOK, Early, poolVars
  <2>4. CASE \E k \in ProcessedSlot : SendSuccesses(f, k) \/ SendFailures(f, k)
        BY <2>4, BeyondMembers DEF SendSuccesses, SendFailures, Move, TypeOK, PipeTypeOK,
           Early, poolVars
  <2>   QED BY <1>2, <2>1, <2>2, <2>3, <2>4 DEF FulfillerStep
<1>3. CASE ManagerStep
      BY <1>3, BeyondMembers DEF ManagerStep, ManageProcessed, Drop, TypeOK, PipeTypeOK, Early
<1>   QED BY <1>1, <1>2, <1>3

\* An order is flagged valid in the step that takes it out of the early places.
LEMMA EarlyNotValidKept ==
    ASSUME TypeOK, SingleFlight, EarlyNotValid, [Next]_vars
    PROVE  EarlyNotValid'
<1>  SUFFICES ASSUME NEW p \in Early PROVE hold'[p] \cap valid' = {}
     BY DEF EarlyNotValid, Early, Beyond, Place
<1>0. p \in Place /\ hold[p] \cap valid = {}
      BY DEF EarlyNotValid, Early
<1>1. CASE hold'[p] = hold[p] /\ valid' \subseteq valid
      BY <1>0, <1>1
<1>2. ASSUME NEW s \in Source, SourceStep(s)
      PROVE  valid' \subseteq valid /\ hold' = hold
  <2>1. hold' = hold
        BY <1>2, SourceQuiet DEF pipeVars
  <2>   QED BY <1>2, <2>1 DEF SourceStep, LookupPooled, LookupNew, Update, Refuse, Admit,
             NoProvider, NoteMiss, TrackOrders, poolVars
<1>3. ASSUME NEW c \in Checker, PopOrders(c)
      PROVE  hold'[p] \cap valid' = {}
  <2>1. PICK pop \in popOrders(PopLimit) : hold' = [hold EXCEPT ![Popped(c)] = pop.orders]
        BY <1>3 DEF PopOrders
  <2>2. pop.orders \cap valid = {}
        BY PopType DEF TypeOK, Flagged
  <2>   QED BY <1>0, <1>3, <2>1, <2>2 DEF PopOrders, TypeOK, PipeTypeOK
<1>4. ASSUME NEW from \in Early, NEW to \in Early, Move(hold[from], from, to), valid' = valid
      PROVE  hold'[p] \cap valid' = {}
  <2>1. hold[from] \cap valid = {} /\ hold'[p] \subseteq hold[p] \cup hold[from]
        BY <1>0, <1>4 DEF EarlyNotValid, Early, Move, TypeOK, PipeTypeOK
  <2>   QED BY <1>0, <1>4, <2>1
<1>5. /\ \A c \in Checker : Popped(c) \in Early
      /\ \A k \in ToCheckSlot : ToCheck(k) \in Early
      /\ ToValidate \in Early /\ ValidOrders \notin Early
      BY PlaceMembers, BeyondMembers DEF Early
<1>6. CASE \E c \in Checker : CheckerStep(c)
      BY <1>3, <1>4, <1>5, <1>6 DEF CheckerStep, SendToCheck, poolVars
<1>7. ASSUME NEW o \in Obj, FoundValid(o)
      PROVE  hold'[p] \cap valid' = {}
  <2>1. o \in hold[ToValidate] /\ ToValidate \in Place
        BY <1>7, PlaceMembers DEF FoundValid, Validating
  <2>2. valid' \subseteq valid \cup {o}
    <3>1. o \in InFlight
          BY <2>1 DEF InFlight
    <3>   QED BY <1>7, <3>1 DEF FoundValid, setValid, SingleFlight, Claimed
  <2>3. hold'[p] \subseteq hold[p] \ {o}
    <3>1. p # ToValidate => o \notin hold[p]
          BY <1>0, <2>1 DEF SingleFlight, Apart
    <3>2. CASE p = ToValidate
          BY <1>0, <1>5, <1>7, <3>2, PlacesDiffer DEF FoundValid, Move, TypeOK, PipeTypeOK
    <3>3. CASE p # ToValidate
          BY <1>0, <1>5, <1>7, <3>1, <3>3 DEF FoundValid, Move, TypeOK, PipeTypeOK
    <3>   QED BY <3>2, <3>3
  <2>   QED BY <1>0, <2>2, <2>3
<1>8. ASSUME NEW o \in Obj, GiveUp(o) \/ NotValidYet(o) \/ NodeError(o)
      PROVE  hold'[p] \subseteq hold[p] /\ valid' = valid
      BY <1>8, <1>0 DEF GiveUp, Evict, NotValidYet, NodeError, Drop, poolVars, TypeOK, PipeTypeOK
<1>9. CASE ValidatorStep
  <2>1. ReleaseEvicted \/ AddRetried => hold' = hold /\ valid' = valid
        BY DEF ReleaseEvicted, AddRetried, addOrder, poolVars
  <2>   QED BY <1>0, <1>1, <1>4, <1>5, <1>7, <1>8, <1>9, <2>1, LateSteps
            DEF ValidatorStep, ReceiveToCheck, poolVars
<1>10. CASE (\E f \in Fulfiller : FulfillerStep(f)) \/ ManagerStep
      BY <1>1, <1>10, LateSteps
<1>11. CASE Die
      BY <1>11, <1>0 DEF Die
<1>12. CASE Poll \/ ReloadLPs \/ RefreshBalances \/ \E o \in Obj : DeadlinePasses(o)
      BY <1>1, <1>12 DEF Poll, ReloadLPs, RefreshBalances, DeadlinePasses, poolVars, pipeVars
<1>13. CASE Hub
      BY <1>1, <1>13 DEF Hub, OrderCreated, FeeUpdated, BlockProven, Gone, Execute, Reject, Settle,
         Transfer, GrantOrRevoke, poolVars, pipeVars
<1>14. CASE Restart \/ UNCHANGED vars
      BY <1>1, <1>14 DEF Restart, vars, poolVars, pipeVars
<1>   QED BY <1>1, <1>2, <1>6, <1>9, <1>10, <1>11, <1>12, <1>13, <1>14
          DEF Next, Client, Panic, Fatal, Crash
----------------------------------------------------------------------------
(* What a fulfiller has.                                                   *)

\* The places of a fulfiller but for its successes.
Own(f) == {Batch(f), InTx(f), Failures(f)}

\* No other goroutine uses them, but for the results' channel.
LEMMA OwnDiffer ==
    ASSUME NEW f \in Fulfiller, NEW p \in Own(f)
    PROVE  /\ p \in Place /\ p # ToValidate /\ p # ValidOrders
           /\ \A k : p # Popped(k) /\ p # ToCheck(k) /\ p # Output(k) /\ p # Processed(k)
           /\ \A g : g # f => /\ p # Batch(g) /\ p # InTx(g)
                              /\ p # Successes(g) /\ p # Failures(g)
<1>1. p \in Place
      BY PlaceMembers DEF Own
<1>2. p = <<"batch", f>> \/ p = <<"tx", f>> \/ p = <<"fail", f>>
      BY DEF Own, Batch, InTx, Failures
<1>3. p # ToValidate /\ p # ValidOrders
      BY <1>2 DEF ToValidate, ValidOrders
<1>4. \A k : p # Popped(k) /\ p # ToCheck(k) /\ p # Output(k) /\ p # Processed(k)
      BY <1>2 DEF Popped, ToCheck, Output, Processed
<1>5. \A g : g # f => p # Batch(g) /\ p # InTx(g) /\ p # Successes(g) /\ p # Failures(g)
      BY <1>2 DEF Batch, InTx, Successes, Failures
<1>   QED BY <1>1, <1>3, <1>4, <1>5

\* What one fulfiller has, and whether it waits for which transaction.
SameOwn(f) ==
    /\ \A p \in Own(f) : hold'[p] = hold[p]
    /\ wire'[f].msgs = wire[f].msgs
    /\ wire'[f].state = "none" <=> wire[f].state = "none"

\* The other goroutines leave a fulfiller its places,
LEMMA ClientOwn ==
    ASSUME TypeOK, NEW f \in Fulfiller,
           (\E c \in Checker : CheckerStep(c)) \/ ValidatorStep \/ ManagerStep
    PROVE  SameOwn(f)
<1>  SUFFICES (\A p \in Own(f) : hold'[p] = hold[p]) /\ UNCHANGED wire
     BY DEF SameOwn
<1>1. CASE \E c \in Checker : CheckerStep(c)
      BY <1>1, OwnDiffer DEF CheckerStep, PopOrders, SendToCheck, Move, TypeOK, PipeTypeOK, txVars
<1>2. CASE \E k \in ToCheckSlot : ReceiveToCheck(k)
      BY <1>2, OwnDiffer DEF ReceiveToCheck, Move, TypeOK, PipeTypeOK, txVars
<1>3. CASE \E o \in Obj : NodeError(o) \/ GiveUp(o) \/ NotValidYet(o)
      BY <1>3, OwnDiffer DEF NodeError, GiveUp, Evict, NotValidYet, Drop, TypeOK, PipeTypeOK, txVars
<1>4. CASE \E o \in Obj : FoundValid(o)
      BY <1>4, OwnDiffer DEF FoundValid, Move, TypeOK, PipeTypeOK, txVars
<1>5. CASE \E k \in OutputSlot : SendValid(k)
      BY <1>5, OwnDiffer DEF SendValid, Move, TypeOK, PipeTypeOK, txVars
<1>6. CASE ReleaseEvicted \/ AddRetried
      BY <1>6 DEF ReleaseEvicted, AddRetried, txVars
<1>7. CASE ManagerStep
      BY <1>7, OwnDiffer DEF ManagerStep, ManageProcessed, Drop, TypeOK, PipeTypeOK, txVars
<1>   QED BY <1>1, <1>2, <1>3, <1>4, <1>5, <1>6, <1>7 DEF ValidatorStep

\* the other fulfillers do,
LEMMA FulfillersOwn ==
    ASSUME TypeOK, NEW f \in Fulfiller, NEW g \in Fulfiller, g # f, FulfillerStep(g)
    PROVE  SameOwn(f)
<1>  SUFFICES ASSUME NEW p \in Own(f) PROVE hold'[p] = hold[p] /\ wire'[f] = wire[f]
     BY DEF SameOwn, Own
<1>1. CASE \E k \in OutputSlot : ReceiveBatch(g, k)
      BY <1>1, OwnDiffer DEF ReceiveBatch, Move, TypeOK, PipeTypeOK, txVars
<1>2. CASE Submit(g) \/ Succeed(g)
      BY <1>2, OwnDiffer DEF Submit, Succeed, Move, TypeOK, PipeTypeOK, TxTypeOK
<1>3. CASE Fail(g) \/ RPCError(g)
      BY <1>3, OwnDiffer DEF Fail, RPCError, Abort, TypeOK, PipeTypeOK, TxTypeOK
<1>4. CASE \E k \in ProcessedSlot : SendSuccesses(g, k) \/ SendFailures(g, k)
      BY <1>4, OwnDiffer DEF SendSuccesses, SendFailures, Move, TypeOK, PipeTypeOK, txVars
<1>   QED BY <1>1, <1>2, <1>3, <1>4 DEF FulfillerStep

\* and the hub does.
LEMMA HubOwn ==
    ASSUME TypeOK, NEW f \in Fulfiller, Hub
    PROVE  SameOwn(f)
<1>1. hold' = hold
      BY DEF Hub, OrderCreated, FeeUpdated, BlockProven, Gone, Execute, Reject, Settle,
         Transfer, GrantOrRevoke, pipeVars
<1>2. CASE UNCHANGED wire
      BY <1>1, <1>2 DEF SameOwn
<1>3. ASSUME NEW g \in Fulfiller, Execute(g)
      PROVE  SameOwn(f)
      BY <1>1, <1>3 DEF Execute, SameOwn, TypeOK, TxTypeOK
<1>4. ASSUME NEW g \in Fulfiller, Reject(g)
      PROVE  SameOwn(f)
      BY <1>1, <1>4 DEF Reject, SameOwn, TypeOK, TxTypeOK
<1>   QED BY <1>2, <1>3, <1>4 DEF Hub, OrderCreated, FeeUpdated, BlockProven, Gone, Settle,
          Transfer, GrantOrRevoke, txVars

\* A step is about the fulfiller itself, ends the process, or is none of its business.
LEMMA OwnStep ==
    ASSUME TypeOK, NEW f \in Fulfiller, [Next]_vars
    PROVE  SameOwn(f) \/ FulfillerStep(f) \/ Die
<1>1. CASE UNCHANGED <<hold, wire>>
      BY <1>1 DEF SameOwn
<1>2. CASE Poll \/ \E s \in Source : SourceStep(s)
      BY <1>1, <1>2, SourceQuiet DEF Poll, pipeVars, txVars
<1>3. CASE ReloadLPs \/ RefreshBalances \/ \E o \in Obj : DeadlinePasses(o)
      BY <1>1, <1>3 DEF ReloadLPs, RefreshBalances, DeadlinePasses, pipeVars, txVars
<1>4. CASE Restart \/ UNCHANGED vars
      BY <1>1, <1>4 DEF Restart, vars, pipeVars, txVars
<1>5. CASE \E g \in Fulfiller : FulfillerStep(g)
      BY <1>5, FulfillersOwn
<1>6. CASE Hub
      BY <1>6, HubOwn
<1>7. CASE Panic \/ Crash \/ \E g \in Fulfiller : Fatal(g)
      BY <1>7 DEF Panic, Crash, Fatal
<1>8. CASE (\E c \in Checker : CheckerStep(c)) \/ ValidatorStep \/ ManagerStep
      BY <1>8, ClientOwn
<1>   QED BY <1>2, <1>3, <1>4, <1>5, <1>6, <1>7, <1>8 DEF Next, Client

\* Every step leaves the failures to the last chunk.
LEMMA FailuresLastKept ==
    ASSUME TypeOK, FailuresLast, [Next]_vars
    PROVE  FailuresLast'
<1>  SUFFICES ASSUME NEW f \in Fulfiller
              PROVE  wire'[f].state # "none" \/ hold'[Batch(f)] # {} => hold'[Failures(f)] = {}
     BY DEF FailuresLast
<1>0. wire[f].state # "none" \/ hold[Batch(f)] # {} => hold[Failures(f)] = {}
      BY DEF FailuresLast
<1>a. /\ Batch(f) \in Place /\ InTx(f) \in Place /\ Failures(f) \in Place
      /\ Successes(f) \in Place
      BY PlaceMembers
<1>b. /\ Batch(f) # InTx(f) /\ Batch(f) # Failures(f) /\ InTx(f) # Failures(f)
      /\ \A p \in {Batch(f), InTx(f), Failures(f)} : p # Successes(f)
      /\ \A k : \A p \in {Batch(f), InTx(f), Failures(f)} : p # Output(k) /\ p # Processed(k)
      BY DEF Batch, InTx, Failures, Successes, Output, Processed
<1>1. CASE SameOwn(f)
      BY <1>0, <1>1 DEF SameOwn, Own
<1>2. CASE Die
      BY <1>2, <1>a DEF Die
<1>3. ASSUME NEW k \in OutputSlot, ReceiveBatch(f, k)
      PROVE  hold'[Failures(f)] = {}
  <2>1. hold[Failures(f)] = {} /\ Output(k) \in Place
        BY <1>3, PlaceMembers DEF ReceiveBatch
  <2>   QED BY <1>3, <1>a, <1>b, <2>1 DEF ReceiveBatch, Move, TypeOK, PipeTypeOK
<1>4. CASE Submit(f)
      BY <1>0, <1>4, <1>a, <1>b DEF Submit, Move, TypeOK, PipeTypeOK
<1>5. CASE Succeed(f)
      BY <1>0, <1>5, <1>a, <1>b DEF Succeed, Move, TypeOK, PipeTypeOK
<1>6. CASE Fail(f) \/ RPCError(f)
  <2>1. wire'[f].state = "none"
        BY <1>6 DEF Fail, RPCError, Abort, NoTx, TypeOK, TxTypeOK
  <2>2. hold'[Batch(f)] = {}
        BY <1>6, <1>a, <1>b DEF Fail, RPCError, TypeOK, PipeTypeOK
  <2>   QED BY <2>1, <2>2
<1>7. ASSUME NEW k \in ProcessedSlot, SendSuccesses(f, k) \/ SendFailures(f, k)
      PROVE  /\ hold'[Batch(f)] = hold[Batch(f)]
             /\ hold'[Failures(f)] \subseteq hold[Failures(f)] /\ wire' = wire
      BY <1>7, <1>a, <1>b DEF SendSuccesses, SendFailures, Move, TypeOK, PipeTypeOK, txVars
<1>   QED BY <1>0, <1>1, <1>2, <1>3, <1>4, <1>5, <1>6, <1>7, OwnStep DEF FulfillerStep

----------------------------------------------------------------------------
(* All of it, always.                                                      *)

LEMMA AsideAlways == Spec => []AsideInv
<1>1. Init => AsideInv
  <2>  SUFFICES ASSUME Init PROVE AsideInv
       OBVIOUS
  <2>1. \A s \in Source : New(s) = {} /\ Admitting(s) = {}
        BY DEF Init, ProcessInit, New, Admitting
  <2>2. \A p \in Place : hold[p] = {}
        BY DEF Init, ProcessInit
  <2>3. NewPrivate /\ NewPlain
        BY <2>1 DEF NewPrivate, NewPlain
  <2>4. EvictedAside /\ EarlyNotValid
        BY <2>2 DEF Init, ProcessInit, EvictedAside, EarlyNotValid
  <2>5. FailuresLast
        BY <2>2, PlaceMembers DEF FailuresLast
  <2>   QED BY <2>3, <2>4, <2>5 DEF AsideInv
<1>2. TypeOK /\ TypeOK' /\ SingleFlight /\ RetriedStayPooled /\ AsideInv /\ [Next]_vars => AsideInv'
      BY PrivateKept, PlainKept, EvictedKept, EarlyNotValidKept, FailuresLastKept DEF AsideInv
<1>   QED BY <1>1, <1>2, TypeCorrect, FlightsAreSingle, RetriesStayPooled, PTL DEF Spec

----------------------------------------------------------------------------
(* Orders that are lost to the process.                                    *)

\* Where the pool and the flags stay and nothing leaves, nothing is stranded.
LEMMA SameStranded ==
    ASSUME UNCHANGED poolVars, InFlight \subseteq InFlight'
    PROVE  Stranded' \subseteq Stranded
BY DEF Stranded, Flagged, Pooled, poolVars

\* Nor when orders move from one place to the next,
LEMMA MoveStranded ==
    ASSUME TypeOK, SingleFlight, UNCHANGED poolVars,
           NEW from \in Place, NEW to \in Place, from # to,
           NEW os \in SUBSET hold[from], Move(os, from, to)
    PROVE  Stranded' \subseteq Stranded
<1>1. InFlight' = InFlight
      BY MoveApart DEF TypeOK, PipeTypeOK, SingleFlight
<1>   QED BY <1>1, SameStranded

\* nor when one leaves together with its own pool entry.
LEMMA RemoveStranded ==
    ASSUME TypeOK, SingleFlight, NEW p \in Place, NEW o \in hold[p],
           removeOrder(IdOf[o]), Drop({o}, p), UNCHANGED <<checking, valid>>
    PROVE  Stranded' \subseteq Stranded
<1>1. o \in InFlight
      BY DEF InFlight
<1>2. pool[IdOf[o]] = o
      BY <1>1 DEF SingleFlight, Claimed
<1>3. InFlight' = InFlight \ {o}
      BY DropApart DEF TypeOK, PipeTypeOK, SingleFlight
<1>4. \A id \in Id : pool'[id] # Nil => pool'[id] = pool[id] /\ pool'[id] # o
      BY <1>2 DEF removeOrder, TypeOK, PoolTypeOK
<1>5. Pooled' \subseteq Pooled \ {o}
      BY <1>4 DEF Pooled
<1>   QED BY <1>3, <1>5 DEF Stranded, Flagged

\* A source puts back the order it remembered, if any.
LEMMA SourceStranded ==
    ASSUME TypeOK, NewPlain, NEW s \in Source, SourceStep(s), NEW o \in Stranded' \ Stranded
    PROVE  Update(s) /\ task[s].order = o /\ pool[IdOf[o]] # o
<1>1. InFlight' = InFlight
      BY SourceQuiet DEF InFlight, pipeVars
<1>2. ASSUME NEW m \in inbox[s], NEW x \in Obj, LookupNew(s, m, x)
      PROVE  FALSE
      BY <1>1, <1>2 DEF LookupNew, Stranded, Flagged, Pooled
<1>3. CASE Update(s)
  <2>1. task[s].order \in Obj
        BY <1>3 DEF Update, TypeOK, SourceTypeOK, Task
  <2>2. Pooled' \subseteq Pooled \cup {task[s].order}
        BY <1>3, <2>1, UpsertHeld DEF Update
  <2>3. o \notin Pooled
        BY <1>1, <1>3 DEF Update, Stranded, Flagged
  <2>4. o = task[s].order
        BY <2>2, <2>3 DEF Stranded
  <2>5. IdOf[o] \in Id /\ o # Nil
        BY <2>1, <2>4, PoolAssumption
  <2>6. pool[IdOf[o]] # o
        BY <2>3, <2>5 DEF Pooled
  <2>   QED BY <1>3, <2>4, <2>6
<1>4. CASE TrackOrders(s)
  <2>1. Pooled' \subseteq Pooled \cup fresh[s]
        BY <1>4, UpsertHeld DEF TrackOrders, TypeOK, SourceTypeOK
  <2>2. \A x \in fresh[s] : ~Flagged(x)
        BY DEF NewPlain, New
  <2>   QED BY <1>1, <1>4, <2>1, <2>2 DEF TrackOrders, Stranded, Flagged
<1>5. CASE Refuse(s) \/ Admit(s) \/ NoProvider(s) \/ NoteMiss(s)
           \/ \E m \in inbox[s] : LookupPooled(s, m)
      BY <1>1, <1>5, SameStranded DEF Refuse, Admit, NoProvider, NoteMiss, LookupPooled
<1>   QED BY <1>2, <1>3, <1>4, <1>5 DEF SourceStep

\* The checkers flag what they put on its way.
LEMMA CheckerStranded ==
    ASSUME TypeOK, SingleFlight, NEW c \in Checker, CheckerStep(c)
    PROVE  Stranded' \subseteq Stranded
<1>1. CASE PopOrders(c)
  <2>1. PICK pop \in popOrders(PopLimit) :
              /\ checking' = pop.checking
              /\ hold' = [hold EXCEPT ![Popped(c)] = pop.orders]
        BY <1>1 DEF PopOrders
  <2>2. checking' = checking \cup pop.orders
        BY <2>1 DEF popOrders
  <2>3. InFlight' = InFlight \cup pop.orders
    <3>1. /\ Popped(c) \in Place /\ hold[Popped(c)] = {}
          /\ hold'[Popped(c)] = pop.orders
          /\ \A p \in Place : p # Popped(c) => hold'[p] = hold[p]
          BY <1>1, <2>1, PlaceMembers DEF PopOrders, TypeOK, PipeTypeOK
    <3>   QED BY <3>1 DEF InFlight
  <2>   QED BY <1>1, <2>2, <2>3 DEF PopOrders, Stranded, Flagged, Pooled
<1>2. ASSUME NEW k \in ToCheckSlot, SendToCheck(c, k)
      PROVE  Stranded' \subseteq Stranded
      BY <1>2, MoveStranded, PlaceMembers, PlacesDiffer DEF SendToCheck
<1>   QED BY <1>1, <1>2 DEF CheckerStep

\* What the validator ends is out of the pool or without a flag, but for the
\* orders a node could not be asked about.
LEMMA ValidatorStranded ==
    ASSUME TypeOK, SingleFlight, RetriedStayPooled, EarlyNotValid, ValidatorStep,
           NEW o \in Stranded' \ Stranded
    PROVE  NodeError(o)
<1>1. ASSUME NEW k \in ToCheckSlot, ReceiveToCheck(k)
      PROVE  Stranded' \subseteq Stranded
      BY <1>1, MoveStranded, PlaceMembers, PlacesDiffer DEF ReceiveToCheck
<1>2. ASSUME NEW x \in Obj, FoundValid(x)
      PROVE  Stranded' \subseteq Stranded
  <2>1. /\ {x} \in SUBSET hold[ToValidate] /\ ToValidate \in Place /\ ValidOrders \in Place
        /\ ToValidate # ValidOrders /\ Move({x}, ToValidate, ValidOrders)
        BY <1>2, PlaceMembers, PlacesDiffer DEF FoundValid, Validating
  <2>2. InFlight' = InFlight
        BY <2>1, MoveApart DEF TypeOK, PipeTypeOK, SingleFlight
  <2>3. x \in InFlight
        BY <2>1 DEF InFlight
  <2>4. valid' \subseteq valid \cup {x}
        BY <1>2, <2>3 DEF FoundValid, setValid, SingleFlight, Claimed
  <2>   QED BY <1>2, <2>2, <2>3, <2>4 DEF FoundValid, Stranded, Flagged, Pooled
<1>3. ASSUME NEW x \in Obj, GiveUp(x)
      PROVE  Stranded' \subseteq Stranded
      BY <1>3, RemoveStranded, PlaceMembers DEF GiveUp, Evict, Validating
<1>4. ASSUME NEW x \in Obj, NotValidYet(x)
      PROVE  Stranded' \subseteq Stranded
  <2>1. ToValidate \in Place /\ ToValidate \notin Beyond /\ x \in hold[ToValidate]
        BY <1>4, PlaceMembers, BeyondMembers DEF NotValidYet, Validating
  <2>2. x \notin valid
        BY <2>1 DEF EarlyNotValid
  <2>3. InFlight' = InFlight \ {x}
        BY <1>4, <2>1, DropApart DEF TypeOK, PipeTypeOK, SingleFlight, NotValidYet
  <2>   QED BY <1>4, <2>2, <2>3 DEF NotValidYet, Stranded, Flagged, Pooled
<1>5. ASSUME NEW x \in Obj, NodeError(x)
      PROVE  o = x
  <2>1. ToValidate \in Place /\ x \in hold[ToValidate]
        BY <1>5, PlaceMembers DEF NodeError, Validating
  <2>2. InFlight' = InFlight \ {x}
        BY <1>5, <2>1, DropApart DEF TypeOK, PipeTypeOK, SingleFlight, NodeError
  <2>   QED BY <1>5, <2>2 DEF NodeError, poolVars, Stranded, Flagged, Pooled
<1>6. ASSUME NEW k \in OutputSlot, SendValid(k)
      PROVE  Stranded' \subseteq Stranded
      BY <1>6, MoveStranded, PlaceMembers, PlacesDiffer DEF SendValid, Chunks
<1>7. CASE ReleaseEvicted
      BY <1>7, SameStranded DEF ReleaseEvicted, InFlight
<1>8. CASE AddRetried
  <2>1. \A id \in Id : Listed(retry, id) => pool[id] # Nil
        BY DEF RetriedStayPooled, Listed
  <2>2. UNCHANGED poolVars /\ InFlight' = InFlight
        BY <1>8, <2>1 DEF AddRetried, addOrder, TypeOK, PoolTypeOK, InFlight, poolVars
  <2>   QED BY <2>2, SameStranded
<1>   QED BY <1>1, <1>2, <1>3, <1>4, <1>5, <1>6, <1>7, <1>8 DEF ValidatorStep

\* What a fulfiller drops without a result is its transaction's, after an RPC
\* error, or the rest of its batch.
LEMMA FulfillerStranded ==
    ASSUME TypeOK, SingleFlight, FailuresLast, NEW f \in Fulfiller, FulfillerStep(f),
           NEW o \in Stranded' \ Stranded
    PROVE  \/ o \in hold[Batch(f)] \cup hold[InTx(f)] /\ RPCError(f)
           \/ o \in hold[Batch(f)] /\ Fail(f)
<1>1. ASSUME NEW k \in OutputSlot, ReceiveBatch(f, k)
      PROVE  Stranded' \subseteq Stranded
      BY <1>1, MoveStranded, PlaceMembers, PlacesDiffer DEF ReceiveBatch
<1>2. CASE Submit(f)
      BY <1>2, MoveStranded, PlaceMembers, PlacesDiffer DEF Submit, Chunks
<1>3. CASE Succeed(f)
      BY <1>3, MoveStranded, PlaceMembers, PlacesDiffer DEF Succeed
<1>0. /\ Batch(f) \in Place /\ InTx(f) \in Place /\ Failures(f) \in Place
      /\ Batch(f) # InTx(f) /\ Batch(f) # Failures(f) /\ InTx(f) # Failures(f)
      BY PlaceMembers, PlacesDiffer
<1>4. CASE Fail(f)
  <2>1. wire[f].state # "none"
        BY <1>4 DEF Fail, TimedOut
  <2>2. hold[Failures(f)] = {}
        BY <2>1 DEF FailuresLast
  <2>3. /\ hold'[Failures(f)] = hold[InTx(f)]
        /\ \A p \in Place : p \notin {Batch(f), InTx(f), Failures(f)} => hold'[p] = hold[p]
        BY <1>0, <1>4 DEF Fail, TypeOK, PipeTypeOK
  <2>4. InFlight \ hold[Batch(f)] \subseteq InFlight'
        BY <1>0, <2>2, <2>3 DEF InFlight
  <2>5. o \in InFlight /\ o \notin InFlight'
        BY <1>4 DEF Fail, poolVars, Stranded, Flagged, Pooled
  <2>   QED BY <1>4, <2>4, <2>5
<1>5. CASE RPCError(f)
  <2>1. \A p \in Place : p \notin {Batch(f), InTx(f)} => hold'[p] = hold[p]
        BY <1>0, <1>5 DEF RPCError, TypeOK, PipeTypeOK
  <2>2. InFlight \ (hold[Batch(f)] \cup hold[InTx(f)]) \subseteq InFlight'
        BY <1>0, <2>1 DEF InFlight
  <2>3. o \in InFlight /\ o \notin InFlight'
        BY <1>5 DEF RPCError, poolVars, Stranded, Flagged, Pooled
  <2>   QED BY <1>5, <2>2, <2>3
<1>6. ASSUME NEW k \in ProcessedSlot, SendSuccesses(f, k)
      PROVE  Stranded' \subseteq Stranded
      BY <1>6, MoveStranded, PlaceMembers, PlacesDiffer DEF SendSuccesses
<1>7. ASSUME NEW k \in ProcessedSlot, SendFailures(f, k)
      PROVE  Stranded' \subseteq Stranded
      BY <1>7, MoveStranded, PlaceMembers, PlacesDiffer DEF SendFailures
<1>   QED BY <1>1, <1>2, <1>3, <1>4, <1>5, <1>6, <1>7 DEF FulfillerStep

\* Every step strands an order in one of the four ways only.
LEMMA StrandsStep ==
    ASSUME TypeOK, SingleFlight, RetriedStayPooled, AsideInv, [Next]_vars
    PROVE  StrandsOnly
<1>  SUFFICES ASSUME up', NEW o \in Stranded' \ Stranded
              PROVE  \/ NodeError(o)
                     \/ \E f \in Fulfiller : /\ o \in hold[Batch(f)] \cup hold[InTx(f)]
                                           /\ RPCError(f)
                     \/ \E f \in Fulfiller : o \in hold[Batch(f)] /\ Fail(f)
                     \/ \E s \in Source : Update(s) /\ task[s].order = o /\ pool[IdOf[o]] # o
     BY DEF StrandsOnly
<1>0. NewPlain /\ EarlyNotValid /\ FailuresLast
      BY DEF AsideInv
<1>1. UNCHANGED <<poolVars, hold>> => Stranded' \subseteq Stranded
      BY SameStranded DEF InFlight
<1>2. CASE ManagerStep
      BY <1>2, RemoveStranded, PlaceMembers DEF ManagerStep, ManageProcessed
<1>3. ~Die
      BY DEF Die
<1>4. CASE Poll \/ ReloadLPs \/ RefreshBalances \/ \E x \in Obj : DeadlinePasses(x)
      BY <1>1, <1>4 DEF Poll, ReloadLPs, RefreshBalances, DeadlinePasses, pipeVars
<1>5. CASE Restart \/ Hub \/ UNCHANGED vars
      BY <1>1, <1>5 DEF Restart, Hub, OrderCreated, FeeUpdated, BlockProven, Gone, Execute,
         Reject, Settle, Transfer, GrantOrRevoke, vars, pipeVars
<1>6. CASE \E c \in Checker : CheckerStep(c)
      BY <1>6, CheckerStranded
<1>7. CASE ValidatorStep
      BY <1>0, <1>7, ValidatorStranded
<1>8. CASE \E f \in Fulfiller : FulfillerStep(f)
      BY <1>0, <1>8, FulfillerStranded
<1>9. CASE \E s \in Source : SourceStep(s)
      BY <1>0, <1>9, SourceStranded
<1>   QED BY <1>2, <1>3, <1>4, <1>5, <1>6, <1>7, <1>8, <1>9 DEF Next, Client, Panic, Fatal, Crash

(***************************************************************************)
(* In every environment and for any number of goroutines and slots, a      *)
(* pooled order is left behind with a flag in the four cases of            *)
(* StrandsOnly and no other (pool.go:38-39): whatever is polled, updated,  *)
(* retried, evicted, fulfilled and booked at the same time, the end of an  *)
(* order's way clears its flag or removes its own entry.                   *)
(***************************************************************************)
THEOREM StrandedByFaults == Spec => StrandedByFault
<1>1. TypeOK /\ SingleFlight /\ RetriedStayPooled /\ AsideInv /\ [Next]_vars => [StrandsOnly]_vars
      BY StrandsStep
<1>   QED BY <1>1, TypeCorrect, FlightsAreSingle, RetriesStayPooled, AsideAlways, PTL
          DEF Spec, StrandedByFault
=============================================================================
