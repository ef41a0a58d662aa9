------------------------ MODULE OrderFlow_ledger_proofs ------------------------
(***************************************************************************)
(* What is reserved with the providers (order_tracker.go:294-334,          *)
(* lp.go:40-95, 218-248), for any number of orders, providers, goroutines  *)
(* and slots, in every environment: ReservationsMove, which says which     *)
(* steps take a reservation and which give one back; and, as long as the   *)
(* balances are not refreshed, NeverOverdrawn.                             *)
(*                                                                         *)
(* ReservationsMove is an action property.  It follows step by step from   *)
(* the claim protocol: an order in a transaction is nowhere else and its   *)
(* flags are set (SingleFlight), and nobody has it under his hands as a    *)
(* new one or while it is evicted (AsideInv), so it holds no reservation   *)
(* any more in the state after its transaction ends.  All other steps      *)
(* keep what is evicted and what is in a transaction where it is.          *)
(***************************************************************************)
EXTENDS OrderFlow_proofs, Recursion

----------------------------------------------------------------------------
(* What is due. *)

\* The price of an order in a denomination.
PriceIn_(d) == [o \in Obj |-> PriceOf(o)[d]]

\* The total of prices is the sum the lemmas are about.
LEMMA TotalIsSum ==
    ASSUME TypeOK, NEW T \in SUBSET Obj, NEW d \in Denom
    PROVE  Total(PriceOf, T)[d] = SumOf(PriceIn_(d), T)
<1> DEFINE w == PriceIn_(d)
           P(h) == h = [s \in SUBSET T |-> IF s = {} THEN 0
                                           ELSE PriceOf(Pick(s))[d] + h[s \ {Pick(s)}]]
           H == CHOOSE h : P(h)
<1>1. w \in [Obj -> Nat] /\ IsFiniteSet(Obj) /\ IsFiniteSet(T)
      BY FlowAssumption, PoolAssumption, FS_Subset DEF PriceIn_, PriceOf, TypeOK, OrderTypeOK, Bag
<1>2. \A s \in SUBSET T : s # {} => w[Pick(s)] = PriceOf(Pick(s))[d]
      BY PickIn DEF PriceIn_
<1>3. PICK g \in [SUBSET Obj -> Nat] : Adds(g, w, Obj)
      BY <1>1, AddsExists
<1> DEFINE h0 == [s \in SUBSET T |-> g[s]]
<1>4. P(h0)
  <2>1. \A s \in SUBSET T : g[s] = IF s = {} THEN 0 ELSE w[Pick(s)] + g[s \ {Pick(s)}]
        BY <1>3 DEF Adds
  <2>   QED BY <1>2, <2>1
<1>5. P(H)
      BY <1>4
<1>6. Adds(H, w, T)
      BY <1>2, <1>5 DEF Adds
<1>7. Total(PriceOf, T)[d] = H[T]
      BY DEF Total, MapThenSumSet, MapThenFoldSet, Pick
<1>8. SumOf(w, T) = g[T]
  <2> HIDE DEF w
  <2> QED BY <1>1, <1>3, SumIs
<1>9. g[T] = H[T]
  <2> HIDE DEF w, H
  <2>1. \A s \in SUBSET T : g[s] = H[s]
        BY <1>1, <1>3, <1>6, AddsUnique
  <2>   QED BY <2>1
<1>   QED BY <1>7, <1>8, <1>9

\* What is due to the providers is never negative.
LEMMA DueType ==
    ASSUME TypeOK, NEW os \in SUBSET Obj
    PROVE  Due(os) \in [LP -> Bag]
<1>1. \A d \in Denom : IsFiniteSet(Obj) /\ PriceIn_(d) \in [Obj -> Nat]
      BY FlowAssumption, PriceType DEF PriceIn_, TypeOK, Bag
<1>2. \A l \in LP : \A d \in Denom : Total(PriceOf, {o \in os : lpAddress[o] = l})[d] \in Nat
      BY <1>1, TotalIsSum, SumStep
<1>3. \A l \in LP : Total(PriceOf, {o \in os : lpAddress[o] = l}) \in Bag
      BY <1>2 DEF Total, Bag
<1>   QED BY <1>3 DEF Due

----------------------------------------------------------------------------
(* Reservations and balances.                                              *)

\* What a step of the whole system can do to the ledger.
LEMMA LedgerSteps ==
    ASSUME TypeOK, [Next]_vars
    PROVE  \/ UNCHANGED fundVars
           \/ \E current, accepting : \E price \in Bag :
                 \E l \in findLPForOrder(current, accepting, price) : assignLP(l, current, price)
           \/ \E due \in [LP -> Bag] : \/ releaseAllReservedOrdersFunds(due)
                                       \/ debitAllReservedOrdersFunds(due)
           \/ \E loaded \in SUBSET granted : loadLPs(granted, loaded, bank, grants)
           \/ "refresh" \in Env /\ RefreshBalances
           \/ lps' = {}
<1> DEFINE Reserves == \E current, accepting : \E price \in Bag :
                 \E l \in findLPForOrder(current, accepting, price) : assignLP(l, current, price)
           Returns == \E due \in [LP -> Bag] : \/ releaseAllReservedOrdersFunds(due)
                                                \/ debitAllReservedOrdersFunds(due)
<1>1. ASSUME NEW s \in Source, SourceStep(s)
      PROVE  UNCHANGED fundVars \/ Reserves
  <2>1. CASE Admit(s)
    <3>1. task[s].order \in Obj
          BY <2>1 DEF TypeOK, SourceTypeOK, Task, Admit
    <3>2. PriceOf(task[s].order) \in Bag
          BY <3>1, PriceType DEF TypeOK
    <3>   QED BY <2>1, <3>2 DEF Admit
  <2>2. CASE ~Admit(s)
        BY <1>1, <2>2 DEF SourceStep, LookupPooled, LookupNew, Update, Refuse, NoProvider,
             NoteMiss, TrackOrders, fundVars
  <2>   QED BY <2>1, <2>2
<1>2. CASE ValidatorStep
  <2>1. ASSUME NEW o \in Obj, NotValidYet(o) PROVE Reserves
    <3>1. PriceOf(o) \in Bag
          BY PriceType DEF TypeOK
    <3>   QED BY <2>1, <3>1 DEF NotValidYet
  <2>2. CASE ReleaseEvicted
    <3>1. Due(evicting) \in [LP -> Bag]
          BY DueType DEF TypeOK, PipeTypeOK
    <3>   QED BY <2>2, <3>1 DEF ReleaseEvicted
  <2>3. CASE ~(\E o \in Obj : NotValidYet(o)) /\ ~ReleaseEvicted
    <3>1. UNCHANGED fundVars
          BY <1>2, <2>3 DEF ValidatorStep, ReceiveToCheck, NodeError, FoundValid, GiveUp, SendValid,
                AddRetried, fundVars
    <3>   QED BY <3>1
  <2>   QED BY <2>1, <2>2, <2>3
<1>3. ASSUME NEW f \in Fulfiller, FulfillerStep(f)
      PROVE  UNCHANGED fundVars \/ Returns
  <2>1. Due(hold[InTx(f)]) \in [LP -> Bag]
        BY DueType, PlaceMembers DEF TypeOK, PipeTypeOK
  <2>   QED BY <1>3, <2>1 DEF FulfillerStep, ReceiveBatch, Submit, Succeed, Fail, RPCError, Abort,
                 SendSuccesses, SendFailures, fundVars
<1>4. CASE Die
      BY <1>4 DEF Die
<1>5. CASE ReloadLPs \/ Restart
      BY <1>5 DEF ReloadLPs, Restart, Reached
<1>6. CASE Client
      BY <1>1, <1>2, <1>3, <1>4, <1>5, <1>6
         DEF Client, Poll, CheckerStep, PopOrders, SendToCheck, ManagerStep, ManageProcessed,
             RefreshBalances, DeadlinePasses, Panic, Fatal, Crash, fundVars
<1>7. CASE Hub
      BY <1>7 DEF Hub, OrderCreated, FeeUpdated, BlockProven, Gone, Execute, Reject, Settle,
             Transfer, GrantOrRevoke, fundVars
<1>8. CASE UNCHANGED vars
      BY <1>8 DEF vars
<1>   QED BY <1>5, <1>6, <1>7, <1>8 DEF Next

\* Giving back and debiting keep a bag within a bag.
LEMMA TakenOff ==
    ASSUME NEW a \in Bag, NEW b \in Bag, NEW c \in Bag, IsAllGTE(a, b)
    PROVE  IsAllGTE(a, SafeSub(b, c)) /\ IsAllGTE(SafeSub(a, c), SafeSub(b, c))
<1> DEFINE x == [d \in Denom |-> a[d] - c[d]]
           y == [d \in Denom |-> b[d] - c[d]]
<1>1. \A d \in Denom : /\ a[d] \in Nat /\ b[d] \in Nat /\ c[d] \in Nat
                       /\ a[d] >= b[d]
      BY DEF Bag, IsAllGTE
<1>2. CASE y \in Bag
  <2>1. \A d \in Denom : b[d] - c[d] \in Nat
        BY <1>2 DEF Bag
  <2>2. x \in Bag
        BY <1>1, <2>1 DEF Bag
  <2>3. SafeSub(a, c) = x /\ SafeSub(b, c) = y
        BY <1>2, <2>2 DEF SafeSub
  <2>   QED BY <1>1, <2>3 DEF IsAllGTE
<1>3. CASE y \notin Bag
  <2>1. SafeSub(b, c) = NoCoins
        BY <1>3 DEF SafeSub
  <2>2. SafeSub(a, c) \in Bag
        BY SafeSubType
  <2>   QED BY <1>1, <2>1, <2>2 DEF IsAllGTE, NoCoins, Bag
<1>   QED BY <1>2, <1>3

\* While balances are not refreshed, no step overdraws a provider.
LEMMA NeverOverdrawnKept ==
    ASSUME "refresh" \notin Env, TypeOK, TypeOK', NeverOverdrawn, [Next]_vars
    PROVE  NeverOverdrawn'
<1>1. /\ \A l \in LP : balance[l] \in Bag /\ reserved[l] \in Bag
      /\ lps \subseteq LP /\ lps' \subseteq LP
      BY DEF TypeOK, FundsTypeOK
<1>2. \A l \in lps : IsAllGTE(balance[l], reserved[l])
      BY DEF NeverOverdrawn, Overdrawn
<1>3. SUFFICES \A l \in lps' : IsAllGTE(balance'[l], reserved'[l])
      BY DEF NeverOverdrawn, Overdrawn
<1>4. CASE UNCHANGED fundVars
      BY <1>2, <1>4 DEF fundVars
<1>5. ASSUME NEW current, NEW accepting, NEW price \in Bag,
             NEW k \in findLPForOrder(current, accepting, price), assignLP(k, current, price)
      PROVE  \A l \in lps' : IsAllGTE(balance'[l], reserved'[l])
  <2>1. k \in lps /\ hasBalance(k, price)
        BY DEF findLPForOrder, selectBestLP, filterLPsForOrder
  <2>2. IsAllGTE(balance[k], Add(reserved[k], price))
        BY <2>1 DEF hasBalance, Add, IsAllGTE
  <2>   QED BY <1>1, <1>2, <1>5, <2>2 DEF assignLP, TypeOK, FundsTypeOK
<1>6. ASSUME NEW due \in [LP -> Bag],
             releaseAllReservedOrdersFunds(due) \/ debitAllReservedOrdersFunds(due)
      PROVE  \A l \in lps' : IsAllGTE(balance'[l], reserved'[l])
  <2>1. \A l \in lps : /\ IsAllGTE(balance[l], SafeSub(reserved[l], due[l]))
                       /\ IsAllGTE(SafeSub(balance[l], due[l]), SafeSub(reserved[l], due[l]))
        BY <1>1, <1>2, TakenOff
  <2>   QED BY <1>1, <1>6, <2>1 DEF releaseAllReservedOrdersFunds, debitAllReservedOrdersFunds
<1>7. ASSUME NEW loaded \in SUBSET granted, loadLPs(granted, loaded, bank, grants)
      PROVE  \A l \in lps' : IsAllGTE(balance'[l], reserved'[l])
  <2>1. \A l \in granted : bank[l] \in Bag
        BY DEF TypeOK, HubTypeOK
  <2>2. \A l \in loaded : IsAllGTE(bank[l], NoCoins)
        BY <2>1 DEF IsAllGTE, NoCoins, Bag
  <2>   QED BY <1>1, <1>2, <1>7, <2>2 DEF loadLPs, TypeOK, HubTypeOK
<1>8. CASE lps' = {}
      BY <1>8
<1>   QED BY <1>4, <1>5, <1>6, <1>7, <1>8, LedgerSteps

(***************************************************************************)
(* While the balances are not refreshed from the hub, no provider is ever  *)
(* overdrawn, whatever is reserved, given back, debited and reloaded, by   *)
(* any number of goroutines: a reservation is made under the lock that the *)
(* balance was looked up under, and a debit takes the same off both        *)
(* (order_tracker.go:294-334, lp.go:40-95, 240-248).  With the refresh the *)
(* invariant is false.                                                     *)
(***************************************************************************)
THEOREM Covered_Unrefreshed ==
    ASSUME "refresh" \notin Env
    PROVE  Spec => []NeverOverdrawn
<1>1. Init => NeverOverdrawn
      BY FlowAssumption DEF Init, NeverOverdrawn, Overdrawn, IsAllGTE, NoCoins, Bag
<1>2. TypeOK /\ TypeOK' /\ NeverOverdrawn /\ [Next]_vars => NeverOverdrawn'
      BY NeverOverdrawnKept
<1>   QED BY <1>1, <1>2, TypeCorrect, PTL DEF Spec

(***************************************************************************)
(* The panic of spendableBalance (lp.go:90-95) then never takes the client *)
(* down.                                                                   *)
(***************************************************************************)
THEOREM NoPanic_Unrefreshed ==
    ASSUME "refresh" \notin Env
    PROVE  Spec => [][~Panic]_vars
<1>1. NeverOverdrawn => ~Panic
      BY DEF NeverOverdrawn, Panic, filterPanics
<1>2. NeverOverdrawn /\ [Next]_vars => [~Panic]_vars
      BY <1>1
<1>   QED BY <1>2, Covered_Unrefreshed, PTL DEF Spec

----------------------------------------------------------------------------
(* The orders that hold a reservation, by what holds it.                   *)

\* In the pool and free, or remembered and free,
Waiting == {o \in Pooled : ~Flagged(o)}

Recalled == {o \in Updating : ~Flagged(o)}

\* or in a list from which no result has come yet.
Bound == UNION {hold[p] : p \in Place \ Results}

\* That is all of them.
LEMMA ReservingParts ==
    ASSUME TypeOK
    PROVE  Reserving = Fresh \cup evicting \cup Waiting \cup Recalled \cup Bound
<1>1. UNION {fresh[s] : s \in Source} = Fresh
      BY DEF Fresh, TypeOK, SourceTypeOK
<1>2. {o \in Obj : ~Flagged(o) /\ \E w \in Working : w.step = "update" /\ w.order = o} = Recalled
      BY DEF Working, Recalled, Updating
<1>   QED BY <1>1, <1>2 DEF Reserving, Waiting, Bound

LEMMA NextReservingParts ==
    ASSUME TypeOK'
    PROVE  Reserving' = Fresh' \cup evicting' \cup Waiting' \cup Recalled' \cup Bound'
<1>1. UNION {fresh'[s] : s \in Source} = Fresh'
      BY DEF Fresh, TypeOK, SourceTypeOK
<1>2. {o \in Obj : ~Flagged(o)' /\ \E w \in Working' : w.step = "update" /\ w.order = o} = Recalled'
      BY DEF Working, Recalled, Updating
<1>   QED BY <1>1, <1>2 DEF Reserving, Waiting, Bound

\* No list before the results is one of them, in particular no transaction.
LEMMA NoResults ==
    /\ \A c : Popped(c) \notin Results
    /\ \A k : ToCheck(k) \notin Results /\ Output(k) \notin Results
    /\ ToValidate \notin Results /\ ValidOrders \notin Results
    /\ \A f : Batch(f) \notin Results /\ InTx(f) \notin Results
<1>1. ASSUME NEW p \in Results
      PROVE  p[1] \in {"success", "fail", "processed"}
  <2>1. \/ \E f \in Fulfiller : p = Successes(f) \/ p = Failures(f)
        \/ \E k \in ProcessedSlot : p = Processed(k)
        BY <1>1 DEF Results
  <2>   QED BY <2>1 DEF Successes, Failures, Processed
<1>2. /\ \A c : Popped(c)[1] = "popped"
      /\ \A k : ToCheck(k)[1] = "toCheck" /\ Output(k)[1] = "output"
      /\ ToValidate[1] = "validator" /\ ValidOrders[1] = "validator"
      /\ \A f : Batch(f)[1] = "batch" /\ InTx(f)[1] = "tx"
      BY DEF Popped, ToCheck, Output, ToValidate, ValidOrders, Batch, InTx
<1>3. \A p : p[1] \in {"popped", "toCheck", "output", "validator", "batch", "tx"} => p \notin Results
      BY <1>1
<1>   QED BY <1>2, <1>3

LEMMA ChunksBound == \A f \in Fulfiller : InTx(f) \in Place \ Results
BY PlaceMembers, NoResults

\* A step that leaves evictions and transactions as they are ends nothing.
LEMMA NothingEnds ==
    ASSUME TypeOK', evicting \subseteq evicting',
           \A f \in Fulfiller : hold[InTx(f)] \subseteq hold'[InTx(f)]
    PROVE  Ended = {}
<1>1. evicting' \subseteq Reserving'
      BY NextReservingParts
<1>2. \A f \in Fulfiller : hold'[InTx(f)] \subseteq Bound'
      BY ChunksBound DEF Bound
<1>3. Bound' \subseteq Reserving'
      BY NextReservingParts
<1>   QED BY <1>1, <1>2, <1>3 DEF Ended

\* Nothing is due for no orders,
LEMMA NothingDue ==
    ASSUME TypeOK
    PROVE  Due({}) = [l \in LP |-> NoCoins]
<1>1. ASSUME NEW d \in Denom PROVE Total(PriceOf, {})[d] = 0
  <2>1. PriceIn_(d) \in [Obj -> Nat] /\ IsFiniteSet(Obj)
        BY FlowAssumption, PriceType DEF PriceIn_, TypeOK, Bag
  <2>2. SumOf(PriceIn_(d), {}) = 0
        BY <2>1, SumStep
  <2>   QED BY <2>2, TotalIsSum
<1>2. Total(PriceOf, {}) = NoCoins
      BY <1>1 DEF Total, NoCoins
<1>3. \A l \in LP : {o \in {} : lpAddress[o] = l} = {}
      OBVIOUS
<1>   QED BY <1>2, <1>3 DEF Due

\* and giving nothing back leaves a ledger as it is.
LEMMA TakeNothing ==
    ASSUME NEW a \in Bag
    PROVE  SafeSub(a, NoCoins) = a
<1>1. \A d \in Denom : a[d] - NoCoins[d] = a[d]
      BY DEF Bag, NoCoins
<1>2. [d \in Denom |-> a[d] - NoCoins[d]] = a
      BY <1>1 DEF Bag
<1>   QED BY <1>2 DEF SafeSub

\* So a step that ends nothing may leave the ledger alone.
LEMMA LeftAlone ==
    ASSUME TypeOK, Reserving' \subseteq Reserving, Ended = {}, reserved' = reserved
    PROVE  GivesBack
<1>1. \A l \in LP : Due(Ended)[l] = NoCoins
      BY NothingDue
<1>2. \A l \in LP : SafeSub(reserved[l], Due(Ended)[l]) = reserved[l]
      BY <1>1, TakeNothing DEF TypeOK, FundsTypeOK
<1>3. reserved = [l \in LP |-> reserved[l]]
      BY DEF TypeOK, FundsTypeOK
<1>4. [l \in LP |-> IF l \in lps THEN SafeSub(reserved[l], Due(Ended)[l]) ELSE reserved[l]]
        = [l \in LP |-> reserved[l]]
      BY <1>2
<1>   QED BY <1>3, <1>4 DEF GivesBack

----------------------------------------------------------------------------
(* The steps that leave what is reserved as it is.                         *)

\* A list is passed on, or part of it dropped.
LEMMA MoveBound ==
    ASSUME TypeOK, NEW from \in Place \ Results, NEW to \in Place,
           NEW os \in SUBSET hold[from], Move(os, from, to)
    PROVE  Bound' \subseteq Bound
BY DEF Move, Bound, TypeOK, PipeTypeOK

LEMMA DropBound ==
    ASSUME TypeOK, NEW from \in Place, NEW os, Drop(os, from)
    PROVE  Bound' \subseteq Bound /\ Bound \subseteq Bound' \cup os
BY DEF Drop, Bound, TypeOK, PipeTypeOK

\* A source recalls a free order of the pool, or forgets one,
LEMMA SourceRecalls ==
    ASSUME TypeOK, TypeOK', NEW s \in Source, SourceStep(s), ~Admit(s)
    PROVE  Reserving' \subseteq Reserving
<1>a. UNCHANGED <<hold, evicting>>
      BY SourceQuiet DEF pipeVars
<1>b. Bound' = Bound
      BY <1>a DEF Bound
<1>c. SUFFICES Fresh' \cup Waiting' \cup Recalled' \subseteq Fresh \cup Waiting \cup Recalled
      BY <1>a, <1>b, ReservingParts, NextReservingParts
<1>1. ASSUME NEW m \in inbox[s], LookupPooled(s, m)
      PROVE  Fresh' \cup Waiting' \cup Recalled' \subseteq Fresh \cup Waiting \cup Recalled
  <2>1. m.id \in Id
        BY DEF TypeOK, SourceTypeOK, Message
  <2>2. Updating' \subseteq Updating \cup Pooled
        BY <1>1, <2>1 DEF LookupPooled, Updating, Pooled, getOrder, TypeOK, SourceTypeOK
  <2>3. UNCHANGED <<pool, checking, valid, fresh>>
        BY <1>1 DEF LookupPooled, poolVars
  <2>4. Recalled' \subseteq Recalled \cup Waiting
        BY <2>2, <2>3 DEF Recalled, Waiting, Flagged
  <2>5. Fresh' = Fresh /\ Waiting' = Waiting
        BY <2>3 DEF Fresh, Waiting, Pooled, Flagged
  <2>   QED BY <2>4, <2>5
<1>2. ASSUME NEW m \in inbox[s], NEW x \in Obj, LookupNew(s, m, x)
      PROVE  Fresh' \cup Waiting' \cup Recalled' \subseteq Fresh \cup Waiting \cup Recalled
  <2>1. Updating' \subseteq Updating /\ x \notin Updating
        BY <1>2 DEF LookupNew, Updating, Unreferenced, Working, TypeOK, SourceTypeOK
  <2>2. x \notin Pooled /\ UNCHANGED <<pool, fresh>>
        BY <1>2 DEF LookupNew, Unreferenced
  <2>3. \A o : o # x /\ Flagged(o) => Flagged(o)'
        BY <1>2 DEF LookupNew, Flagged
  <2>4. Waiting' \subseteq Waiting /\ Fresh' = Fresh
        BY <2>2, <2>3 DEF Waiting, Pooled, Fresh
  <2>5. Recalled' \subseteq Recalled
        BY <2>1, <2>3 DEF Recalled
  <2>   QED BY <2>4, <2>5
<1>3. CASE Update(s)
  <2>1. /\ task[s].order \in Updating /\ task[s].order \in Obj
        /\ UNCHANGED <<checking, valid, fresh>>
        BY <1>3 DEF Update, Updating, TypeOK, SourceTypeOK, Task
  <2>2. Pooled' \subseteq Pooled \cup Updating
        BY <1>3, <2>1, UpsertHeld DEF Update
  <2>3. Updating' \subseteq Updating
        BY <1>3 DEF Update, Updating, TypeOK, SourceTypeOK
  <2>4. Waiting' \subseteq Waiting \cup Recalled /\ Recalled' \subseteq Recalled
        BY <2>1, <2>2, <2>3 DEF Waiting, Recalled, Flagged
  <2>5. Fresh' = Fresh
        BY <2>1 DEF Fresh
  <2>   QED BY <2>4, <2>5
<1>4. CASE Refuse(s) \/ NoteMiss(s) \/ NoProvider(s)
  <2>1. /\ UNCHANGED <<pool, checking, valid, fresh>>
        /\ \A t \in Source : t # s => task'[t] = task[t]
        /\ task'[s] = Nil \/ task'[s].step = "miss"
        BY <1>4 DEF Refuse, NoteMiss, NoProvider, TypeOK, SourceTypeOK, Task, poolVars
  <2>2. Updating' \subseteq Updating
        BY <2>1 DEF Updating
  <2>   QED BY <2>1, <2>2 DEF Fresh, Waiting, Recalled, Pooled, Flagged
<1>5. CASE TrackOrders(s)
  <2>1. /\ UNCHANGED <<checking, valid, task>>
        /\ fresh' = [fresh EXCEPT ![s] = {}]
        BY <1>5 DEF TrackOrders
  <2>2. Pooled' \subseteq Pooled \cup fresh[s]
        BY <1>5, UpsertHeld DEF TrackOrders, TypeOK, SourceTypeOK
  <2>3. Fresh' \subseteq Fresh /\ fresh[s] \subseteq Fresh /\ Updating' = Updating
        BY <2>1 DEF Fresh, Updating, TypeOK, SourceTypeOK
  <2>4. Waiting' \subseteq Waiting \cup Fresh /\ Recalled' = Recalled
        BY <2>1, <2>2, <2>3 DEF Waiting, Recalled, Flagged
  <2>   QED BY <2>3, <2>4
<1>   QED BY <1>1, <1>2, <1>3, <1>4, <1>5 DEF SourceStep

\* a checker takes free orders from the pool,
LEMMA CheckerBinds ==
    ASSUME TypeOK, TypeOK', NEW c \in Checker, CheckerStep(c)
    PROVE  Reserving' \subseteq Reserving
<1>a. UNCHANGED <<pool, valid, fresh, task, evicting>>
      BY DEF CheckerStep, PopOrders, SendToCheck, sourceVars, poolVars
<1>b. Fresh' = Fresh /\ Updating' = Updating /\ Pooled' = Pooled
      BY <1>a DEF Fresh, Updating, Pooled
<1>1. CASE PopOrders(c)
  <2>1. PICK pop \in popOrders(PopLimit) :
           checking' = pop.checking /\ hold' = [hold EXCEPT ![Popped(c)] = pop.orders]
        BY <1>1 DEF PopOrders
  <2>2. pop.orders \subseteq Waiting /\ checking \subseteq pop.checking
        BY DEF popOrders, Waiting
  <2>3. Waiting' \subseteq Waiting /\ Recalled' \subseteq Recalled
        BY <1>a, <1>b, <2>1, <2>2 DEF Waiting, Recalled, Flagged
  <2>4. Bound' \subseteq Bound \cup Waiting
        BY <2>1, <2>2 DEF Bound, TypeOK, PipeTypeOK
  <2>   QED BY <1>a, <1>b, <2>3, <2>4, ReservingParts, NextReservingParts
<1>2. CASE \E k \in ToCheckSlot : SendToCheck(c, k)
  <2>1. PICK k \in ToCheckSlot : SendToCheck(c, k)
        BY <1>2
  <2>2. Popped(c) \in Place \ Results /\ ToCheck(k) \in Place
        BY PlaceMembers, NoResults
  <2>3. Bound' \subseteq Bound
        BY <2>1, <2>2, MoveBound DEF SendToCheck, TypeOK, PipeTypeOK
  <2>4. Waiting' = Waiting /\ Recalled' = Recalled
        BY <1>a, <1>b, <2>1 DEF SendToCheck, poolVars, Waiting, Recalled, Flagged
  <2>   QED BY <1>a, <1>b, <2>3, <2>4, ReservingParts, NextReservingParts
<1>   QED BY <1>1, <1>2 DEF CheckerStep

\* and a result is booked.
LEMMA ManagerBooks ==
    ASSUME TypeOK, TypeOK', ManagerStep
    PROVE  Reserving' \subseteq Reserving
<1>1. PICK k \in ProcessedSlot, o \in Obj : ManageProcessed(k, o)
      BY DEF ManagerStep
<1>2. /\ removeOrder(IdOf[o]) /\ Drop({o}, Processed(k))
      /\ UNCHANGED <<checking, valid, fresh, task, evicting>>
      BY <1>1 DEF ManageProcessed, sourceVars
<1>3. Bound' \subseteq Bound
      BY <1>2, DropBound, PlaceMembers
<1>4. Pooled' \subseteq Pooled
      BY <1>2, RemoveHeld
<1>5. Waiting' \subseteq Waiting
      BY <1>2, <1>4 DEF Waiting, Flagged
<1>6. Fresh' = Fresh /\ Recalled' = Recalled
      BY <1>2 DEF Fresh, Recalled, Updating, Flagged
<1>   QED BY <1>2, <1>3, <1>5, <1>6, ReservingParts, NextReservingParts

----------------------------------------------------------------------------
(* The steps that take a reservation.                                      *)

\* An order that is admitted had no provider and holds no reservation yet.
LEMMA AdmitTakes ==
    ASSUME TypeOK, TypeOK', NewPlain, NEW s \in Source, Admit(s)
    PROVE  Takes
<1> DEFINE o == task[s].order
<1>1. /\ o \in Obj /\ task[s] \in Task
      /\ fresh' = [fresh EXCEPT ![s] = @ \cup {o}]
      /\ task' = [task EXCEPT ![s] = Nil] /\ task[s].step = "admit"
      /\ UNCHANGED <<hold, evicting, pool, checking, valid>>
      BY DEF Admit, TypeOK, SourceTypeOK, Task, pipeVars, poolVars
<1>2. lpAddress[o] = Nil
      BY <1>1 DEF NewPlain, Admitting, TypeOK, SourceTypeOK, Admit
<1>3. PICK l \in findLPForOrder(Nil, AcceptingOf(o), PriceOf(o)) :
         assignLP(l, Nil, PriceOf(o)) /\ lpAddress' = [lpAddress EXCEPT ![o] = l]
      BY DEF Admit
<1>4. l \in LP
      BY <1>3, FindLPType DEF TypeOK
<1>5. lpAddress'[o] = l /\ l # Nil
      BY <1>1, <1>3, <1>4, FlowAssumption DEF TypeOK, OrderTypeOK
<1>6. Fresh' = Fresh \cup {o}
      BY <1>1 DEF Fresh, TypeOK, SourceTypeOK
<1>7. Updating' = Updating
      BY <1>1 DEF Updating, TypeOK, SourceTypeOK
<1>8. Bound' = Bound /\ Waiting' = Waiting /\ Recalled' = Recalled
      BY <1>1, <1>7 DEF Bound, Waiting, Recalled, Pooled, Flagged
<1>9. Reserving' = Reserving \cup {o}
      BY <1>1, <1>6, <1>8, ReservingParts, NextReservingParts
<1>   HIDE DEF o
<1>   QED BY <1>2, <1>3, <1>5, <1>9 DEF Takes

\* A validated order passes to another provider, or keeps the one it has.
LEMMA RetryTakes ==
    ASSUME TypeOK, TypeOK', SingleFlight, EarlyNotValid, NEW o \in Obj, NotValidYet(o)
    PROVE  Takes \/ (Reserving' \subseteq Reserving /\ reserved' = reserved)
<1>1. /\ o \in hold[ToValidate] /\ evicting = {}
      /\ checking' = checking \ {o} /\ Drop({o}, ToValidate)
      /\ UNCHANGED <<pool, valid, fresh, task, evicting>>
      BY DEF NotValidYet, Validating, sourceVars
<1>2. PICK l \in findLPForOrder(lpAddress[o], AcceptingOf(o), PriceOf(o)) :
         /\ assignLP(l, lpAddress[o], PriceOf(o))
         /\ lpAddress' = [lpAddress EXCEPT ![o] = l]
      BY DEF NotValidYet
<1>3. ToValidate \in Place \ Results
      BY PlaceMembers, NoResults
<1>4. Bound' \subseteq Bound /\ Bound \subseteq Bound' \cup {o} /\ o \in Bound
      BY <1>1, <1>3, DropBound DEF Bound
<1>5. o \in InFlight
      BY <1>1, <1>3 DEF InFlight
<1>6. pool[IdOf[o]] = o /\ o \in checking
      BY <1>5 DEF SingleFlight, Claimed
<1>7. o \notin valid
      BY <1>1, <1>3, BeyondMembers DEF EarlyNotValid
<1>8. ~Flagged(o)' /\ \A x : x # o => (Flagged(x)' <=> Flagged(x))
      BY <1>1, <1>7 DEF Flagged
<1>9. Fresh' = Fresh /\ Updating' = Updating /\ Pooled' = Pooled
      BY <1>1 DEF Fresh, Updating, Pooled
<1>10. o \in Pooled
      BY <1>6, PoolAssumption DEF Pooled
<1>11. Waiting' = Waiting \cup {o}
      BY <1>8, <1>9, <1>10 DEF Waiting
<1>12. Recalled \subseteq Recalled' /\ Recalled' \subseteq Recalled \cup {o}
      BY <1>8, <1>9 DEF Recalled
<1>13. Reserving' = Reserving \cup {o} /\ o \in Reserving
      BY <1>1, <1>4, <1>9, <1>11, <1>12, ReservingParts, NextReservingParts
<1>14. lpAddress'[o] = l
      BY <1>2 DEF TypeOK, OrderTypeOK
<1>15. CASE l = lpAddress[o]
      BY <1>2, <1>13, <1>15 DEF assignLP
<1>16. CASE l # lpAddress[o]
      BY <1>2, <1>13, <1>14, <1>16 DEF Takes
<1>   QED BY <1>15, <1>16

----------------------------------------------------------------------------
(* The steps that give reservations back.                                  *)

\* An evicted order is flagged and nowhere else.
LEMMA EvictionGives ==
    ASSUME TypeOK, TypeOK', NewPrivate, EvictedAside, ReleaseEvicted
    PROVE  GivesBack
<1>1. UNCHANGED <<hold, fresh, task, pool, checking, valid>> /\ evicting' = {}
      BY DEF ReleaseEvicted, sourceVars, poolVars
<1>2. /\ Fresh' = Fresh /\ Bound' = Bound /\ Waiting' = Waiting /\ Recalled' = Recalled
      BY <1>1 DEF Fresh, Bound, Waiting, Recalled, Updating, Pooled, Flagged
<1>3. Reserving' = Fresh \cup Waiting \cup Recalled \cup Bound
      BY <1>1, <1>2, NextReservingParts
<1>4. ASSUME NEW o \in evicting
      PROVE  o \notin Fresh /\ o \notin Waiting /\ o \notin Recalled /\ o \notin Bound
  <2>1. o \in checking /\ o \notin InFlight
        BY DEF EvictedAside
  <2>2. o \notin Waiting /\ o \notin Recalled
        BY <2>1 DEF Waiting, Recalled, Flagged
  <2>3. o \notin Bound
        BY <2>1 DEF Bound, InFlight
  <2>4. o \notin Fresh
        BY DEF NewPrivate, New, Fresh
  <2>   QED BY <2>2, <2>3, <2>4
<1>5. \A f \in Fulfiller : hold[InTx(f)] \subseteq Bound
      BY ChunksBound DEF Bound
<1>6. Ended = evicting /\ Reserving' \subseteq Reserving
      BY <1>3, <1>4, <1>5, ReservingParts DEF Ended
<1>   QED BY <1>6 DEF GivesBack, ReleaseEvicted, releaseAllReservedOrdersFunds

\* An order in a transaction is flagged and nowhere else, so that it holds its
\* reservation no longer when it has become a result or was let go of.
LEMMA ChunkEnds ==
    ASSUME TypeOK, TypeOK', SingleFlight, NewPrivate, EvictedAside, NEW f \in Fulfiller,
           UNCHANGED <<pool, checking, valid, fresh, task, evicting>>, hold'[InTx(f)] = {},
           \A p \in Place \ Results : p # InTx(f) => hold'[p] = hold[p] \/ hold'[p] = {},
           \A g \in Fulfiller : g # f => hold'[InTx(g)] = hold[InTx(g)]
    PROVE  Ended = hold[InTx(f)] /\ Reserving' \subseteq Reserving
<1> DEFINE chunk == hold[InTx(f)]
<1>1. Fresh' = Fresh /\ Waiting' = Waiting /\ Recalled' = Recalled
      BY DEF Fresh, Waiting, Recalled, Updating, Pooled, Flagged
<1>2. Bound' \subseteq Bound
      BY ChunksBound DEF Bound
<1>3. ASSUME NEW o \in chunk
      PROVE  o \notin Fresh /\ o \notin Waiting /\ o \notin Recalled /\ o \notin evicting
  <2>1. o \in InFlight
        BY PlaceMembers DEF InFlight
  <2>2. o \in checking
        BY <2>1 DEF SingleFlight, Claimed
  <2>3. o \notin Waiting /\ o \notin Recalled
        BY <2>2 DEF Waiting, Recalled, Flagged
  <2>4. o \notin Fresh
        BY <2>1 DEF NewPrivate, New, Fresh
  <2>   QED BY <2>1, <2>3, <2>4 DEF EvictedAside
<1>4. chunk \cap Bound' = {}
  <2>1. ASSUME NEW p \in Place \ Results PROVE chunk \cap hold'[p] = {}
    <3>1. p = InTx(f) \/ hold'[p] = {} \/ (p # InTx(f) /\ hold'[p] = hold[p])
          OBVIOUS
    <3>2. InTx(f) \in Place /\ p \in Place
          BY PlaceMembers
    <3>   QED BY <3>1, <3>2 DEF SingleFlight, Apart
  <2>   QED BY <2>1 DEF Bound
<1>5. chunk \subseteq Reserving \ Reserving'
      BY <1>1, <1>3, <1>4, ReservingParts, NextReservingParts, ChunksBound DEF Bound
<1>6. ASSUME NEW g \in Fulfiller, g # f
      PROVE  hold[InTx(g)] \subseteq Reserving'
  <2>1. hold'[InTx(g)] \subseteq Bound'
        BY ChunksBound DEF Bound
  <2>   QED BY <1>6, <2>1, NextReservingParts
<1>7. evicting \subseteq Reserving'
      BY NextReservingParts
<1>8. Ended \subseteq chunk /\ chunk \subseteq Ended
      BY <1>5, <1>6, <1>7 DEF Ended
<1>9. Reserving' \subseteq Reserving
      BY <1>1, <1>2, ReservingParts, NextReservingParts
<1>   QED BY <1>8, <1>9

\* The validator's steps,
LEMMA ValidatorMoves ==
    ASSUME TypeOK, TypeOK', SingleFlight, RetriedStayPooled, AsideInv, ValidatorStep
    PROVE  Takes \/ GivesBack
<1>a. NewPrivate /\ NewPlain /\ EvictedAside /\ EarlyNotValid
      BY DEF AsideInv
<1>b. UNCHANGED hold => Bound' = Bound
      BY DEF Bound
<1>c. UNCHANGED <<fresh, task>>
      BY ValidatorHeld DEF sourceVars
<1>d. Fresh' = Fresh /\ Updating' = Updating
      BY <1>c DEF Fresh, Updating
<1>e. UNCHANGED <<checking, valid>> /\ Pooled' \subseteq Pooled
         => Waiting' \subseteq Waiting /\ Recalled' = Recalled
      BY <1>d DEF Waiting, Recalled, Flagged
<1>f. UNCHANGED poolVars => Waiting' \subseteq Waiting /\ Recalled' = Recalled
      BY <1>e DEF Pooled, poolVars
<1>g. ToValidate \in Place \ Results /\ ValidOrders \in Place \ Results
      BY PlaceMembers, NoResults
<1>h. \A f : InTx(f) # ToValidate /\ InTx(f) # ValidOrders
      BY InTxDiffers
<1>1. ASSUME NEW k \in ToCheckSlot, ReceiveToCheck(k)
      PROVE  GivesBack
  <2>1. UNCHANGED <<poolVars, fundVars, evicting>>
        BY <1>1 DEF ReceiveToCheck
  <2>2. ToCheck(k) \in Place \ Results
        BY PlaceMembers, NoResults
  <2>3. Bound' \subseteq Bound
        BY <1>1, <1>g, <2>2, MoveBound DEF ReceiveToCheck, TypeOK, PipeTypeOK
  <2>4. \A f \in Fulfiller : hold[InTx(f)] \subseteq hold'[InTx(f)]
        BY <1>1, InTxDiffers, PlaceMembers DEF ReceiveToCheck, Move, TypeOK, PipeTypeOK
  <2>5. Ended = {}
        BY <2>1, <2>4, NothingEnds
  <2>6. Reserving' \subseteq Reserving
        BY <1>d, <1>f, <2>1, <2>3, ReservingParts, NextReservingParts
  <2>   QED BY <2>1, <2>5, <2>6, LeftAlone DEF fundVars
<1>2. ASSUME NEW o \in Obj, NodeError(o)
      PROVE  GivesBack
  <2>1. UNCHANGED <<poolVars, fundVars, evicting>>
        BY <1>2 DEF NodeError
  <2>2. Bound' \subseteq Bound
        BY <1>2, <1>g, DropBound DEF NodeError
  <2>3. \A f \in Fulfiller : hold[InTx(f)] \subseteq hold'[InTx(f)]
        BY <1>2, <1>h, PlaceMembers DEF NodeError, Drop, TypeOK, PipeTypeOK
  <2>4. Ended = {}
        BY <2>1, <2>3, NothingEnds
  <2>5. Reserving' \subseteq Reserving
        BY <1>d, <1>f, <2>1, <2>2, ReservingParts, NextReservingParts
  <2>   QED BY <2>1, <2>4, <2>5, LeftAlone DEF fundVars
<1>3. ASSUME NEW o \in Obj, FoundValid(o)
      PROVE  GivesBack
  <2>1. /\ UNCHANGED <<pool, checking, fundVars, evicting>> /\ valid \subseteq valid'
        /\ o \in hold[ToValidate] /\ Move({o}, ToValidate, ValidOrders)
        BY <1>3 DEF FoundValid, Validating, setValid
  <2>2. Bound' \subseteq Bound
        BY <1>g, <2>1, MoveBound DEF TypeOK, PipeTypeOK
  <2>3. \A f \in Fulfiller : hold[InTx(f)] \subseteq hold'[InTx(f)]
        BY <1>h, <2>1, PlaceMembers DEF Move, TypeOK, PipeTypeOK
  <2>4. Ended = {}
        BY <2>1, <2>3, NothingEnds
  <2>5. Waiting' \subseteq Waiting /\ Recalled' \subseteq Recalled
        BY <1>d, <2>1 DEF Waiting, Recalled, Pooled, Flagged
  <2>6. Reserving' \subseteq Reserving
        BY <1>d, <2>1, <2>2, <2>5, ReservingParts, NextReservingParts
  <2>   QED BY <2>1, <2>4, <2>6, LeftAlone DEF fundVars
<1>4. ASSUME NEW o \in Obj, GiveUp(o)
      PROVE  GivesBack
  <2>1. /\ UNCHANGED <<checking, valid, fundVars>> /\ removeOrder(IdOf[o])
        /\ o \in hold[ToValidate] /\ Drop({o}, ToValidate)
        /\ evicting = {} /\ evicting' = {o}
        BY <1>4 DEF GiveUp, Evict, Validating
  <2>2. Bound' \subseteq Bound /\ o \in Bound
        BY <1>g, <2>1, DropBound DEF Bound
  <2>3. \A f \in Fulfiller : hold[InTx(f)] \subseteq hold'[InTx(f)]
        BY <1>h, <2>1, PlaceMembers DEF Drop, TypeOK, PipeTypeOK
  <2>4. Ended = {}
        BY <2>1, <2>3, NothingEnds
  <2>5. Waiting' \subseteq Waiting /\ Recalled' = Recalled
        BY <1>e, <2>1, RemoveHeld
  <2>6. Reserving' \subseteq Reserving
        BY <1>d, <2>1, <2>2, <2>5, ReservingParts, NextReservingParts
  <2>   QED BY <2>1, <2>4, <2>6, LeftAlone DEF fundVars
<1>5. ASSUME NEW o \in Obj, NotValidYet(o)
      PROVE  Takes \/ GivesBack
  <2>1. /\ evicting' = evicting /\ Drop({o}, ToValidate)
        BY <1>5 DEF NotValidYet
  <2>2. \A f \in Fulfiller : hold[InTx(f)] \subseteq hold'[InTx(f)]
        BY <1>h, <2>1, PlaceMembers DEF Drop, TypeOK, PipeTypeOK
  <2>3. Ended = {}
        BY <2>1, <2>2, NothingEnds
  <2>   QED BY <1>5, <1>a, <2>3, RetryTakes, LeftAlone
<1>6. CASE ReleaseEvicted
      BY <1>6, <1>a, EvictionGives
<1>7. ASSUME NEW k \in OutputSlot, SendValid(k)
      PROVE  GivesBack
  <2>1. PICK chunk \in SUBSET hold[ValidOrders] : Move(chunk, ValidOrders, Output(k))
        BY <1>7 DEF SendValid, Chunks
  <2>2. UNCHANGED <<poolVars, fundVars, evicting>>
        BY <1>7 DEF SendValid
  <2>3. Bound' \subseteq Bound
        BY <1>g, <2>1, MoveBound, PlaceMembers
  <2>4. \A f \in Fulfiller : hold[InTx(f)] \subseteq hold'[InTx(f)]
        BY <1>h, <2>1, InTxDiffers, PlaceMembers DEF Move, TypeOK, PipeTypeOK
  <2>5. Ended = {}
        BY <2>2, <2>4, NothingEnds
  <2>6. Reserving' \subseteq Reserving
        BY <1>d, <1>f, <2>2, <2>3, ReservingParts, NextReservingParts
  <2>   QED BY <2>2, <2>5, <2>6, LeftAlone DEF fundVars
<1>8. CASE AddRetried
  <2>1. \A id \in Id : Listed(retry, id) => pool[id] # Nil
        BY DEF RetriedStayPooled, Listed
  <2>2. UNCHANGED <<poolVars, fundVars, evicting, hold>>
        BY <1>8, <2>1 DEF AddRetried, addOrder, TypeOK, PoolTypeOK, poolVars
  <2>3. Ended = {}
        BY <2>2, NothingEnds
  <2>4. Reserving' \subseteq Reserving
        BY <1>b, <1>d, <1>f, <2>2, ReservingParts, NextReservingParts
  <2>   QED BY <2>2, <2>3, <2>4, LeftAlone DEF fundVars
<1>   QED BY <1>1, <1>2, <1>3, <1>4, <1>5, <1>6, <1>7, <1>8 DEF ValidatorStep

\* the fulfillers',
LEMMA FulfillerMoves ==
    ASSUME TypeOK, TypeOK', SingleFlight, AsideInv, NEW f \in Fulfiller, FulfillerStep(f)
    PROVE  GivesBack
<1>a. NewPrivate /\ EvictedAside
      BY DEF AsideInv
<1>b. UNCHANGED <<pool, checking, valid, fresh, task, evicting>>
      BY DEF FulfillerStep, ReceiveBatch, Submit, Succeed, Fail, RPCError, SendSuccesses,
         SendFailures, poolVars, sourceVars
<1>c. Fresh' = Fresh /\ Waiting' = Waiting /\ Recalled' = Recalled
      BY <1>b DEF Fresh, Waiting, Recalled, Updating, Pooled, Flagged
<1>d. /\ Batch(f) \in Place \ Results /\ InTx(f) \in Place \ Results
      /\ Successes(f) \in Place \cap Results /\ Failures(f) \in Place \cap Results
      BY PlaceMembers, NoResults DEF Results
<1>1. ASSUME NEW from \in Place, NEW to \in Place, NEW os \in SUBSET hold[from],
             Move(os, from, to), \A g : InTx(g) # from,
             from \notin Results \/ to \in Results, UNCHANGED fundVars
      PROVE  GivesBack
  <2>1. Bound' \subseteq Bound
    <3>1. CASE from \notin Results
          BY <1>1, <3>1, MoveBound
    <3>2. CASE to \in Results
          BY <1>1, <3>2 DEF Move, Bound, TypeOK, PipeTypeOK
    <3>   QED BY <1>1, <3>1, <3>2
  <2>2. \A g \in Fulfiller : hold[InTx(g)] \subseteq hold'[InTx(g)]
        BY <1>1, PlaceMembers DEF Move, TypeOK, PipeTypeOK
  <2>3. Ended = {}
        BY <1>b, <2>2, NothingEnds
  <2>4. Reserving' \subseteq Reserving
        BY <1>b, <1>c, <2>1, ReservingParts, NextReservingParts
  <2>   QED BY <1>1, <2>3, <2>4, LeftAlone DEF fundVars
<1>2. ASSUME NEW k \in OutputSlot, ReceiveBatch(f, k) PROVE GivesBack
  <2>1. /\ Move(hold[Output(k)], Output(k), Batch(f)) /\ UNCHANGED fundVars
        /\ hold[Output(k)] \in SUBSET hold[Output(k)]
        BY <1>2 DEF ReceiveBatch
  <2>2. Output(k) \in Place /\ Output(k) \notin Results /\ \A g : InTx(g) # Output(k)
        BY PlaceMembers, NoResults, InTxDiffers
  <2>   QED BY <1>1, <1>d, <2>1, <2>2
<1>3. CASE Submit(f)
  <2>1. PICK chunk \in SUBSET hold[Batch(f)] : Move(chunk, Batch(f), InTx(f))
        BY <1>3 DEF Submit, Chunks
  <2>2. \A g : InTx(g) # Batch(f)
        BY InTxDiffers
  <2>   QED BY <1>1, <1>3, <1>d, <2>1, <2>2 DEF Submit
<1>4. ASSUME NEW k \in ProcessedSlot, SendSuccesses(f, k) \/ SendFailures(f, k)
      PROVE  GivesBack
  <2>1. Processed(k) \in Place /\ Processed(k) \in Results
        BY PlaceMembers DEF Results
  <2>2. \A g : InTx(g) # Successes(f) /\ InTx(g) # Failures(f)
        BY InTxDiffers
  <2>3. /\ hold[Successes(f)] \in SUBSET hold[Successes(f)]
        /\ hold[Failures(f)] \in SUBSET hold[Failures(f)]
        OBVIOUS
  <2>4. CASE SendSuccesses(f, k)
        BY <1>1, <1>d, <2>1, <2>2, <2>3, <2>4 DEF SendSuccesses
  <2>5. CASE SendFailures(f, k)
        BY <1>1, <1>d, <2>1, <2>2, <2>3, <2>5 DEF SendFailures
  <2>   QED BY <1>4, <2>4, <2>5
<1>5. CASE Succeed(f) \/ Fail(f) \/ RPCError(f)
  <2>1. hold'[InTx(f)] = {}
        BY <1>5, <1>d, PlacesDiffer DEF Succeed, Fail, RPCError, Move, TypeOK, PipeTypeOK
  <2>2. \A p \in Place \ Results : p # InTx(f) => hold'[p] = hold[p] \/ hold'[p] = {}
        BY <1>5, <1>d DEF Succeed, Fail, RPCError, Move, TypeOK, PipeTypeOK
  <2>3. \A g \in Fulfiller : g # f => hold'[InTx(g)] = hold[InTx(g)]
        BY <1>5, InTxDiffers, PlaceMembers DEF Succeed, Fail, RPCError, Move, TypeOK, PipeTypeOK
  <2>4. Ended = hold[InTx(f)] /\ Reserving' \subseteq Reserving
        BY <1>a, <1>b, <2>1, <2>2, <2>3, ChunkEnds
  <2>5. reserved' = [l \in LP |-> IF l \in lps THEN SafeSub(reserved[l], Due(hold[InTx(f)])[l])
                                               ELSE reserved[l]]
        BY <1>5 DEF Succeed, Fail, RPCError, Abort, debitAllReservedOrdersFunds,
           releaseAllReservedOrdersFunds
  <2>   QED BY <2>4, <2>5 DEF GivesBack
<1>   QED BY <1>2, <1>3, <1>4, <1>5 DEF FulfillerStep

\* and every step of the system.
LEMMA LedgerMovesStep ==
    ASSUME TypeOK, TypeOK', SingleFlight, RetriedStayPooled, AsideInv, [Next]_vars
    PROVE  [LedgerMoves]_vars
<1>  SUFFICES ASSUME up, up' PROVE LedgerMoves \/ UNCHANGED vars
     BY DEF LedgerMoves
<1>a. ASSUME UNCHANGED <<poolVars, hold, evicting, fresh, task>>
      PROVE  Reserving' = Reserving /\ Ended = {}
  <2>1. /\ Fresh' = Fresh /\ Waiting' = Waiting /\ Recalled' = Recalled /\ Bound' = Bound
        /\ evicting' = evicting
        BY <1>a DEF Fresh, Waiting, Recalled, Bound, Updating, Pooled, Flagged, poolVars
  <2>   QED BY <1>a, <2>1, ReservingParts, NextReservingParts, NothingEnds
<1>1. ASSUME NEW s \in Source, SourceStep(s) PROVE Takes \/ GivesBack
  <2>1. CASE Admit(s)
        BY <2>1, AdmitTakes DEF AsideInv
  <2>2. CASE ~Admit(s)
    <3>1. UNCHANGED fundVars
          BY <1>1, <2>2 DEF SourceStep, LookupPooled, LookupNew, Update, Refuse, NoProvider,
             NoteMiss, TrackOrders
    <3>2. UNCHANGED <<hold, evicting>>
          BY <1>1, SourceQuiet DEF pipeVars
    <3>   QED BY <1>1, <2>2, <3>1, <3>2, SourceRecalls, NothingEnds, LeftAlone DEF fundVars
  <2>   QED BY <2>1, <2>2
<1>2. ASSUME NEW c \in Checker, CheckerStep(c) PROVE GivesBack
  <2>1. UNCHANGED <<fundVars, evicting>>
        BY <1>2 DEF CheckerStep, PopOrders, SendToCheck
  <2>2. \A f \in Fulfiller : hold[InTx(f)] \subseteq hold'[InTx(f)]
        BY <1>2, InTxDiffers, PlaceMembers
           DEF CheckerStep, PopOrders, SendToCheck, Move, TypeOK, PipeTypeOK
  <2>   QED BY <1>2, <2>1, <2>2, CheckerBinds, NothingEnds, LeftAlone DEF fundVars
<1>3. CASE ManagerStep
  <2>1. UNCHANGED fundVars /\ UNCHANGED evicting
        BY <1>3 DEF ManagerStep, ManageProcessed
  <2>2. \A f \in Fulfiller : hold[InTx(f)] \subseteq hold'[InTx(f)]
    <3>1. PICK k \in ProcessedSlot, o \in Obj : Drop({o}, Processed(k))
          BY <1>3 DEF ManagerStep, ManageProcessed
    <3>   QED BY <3>1, InTxDiffers, PlaceMembers DEF Drop, TypeOK, PipeTypeOK
  <2>3. Reserving' \subseteq Reserving
        BY <1>3, ManagerBooks
  <2>4. Ended = {}
        BY <2>1, <2>2, NothingEnds
  <2>   QED BY <2>1, <2>3, <2>4, LeftAlone DEF fundVars, LedgerMoves
<1>4. CASE Poll \/ RefreshBalances \/ (\E o \in Obj : DeadlinePasses(o)) \/ Hub
  <2>1. UNCHANGED <<poolVars, hold, evicting, fresh, task, reserved>>
        BY <1>4 DEF Poll, RefreshBalances, refreshBalances, DeadlinePasses, Hub, OrderCreated,
           FeeUpdated, BlockProven, Gone, Execute, Reject, Settle, Transfer, GrantOrRevoke,
           pipeVars, sourceVars, fundVars
  <2>   QED BY <1>a, <2>1, LeftAlone DEF LedgerMoves
<1>5. CASE ReloadLPs
  <2>1. UNCHANGED <<poolVars, hold, evicting, fresh, task>>
        BY <1>5 DEF ReloadLPs, pipeVars
  <2>   QED BY <1>5, <1>a, <2>1 DEF LedgerMoves
<1>6. ~Die /\ ~Restart
      BY DEF Die, Restart
<1>   QED BY <1>1, <1>2, <1>3, <1>4, <1>5, <1>6, ValidatorMoves, FulfillerMoves
          DEF Next, Client, Panic, Fatal, Crash, LedgerMoves

(***************************************************************************)
(* In every environment, with any number of sources, providers, goroutines *)
(* and slots: an order takes its reservation when it is admitted or passes *)
(* to another provider, and it is given back or spent in the step in which *)
(* its transaction or its eviction ends and in no other, while providers   *)
(* are reloaded and balances refreshed as they may (lp.go:218-248,         *)
(* order_tracker.go:311-334).                                              *)
(***************************************************************************)
THEOREM ReservationsMoveAlways == Spec => ReservationsMove
<1>1. TypeOK /\ TypeOK' /\ SingleFlight /\ RetriedStayPooled /\ AsideInv /\ [Next]_vars
         => [LedgerMoves]_vars
      BY LedgerMovesStep
<1>   QED BY <1>1, TypeCorrect, FlightsAreSingle, RetriesStayPooled, AsideAlways, PTL
          DEF Spec, ReservationsMove
=============================================================================
