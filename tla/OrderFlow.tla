----------------------------- MODULE OrderFlow -----------------------------
(***************************************************************************)
(* The life of a demand order inside the client: the goroutines that find  *)
(* orders (event subscriptions, poller), validate them, send them to the   *)
(* hub and book the results, over the shared order pool and the providers' *)
(* ledger.  The hub and the rollapp nodes are the environment.             *)
(*                                                                         *)
(* One action is what a goroutine does between two points where another    *)
(* goroutine can run: usually one critical section of opmu, lpmu or fohmu, *)
(* or one send or receive on a channel.  A channel or a goroutine's local  *)
(* list is a place that holds orders; the order inside a list is left out. *)
(***************************************************************************)
EXTENDS OrderPool, LPFunds

CONSTANTS
    Source,         \* the ingesting goroutines that run
    Checker,        \* concurrent calls of checkOrders
    Fulfiller,      \* orderFulfiller goroutines
    ToCheckSlot,    \* slots of toCheckOrdersCh
    OutputSlot,     \* slots of outputOrdersCh / newOrdersCh
    ProcessedSlot,  \* slots of processedOrdersCh
    PopLimit,       \* config.NewOrderBufferSize
    MaxOrdersPerTx, \* cfg.Fulfillers.MaxOrdersPerTx
    MaxTerms,       \* bound on the fee updates of an order
    Price,          \* Price[id][t]: price of the order under its t-th terms
    Accepting,      \* Accepting[v][id][t]: providers whose v-th grant accepts it
    Rollapp,        \* rollapps
    RollappOf,      \* the rollapp of each order
    HeightOf,       \* the proof height of each order
    Unreadable,     \* orders whose height the poller cannot read and takes for 0
    Deposit,        \* what each provider owns at first
    Env             \* what the environment may do besides its job

Terms == 1..MaxTerms

AllSources == {"poller", "created", "updated"}

\* updateFee: an order's fee changes on the hub.  gone: a competitor or the
\* end of the dispute period takes it.  The others are named by the actions.
AllEnv == {"updateFee", "gone", "loss", "nodeError", "txFail", "timeout",
           "rpcError", "gas", "crash", "reload", "refresh", "queryError",
           "grants", "transfers", "expiry"}

ASSUME FlowAssumption ==
    /\ Source \subseteq AllSources
    /\ Env \subseteq AllEnv
    /\ IsFiniteSet(Obj)
    /\ IsFiniteSet(Fulfiller) /\ Fulfiller # {}
    /\ PopLimit \in Nat \ {0}
    /\ MaxOrdersPerTx \in Nat \ {0}
    /\ MaxTerms \in Nat \ {0}
    /\ Nil \notin LP
    /\ Price \in [Id -> [Terms -> Bag]]
    /\ Accepting \in [Grant -> [Id -> [Terms -> SUBSET LP]]]
    /\ RollappOf \in [Id -> Rollapp]
    /\ HeightOf \in [Id -> Nat \ {0}]
    /\ Unreadable \subseteq Id
    /\ Deposit \in [LP -> Bag]

VARIABLES
    up,                 \* the process runs
    terms,              \* fee and price of each order object
    proofHeight,        \* the height each order object is validated at
    lpAddress,          \* the provider of each order object, or Nil
    expired,            \* the order objects past their validDeadline
    failedOrderHash,    \* per order object, its result: 0, or the failed terms
    inbox,              \* messages a source has received and not looked at
    task,               \* the order a source is working on, or Nil
    fresh,              \* newOrders: admitted, not yet given to trackOrders
    noLPOrders,         \* the poller's ids without a provider
    failedOrderHashes,  \* per id: 0, or the terms it failed under
    hold,               \* the orders in each channel slot and local list
    retry,              \* retryOrders of enqueueValidOrders
    evicting,           \* the order evictOrder has removed and not released
    chunkSize,          \* 0, or the chunk size enqueueValidOrders sends with
    lastValidHeight,    \* per rollapp: the height asked last, or Nil unless enough
                        \* nodes confirmed it
    status,             \* on the hub: none, open, filled, gone
    asked,              \* on the hub: the order's current terms
    proven,             \* ids whose block the full nodes have validated
    bank,               \* on the hub: what each provider owns
    granted,            \* on the hub: providers with a grant for the policy
    grants,             \* on the hub: the newest grant each provider has made
    wire,               \* each fulfiller's transaction
    orphans             \* transactions nobody waits for any more

orderVars == <<terms, proofHeight, lpAddress, expired, failedOrderHash>>
sourceVars == <<inbox, task, fresh, noLPOrders>>
pipeVars == <<hold, retry, evicting, chunkSize, lastValidHeight>>
hubVars == <<status, asked, proven, bank, granted, grants>>
txVars == <<wire, orphans>>
vars == <<up, poolVars, fundVars, orderVars, sourceVars, failedOrderHashes,
          pipeVars, hubVars, txVars>>

----------------------------------------------------------------------------
(* Places.  A list in a channel slot or a local variable is a set.         *)

Popped(c)    == <<"popped", c>>       \* checkOrders' orders, before the send
ToCheck(k)   == <<"toCheck", k>>
ToValidate   == <<"validator", "orders">>
ValidOrders  == <<"validator", "valid">>
Output(k)    == <<"output", k>>
Batch(f)     == <<"batch", f>>        \* processBatch: orders not yet sent
InTx(f)      == <<"tx", f>>           \* the chunk being fulfilled
Successes(f) == <<"success", f>>
Failures(f)  == <<"fail", f>>
Processed(k) == <<"processed", k>>

Place ==
    UNION {{Popped(c) : c \in Checker},
           {ToCheck(k) : k \in ToCheckSlot},
           {ToValidate, ValidOrders},
           {Output(k) : k \in OutputSlot},
           UNION {{Batch(f), InTx(f), Successes(f), Failures(f)} : f \in Fulfiller},
           {Processed(k) : k \in ProcessedSlot}}

InFlight == UNION {hold[p] : p \in Place}

Move(os, from, to) ==
    hold' = [hold EXCEPT ![from] = @ \ os, ![to] = @ \cup os]

Drop(os, from) == hold' = [hold EXCEPT ![from] = @ \ os]

Working == {task[s] : s \in Source} \ {Nil}

\* An allocation nothing points to any more can stand for a new one.
Unreferenced(o) ==
    /\ o \notin Pooled \cup InFlight \cup retry \cup evicting
    /\ \A s \in Source : o \notin fresh[s]
    /\ \A w \in Working : w.order # o

PriceOf(o) == Price[IdOf[o]][terms[o]]

\* The providers whose grant, as it was when they were loaded, accepts the order.
AcceptingOf(o) == {l \in LP : l \in Accepting[criteria[l]][IdOf[o]][terms[o]]}

\* The total price of the orders assigned to each provider.
Due(os) == [l \in LP |-> Total(PriceOf, {o \in os : lpAddress[o] = l})]

Message == [id : Id, terms : Terms]

Task == [step : {"update", "admit", "miss"}, order : Obj, terms : Terms]

Msg == [id : Id, terms : Terms, lp : LP \cup {Nil}]

NoTx == [state |-> "none", msgs |-> {}]

OrderTypeOK ==
    /\ terms \in [Obj -> Terms]
    /\ proofHeight \in [Obj -> Nat]
    /\ lpAddress \in [Obj -> LP \cup {Nil}]
    /\ expired \subseteq Obj
    /\ failedOrderHash \in [Obj -> Terms \cup {0}]

SourceTypeOK ==
    /\ inbox \in [Source -> SUBSET Message]
    /\ task \in [Source -> Task \cup {Nil}]
    /\ fresh \in [Source -> SUBSET Obj]
    /\ noLPOrders \subseteq Id
    /\ failedOrderHashes \in [Id -> Terms \cup {0}]

PipeTypeOK ==
    /\ hold \in [Place -> SUBSET Obj]
    /\ retry \subseteq Obj
    /\ evicting \subseteq Obj
    /\ chunkSize \in Nat
    /\ lastValidHeight \in [Rollapp -> Nat \cup {Nil}]

HubTypeOK ==
    /\ status \in [Id -> {"none", "open", "filled", "gone"}]
    /\ asked \in [Id -> Terms]
    /\ proven \subseteq Id
    /\ bank \in [LP -> Bag]
    /\ granted \subseteq LP
    /\ grants \in [LP -> Grant]

TxTypeOK ==
    /\ wire \in [Fulfiller -> [state : {"none", "sent", "ok", "failed", "fatal"},
                               msgs : SUBSET Msg]]
    /\ orphans \subseteq SUBSET Msg

TypeOK ==
    /\ up \in BOOLEAN
    /\ PoolTypeOK
    /\ FundsTypeOK
    /\ OrderTypeOK
    /\ SourceTypeOK
    /\ PipeTypeOK
    /\ HubTypeOK
    /\ TxTypeOK

\* What the process knows when it starts.
ProcessInit ==
    /\ PoolInit
    /\ terms = [o \in Obj |-> 1]
    /\ proofHeight = [o \in Obj |-> 0]
    /\ lpAddress = [o \in Obj |-> Nil]
    /\ expired = {}
    /\ failedOrderHash = [o \in Obj |-> 0]
    /\ inbox = [s \in Source |-> {}]
    /\ task = [s \in Source |-> Nil]
    /\ fresh = [s \in Source |-> {}]
    /\ noLPOrders = {}
    /\ failedOrderHashes = [id \in Id |-> 0]
    /\ hold = [p \in Place |-> {}]
    /\ retry = {}
    /\ evicting = {}
    /\ chunkSize = 0
    /\ lastValidHeight = [r \in Rollapp |-> Nil]

\* The process has started: orderTracker.start has loaded every provider.
Init ==
    /\ up = TRUE
    /\ ProcessInit
    /\ status = [id \in Id |-> "none"]
    /\ asked = [id \in Id |-> 1]
    /\ proven = {}
    /\ bank = Deposit
    /\ granted = LP
    /\ grants = [l \in LP |-> 1]
    /\ lps = LP
    /\ balance = Deposit
    /\ reserved = [l \in LP |-> NoCoins]
    /\ criteria = [l \in LP |-> 1]
    /\ wire = [f \in Fulfiller |-> NoTx]
    /\ orphans = {}

(***************************************************************************)
(* The process ends: every goroutine stops where it is, what was in memory *)
(* and in the channels is lost, sent transactions stay with the hub.       *)
(***************************************************************************)
Die ==
    /\ up' = FALSE
    /\ pool' = [id \in Id |-> Nil]
    /\ checking' = {}
    /\ valid' = {}
    /\ lps' = {}
    /\ balance' = [l \in LP |-> NoCoins]
    /\ reserved' = [l \in LP |-> NoCoins]
    /\ criteria' = [l \in LP |-> 1]
    /\ terms' = [o \in Obj |-> 1]
    /\ proofHeight' = [o \in Obj |-> 0]
    /\ lpAddress' = [o \in Obj |-> Nil]
    /\ expired' = {}
    /\ failedOrderHash' = [o \in Obj |-> 0]
    /\ inbox' = [s \in Source |-> {}]
    /\ task' = [s \in Source |-> Nil]
    /\ fresh' = [s \in Source |-> {}]
    /\ noLPOrders' = {}
    /\ failedOrderHashes' = [id \in Id |-> 0]
    /\ hold' = [p \in Place |-> {}]
    /\ retry' = {}
    /\ evicting' = {}
    /\ chunkSize' = 0
    /\ lastValidHeight' = [r \in Rollapp |-> Nil]
    /\ wire' = [f \in Fulfiller |-> NoTx]
    /\ orphans' = orphans \cup {wire[f].msgs : f \in {g \in Fulfiller : wire[g].state = "sent"}}
    /\ UNCHANGED hubVars

----------------------------------------------------------------------------
(* Sources: the poller and the two event subscriptions.                    *)

\* pollPendingDemandOrders takes its snapshot of the hub's open orders.
Poll ==
    /\ "poller" \in Source
    /\ inbox["poller"] = {} /\ task["poller"] = Nil /\ fresh["poller"] = {}
    /\ inbox' = [inbox EXCEPT !["poller"] =
                    {[id |-> i, terms |-> asked[i]] :
                        i \in {j \in Id : status[j] = "open"} \ noLPOrders}]
    /\ UNCHANGED <<up, poolVars, fundVars, orderVars, task, fresh, noLPOrders,
                   failedOrderHashes, pipeVars, hubVars, txVars>>

\* An event is about one order; the poller goes through its whole snapshot.
MayLook(s) == task[s] = Nil /\ (s # "poller" => fresh[s] = {})

\* The order is pooled already: it is remembered for the update.
LookupPooled(s, m) ==
    /\ MayLook(s) /\ m \in inbox[s]
    /\ s # "created"
    /\ getOrder(m.id) # Nil
    /\ inbox' = [inbox EXCEPT ![s] = @ \ {m}]
    /\ task' = [task EXCEPT ![s] =
                  [step |-> "update", order |-> getOrder(m.id), terms |-> m.terms]]
    /\ UNCHANGED <<up, poolVars, fundVars, orderVars, fresh, noLPOrders,
                   failedOrderHashes, pipeVars, hubVars, txVars>>

\* Events state the proof height, the poller cuts it out of the packet's key.
ReadHeight(s, id) == IF s = "poller" /\ id \in Unreadable THEN 0 ELSE HeightOf[id]

\* A demandOrder is allocated; created events never look into the pool.
LookupNew(s, m, o) ==
    /\ MayLook(s) /\ m \in inbox[s]
    /\ s = "created" \/ getOrder(m.id) = Nil
    /\ IdOf[o] = m.id /\ Unreferenced(o)
    /\ inbox' = [inbox EXCEPT ![s] = @ \ {m}]
    /\ task' = [task EXCEPT ![s] =
                  [step |-> "admit", order |-> o, terms |-> m.terms]]
    /\ terms' = [terms EXCEPT ![o] = m.terms]
    /\ proofHeight' = [proofHeight EXCEPT ![o] = ReadHeight(s, m.id)]
    /\ lpAddress' = [lpAddress EXCEPT ![o] = Nil]
    /\ expired' = expired \ {o}
    /\ failedOrderHash' = [failedOrderHash EXCEPT ![o] = 0]
    /\ checking' = checking \ {o}
    /\ valid' = valid \ {o}
    /\ UNCHANGED <<up, pool, fundVars, fresh, noLPOrders,
                   failedOrderHashes, pipeVars, hubVars, txVars>>

\* The remembered order gets the new fee and price and is upserted.
Update(s) ==
    /\ task[s] # Nil /\ task[s].step = "update"
    /\ terms' = [terms EXCEPT ![task[s].order] = task[s].terms]
    /\ upsertOrder({task[s].order})
    /\ task' = [task EXCEPT ![s] = Nil]
    /\ UNCHANGED <<up, checking, valid, fundVars, proofHeight, lpAddress, expired,
                   failedOrderHash, inbox, fresh, noLPOrders,
                   failedOrderHashes, pipeVars, hubVars, txVars>>

\* canFulfillOrder: the order failed before under these very terms.
FailedBefore(o) == failedOrderHashes[IdOf[o]] = terms[o]

Refuse(s) ==
    /\ task[s] # Nil /\ task[s].step = "admit"
    /\ FailedBefore(task[s].order)
    /\ task' = [task EXCEPT ![s] = Nil]
    /\ UNCHANGED <<up, poolVars, fundVars, orderVars, inbox, fresh, noLPOrders,
                   failedOrderHashes, pipeVars, hubVars, txVars>>

\* canFulfillOrder lets the order through and findLPForOrder has an answer.
Admit(s) ==
    /\ task[s] # Nil /\ task[s].step = "admit"
    /\ ~FailedBefore(task[s].order)
    /\ LET o == task[s].order
       IN  /\ ~filterPanics(AcceptingOf(o))
           /\ failedOrderHashes' = [failedOrderHashes EXCEPT ![IdOf[o]] = 0]
           /\ \E l \in findLPForOrder(Nil, AcceptingOf(o), PriceOf(o)) :
                 /\ assignLP(l, Nil, PriceOf(o))
                 /\ lpAddress' = [lpAddress EXCEPT ![o] = l]
           /\ fresh' = [fresh EXCEPT ![s] = @ \cup {o}]
    /\ task' = [task EXCEPT ![s] = Nil]
    /\ UNCHANGED <<up, poolVars, terms, proofHeight, expired, failedOrderHash, inbox,
                   noLPOrders, pipeVars, hubVars, txVars>>

\* No provider: an event drops the order, the poller is about to note it.
NoProvider(s) ==
    /\ task[s] # Nil /\ task[s].step = "admit"
    /\ ~FailedBefore(task[s].order)
    /\ LET o == task[s].order
       IN  /\ ~filterPanics(AcceptingOf(o))
           /\ findLPForOrder(Nil, AcceptingOf(o), PriceOf(o)) = {}
           /\ failedOrderHashes' = [failedOrderHashes EXCEPT ![IdOf[o]] = 0]
    /\ task' = [task EXCEPT ![s] = IF s = "poller" THEN [@ EXCEPT !.step = "miss"]
                                                   ELSE Nil]
    /\ UNCHANGED <<up, poolVars, fundVars, orderVars, inbox, fresh, noLPOrders,
                   pipeVars, hubVars, txVars>>

NoteMiss(s) ==
    /\ task[s] # Nil /\ task[s].step = "miss"
    /\ noLPOrders' = noLPOrders \cup {IdOf[task[s].order]}
    /\ task' = [task EXCEPT ![s] = Nil]
    /\ UNCHANGED <<up, poolVars, fundVars, orderVars, inbox, fresh,
                   failedOrderHashes, pipeVars, hubVars, txVars>>

\* trackOrders; the checkOrders call it spawns is one of Checker's.
TrackOrders(s) ==
    /\ task[s] = Nil /\ fresh[s] # {}
    /\ s = "poller" => inbox[s] = {}
    /\ upsertOrder(fresh[s])
    /\ fresh' = [fresh EXCEPT ![s] = {}]
    /\ UNCHANGED <<up, checking, valid, fundVars, orderVars, inbox, task,
                   noLPOrders, failedOrderHashes, pipeVars, hubVars, txVars>>

----------------------------------------------------------------------------
(* checkOrders: by the ticker of orderValidator and after every trackOrders. *)

PopOrders(c) ==
    /\ hold[Popped(c)] = {}
    /\ \E pop \in popOrders(PopLimit) :
          /\ pop.orders # {}
          /\ checking' = pop.checking
          /\ hold' = [hold EXCEPT ![Popped(c)] = pop.orders]
    /\ UNCHANGED <<up, pool, valid, fundVars, orderVars, sourceVars, failedOrderHashes,
                   retry, evicting, chunkSize, lastValidHeight, hubVars, txVars>>

SendToCheck(c, k) ==
    /\ hold[Popped(c)] # {} /\ hold[ToCheck(k)] = {}
    /\ Move(hold[Popped(c)], Popped(c), ToCheck(k))
    /\ UNCHANGED <<up, poolVars, fundVars, orderVars, sourceVars, failedOrderHashes,
                   retry, evicting, chunkSize, lastValidHeight, hubVars, txVars>>

----------------------------------------------------------------------------
(* enqueueValidOrders: one goroutine, one received list at a time.         *)

ValidatorIdle ==
    /\ hold[ToValidate] = {} /\ hold[ValidOrders] = {}
    /\ retry = {} /\ evicting = {}

ReceiveToCheck(k) ==
    /\ ValidatorIdle
    /\ hold[ToCheck(k)] # {}
    /\ Move(hold[ToCheck(k)], ToCheck(k), ToValidate)
    /\ UNCHANGED <<up, poolVars, fundVars, orderVars, sourceVars, failedOrderHashes,
                   retry, evicting, chunkSize, lastValidHeight, hubVars, txVars>>

\* checkOrders has sorted the list by proof height, descending.
Validating(o) ==
    /\ o \in hold[ToValidate] /\ evicting = {}
    /\ \A p \in hold[ToValidate] : proofHeight[p] <= proofHeight[o]

(***************************************************************************)
(* BlockValidated answers yes without asking when enough nodes confirmed   *)
(* the height asked last for the rollapp and it was not lower.  Asked at   *)
(* an order's height, enough nodes confirm it exactly when its block is    *)
(* proven; asked at height 0, they may say anything.  Every answer that is *)
(* not an error overwrites the height asked last.                          *)
(***************************************************************************)
LastValid(o) == lastValidHeight[RollappOf[IdOf[o]]]

Cached(o) == LastValid(o) # Nil /\ proofHeight[o] <= LastValid(o)

Note(o, height) ==
    lastValidHeight' = [lastValidHeight EXCEPT ![RollappOf[IdOf[o]]] = height]

Confirmed(o) ==
    \/ Cached(o) /\ UNCHANGED lastValidHeight
    \/ /\ ~Cached(o)
       /\ proofHeight[o] = 0 \/ IdOf[o] \in proven
       /\ Note(o, proofHeight[o])

Deniable(o) == ~Cached(o) /\ (proofHeight[o] = 0 \/ IdOf[o] \notin proven)

\* Bug variant: the height is remembered, that too few confirmed it is not.
NoteDenied_Height(o) == Note(o, proofHeight[o])

NoteDenied(o) == Note(o, Nil)

\* A full node could not be asked: the order is dropped from the list only.
NodeError(o) ==
    /\ "nodeError" \in Env
    /\ Validating(o) /\ ~Cached(o)
    /\ Drop({o}, ToValidate)
    /\ UNCHANGED <<up, poolVars, fundVars, orderVars, sourceVars, failedOrderHashes,
                   retry, evicting, chunkSize, lastValidHeight, hubVars, txVars>>

FoundValid(o) ==
    /\ Validating(o) /\ Confirmed(o)
    /\ setValid(IdOf[o])
    /\ Move({o}, ToValidate, ValidOrders)
    /\ UNCHANGED <<up, pool, checking, fundVars, orderVars, sourceVars, failedOrderHashes,
                   retry, evicting, chunkSize, hubVars, txVars>>

\* evictOrder removes the order from the pool, then gives its funds back.
Evict(o) ==
    /\ removeOrder(IdOf[o])
    /\ Drop({o}, ToValidate)
    /\ evicting' = {o}

NotFulfillable(o) ==
    /\ ~filterPanics(AcceptingOf(o))
    /\ findLPForOrder(lpAddress[o], AcceptingOf(o), PriceOf(o)) = {}

\* Not valid yet, and its deadline has passed or no provider is left for it.
GiveUp(o) ==
    /\ Validating(o) /\ Deniable(o)
    /\ NoteDenied(o)
    /\ o \in expired \/ NotFulfillable(o)
    /\ Evict(o)
    /\ UNCHANGED <<up, checking, valid, fundVars, orderVars, sourceVars, failedOrderHashes,
                   retry, chunkSize, hubVars, txVars>>

ReleaseEvicted ==
    /\ evicting # {}
    /\ releaseAllReservedOrdersFunds(Due(evicting))
    /\ evicting' = {}
    /\ UNCHANGED <<up, poolVars, orderVars, sourceVars, failedOrderHashes,
                   hold, retry, chunkSize, lastValidHeight, hubVars, txVars>>

\* Bug variant: the order to retry keeps its checking flag.
NotValidYet_StaysFlagged(o) ==
    /\ Validating(o) /\ Deniable(o)
    /\ NoteDenied(o)
    /\ o \notin expired
    /\ ~filterPanics(AcceptingOf(o))
    /\ \E l \in findLPForOrder(lpAddress[o], AcceptingOf(o), PriceOf(o)) :
          /\ assignLP(l, lpAddress[o], PriceOf(o))
          /\ lpAddress' = [lpAddress EXCEPT ![o] = l]
    /\ Drop({o}, ToValidate)
    /\ retry' = retry \cup {o}
    /\ UNCHANGED <<up, poolVars, terms, proofHeight, expired, failedOrderHash, sourceVars,
                   failedOrderHashes, evicting, chunkSize, hubVars, txVars>>

\* Not valid yet: the order may be checked again. It has not left the pool.
NotValidYet(o) ==
    /\ Validating(o) /\ Deniable(o)
    /\ NoteDenied(o)
    /\ o \notin expired
    /\ ~filterPanics(AcceptingOf(o))
    /\ \E l \in findLPForOrder(lpAddress[o], AcceptingOf(o), PriceOf(o)) :
          /\ assignLP(l, lpAddress[o], PriceOf(o))
          /\ lpAddress' = [lpAddress EXCEPT ![o] = l]
    /\ checking' = checking \ {o}
    /\ Drop({o}, ToValidate)
    /\ retry' = retry \cup {o}
    /\ UNCHANGED <<up, pool, valid, terms, proofHeight, expired, failedOrderHash, sourceVars,
                   failedOrderHashes, evicting, chunkSize, hubVars, txVars>>

Larger(a, b) == IF a > b THEN a ELSE b

\* max(maxOrdersPerTx, len(validOrders)/numFulfillers), fixed for the list.
ChunkSize ==
    IF chunkSize # 0 THEN chunkSize
    ELSE Larger(MaxOrdersPerTx, Cardinality(hold[ValidOrders]) \div Cardinality(Fulfiller))

\* The next chunk of n orders of a list, or what is left of it.
Chunks(os, n) == {c \in SUBSET os : Cardinality(c) = n \/ (c = os /\ Cardinality(c) < n)}

SendValid(k) ==
    /\ hold[ToValidate] = {} /\ evicting = {}
    /\ hold[ValidOrders] # {} /\ hold[Output(k)] = {}
    /\ \E chunk \in Chunks(hold[ValidOrders], ChunkSize) :
          /\ Move(chunk, ValidOrders, Output(k))
          /\ chunkSize' = IF chunk = hold[ValidOrders] THEN 0 ELSE ChunkSize
    /\ UNCHANGED <<up, poolVars, fundVars, orderVars, sourceVars, failedOrderHashes,
                   retry, evicting, lastValidHeight, hubVars, txVars>>

AddRetried ==
    /\ hold[ToValidate] = {} /\ hold[ValidOrders] = {} /\ evicting = {}
    /\ retry # {}
    /\ addOrder(retry)
    /\ retry' = {}
    /\ UNCHANGED <<up, fundVars, orderVars, sourceVars, failedOrderHashes,
                   hold, evicting, chunkSize, lastValidHeight, hubVars, txVars>>

----------------------------------------------------------------------------
(* orderFulfiller: processBatch on one received batch at a time.           *)

ReceiveBatch(f, k) ==
    /\ \A p \in {Batch(f), InTx(f), Successes(f), Failures(f)} : hold[p] = {}
    /\ hold[Output(k)] # {}
    /\ Move(hold[Output(k)], Output(k), Batch(f))
    /\ UNCHANGED <<up, poolVars, fundVars, orderVars, sourceVars, failedOrderHashes,
                   retry, evicting, chunkSize, lastValidHeight, hubVars, txVars>>

\* What the transaction says of an order, read from the object when it is built.
MsgFor(o) == [id |-> IdOf[o], terms |-> terms[o], lp |-> lpAddress[o]]

Submit(f) ==
    /\ hold[Batch(f)] # {} /\ hold[InTx(f)] = {}
    /\ \E chunk \in Chunks(hold[Batch(f)], MaxOrdersPerTx) :
          /\ Move(chunk, Batch(f), InTx(f))
          /\ wire' = [wire EXCEPT ![f] = [state |-> "sent",
                                          msgs |-> {MsgFor(o) : o \in chunk}]]
    /\ UNCHANGED <<up, poolVars, fundVars, orderVars, sourceVars, failedOrderHashes,
                   retry, evicting, chunkSize, lastValidHeight, hubVars, orphans>>

\* Bug variant: the broadcast is taken for the execution, as without waitForTx.
Succeed_Unconfirmed(f) ==
    /\ wire[f].state \in {"sent", "ok"}
    /\ debitAllReservedOrdersFunds(Due(hold[InTx(f)]))
    /\ failedOrderHash' = [o \in Obj |-> IF o \in hold[InTx(f)] THEN 0 ELSE failedOrderHash[o]]
    /\ Move(hold[InTx(f)], InTx(f), Successes(f))
    /\ wire' = [wire EXCEPT ![f] = NoTx]
    /\ UNCHANGED <<up, poolVars, terms, proofHeight, lpAddress, expired, sourceVars, failedOrderHashes,
                   retry, evicting, chunkSize, lastValidHeight, hubVars, orphans>>

Succeed(f) ==
    /\ wire[f].state = "ok"
    /\ debitAllReservedOrdersFunds(Due(hold[InTx(f)]))
    /\ failedOrderHash' = [o \in Obj |-> IF o \in hold[InTx(f)] THEN 0 ELSE failedOrderHash[o]]
    /\ Move(hold[InTx(f)], InTx(f), Successes(f))
    /\ wire' = [wire EXCEPT ![f] = NoTx]
    /\ UNCHANGED <<up, poolVars, terms, proofHeight, lpAddress, expired, sourceVars, failedOrderHashes,
                   retry, evicting, chunkSize, lastValidHeight, hubVars, orphans>>

\* The chunk's funds are given back and the rest of the batch is forgotten.
Abort(f) ==
    /\ releaseAllReservedOrdersFunds(Due(hold[InTx(f)]))
    /\ wire' = [wire EXCEPT ![f] = NoTx]

\* waitForTx gives up on a transaction that is, or will be, on the hub.
TimedOut(f) == "timeout" \in Env /\ wire[f].state \in {"sent", "ok"}

Unseen(f) == IF wire[f].state = "sent" THEN {wire[f].msgs} ELSE {}

\* The error is final: a failed result, with the fee the order has now.
Fail(f) ==
    /\ wire[f].state = "failed" \/ TimedOut(f)
    /\ failedOrderHash' = [o \in Obj |-> IF o \in hold[InTx(f)] THEN terms[o]
                                         ELSE failedOrderHash[o]]
    /\ hold' = [hold EXCEPT ![Batch(f)] = {}, ![InTx(f)] = {}, ![Failures(f)] = hold[InTx(f)]]
    /\ Abort(f)
    /\ orphans' = orphans \cup Unseen(f)
    /\ UNCHANGED <<up, poolVars, terms, proofHeight, lpAddress, expired, sourceVars, failedOrderHashes,
                   retry, evicting, chunkSize, lastValidHeight, hubVars>>

\* Bug variant: after an RPC error the fulfiller does not let go of its chunk.
RPCError_KeepsChunk(f) ==
    /\ "rpcError" \in Env
    /\ wire[f].state = "sent"
    /\ Abort(f)
    /\ orphans' = orphans \cup Unseen(f)
    /\ UNCHANGED <<up, poolVars, orderVars, sourceVars, failedOrderHashes,
                   pipeVars, hubVars>>

\* An "RPC error" yields no result, although the hub may have the transaction.
RPCError(f) ==
    /\ "rpcError" \in Env
    /\ wire[f].state = "sent"
    /\ hold' = [hold EXCEPT ![Batch(f)] = {}, ![InTx(f)] = {}]
    /\ Abort(f)
    /\ orphans' = orphans \cup Unseen(f)
    /\ UNCHANGED <<up, poolVars, orderVars, sourceVars, failedOrderHashes,
                   retry, evicting, chunkSize, lastValidHeight, hubVars>>

Processing(f) == hold[Batch(f)] # {} \/ hold[InTx(f)] # {}

SendSuccesses(f, k) ==
    /\ ~Processing(f)
    /\ hold[Successes(f)] # {} /\ hold[Processed(k)] = {}
    /\ Move(hold[Successes(f)], Successes(f), Processed(k))
    /\ UNCHANGED <<up, poolVars, fundVars, orderVars, sourceVars, failedOrderHashes,
                   retry, evicting, chunkSize, lastValidHeight, hubVars, txVars>>

SendFailures(f, k) ==
    /\ ~Processing(f) /\ hold[Successes(f)] = {}
    /\ hold[Failures(f)] # {} /\ hold[Processed(k)] = {}
    /\ Move(hold[Failures(f)], Failures(f), Processed(k))
    /\ UNCHANGED <<up, poolVars, fundVars, orderVars, sourceVars, failedOrderHashes,
                   retry, evicting, chunkSize, lastValidHeight, hubVars, txVars>>

----------------------------------------------------------------------------
(* manageProcessed, and the timers of the tracker.                         *)

\* Bug variant: a failed order is booked, but not removed from the pool.
ManageProcessed_KeepsFailed(k, o) ==
    /\ o \in hold[Processed(k)]
    /\ IF failedOrderHash[o] = 0
       THEN removeOrder(IdOf[o]) /\ UNCHANGED failedOrderHashes
       ELSE /\ failedOrderHashes' = [failedOrderHashes EXCEPT ![IdOf[o]] = failedOrderHash[o]]
            /\ UNCHANGED pool
    /\ Drop({o}, Processed(k))
    /\ UNCHANGED <<up, checking, valid, fundVars, orderVars, sourceVars,
                   retry, evicting, chunkSize, lastValidHeight, hubVars, txVars>>

\* Bug variant: a failed order's funds are given back with its result once more.
ManageProcessed_GivesBack(k, o) ==
    /\ o \in hold[Processed(k)]
    /\ failedOrderHashes' = IF failedOrderHash[o] = 0 THEN failedOrderHashes
                            ELSE [failedOrderHashes EXCEPT ![IdOf[o]] = failedOrderHash[o]]
    /\ removeOrder(IdOf[o])
    /\ Drop({o}, Processed(k))
    /\ IF failedOrderHash[o] = 0 THEN UNCHANGED fundVars
       ELSE releaseAllReservedOrdersFunds(Due({o}))
    /\ UNCHANGED <<up, checking, valid, orderVars, sourceVars,
                   retry, evicting, chunkSize, lastValidHeight, hubVars, txVars>>

ManageProcessed(k, o) ==
    /\ o \in hold[Processed(k)]
    /\ failedOrderHashes' = IF failedOrderHash[o] = 0 THEN failedOrderHashes
                            ELSE [failedOrderHashes EXCEPT ![IdOf[o]] = failedOrderHash[o]]
    /\ removeOrder(IdOf[o])
    /\ Drop({o}, Processed(k))
    /\ UNCHANGED <<up, checking, valid, fundVars, orderVars, sourceVars,
                   retry, evicting, chunkSize, lastValidHeight, hubVars, txVars>>

\* The providers a round of balance queries reaches before or despite errors.
Reached(ls) == IF "queryError" \in Env THEN SUBSET ls ELSE {ls}

\* The granted providers that may be skipped: none of the orders is in their
\* grant, so it may be without a supported rollapp.
MaySkip == {l \in granted : \A i \in Id, t \in Terms : l \notin Accepting[grants[l]][i][t]}

(***************************************************************************)
(* The poller is reset by a round that adds a provider, or finds criteria  *)
(* or a higher spend limit that differ from those loaded; a spend limit    *)
(* that went down resets nothing (LPLoader has the comparison).            *)
(***************************************************************************)
AfterLoad(loaded) ==
    IF ~(loaded \subseteq lps) THEN {{}}
    ELSE IF \E l \in loaded : criteria[l] # grants[l] THEN {{}, noLPOrders}
    ELSE {noLPOrders}

\* A round with an error returns before the reset.
ReloadLPs ==
    /\ "reload" \in Env
    /\ \E reached \in Reached(granted), skipped \in SUBSET MaySkip :
          /\ loadLPs(granted, reached \ skipped, bank, grants)
          /\ noLPOrders' \in IF reached = granted THEN AfterLoad(reached \ skipped)
                             ELSE {noLPOrders}
    /\ UNCHANGED <<up, poolVars, orderVars, inbox, task, fresh, failedOrderHashes,
                   pipeVars, hubVars, txVars>>

RefreshBalances ==
    /\ "refresh" \in Env
    /\ \E reached \in Reached(lps) : refreshBalances(reached, bank)
    /\ UNCHANGED <<up, poolVars, orderVars, sourceVars, failedOrderHashes,
                   pipeVars, hubVars, txVars>>

DeadlinePasses(o) ==
    /\ "expiry" \in Env
    /\ o \in hold[ToValidate] \ expired
    /\ expired' = expired \cup {o}
    /\ UNCHANGED <<up, poolVars, fundVars, terms, proofHeight, lpAddress, failedOrderHash, sourceVars,
                   failedOrderHashes, pipeVars, hubVars, txVars>>

(***************************************************************************)
(* spendableBalance panics, or processBatch logs a fatal error: the whole  *)
(* process is gone.  A crash may also come from outside.                   *)
(***************************************************************************)
Panic ==
    /\ \/ \E s \in Source :
             /\ task[s] # Nil /\ task[s].step = "admit"
             /\ ~FailedBefore(task[s].order)
             /\ filterPanics(AcceptingOf(task[s].order))
       \/ \E o \in Obj :
             /\ Validating(o) /\ Deniable(o) /\ o \notin expired
             /\ filterPanics(AcceptingOf(o))
    /\ Die

Fatal(f) == wire[f].state = "fatal" /\ Die

Crash == "crash" \in Env /\ Die

Restart ==
    /\ ~up
    /\ up' = TRUE
    /\ \E skipped \in SUBSET MaySkip : loadLPs(granted, granted \ skipped, bank, grants)
    /\ UNCHANGED <<poolVars, orderVars, sourceVars, failedOrderHashes, pipeVars,
                   hubVars, txVars>>

----------------------------------------------------------------------------
(* The hub and the rollapp's full nodes.                                   *)

\* A subscription's channel gets the event if the client listens to it.
Deliver(s, id) ==
    LET received == [inbox EXCEPT ![s] = @ \cup {[id |-> id, terms |-> asked'[id]]}]
    IN  IF s \in Source /\ up
        THEN \/ inbox' = received
             \/ "loss" \in Env /\ inbox' = inbox
        ELSE inbox' = inbox

OrderCreated(id) ==
    /\ status[id] = "none"
    /\ status' = [status EXCEPT ![id] = "open"]
    /\ UNCHANGED asked
    /\ Deliver("created", id)
    /\ UNCHANGED <<up, poolVars, fundVars, orderVars, task, fresh, noLPOrders,
                   failedOrderHashes, pipeVars, proven, bank, granted, grants, txVars>>

FeeUpdated(id) ==
    /\ "updateFee" \in Env
    /\ status[id] = "open" /\ asked[id] < MaxTerms
    /\ asked' = [asked EXCEPT ![id] = @ + 1]
    /\ UNCHANGED status
    /\ Deliver("updated", id)
    /\ UNCHANGED <<up, poolVars, fundVars, orderVars, task, fresh, noLPOrders,
                   failedOrderHashes, pipeVars, proven, bank, granted, grants, txVars>>

\* Enough full nodes have validated the block, and with it all blocks below.
BlockProven(id) ==
    /\ id \notin proven /\ status[id] # "none"
    /\ proven' = proven \cup {i \in Id : /\ RollappOf[i] = RollappOf[id]
                                       /\ HeightOf[i] <= HeightOf[id]}
    /\ UNCHANGED <<up, poolVars, fundVars, orderVars, sourceVars, failedOrderHashes,
                   pipeVars, status, asked, bank, granted, grants, txVars>>

\* A competitor fulfills the order, or its packet is finalized.
Gone(id) ==
    /\ "gone" \in Env
    /\ status[id] = "open"
    /\ status' = [status EXCEPT ![id] = "gone"]
    /\ UNCHANGED <<up, poolVars, fundVars, orderVars, sourceVars, failedOrderHashes,
                   pipeVars, asked, proven, bank, granted, grants, txVars>>

PriceIn(m) == Price[m.id][m.terms]

Cost(msgs, l) == Total(PriceIn, {m \in msgs : m.lp = l})

\* The hub accepts the messages of a transaction all together or not at all.
Acceptable(msgs) ==
    \A m \in msgs :
        /\ status[m.id] = "open" /\ asked[m.id] = m.terms
        /\ m.lp \in granted /\ m.lp \in Accepting[grants[m.lp]][m.id][m.terms]

Covered(msgs) == \A l \in LP : IsAllGTE(bank[l], Cost(msgs, l))

Fulfill(msgs) ==
    /\ status' = [i \in Id |-> IF \E m \in msgs : m.id = i THEN "filled" ELSE status[i]]
    /\ bank' = [l \in LP |-> SafeSub(bank[l], Cost(msgs, l))]

Execute(f) ==
    /\ wire[f].state = "sent"
    /\ Acceptable(wire[f].msgs) /\ Covered(wire[f].msgs)
    /\ Fulfill(wire[f].msgs)
    /\ wire' = [wire EXCEPT ![f].state = "ok"]
    /\ UNCHANGED <<up, poolVars, fundVars, orderVars, sourceVars, failedOrderHashes,
                   pipeVars, asked, proven, granted, grants, orphans>>

\* "insufficient funds" and "out of gas" are the errors processBatch dies of.
Reject(f) ==
    /\ wire[f].state = "sent"
    /\ \E verdict \in {"failed", "fatal"} :
          /\ verdict = "failed" => ~Acceptable(wire[f].msgs) \/ "txFail" \in Env
          /\ verdict = "fatal"  => ~Covered(wire[f].msgs) \/ "gas" \in Env
          /\ wire' = [wire EXCEPT ![f].state = verdict]
    /\ UNCHANGED <<up, poolVars, fundVars, orderVars, sourceVars, failedOrderHashes,
                   pipeVars, hubVars, orphans>>

\* A transaction nobody waits for is executed, or rejected or lost.
Settle(msgs) ==
    /\ msgs \in orphans
    /\ orphans' = orphans \ {msgs}
    /\ \/ Acceptable(msgs) /\ Covered(msgs) /\ Fulfill(msgs)
       \/ UNCHANGED <<status, bank>>
    /\ UNCHANGED <<up, poolVars, fundVars, orderVars, sourceVars, failedOrderHashes,
                   pipeVars, asked, proven, granted, grants, wire>>

\* A provider takes its funds elsewhere, or brings them back.
Transfer(l) ==
    /\ "transfers" \in Env
    /\ bank' = [bank EXCEPT ![l] = IF @ = NoCoins THEN Deposit[l] ELSE NoCoins]
    /\ UNCHANGED <<up, poolVars, fundVars, orderVars, sourceVars, failedOrderHashes,
                   pipeVars, status, asked, proven, granted, grants, txVars>>

\* A provider grants anew, revokes its grant, or makes the same one again. What
\* is left of a spend limit after an order is such a new grant.
GrantOrRevoke(l) ==
    /\ "grants" \in Env
    /\ \/ /\ grants[l] < MaxGrants
          /\ grants' = [grants EXCEPT ![l] = @ + 1]
          /\ granted' = granted \cup {l}
       \/ /\ granted' = IF l \in granted THEN granted \ {l} ELSE granted \cup {l}
          /\ UNCHANGED grants
    /\ UNCHANGED <<up, poolVars, fundVars, orderVars, sourceVars, failedOrderHashes,
                   pipeVars, status, asked, proven, bank, txVars>>

----------------------------------------------------------------------------
SourceStep(s) ==
    \/ \E m \in inbox[s] :
          LookupPooled(s, m) \/ \E o \in Obj : LookupNew(s, m, o)
    \/ Update(s) \/ Refuse(s) \/ Admit(s) \/ NoProvider(s) \/ NoteMiss(s)
    \/ TrackOrders(s)

CheckerStep(c) == PopOrders(c) \/ \E k \in ToCheckSlot : SendToCheck(c, k)

ValidatorStep ==
    \/ \E k \in ToCheckSlot : ReceiveToCheck(k)
    \/ \E o \in Obj : NodeError(o) \/ FoundValid(o) \/ GiveUp(o) \/ NotValidYet(o)
    \/ ReleaseEvicted
    \/ \E k \in OutputSlot : SendValid(k)
    \/ AddRetried

FulfillerStep(f) ==
    \/ \E k \in OutputSlot : ReceiveBatch(f, k)
    \/ Submit(f) \/ Succeed(f) \/ Fail(f) \/ RPCError(f)
    \/ \E k \in ProcessedSlot : SendSuccesses(f, k) \/ SendFailures(f, k)

ManagerStep == \E k \in ProcessedSlot, o \in Obj : ManageProcessed(k, o)

Client ==
    /\ up
    /\ \/ Poll
       \/ \E s \in Source : SourceStep(s)
       \/ \E c \in Checker : CheckerStep(c)
       \/ ValidatorStep
       \/ \E f \in Fulfiller : FulfillerStep(f)
       \/ ManagerStep
       \/ ReloadLPs
       \/ RefreshBalances
       \/ \E o \in Obj : DeadlinePasses(o)
       \/ Panic
       \/ \E f \in Fulfiller : Fatal(f)
       \/ Crash

Hub ==
    \/ \E id \in Id : OrderCreated(id) \/ FeeUpdated(id) \/ BlockProven(id) \/ Gone(id)
    \/ \E f \in Fulfiller : Execute(f) \/ Reject(f)
    \/ \E msgs \in orphans : Settle(msgs)
    \/ \E l \in LP : Transfer(l) \/ GrantOrRevoke(l)

Next == Client \/ Restart \/ Hub

Spec == Init /\ [][Next]_vars

(***************************************************************************)
(* Fairness: Go runs every goroutine that can run, and a channel serves    *)
(* its blocked senders and its buffered lists first in, first out, which   *)
(* is why a send and a receive that can happen again and again do happen.  *)
(* Tickers and the hub never stop.  No fault and no timer of the           *)
(* environment is fair.                                                    *)
(***************************************************************************)
Fairness ==
    /\ WF_vars(up /\ Poll)
    /\ \A s \in Source : WF_vars(up /\ SourceStep(s))
    /\ WF_vars(up /\ \E c \in Checker : PopOrders(c))
    /\ \A c \in Checker : SF_vars(up /\ \E k \in ToCheckSlot : SendToCheck(c, k))
    /\ \A k \in ToCheckSlot : SF_vars(up /\ ReceiveToCheck(k))
    /\ WF_vars(up /\ ValidatorStep)
    /\ \A k \in OutputSlot : SF_vars(up /\ \E f \in Fulfiller : ReceiveBatch(f, k))
    /\ \A f \in Fulfiller :
          /\ WF_vars(up /\ FulfillerStep(f))
          /\ SF_vars(up /\ \E k \in ProcessedSlot : SendSuccesses(f, k) \/ SendFailures(f, k))
    /\ WF_vars(up /\ ManagerStep)
    /\ \A f \in Fulfiller : WF_vars(Execute(f) \/ Reject(f))
    /\ \A id \in Id : WF_vars(OrderCreated(id)) /\ WF_vars(BlockProven(id))

FairSpec == Spec /\ Fairness

----------------------------------------------------------------------------
(* Properties.                                                             *)

\* No two places hold the same order.
Apart == \A p, q \in Place : p # q => hold[p] \cap hold[q] = {}

\* An order on its way is the one pooled under its id and is flagged.
Claimed == \A o \in InFlight : pool[IdOf[o]] = o /\ o \in checking

(***************************************************************************)
(* An order is on its way at most once, and its pool entry is the claim    *)
(* that keeps it so: whatever the sources upsert meanwhile, an order from  *)
(* popOrders to manageProcessed is in one channel or list only, and its    *)
(* own object stays pooled and flagged under its id, so that no second     *)
(* object for the id can be popped (pool.go:33-44 and 62-79).              *)
(***************************************************************************)
SingleFlight == Apart /\ Claimed

TxIds(f) == {m.id : m \in wire[f].msgs}

(***************************************************************************)
(* Two fulfillers never have transactions for the same order under way,    *)
(* and none works on an order another one has a result for: there is       *)
(* nothing in processBatch itself that prevents it.                        *)
(***************************************************************************)
OneSubmission ==
    \A f, g \in Fulfiller : f # g =>
        TxIds(f) \cap (TxIds(g) \cup {IdOf[o] : o \in hold[Successes(g)]}) = {}

\* What a step that removes a pool entry must do, but for the end of the process.
RemovesOnlyEnded ==
    up' => \A id \in Id :
        pool[id] # Nil /\ pool'[id] = Nil => pool[id] \in InFlight /\ pool[id] \notin InFlight'

(***************************************************************************)
(* A pool entry is only removed in the step that ends the way of that very *)
(* order: manageProcessed and evictOrder remove by id (pool.go:46-51), yet *)
(* they never remove an order for the same id that is still waiting, or    *)
(* that another goroutine has claimed.                                     *)
(***************************************************************************)
RemovesOwnEntry == [][RemovesOnlyEnded]_vars

(***************************************************************************)
(* addOrder after a round of validation never adds anything: the order to  *)
(* retry, or a newer one for its id, is in the pool all along, so a retry  *)
(* cannot bring back an order that was meanwhile fulfilled and removed     *)
(* (order_tracker.go:192-194, pool.go:16-20).                              *)
(***************************************************************************)
RetriedStayPooled == \A o \in retry : pool[IdOf[o]] # Nil

(***************************************************************************)
(* Only orders whose rollapp block the full nodes validated are submitted: *)
(* the validator often answers from the height confirmed last for the      *)
(* rollapp, whoever's it was (node_client.go:90, order_tracker.go:205-214).*)
(* The exception is real.  An order whose height the poller cannot read    *)
(* has height 0 (order_poller.go:417-427), is never above that height, and *)
(* is submitted whether its block was validated or not.                    *)
(***************************************************************************)
OnlyProvenSubmitted ==
    \A f \in Fulfiller : \A o \in hold[InTx(f)] :
        \/ IdOf[o] \in proven
        \/ proofHeight[o] = 0 /\ IdOf[o] \in Unreadable /\ "poller" \in Source

\* The provider has accepted such an order: by a grant it has made by now, and
\* under terms the order has had.
HasAccepted(l, id) ==
    /\ l \in LP
    /\ \E v \in 1..grants[l], t \in 1..asked[id] : l \in Accepting[v][id][t]

(***************************************************************************)
(* Nobody pays for orders it never agreed to pay for.  The provider is     *)
(* chosen when an order is admitted or retried, long before it is          *)
(* submitted; meanwhile the order may get other terms, the provider may    *)
(* change or revoke its grant, be reloaded with other criteria, dropped,   *)
(* or exchanged for another one, and nobody asks again once the order is   *)
(* found valid (order_tracker.go:210-213, 311-334, lp.go:181-215).  So the *)
(* terms and the grant may be old ones, but they are the provider's own;   *)
(* with one grant and no fee updates they are the current ones.            *)
(***************************************************************************)
SubmittedToAcceptingLP ==
    \A msgs \in orphans \cup {wire[f].msgs : f \in Fulfiller} :
        \A m \in msgs : HasAccepted(m.lp, m.id)

Results == {Successes(f) : f \in Fulfiller} \cup {Failures(f) : f \in Fulfiller}
           \cup {Processed(k) : k \in ProcessedSlot}

\* The orders that hold a reservation: admitted, and neither in a result nor
\* left with a flag by a flight that has ended.
Reserving ==
    (UNION {fresh[s] : s \in Source}) \cup evicting
    \cup {o \in Pooled : ~Flagged(o)}
    \cup {o \in Obj : ~Flagged(o) /\ \E w \in Working : w.step = "update" /\ w.order = o}
    \cup UNION {hold[p] : p \in Place \ Results}

(***************************************************************************)
(* The funds reserved with a provider are the prices of the orders that    *)
(* are waiting, validated or being fulfilled for it: every reservation is  *)
(* given back or spent exactly once.                                       *)
(***************************************************************************)
LedgerExact == \A l \in lps : reserved[l] = Due(Reserving)[l]

\* One order takes a reservation, with the provider it is assigned to.
Takes ==
    \E o \in Reserving' :
        /\ Reserving' = Reserving \cup {o}
        /\ lpAddress'[o] # lpAddress[o]
        /\ assignLP(lpAddress'[o], lpAddress[o], PriceOf(o))

\* The orders that leave a transaction or an eviction for good in this step.
Ended == (Reserving \ Reserving') \cap (evicting \cup UNION {hold[InTx(f)] : f \in Fulfiller})

\* They and no others are given back, by as much as they are priced now.
GivesBack ==
    /\ Reserving' \subseteq Reserving
    /\ reserved' = [l \in LP |-> IF l \in lps THEN SafeSub(reserved[l], Due(Ended)[l])
                                              ELSE reserved[l]]

LedgerMoves == up /\ up' => Takes \/ GivesBack \/ (ReloadLPs /\ Reserving' = Reserving)

(***************************************************************************)
(* An order takes a reservation when it is admitted, or passes to another  *)
(* provider while it is validated; it gives it back once, when its         *)
(* transaction ends or its eviction does, whatever the other sources,      *)
(* fulfillers and timers do to its id meanwhile, and no other step gives   *)
(* anything back.  So nothing is released twice (lp.go:230-248); orders    *)
(* that end otherwise (a node error, the rest of a failed batch, an upsert *)
(* that drops or replaces one) keep theirs until the provider is reloaded. *)
(***************************************************************************)
ReservationsMove == [][LedgerMoves]_vars

(***************************************************************************)
(* A provider's reservations never exceed its balance; spendableBalance    *)
(* panics, and takes the client down, when they do (lp.go:90-95).          *)
(***************************************************************************)
NeverOverdrawn == \A l \in lps : ~Overdrawn(l)

\* Transactions the hub has executed and their fulfiller not yet booked.
Unbooked(l) ==
    [d \in Denom |-> MapThenSumSet(LAMBDA f : Cost(wire[f].msgs, l)[d],
                                   {f \in Fulfiller : wire[f].state = "ok"})]

(***************************************************************************)
(* The client's balance for a provider is the hub's, but for transactions  *)
(* executed and not yet booked: each fulfilled order is debited once, with *)
(* its price on the hub (lp.go:240-248).                                   *)
(***************************************************************************)
BooksMatchHub == \A l \in lps : balance[l] = Add(bank[l], Unbooked(l))

\* Pooled orders that nobody works on and nobody will pop again.
Stranded == {o \in Pooled : Flagged(o) /\ o \notin InFlight}

(***************************************************************************)
(* A pooled order with a flag is being checked or sent to fulfill, as      *)
(* upsertOrder takes it to be (pool.go:38-39): whatever else goes on, the  *)
(* flag is cleared, or the entry removed, when the order's way ends.  It   *)
(* is left behind, and the order lost to this process, in four cases only: *)
(* a node could not be asked (order_tracker.go:208), the transaction had   *)
(* an RPC error (order_fulfiller.go:120), an earlier chunk of the batch    *)
(* failed (order_fulfiller.go:136), or a source that remembered the order  *)
(* puts it back after its eviction or result (order_poller.go:197).        *)
(***************************************************************************)
StrandsOnly ==
    up' => \A o \in Stranded' \ Stranded :
        \/ NodeError(o)
        \/ \E f \in Fulfiller : /\ o \in hold[Batch(f)] \cup hold[InTx(f)]
                              /\ RPCError(f)
        \/ \E f \in Fulfiller : o \in hold[Batch(f)] /\ Fail(f)
        \/ \E s \in Source : Update(s) /\ task[s].order = o /\ pool[IdOf[o]] # o

StrandedByFault == [][StrandsOnly]_vars

(***************************************************************************)
(* Once every order has left the client, no funds stay reserved; the       *)
(* client's test asserts it of each provider at the end                    *)
(* (order_client_test.go:317).                                             *)
(***************************************************************************)
NothingLeftReserved ==
    Pooled \cup Reserving \cup InFlight = {} /\ Working = {}
        => \A l \in lps : reserved[l] = NoCoins

(***************************************************************************)
(* Every order that is popped gets through validation, the fulfillers and  *)
(* the results, or back: the bounded channels between these goroutines     *)
(* never leave all of them waiting for each other.                         *)
(***************************************************************************)
FlightsEnd == \A o \in Obj : o \in InFlight ~> o \notin InFlight

(***************************************************************************)
(* An order that is open on the hub does not stay open: it is polled,      *)
(* admitted, validated and fulfilled, if need be after it was evicted      *)
(* (README.md:3).                                                          *)
(***************************************************************************)
OpenOrdersSettle == \A id \in Id : status[id] = "open" ~> status[id] # "open"
=============================================================================
