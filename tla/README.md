# A TLA+ model of eibc-client

eibc-client finds *demand orders* on the Dymension hub and fulfills them with the
funds of liquidity providers (LPs) that granted it the right to. This directory
models the part of it that is hard to get right: what happens to an order between
the moment a source finds it and the moment its result is booked, in a process of
some forty goroutines that share an order pool and a ledger, talk through bounded
channels, and depend on a hub and on full nodes that fail. Beside this pipeline it models
the parts that feed it and finish its work, each on its own: the node client with its cache,
the loader of the providers' grants, the start of the process, the finalizer, and the
wire format of the hub's messages.

Contents: [inventory](#inventory), [plan](#plan), [modules](#modules),
[correspondence](#how-the-model-corresponds-to-the-code), [runs](#runs),
[what the runs found](#what-the-runs-found), [fairness](#fairness),
[proofs](#proofs), [only model-checked](#what-is-only-model-checked),
[not modelled](#what-is-not-modelled).

## Inventory

Paths are under `src/eibc` unless said otherwise.

| component | state | operations | interacts with |
|---|---|---|---|
| order pool, `pool.go` | `orders`: id -> `*demandOrder`, whose `checking` and `valid` flags say who owns it; lock `opmu` | `addOrder`, `getOrder`, `upsertOrder`, `removeOrder`, `setValid`, `popOrders` | sources (upsert), validator (pop, setValid, add, remove), result manager (remove) |
| LP ledger, `lp.go` | per provider: `balance`, `reservedFunds`, criteria; lock `lpmu` | reserve, release, debit, `loadLPs` (60 s), `refreshBalances` | `findLPForOrder`, fulfillers, the hub's queries, the poller's reset |
| order tracker, `order_tracker.go` | pool, ledger, `failedOrderHashes` (lock `fohmu`), three channels | `trackOrders`, `checkOrders`, `enqueueValidOrders`, `manageProcessed`, `canFulfillOrder`, `findLPForOrder`, `evictOrder` | everything |
| order eventer, `order_eventer.go` | two subscriptions | one callback per event: allocate or update orders, reserve, track | tracker |
| order poller, `order_poller.go` | `noLPOrders` | a tick: query the hub, look every order up, reserve, track | tracker, LP loader (reset), finalizer (query) |
| order fulfiller, `order_fulfiller.go` | the batch in hand | `processBatch`: one transaction per chunk, three kinds of error, two result lists | tracker's channels and ledger, the hub |
| node client, `node_client.go` | cache: rollapp -> last height asked and its confirmations | `BlockValidated` | full nodes |
| order finalizer, `order_finalizer.go` | the round under way | a tick: query ten fulfilled orders, finalize them in one transaction | poller, the hub |
| order client, `order_client.go` | wiring | `NewOrderClient`, `Start`, `retry` | all |
| accounts, `account.go` | key ring, fee grants, group members | set up at start; `waitForTx` | the hub |
| hub messages, `src/types`, `src/types/eibc` | none | per message `Marshal`, `Size`, `Unmarshal`, copied from the hub | queries, grants, transactions |
| command line, configuration, `src/cmd`, `src/config` | the configuration file | `init`, `start`, `scale`, `version` | order client |

The path of an order: a source allocates a `demandOrder`, `canFulfillOrder` refuses
it if it failed before under the same fee, `findLPForOrder` chooses a provider and
reserves the price, `upsertOrder` pools it. `popOrders` (every five minutes, and
after each `trackOrders`) flags it and `toCheckOrdersCh` carries it to the
validator. There it is sent on to `outputOrdersCh` when its block is validated,
evicted, or unflagged for a retry. A fulfiller submits it in a transaction, debits
or releases the reservation, and the result goes through `processedOrdersCh` to
`manageProcessed`, which removes the entry.

Hard behaviours, and the properties that make a component correct:

* **Pool.** Three sources and two removers work on an id while its order is in some
  channel. The flags of the pooled object are the only claim. An order must be on its
  way at most once (`SingleFlight`), be submitted at most once at a time
  (`OneSubmission`), be removed only by the one that finishes it
  (`RemovesOwnEntry`), not be resurrected by a retry (`RetriedStayPooled`), and a
  flag that outlives its owner, which loses the order, must have one of the known causes (`StrandedByFault`).
* **Ledger.** Reservation, transaction and booking are steps of different
  goroutines; refresh and reload overwrite the ledger from the hub in between. Reservations
  are taken and given back by the order they are for, once (`ReservationsMove`, `LedgerExact`,
  `NothingLeftReserved`), each fulfilled order is debited once (`BooksMatchHub`), and reservations stay covered
  (`NeverOverdrawn`), for `spendableBalance` panics otherwise.
* **Validator and fulfillers.** Nodes that cannot be asked, RPC errors, failed
  chunks, time-outs with the transaction still alive; answers from a cache, grants that change
  after the provider was chosen. Only orders whose block was validated are submitted, but for those whose height could not
  be read (`OnlyProvenSubmitted`), to providers that accepted them by a grant they made and under
  terms the orders had (`SubmittedToAcceptingLP`), and bounded channels never block everybody
  (`FlightsEnd`).
* **The whole.** An order that is open on the hub is eventually fulfilled
  (`OpenOrdersSettle`).
* **An order id.** Seen from outside, an id goes through one flight at a time: claimed,
  approved, sent, booked (`ImplementsLife`).
* **Node client.** Nodes are asked in parallel while they go on validating, and the cache keeps
  the last answer only. A yes is backed by enough nodes (`AnswersBacked`), is not taken
  back (`NotTakenBack`), and should hold for the level asked for (`SettledWhenAsked`).
* **LP loader.** The poller skips orders that had no provider until it is reset; a
  load must reset it when a provider would now accept one (`ResetWhenWider`).
* **Start-up.** Any step may fail, transactions outlive the process that sent them. Loops only run on
  accounts that are fully set up (`RunningReady`), the keyring does not fill with
  unused accounts (`NoNeedlessAccounts`), and no failed start blocks the later
  ones (`StartupConverges`).
* **Finalizer.** It sees one page, filters it, and sends one transaction that fails as a whole.
  Its operator's final orders are finalized all the same (`ClaimableFinalized`).
* **Proof height.** It is cut out of a binary key by a separator that may be one of its bytes
  (`HeightRecovered`).
* **Hub messages.** `Size` and `Marshal` agree (`SizeExact`), what is written is read back
  (`RoundTrip`), and fields of another version are skipped (`UnknownSkipped`).

`PROJECT.json` lists the hazards one by one, each at its line.

## Plan

Done in this order: `Coins`, `OrderPool` and `LPFunds` (the two shared structures, as
operators that are one critical section each), `OrderFlow` (every goroutine over
them), `MCOrderFlow` and its runs, the proofs of the claim protocol; then `OrderLife`, the abstract
life of an id, and the refinement; then the parts around the pipeline: `NodeClient`,
`LPLoader`, `OrderClient`, `Finalizer`, `ProofHeight`, `ProtoWire` and `HubMessages`, which
`MCParts` instantiates together; then proofs, of the pipeline's invariants, of the refinement, of the
parts, of the proof height and of the wire format; last the proof heights, the node client's cache and changing grants within
`OrderFlow`, with the proofs about them. Every safety property a passing run checks is a theorem, but for `LedgerExact` and
`BooksMatchHub`, which hold only where the environment leaves the ledger alone. What
could come next is modelling: the operator's share in `OrderFlow`, and the parts in place of its abstract
loader and start.

## Modules

| module | models |
|---|---|
| `Coins` | the part of `sdk.Coins` the client relies on: functions from denominations to amounts |
| `OrderPool` | `pool.go`: `pool`, `checking`, `valid` and the six methods |
| `LPFunds` | the ledger: `lps`, `balance`, `reserved`, the grant each provider was loaded with (`criteria`), its operations, the choice of a provider |
| `OrderFlow` | sources, checkers, validator, fulfillers, result manager, LP timers, process death and restart, over the two above; the hub and the full nodes as environment; all properties |
| `MCOrderFlow` | values for the configurations, view, symmetry |
| `OrderLife` | what the client promises about an order id: which edges its life has |
| `OrderFlow_life` | the refinement mapping from `OrderFlow` to `OrderLife` |
| `NodeClient` | `BlockValidated`: cache, levels, parallel questions to full nodes that validate and fail |
| `LPLoader` | grants, criteria, `loadLPs` whole or half way, `noLPOrders` and its reset |
| `OrderClient` | `NewOrderClient` and `Start`, `account.go`, `scale`; failures, restarts, late transactions |
| `Finalizer` | the finalizer's rounds and the query for claimable orders |
| `ProofHeight` | `parseProofHeight` against the hub's packet key |
| `ProtoWire` | the wire format as the generated code reads and writes it |
| `HubMessages` | one table per method of every message in `src/types`, and sample contents |
| `MCParts` | instances of the six parts above, in one specification |
| `Recursion` | lemmas: sums over finite sets, recursive functions along positions, division with remainder |
| `OrderFlow_proofs` | proofs of type correctness, of the claim protocol, and about what is submitted, retried and left behind |
| `OrderFlow_ledger_proofs` | proofs about what is reserved with the providers, and that reservations stay covered |
| `OrderFlow_life_proofs` | proof that `OrderFlow` implements `OrderLife` |
| `NodeClient_proofs`, `OrderClient_proofs` | proofs of the invariants of these parts |
| `HubMessages_proofs` | proofs about the wire format and all messages |
| `Parts_proofs` | proofs about the loader, the proof height and the finalizer, and of all parts together |

Definitions whose comment begins with "Bug variant" are not part of the
specification. Each is a plausible defect of the definition that follows it, used to
show that a property notices it: the property fails when the variant takes its place.

## How the model corresponds to the code

**Objects and ids.** A member of `Obj` is one allocation of a `demandOrder`. Channels,
batches and retry lists hold pointers, so the same id can have several live
objects, with flags, fee and provider of their own; this is where most of the
difficulty is. `Obj` is finite memory: `LookupNew` takes an allocation nothing refers
to any more (`Unreferenced`), as the garbage collector would.

**Atomicity.** An action is what a goroutine does between two points where another
one can interfere: one critical section of `opmu`, `lpmu` or `fohmu`, or one channel
operation. `evictOrder` is two actions (`GiveUp`, then `ReleaseEvicted`), and so is
getting a pooled order and upserting it (`LookupPooled`, then `Update`). Merged are steps between which
nothing another goroutine reads or writes changes hands:

* `Update` writes fee and price and upserts. The writes are unlocked in the code; a
  reader could see a new fee with an old price, which the model leaves out.
* `Admit` and `NoProvider` do `canFulfillOrder` and `findLPForOrder`: the first only
  touches the failed hash of the order's id.
* `ManageProcessed` writes the failed hash and removes the order. A source that runs
  in between would see the order still pooled.
* `FoundValid`, `GiveUp` and `NotValidYet` take the answer of `BlockValidated`, from its cache or from the full nodes, and act on it.
  Only the validator asks, one order after the other, so nobody else touches the cache; proofs only grow, so an older answer "valid" is still right; an
  older "not valid" leads to the same step, taken earlier. How the nodes' replies come together is `NodeClient`.
* `ReloadLPs` loads and resets the poller.

**Places.** `hold` maps a place to the orders in it: a slot of a channel, or a local list
of a goroutine. A list is a set. The validator goes through its list from the highest proof height down, as `checkOrders` has
sorted it (`Validating`); this matters, for the answer to the first order may answer for the others. Past it the order of a list is left out, and a
chunk is any subset of the right size. Slots of a channel are not served in order either. Both only add behaviours, except
for liveness, where fairness makes up for it. Empty result lists are not sent; in the
code they pass through a channel nobody but `manageProcessed` reads.

**Checkers.** `checkOrders` runs in the ticker and in one goroutine per
`trackOrders`; `Checker` bounds how many run at once. `PopOrders` may happen at any
time, as the ticker may tick at any time.

**Ledger.** Release and debit of a list are `SafeSub` of its total per provider; since
`SafeSub` clamps to the empty bag and amounts are not negative, this is what the loop
computes. Clamping empties every denomination, as in the code. A provider that is not
loaded has empty books.

**Fees and grants.** `terms` stands for an order's fee and price; `Price[id][t]` is the price under
the t-th terms. Each provider's grants are numbered in the order it makes them, up to `MaxGrants`; `Accepting[v][id][t]` are the providers whose v-th
grant (rollapp, denom, maximum price, spend limit, minimum fee) accepts the order under its t-th terms. `grants` is the newest
grant on the hub, `granted` says who has not revoked it, and `criteria` the one `loadLPs` read last: the client
chooses by `criteria`, the hub checks by `grants`. What is left of a spend limit after an order is a grant with another number. A failed hash, the
hash of id and fee, is the terms themselves; 0 stands for none.

**Heights.** Every order has a rollapp and a proof height, and enough full nodes validate a block together with those below it
(`BlockProven`). An order object carries the height its source read (`proofHeight`): events state it, the poller cuts it out of
the packet's key and takes a height it cannot read for 0 (`Unreadable`, see `ProofHeight`). `lastValidHeight` is the cache of the node client: the height asked last
for the rollapp if enough nodes confirmed it. It answers for every height up to it without asking (`Cached`); otherwise the nodes are asked, and
any answer but an error overwrites it (`Confirmed`, `NoteDenied`). Asked about height 0 they may say anything. Which of two validation levels an
answer is for is `NodeClient`'s; here an instance has one.

**Reload.** `ReloadLPs` drops providers without a grant, and reads the grant and the balance of the others, up to the first query that fails
(`queryError`); a provider whose grant has no supported rollapp may be skipped and keeps its old entry (`MaySkip`). The
poller is reset by a complete load that brings a new provider or, if what was compared differs, another grant (`AfterLoad`).

**Errors of a transaction.** `waitForTx` times out (`Fail` by `TimedOut`, the transaction
may still be executed: `orphans`, `Settle`), the hub rejects (`Reject`, then `Fail`),
"RPC error" (`RPCError`, no result at all), "out of gas" or "insufficient funds"
(`Fatal`, the process ends). After any of them the rest of the batch is forgotten,
as `return false` does.

**The hub.** External, modelled from how the client uses it: an order is open until it is
filled or gone; a transaction is executed as a whole when all its orders are open
under the submitted fee, their providers have a grant and can pay, and rejected otherwise.
That the messages of one proposal succeed or fail together is what `MsgExec` inside a proposal means
and what `processBatch` takes for granted.

**`OrderLife`.** The refinement mapping takes an id to the stage of the place its flight is in: with a
checker or in the validator's list "checking", past validation "approved", in a transaction
"sent", in a result list or channel "succeeded" or "failed" by its failed hash; nowhere
is "idle". Two orders of one id under way map to "torn", which is no stage. `Edge` lets an id
be given back from any stage before a result, since node errors, RPC errors and aborted batches do so.

**`NodeClient`.** One rollapp; the cache is a map from rollapps to independent entries. `AskNodes`, one
reply per node and `Conclude` are separate steps, nodes validate in between. A yes to a
height at one level is `Answer`. `expected` holds the levels the providers' grants ask for; a
run with one level and one with both are different initial states.

**`LPLoader`.** `Load` is `loadLPs` under `lpmu`, `LoadFails` the early return after some grants. Criteria
are records of what `filterLPsForOrder` compares; the hash is the entry without
its spend limit. A provider has a balance that covers an order or has not.
`granted` is the hub's.

**`OrderClient`.** `pc` walks through `NewOrderClient` and `Start`. `Dies` stands for every error
return and for the end of the process; what it waited for goes to `late`, which the hub executes or not,
at any time. Keys, accounts, grants and members survive, everything else is read again.
`CreateAccount` may draw a name that is taken, as random names may.

**`Finalizer`.** One rollapp and one packet type; the others share nothing but the transaction. The page
is the first `PageLimit` of the hub's pending fulfilled orders, whoever fulfilled them. A failed first round turns the
loop off, later ones are logged. Orders in `hidden` (`noLPOrders`) are left out, as the code does.

**`ProtoWire`, `HubMessages`.** Every message has three tables, transcribed from its three methods
one by one: `MarshalToSizedBuffer` (tag bytes, in the order in which the buffer is filled from its end),
`Size`, and `Unmarshal` (number, wire type). That the tables agree is what the properties check, so none is derived
from another. The contents of strings, coins and nested messages are byte sequences.
A nested message that occurs again is merged into the one before, a value of a custom number type replaces it, as in the code.
Groups, fixed lengths, negative and overflowing lengths and the depth of `skip` are as in the
generated code; integers have `Width` bits instead of 64 and field numbers
half as many.

**Environment.** Everything that may go wrong is switched by `Env`: node errors, failing
transactions, time-outs, RPC errors, lost events, fee updates, competitors, expiry,
grants, transfers, reload, refresh, half-failed queries, crashes. A run names what it
allows; the theorems hold for every choice.

## Runs

The last two use `MCParts`, the others `MCOrderFlow` with `OrderFlow_<run>.cfg`.

| run | instance | checks |
|---|---|---|
| `claims` | 1 id, 3 objects, 3 sources, 2 fulfillers, 2 terms; node error, RPC error, failure, time-out, fee update, expiry | `TypeOK`, `SingleFlight`, `OneSubmission`, `RetriedStayPooled`, `RemovesOwnEntry`, `ImplementsLife` |
| `events` | 2 ids of one rollapp at heights 1 and 2, the lower unreadable to the poller; 3 objects, created events and poller; node error, loss, failure | `OnlyProvenSubmitted`, `BooksMatchHub`, `NeverOverdrawn`, `StrandedByFault`, `ReservationsMove` |
| `ledger` | 2 ids priced in different denominations, 3 objects, poller, 2 per transaction; time-out, RPC error, refresh, transfers | `LedgerExact` |
| `providers` | 1 id, 2 objects, 2 providers with 2 grants each: the first of one and the second of the other accept; expiry, grants, reload, half-failed reload, gas, crash | `SubmittedToAcceptingLP` |
| `flights` | 2 ids, 1 slot per channel, 2 fulfillers, fair; failure, time-out, RPC error, node error, expiry | `FlightsEnd` |
| `open` | 2 ids, poller, 1 per transaction, fair; competitor | `OpenOrdersSettle` |
| `starved` | 1 id, poller, fair; expiry | `OpenOrdersSettle` is violated |
| `poisoned` | 2 ids, poller, 2 per transaction, fair | `OpenOrdersSettle` is violated |
| `leaked` | 1 id, poller and created events | `NothingLeftReserved` is violated |
| `overdrawn` | 2 ids, created events; refresh | `NeverOverdrawn` is violated |
| `parts` | see below, fair; failures, crashes, restarts, late transactions, competitors | `PartsTypeOK`, `AnswersBacked`, `NotTakenBack`, `ResetWhenWider`, `RunningReady`, `NoNeedlessAccounts`, `StartupConverges`, `ClaimableFinalized`, `HeightRecovered`, `SizeExact`, `RoundTrip`, `UnknownSkipped` |
| `unsettled` | the same | `SettledWhenAsked` is violated |

**Bounds and why they are enough.** Claims are per id, so `claims` has one id and three
objects for it: one in flight, one in a source's hands, one in another's, with two fulfillers
to submit twice. Everything about batches needs two ids in one chunk. Channels have one
slot, the tightest bound for deadlock: a further slot only lets a sender go on
earlier. One checker suffices to interleave with sources and validator. `PopLimit` is
2, so a pop may return everything. `MaxTerms` bounds fee updates at one: a second
adds no new relation between the fee submitted, the current one and the failed one, and the theorems hold
for any number of them. `MaxGrants` is 2 in `providers` for the same reason: an order, the loaded entry and the hub can all
disagree. `events` has one fulfiller and one order per transaction, which is what lets a batch of two fail half way; its two
heights are one that the cache can answer for and one that it cannot. `ledger` has two denominations because
a release that goes below zero wipes them all: one order given back twice would take the other's reservation along.
Deposits are chosen at the boundary: one price in `providers`, two where two orders compete, more
where lack of funds is not the subject.

**Bounds of `parts`.** The six parts share no variable, so a behaviour is one of a single part (`part`) while
the others stand in a state that fairness asks nothing of.

* Node client: 2 nodes that must both confirm, so one reply is not enough and one may lag; heights
  up to 2, so there is a height below and one above the cached one; both levels.
* Order client: up to 2 fulfillers (`scale` goes up, down and to zero), 2 faults or scale commands in all, 4 names: the
  third and fourth are there for accounts created needlessly. 2 connection attempts (5 in the
  code): one that is retried and the last one.
* Finalizer: 3 packets, a page of 2 (10 in the code), one packet of another operator first in
  the page, one packet with an unreadable height. Faults are unbounded.
* LP loader: 2 providers, 2 rollapps of which one is supported, 7 grants, 2 orders in 2 denominations; the grants differ in one
  criterion each, on the near and the far side of what the orders ask for.
* Messages: every message, with every pair of its fields filled and all of them filled; contents of 127 and 128
  bytes and numbers around 128 are where varints grow; `Width` is 20, enough for three groups. Foreign
  fields of all fixed wire types and nested groups.
* Heights: 3 bytes of 5 values (8 of 256), all 125 heights.

**Symmetry and view.** Objects of one id are interchangeable, and so are fulfillers. The view
hides the fields of unreferenced objects, which are written before they are read. The
liveness runs use neither.

**Deadlock.** `flights` has only finitely many events and no poller: when every order is
done nothing is left to do, so deadlock is not checked there. In `parts` and `unsettled` messages and heights take no
step and a client that runs waits for ever. All other runs check it.

Some properties hold only in a restricted environment or for part of the states, and the restriction says
something about the code:

* `OnlyProvenSubmitted` excepts polled orders of unreadable height. Such a height counts as 0, and once any height of the
  rollapp was confirmed the cache says yes to 0 (`node_client.go:90`): the order is submitted whether its block was
  validated or not. One level of validation is assumed, see `unsettled` for two.
* `StrandedByFault` names the four cases in which an order is left with a flag and lost to
  this process: a node error (`order_tracker.go:208`), an RPC error (`order_fulfiller.go:120`), a batch with a
  failed chunk before the last (`order_fulfiller.go:136`), and an update that races an
  eviction or a result (`order_poller.go:197`). It says that there is no fifth, with all sources and faults.
* `SubmittedToAcceptingLP` promises no more than that the provider has accepted such an order some time. The
  terms may have changed since it was chosen, and so may the grant: a validated order is submitted without another question
  (`order_tracker.go:210`). That the current grant accepts the current terms follows where neither changes.
* `ReservationsMove` leaves out what a reload does to reservations: it forgets them. It does not say either that every order that ends
  gives its reservation back: those that are stranded keep theirs, and so does the provider an order is
  re-assigned from.
* `LedgerExact` holds with one source, one provider, fixed fees and no reload. Two
  sources reserve twice; a re-assignment leaves the old provider's reservation; a fee
  update releases at another price than was reserved; a reload forgets reservations.
* `BooksMatchHub` holds while nothing but the client's own transactions moves balances and each of them is waited for: without
  reloads, refreshes, transfers, time-outs, RPC errors and crashes. Fees must stand still, too: a success is booked at the price the order has when it is
  handled (`lp.go:240`), which a delayed update may have changed meanwhile (`order_poller.go:195`).
* `AnswersBacked` promises the lowest level asked for, `NotTakenBack` is about clients that
  ask for one level: with two, the cache mixes them up (`unsettled`).
* `ResetWhenWider` is about complete loads. A load that fails half way (`lp.go:154`) has replaced
  entries, sees no change the next time and misses the reset. It leaves out a spend limit raised from
  zero: `IsAnyGT` compares no amount the old limit does not have.
* `ClaimableFinalized` leaves out orders the poller has noted as without provider
  (`order_poller.go:302`) and a finalizer whose first round failed (`order_client.go:303`
  logs it, the loop never starts): neither is finalized by this process.
* `HeightRecovered` says 0 for heights with the byte of `/` among theirs; they pass the
  finalizer's filter whether final or not (`Unreadable`).

## What the runs found

* **`starved`.** The poller gets a pooled order, the validator evicts it, the poller upserts
  the object it holds. It is back with `checking` set. Every later poll finds it and
  skips it, `popOrders` skips it. With the default of one order per transaction.
* **`poisoned`.** A poll result that is older than a fulfillment makes a filled order
  new. In a chunk with an open order its transaction fails; both are recorded as
  failed under their fees. The hub soon stops offering the filled one; the open one is
  refused until its fee changes. `open` shows that one order per transaction avoids it: the refused order is
  the filled one.
* **`leaked`.** Created events do not look into the pool, so the event and the poll
  both reserve. The test asserts that nothing stays reserved, with each order
  found once only.
* **`overdrawn`.** A refresh between execution and booking counts the price as spent
  and as reserved; `Coins.Sub` panics in the next search for a provider.
* **`unsettled`.** A block is confirmed at p2p level for one provider and cached; an order of a provider that
  asks for settlement is then answered from the cache, which keeps no level.

Read in the code while modelling, without a run of their own:

* A polled order whose proof height contains the byte of `/` is validated at height 0 (`order_poller.go:417`), which the cache
  grants once it has confirmed any height. `events` shows it when the exception of `OnlyProvenSubmitted` is taken out.
* An order is submitted for a provider whose loaded criteria accept it no longer, if the order is found valid at once. `providers` shows it when
  `HasAccepted` is about `criteria` and not about all grants made.
* Without polling, which is the default, `newFinalizer` reads a field of the nil poller
  (`order_finalizer.go:29`) and the client dies at start.
* In sequencer mode the node client knows no rollapp (`order_client.go:260`), `isRollappSupported` refuses
  every grant and order, and nothing is fulfilled.
* A retried order must find its price free a second time beside its own reservation
  (`order_tracker.go:385`), or it is evicted.
* The share of a kept provider is not refreshed for a retried order (`order_tracker.go:316`), only
  its settlement flag is.
* A provider re-assigned at `order_tracker.go:332` leaves the old reservation behind.
* The failed hash uses the fee after the transaction (`order_fulfiller.go:124`): an update in between makes a fee
  refused that was never tried.
* `lpmu` is held across the balance queries (`lp.go:150`): sources, validator and
  fulfillers wait for the network.
* A grant without a usable rollapp leaves the provider's old entry in force (`lp.go:198`); a
  grant without a spend limit never accepts an order; `MaxPrice` does not bound denominations it does not name; a
  balance that grows resets nothing.
* A negative `fulfillers.scale` or `min_confirmations` is not refused.

## Fairness

`FairSpec` adds to `Spec`:

* weak fairness for the poller's tick, each source, popping, the validator, each
  fulfiller, the result manager: Go runs every runnable goroutine, and tickers do not
  stop;
* strong fairness for a send or receive on a channel that several goroutines
  compete for: Go queues blocked senders and receivers first in, first out, and a buffered channel
  is first in, first out too, so one that can happen again and again does. The model forgets that order,
  and strong fairness gives back what it implies;
* weak fairness for the hub deciding a transaction it has, creating its orders, and
  the full nodes validating their blocks.

`PartsSpec` adds `ClientFairness`, for the start, and `FinFairness`, which is `LoopFairness` for what the finalizer's loop does and
`OutsideFairness` for what the hub and other operators do:

* weak fairness for the start as a whole (`Progress`): the process is restarted whenever it ends, and
  the hub answers in the end; `MaxFaults` ends the faults;
* for the finalizer, strong fairness for a query that is answered, a broadcast and the hub executing what it
  can: faults strike for ever but not every time; weak fairness for the rest of a round, for a restart, for heights becoming
  final, and for other operators finalizing their packets. Without the last, ten packets of others would hide the
  rest for ever, as they do in the code.

Nothing is fair about a fault, a fee update, a competitor, an expiry or a timer of
the ledger, and nothing forces the hub to accept.

## Proofs

All theorems hold for every value of the constants allowed by the assumptions of the modules:
`DenomAssumption`, `PoolAssumption`, `FundsAssumption`, `FlowAssumption` for the pipeline,
`NodeClientAssumption`, `OrderClientAssumption`, `FinalizerAssumption`, `LPLoaderAssumption`, `WidthAssumption`,
`SampleAssumption`, `ForeignAssumption`, `ProofHeightAssumption` and `PartsAssumption` for the parts; TLC evaluates each of them on
the runs' values. Fairness is not used: the parts' theorems are about `NodeSpec`, `ClientSpec` and `LoaderSpec`, of which
`PartsSpec` runs one at a time, and about `PartsSpec` itself. The environment `Env` is arbitrary
unless the theorem says otherwise.

| theorem | module | says | besides the modules' assumptions |
|---|---|---|---|
| `TypeCorrect` | `OrderFlow_proofs` | `Spec => []TypeOK` | |
| `FlightsAreSingle` | `OrderFlow_proofs` | `Spec => []SingleFlight` | |
| `RemovalsAreOwn` | `OrderFlow_proofs` | `Spec => RemovesOwnEntry` | |
| `SubmissionsAreProven` | `OrderFlow_proofs` | `Spec => []OnlyProvenSubmitted` | |
| `RetriesStayPooled` | `OrderFlow_proofs` | `Spec => []RetriedStayPooled` | |
| `SubmissionsAreSingle` | `OrderFlow_proofs` | `Spec => []OneSubmission` | |
| `SubmittedToAccepting` | `OrderFlow_proofs` | `Spec => []SubmittedToAcceptingLP` | |
| `StrandedByFaults` | `OrderFlow_proofs` | `Spec => StrandedByFault` | |
| `ReservationsMoveAlways` | `OrderFlow_ledger_proofs` | `Spec => ReservationsMove` | |
| `Covered_Unrefreshed` | `OrderFlow_ledger_proofs` | `Spec => []NeverOverdrawn` | no refresh of balances |
| `NoPanic_Unrefreshed` | `OrderFlow_ledger_proofs` | `Spec => [][~Panic]_vars` | no refresh of balances |
| `FlowImplementsLife` | `OrderFlow_life_proofs` | `Spec => ImplementsLife` | |
| `NodeTypeCorrect` | `NodeClient_proofs` | `NodeSpec => []NodeTypeOK` | |
| `YesIsBacked` | `NodeClient_proofs` | `NodeSpec => []AnswersBacked` | |
| `YesIsKept` | `NodeClient_proofs` | `NodeSpec => []NotTakenBack` | |
| `ClientTypeCorrect` | `OrderClient_proofs` | `ClientSpec => []ClientTypeOK` | |
| `RunningIsReady` | `OrderClient_proofs` | `ClientSpec => []RunningReady` | |
| `NoAccountInVain` | `OrderClient_proofs` | `ClientSpec => []NoNeedlessAccounts` | |
| `LoaderTypeCorrect` | `Parts_proofs` | `LoaderSpec => []LoaderTypeOK` | |
| `WiderIsNoticed` | `Parts_proofs` | `LoaderSpec => ResetWhenWider` | |
| `PartsTypeCorrect` | `Parts_proofs` | `PartsSpec => []PartsTypeOK` | |
| `HeightIsRecovered` | `Parts_proofs` | `HeightRecovered` | |
| `SizeIsExact` | `HubMessages_proofs` | `SizeExact` | `call` is a message (`Callable`), its length fits (`Fits`) |
| `MessagesComeBack` | `HubMessages_proofs` | `RoundTrip` | the same |
| `OlderVersionsRead` | `HubMessages_proofs` | the first half of `UnknownSkipped` | the same |
| `UnknownsAreSkipped` | `HubMessages_proofs` | `UnknownSkipped` | the same, and the length with the foreign fields around it fits |
| `MessagesAreRead` | `Parts_proofs` | `PartsSpec => [](Countable => SizeExact /\ RoundTrip /\ UnknownSkipped)` | |

**The argument.** `SingleFlight` is the conjunction of `Apart` (no order is in two places) and
`Claimed` (an order on its way is pooled under its id and flagged). `Apart` alone is not
inductive: `popOrders` takes unflagged pooled orders, and that these are nowhere else is
`Claimed`. `Claimed` in turn survives an upsert because the guard looks at the flags of
the *pooled* object, which is the one on its way; a removal, because the remover holds
an order of that id, hence by `Claimed` the only one; an allocation, because it is
unreferenced; clearing `checking`, because the same step takes the order out of
flight. Two lemmas say what moving and dropping orders does to `Apart` and `InFlight`,
each action is then one of them. `RemovesOwnEntry` follows from the same invariant: the
only removers are `GiveUp` and `ManageProcessed`, and what they hold is what is pooled.

`RetriedStayPooled` is strengthened to `RetryAlone`: no order for
the id of an order to retry is in the list being validated or anywhere behind it. Only an
order that is there can end its flight and with it remove the entry, and the validator receives
no other list before `AddRetried` has run.
`OneSubmission` follows from `WireCarries` (a transaction is about the orders of the chunk it was built from)
and `SingleFlight`: two chunks with a common id would hold the same pooled object.

**`OnlyProvenSubmitted`.** The validator mostly does not ask about the order it passes on: the cache answers. `ProvenInv` therefore is about what
the cache vouches for: if the height asked last was confirmed, every order of the rollapp up to that height is proven (`CacheProven`). That
follows because a block is validated together with those below (`ProvenBelow`) and because any denial clears the entry; it
would fail if a denied height were remembered as confirmed, which is the mutant of this property. `HeightsRead` says that every held order carries its own height
unless it was polled and unreadable, which is the exception, and `BeyondProven` that what is past the validator is `Vouched` for; proofs are
never taken back. The argument needs all of it at once, for every rollapp, height and order in which heights are asked.

**The refinement.** `FlowImplementsLife` follows from four invariants: `TypeOK` and `SingleFlight`, by which the
stage of an id is that of the place of its one order and never "torn"; `ProvenInv`, without which "approved"
would not be allowed, and with it `SentVouched`, the same of transactions nobody waits for any more; and `OkFilled` with `TxHeld`: while a fulfiller waits for a transaction
the orders it holds for it are the transaction's own, and one that has succeeded has filled them all, which is what
`OrderLife` asks of a success. `OrderLife` knows the `Unreadable` ids, too: what the code lets through cannot be promised away. Each step then does one of four things to the places, and a lemma
says what each of them does to the stages (`KeptStage`, `MovedStage`, `DroppedStage`, `EndedStage`). Per goroutine
there is one lemma that its steps are edges of `OrderLife`; the hub changes no stage, and the end of the process is
`Forget`.

**`SubmittedToAccepting`.** `AcceptedInv` says that nobody has seen terms the order has not had (`TermsKnown`) or a grant
the provider has not made (`GrantsKnown`), and that every order some goroutine or the pool has (`Held`) has a provider that has accepted
it (`Assigned`). The work is in showing that an order becomes held only by being admitted with such a provider; after that it is moved around, its terms
are overwritten by an update, its provider's entry by a reload, and only a retry
gives it another provider. Terms and grants are only added on the hub, so an acceptance stays one (`HasAccepted`).

**`StrandedByFaults`.** An order becomes stranded when it gets a flag out of flight, leaves its flight with one, or comes back into the pool with one. The first
cannot happen because the checker and the validator flag pooled orders that they take along (`FlagsOfPooled`). For the second every step that takes orders
out of flight is looked at: it clears the flag, removes the entry, or is one of the faults. That `Fail` leaves behind the batch and nothing else
rests on `FailuresLast`: no failure of an earlier chunk is still there to be overwritten. For the third, `NewPrivate` and `NewPlain` say that an order a source
has not pooled yet is known to nobody else and has no flag, so upserting new orders strands nothing; only an update of a
remembered one does. These are the parts of `AsideInv`.

**`ReservationsMoveAlways`.** `Reserving` is a union over everything that may hold a reservation (`ReservingParts`), and each
step is one of three kinds. `AdmitTakes` and `RetryTakes`: one order takes one, and it is an order without that provider before. `EvictionGives` and
`ChunkEnds`: what leaves for good is exactly the evicted order or the fulfiller's chunk, which uses `SingleFlight`, for otherwise another goroutine
could still hold one of them, and `EvictedAside`; what is given back is their price. All others give nothing back (`NothingEnds`), though
they may drop orders with their reservation. A reload changes the ledger and nothing else. It needs no
condition on sources, providers, fees or faults, because it is about steps: what the sum is after many of them, `LedgerExact`, depends on all
of these.

**`NeverOverdrawn`** needs no sum: a reservation is only made where the spendable balance covers it, giving
back lowers what is reserved, a debit lowers both sides by the same amount; a reload sets what is reserved to nothing. Only a refresh can lower the balance alone,
and a run shows that it does, so the theorem has to leave it out.

**`NodeClient`.** A yes comes from the cache or from the nodes, so `BackedInv` says of both that they are backed by nodes which
have validated the height, `CacheBacked` and `RepliesBacked`; nodes never take a
validation back, so a count stays right. For `NotTakenBack` it is not enough that `MinConfirmations` nodes have confirmed: others may be
asked first, and one of the former may fail. `KeptInv` counts the nodes that have not said no
(`Willing`): with enough of these, the answer is an error or a yes.

**`OrderClient`.** `ReadyInv` follows an account through the startup: what was looked up is on the hub, or noted as lacking it until
the step that gives it is over (`Primed`, `Granted`, `Enrolled`); a transaction is about exactly the noted
accounts (`Gives`), and late ones only add. `KeyringInv` says that while accounts are created all keys
have been listed, so one more is created only if there are fewer than `scale`. That the listing lists each
name once is `ListingType`, from the ranks in a finite set being one-to-one.

**`LPLoader`.** `WiderIsNoticed` rests on `UnnoticedNoWider`: an entry with the same hash differs in spend limits only
(`SameHash`), and a limit that is not greater in any denomination the old one has covers no price the old one did
not (`LimitCovers`). The exception, a limit that had nothing left of a denomination, is the premise of that lemma.

**Induction over data.** The library's induction theorems take an operator as a parameter, which the provers cannot
instantiate. The proofs argue by a least counterexample instead: the set of the positions, or of the cardinalities, where a statement fails
is a set of numbers, and has a least member if it has any. `Recursion` does this once for sums (`SumOf`) and once for functions that are
defined along positions (`Recurs`, `RecursionExists`); everything recursive is brought into one of these two forms.

**The proof height.** `HeightIsRecovered` has two halves. `BytesRead`: the digits of a height, weighed with the powers of the base,
add up to the height; the sum of the last n digits is the height modulo the n-th power (`BytesSum`, from `NextDigit`). `ThirdIs`: of the
key's bytes the second and the fourth are separators and those before are not, so what is cut out begins with the first byte of
the height and ends before the next separator, which is behind the height if none of its bytes is one. Otherwise fewer bytes remain than a height has, and
the recovered panic leaves 0.

**The wire format.** A message is any record whose fields hold what their kinds allow (`Msgs`), so strings of any length and
lists of any number, and numbers of any value below `2^Width`. For varints, the groups of a number are those `sov` counts, and
reading them where they stand gives the number and the position behind it; this is arithmetic on powers of two, hence the widths 16 to
24 of `WidthAssumption`, for which the powers are known numbers. `skip` and `Unmarshal` are functions along the rounds of their loops, one
state per round; a round takes a byte at least, so the loop ends within the buffer. A row of the marshaller `Stands` in the buffer between the bytes of the
rows before and behind it. If the loop has come to the place where a row begins (`Reached`), it comes to where the row ends,
with the field merged, once per element of a list, or untouched if the reader's table lacks the field (`RowRead`). From row to row, the whole
message is read wherever it stands (`BufferRead`); with nothing around it this is `RoundTrip`, with a table that lacks a field `ReadWithout`, and between
foreign fields, which by `ForeignAssumption` `skip` ends behind, `UnknownSkipped`. What remains is about the sixteen messages and is a matter of looking at
their tables: each has the same fields in its three methods, tags say the numbers and wire types the reader expects, no
number stands twice (`CodecsAgree`). `Fits` says that lengths stay below `2^(Width - 1)`, as a length in the code is an int; a longer
buffer could not be allocated there, and in the model its length would overflow.

`ForeignAssumption` and `SampleAssumption` are about constants that only choose what the run tries: fields a
table does not have, on their own, and contents of the right kind. TLC evaluates both on the run's values.

**All parts together.** `PartsInv` is the conjunction of the parts' own invariants with the finalizer's types. A
part that rests starts in a state its invariant allows (`ClientAtRest` needs that a client may be configured without
fulfillers, `PartsAssumption`), and a step of `PartsNext` is a step or a stutter of every part (`PartsStep`).

## What is only model-checked

`FlightsEnd`, `OpenOrdersSettle`, `StartupConverges` and `ClaimableFinalized` are liveness
properties under fairness, which the proof system does not reach.

`LedgerExact` and `BooksMatchHub` are safety properties that hold in a quiet environment only: each fault they are checked
without breaks them, and the code always has some of these, its loader runs every minute. What holds in every environment about the ledger is
`ReservationsMove`, which is proved. `NeverOverdrawn` is proved without refreshes. `SettledWhenAsked`, `NothingLeftReserved` and, in `starved` and
`poisoned`, `OpenOrdersSettle` are violated by the code.

## What is not modelled

* `isRollappSupported` is taken to be true, as it is for every configured rollapp outside
  sequencer mode (in that mode the node client has none and no order is admitted); `LPLoader` has the check for grants.
* `selectBestLP`'s comparison of two providers is a rank (`Rank`), and the operator's share is not in `OrderFlow`.
* The logger, parsing of coins, JSON and HTTP, the order of lists, the indexer query (not
  reachable: `newOrderPoller` always installs the RPC query).
* Data races on fields that are written without a lock (fee and price in `Update`,
  `checking` in `NotValidYet`) are modelled as atomic writes.
* Of the generated types: getters, `ValidateBasic`, registration, gRPC clients and servers, and messages without fields; none
  keeps state. Of the command line: `init`, which writes defaults, and `version`.
* Polling switched off, and configurations the code should refuse but does not (negative numbers).
* Composition of the parts with the pipeline: `OrderFlow` keeps its own node client (the cache, and one step per question;
  its replies and two levels are in `NodeClient`), loader (`ReloadLPs`) and start (`Restart`). The finalizer touches the pipeline only through `noLPOrders`.
