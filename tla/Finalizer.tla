----------------------------- MODULE Finalizer -----------------------------
(***************************************************************************)
(* orderFinalizer (src/eibc/order_finalizer.go) and the query it uses      *)
(* (getClaimableDemandOrdersFromRPC, src/eibc/order_poller.go): in every   *)
(* round one page of fulfilled orders is asked for, those of this operator *)
(* that are final are put in one transaction, and the next round starts    *)
(* over.  The hub and the finalizers of others are the environment.        *)
(***************************************************************************)
EXTENDS Naturals, FiniteSets

CONSTANTS
    Packet,      \* demand orders of one rollapp and type, in the hub's order
    Ours,        \* those fulfilled by this operator
    Unreadable,  \* those whose packet key yields no proof height
    PageLimit    \* claimableOrdersBatchSizeLimit

ASSUME FinalizerAssumption ==
    /\ Packet \subseteq Nat /\ IsFiniteSet(Packet)
    /\ Ours \subseteq Packet /\ Unreadable \subseteq Packet
    /\ PageLimit \in Nat \ {0}

VARIABLES
    packet,     \* on the hub: open, fulfilled, final or finalized
    loop,       \* down, starting (the first round), ticking, or off
    hidden,     \* the poller's noLPOrders
    batch,      \* the orders of the round under way
    sent,       \* what became of their transaction
    abandoned   \* a transaction the finalizer has stopped waiting for

finVars == <<packet, loop, hidden, batch, sent, abandoned>>

FinTypeOK ==
    /\ packet \in [Packet -> {"open", "fulfilled", "final", "finalized"}]
    /\ loop \in {"down", "starting", "ticking", "off"}
    /\ hidden \subseteq Packet
    /\ batch \subseteq Packet
    /\ sent \in {"none", "sent", "ok", "failed"}
    /\ abandoned \subseteq Packet

FinInit ==
    /\ packet = [p \in Packet |-> "open"]
    /\ loop = "starting"
    /\ hidden = {}
    /\ batch = {}
    /\ sent = "none"
    /\ abandoned = {}

Active == loop \in {"starting", "ticking"}

\* An error ends the first round and with it the finalizer; later ones are logged.
RoundFails == loop' = IF loop = "starting" THEN "off" ELSE loop

RoundEnds == loop' = "ticking"

----------------------------------------------------------------------------
Pending == {p \in Packet : packet[p] \in {"fulfilled", "final"}}

\* The first PageLimit fulfilled orders, whoever has fulfilled them.
Page == {p \in Pending : Cardinality({q \in Pending : q < p}) < PageLimit}

\* Bug variant: an order without a readable height is not taken for final.
Selected_ReadableOnly(final) == ((Page \cap Ours) \cap (final \ Unreadable)) \ hidden

\* The orders to finalize when the packets in final are known to be final;
\* a proof height that cannot be read is not compared.
Selected(final) == ((Page \cap Ours) \cap (final \cup Unreadable)) \ hidden

Final == {p \in Packet : packet[p] = "final"}

\* Without an answer on the latest height nothing readable counts as final.
Query ==
    /\ Active /\ batch = {}
    /\ \E final \in {Final, {}} :
          /\ batch' = Selected(final)
          /\ IF Selected(final) = {} THEN RoundEnds ELSE UNCHANGED loop
    /\ UNCHANGED <<packet, hidden, sent, abandoned>>

QueryFails ==
    /\ Active /\ batch = {}
    /\ RoundFails
    /\ UNCHANGED <<packet, hidden, batch, sent, abandoned>>

Broadcast ==
    /\ batch # {} /\ sent = "none"
    /\ sent' = "sent"
    /\ UNCHANGED <<packet, loop, hidden, batch, abandoned>>

BroadcastFails ==
    /\ batch # {} /\ sent = "none"
    /\ RoundFails
    /\ batch' = {}
    /\ UNCHANGED <<packet, hidden, sent, abandoned>>

Finalized ==
    /\ sent = "ok"
    /\ RoundEnds
    /\ batch' = {} /\ sent' = "none"
    /\ UNCHANGED <<packet, hidden, abandoned>>

\* The transaction has failed, or waitForTx has given up on it.
FinalizeFails ==
    /\ sent \in {"failed", "sent"}
    /\ RoundFails
    /\ batch' = {} /\ sent' = "none"
    /\ abandoned' = IF sent = "sent" THEN batch ELSE abandoned
    /\ UNCHANGED <<packet, hidden>>

FinDies ==
    /\ loop # "down"
    /\ loop' = "down"
    /\ hidden' = {}
    /\ batch' = {} /\ sent' = "none"
    /\ abandoned' = IF sent = "sent" THEN batch ELSE abandoned
    /\ UNCHANGED packet

FinRestarts ==
    /\ loop = "down"
    /\ loop' = "starting"
    /\ UNCHANGED <<packet, hidden, batch, sent, abandoned>>

\* convertOrders finds no provider for an open order; loadLPs forgets it did.
PollerNotes(p) ==
    /\ loop # "down" /\ packet[p] = "open" /\ p \notin hidden
    /\ hidden' = hidden \cup {p}
    /\ UNCHANGED <<packet, loop, batch, sent, abandoned>>

PollerReset ==
    /\ loop # "down" /\ hidden # {}
    /\ hidden' = {}
    /\ UNCHANGED <<packet, loop, batch, sent, abandoned>>

----------------------------------------------------------------------------
\* External: the hub.  An order is fulfilled, then its height is finalized.
Advance(p, from, to) ==
    /\ packet[p] = from
    /\ packet' = [packet EXCEPT ![p] = to]
    /\ UNCHANGED <<loop, hidden, batch, sent, abandoned>>

\* The packets of a transaction are finalized all together or not at all.
Finalizable(ps) == \A p \in ps : packet[p] = "final"

Finalize(ps) ==
    packet' = [p \in Packet |-> IF p \in ps THEN "finalized" ELSE packet[p]]

HubExecutes ==
    /\ sent = "sent" /\ Finalizable(batch)
    /\ Finalize(batch)
    /\ sent' = "ok"
    /\ UNCHANGED <<loop, hidden, batch, abandoned>>

HubRejects ==
    /\ sent = "sent" /\ ~Finalizable(batch)
    /\ sent' = "failed"
    /\ UNCHANGED <<packet, loop, hidden, batch, abandoned>>

HubSettles ==
    /\ abandoned # {}
    /\ abandoned' = {}
    /\ IF Finalizable(abandoned) THEN Finalize(abandoned) ELSE UNCHANGED packet
    /\ UNCHANGED <<loop, hidden, batch, sent>>

FinNext ==
    \/ Query \/ QueryFails \/ Broadcast \/ BroadcastFails \/ Finalized \/ FinalizeFails
    \/ FinDies \/ FinRestarts \/ PollerReset
    \/ HubExecutes \/ HubRejects \/ HubSettles
    \/ \E p \in Packet :
          \/ PollerNotes(p)
          \/ Advance(p, "open", "fulfilled") \/ Advance(p, "fulfilled", "final")
          \/ Advance(p, "final", "finalized")

(***************************************************************************)
(* Fairness of the loop: the ticker ticks, and a transaction's result is   *)
(* waited for.  Faults strike for ever but not every time: a query and a   *)
(* broadcast that can succeed again and again do so in the end.            *)
(***************************************************************************)
LoopFairness ==
    /\ SF_finVars(Query /\ batch' = Selected(Final))
    /\ SF_finVars(Broadcast)
    /\ WF_finVars(Finalized)
    /\ WF_finVars(sent = "failed" /\ FinalizeFails)

(***************************************************************************)
(* Fairness of what surrounds it: the process is restarted, the hub        *)
(* executes or rejects what it is sent and finalizes every height in the   *)
(* end, and the other operators finalize their own packets.                *)
(***************************************************************************)
OutsideFairness ==
    /\ WF_finVars(FinRestarts)
    /\ SF_finVars(HubExecutes)
    /\ WF_finVars(HubRejects)
    /\ \A p \in Packet : WF_finVars(Advance(p, "fulfilled", "final"))
    /\ \A p \in Packet \ Ours : WF_finVars(Advance(p, "final", "finalized"))

FinFairness == LoopFairness /\ OutsideFairness

----------------------------------------------------------------------------
(***************************************************************************)
(* Every final order of this operator is finalized, unless the poller has  *)
(* hidden it as without provider or the finalizer is off: also when the    *)
(* orders of others fill the page, when a packet that is not final, or     *)
(* that somebody else finalizes meanwhile, fails the transaction of all,   *)
(* and when transactions outlive their round (order_finalizer.go:54-100,   *)
(* order_poller.go:278-309 and 363-415).                                   *)
(***************************************************************************)
ClaimableFinalized ==
    \A p \in Ours :
        packet[p] = "final" /\ p \notin hidden
            ~> packet[p] = "finalized" \/ loop = "off"
=============================================================================
