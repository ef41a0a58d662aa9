----------------------------- MODULE OrderLife -----------------------------
(***************************************************************************)
(* What the client promises about an order id, whatever its goroutines,    *)
(* channels and allocations do: an id is pooled, claimed by one checker,   *)
(* approved by the full nodes, sent to the hub and booked, in this order   *)
(* and by one flight at a time.  OrderFlow_life shows that OrderFlow       *)
(* implements it.                                                          *)
(***************************************************************************)
CONSTANTS
    Id,         \* demand order ids
    Unreadable  \* ids whose height the poller cannot read

VARIABLES
    pooled,  \* ids with an entry in the order pool
    stage,   \* how far the flight of each id has come
    proven,  \* ids whose block the full nodes have validated
    filled   \* ids the hub has fulfilled

lifeVars == <<pooled, stage, proven, filled>>

Stage == {"idle", "checking", "approved", "sent", "succeeded", "failed"}

LifeInit ==
    /\ pooled = {}
    /\ stage = [id \in Id |-> "idle"]
    /\ proven = {}
    /\ filled = {}

----------------------------------------------------------------------------
(* The edges of one id, whose flight goes from stage s to stage t.         *)
(* Several ids may take one in the same step.                              *)

Stays(id) == id \in pooled' <=> id \in pooled

Rest(id, s, t)    == s = t /\ Stays(id)

Track(id, s, t)   == s = "idle" /\ t = "idle" /\ id \in pooled'

Claim(id, s, t)   == s = "idle" /\ t = "checking" /\ id \in pooled /\ id \in pooled'

\* Without its height an order may be approved although its block is not proven.
Approve(id, s, t) ==
    s = "checking" /\ t = "approved" /\ id \in proven \cup Unreadable /\ Stays(id)

Send(id, s, t)    == s = "approved" /\ t = "sent" /\ Stays(id)

Succeed(id, s, t) == s = "sent" /\ t = "succeeded" /\ id \in filled /\ Stays(id)

Fail(id, s, t)    == s = "sent" /\ t = "failed" /\ Stays(id)

\* A node or the hub could not be asked, the block is not valid yet, or
\* another chunk of the batch has failed.
GiveBack(id, s, t) == s \in {"checking", "approved", "sent"} /\ t = "idle" /\ Stays(id)

Evict(id, s, t)   == s = "checking" /\ t = "idle" /\ id \notin pooled'

Book(id, s, t)    == s \in {"succeeded", "failed"} /\ t = "idle" /\ id \notin pooled'

Edge(id, s, t) ==
    \/ Rest(id, s, t) \/ Track(id, s, t) \/ Claim(id, s, t) \/ Approve(id, s, t)
    \/ Send(id, s, t) \/ Succeed(id, s, t) \/ Fail(id, s, t)
    \/ GiveBack(id, s, t) \/ Evict(id, s, t) \/ Book(id, s, t)

Live == \A id \in Id : Edge(id, stage[id], stage'[id])

\* The process ends and forgets every order.
Forget == pooled' = {} /\ stage' = [id \in Id |-> "idle"]

\* The hub only ever fulfills what has been approved; nothing is undone.
Hub ==
    /\ proven \subseteq proven' /\ proven' \subseteq Id
    /\ filled \subseteq filled' /\ filled' \subseteq filled \cup proven \cup Unreadable

LifeNext ==
    /\ pooled' \subseteq Id /\ stage' \in [Id -> Stage]
    /\ Hub
    /\ Live \/ Forget

LifeSpec == LifeInit /\ [][LifeNext]_lifeVars
=============================================================================
