------------------------------- MODULE MCParts -------------------------------
(***************************************************************************)
(* Instances of the parts that OrderFlow does not describe.  They share    *)
(* nothing, so a behaviour is one of a single part and the others rest:    *)
(* one run checks them all.                                                *)
(***************************************************************************)
EXTENDS NodeClient, OrderClient, Finalizer, LPLoader, HubMessages, ProofHeight, TLC

VARIABLE part

partVars == <<nodeVars, clientVars, finVars, loaderVars, call, asked, part>>

----------------------------------------------------------------------------
\* Grants: one order's criteria, and what a provider may do to them.
Amounts(x, y) == [d \in Denom |-> IF d = "adym" THEN x ELSE y]

Plain == [denoms |-> {}, maxPrice |-> NoCoins, minFee |-> 0, share |-> 20,
          settled |-> FALSE, spendLimit |-> Amounts(2, 2)]

MCGrant == {1 :> Plain, 2 :> Plain,
            1 :> [Plain EXCEPT !.share = 10],
            1 :> [Plain EXCEPT !.minFee = 50],
            1 :> [Plain EXCEPT !.maxPrice = Amounts(1, 0)],
            1 :> [Plain EXCEPT !.spendLimit = Amounts(1, 2)],
            1 :> [Plain EXCEPT !.denoms = {"adym"}, !.spendLimit = Amounts(2, 0)]}

MCOrder == {[rollapp |-> 1, denom |-> "adym", price |-> Amounts(2, 0), fee |-> 1, amount |-> 3],
            [rollapp |-> 1, denom |-> "usdc", price |-> Amounts(0, 1), fee |-> 1, amount |-> 2]}

\* Contents: the length's varint takes one or two bytes, a byte is '/'.
Letters(n) == [i \in 1..n |-> 65]

MCSample ==
    [Text |-> <<<<47>>, Letters(127), Letters(128)>>,
     Texts |-> <<<<<<47>>, <<>>>>, <<Letters(128)>>>>,
     Pointer |-> <<<<<<>>>>, <<<<8, 1>>>>>>,
     Value |-> <<<<49>>, Letters(128)>>,
     Nested |-> <<<<>>, <<10, 1, 49>>>>,
     Number |-> <<1, 128, 40000>>,
     Flag |-> <<TRUE>>]

\* Number 15: eight bytes, four bytes, and a group with fields and a group in it.
MCForeign ==
    {<<121, 255, 255, 255, 255, 255, 255, 255, 255>>,
     <<125, 255, 255, 255, 255>>,
     <<123, 10, 1, 124, 19, 120, 0, 20, 124>>}

----------------------------------------------------------------------------
\* The client at rest runs without fulfillers.
ASSUME PartsAssumption == 0 \in Scales

\* A part at rest takes no step its fairness asks for.
NodeRests == NodeInit /\ expected = {P2P}

ClientRests ==
    /\ cfgScale = 0 /\ scale = 0
    /\ pc = "running" /\ attempts = 0
    /\ accs = <<>> /\ checked = 0 /\ toPrime = {} /\ toGrant = {}
    /\ keys = {} /\ onHub = {} /\ feeGranted = {} /\ members = {}
    /\ tx = NoTx /\ late = {} /\ faults = 0

FinRests ==
    /\ packet = [p \in Packet |-> "open"]
    /\ loop = "off"
    /\ hidden = {} /\ batch = {} /\ sent = "none" /\ abandoned = {}

PartsInit ==
    /\ part \in {"node client", "order client", "finalizer", "LP loader", "messages", "heights"}
    /\ IF part = "node client" THEN NodeInit ELSE NodeRests
    /\ IF part = "order client" THEN ClientInit ELSE ClientRests
    /\ IF part = "finalizer" THEN FinInit ELSE FinRests
    /\ LoaderInit
    /\ IF part = "messages" THEN MessagesInit ELSE call = NoCall
    /\ IF part = "heights" THEN HeightInit ELSE asked = NoHeight

PartsNext ==
    /\ part' = part
    /\ \/ /\ part = "node client" /\ NodeNext
          /\ UNCHANGED <<clientVars, finVars, loaderVars, call, asked>>
       \/ /\ part = "order client" /\ ClientNext
          /\ UNCHANGED <<nodeVars, finVars, loaderVars, call, asked>>
       \/ /\ part = "finalizer" /\ FinNext
          /\ UNCHANGED <<nodeVars, clientVars, loaderVars, call, asked>>
       \/ /\ part = "LP loader" /\ LoaderNext
          /\ UNCHANGED <<nodeVars, clientVars, finVars, call, asked>>

PartsSpec == PartsInit /\ [][PartsNext]_partVars /\ ClientFairness /\ FinFairness

----------------------------------------------------------------------------
(***************************************************************************)
(* Every part keeps its types; in particular the entry the client has of a *)
(* provider only holds rollapps it supports and shares it asks for         *)
(* (lp.go:166-171), and what a start has looked up are its accounts.       *)
(***************************************************************************)
PartsTypeOK == NodeTypeOK /\ ClientTypeOK /\ FinTypeOK /\ LoaderTypeOK
=============================================================================
