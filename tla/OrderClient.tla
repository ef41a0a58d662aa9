----------------------------- MODULE OrderClient -----------------------------
(***************************************************************************)
(* orderClient (src/eibc/order_client.go) and its accounts (account.go):   *)
(* how a process comes up.  It connects to the hub, completes the keyring  *)
(* to as many fulfiller accounts as are configured, lets the operator fund *)
(* them, grant them fees and make them members of the group, and starts    *)
(* the loops.  Any step may fail and ends the process; the next start      *)
(* finds what the last one has left on disk and on the hub, and what a     *)
(* transaction nobody waits for any more does to the hub meanwhile.        *)
(***************************************************************************)
EXTENDS Naturals, Sequences, FiniteSets

CONSTANTS
    Bot,        \* names of fulfiller accounts, in the order of the keyring
    Scales,     \* values of fulfillers.scale
    Attempts,   \* connectAttempts
    MaxFaults   \* bound on faults and on runs of the scale command

ASSUME OrderClientAssumption ==
    /\ Bot \subseteq Nat /\ IsFiniteSet(Bot)
    /\ Scales \subseteq Nat
    /\ \A s \in Scales : s + MaxFaults <= Cardinality(Bot)
    /\ Attempts \in Nat \ {0}
    /\ MaxFaults \in Nat

VARIABLES
    cfgScale,    \* fulfillers.scale in the configuration file
    scale,       \* what the process has read of it
    pc,          \* what the process is about to do
    attempts,    \* failed attempts to connect
    accs,        \* the accounts it knows of
    checked,     \* how many of them have been looked up on the hub
    toPrime, toGrant,            \* positions of those without funds, without grant
    keys,                        \* names in the keyring
    onHub, feeGranted, members, \* what the hub knows of them
    tx,          \* the transaction waited for, or NoTx
    late,        \* transactions nobody waits for any more
    faults

disk == <<cfgScale, keys>>
hub == <<onHub, feeGranted, members>>
plan == <<scale, accs, checked, toPrime, toGrant>>
clientVars == <<disk, hub, plan, pc, attempts, tx, late, faults>>

\* A transaction pays, grants or enrols the accounts in bots; with a
\* repeated account the last two cannot succeed.
NoTx == [does |-> "nothing", bots |-> {}, repeated |-> FALSE, outcome |-> "none"]

ClientTypeOK ==
    /\ {cfgScale, scale} \subseteq Scales
    /\ pc \in {"down", "connect", "create", "check", "prime", "grant", "group",
               "start", "running"}
    /\ attempts \in 0..Attempts
    /\ accs \in Seq(Bot) /\ checked \in 0..Len(accs)
    /\ {toPrime, toGrant} \subseteq SUBSET (1..checked)
    /\ {keys, onHub, feeGranted, members} \subseteq SUBSET Bot
    /\ {t.does : t \in late} \subseteq {"prime", "grant", "group"}
    /\ tx = NoTx \/ tx.bots \subseteq keys
    /\ faults \in 0..MaxFaults

ClientInit ==
    /\ cfgScale \in Scales /\ scale = cfgScale
    /\ pc = "down" /\ attempts = 0
    /\ accs = <<>> /\ checked = 0 /\ toPrime = {} /\ toGrant = {}
    /\ keys = {} /\ onHub = {} /\ feeGranted = {} /\ members = {}
    /\ tx = NoTx /\ late = {}
    /\ faults = 0

----------------------------------------------------------------------------
Goto(l) == pc' = l

\* The process ends; a transaction it waits for may still be executed.
Exit ==
    /\ Goto("down")
    /\ scale' = cfgScale /\ accs' = <<>> /\ checked' = 0 /\ toPrime' = {} /\ toGrant' = {}
    /\ attempts' = 0
    /\ tx' = NoTx
    /\ late' = IF tx.outcome = "sent" THEN late \cup {tx} ELSE late
    /\ UNCHANGED <<disk, hub>>

Fault ==
    /\ faults < MaxFaults
    /\ faults' = faults + 1

\* start reads the configuration.
Launch ==
    /\ pc = "down"
    /\ Goto("connect")
    /\ scale' = cfgScale
    /\ UNCHANGED <<disk, hub, accs, checked, toPrime, toGrant, attempts, tx, late, faults>>

\* Bug variant: the accounts of earlier starts are not looked for.
Listing_None(ks) == <<>>

\* The keyring in the order of its names.
Listing(ks) ==
    [i \in 1..Cardinality(ks) |->
        CHOOSE k \in ks : Cardinality({j \in ks : j <= k}) = i]

\* The hub answers; the accounts are listed.
Connect ==
    /\ pc = "connect"
    /\ Goto("create")
    /\ accs' = Listing(keys)
    /\ UNCHANGED <<disk, hub, scale, checked, toPrime, toGrant, attempts, tx, late, faults>>

\* retry: the last of the attempts ends the process.
ConnectFails ==
    /\ pc = "connect"
    /\ Fault
    /\ IF attempts + 1 < Attempts
       THEN /\ attempts' = attempts + 1
            /\ UNCHANGED <<disk, hub, plan, pc, tx, late>>
       ELSE Exit

Missing == Len(accs) < scale

\* A random name, which may be one that is taken: then it is that account again.
CreateAccount(b) ==
    /\ pc = "create" /\ Missing
    /\ accs' = Append(accs, b)
    /\ keys' = keys \cup {b}
    /\ IF b \in keys THEN Fault ELSE UNCHANGED faults
    /\ UNCHANGED <<cfgScale, hub, scale, pc, checked, toPrime, toGrant, attempts, tx, late>>

Created ==
    /\ pc = "create" /\ ~Missing
    /\ Goto("check")
    /\ UNCHANGED <<disk, hub, plan, attempts, tx, late, faults>>

\* Bug variant: only accounts without funds are looked up for a grant.
hasFeeGranted_FundedOnly(b) == b \in onHub

\* Bug variant: the hub is not asked for grants that exist.
hasFeeGranted_Unasked(b) == FALSE

hasFeeGranted(b) == b \in feeGranted

accountExists(b) == b \in onHub

\* One of the first scale accounts is looked up.
CheckAccount ==
    /\ pc = "check" /\ checked < scale
    /\ LET b == accs[checked + 1]
       IN /\ toPrime' = IF accountExists(b) THEN toPrime ELSE toPrime \cup {checked + 1}
          /\ toGrant' = IF hasFeeGranted(b) THEN toGrant ELSE toGrant \cup {checked + 1}
    /\ checked' = checked + 1
    /\ UNCHANGED <<disk, hub, scale, accs, pc, attempts, tx, late, faults>>

AllChecked ==
    /\ pc = "check" /\ checked = scale
    /\ Goto("prime")
    /\ UNCHANGED <<disk, hub, plan, attempts, tx, late, faults>>

\* The positions of the active accounts that are not yet in the group.
toEnrol == {i \in 1..checked : accs[i] \notin members}

\* What the step at pc is for, and where it leads.
Positions == [prime |-> toPrime, grant |-> toGrant, group |-> toEnrol]
Following == [prime |-> "grant", grant |-> "group", group |-> "start"]

AtTx == pc \in DOMAIN Following /\ tx = NoTx

Skip ==
    /\ AtTx /\ Positions[pc] = {}
    /\ Goto(Following[pc])
    /\ UNCHANGED <<disk, hub, plan, attempts, tx, late, faults>>

BroadcastTx ==
    /\ AtTx /\ Positions[pc] # {}
    /\ LET bots == {accs[i] : i \in Positions[pc]}
       IN tx' = [does |-> pc, bots |-> bots, outcome |-> "sent",
                 repeated |-> Cardinality(bots) < Cardinality(Positions[pc])]
    /\ UNCHANGED <<disk, hub, plan, pc, attempts, late, faults>>

TxDone ==
    /\ tx.outcome = "ok"
    /\ Goto(Following[pc])
    /\ tx' = NoTx
    /\ UNCHANGED <<disk, hub, plan, attempts, late, faults>>

TxFailed ==
    /\ tx.outcome = "failed"
    /\ Exit
    /\ UNCHANGED faults

\* The loops are started; without fulfillers the command ends instead.
Start ==
    /\ pc = "start"
    /\ IF scale = 0 THEN Exit
       ELSE Goto("running") /\ UNCHANGED <<disk, hub, plan, attempts, tx, late>>
    /\ UNCHANGED faults

\* A query, a broadcast, a subscription or the first poll fails, waitForTx
\* gives up, or the process is killed.
Dies ==
    /\ pc # "down"
    /\ Fault
    /\ Exit

\* The scale command; a running process reads the file when it is restarted.
Scale(n) ==
    /\ n # cfgScale
    /\ Fault
    /\ cfgScale' = n
    /\ UNCHANGED <<keys, hub, plan, pc, attempts, tx, late>>

----------------------------------------------------------------------------
\* External: the hub.  A fee grant that exists is not given again.
Possible(t) ==
    CASE t.does = "grant" -> ~t.repeated /\ t.bots \cap feeGranted = {}
      [] t.does = "group" -> ~t.repeated
      [] OTHER -> TRUE

Effect(t) ==
    /\ onHub' = IF t.does = "group" THEN onHub ELSE onHub \cup t.bots
    /\ feeGranted' = IF t.does = "grant" THEN feeGranted \cup t.bots ELSE feeGranted
    /\ members' = IF t.does = "group" THEN members \cup t.bots ELSE members

Executes ==
    /\ tx.outcome = "sent"
    /\ IF Possible(tx) THEN Effect(tx) ELSE UNCHANGED hub
    /\ tx' = [tx EXCEPT !.outcome = IF Possible(tx) THEN "ok" ELSE "failed"]
    /\ UNCHANGED <<disk, plan, pc, attempts, late, faults>>

\* A late transaction is executed, or never will be.
Settles(t) ==
    /\ t \in late
    /\ \/ Possible(t) /\ Effect(t)
       \/ UNCHANGED hub
    /\ late' = late \ {t}
    /\ UNCHANGED <<disk, plan, pc, attempts, tx, faults>>

Progress ==
    \/ Launch \/ Connect \/ Created \/ CheckAccount \/ AllChecked
    \/ Skip \/ BroadcastTx \/ TxDone \/ TxFailed \/ Start \/ Executes
    \/ \E b \in Bot \ keys : CreateAccount(b)

ClientNext ==
    \/ Progress
    \/ ConnectFails \/ Dies
    \/ \E b \in keys : CreateAccount(b)
    \/ \E n \in Scales : Scale(n)
    \/ \E t \in late : Settles(t)

ClientSpec == ClientInit /\ [][ClientNext]_clientVars

\* The process is restarted whenever it ends, and the hub answers in the end.
ClientFairness == WF_clientVars(Progress)

----------------------------------------------------------------------------
(***************************************************************************)
(* When the loops run, every fulfiller has its key, an account on the hub, *)
(* a fee grant and its place in the group, whatever starts have failed     *)
(* before, half way through creating, paying, granting or enrolling        *)
(* (order_client.go:125-195, account.go).                                  *)
(***************************************************************************)
RunningReady ==
    pc = "running" =>
        /\ checked = scale
        /\ \A i \in 1..scale : accs[i] \in keys \cap onHub \cap feeGranted \cap members

(***************************************************************************)
(* Failed starts do not fill the keyring: there are never more accounts    *)
(* than the largest configuration called for (account.go:168-176).         *)
(***************************************************************************)
NoNeedlessAccounts == \E s \in Scales : Cardinality(keys) <= s

(***************************************************************************)
(* Once nothing fails from outside any more, the client comes up: no start *)
(* leaves something behind that makes every later one fail, neither        *)
(* accounts without a grant nor a grant made by a late transaction         *)
(* (order_client.go:31-212, account.go:47-99 and 157-244).                 *)
(***************************************************************************)
StartupConverges == <>[](pc = "running" \/ cfgScale = 0)
=============================================================================
