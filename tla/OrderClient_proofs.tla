-------------------------- MODULE OrderClient_proofs --------------------------
(***************************************************************************)
(* RunningReady and NoNeedlessAccounts are invariants of OrderClient, for  *)
(* any number of accounts, of failures and of scale commands.              *)
(*                                                                         *)
(* Neither is inductive.  That a running client is ready needs to know, at *)
(* every step of the startup, which accounts may still lack something, and *)
(* that those a transaction is about are these.  That no account is        *)
(* created in vain needs that the accounts listed are the whole keyring,   *)
(* a fact about the ranks in a finite set.                                 *)
(***************************************************************************)
EXTENDS OrderClient, FiniteSetTheorems, TLAPS

Phase == {"prime", "grant", "group"}

Tx == [does : Phase, bots : SUBSET Bot, repeated : BOOLEAN,
       outcome : {"sent", "ok", "failed"}]

TxOK ==
    /\ tx = NoTx \/ (tx \in Tx /\ tx.does = pc /\ tx.bots \subseteq keys)
    /\ late \subseteq Tx
    /\ \A t \in late : t.bots \subseteq keys

\* The accounts are in the keyring and looked up in order.
Listed ==
    /\ \A i \in 1..Len(accs) : accs[i] \in keys
    /\ pc \in {"down", "connect", "create"} => checked = 0
    /\ pc \in {"check", "start", "running"} \cup Phase => checked <= scale /\ scale <= Len(accs)
    /\ pc \in {"start", "running"} \cup Phase => checked = scale

\* What an account lacks is known until it has been given.
Primed ==
    \A i \in 1..checked :
        accs[i] \in onHub \/ (i \in toPrime /\ pc \in {"check", "prime"})

Granted ==
    \A i \in 1..checked :
        accs[i] \in feeGranted \/ (i \in toGrant /\ pc \in {"check", "prime", "grant"})

Enrolled ==
    pc \in {"start", "running"} => \A i \in 1..checked : accs[i] \in members

\* A transaction is about the accounts that lack what it gives.
Gives ==
    /\ tx.does = "prime" => \A i \in toPrime : accs[i] \in tx.bots
    /\ tx.does = "grant" => \A i \in toGrant : accs[i] \in tx.bots
    /\ tx.does = "group" => \A i \in 1..checked : accs[i] \in members \cup tx.bots
    /\ tx.outcome = "ok" =>
          /\ tx.does = "prime" => tx.bots \subseteq onHub
          /\ tx.does = "grant" => tx.bots \subseteq feeGranted
          /\ tx.does = "group" => tx.bots \subseteq members

ReadyInv == ClientTypeOK /\ TxOK /\ Listed /\ Primed /\ Granted /\ Enrolled /\ Gives

\* While accounts are created, all there are have been listed.
KeyringInv ==
    /\ pc = "create" => Cardinality(keys) <= Len(accs)
    /\ NoNeedlessAccounts

----------------------------------------------------------------------------
(* The listing of a keyring.                                               *)

\* The rank of a name among the names of a set.
Rank(ks) == [k \in ks |-> Cardinality({j \in ks : j <= k})]

\* A set of names is finite, and a name's rank is one of its numbers.
LEMMA RankType ==
    ASSUME NEW ks \in SUBSET Bot
    PROVE  /\ IsFiniteSet(ks) /\ Cardinality(ks) \in Nat
           /\ Rank(ks) \in [ks -> 1..Cardinality(ks)]
<1>1. IsFiniteSet(ks)
      BY FS_Subset, OrderClientAssumption
<1>2. Cardinality(ks) \in Nat
      BY <1>1, FS_CardinalityType
<1>3. ASSUME NEW k \in ks
      PROVE  Cardinality({j \in ks : j <= k}) \in 1..Cardinality(ks)
  <2> DEFINE T == {j \in ks : j <= k}
  <2>1. T \in SUBSET ks
        OBVIOUS
  <2>2. IsFiniteSet(T) /\ Cardinality(T) <= Cardinality(ks)
        BY <1>1, <2>1, FS_Subset
  <2>3. k \in T
        BY OrderClientAssumption
  <2>4. Cardinality(T) \in Nat /\ Cardinality(T) # 0
        BY <2>2, <2>3, FS_CardinalityType, FS_EmptySet
  <2>   QED BY <1>2, <2>2, <2>4
<1>   QED BY <1>1, <1>2, <1>3 DEF Rank

\* Different names have different ranks.
LEMMA RankInjective ==
    ASSUME NEW ks \in SUBSET Bot, NEW j \in ks, NEW k \in ks, j < k
    PROVE  Rank(ks)[j] # Rank(ks)[k]
<1> DEFINE S == {x \in ks : x <= j}
           T == {x \in ks : x <= k}
<1>1. S \subseteq T /\ k \in T /\ k \notin S
  <2>1. ks \subseteq Nat
        BY OrderClientAssumption
  <2>2. \A x \in ks : x <= j => x <= k
        BY <2>1
  <2>3. k <= k /\ ~(k <= j)
        BY <2>1
  <2>   QED BY <2>2, <2>3
<1>2. IsFiniteSet(T)
      BY RankType, FS_Subset
<1>3. Cardinality(S) # Cardinality(T)
      BY <1>1, <1>2, FS_Subset
<1>   QED BY <1>3 DEF Rank

\* Listing lists all names of the keyring, each at its rank.
LEMMA ListingType ==
    ASSUME NEW ks \in SUBSET Bot
    PROVE  /\ Listing(ks) \in Seq(Bot)
           /\ Len(Listing(ks)) = Cardinality(ks)
           /\ \A i \in 1..Len(Listing(ks)) : Listing(ks)[i] \in ks
<1> DEFINE n == Cardinality(ks)
<1>1. n \in Nat /\ IsFiniteSet(ks)
      BY RankType
<1>2. Rank(ks) \in Injection(ks, 1..n)
  <2>1. Rank(ks) \in [ks -> 1..n]
        BY RankType
  <2>2. \A j, k \in ks : Rank(ks)[j] = Rank(ks)[k] => j = k
        BY RankInjective, OrderClientAssumption
  <2>   QED BY <2>1, <2>2 DEF Injection, IsInjective
<1>3. IsFiniteSet(1..n) /\ Cardinality(1..n) = n
      BY <1>1, FS_Interval
<1>4. Rank(ks) \in Surjection(ks, 1..n)
      BY <1>2, <1>3, FS_Injection
<1>5. \A i \in 1..n : \E k \in ks : Cardinality({j \in ks : j <= k}) = i
      BY <1>4 DEF Surjection, Rank
<1>6. \A i \in 1..n : Listing(ks)[i] \in ks
      BY <1>5 DEF Listing
<1>7. Listing(ks) \in [1..n -> Bot]
      BY <1>6 DEF Listing
<1>   QED BY <1>1, <1>6, <1>7

\* An account more or the same.
LEMMA OneMore ==
    ASSUME NEW ks \in SUBSET Bot, NEW b \in Bot
    PROVE  /\ Cardinality(ks \cup {b}) \in Nat
           /\ Cardinality(ks \cup {b}) <= Cardinality(ks) + 1
<1>1. IsFiniteSet(ks) /\ Cardinality(ks) \in Nat
      BY RankType
<1>2. Cardinality(ks \cup {b}) =
          IF b \in ks THEN Cardinality(ks) ELSE Cardinality(ks) + 1
      BY <1>1, FS_AddElement
<1>   QED BY <1>1, <1>2

----------------------------------------------------------------------------
(* The invariant.                                                          *)

\* What the three transactions are about, and where they lead.
LEMMA PhaseTable ==
    /\ DOMAIN Following = Phase
    /\ Positions["prime"] = toPrime /\ Following["prime"] = "grant"
    /\ Positions["grant"] = toGrant /\ Following["grant"] = "group"
    /\ Positions["group"] = toEnrol /\ Following["group"] = "start"
BY DEF Positions, Following, Phase

\* The numbers are numbers.
LEMMA Numbers ==
    ASSUME ClientTypeOK
    PROVE  /\ cfgScale \in Scales /\ cfgScale \in Nat
           /\ scale \in Scales /\ scale \in Nat
           /\ accs \in Seq(Bot) /\ Len(accs) \in Nat
           /\ checked \in Nat /\ checked <= Len(accs)
           /\ faults \in Nat /\ faults <= MaxFaults /\ MaxFaults \in Nat
<1>1. Scales \subseteq Nat /\ MaxFaults \in Nat
      BY OrderClientAssumption
<1>2. accs \in Seq(Bot) /\ checked \in 0..Len(accs) /\ faults \in 0..MaxFaults
      BY DEF ClientTypeOK
<1>3. cfgScale \in Scales /\ scale \in Scales
      BY DEF ClientTypeOK
<1>   QED BY <1>1, <1>2, <1>3

\* Failures are counted as far as the bound.
LEMMA FaultType ==
    ASSUME ClientTypeOK, Fault \/ faults' = faults
    PROVE  faults' \in 0..MaxFaults
<1>1. faults \in Nat /\ faults <= MaxFaults /\ MaxFaults \in Nat
      BY Numbers
<1>2. CASE Fault
      BY <1>1, <1>2 DEF Fault
<1>3. CASE faults' = faults
      BY <1>1, <1>3
<1>   QED BY <1>2, <1>3

\* A process that ends keeps nothing but the keyring and the hub's state.
LEMMA ExitKeeps ==
    ASSUME ReadyInv, KeyringInv, Exit, faults' \in 0..MaxFaults
    PROVE  ReadyInv' /\ KeyringInv'
<1> USE DEF Exit, Goto, disk, hub, ReadyInv
<1>1. ClientTypeOK'
  <2>1. accs' \in Seq(Bot) /\ checked' \in 0..Len(accs') /\ 0 \in 0..Attempts
        BY OrderClientAssumption
  <2>2. {t.does : t \in late'} \subseteq {"prime", "grant", "group"}
        BY DEF ClientTypeOK, TxOK, Tx, NoTx, Phase
  <2>   QED BY <2>1, <2>2 DEF ClientTypeOK
<1>2. TxOK'
      BY DEF TxOK, NoTx
<1>3. Listed' /\ Primed' /\ Granted' /\ Enrolled'
      BY DEF Listed, Primed, Granted, Enrolled, Phase
<1>4. Gives'
      BY DEF Gives, NoTx
<1>5. KeyringInv'
      BY DEF KeyringInv, NoNeedlessAccounts
<1>   QED BY <1>1, <1>2, <1>3, <1>4, <1>5

\* Nothing is known and nothing is asked for at first.
LEMMA ClientInitInv == ClientInit => ReadyInv /\ KeyringInv
<1> SUFFICES ASSUME ClientInit PROVE ReadyInv /\ KeyringInv
    OBVIOUS
<1> USE DEF ClientInit
<1>1. ClientTypeOK
      BY OrderClientAssumption DEF ClientTypeOK
<1>2. TxOK /\ Listed /\ Primed /\ Granted /\ Enrolled /\ Gives
      BY DEF TxOK, Listed, Primed, Granted, Enrolled, Gives, NoTx, Phase
<1>3. Cardinality(keys) = 0 /\ cfgScale \in Nat
      BY FS_EmptySet, OrderClientAssumption
<1>   QED BY <1>1, <1>2, <1>3 DEF ReadyInv, KeyringInv, NoNeedlessAccounts

\* The accounts listed on connecting are those of the keyring, all of them.
LEMMA ConnectKeeps ==
    ASSUME ReadyInv, KeyringInv, Launch \/ Connect
    PROVE  ReadyInv' /\ KeyringInv'
<1>1. CASE Launch
  <2> USE <1>1 DEF Launch, Goto, disk, hub, ReadyInv
  <2>1. ClientTypeOK'
        BY DEF ClientTypeOK
  <2>2. TxOK'
        BY DEF TxOK, Tx, Phase
  <2>3. Listed' /\ Primed' /\ Granted' /\ Enrolled'
        BY DEF Listed, Primed, Granted, Enrolled, Phase, ClientTypeOK
  <2>4. Gives' /\ KeyringInv'
        BY DEF Gives, KeyringInv, NoNeedlessAccounts, TxOK, Tx, Phase, NoTx
  <2>   QED BY <2>1, <2>2, <2>3, <2>4
<1>2. CASE Connect
  <2> USE <1>2 DEF Connect, Goto, disk, hub, ReadyInv
  <2>1. /\ keys \in SUBSET Bot /\ checked = 0
        /\ toPrime = {} /\ toGrant = {} /\ tx = NoTx
        BY DEF ClientTypeOK, Listed, TxOK, Tx, Phase
  <2>2. /\ accs' \in Seq(Bot) /\ Len(accs') = Cardinality(keys)
        /\ \A i \in 1..Len(accs') : accs'[i] \in keys
        /\ Cardinality(keys) \in Nat
        BY <2>1, ListingType, RankType
  <2>3. ClientTypeOK'
        BY <2>1, <2>2 DEF ClientTypeOK
  <2>4. TxOK' /\ Gives'
        BY <2>1 DEF TxOK, Gives, NoTx
  <2>5. Listed' /\ Primed' /\ Granted' /\ Enrolled'
        BY <2>1, <2>2 DEF Listed, Primed, Granted, Enrolled, Phase
  <2>6. KeyringInv'
        BY <2>2 DEF KeyringInv, NoNeedlessAccounts
  <2>   QED BY <2>3, <2>4, <2>5, <2>6
<1>   QED BY <1>1, <1>2

\* An account that is created is a new one, or one that is counted already.
LEMMA CreateKeeps ==
    ASSUME ReadyInv, KeyringInv, NEW b \in Bot, CreateAccount(b)
    PROVE  ReadyInv' /\ KeyringInv'
<1> USE DEF CreateAccount, Missing, hub, ReadyInv
<1>1. /\ accs \in Seq(Bot) /\ accs' = Append(accs, b) /\ accs' \in Seq(Bot)
      /\ Len(accs') = Len(accs) + 1
      /\ \A i \in 1..Len(accs) : accs'[i] = accs[i]
      /\ accs'[Len(accs) + 1] = b
      BY DEF ClientTypeOK
<1>2. /\ checked = 0 /\ toPrime = {} /\ toGrant = {} /\ tx = NoTx
      BY DEF ClientTypeOK, Listed, TxOK, Tx, Phase
<1>3. keys' = keys \cup {b} /\ keys \subseteq Bot /\ pc' = "create"
      BY DEF ClientTypeOK
<1>4. ClientTypeOK'
  <2>1. faults' \in 0..MaxFaults
        BY FaultType
  <2>2. scale' = scale /\ cfgScale' = cfgScale /\ attempts' = attempts /\ late' = late
        OBVIOUS
  <2>3. /\ accs' \in Seq(Bot) /\ checked' \in 0..Len(accs')
        /\ toPrime' = {} /\ toGrant' = {} /\ tx' = NoTx
        BY <1>1, <1>2, Numbers
  <2>4. {keys', onHub', feeGranted', members'} \subseteq SUBSET Bot
        BY <1>3 DEF ClientTypeOK
  <2>   QED BY <1>3, <2>1, <2>2, <2>3, <2>4 DEF ClientTypeOK
<1>5. TxOK' /\ Gives'
      BY <1>2, <1>3 DEF TxOK, Gives, NoTx
<1>6. Listed'
  <2>1. \A i \in 1..Len(accs') : accs'[i] \in keys'
        BY <1>1, <1>3 DEF Listed
  <2>   QED BY <1>2, <1>3, <2>1 DEF Listed, Phase
<1>7. Primed' /\ Granted' /\ Enrolled'
      BY <1>2, <1>3 DEF Primed, Granted, Enrolled
<1>8. KeyringInv'
  <2>1. IsFiniteSet(keys) /\ Cardinality(keys) \in Nat
        BY <1>3, RankType
  <2>2. Cardinality(keys') <= Cardinality(keys) + 1 /\ Cardinality(keys') \in Nat
        BY <1>3, OneMore
  <2>3. Cardinality(keys) <= Len(accs) /\ Len(accs) \in Nat
        BY <1>1 DEF KeyringInv
  <2>4. scale \in Scales /\ scale \in Nat /\ Len(accs) + 1 <= scale
        BY <1>1, Numbers
  <2>5. Cardinality(keys') <= Len(accs') /\ Cardinality(keys') <= scale
        BY <1>1, <2>1, <2>2, <2>3, <2>4
  <2>   QED BY <2>4, <2>5 DEF KeyringInv, NoNeedlessAccounts
<1>   QED BY <1>4, <1>5, <1>6, <1>7, <1>8

\* What an account lacks is noted when it is looked up.
LEMMA CheckKeeps ==
    ASSUME ReadyInv, KeyringInv, Created \/ CheckAccount \/ AllChecked
    PROVE  ReadyInv' /\ KeyringInv'
<1>1. CASE Created
  <2> USE <1>1 DEF Created, Missing, Goto, disk, hub, plan, ReadyInv
  <2>1. ClientTypeOK'
        BY DEF ClientTypeOK
  <2>2. checked = 0 /\ tx = NoTx /\ scale \in Nat /\ scale <= Len(accs)
        BY Numbers DEF Listed, TxOK, Tx, Phase
  <2>3. TxOK' /\ Gives'
        BY <2>2 DEF TxOK, Gives, NoTx
  <2>4. Listed' /\ Primed' /\ Granted' /\ Enrolled'
        BY <2>2 DEF Listed, Primed, Granted, Enrolled, Phase
  <2>5. KeyringInv'
        BY DEF KeyringInv, NoNeedlessAccounts
  <2>   QED BY <2>1, <2>3, <2>4, <2>5
<1>2. CASE CheckAccount
  <2> USE <1>2 DEF CheckAccount, disk, hub, ReadyInv
  <2>1. /\ pc = "check" /\ pc' = "check" /\ tx = NoTx /\ scale \in Nat
        /\ checked \in Nat /\ checked' = checked + 1 /\ checked < scale /\ scale <= Len(accs)
        /\ Len(accs) \in Nat
        BY Numbers DEF Listed, TxOK, Tx, Phase
  <2>2. /\ toPrime \subseteq 1..checked /\ toGrant \subseteq 1..checked
        /\ toPrime' = IF accs[checked'] \in onHub THEN toPrime ELSE toPrime \cup {checked'}
        /\ toGrant' = IF accs[checked'] \in feeGranted THEN toGrant ELSE toGrant \cup {checked'}
        BY <2>1 DEF ClientTypeOK, accountExists, hasFeeGranted
  <2>3. toPrime' \subseteq 1..checked' /\ toGrant' \subseteq 1..checked'
        BY <2>1, <2>2
  <2>4. \A i \in 1..checked' : i \in 1..checked \/ i = checked'
        BY <2>1
  <2>5. ClientTypeOK'
        BY <2>1, <2>3 DEF ClientTypeOK
  <2>6. TxOK' /\ Gives'
        BY <2>1 DEF TxOK, Gives, NoTx
  <2>7. Listed'
        BY <2>1 DEF Listed, Phase
  <2>8. Primed'
        BY <2>1, <2>2, <2>4 DEF Primed
  <2>9. Granted'
        BY <2>1, <2>2, <2>4 DEF Granted
  <2>10. Enrolled' /\ KeyringInv'
        BY <2>1 DEF Enrolled, KeyringInv, NoNeedlessAccounts
  <2>   QED BY <2>5, <2>6, <2>7, <2>8, <2>9, <2>10
<1>3. CASE AllChecked
  <2> USE <1>3 DEF AllChecked, Goto, disk, hub, plan, ReadyInv
  <2>1. ClientTypeOK'
        BY DEF ClientTypeOK
  <2>2. tx = NoTx
        BY DEF TxOK, Tx, Phase
  <2>3. TxOK' /\ Gives' /\ KeyringInv'
        BY <2>2 DEF TxOK, Gives, NoTx, KeyringInv, NoNeedlessAccounts
  <2>4. Listed' /\ Primed' /\ Granted' /\ Enrolled'
        BY DEF Listed, Primed, Granted, Enrolled, Phase
  <2>   QED BY <2>1, <2>3, <2>4
<1>   QED BY <1>1, <1>2, <1>3

\* A step nothing is to be done for leaves nothing to be done.
LEMMA SkipKeeps ==
    ASSUME ReadyInv, KeyringInv, Skip
    PROVE  ReadyInv' /\ KeyringInv'
<1> USE DEF Skip, AtTx, Goto, disk, hub, plan, ReadyInv
<1>1. pc \in Phase /\ tx = NoTx
      BY PhaseTable
<1>2. \/ pc = "prime" /\ pc' = "grant" /\ toPrime = {}
      \/ pc = "grant" /\ pc' = "group" /\ toGrant = {}
      \/ pc = "group" /\ pc' = "start" /\ toEnrol = {}
      BY <1>1, PhaseTable DEF Phase
<1>3. ClientTypeOK'
      BY <1>2 DEF ClientTypeOK
<1>4. TxOK' /\ Gives'
      BY <1>1 DEF TxOK, Gives, NoTx
<1>5. Listed'
      BY <1>2 DEF Listed, Phase
<1>6. Primed' /\ Granted'
      BY <1>2 DEF Primed, Granted
<1>7. Enrolled'
      BY <1>2 DEF Enrolled, toEnrol
<1>8. KeyringInv'
      BY <1>2 DEF KeyringInv, NoNeedlessAccounts
<1>   QED BY <1>3, <1>4, <1>5, <1>6, <1>7, <1>8

\* A transaction is sent for the accounts the step is about.
LEMMA BroadcastKeeps ==
    ASSUME ReadyInv, KeyringInv, BroadcastTx
    PROVE  ReadyInv' /\ KeyringInv'
<1> USE DEF BroadcastTx, AtTx, disk, hub, plan, ReadyInv
<1> DEFINE bots == {accs[i] : i \in Positions[pc]}
<1>1. pc \in Phase /\ pc' = pc
      BY PhaseTable
<1>2. Positions[pc] \subseteq 1..checked
      BY <1>1, PhaseTable DEF Phase, ClientTypeOK, toEnrol
<1>3. bots \subseteq keys
      BY <1>2 DEF ClientTypeOK, Listed
<1>4. tx' = [does |-> pc, bots |-> bots, outcome |-> "sent",
             repeated |-> Cardinality(bots) < Cardinality(Positions[pc])]
      OBVIOUS
<1>5. tx' \in Tx /\ tx'.does = pc /\ tx'.bots = bots /\ tx'.outcome = "sent"
      BY <1>1, <1>3, <1>4 DEF Tx, ClientTypeOK
<1>6. ClientTypeOK' /\ TxOK'
      BY <1>3, <1>5 DEF ClientTypeOK, TxOK
<1>7. Gives'
  <2>1. CASE pc = "prime"
        BY <1>5, <2>1, PhaseTable DEF Gives
  <2>2. CASE pc = "grant"
        BY <1>5, <2>2, PhaseTable DEF Gives
  <2>3. CASE pc = "group"
        BY <1>5, <2>3, PhaseTable DEF Gives, toEnrol
  <2>   QED BY <1>1, <2>1, <2>2, <2>3 DEF Phase
<1>8. Listed' /\ Primed' /\ Granted' /\ Enrolled' /\ KeyringInv'
      BY DEF Listed, Primed, Granted, Enrolled, KeyringInv, NoNeedlessAccounts
<1>   QED BY <1>6, <1>7, <1>8

\* A step whose transaction has succeeded has given what was lacking.
LEMMA DoneKeeps ==
    ASSUME ReadyInv, KeyringInv, TxDone
    PROVE  ReadyInv' /\ KeyringInv'
<1> USE DEF TxDone, Goto, disk, hub, plan, ReadyInv
<1>1. pc \in Phase /\ tx.does = pc /\ tx.outcome = "ok"
      BY DEF TxOK, Tx, NoTx
<1>2. \/ pc = "prime" /\ pc' = "grant" /\ \A i \in toPrime : accs[i] \in onHub
      \/ pc = "grant" /\ pc' = "group" /\ \A i \in toGrant : accs[i] \in feeGranted
      \/ pc = "group" /\ pc' = "start" /\ \A i \in 1..checked : accs[i] \in members
      BY <1>1, PhaseTable DEF Phase, Gives
<1>3. ClientTypeOK'
      BY <1>2 DEF ClientTypeOK
<1>4. TxOK' /\ Gives'
      BY DEF TxOK, Gives, NoTx
<1>5. Listed'
      BY <1>2 DEF Listed, Phase
<1>6. Primed' /\ Granted'
      BY <1>2 DEF Primed, Granted
<1>7. Enrolled'
      BY <1>2 DEF Enrolled
<1>8. KeyringInv'
      BY <1>2 DEF KeyringInv, NoNeedlessAccounts
<1>   QED BY <1>3, <1>4, <1>5, <1>6, <1>7, <1>8

\* The loops are started, or a process or its attempts end.
LEMMA StartKeeps ==
    ASSUME ReadyInv, KeyringInv, Start \/ TxFailed \/ Dies \/ ConnectFails
    PROVE  ReadyInv' /\ KeyringInv'
<1>0. faults' \in 0..MaxFaults
      BY FaultType DEF ReadyInv, Start, TxFailed, Dies, ConnectFails
<1>1. CASE Exit
      BY <1>0, <1>1, ExitKeeps
<1>2. CASE Start /\ ~Exit
  <2> USE <1>2 DEF Start, Goto, disk, hub, plan, ReadyInv
  <2>1. pc = "start" /\ pc' = "running" /\ tx' = tx
        OBVIOUS
  <2>2. ClientTypeOK'
        BY <2>1 DEF ClientTypeOK
  <2>3. tx = NoTx
        BY <2>1 DEF TxOK, Tx, Phase
  <2>4. TxOK' /\ Gives' /\ KeyringInv'
        BY <2>1, <2>3 DEF TxOK, Gives, NoTx, KeyringInv, NoNeedlessAccounts
  <2>5. Listed' /\ Primed' /\ Granted' /\ Enrolled'
        BY <2>1 DEF Listed, Primed, Granted, Enrolled, Phase
  <2>   QED BY <2>2, <2>4, <2>5
<1>3. CASE ConnectFails /\ ~Exit
  <2> USE <1>3 DEF ConnectFails, disk, hub, plan, ReadyInv
  <2>1. /\ UNCHANGED <<disk, hub, plan, pc, tx, late>>
        /\ attempts + 1 < Attempts /\ attempts' = attempts + 1
        OBVIOUS
  <2>2. attempts' \in 0..Attempts
    <3>1. attempts \in 0..Attempts /\ Attempts \in Nat
          BY OrderClientAssumption DEF ClientTypeOK
    <3>   QED BY <2>1, <3>1
  <2>3. ClientTypeOK'
        BY <1>0, <2>1, <2>2 DEF ClientTypeOK
  <2>4. TxOK' /\ Gives' /\ KeyringInv'
        BY <2>1 DEF TxOK, Gives, KeyringInv, NoNeedlessAccounts
  <2>5. Listed' /\ Primed' /\ Granted' /\ Enrolled'
        BY <2>1 DEF Listed, Primed, Granted, Enrolled
  <2>   QED BY <2>3, <2>4, <2>5
<1>   QED BY <1>1, <1>2, <1>3 DEF Start, TxFailed, Dies

\* The scale command changes the file, not what the process has read.
LEMMA ScaleKeeps ==
    ASSUME ReadyInv, KeyringInv, NEW n \in Scales, Scale(n)
    PROVE  ReadyInv' /\ KeyringInv'
<1> USE DEF Scale, hub, plan, ReadyInv
<1>1. faults' \in 0..MaxFaults
      BY FaultType
<1>2. ClientTypeOK'
      BY <1>1 DEF ClientTypeOK
<1>3. TxOK' /\ Gives' /\ KeyringInv'
      BY DEF TxOK, Gives, KeyringInv, NoNeedlessAccounts
<1>4. Listed' /\ Primed' /\ Granted' /\ Enrolled'
      BY DEF Listed, Primed, Granted, Enrolled
<1>   QED BY <1>2, <1>3, <1>4

\* What the hub knows of the accounts only grows, by accounts of the keyring.
LEMMA HubGrows ==
    ASSUME ReadyInv, NEW t \in Tx, t.bots \subseteq keys, Effect(t) \/ UNCHANGED hub
    PROVE  /\ onHub \subseteq onHub' /\ feeGranted \subseteq feeGranted' /\ members \subseteq members'
           /\ {onHub', feeGranted', members'} \subseteq SUBSET Bot
           /\ Effect(t) => /\ t.does = "prime" => t.bots \subseteq onHub'
                           /\ t.does = "grant" => t.bots \subseteq feeGranted'
                           /\ t.does = "group" => t.bots \subseteq members'
<1>1. {keys, onHub, feeGranted, members} \subseteq SUBSET Bot /\ t.bots \subseteq Bot
      BY DEF ReadyInv, ClientTypeOK
<1>2. CASE Effect(t)
      BY <1>1, <1>2 DEF Effect
<1>3. CASE UNCHANGED hub /\ ~Effect(t)
      BY <1>1, <1>3 DEF hub
<1>   QED BY <1>2, <1>3

\* The hub executes or refuses the transaction that is waited for.
LEMMA ExecutesKeeps ==
    ASSUME ReadyInv, KeyringInv, Executes
    PROVE  ReadyInv' /\ KeyringInv'
<1> USE DEF Executes, disk, plan, ReadyInv
<1>1. tx \in Tx /\ tx.does = pc /\ tx.bots \subseteq keys /\ tx # NoTx
      BY DEF TxOK, NoTx
<1>2. /\ onHub \subseteq onHub' /\ feeGranted \subseteq feeGranted' /\ members \subseteq members'
      /\ {onHub', feeGranted', members'} \subseteq SUBSET Bot
      BY <1>1, HubGrows
<1>3. /\ tx' \in Tx /\ tx'.does = tx.does /\ tx'.bots = tx.bots
      /\ tx'.outcome = IF Possible(tx) THEN "ok" ELSE "failed"
      BY <1>1 DEF Tx
<1>4. tx'.outcome = "ok" => Effect(tx)
      BY <1>3
<1>5. tx'.outcome = "ok" => /\ tx.does = "prime" => tx.bots \subseteq onHub'
                            /\ tx.does = "grant" => tx.bots \subseteq feeGranted'
                            /\ tx.does = "group" => tx.bots \subseteq members'
      BY <1>1, <1>4, HubGrows
<1>6. ClientTypeOK'
      BY <1>1, <1>2, <1>3 DEF ClientTypeOK
<1>7. TxOK'
      BY <1>1, <1>3 DEF TxOK
<1>8. Gives'
      BY <1>2, <1>3, <1>5 DEF Gives
<1>9. Listed' /\ KeyringInv'
      BY DEF Listed, KeyringInv, NoNeedlessAccounts
<1>10. Primed' /\ Granted' /\ Enrolled'
      BY <1>2 DEF Primed, Granted, Enrolled
<1>   QED BY <1>6, <1>7, <1>8, <1>9, <1>10

\* A late transaction can only give more.
LEMMA SettlesKeeps ==
    ASSUME ReadyInv, KeyringInv, NEW t \in late, Settles(t)
    PROVE  ReadyInv' /\ KeyringInv'
<1> USE DEF Settles, disk, plan, ReadyInv
<1>1. t \in Tx /\ t.bots \subseteq keys
      BY DEF TxOK
<1>2. /\ onHub \subseteq onHub' /\ feeGranted \subseteq feeGranted' /\ members \subseteq members'
      /\ {onHub', feeGranted', members'} \subseteq SUBSET Bot
      BY <1>1, HubGrows
<1>3. late' \subseteq late
      OBVIOUS
<1>4. ClientTypeOK'
      BY <1>2, <1>3 DEF ClientTypeOK
<1>5. TxOK' /\ Listed' /\ KeyringInv'
      BY <1>3 DEF TxOK, Listed, KeyringInv, NoNeedlessAccounts
<1>6. Gives'
      BY <1>2 DEF Gives
<1>7. Primed' /\ Granted' /\ Enrolled'
      BY <1>2 DEF Primed, Granted, Enrolled
<1>   QED BY <1>4, <1>5, <1>6, <1>7

\* A step of nothing changes nothing.
LEMMA ClientStutterKeeps ==
    ASSUME ReadyInv, KeyringInv, UNCHANGED clientVars
    PROVE  ReadyInv' /\ KeyringInv'
<1> USE DEF clientVars, disk, hub, plan, ReadyInv
<1>1. ClientTypeOK' /\ TxOK' /\ Gives'
      BY DEF ClientTypeOK, TxOK, Gives
<1>2. Listed' /\ Primed' /\ Granted' /\ Enrolled' /\ KeyringInv'
      BY DEF Listed, Primed, Granted, Enrolled, KeyringInv, NoNeedlessAccounts
<1>   QED BY <1>1, <1>2

\* Every step keeps both invariants, together.
LEMMA ClientKept ==
    ASSUME ReadyInv, KeyringInv, [ClientNext]_clientVars
    PROVE  ReadyInv' /\ KeyringInv'
<1>1. CASE UNCHANGED clientVars
      BY <1>1, ClientStutterKeeps
<1>2. CASE Progress
  <2>1. CASE Launch \/ Connect
        BY <2>1, ConnectKeeps
  <2>2. CASE Created \/ CheckAccount \/ AllChecked
        BY <2>2, CheckKeeps
  <2>3. CASE Skip
        BY <2>3, SkipKeeps
  <2>4. CASE BroadcastTx
        BY <2>4, BroadcastKeeps
  <2>5. CASE TxDone
        BY <2>5, DoneKeeps
  <2>6. CASE TxFailed \/ Start
        BY <2>6, StartKeeps
  <2>7. CASE Executes
        BY <2>7, ExecutesKeeps
  <2>8. CASE \E b \in Bot \ keys : CreateAccount(b)
        BY <2>8, CreateKeeps
  <2>   QED BY <1>2, <2>1, <2>2, <2>3, <2>4, <2>5, <2>6, <2>7, <2>8 DEF Progress
<1>3. CASE ConnectFails \/ Dies
      BY <1>3, StartKeeps
<1>4. CASE \E b \in keys : CreateAccount(b)
      BY <1>4, CreateKeeps DEF ReadyInv, ClientTypeOK
<1>5. CASE \E n \in Scales : Scale(n)
      BY <1>5, ScaleKeeps
<1>6. CASE \E t \in late : Settles(t)
      BY <1>6, SettlesKeeps
<1>   QED BY <1>1, <1>2, <1>3, <1>4, <1>5, <1>6 DEF ClientNext

\* Both invariants are inductive, together.
LEMMA ClientInvariant == ClientSpec => [](ReadyInv /\ KeyringInv)
<1>1. ReadyInv /\ KeyringInv /\ [ClientNext]_clientVars => ReadyInv' /\ KeyringInv'
      BY ClientKept
<1>   QED BY <1>1, ClientInitInv, PTL DEF ClientSpec

----------------------------------------------------------------------------
(***************************************************************************)
(* Every field keeps its type: what a start has looked up are accounts it  *)
(* has listed, and a transaction is about accounts whose key it has        *)
(* (order_client.go:31-195, account.go:157-244).                           *)
(***************************************************************************)
THEOREM ClientTypeCorrect == ClientSpec => []ClientTypeOK
<1>1. ReadyInv /\ KeyringInv => ClientTypeOK
      BY DEF ReadyInv
<1>   QED BY <1>1, ClientInvariant, PTL

(***************************************************************************)
(* When the loops run, every fulfiller has its key, an account on the hub, *)
(* a fee grant and its place in the group, however many starts have failed *)
(* before and whatever their late transactions did since                   *)
(* (order_client.go:125-195, account.go).                                  *)
(***************************************************************************)
THEOREM RunningIsReady == ClientSpec => []RunningReady
<1>1. ReadyInv /\ KeyringInv => RunningReady
  <2> SUFFICES ASSUME ReadyInv, pc = "running"
               PROVE  /\ checked = scale
                      /\ \A i \in 1..scale : accs[i] \in keys \cap onHub \cap feeGranted \cap members
      BY DEF RunningReady
  <2>1. checked = scale /\ scale \in Nat /\ Len(accs) \in Nat /\ scale <= Len(accs)
        BY Numbers DEF ReadyInv, Listed
  <2>2. \A i \in 1..scale : accs[i] \in onHub \cap feeGranted \cap members
        BY <2>1 DEF ReadyInv, Primed, Granted, Enrolled
  <2>3. \A i \in 1..scale : accs[i] \in keys
        BY <2>1 DEF ReadyInv, Listed
  <2>   QED BY <2>1, <2>2, <2>3
<1>   QED BY <1>1, ClientInvariant, PTL

(***************************************************************************)
(* There are never more accounts than some configuration called for, for   *)
(* any number of failed starts and of changes of the scale                 *)
(* (account.go:168-176).                                                   *)
(***************************************************************************)
THEOREM NoAccountInVain == ClientSpec => []NoNeedlessAccounts
<1>1. ReadyInv /\ KeyringInv => NoNeedlessAccounts
      BY DEF KeyringInv
<1>   QED BY <1>1, ClientInvariant, PTL
=============================================================================
