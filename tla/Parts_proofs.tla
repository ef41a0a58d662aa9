----------------------------- MODULE Parts_proofs -----------------------------
(***************************************************************************)
(* The parts of MCParts that have no proofs of their own, and all parts    *)
(* together.                                                               *)
(*                                                                         *)
(* A load of the grants lets the poller look at the noted orders again     *)
(* whenever a provider comes to accept an order, for any grants and        *)
(* orders: the client does not compare grants but a hash that leaves the   *)
(* spend limit out, and then the spend limits; an entry whose hash is the  *)
(* same and whose limit is not higher accepts nothing the old one did not. *)
(*                                                                         *)
(* A proof height is recovered from its packet key, for any base and any   *)
(* number of bytes.  Its first part is about numbers: the sum of the       *)
(* weighed digits is the number they were taken from, by a least           *)
(* counterexample.  The second is about the key: which separators stand    *)
(* where, and hence what is cut out.                                       *)
(*                                                                         *)
(* A part that rests is in a state its own invariant allows, so the        *)
(* invariants of all the parts hold together in every state of PartsSpec.  *)
(***************************************************************************)
EXTENDS MCParts, NodeClient_proofs, OrderClient_proofs, HubMessages_proofs

----------------------------------------------------------------------------
(* The entries of the providers.                                           *)

\* An entry has criteria for some rollapps.
EntryOK(e) ==
    /\ e = [r \in DOMAIN e |-> e[r]]
    /\ DOMAIN e \subseteq Supported
    /\ \A r \in DOMAIN e : e[r] \in Criteria /\ e[r].share >= MinShare

LoaderInv ==
    /\ LoaderTypeOK
    /\ lps = [l \in LP |-> lps[l]]
    /\ \A l \in LP : EntryOK(lps[l])

----------------------------------------------------------------------------
\* A provider without a grant has no entry, and nothing in it is usable.
LEMMA RevokedEntry == DOMAIN Revoked = {} /\ EntryOK(Revoked) /\ Usable(Revoked) = {}
<1>1. DOMAIN Revoked = {}
      BY DEF Revoked
<1>2. Revoked = [r \in DOMAIN Revoked |-> Revoked[r]]
      BY <1>1 DEF Revoked
<1>   QED BY <1>1, <1>2 DEF EntryOK, Usable

\* An entry is made of what is usable in a grant.
LEMMA EntryType ==
    ASSUME NEW g \in Grant
    PROVE  EntryOK(Entry(g)) /\ DOMAIN Entry(g) = Usable(g)
<1>1. Usable(g) \subseteq Supported /\ Usable(g) \subseteq DOMAIN g
      BY DEF Usable
<1>2. \A r \in Usable(g) : g[r] \in Criteria /\ g[r].share >= MinShare
      BY <1>1, LPLoaderAssumption DEF Usable
<1>   QED BY <1>1, <1>2 DEF EntryOK, Entry

\* A load drops an entry, makes a new one of the grant, or keeps the old one.
LEMMA LoadedCases ==
    ASSUME NEW done \in SUBSET LP, NEW l \in LP
    PROVE  \/ LoadedFrom(done)[l] = Revoked
           \/ /\ granted[l] # Revoked /\ Usable(granted[l]) # {}
              /\ LoadedFrom(done)[l] = Entry(granted[l])
           \/ LoadedFrom(done)[l] = lps[l]
<1>1. CASE granted[l] = Revoked
      BY <1>1, RevokedEntry DEF LoadedFrom
<1>2. CASE granted[l] # Revoked /\ l \in done /\ Usable(granted[l]) # {}
      BY <1>2 DEF LoadedFrom
<1>3. CASE granted[l] # Revoked /\ ~(l \in done /\ Usable(granted[l]) # {})
      BY <1>3 DEF LoadedFrom
<1>   QED BY <1>1, <1>2, <1>3

\* Whatever part of the grants a load gets through, it leaves entries.
LEMMA LoadedType ==
    ASSUME LoaderInv, NEW done \in SUBSET LP, NEW l \in LP
    PROVE  EntryOK(LoadedFrom(done)[l])
<1>1. granted[l] \in Grant \cup {Revoked} /\ EntryOK(lps[l])
      BY DEF LoaderInv, LoaderTypeOK
<1>   QED BY <1>1, LoadedCases, RevokedEntry, EntryType

\* Nobody has an entry at first.
LEMMA LoaderStarts == LoaderInit => LoaderInv
<1> SUFFICES ASSUME LoaderInit PROVE LoaderInv
    OBVIOUS
<1>1. \A l \in LP : lps[l] = Revoked
      BY DEF LoaderInit
<1>2. \A l \in LP : EntryOK(lps[l])
      BY <1>1, RevokedEntry
<1>   QED BY <1>2 DEF LoaderInit, LoaderInv, LoaderTypeOK, EntryOK

\* A load that gets through some of the providers leaves entries.
LEMMA LoadingKeeps ==
    ASSUME LoaderInv, NEW done \in SUBSET LP, lps' = LoadedFrom(done),
           UNCHANGED <<granted, solvent>>, noted' \subseteq noted
    PROVE  LoaderInv'
<1>1. \A l \in LP : EntryOK(lps'[l])
      BY LoadedType
<1>2. lps' = [l \in LP |-> lps'[l]]
      BY DEF LoadedFrom
<1>   QED BY <1>1, <1>2 DEF LoaderInv, LoaderTypeOK, EntryOK

\* Every step keeps the entries.
LEMMA LoaderKept ==
    ASSUME LoaderInv, [LoaderNext]_loaderVars
    PROVE  LoaderInv'
<1>1. CASE Load
      BY <1>1, LoadingKeeps DEF Load
<1>2. CASE LoadFails
      BY <1>2, LoadingKeeps DEF LoadFails
<1>3. ASSUME NEW o \in Order, NoteOrder(o)
      PROVE  LoaderInv'
      BY <1>3 DEF NoteOrder, LoaderInv, LoaderTypeOK, EntryOK
<1>4. ASSUME NEW l \in LP, NEW g \in Grant \cup {Revoked}, Regrant(l, g)
      PROVE  LoaderInv'
      BY <1>4 DEF Regrant, LoaderInv, LoaderTypeOK, EntryOK
<1>5. ASSUME NEW l \in LP, BalanceChanges(l)
      PROVE  LoaderInv'
      BY <1>5 DEF BalanceChanges, LoaderInv, LoaderTypeOK, EntryOK
<1>6. CASE UNCHANGED loaderVars
      BY <1>6 DEF loaderVars, LoaderInv, LoaderTypeOK, EntryOK
<1>   QED BY <1>1, <1>2, <1>3, <1>4, <1>5, <1>6 DEF LoaderNext

\* The client's entries are made of grants at any time.
LEMMA LoaderInvariant == LoaderSpec => []LoaderInv
<1>1. LoaderInv /\ [LoaderNext]_loaderVars => LoaderInv'
      BY LoaderKept
<1>   QED BY <1>1, LoaderStarts, PTL DEF LoaderSpec

----------------------------------------------------------------------------
\* Entries with the same hash differ in their spend limits only.
LEMMA SameHash ==
    ASSUME NEW a, NEW b, EntryOK(a), EntryOK(b), Hashed(a) = Hashed(b)
    PROVE  /\ DOMAIN a = DOMAIN b
           /\ \A r \in DOMAIN a : /\ a[r].denoms = b[r].denoms
                                  /\ a[r].maxPrice = b[r].maxPrice
                                  /\ a[r].minFee = b[r].minFee
<1>1. DOMAIN a = DOMAIN b
      BY DEF Hashed
<1>2. ASSUME NEW r \in DOMAIN a
      PROVE  /\ a[r].denoms = b[r].denoms
             /\ a[r].maxPrice = b[r].maxPrice
             /\ a[r].minFee = b[r].minFee
  <2>1. [a[r] EXCEPT !.spendLimit = NoCoins] = [b[r] EXCEPT !.spendLimit = NoCoins]
        BY <1>1, <1>2 DEF Hashed
  <2>2. a[r] \in Criteria /\ b[r] \in Criteria
        BY <1>1, <1>2 DEF EntryOK
  <2>   QED BY <2>1, <2>2 DEF Criteria
<1>   QED BY <1>1, <1>2

\* A limit that is not raised, of a provider that had something left of all
\* the order costs, covered the order before if it does now.
LEMMA LimitCovers ==
    ASSUME NEW old \in Bag, NEW new \in Bag, NEW price \in Bag,
           ~IsAnyGT(new, old), IsAllGTE(new, price),
           \A d \in Denom : ~(price[d] > 0 /\ old[d] = 0)
    PROVE  IsAllGTE(old, price)
<1>1. \A d \in Denom : old[d] \in Nat /\ new[d] \in Nat /\ price[d] \in Nat
      BY DEF Bag
<1>2. ASSUME NEW d \in Denom
      PROVE  old[d] >= price[d]
  <2>1. CASE old[d] = 0
        BY <1>1, <2>1
  <2>2. CASE old[d] # 0
    <3>1. old[d] >= new[d] /\ new[d] >= price[d]
          BY <1>1, <2>2 DEF IsAnyGT, IsAllGTE
    <3>   QED BY <1>1, <3>1
  <2>   QED BY <2>1, <2>2
<1>   QED BY <1>2 DEF IsAllGTE

\* An entry that replaces another unnoticed accepts nothing more.
LEMMA UnnoticedNoWider ==
    ASSUME NEW old, NEW new, EntryOK(old), EntryOK(new), NEW o \in Order,
           Hashed(old) = Hashed(new), ~SpendLimitRaised(old, new), Accepts(new, o),
           ~(/\ o.rollapp \in DOMAIN old
             /\ \E d \in Denom : o.price[d] > 0 /\ old[o.rollapp].spendLimit[d] = 0)
    PROVE  Accepts(old, o)
<1> DEFINE r == o.rollapp
<1>1. r \in DOMAIN new /\ r \in DOMAIN old
      BY SameHash DEF Accepts
<1>2. old[r] \in Criteria /\ new[r] \in Criteria /\ o.price \in Bag
      BY <1>1, LPLoaderAssumption DEF EntryOK
<1>3. ~IsAnyGT(new[r].spendLimit, old[r].spendLimit)
      BY <1>1 DEF SpendLimitRaised
<1>4. Allows(new[r], o)
      BY DEF Accepts
<1>5. IsAllGTE(old[r].spendLimit, o.price)
  <2>1. old[r].spendLimit \in Bag /\ new[r].spendLimit \in Bag
        BY <1>2 DEF Criteria
  <2>2. IsAllGTE(new[r].spendLimit, o.price)
        BY <1>4 DEF Allows
  <2>3. \A d \in Denom : ~(o.price[d] > 0 /\ old[r].spendLimit[d] = 0)
        BY <1>1
  <2>   QED BY <1>2, <1>3, <2>1, <2>2, <2>3, LimitCovers
<1>6. /\ old[r].denoms = new[r].denoms /\ old[r].maxPrice = new[r].maxPrice
      /\ old[r].minFee = new[r].minFee
      BY <1>1, SameHash
<1>7. Allows(old[r], o)
      BY <1>4, <1>5, <1>6 DEF Allows
<1>   QED BY <1>1, <1>7 DEF Accepts

----------------------------------------------------------------------------
(***************************************************************************)
(* The client's entry of a provider only holds rollapps it supports, with  *)
(* shares it asks for (lp.go:166-171).                                     *)
(***************************************************************************)
THEOREM LoaderTypeCorrect == LoaderSpec => []LoaderTypeOK
<1>1. LoaderInv => LoaderTypeOK
      BY DEF LoaderInv
<1>   QED BY <1>1, LoaderInvariant, PTL

(***************************************************************************)
(* Whatever changes in a grant, a load that makes a provider accept an     *)
(* order it did not accept lets the poller look at the noted orders again, *)
(* unless the limit it knew was used up (lp.go:186-223, 277-284).          *)
(***************************************************************************)
THEOREM WiderIsNoticed == LoaderSpec => ResetWhenWider
<1> DEFINE Noticed ==
      Load => \A l \in LP, o \in Order :
          ~Accepts(lps[l], o) /\ Accepts(lps'[l], o) /\ ~UsedUp(l, o) => noted' = {}
<1>1. ASSUME LoaderInv PROVE Noticed
  <2> SUFFICES ASSUME Load, NEW l \in LP, NEW o \in Order,
                      ~Accepts(lps[l], o), Accepts(lps'[l], o), ~UsedUp(l, o)
               PROVE  noted' = {}
      OBVIOUS
  <2>1. lps' = LoadedFrom(LP)
        BY DEF Load
  <2>2. EntryOK(lps[l]) /\ EntryOK(lps'[l])
        BY <1>1, <2>1, LoadedType DEF LoaderInv
  <2>3. granted[l] # Revoked /\ Usable(granted[l]) # {}
    <3>1. lps'[l] # Revoked /\ lps'[l] # lps[l]
          BY RevokedEntry DEF Accepts
    <3>   QED BY <2>1, <3>1, LoadedCases
  <2>4. ~(/\ o.rollapp \in DOMAIN lps[l]
          /\ \E d \in Denom : o.price[d] > 0 /\ lps[l][o.rollapp].spendLimit[d] = 0)
        BY DEF UsedUp
  <2>5. \/ Hashed(lps[l]) # Hashed(lps'[l])
        \/ SpendLimitRaised(lps[l], lps'[l])
        BY <2>2, <2>4, UnnoticedNoWider
  <2>6. Updated(LoadedFrom(LP))
        BY <2>1, <2>3, <2>5 DEF Updated
  <2>   QED BY <2>6 DEF Load
<1>2. LoaderInv /\ [LoaderNext]_loaderVars => [Noticed]_loaderVars
      BY <1>1
<1>   QED BY <1>2, LoaderInvariant, PTL DEF LoaderSpec, ResetWhenWider

----------------------------------------------------------------------------
(* The height that is cut out of a packet key.                             *)

\* The powers are what their definition says.
LEMMA PowerDef ==
    /\ Power \in [0..HeightLen -> Nat \ {0}]
    /\ Power[0] = 1
    /\ \A k \in 1..HeightLen : Power[k] = Base * Power[k - 1]
<1> DEFINE V == Nat \ {0}
           n == HeightLen
           next == [i \in 1..n |-> i + 1]
           step == [i \in 1..n |-> [v \in V |-> Base * v]]
           P(f) == f = [k \in 0..n |-> IF k = 0 THEN 1 ELSE Base * f[k - 1]]
<1>1. n \in Nat /\ next \in [1..n -> Nat] /\ (\A i \in 1..n : next[i] \in i + 1..n + 1)
      BY ProofHeightAssumption
<1>2. 1 \in V /\ step \in [1..n -> [V -> V]]
  <2>1. \A v \in V : Base * v \in V
        BY ProofHeightAssumption
  <2>   QED BY <2>1
<1>3. PICK g \in [1..n + 1 -> V] : Recurs(g, n, next, 1, step)
  <2> HIDE DEF V, n, next, step
  <2> QED BY <1>1, <1>2, RecursionExists
<1>4. P([k \in 0..n |-> g[n + 1 - k]])
  <2>1. g[n + 1] = 1
        BY <1>3 DEF Recurs
  <2>2. \A k \in 1..n : g[n + 1 - k] = Base * g[n + 2 - k]
    <3> SUFFICES ASSUME NEW k \in 1..n PROVE g[n + 1 - k] = Base * g[n + 2 - k]
        OBVIOUS
    <3>1. n + 1 - k \in 1..n /\ next[n + 1 - k] = n + 2 - k /\ n + 2 - k \in 1..n + 1
          BY <1>1
    <3>2. g[n + 1 - k] = step[n + 1 - k][g[next[n + 1 - k]]]
          BY <1>3, <3>1 DEF Recurs
    <3>   QED BY <3>1, <3>2
  <2>3. n \in Nat /\ \A k \in 0..n : k # 0 => k \in 1..n /\ k - 1 \in 0..n /\ n + 1 - (k - 1) = n + 2 - k
        BY <1>1
  <2> HIDE DEF n
  <2>   QED BY <2>1, <2>2, <2>3
<1>5. Power = CHOOSE f : P(f)
      BY DEF Power
<1>6. P(Power)
  <2> HIDE DEF P
  <2> QED BY <1>4, <1>5
<1>7. Power[0] = 1 /\ \A k \in 1..n : Power[k] = Base * Power[k - 1]
      BY <1>1, <1>6
<1>8. \A k \in 0..n : Power[k] \in V
  <2> DEFINE T == {i \in 1..n + 1 : Power[n + 1 - i] \in V}
  <2>1. \A i \in 1..n + 1 : (\A j \in i + 1..n + 1 : j \in T) => i \in T
    <3> SUFFICES ASSUME NEW i \in 1..n + 1, \A j \in i + 1..n + 1 : j \in T
                 PROVE  Power[n + 1 - i] \in V
        OBVIOUS
    <3>1. CASE i = n + 1
      <4>1. n + 1 - i = 0
            BY <1>1, <3>1
      <4>   QED BY <1>7, <4>1
    <3>2. CASE i # n + 1
      <4> DEFINE k == n + 1 - i
      <4>1. k \in 1..n /\ i + 1 \in i + 1..n + 1 /\ n + 1 - (i + 1) = k - 1
            BY <1>1, <3>2
      <4>2. i + 1 \in T
            BY <4>1
      <4>3. Power[k - 1] \in V
            BY <4>1, <4>2
      <4>   HIDE DEF k
      <4>4. Power[k] = Base * Power[k - 1]
            BY <1>7, <4>1
      <4>5. Power[k] \in V
            BY <4>3, <4>4, ProofHeightAssumption
      <4>   QED BY <4>5 DEF k
    <3>   QED BY <3>1, <3>2
  <2>2. T = 1..n + 1
    <3> HIDE DEF T
    <3>1. T \in SUBSET (1..n + 1)
          BY DEF T
    <3>   QED BY <1>1, <2>1, <3>1, FromTheEnd
  <2>3. ASSUME NEW k \in 0..n PROVE Power[k] \in V
    <3>1. n + 1 - k \in 1..n + 1 /\ n + 1 - (n + 1 - k) = k
          BY <1>1
    <3>2. n + 1 - k \in T
      <4> HIDE DEF T
      <4> QED BY <2>2, <3>1
    <3>   QED BY <3>1, <3>2
  <2>   QED BY <2>3
<1>9. Power = [k \in 0..n |-> Power[k]]
      BY <1>6
<1>   QED BY <1>7, <1>8, <1>9

\* One more digit of a number.
LEMMA NextDigit ==
    ASSUME NEW p \in Nat \ {0}, NEW b \in Nat \ {0}, NEW h \in Nat
    PROVE  h % (b * p) = ((h \div p) % b) * p + (h % p)
<1> DEFINE q == h \div p
           r == h % p
           t == q \div b
           u == q % b
<1>1. h = p * q + r /\ q \in Nat /\ r \in 0..p - 1
      BY Division
<1>2. q = b * t + u /\ t \in Nat /\ u \in 0..b - 1
      BY <1>1, Division
<1> HIDE DEF q, r, t, u
<1>3. p * q = (b * p) * t + p * u
  <2>1. p * q = p * (b * t + u)
        BY <1>2
  <2>   QED BY <1>2, <2>1
<1>4. h = (b * p) * t + (p * u + r)
  <2>1. p * q \in Nat /\ p * u \in Nat /\ (b * p) * t \in Nat /\ r \in Nat
        BY <1>1, <1>2
  <2>   QED BY <1>1, <1>3, <2>1
<1>5. b * p \in Nat \ {0} /\ p * u + r \in 0..(b * p) - 1
  <2>1. u + 1 <= b /\ u \in Nat
        BY <1>2
  <2>2. p * (u + 1) <= p * b
        BY <2>1
  <2>3. p * (u + 1) = p * u + p
        BY <2>1
  <2>4. p * u \in Nat /\ p * b \in Nat /\ p * b = b * p
        BY <2>1
  <2>5. b * p # 0
        OBVIOUS
  <2>6. p * u + r < b * p
        BY <1>1, <2>2, <2>3, <2>4
  <2>   QED BY <1>1, <2>4, <2>5, <2>6
<1>6. h % (b * p) = p * u + r
      BY <1>2, <1>4, <1>5, Division
<1>   QED BY <1>1, <1>2, <1>6 DEF q, r, u

\* The weights of the bytes of a number.
Weighed(bs) == [i \in 1..HeightLen |-> bs[i] * Power[HeightLen - i]]

\* The bytes of a number are bytes, and its bytes from one position on sum up to the
\* remainder.
LEMMA BytesSum ==
    ASSUME NEW h \in ProofHeights
    PROVE  /\ \A i \in 1..HeightLen : BigEndian(h)[i] \in 0..Base - 1
           /\ Weighed(BigEndian(h)) \in [1..HeightLen -> Nat]
           /\ SumOf(Weighed(BigEndian(h)), 1..HeightLen) = h
<1> DEFINE n == HeightLen
           b == BigEndian(h)
           w == Weighed(b)
           T == {i \in 1..n + 1 : SumOf(w, i..n) = h % Power[n + 1 - i]}
<1>1. n \in Nat /\ n # 0 /\ Base \in Nat \ {0} /\ h \in Nat /\ h < Power[n]
      BY PowerDef, ProofHeightAssumption DEF ProofHeights
<1>2. \A i \in 1..n : n - i \in 0..n /\ Power[n - i] \in Nat \ {0}
      BY <1>1, PowerDef
<1>3. ASSUME NEW i \in 1..n
      PROVE  /\ b[i] \in 0..Base - 1 /\ w[i] = b[i] * Power[n - i] /\ w[i] \in Nat
             /\ b[i] = (h \div Power[n - i]) % Base
  <2>1. b[i] = (h \div Power[n - i]) % Base
        BY DEF BigEndian
  <2>2. h \div Power[n - i] \in Nat
        BY <1>1, <1>2, Division
  <2>2a. \A x \in Nat : x % Base \in 0..Base - 1
        BY <1>1, Division
  <2>3. b[i] \in 0..Base - 1
        BY <2>1, <2>2, <2>2a
  <2>4. w[i] = b[i] * Power[n - i]
        BY DEF Weighed
  <2>5. \A x, y \in Nat : x * y \in Nat
        OBVIOUS
  <2>   QED BY <1>1, <1>2, <2>1, <2>3, <2>4, <2>5
<1>4. w \in [1..n -> Nat] /\ IsFiniteSet(1..n)
  <2>1. w = [i \in 1..n |-> w[i]]
        BY DEF Weighed
  <2>   QED BY <1>1, <1>3, <2>1, FS_Interval
<1>4a. ASSUME NEW S, IsFiniteSet(S), w \in [S -> Nat], NEW R \in SUBSET S, NEW i \in R
       PROVE  SumOf(w, R) = w[i] + SumOf(w, R \ {i})
  <2> HIDE DEF w
  <2>1. w \in [S -> Nat] /\ R \in SUBSET S /\ IsFiniteSet(S)
        BY <1>4a
  <2> QED BY <2>1, SumStep
<1>5. \A i \in 1..n + 1 : (\A j \in i + 1..n + 1 : j \in T) => i \in T
  <2> SUFFICES ASSUME NEW i \in 1..n + 1, \A j \in i + 1..n + 1 : j \in T
               PROVE  SumOf(w, i..n) = h % Power[n + 1 - i]
      OBVIOUS
  <2>1. CASE i = n + 1
    <3>1. i..n = {} /\ n + 1 - i = 0
          BY <1>1, <2>1
    <3>2. SumOf(w, {}) = 0
      <4> HIDE DEF w
      <4> QED BY <1>4, SumStep
    <3>3. h % Power[0] = 0
          BY <1>1, PowerDef
    <3>   QED BY <3>1, <3>2, <3>3
  <2>2. CASE i # n + 1
    <3>1. /\ i \in 1..n /\ i \in i..n /\ (i..n) \ {i} = i + 1..n /\ i..n \in SUBSET (1..n)
          /\ i + 1 \in i + 1..n + 1 /\ n + 1 - i \in 1..n /\ n + 1 - i - 1 = n - i
          /\ n + 1 - (i + 1) = n - i
          BY <1>1, <2>2
    <3>2. SumOf(w, i..n) = w[i] + SumOf(w, i + 1..n)
      <4> DEFINE S == 1..n
                 R == i..n
      <4>1. R \in SUBSET S /\ i \in R /\ w \in [S -> Nat] /\ IsFiniteSet(S)
            BY <1>4, <3>1
      <4>2. SumOf(w, R) = w[i] + SumOf(w, R \ {i})
        <5> HIDE DEF w, S, R, T
        <5> QED BY <4>1, <1>4a
      <4>   QED BY <3>1, <4>2
    <3>3. i + 1 \in T
          BY <3>1
    <3>4. SumOf(w, i + 1..n) = h % Power[n - i]
          BY <3>1, <3>3
    <3>5. Power[n + 1 - i] = Base * Power[n - i]
      <4> DEFINE k == n + 1 - i
      <4>1. k \in 1..HeightLen /\ k - 1 = n - i
            BY <1>1, <3>1
      <4>   HIDE DEF k
      <4>2. Power[k] = Base * Power[k - 1]
            BY <4>1, PowerDef
      <4>   QED BY <4>1, <4>2 DEF k
    <3>6. h % (Base * Power[n - i]) = ((h \div Power[n - i]) % Base) * Power[n - i] + (h % Power[n - i])
          BY <1>1, <1>2, <3>1, NextDigit
    <3>   QED BY <1>3, <3>1, <3>2, <3>4, <3>5, <3>6
  <2>   QED BY <2>1, <2>2
<1>6. T = 1..n + 1
  <2> HIDE DEF T
  <2>1. T \in SUBSET (1..n + 1)
        BY DEF T
  <2>   QED BY <1>1, <1>5, <2>1, FromTheEnd
<1>7. SumOf(w, 1..n) = h % Power[n]
  <2>1. 1 \in T /\ n + 1 - 1 = n
        BY <1>1, <1>6
  <2>   QED BY <2>1
<1>8. h % Power[n] = h
  <2>1. Power[n] \in Nat \ {0}
        BY <1>1, PowerDef
  <2>   QED BY <1>1, <2>1
<1>   QED BY <1>3, <1>4, <1>7, <1>8

\* Reading the bytes of a number gives the number.
LEMMA BytesRead ==
    ASSUME NEW h \in ProofHeights
    PROVE  BigEndianToUint64(BigEndian(h)) = h
<1> DEFINE S == 1..HeightLen
           b == BigEndian(h)
           w == Weighed(b)
           P(f) == f = [s \in SUBSET S |-> IF s = {} THEN 0
                            ELSE b[Pick(s)] * Power[HeightLen - Pick(s)] + f[s \ {Pick(s)}]]
           H == CHOOSE f : P(f)
<1>1. w \in [S -> Nat] /\ IsFiniteSet(S)
  <2>1. HeightLen \in Int /\ 1 \in Int
        BY ProofHeightAssumption
  <2>   QED BY <2>1, BytesSum, FS_Interval
<1>2. \A s \in SUBSET S : s # {} => w[Pick(s)] = b[Pick(s)] * Power[HeightLen - Pick(s)]
      BY PickIn DEF Weighed
<1>3. BigEndianToUint64(b) = H[S]
      BY DEF BigEndianToUint64, MapThenSumSet, MapThenFoldSet, Pick
<1>4. PICK g \in [SUBSET S -> Nat] : Adds(g, w, S)
  <2> HIDE DEF w, S
  <2> QED BY <1>1, AddsExists
<1>5. P(g)
  <2>1. \A s \in SUBSET S : g[s] = IF s = {} THEN 0 ELSE w[Pick(s)] + g[s \ {Pick(s)}]
        BY <1>4 DEF Adds
  <2>   QED BY <1>2, <1>4, <2>1
<1>6. P(H)
      BY <1>5
<1>7. Adds(H, w, S)
      BY <1>2, <1>6 DEF Adds
<1>8. SumOf(w, S) = g[S] /\ g[S] = H[S]
  <2> HIDE DEF w, H, S
  <2>0. S \in SUBSET S
        OBVIOUS
  <2>1. SumOf(w, S) = g[S]
        BY <1>1, <1>4, <2>0, SumIs
  <2>2. \A s \in SUBSET S : g[s] = H[s]
        BY <1>1, <1>4, <1>7, AddsUnique
  <2>   QED BY <2>0, <2>1, <2>2
<1>   QED BY <1>3, <1>8, BytesSum

\* Where the bytes of a packet key stand.
LEMMA KeyBytes ==
    ASSUME NEW h \in ProofHeights
    PROVE  /\ PacketKey(h) \in Seq(0..Base - 1) /\ Len(PacketKey(h)) = HeightLen + 6
           /\ PacketKey(h)[1] # Separator /\ PacketKey(h)[2] = Separator
           /\ PacketKey(h)[3] # Separator /\ PacketKey(h)[4] = Separator
           /\ \A i \in 1..HeightLen : PacketKey(h)[4 + i] = BigEndian(h)[i]
           /\ PacketKey(h)[5 + HeightLen] = Separator
           /\ PacketKey(h)[6 + HeightLen] # Separator
<1> DEFINE p == (Separator + 1) % Base
           b == BigEndian(h)
           B == 0..Base - 1
           sep == <<Separator>>
           one == <<p>>
           k2 == one \o sep
           k3 == k2 \o one
           k4 == k3 \o sep
           kb == k4 \o b
           k5 == kb \o sep
           key == k5 \o one
<1>1. p \in B /\ p # Separator /\ Separator \in B /\ HeightLen \in Nat
  <2>1. Base \in Nat /\ Base > 1 /\ Separator \in 0..Base - 1 /\ HeightLen \in Nat
        BY ProofHeightAssumption
  <2>2. CASE Separator + 1 = Base
    <3>1. p = 0
          BY <2>1, <2>2
    <3>   QED BY <2>1, <2>2, <3>1
  <2>3. CASE Separator + 1 < Base
    <3>1. p = Separator + 1
          BY <2>1, <2>3
    <3>   QED BY <2>1, <2>3, <3>1
  <2>   QED BY <2>1, <2>2, <2>3
<1>2. b \in [1..HeightLen -> B]
  <2>1. b = [i \in 1..HeightLen |-> b[i]]
        BY DEF BigEndian
  <2>2. \A i \in 1..HeightLen : b[i] \in B
        BY BytesSum
  <2>   HIDE DEF b
  <2>   QED BY <2>1, <2>2
<1>3. b \in Seq(B) /\ Len(b) = HeightLen
  <2> HIDE DEF b, B
  <2> QED BY <1>1, <1>2
<1>4. sep \in Seq(B) /\ Len(sep) = 1 /\ sep[1] = Separator
      /\ one \in Seq(B) /\ Len(one) = 1 /\ one[1] = p
      BY <1>1
<1>5. PacketKey(h) = key
      BY DEF PacketKey
<1> HIDE DEF b, p, B, sep, one
<1>6. k2 \in Seq(B) /\ Len(k2) = 2 /\ k2[1] = p /\ k2[2] = Separator
  <2>0. one \in Seq(B) /\ sep \in Seq(B)
        BY <1>4
  <2>1. /\ k2 \in Seq(B) /\ Len(k2) = Len(one) + Len(sep)
        /\ \A i \in 1..Len(one) : k2[i] = one[i]
        /\ \A i \in 1..Len(sep) : k2[Len(one) + i] = sep[i]
        BY <2>0, Joined
  <2>   HIDE DEF k2
  <2>   QED BY <1>4, <1>1, <2>1
<1> HIDE DEF k2
<1>7. k3 \in Seq(B) /\ Len(k3) = 3 /\ k3[1] = p /\ k3[2] = Separator /\ k3[3] = p
  <2>0. k2 \in Seq(B) /\ one \in Seq(B)
        BY <1>4, <1>6
  <2>1. /\ k3 \in Seq(B) /\ Len(k3) = Len(k2) + Len(one)
        /\ \A i \in 1..Len(k2) : k3[i] = k2[i]
        /\ \A i \in 1..Len(one) : k3[Len(k2) + i] = one[i]
        BY <2>0, Joined
  <2>   HIDE DEF k3
  <2>   QED BY <1>4, <1>6, <1>1, <2>1
<1> HIDE DEF k3
<1>8. k4 \in Seq(B) /\ Len(k4) = 4
      /\ k4[1] = p /\ k4[2] = Separator /\ k4[3] = p /\ k4[4] = Separator
  <2>0. k3 \in Seq(B) /\ sep \in Seq(B)
        BY <1>4, <1>7
  <2>1. /\ k4 \in Seq(B) /\ Len(k4) = Len(k3) + Len(sep)
        /\ \A i \in 1..Len(k3) : k4[i] = k3[i]
        /\ \A i \in 1..Len(sep) : k4[Len(k3) + i] = sep[i]
        BY <2>0, Joined
  <2>   HIDE DEF k4
  <2>   QED BY <1>4, <1>7, <1>1, <2>1
<1> HIDE DEF k4
<1>9. kb \in Seq(B) /\ Len(kb) = HeightLen + 4
      /\ kb[1] = p /\ kb[2] = Separator /\ kb[3] = p /\ kb[4] = Separator
      /\ \A i \in 1..HeightLen : kb[4 + i] = b[i]
  <2>0. k4 \in Seq(B) /\ b \in Seq(B)
        BY <1>3, <1>8
  <2>1. /\ kb \in Seq(B) /\ Len(kb) = Len(k4) + Len(b)
        /\ \A i \in 1..Len(k4) : kb[i] = k4[i]
        /\ \A i \in 1..Len(b) : kb[Len(k4) + i] = b[i]
        BY <2>0, Joined
  <2>   HIDE DEF kb
  <2>   QED BY <1>3, <1>8, <1>1, <2>1
<1> HIDE DEF kb
<1>10. k5 \in Seq(B) /\ Len(k5) = HeightLen + 5
       /\ (\A i \in 1..HeightLen + 4 : k5[i] = kb[i]) /\ k5[HeightLen + 5] = Separator
       BY <1>1, <1>4, <1>9, Joined
<1> HIDE DEF k5
<1>11. key \in Seq(B) /\ Len(key) = HeightLen + 6
       /\ (\A i \in 1..HeightLen + 5 : key[i] = k5[i]) /\ key[HeightLen + 6] = p
       BY <1>1, <1>4, <1>10, Joined
<1> HIDE DEF key
<1>12. \A i \in 1..HeightLen + 4 : key[i] = kb[i]
       BY <1>1, <1>10, <1>11
<1>13. key[1] = p /\ key[2] = Separator /\ key[3] = p /\ key[4] = Separator
       BY <1>1, <1>9, <1>12
<1>14. \A i \in 1..HeightLen : key[4 + i] = b[i]
       BY <1>1, <1>9, <1>12
<1>15. key[5 + HeightLen] = Separator /\ key[6 + HeightLen] = p
       BY <1>1, <1>10, <1>11
<1>   QED BY <1>1, <1>5, <1>11, <1>13, <1>14, <1>15 DEF b, B

\* What stands between the second separator and the next one.
LEMMA ThirdIs ==
    ASSUME NEW h \in ProofHeights
    PROVE  /\ (\A i \in 1..HeightLen : BigEndian(h)[i] # Separator)
                 => ThirdPart(PacketKey(h)) = BigEndian(h)
           /\ (\E i \in 1..HeightLen : BigEndian(h)[i] = Separator)
                 => Len(ThirdPart(PacketKey(h))) < HeightLen
<1> DEFINE key == PacketKey(h)
           b == BigEndian(h)
           n == HeightLen
           seps == {i \in DOMAIN key : key[i] = Separator}
           Second(i) == i \in seps /\ \E j \in seps : {k \in seps : k <= i} = {i, j} /\ i # j
           second == CHOOSE i \in seps : \E j \in seps : {k \in seps : k <= i} = {i, j} /\ i # j
           ends == {i \in seps : i > second} \cup {Len(key) + 1}
           end == Min(ends)
<1>1. /\ key \in Seq(0..Base - 1) /\ Len(key) = n + 6 /\ DOMAIN key = 1..n + 6
      /\ key[1] # Separator /\ key[2] = Separator
      /\ key[3] # Separator /\ key[4] = Separator
      /\ \A i \in 1..n : key[4 + i] = b[i]
      /\ key[5 + n] = Separator /\ key[6 + n] # Separator /\ n \in Nat
      BY KeyBytes, ProofHeightAssumption
<1>2. ThirdPart(key) = SubSeq(key, second + 1, end - 1)
      BY DEF ThirdPart
<1> HIDE DEF key, b
<1>3. seps \in SUBSET (1..n + 6) /\ 2 \in seps /\ 4 \in seps /\ 5 + n \in seps
      /\ 1 \notin seps /\ 3 \notin seps
      BY <1>1
<1>4. second = 4
  <2>1. {k \in seps : k <= 4} = {4, 2}
    <3> HIDE DEF seps
    <3>1. ASSUME NEW k \in seps, k <= 4 PROVE k \in {4, 2}
      <4>1. k \in {1, 2, 3, 4}
            BY <1>1, <1>3, <3>1
      <4>   QED BY <1>3, <4>1
    <3>2. 2 \in seps /\ 4 \in seps /\ 2 <= 4 /\ 4 <= 4
          BY <1>3
    <3> QED BY <3>1, <3>2
  <2>2. Second(4)
        BY <1>3, <2>1
  <2>3. \A i : Second(i) => i = 4
    <3> SUFFICES ASSUME NEW i \in seps, NEW j \in seps, {k \in seps : k <= i} = {i, j}, i # j
                 PROVE  i = 4
        OBVIOUS
    <3> HIDE DEF seps
    <3>1. i \in 1..n + 6 /\ j \in 1..n + 6
          BY <1>3
    <3>2. CASE i > 4
      <4>1. 2 \in {i, j} /\ 4 \in {i, j} /\ i # 2 /\ i # 4
            BY <1>3, <3>1, <3>2
      <4>   QED BY <4>1
    <3>3. CASE i < 4
      <4>1. i = 2
            BY <1>3, <3>1, <3>3
      <4>2. j <= 2 /\ j # 2
        <5>1. j \in {k \in seps : k <= i}
              OBVIOUS
        <5>   QED BY <4>1, <5>1
      <4>3. j = 1
            BY <3>1, <4>2
      <4>   QED BY <1>3, <4>3
    <3>   QED BY <3>1, <3>2, <3>3
  <2>4. second = CHOOSE i : Second(i)
        OBVIOUS
  <2>   HIDE DEF Second
  <2>   QED BY <2>2, <2>3, <2>4
<1>5. end \in ends /\ (\A i \in ends : end <= i) /\ ends \in SUBSET (5..n + 7) /\ 5 + n \in ends
  <2>1. ends \in SUBSET (5..n + 7) /\ 5 + n \in ends
    <3> HIDE DEF seps, second
    <3>1. \A i \in seps : i > second => i \in 5..n + 7
          BY <1>1, <1>3, <1>4
    <3>2. Len(key) + 1 \in 5..n + 7
          BY <1>1
    <3>3. 5 + n > second
          BY <1>1, <1>4
    <3>   QED BY <1>3, <3>1, <3>2, <3>3
  <2> HIDE DEF ends
  <2>2. \E x \in ends : \A y \in ends : x <= y
    <3>1. ends \in SUBSET Nat /\ ends # {}
          BY <2>1
    <3>   QED BY <3>1, Least
  <2>3. end \in ends /\ \A i \in ends : end <= i
        BY <2>2 DEF Min
  <2>   QED BY <2>1, <2>3
<1>6. end \in 5..n + 5 /\ end - 1 \in 4..n + 4
  <2> HIDE DEF end, ends
  <2> QED BY <1>1, <1>5
<1>7. ThirdPart(key) = SubSeq(key, 5, end - 1) /\ Len(ThirdPart(key)) = end - 5
  <2> HIDE DEF end, second
  <2>1. ThirdPart(key) = SubSeq(key, 5, end - 1)
        BY <1>2, <1>4
  <2>   QED BY <1>1, <1>6, <2>1
<1>8. ASSUME \A i \in 1..n : b[i] # Separator
      PROVE  ThirdPart(key) = b
  <2>1. end = n + 5
    <3>1. \A i \in 5..n + 4 : i \notin seps
      <4> SUFFICES ASSUME NEW i \in 5..n + 4 PROVE key[i] # Separator
          OBVIOUS
      <4>1. i - 4 \in 1..n /\ 4 + (i - 4) = i
            BY <1>1
      <4>   QED BY <1>1, <1>8, <4>1
    <3>2. end \in seps \/ end = n + 7
      <4> HIDE DEF seps, end, second
      <4> QED BY <1>1, <1>5
    <3>   HIDE DEF end, seps
    <3>   QED BY <1>1, <1>6, <3>1, <3>2
  <2>2. ThirdPart(key) = [i \in 1..n |-> key[4 + i]]
    <3> HIDE DEF end, n
    <3>1. ThirdPart(key) = SubSeq(key, 5, n + 4)
          BY <1>1, <1>7, <2>1
    <3>2. SubSeq(key, 5, n + 4) = [i \in 1..n |-> key[4 + i]]
          BY <1>1
    <3>   QED BY <3>1, <3>2
  <2>3. b = [i \in 1..n |-> b[i]]
        BY DEF b, BigEndian
  <2>   QED BY <1>1, <2>2, <2>3
<1>9. ASSUME NEW i \in 1..n, b[i] = Separator
      PROVE  Len(ThirdPart(key)) < n
  <2>1. 4 + i \in seps /\ 4 + i > 4
        BY <1>1, <1>9
  <2>2. 4 + i \in ends
        BY <1>4, <2>1
  <2>3. end <= 4 + i
    <3> HIDE DEF end, ends
    <3> QED BY <1>5, <2>2
  <2>   HIDE DEF end
  <2>   QED BY <1>1, <1>6, <1>7, <2>3
<1>   QED BY <1>8, <1>9 DEF key, b

(***************************************************************************)
(* A proof height is recovered from its packet key unless one of its bytes *)
(* is the separator, in which case it counts as no height; no height is    *)
(* ever taken for another one, for any number of bytes and any base        *)
(* (order_poller.go:417-427).                                              *)
(***************************************************************************)
THEOREM HeightIsRecovered == HeightRecovered
<1> SUFFICES ASSUME asked \in ProofHeights
             PROVE  parseProofHeight(PacketKey(asked)) =
                        IF \E i \in 1..HeightLen : BigEndian(asked)[i] = Separator THEN 0 ELSE asked
    BY DEF HeightRecovered
<1>1. CASE \E i \in 1..HeightLen : BigEndian(asked)[i] = Separator
      BY <1>1, ThirdIs DEF parseProofHeight
<1>2. CASE \A i \in 1..HeightLen : BigEndian(asked)[i] # Separator
  <2>1. ThirdPart(PacketKey(asked)) = BigEndian(asked)
        BY <1>2, ThirdIs
  <2>2. Len(BigEndian(asked)) = HeightLen
        BY ProofHeightAssumption DEF BigEndian
  <2>3. ~(HeightLen < HeightLen)
        BY ProofHeightAssumption
  <2>   QED BY <1>2, <2>1, <2>2, <2>3, BytesRead DEF parseProofHeight
<1>   QED BY <1>1, <1>2

----------------------------------------------------------------------------
(* The finalizer.                                                          *)

\* What is selected are packets.
LEMMA SelectedType == \A final : Selected(final) \subseteq Packet
BY DEF Selected, Page, Pending

\* Every step of the finalizer keeps the types.
LEMMA FinTypeKept ==
    ASSUME FinTypeOK, [FinNext]_finVars
    PROVE  FinTypeOK'
<1> USE DEF FinTypeOK
<1>1. CASE Query
      BY <1>1, SelectedType DEF Query, RoundEnds
<1>2. CASE QueryFails
      BY <1>2 DEF QueryFails, RoundFails
<1>3. CASE Broadcast
      BY <1>3 DEF Broadcast
<1>4. CASE BroadcastFails
      BY <1>4 DEF BroadcastFails, RoundFails
<1>5. CASE Finalized
      BY <1>5 DEF Finalized, RoundEnds
<1>6. CASE FinalizeFails
      BY <1>6 DEF FinalizeFails, RoundFails
<1>7. CASE FinDies
      BY <1>7 DEF FinDies
<1>8. CASE FinRestarts
      BY <1>8 DEF FinRestarts
<1>9. CASE PollerReset
      BY <1>9 DEF PollerReset
<1>10. ASSUME NEW ps, packet' = packet \/ Finalize(ps)
       PROVE  packet' \in [Packet -> {"open", "fulfilled", "final", "finalized"}]
       BY <1>10 DEF Finalize
<1>11. CASE HubExecutes
       BY <1>10, <1>11 DEF HubExecutes
<1>12. CASE HubRejects
       BY <1>12 DEF HubRejects
<1>13. CASE HubSettles
       BY <1>10, <1>13 DEF HubSettles
<1>14. ASSUME NEW p \in Packet, PollerNotes(p)
       PROVE  FinTypeOK'
       BY <1>14 DEF PollerNotes
<1>15. ASSUME NEW p \in Packet, NEW from, NEW to \in {"fulfilled", "final", "finalized"},
              Advance(p, from, to)
       PROVE  FinTypeOK'
       BY <1>15 DEF Advance
<1>16. CASE UNCHANGED finVars
       BY <1>16 DEF finVars
<1>   QED BY <1>1, <1>2, <1>3, <1>4, <1>5, <1>6, <1>7, <1>8, <1>9, <1>11, <1>12, <1>13,
             <1>14, <1>15, <1>16 DEF FinNext

----------------------------------------------------------------------------
(* All parts together.                                                     *)

\* A message whose length an int of the code can count, also with the
\* fields of a newer hub around it.
Countable ==
    call # NoCall =>
        /\ Fits(Encoded)
        /\ \A field \in Foreign : Fits(field \o Encoded \o field)

NodeInv == BackedInv /\ KeptInv

ClientInv == ReadyInv /\ KeyringInv

PartsInv ==
    /\ NodeInv
    /\ ClientInv
    /\ FinTypeOK
    /\ LoaderInv
    /\ call = NoCall \/ Callable

\* The client at rest is one that has come up without fulfillers.
LEMMA ClientAtRest == ClientRests => ClientInv
<1> SUFFICES ASSUME ClientRests PROVE ClientInv
    OBVIOUS
<1> USE DEF ClientRests
<1>1. ClientTypeOK
      BY OrderClientAssumption, PartsAssumption DEF ClientTypeOK
<1>2. TxOK /\ Listed /\ Primed /\ Granted /\ Enrolled /\ Gives
      BY DEF TxOK, Listed, Primed, Granted, Enrolled, Gives, NoTx, Phase
<1>3. Cardinality(keys) = 0
      BY FS_EmptySet
<1>   QED BY <1>1, <1>2, <1>3, PartsAssumption DEF ClientInv, ReadyInv, KeyringInv, NoNeedlessAccounts

\* Every part starts as its invariant says, whether it moves or rests.
LEMMA PartsStart == PartsInit => PartsInv
<1> SUFFICES ASSUME PartsInit PROVE PartsInv
    OBVIOUS
<1>1. NodeInv
      BY InitBacked DEF PartsInit, NodeRests, NodeInv
<1>2. ClientInv
      BY ClientInitInv, ClientAtRest DEF PartsInit, ClientInv
<1>3. FinTypeOK
      BY DEF PartsInit, FinInit, FinRests, FinTypeOK
<1>4. LoaderInv
      BY LoaderStarts DEF PartsInit
<1>5. call = NoCall \/ Callable
      BY SampledIsCallable DEF PartsInit
<1>   QED BY <1>1, <1>2, <1>3, <1>4, <1>5 DEF PartsInv

\* A step is one of each part, of which at most one is not a stutter.
LEMMA PartsStep ==
    ASSUME [PartsNext]_partVars
    PROVE  /\ [NodeNext]_nodeVars /\ [ClientNext]_clientVars
           /\ [FinNext]_finVars /\ [LoaderNext]_loaderVars
           /\ call' = call
BY DEF PartsNext, partVars

\* Every step keeps the invariants of all the parts.
LEMMA PartsKept ==
    ASSUME PartsInv, [PartsNext]_partVars
    PROVE  PartsInv'
<1>1. NodeInv'
      BY PartsStep, BackedKept, KeptKept DEF PartsInv, NodeInv
<1>2. ClientInv'
      BY PartsStep, ClientKept DEF PartsInv, ClientInv
<1>3. FinTypeOK'
      BY PartsStep, FinTypeKept DEF PartsInv
<1>4. LoaderInv'
      BY PartsStep, LoaderKept DEF PartsInv
<1>5. (call = NoCall \/ Callable)'
      BY PartsStep DEF PartsInv, Callable, NoCall
<1>   QED BY <1>1, <1>2, <1>3, <1>4, <1>5 DEF PartsInv

\* The invariants hold together.
LEMMA PartsInvariant == PartsSpec => []PartsInv
<1>1. PartsInv /\ [PartsNext]_partVars => PartsInv'
      BY PartsKept
<1>   QED BY <1>1, PartsStart, PTL DEF PartsSpec

(***************************************************************************)
(* Every part keeps its types; the finalizer's batch and the transactions  *)
(* it has given up are about packets the hub has (lp.go:166-171,           *)
(* order_finalizer.go:54-100).                                             *)
(***************************************************************************)
THEOREM PartsTypeCorrect == PartsSpec => []PartsTypeOK
<1>1. PartsInv => PartsTypeOK
      BY DEF PartsInv, NodeInv, ClientInv, BackedInv, ReadyInv, LoaderInv, PartsTypeOK
<1>   QED BY <1>1, PartsInvariant, PTL

(***************************************************************************)
(* In the specification the run checks, too, every message the client may  *)
(* exchange has its size, is read back, and is read by older and by newer  *)
(* versions, if its length can be counted (types/*.pb.go).                 *)
(***************************************************************************)
THEOREM MessagesAreRead ==
    PartsSpec => [](Countable => SizeExact /\ RoundTrip /\ UnknownSkipped)
<1>1. PartsInv => (Countable => SizeExact /\ RoundTrip /\ UnknownSkipped)
  <2> SUFFICES ASSUME PartsInv, Countable
               PROVE  SizeExact /\ RoundTrip /\ UnknownSkipped
      OBVIOUS
  <2>1. CASE call = NoCall
        BY <2>1 DEF SizeExact, RoundTrip, UnknownSkipped
  <2>2. CASE call # NoCall
    <3>1. Callable /\ Fits(Encoded) /\ \A field \in Foreign : Fits(field \o Encoded \o field)
          BY <2>2 DEF PartsInv, Countable
    <3>   QED BY <3>1, SizeIsExact, MessagesComeBack, UnknownsAreSkipped
  <2>   QED BY <2>1, <2>2
<1>   QED BY <1>1, PartsInvariant, PTL
==============================================================================
