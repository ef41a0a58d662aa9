---------------------------- MODULE MCOrderFlow ----------------------------
(***************************************************************************)
(* Small instances of OrderFlow: the values the configurations pick from,  *)
(* a view that leaves out the fields of unreferenced allocations, and the  *)
(* symmetry of the allocations of one id.                                  *)
(***************************************************************************)
EXTENDS OrderFlow_life, TLC

CONSTANTS a1, a2, a3, b1, b2, i1, i2, l1, l2, l3

OneId == [o \in Obj |-> i1]

TwoIds == [o \in Obj |-> IF o \in {a1, a2, a3} THEN i1 ELSE i2]

Coin(n) == [d \in Denom |-> n]

\* Fee updates leave the price where it is, or raise it.
FlatPrice == [i \in Id |-> [t \in Terms |-> Coin(1)]]
RisingPrice == [i \in Id |-> [t \in Terms |-> Coin(t)]]

\* i1 is priced in one denomination, i2 in the others.
FirstDenom == CHOOSE d \in Denom : TRUE
MixedPrice ==
    [i \in Id |-> [t \in Terms |-> [d \in Denom |-> IF (d = FirstDenom) = (i = i1) THEN 1 ELSE 0]]]

AllAccept == [v \in Grant |-> [i \in Id |-> [t \in Terms |-> LP]]]

\* l1's first grant accepts the orders and its second does not; l2's are the
\* other way round.
Changing == [v \in Grant |-> [i \in Id |-> [t \in Terms |-> IF v = 1 THEN {l1} ELSE {l2}]]]

\* Both orders are of one rollapp, i2 of a later block; the height of i1's can
\* not be read.
OneRollapp == [i \in Id |-> "rollapp"]
Heights == [i \in Id |-> IF i = i1 THEN 1 ELSE 2]

Deposit1 == [l \in LP |-> Coin(1)]
Deposit2 == [l \in LP |-> Coin(2)]
Deposit3 == [l \in LP |-> Coin(3)]
Deposit4 == [l \in LP |-> Coin(4)]

SameRank == [l \in LP |-> 0]

----------------------------------------------------------------------------
\* A field of an unreferenced allocation is never read before it is set.
Seen(f, blank) == [o \in Obj |-> IF Unreferenced(o) THEN blank ELSE f[o]]

Referenced == {o \in Obj : ~Unreferenced(o)}

View ==
    <<up, pool, checking \cap Referenced, valid \cap Referenced, fundVars,
      Seen(terms, 0), Seen(proofHeight, 0), Seen(lpAddress, Nil), expired \cap Referenced,
      Seen(failedOrderHash, 0), sourceVars, failedOrderHashes, pipeVars, hubVars, txVars>>

\* The allocations of one id are interchangeable, and so are the fulfillers.
Symmetry ==
    {p @@ q : p \in {r \in Permutations(Obj) : \A o \in Obj : IdOf[r[o]] = IdOf[o]},
              q \in Permutations(Fulfiller)}
=============================================================================
