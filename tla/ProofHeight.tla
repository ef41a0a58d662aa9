----------------------------- MODULE ProofHeight -----------------------------
(***************************************************************************)
(* parseProofHeight (src/eibc/order_poller.go): the poller cuts the proof  *)
(* height of an order out of the hub's packet key, in which the eight      *)
(* bytes of the height stand between separators that are bytes themselves. *)
(***************************************************************************)
EXTENDS Naturals, Sequences, FiniteSetsExt

CONSTANTS
    Base,       \* number of byte values, 256 scaled down
    Separator,  \* the byte '/'
    HeightLen   \* bytes of a height, 8 scaled down

ASSUME ProofHeightAssumption ==
    /\ Base \in Nat \ {0, 1} /\ Separator \in 0..Base - 1
    /\ HeightLen \in Nat \ {0}

VARIABLE asked   \* the height of a packet whose key is parsed

Power[n \in 0..HeightLen] == IF n = 0 THEN 1 ELSE Base * Power[n - 1]

ProofHeights == 0..Power[HeightLen] - 1

NoHeight == Power[HeightLen]

HeightInit == asked \in ProofHeights

\* External: the hub's packet key, status/rollapp/height/type.
BigEndian(h) == [i \in 1..HeightLen |-> (h \div Power[HeightLen - i]) % Base]

PacketKey(h) ==
    LET part == <<(Separator + 1) % Base>>
        sep == <<Separator>>
    IN  part \o sep \o part \o sep \o BigEndian(h) \o sep \o part

\* The third part of the key (strings.Split).
ThirdPart(key) ==
    LET seps == {i \in DOMAIN key : key[i] = Separator}
        second == CHOOSE i \in seps : \E j \in seps : {k \in seps : k <= i} = {i, j} /\ i # j
        ends == {i \in seps : i > second} \cup {Len(key) + 1}
    IN  SubSeq(key, second + 1, Min(ends) - 1)

\* External: sdk.BigEndianToUint64, which panics on fewer bytes.
BigEndianToUint64(bs) == MapThenSumSet(LAMBDA i : bs[i] * Power[HeightLen - i], 1..HeightLen)

\* Bug variant: the missing bytes are taken to be zero.
parseProofHeight_Padded(key) ==
    BigEndianToUint64([i \in 1..HeightLen |->
        IF i <= Len(ThirdPart(key)) THEN ThirdPart(key)[i] ELSE 0])

\* The recovered panic leaves 0.
parseProofHeight(key) ==
    IF Len(ThirdPart(key)) < HeightLen THEN 0 ELSE BigEndianToUint64(ThirdPart(key))

(***************************************************************************)
(* A height with the separator among its bytes is not recovered but        *)
(* counts as no height, which every filter lets pass; no height is ever    *)
(* taken for another one (order_poller.go:417-427).                        *)
(***************************************************************************)
HeightRecovered ==
    asked \in ProofHeights =>
        parseProofHeight(PacketKey(asked)) =
            IF \E i \in 1..HeightLen : BigEndian(asked)[i] = Separator THEN 0 ELSE asked
=============================================================================
