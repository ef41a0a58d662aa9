-------------------------- MODULE HubMessages_proofs --------------------------
(***************************************************************************)
(* What is marshalled has the size that was allocated and is read back,    *)
(* for every message of every codec, whatever its fields hold.             *)
(*                                                                         *)
(* Numbers come first: a varint has as many groups as sov counts, and      *)
(* reading it where it stands in a buffer gives the number.  The recursive *)
(* loops of skip and Unmarshal are functions along the rounds, which exist *)
(* by the module Recursion; a round takes a byte at least, so they end.    *)
(* A row of the marshaller stands somewhere in the buffer (Stands), and a  *)
(* loop that has come there (Reached) comes to its end with the field      *)
(* merged, or left as it was if the table does not have it (RowRead).      *)
(* Going from row to row, a whole message is read wherever it stands       *)
(* (BufferRead), hence also between fields of a newer hub.                 *)
(*                                                                         *)
(* What remains of the sixteen messages is that the tables of their three  *)
(* methods agree (CodecsAgree).  A message is taken to be one whose length *)
(* an int of the code can count (Fits).                                    *)
(***************************************************************************)
EXTENDS HubMessages, Recursion, TLAPS

----------------------------------------------------------------------------
(* Numbers and positions.                                                  *)

\* The powers of two up to the largest width.
LEMMA TwoTo ==
    \A x :
        /\ x = 0 => 2^x = 1
        /\ x = 1 => 2^x = 2
        /\ x = 2 => 2^x = 4
        /\ x = 3 => 2^x = 8
        /\ x = 4 => 2^x = 16
        /\ x = 5 => 2^x = 32
        /\ x = 6 => 2^x = 64
        /\ x = 7 => 2^x = 128
        /\ x = 8 => 2^x = 256
        /\ x = 9 => 2^x = 512
        /\ x = 10 => 2^x = 1024
        /\ x = 11 => 2^x = 2048
        /\ x = 12 => 2^x = 4096
        /\ x = 13 => 2^x = 8192
        /\ x = 14 => 2^x = 16384
        /\ x = 15 => 2^x = 32768
        /\ x = 16 => 2^x = 65536
        /\ x = 17 => 2^x = 131072
        /\ x = 18 => 2^x = 262144
        /\ x = 19 => 2^x = 524288
        /\ x = 20 => 2^x = 1048576
        /\ x = 21 => 2^x = 2097152
        /\ x = 22 => 2^x = 4194304
        /\ x = 23 => 2^x = 8388608
        /\ x = 24 => 2^x = 16777216
<1>1. \A x :
        /\ x = 0 => 2^x = 2^0
        /\ x = 1 => 2^x = 2^1
        /\ x = 2 => 2^x = 2^2
        /\ x = 3 => 2^x = 2^3
        /\ x = 4 => 2^x = 2^4
        /\ x = 5 => 2^x = 2^5
        /\ x = 6 => 2^x = 2^6
        /\ x = 7 => 2^x = 2^7
        /\ x = 8 => 2^x = 2^8
        /\ x = 9 => 2^x = 2^9
        /\ x = 10 => 2^x = 2^10
        /\ x = 11 => 2^x = 2^11
        /\ x = 12 => 2^x = 2^12
        /\ x = 13 => 2^x = 2^13
        /\ x = 14 => 2^x = 2^14
        /\ x = 15 => 2^x = 2^15
        /\ x = 16 => 2^x = 2^16
        /\ x = 17 => 2^x = 2^17
        /\ x = 18 => 2^x = 2^18
        /\ x = 19 => 2^x = 2^19
        /\ x = 20 => 2^x = 2^20
        /\ x = 21 => 2^x = 2^21
        /\ x = 22 => 2^x = 2^22
        /\ x = 23 => 2^x = 2^23
        /\ x = 24 => 2^x = 2^24
      BY Zenon
<1>   QED BY <1>1

\* The powers of two of the widths.
LEMMA Powers ==
    \/ /\ Width = 16 /\ 2^Width = 65536 /\ 2^(Width - 1) = 32768
       /\ 2^(Width \div 2) = 256 /\ 2^(Width \div 2 - 1) = 128
    \/ /\ Width = 18 /\ 2^Width = 262144 /\ 2^(Width - 1) = 131072
       /\ 2^(Width \div 2) = 512 /\ 2^(Width \div 2 - 1) = 256
    \/ /\ Width = 20 /\ 2^Width = 1048576 /\ 2^(Width - 1) = 524288
       /\ 2^(Width \div 2) = 1024 /\ 2^(Width \div 2 - 1) = 512
    \/ /\ Width = 22 /\ 2^Width = 4194304 /\ 2^(Width - 1) = 2097152
       /\ 2^(Width \div 2) = 2048 /\ 2^(Width \div 2 - 1) = 1024
    \/ /\ Width = 24 /\ 2^Width = 16777216 /\ 2^(Width - 1) = 8388608
       /\ 2^(Width \div 2) = 4096 /\ 2^(Width \div 2 - 1) = 2048
<1>1. Width \in {16, 18, 20, 22, 24}
      BY WidthAssumption
<1>   QED BY <1>1, TwoTo, SMT

\* The bytes of a number.
LEMMA VarintBytes ==
    ASSUME NEW v \in Nat
    PROVE  /\ Groups(v) \in 1..4
           /\ encodeVarint(v) \in Bytes /\ Len(encodeVarint(v)) = Groups(v)
<1>1. Groups(v) \in 1..4
      BY DEF Groups
<1>2. /\ encodeVarint(v) \in Seq(Nat)
      /\ Len(encodeVarint(v)) = Groups(v)
  <2>1. \A k \in 1..Groups(v) : encodeVarint(v)[k] \in Nat
    <3>1. 2^7 = 128
          OBVIOUS
    <3>2. ASSUME NEW k \in 1..Groups(v)
          PROVE  encodeVarint(v)[k] \in Nat
      <4>1. 7 * (k - 1) \in {0, 7, 14, 21}
            BY <1>1
      <4>2. 2^(7 * (k - 1)) \in {1, 128, 16384, 2097152}
            BY <4>1, TwoTo, SMT
      <4>   QED BY <3>1, <4>2 DEF encodeVarint
    <3>   QED BY <3>2
  <2>2. encodeVarint(v) = [k \in 1..Groups(v) |-> encodeVarint(v)[k]]
        BY DEF encodeVarint
  <2>   QED BY <1>1, <2>1, <2>2
<1>   QED BY <1>1, <1>2 DEF Bytes

\* How many bytes the marshaller and Size give a number is the same.
LEMMA SizeOfVarint ==
    ASSUME NEW v \in Nat, v < 2^Width
    PROVE  sov(v) = Groups(v)
<1> DEFINE u == IF v = 0 THEN 1 ELSE v
           P(n) == u < 2^n /\ (n > 0 => u >= 2^(n - 1))
           n == CHOOSE k \in 0..Width : P(k)
<1>1. u \in Nat \ {0} /\ u < 2^Width /\ Groups(u) = Groups(v)
  <2>1. 2^7 = 128 /\ 2^14 = 16384 /\ 2^21 = 2097152
        OBVIOUS
  <2>2. 2^Width > 1
        BY Powers
  <2>   QED BY <2>1, <2>2 DEF Groups
<1>2. Width \in 16..24
      BY WidthAssumption
<1> HIDE DEF u
<1>3. \E k \in 0..Width : P(k)
  <2> DEFINE T == {k \in 0..Width : u < 2^k}
  <2>1. Width \in T /\ T \in SUBSET Nat
        BY <1>1, <1>2
  <2>2. PICK k \in T : \A j \in T : k <= j
    <3> HIDE DEF T
    <3> QED BY <2>1, Least
  <2>3. ASSUME k > 0
        PROVE  u >= 2^(k - 1)
    <3>1. k - 1 \in 0..Width /\ k - 1 \notin T
          BY <1>2, <2>2, <2>3
    <3>2. 2^(k - 1) \in Nat
          BY <1>2, <3>1, TwoTo, SMT
    <3>   QED BY <1>1, <3>1, <3>2
  <2>   QED BY <2>2, <2>3
<1>4. n \in 0..Width /\ P(n)
      BY <1>3
<1>5. Len64(u) = n
      BY DEF Len64
<1> HIDE DEF n
<1>6. (n + 6) \div 7 = Groups(u)
  <2>1. n \in 0..24 /\ u < 2^n /\ (n > 0 => u >= 2^(n - 1))
        BY <1>2, <1>4
  <2>2. 2^7 = 128 /\ 2^14 = 16384 /\ 2^21 = 2097152
        OBVIOUS
  <2>3. n # 0
        BY <2>1, <1>1, TwoTo, SMT
  <2>4. CASE n \in 1..7
    <3>1. u < 128
      <4>1. 2^n \in 1..128
            BY <2>4, TwoTo, SMT
      <4>   QED BY <1>1, <2>1, <4>1
    <3>   QED BY <2>2, <2>4, <3>1, <1>1 DEF Groups
  <2>5. CASE n \in 8..14
    <3>1. u >= 128 /\ u < 16384
          BY <2>1, <2>5, TwoTo, <1>1
    <3>   QED BY <2>2, <2>5, <3>1, <1>1 DEF Groups
  <2>6. CASE n \in 15..21
    <3>1. u >= 16384 /\ u < 2097152
          BY <2>1, <2>6, TwoTo, <1>1
    <3>   QED BY <2>2, <2>6, <3>1, <1>1 DEF Groups
  <2>7. CASE n \in 22..24
    <3>1. u >= 2097152
          BY <2>1, <2>7, TwoTo, <1>1
    <3>   QED BY <2>2, <2>7, <3>1, <1>1 DEF Groups
  <2>   QED BY <2>1, <2>3, <2>4, <2>5, <2>6, <2>7
<1>7. sov(v) = Groups(v)
      BY <1>1, <1>5, <1>6 DEF sov, u
<1>   QED BY <1>7

\* The sum over at most four positions in a row.
LEMMA FourInARow ==
    ASSUME NEW i \in Nat, NEW n \in 0..3, NEW w \in [i..i + n -> Nat]
    PROVE  /\ IsFiniteSet(i..i + n)
           /\ SumOf(w, i..i + n) = w[i] + (IF n > 0 THEN w[i + 1] ELSE 0)
                  + (IF n > 1 THEN w[i + 2] ELSE 0) + (IF n > 2 THEN w[i + 3] ELSE 0)
<1> DEFINE S == i..i + n
<1>1. i \in Int /\ i + n \in Int
      OBVIOUS
<1>2. IsFiniteSet(S)
      BY <1>1, FS_Interval
<1>3. \A k \in 0..3 : k <= n => i..i + k \in SUBSET S
      OBVIOUS
<1>4. \A T \in SUBSET S :
         /\ SumOf(w, T) \in Nat
         /\ T = {} => SumOf(w, T) = 0
         /\ \A x \in T : SumOf(w, T) = w[x] + SumOf(w, T \ {x})
  <2> HIDE DEF S
  <2>1. w \in [S -> Nat]
        BY DEF S
  <2>   QED BY <1>2, <2>1, SumSteps
<1>5. SumOf(w, i..i) = w[i]
  <2>1. i..i \in SUBSET S /\ i \in i..i /\ (i..i) \ {i} = {} /\ {} \in SUBSET S
        OBVIOUS
  <2>2. w[i] \in Nat
        OBVIOUS
  <2> HIDE DEF S
  <2>3. SumOf(w, i..i) = w[i] + SumOf(w, (i..i) \ {i})
        BY <1>4, <2>1
  <2>4. SumOf(w, {}) = 0
        BY <1>4, <2>1
  <2>5. SumOf(w, (i..i) \ {i}) = SumOf(w, {})
        BY <2>1, Zenon
  <2>   QED BY <2>2, <2>3, <2>4, <2>5
<1>6. ASSUME NEW k \in 1..3, k <= n
      PROVE  SumOf(w, i..i + k) = w[i + k] + SumOf(w, i..i + (k - 1))
  <2>1. i..i + k \in SUBSET S /\ i + k \in i..i + k /\ (i..i + k) \ {i + k} = i..i + (k - 1)
        BY <1>6
  <2> HIDE DEF S
  <2>   QED BY <1>4, <2>1
<1>7. i + 0 = i /\ 1 - 1 = 0 /\ 2 - 1 = 1 /\ 3 - 1 = 2
      OBVIOUS
<1>8. \A k \in 0..3 : k <= n => w[i + k] \in Nat
      OBVIOUS
<1> HIDE DEF S
<1>9. n >= 1 => SumOf(w, i..i + 1) = w[i + 1] + w[i]
      BY <1>5, <1>6, <1>7
<1>10. n >= 2 => SumOf(w, i..i + 2) = w[i + 2] + SumOf(w, i..i + 1)
      BY <1>6, <1>7
<1>11. n >= 3 => SumOf(w, i..i + 3) = w[i + 3] + SumOf(w, i..i + 2)
      BY <1>6, <1>7
<1>12. CASE n = 0
      BY <1>2, <1>5, <1>7, <1>8, <1>12 DEF S
<1>13. CASE n = 1
      BY <1>2, <1>8, <1>9, <1>13 DEF S
<1>14. CASE n = 2
      BY <1>2, <1>8, <1>9, <1>10, <1>14 DEF S
<1>15. CASE n = 3
      BY <1>2, <1>8, <1>9, <1>10, <1>11, <1>15 DEF S
<1>   QED BY <1>12, <1>13, <1>14, <1>15

\* What the groups from i to j are worth, as the code adds them up.
Worth(bs, i, j) == MapThenSumSet(LAMBDA k : (bs[k] % 2^7) * 2^(7 * (k - i)), i..j)

\* The same without powers, for n + 1 groups.
Added(bs, i, n) ==
    (bs[i] % 128) + (IF n > 0 THEN 128 * (bs[i + 1] % 128) ELSE 0)
        + (IF n > 1 THEN 16384 * (bs[i + 2] % 128) ELSE 0)
        + (IF n > 2 THEN 2097152 * (bs[i + 3] % 128) ELSE 0)

\* The groups add up to the number they stand for.
LEMMA WorthIs ==
    ASSUME NEW bs \in Bytes, NEW i \in 1..Len(bs), NEW n \in 0..3, i + n <= Len(bs)
    PROVE  /\ \A x \in i..i + n : bs[x] % 128 \in 0..127
           /\ Worth(bs, i, i + n) = Added(bs, i, n)
<1> DEFINE S == i..i + n
           E(k) == (bs[k] % 2^7) * 2^(7 * (k - i))
           w == [k \in S |-> E(k)]
           P(f) == f = [s \in SUBSET S |-> IF s = {} THEN 0
                            ELSE E(Pick(s)) + f[s \ {Pick(s)}]]
           H == CHOOSE f : P(f)
<1>0. i \in Nat
      OBVIOUS
<1>1. \A x \in S : bs[x] \in Nat /\ bs[x] % 128 \in 0..127
  <2>1. \A h \in Nat : h % 128 \in 0..127
        OBVIOUS
  <2>2. \A x \in S : x \in 1..Len(bs)
        OBVIOUS
  <2>3. \A x \in 1..Len(bs) : bs[x] \in Nat
        BY DEF Bytes
  <2>   QED BY <2>1, <2>2, <2>3
<1>2. ASSUME NEW x \in S
      PROVE  /\ x \in {i, i + 1, i + 2, i + 3}
             /\ x = i => w[x] = bs[x] % 128
             /\ x = i + 1 => w[x] = 128 * (bs[x] % 128)
             /\ x = i + 2 => w[x] = 16384 * (bs[x] % 128)
             /\ x = i + 3 => w[x] = 2097152 * (bs[x] % 128)
             /\ w[x] \in Nat
  <2>1. w[x] = (bs[x] % 2^7) * 2^(7 * (x - i)) /\ 2^7 = 128
        OBVIOUS
  <2>2. \/ x = i /\ 7 * (x - i) = 0
        \/ x = i + 1 /\ 7 * (x - i) = 7
        \/ x = i + 2 /\ 7 * (x - i) = 14
        \/ x = i + 3 /\ 7 * (x - i) = 21
        BY <1>0
  <2> DEFINE e == 7 * (x - i)
  <2>2a. e \in Nat
        BY <2>2
  <2> HIDE DEF e, w
  <2>3. /\ e = 0 => 2^e = 1
        /\ e = 7 => 2^e = 128
        /\ e = 14 => 2^e = 16384
        /\ e = 21 => 2^e = 2097152
    <3>1. /\ e = 0 => 2^e = 2^0
          /\ e = 7 => 2^e = 2^7
          /\ e = 14 => 2^e = 2^14
          /\ e = 21 => 2^e = 2^21
          BY Zenon
    <3>   QED BY <3>1, SMT
  <2>4. \/ x = i /\ 2^e = 1
        \/ x = i + 1 /\ 2^e = 128
        \/ x = i + 2 /\ 2^e = 16384
        \/ x = i + 3 /\ 2^e = 2097152
    <3>1. \/ x = i /\ e = 0
          \/ x = i + 1 /\ e = 7
          \/ x = i + 2 /\ e = 14
          \/ x = i + 3 /\ e = 21
          BY <2>2 DEF e
    <3>   QED BY <1>0, <2>3, <3>1, SMT
  <2>5. w[x] = (bs[x] % 128) * 2^e
        BY <2>1 DEF e
  <2>   QED BY <1>0, <1>1, <2>2, <2>4, <2>5, SMT
<1>3. w \in [S -> Nat] /\ IsFiniteSet(S)
  <2>1. w = [x \in S |-> w[x]]
        OBVIOUS
  <2> HIDE DEF w
  <2>2. w \in [S -> Nat]
        BY <1>2, <2>1
  <2>   QED BY <2>2, <1>0, FourInARow
<1>4. SumOf(w, S) = Worth(bs, i, i + n)
  <2>1. \A s \in SUBSET S : s # {} => w[Pick(s)] = E(Pick(s))
        BY PickIn
  <2>2. Worth(bs, i, i + n) = H[S]
        BY DEF Worth, MapThenSumSet, MapThenFoldSet, Pick
  <2>3. PICK g \in [SUBSET S -> Nat] : Adds(g, w, S)
    <3> HIDE DEF w, S
    <3> QED BY <1>3, AddsExists
  <2>4. \A f : P(f) <=> Adds(f, w, S)
    <3> HIDE DEF w, E
    <3> QED BY <2>1 DEF Adds
  <2>5. Adds(H, w, S)
    <3> HIDE DEF P, w, E
    <3> QED BY <2>3, <2>4
  <2>6. \A s \in SUBSET S : g[s] = H[s]
    <3> HIDE DEF H, w, S
    <3> QED BY <1>3, <2>3, <2>5, AddsUnique
  <2>7. SumOf(w, S) = g[S]
    <3>1. S \in SUBSET S
          OBVIOUS
    <3> HIDE DEF H, w, S
    <3>2. \A T \in SUBSET S : SumOf(w, T) = g[T]
          BY <1>3, <2>3, SumIs
    <3>   QED BY <3>1, <3>2
  <2>   QED BY <2>2, <2>6, <2>7
<1>5. SumOf(w, S) = w[i] + (IF n > 0 THEN w[i + 1] ELSE 0)
                  + (IF n > 1 THEN w[i + 2] ELSE 0) + (IF n > 2 THEN w[i + 3] ELSE 0)
  <2> HIDE DEF w
  <2> QED BY <1>0, <1>3, FourInARow
<1> HIDE DEF w
<1>6. /\ i \in S
      /\ n > 0 => i + 1 \in S
      /\ n > 1 => i + 2 \in S
      /\ n > 2 => i + 3 \in S
      BY <1>0
<1> HIDE DEF S
<1>7. /\ w[i] = bs[i] % 128
      /\ n > 0 => w[i + 1] = 128 * (bs[i + 1] % 128)
      /\ n > 1 => w[i + 2] = 16384 * (bs[i + 2] % 128)
      /\ n > 2 => w[i + 3] = 2097152 * (bs[i + 3] % 128)
      BY <1>0, <1>1, <1>2, <1>6, SMT
<1>   QED BY <1>1, <1>4, <1>5, <1>7, SMT DEF S, Added

\* s occupies the positions of bs after p.
Stands(bs, p, s) ==
    /\ p + Len(s) <= Len(bs)
    /\ \A k \in p + 1..p + Len(s) : bs[k] = s[k - p]

\* The bytes that may end a number that starts at i.
Ends(bs, i) == {j \in i..Len(bs) : bs[j] < 2^7 /\ 7 * (j - i) < Width}

\* The error is not a result.
LEMMA NoError ==
    \A a, b : Error # [value |-> a, next |-> b] /\ Error # [next |-> a, depth |-> b]
              /\ Error # [next |-> a] /\ Error # [at |-> a, msg |-> b]
BY DEF Error

\* The number ends at the first byte that may end it.
LEMMA VarintIs ==
    ASSUME NEW bs \in Bytes, NEW i \in Nat \ {0}
    PROVE  /\ Ends(bs, i) = {} => Varint(bs, i) = Error
           /\ \A j \in Ends(bs, i) : (\A k \in Ends(bs, i) : j <= k) =>
                 /\ j - i \in 0..3 /\ j \in Nat /\ i \in 1..Len(bs)
                 /\ Varint(bs, i) = [value |-> Worth(bs, i, j) % 2^Width, next |-> j + 1]
<1> DEFINE last == {j \in i..i + Width \div 7 :
                       j <= Len(bs) /\ bs[j] < 2^7 /\ 7 * (j - i) < Width}
<1>0. last = Ends(bs, i)
  <2>1. Width \in Nat /\ Width \div 7 \in Nat /\ Len(bs) \in Nat
        BY WidthAssumption DEF Bytes
  <2>2. \A j \in Nat : j >= i /\ 7 * (j - i) < Width => j <= i + Width \div 7
        BY <2>1
  <2>   QED BY <2>1, <2>2 DEF Ends
<1>00. Varint(bs, i) =
          IF last = {} THEN Error
          ELSE [value |-> Worth(bs, i, Min(last)) % 2^Width, next |-> Min(last) + 1]
      BY Zenon DEF Varint, Worth
<1> HIDE DEF last
<1>1. Ends(bs, i) = {} => Varint(bs, i) = Error
      BY <1>0, <1>00
<1>2. ASSUME NEW j \in Ends(bs, i), \A k \in Ends(bs, i) : j <= k
      PROVE  /\ j - i \in 0..3 /\ j \in Nat /\ i \in 1..Len(bs)
             /\ Varint(bs, i) = [value |-> Worth(bs, i, j) % 2^Width, next |-> j + 1]
  <2>1. Ends(bs, i) \in SUBSET Nat
        BY DEF Ends
  <2>2. Min(Ends(bs, i)) = j
    <3>1. \A x \in Ends(bs, i) : (\A k \in Ends(bs, i) : x <= k) => x = j
          BY <1>2, <2>1
    <3>   QED BY <1>2, <3>1 DEF Min
  <2>3. Width \in Nat /\ Width <= 24 /\ Len(bs) \in Nat
        BY WidthAssumption DEF Bytes
  <2>4. j \in i..Len(bs) /\ 7 * (j - i) < Width
        BY DEF Ends
  <2>5. j - i \in 0..3 /\ j \in Nat /\ i \in 1..Len(bs)
        BY <2>3, <2>4
  <2>6. Ends(bs, i) # {}
        OBVIOUS
  <2>7. Varint(bs, i) = [value |-> Worth(bs, i, Min(Ends(bs, i))) % 2^Width,
                         next |-> Min(Ends(bs, i)) + 1]
        BY <1>0, <1>00, <2>6
  <2>   QED BY <2>2, <2>5, <2>7
<1>   QED BY <1>1, <1>2

\* What reading a number can give.
LEMMA VarintType ==
    ASSUME NEW bs \in Bytes, NEW i \in Nat \ {0}
    PROVE  \/ Varint(bs, i) = Error
           \/ /\ Varint(bs, i) # Error
              /\ Varint(bs, i).value \in Nat /\ Varint(bs, i).next \in i + 1..Len(bs) + 1
              /\ Varint(bs, i).value < 2^Width
<1>1. CASE Ends(bs, i) = {}
      BY <1>1, VarintIs
<1>2. CASE Ends(bs, i) # {}
  <2>1. Ends(bs, i) \in SUBSET Nat /\ Ends(bs, i) \in SUBSET (1..Len(bs))
        BY DEF Ends
  <2>2. PICK j \in Ends(bs, i) : \A k \in Ends(bs, i) : j <= k
        BY <1>2, <2>1, Least
  <2>3. /\ j - i \in 0..3 /\ j \in Nat /\ i \in 1..Len(bs)
        /\ Varint(bs, i) = [value |-> Worth(bs, i, j) % 2^Width, next |-> j + 1]
        BY <2>2, VarintIs
  <2>4. j = i + (j - i) /\ j \in i..Len(bs)
        BY <2>1, <2>3
  <2>5. Worth(bs, i, j) \in Nat
    <3>1. PICK n \in 0..3 : j = i + n
          BY <2>3, <2>4
    <3>2. i + n <= Len(bs)
          BY <2>4, <3>1
    <3>3. /\ \A x \in i..i + n : bs[x] % 128 \in 0..127
          /\ Worth(bs, i, i + n) = Added(bs, i, n)
          BY <2>3, <3>2, WorthIs
    <3>4. /\ bs[i] % 128 \in Nat /\ (n > 0 => bs[i + 1] % 128 \in Nat)
          /\ (n > 1 => bs[i + 2] % 128 \in Nat) /\ (n > 2 => bs[i + 3] % 128 \in Nat)
          BY <3>3, SMT
    <3>   QED BY <3>1, <3>3, <3>4, SMT DEF Added
  <2>6. 2^Width \in Nat \ {0}
        BY Powers
  <2>7. Worth(bs, i, j) % 2^Width \in 0..2^Width - 1
        BY <2>5, <2>6, Division
  <2>   QED BY <2>3, <2>4, <2>6, <2>7, NoError
<1>   QED BY <1>1, <1>2

\* What the marshaller writes for a number is read back.
LEMMA VarintReads ==
    ASSUME NEW bs \in Bytes, NEW p \in Nat, NEW v \in Nat, v < 2^Width,
           Stands(bs, p, encodeVarint(v))
    PROVE  Varint(bs, p + 1) = [value |-> v, next |-> p + 1 + Groups(v)]
<1> DEFINE i == p + 1
           n == Groups(v) - 1
           j == i + n
<1>1. n \in 0..3 /\ i \in Nat \ {0} /\ j \in Nat /\ Groups(v) \in 1..4
      /\ Len(encodeVarint(v)) = Groups(v) /\ Len(bs) \in Nat
  <2>1. Groups(v) \in 1..4 /\ Len(encodeVarint(v)) = Groups(v)
        BY VarintBytes
  <2>2. Len(bs) \in Nat
        BY DEF Bytes
  <2>   QED BY <2>1, <2>2
<1>2. j <= Len(bs) /\ i \in 1..Len(bs)
      BY <1>1 DEF Stands
<1>3. ASSUME NEW x \in i..j
      PROVE  bs[x] = ((v \div 2^(7 * (x - i))) % 128) + (IF x < j THEN 128 ELSE 0)
  <2>1. x \in p + 1..p + Len(encodeVarint(v)) /\ x - p \in 1..Groups(v) /\ 2^7 = 128
        BY <1>1
  <2>2. bs[x] = encodeVarint(v)[x - p]
        BY <2>1 DEF Stands
  <2>3. encodeVarint(v)[x - p] = ((v \div 2^(7 * (x - p - 1))) % 2^7)
                                     + (IF x - p < Groups(v) THEN 2^7 ELSE 0)
        BY <2>1 DEF encodeVarint
  <2>4. x - p - 1 = x - i /\ (x - p < Groups(v) <=> x < j)
        BY <1>1
  <2>   QED BY <2>1, <2>2, <2>3, <2>4
<1> HIDE DEF n
<1>4. /\ bs[i] = (v % 128) + (IF n > 0 THEN 128 ELSE 0)
      /\ n > 0 => bs[i + 1] = ((v \div 128) % 128) + (IF n > 1 THEN 128 ELSE 0)
      /\ n > 1 => bs[i + 2] = ((v \div 16384) % 128) + (IF n > 2 THEN 128 ELSE 0)
      /\ n > 2 => bs[i + 3] = (v \div 2097152) % 128
  <2>1. /\ 7 * (i - i) = 0 /\ 7 * ((i + 1) - i) = 7
        /\ 7 * ((i + 2) - i) = 14 /\ 7 * ((i + 3) - i) = 21
        BY <1>1
  <2>2. \A e : /\ e = 0 => 2^e = 2^0
               /\ e = 7 => 2^e = 2^7
               /\ e = 14 => 2^e = 2^14
               /\ e = 21 => 2^e = 2^21
        BY Zenon
  <2>3. /\ i \in i..j /\ (n > 0 => i + 1 \in i..j) /\ (n > 1 => i + 2 \in i..j)
        /\ (n > 2 => i + 3 \in i..j)
        /\ i < j <=> n > 0
        /\ i + 1 < j <=> n > 1
        /\ i + 2 < j <=> n > 2
        /\ ~(i + 3 < j)
        BY <1>1
  <2>4. /\ 2^(7 * (i - i)) = 2^0 /\ 2^(7 * ((i + 1) - i)) = 2^7
        /\ 2^(7 * ((i + 2) - i)) = 2^14 /\ 2^(7 * ((i + 3) - i)) = 2^21
        BY <2>1, <2>2, Zenon
  <2>5. v \div 1 = v
        OBVIOUS
  <2>6. bs[i] = (v % 128) + (IF n > 0 THEN 128 ELSE 0)
    <3>1. bs[i] = ((v \div 2^(7 * (i - i))) % 128) + (IF i < j THEN 128 ELSE 0)
          BY <1>3, <2>3
    <3>   QED BY <2>3, <2>4, <2>5, <3>1, SMT
  <2>7. ASSUME n > 0
        PROVE  bs[i + 1] = ((v \div 128) % 128) + (IF n > 1 THEN 128 ELSE 0)
    <3>1. bs[i + 1] = ((v \div 2^(7 * ((i + 1) - i))) % 128) + (IF i + 1 < j THEN 128 ELSE 0)
          BY <1>3, <2>3, <2>7
    <3>   QED BY <2>3, <2>4, <3>1, SMT
  <2>8. ASSUME n > 1
        PROVE  bs[i + 2] = ((v \div 16384) % 128) + (IF n > 2 THEN 128 ELSE 0)
    <3>1. bs[i + 2] = ((v \div 2^(7 * ((i + 2) - i))) % 128) + (IF i + 2 < j THEN 128 ELSE 0)
          BY <1>3, <2>3, <2>8
    <3>   QED BY <2>3, <2>4, <3>1, SMT
  <2>9. ASSUME n > 2
        PROVE  bs[i + 3] = (v \div 2097152) % 128
    <3>1. bs[i + 3] = ((v \div 2^(7 * ((i + 3) - i))) % 128) + (IF i + 3 < j THEN 128 ELSE 0)
          BY <1>3, <2>3, <2>9
    <3>2. (v \div 2097152) % 128 \in Nat
          OBVIOUS
    <3>   QED BY <2>3, <2>4, <3>1, <3>2, SMT
  <2>   QED BY <2>6, <2>7, <2>8, <2>9, SMT
<1>5. /\ n = 0 => v < 128
      /\ n = 1 => v < 16384 /\ v >= 128
      /\ n = 2 => v < 2097152 /\ v >= 16384
      /\ n = 3 => v >= 2097152 /\ v < 268435456 /\ Width >= 22
  <2>1. 2^7 = 128 /\ 2^14 = 16384 /\ 2^21 = 2097152
        OBVIOUS
  <2>   QED BY <2>1, Powers, SMT DEF n, Groups
<1>6. /\ \A x \in i..j : x < j => bs[x] >= 128
      /\ bs[j] < 128
  <2>1. \A x \in i..j : /\ x \in {i, i + 1, i + 2, i + 3}
                        /\ x < j => bs[x] >= 128
                        /\ ~(x < j) => bs[x] < 128
    <3> SUFFICES ASSUME NEW x \in i..j
                 PROVE  /\ x \in {i, i + 1, i + 2, i + 3}
                        /\ x < j => bs[x] >= 128
                        /\ ~(x < j) => bs[x] < 128
        OBVIOUS
    <3>1. \A h \in Nat : h % 128 \in 0..127
          OBVIOUS
    <3>2. /\ v % 128 \in 0..127 /\ (v \div 128) % 128 \in 0..127
          /\ (v \div 16384) % 128 \in 0..127 /\ (v \div 2097152) % 128 \in 0..127
          BY <3>1, SMT
    <3>3. x \in {i, i + 1, i + 2, i + 3}
          BY <1>1
    <3>4. /\ x = i => (x < j <=> n > 0)
          /\ x = i + 1 => n > 0 /\ (x < j <=> n > 1)
          /\ x = i + 2 => n > 1 /\ (x < j <=> n > 2)
          /\ x = i + 3 => n > 2 /\ ~(x < j)
          BY <1>1
    <3>   QED BY <1>4, <3>2, <3>3, <3>4, SMT
  <2>2. j \in i..j /\ ~(j < j)
        BY <1>1
  <2>   QED BY <2>1, <2>2
<1>7. j \in Ends(bs, i) /\ \A k \in Ends(bs, i) : j <= k
  <2>1. 2^7 = 128
        OBVIOUS
  <2>2. Width \in 16..24
        BY WidthAssumption
  <2>3. 7 * (j - i) < Width
        BY <1>1, <1>5, <2>2, SMT
  <2>4. j \in Ends(bs, i)
        BY <1>1, <1>2, <1>6, <2>1, <2>3 DEF Ends
  <2>5. ASSUME NEW k \in Ends(bs, i)
        PROVE  j <= k
    <3>1. k \in i..Len(bs) /\ bs[k] < 128
          BY <2>1 DEF Ends
    <3>2. bs[k] \in Nat
          BY <1>1, <3>1 DEF Bytes
    <3>   QED BY <1>1, <1>6, <3>1, <3>2
  <2>   QED BY <2>4, <2>5
<1>8. Varint(bs, i) = [value |-> Worth(bs, i, j) % 2^Width, next |-> j + 1]
      BY <1>1, <1>7, VarintIs
<1>9. Worth(bs, i, j) = v
  <2>1. Worth(bs, i, j) = Added(bs, i, n)
        BY <1>1, <1>2, WorthIs
  <2>2. \A a \in Nat : (a + 128) % 128 = a % 128 /\ (a % 128) % 128 = a % 128
        OBVIOUS
  <2>3. /\ bs[i] % 128 = v % 128
        /\ n > 0 => bs[i + 1] % 128 = (v \div 128) % 128
        /\ n > 1 => bs[i + 2] % 128 = (v \div 16384) % 128
        /\ n > 2 => bs[i + 3] % 128 = (v \div 2097152) % 128
        BY <1>4, SMT
  <2>4. CASE n = 0
        BY <1>5, <2>1, <2>3, <2>4, SMT DEF Added
  <2>5. CASE n = 1
        BY <1>5, <2>1, <2>3, <2>5, SMT DEF Added
  <2>6. CASE n = 2
        BY <1>5, <2>1, <2>3, <2>6, SMT DEF Added
  <2>7. CASE n = 3
        BY <1>5, <2>1, <2>3, <2>7, SMT DEF Added
  <2>   QED BY <1>1, <2>4, <2>5, <2>6, <2>7
<1>10. v % 2^Width = v
  <2>1. 2^Width \in Nat
        BY Powers
  <2>   QED BY <2>1
<1>   QED BY <1>1, <1>8, <1>9, <1>10 DEF n

----------------------------------------------------------------------------
(* Fields of a message, and fields that are skipped.                       *)

\* What is written in sequence stands in sequence.
LEMMA StandsJoin ==
    ASSUME NEW bs \in Bytes, NEW p \in Nat, NEW s \in Bytes, NEW t \in Bytes,
           Stands(bs, p, s \o t)
    PROVE  /\ Stands(bs, p, s) /\ Stands(bs, p + Len(s), t)
           /\ Len(s \o t) = Len(s) + Len(t) /\ s \o t \in Bytes
           /\ Len(s) \in Nat /\ Len(t) \in Nat
<1>1. /\ s \o t \in Seq(Nat) /\ Len(s \o t) = Len(s) + Len(t)
      /\ \A i \in 1..Len(s) : (s \o t)[i] = s[i]
      /\ \A i \in 1..Len(t) : (s \o t)[Len(s) + i] = t[i]
      BY Joined DEF Bytes
<1>2. Len(s) \in Nat /\ Len(t) \in Nat
      BY DEF Bytes
<1>3. \A k \in p + 1..p + Len(s) + Len(t) : bs[k] = (s \o t)[k - p]
      BY <1>1, <1>2 DEF Stands
<1>4. ASSUME NEW k \in p + 1..p + Len(s)
      PROVE  bs[k] = s[k - p]
  <2>1. k - p \in 1..Len(s) /\ k \in p + 1..p + Len(s) + Len(t)
        BY <1>2
  <2>   QED BY <1>1, <1>3, <2>1
<1>5. ASSUME NEW k \in p + Len(s) + 1..p + Len(s) + Len(t)
      PROVE  bs[k] = t[k - (p + Len(s))]
  <2> DEFINE i == k - (p + Len(s))
  <2>1. i \in 1..Len(t)
        BY <1>2
  <2>2. k - p = Len(s) + i /\ k \in p + 1..p + Len(s) + Len(t)
        BY <1>2, <2>1
  <2>3. (s \o t)[Len(s) + i] = t[i]
        BY <1>1, <2>1
  <2> HIDE DEF i
  <2>4. bs[k] = (s \o t)[Len(s) + i]
        BY <1>3, <2>2
  <2>   QED BY <2>3, <2>4 DEF i
<1>6. p + Len(s) + Len(t) <= Len(bs)
      BY <1>1, <1>2 DEF Stands
<1>7. Len(bs) \in Nat
      BY DEF Bytes
<1>8. Stands(bs, p, s)
  <2>1. p + Len(s) <= Len(bs)
        BY <1>2, <1>6, <1>7
  <2>   QED BY <1>4, <2>1 DEF Stands
<1>9. Stands(bs, p + Len(s), t)
      BY <1>5, <1>6 DEF Stands
<1>   QED BY <1>1, <1>2, <1>8, <1>9 DEF Bytes

\* A message the code takes no length in for negative.
Fits(bs) == Len(bs) + 1 < 2^(Width - 1)

\* Where a length-delimited value ends.
LEMMA AfterType ==
    ASSUME NEW bs \in Bytes, NEW i \in Nat \ {0}
    PROVE  \/ After(bs, i) = Error
           \/ /\ After(bs, i) # Error
              /\ After(bs, i).value \in i + 1..Len(bs) + 1
              /\ After(bs, i).next \in Nat /\ After(bs, i).next >= After(bs, i).value
<1> DEFINE n == Varint(bs, i)
<1>1. \/ n = Error
      \/ n # Error /\ n.value \in Nat /\ n.next \in i + 1..Len(bs) + 1
      BY VarintType
<1>2. After(bs, i) = IF n = Error \/ n.value >= 2^(Width - 1)
                            \/ n.next + n.value >= 2^(Width - 1) THEN Error
                     ELSE [value |-> n.next, next |-> n.next + n.value]
      BY Zenon DEF After, Summed
<1>3. Len(bs) \in Nat
      BY DEF Bytes
<1> HIDE DEF n
<1>   QED BY <1>1, <1>2, <1>3, NoError

\* A value that was written with its length is found.
LEMMA AfterReads ==
    ASSUME NEW bs \in Bytes, Fits(bs), NEW p \in Nat, NEW v \in Bytes,
           Stands(bs, p, encodeVarint(Len(v))), Stands(bs, p + Groups(Len(v)), v)
    PROVE  /\ Len(v) \in Nat /\ Groups(Len(v)) \in 1..4
           /\ p + Groups(Len(v)) + Len(v) <= Len(bs)
           /\ After(bs, p + 1) = [value |-> p + Groups(Len(v)) + 1,
                                  next |-> p + Groups(Len(v)) + Len(v) + 1]
           /\ SubSeq(bs, p + Groups(Len(v)) + 1, p + Groups(Len(v)) + Len(v)) = v
<1> DEFINE e == encodeVarint(Len(v))
           g == Groups(Len(v))
           n == Varint(bs, p + 1)
<1>1. Len(v) \in Nat /\ Len(bs) \in Nat
      BY DEF Bytes
<1>2. 2^(Width - 1) \in Nat /\ 2^Width \in Nat /\ 2^(Width - 1) < 2^Width
      BY Powers
<1>3. /\ e \in Bytes /\ Len(e) = g /\ g \in 1..4
      BY <1>1, VarintBytes
<1>4. Stands(bs, p, e) /\ Stands(bs, p + g, v)
      OBVIOUS
<1> HIDE DEF e, g
<1>5. p + g + Len(v) <= Len(bs) /\ Len(v) < 2^(Width - 1)
  <2>1. p + g + Len(v) <= Len(bs)
        BY <1>4 DEF Stands
  <2>   QED BY <1>1, <1>2, <1>3, <2>1 DEF Fits
<1>6. n = [value |-> Len(v), next |-> p + 1 + g]
  <2>1. Len(v) < 2^Width
        BY <1>1, <1>2, <1>5
  <2>   QED BY <1>1, <1>4, <2>1, VarintReads DEF e, g
<1>7. After(bs, p + 1) = IF n = Error \/ n.value >= 2^(Width - 1)
                            \/ n.next + n.value >= 2^(Width - 1) THEN Error
                     ELSE [value |-> n.next, next |-> n.next + n.value]
      BY Zenon DEF After, Summed
<1> HIDE DEF n
<1>8. n # Error /\ n.value = Len(v) /\ n.next = p + 1 + g
      BY <1>6, NoError
<1>9. n.next + n.value <= Len(bs) + 1 /\ n.next + n.value = p + g + Len(v) + 1
      /\ n.next = p + g + 1
      BY <1>1, <1>3, <1>5, <1>8
<1>10. After(bs, p + 1) = [value |-> p + g + 1, next |-> p + g + Len(v) + 1]
  <2>1. ~(n.value >= 2^(Width - 1)) /\ ~(n.next + n.value >= 2^(Width - 1))
        BY <1>1, <1>2, <1>3, <1>5, <1>8, <1>9 DEF Fits
  <2>   QED BY <1>7, <1>8, <1>9, <2>1
<1>11. SubSeq(bs, p + g + 1, p + g + Len(v)) = v
  <2> DEFINE t == SubSeq(bs, p + g + 1, p + g + Len(v))
  <2>1. /\ t = [k \in 1..Len(v) |-> bs[p + g + k]]
        /\ Len(t) = Len(v)
    <3>1. p + g + 1 \in 1..Len(bs) + 1 /\ p + g + Len(v) \in p + g..Len(bs)
          /\ p + g + Len(v) - (p + g + 1) + 1 = Len(v)
          BY <1>1, <1>3, <1>5
    <3>   QED BY <1>1, <1>3, <1>5, <3>1 DEF Bytes
  <2>2. \A k \in 1..Len(v) : bs[p + g + k] = v[k]
    <3> SUFFICES ASSUME NEW k \in 1..Len(v)
                 PROVE  bs[p + g + k] = v[k]
        OBVIOUS
    <3> DEFINE j == p + g + k
    <3>1. j \in p + g + 1..p + g + Len(v) /\ j - (p + g) = k
          BY <1>1, <1>3
    <3> HIDE DEF j
    <3>2. bs[j] = v[j - (p + g)]
          BY <1>4, <3>1 DEF Stands
    <3>   QED BY <3>1, <3>2 DEF j
  <2>3. v = [k \in 1..Len(v) |-> v[k]]
        BY DEF Bytes
  <2> HIDE DEF t
  <2>   QED BY <2>1, <2>2, <2>3 DEF t
<1>   QED BY <1>1, <1>3, <1>5, <1>10, <1>11 DEF g

\* The states of the loop that skips a field.
Skipping == [next : Nat \ {0}, depth : Nat]

SkipStates == Skipping \cup {Error}

\* One round of that loop takes a byte at least.
LEMMA SkippedType ==
    ASSUME NEW bs \in Bytes, NEW s \in Skipping
    PROVE  \/ Skipped(bs, s) = Error
           \/ /\ Skipped(bs, s) \in Skipping /\ Skipped(bs, s) # Error
              /\ s.next <= Len(bs) /\ Skipped(bs, s).next > s.next
<1> DEFINE wire == Varint(bs, s.next)
           wireType == wire.value % 8
           end == CASE wireType = 0 -> Varint(bs, wire.next)
                    [] wireType \in {1, 5} -> [next |-> wire.next + Fixed(wireType)]
                    [] wireType = 2 -> After(bs, wire.next)
                    [] wireType = 3 \/ (wireType = 4 /\ s.depth > 0) -> [next |-> wire.next]
                    [] OTHER -> Error
           open == CASE wireType = 3 -> s.depth + 1
                     [] wireType = 4 -> s.depth - 1
                     [] OTHER -> s.depth
<1>1. s.next \in Nat \ {0} /\ s.depth \in Nat /\ Len(bs) \in Nat
      BY DEF Skipping, Bytes
<1>2. Skipped(bs, s) = IF s.next > Len(bs) \/ wire = Error \/ end = Error THEN Error
                       ELSE [next |-> end.next, depth |-> open]
      BY Zenon DEF Skipped, Beyond
<1>3. CASE wire = Error
      BY <1>2, <1>3
<1>4. CASE wire # Error
  <2>1. /\ wire.value \in Nat /\ wire.next \in s.next + 1..Len(bs) + 1
        BY <1>1, <1>4, VarintType
  <2>2. wireType \in 0..7 /\ wire.next \in Nat \ {0} /\ wire.next > s.next
    <3>1. \A h \in Nat : h % 8 \in 0..7
          OBVIOUS
    <3>   HIDE DEF wire
    <3>2. wireType \in 0..7
          BY <2>1, <3>1
    <3>   QED BY <1>1, <2>1, <3>2
  <2> HIDE DEF wire, wireType
  <2>3. \/ end = Error
        \/ end # Error /\ end.next \in Nat /\ end.next >= wire.next
    <3>1. CASE wireType = 0
      <4>1. end = Varint(bs, wire.next)
            BY <3>1
      <4> HIDE DEF end
      <4>   QED BY <2>2, <4>1, VarintType
    <3>2. CASE wireType \in {1, 5}
      <4>1. end = [next |-> wire.next + Fixed(wireType)]
            BY <3>2
      <4>2. Fixed(wireType) \in Nat
            BY DEF Fixed
      <4> HIDE DEF end
      <4>   QED BY <2>2, <4>1, <4>2, NoError
    <3>3. CASE wireType = 2
      <4>1. end = After(bs, wire.next)
            BY <3>3
      <4> HIDE DEF end
      <4>   QED BY <2>2, <4>1, AfterType
    <3>4. CASE wireType = 3 \/ (wireType = 4 /\ s.depth > 0)
      <4>1. end = [next |-> wire.next]
            BY <3>4
      <4> HIDE DEF end
      <4>   QED BY <2>2, <4>1, NoError
    <3>5. CASE wireType \in {6, 7} \/ (wireType = 4 /\ ~(s.depth > 0))
          BY <3>5
    <3>   QED BY <2>2, <3>1, <3>2, <3>3, <3>4, <3>5
  <2>4. end # Error => open \in Nat
    <3>1. wireType = 4 /\ ~(s.depth > 0) => end = Error
          OBVIOUS
    <3>   HIDE DEF end
    <3>   QED BY <1>1, <2>2, <3>1
  <2> HIDE DEF end, open
  <2>5. CASE s.next > Len(bs) \/ end = Error
        BY <1>2, <2>5
  <2>6. CASE ~(s.next > Len(bs) \/ end = Error)
    <3>1. Skipped(bs, s) = [next |-> end.next, depth |-> open]
          BY <1>2, <1>4, <2>6
    <3>2. end.next \in Nat \ {0} /\ end.next > s.next /\ open \in Nat
          BY <1>1, <2>2, <2>3, <2>4, <2>6
    <3>3. s.next <= Len(bs)
          BY <1>1, <2>6
    <3>4. [next |-> end.next, depth |-> open] \in Skipping
          BY <3>2 DEF Skipping
    <3>5. Skipped(bs, s).next = end.next
          BY <3>1
    <3>   QED BY <3>1, <3>2, <3>3, <3>4, <3>5, NoError
  <2>   QED BY <2>5, <2>6
<1>   QED BY <1>3, <1>4

\* The rounds of the loop that skips the field at i.
Rounds(f, bs, i) ==
    /\ f \in [0..Len(bs) -> SkipStates]
    /\ f[0] = Skipped(bs, [next |-> i, depth |-> 0])
    /\ \A n \in 1..Len(bs) :
          f[n] = IF f[n - 1] = Error \/ f[n - 1].depth = 0 THEN f[n - 1]
                 ELSE Skipped(bs, f[n - 1])

\* The loop ends, and what it has come to is the result.
LEMMA SkipIs ==
    ASSUME NEW bs \in Bytes, NEW i \in 1..Len(bs)
    PROVE  \E f : /\ Rounds(f, bs, i)
                  /\ \E n \in 0..Len(bs) : f[n] = Error \/ f[n].depth = 0
                  /\ \A n \in 0..Len(bs) :
                        f[n] = Error \/ f[n].depth = 0 => skip(bs, i) = f[n]
<1> DEFINE len == Len(bs)
           start == Skipped(bs, [next |-> i, depth |-> 0])
           Ended(s) == s = Error \/ s.depth = 0
           step == [s \in SkipStates |-> IF Ended(s) THEN s ELSE Skipped(bs, s)]
           P(f) == f = [n \in 0..len |-> IF n = 0 THEN start
                           ELSE IF Ended(f[n - 1]) THEN f[n - 1] ELSE Skipped(bs, f[n - 1])]
           H == CHOOSE f : P(f)
<1>1. len \in Nat /\ i \in Nat \ {0} /\ i <= len
      BY DEF Bytes
<1>2. start \in SkipStates
  <2>1. [next |-> i, depth |-> 0] \in Skipping
        BY <1>1 DEF Skipping
  <2>   QED BY <2>1, SkippedType DEF SkipStates
<1>3. \A s \in SkipStates : ~Ended(s) => Skipped(bs, s) \in SkipStates
      BY SkippedType DEF SkipStates
<1>4. step \in [SkipStates -> SkipStates]
      BY <1>3
<1>5. PICK g \in [0..len -> SkipStates] : Loops(g, len, start, step)
  <2> HIDE DEF len, start, step
  <2> QED BY <1>1, <1>2, <1>4, LoopExists
<1>6. P(g)
  <2>1. g = [k \in 0..len |-> IF k = 0 THEN start ELSE step[g[k - 1]]]
        BY <1>5 DEF Loops
  <2>2. \A k \in 0..len : k # 0 => g[k - 1] \in SkipStates
        BY <1>1, <1>5
  <2>3. \A k \in 0..len : k # 0 =>
           step[g[k - 1]] = IF Ended(g[k - 1]) THEN g[k - 1] ELSE Skipped(bs, g[k - 1])
        BY <2>2
  <2> HIDE DEF step, start, len, Ended
  <2>   QED BY <2>1, <2>3
<1>7. P(H)
      BY <1>6
<1>8. \A k \in 0..len : k # 0 => k \in 1..len /\ k - 1 \in 0..len
      BY <1>1
<1>9. /\ H[0] = start
      /\ \A k \in 1..len : H[k] = IF Ended(H[k - 1]) THEN H[k - 1] ELSE Skipped(bs, H[k - 1])
  <2> DEFINE h == [n \in 0..len |-> IF n = 0 THEN start
                       ELSE IF Ended(H[n - 1]) THEN H[n - 1] ELSE Skipped(bs, H[n - 1])]
  <2>1. H = h
        BY <1>7
  <2> HIDE DEF H
  <2>2. /\ h[0] = start
        /\ \A k \in 1..len : h[k] = IF Ended(H[k - 1]) THEN H[k - 1] ELSE Skipped(bs, H[k - 1])
    <3> HIDE DEF start, Ended
    <3> QED BY <1>1
  <2> HIDE DEF h
  <2>   QED BY <2>1, <2>2
<1>10. skip(bs, i) = H[CHOOSE n \in 0..len : Ended(H[n])]
      BY Zenon DEF skip
<1>11. H = [k \in 0..len |-> H[k]]
  <2> DEFINE B(f) == [n \in 0..len |-> IF n = 0 THEN start
                         ELSE IF Ended(f[n - 1]) THEN f[n - 1] ELSE Skipped(bs, f[n - 1])]
  <2>1. H = B(H)
        BY <1>7
  <2>2. B(H) = [k \in 0..len |-> B(H)[k]]
        OBVIOUS
  <2> HIDE DEF H, B
  <2>   QED BY <2>1, <2>2
<1> HIDE DEF H, P
<1>12. \A k \in 0..len : H[k] \in SkipStates
  <2> DEFINE T == {k \in 0..len : H[k] \in SkipStates}
  <2>1. 0 \in T
        BY <1>1, <1>2, <1>9
  <2>2. ASSUME NEW k \in 1..len, k - 1 \in T
        PROVE  k \in T
    <3> HIDE DEF start
    <3> QED BY <1>1, <1>3, <1>9, <2>2
  <2> HIDE DEF T, len
  <2>3. \A k \in 0..len : k \in T
        BY <1>1, <2>1, <2>2, Upwards
  <2>   QED BY <2>3 DEF T
<1>13. Rounds(H, bs, i)
  <2>1. H \in [0..len -> SkipStates]
    <3> HIDE DEF len
    <3> QED BY <1>11, <1>12
  <2>   QED BY <1>9, <2>1 DEF Rounds
<1>14. \A m \in 0..len : Ended(H[m]) => \A n \in m..len : H[n] = H[m]
  <2> SUFFICES ASSUME NEW m \in 0..len, Ended(H[m])
               PROVE  \A n \in m..len : H[n] = H[m]
      OBVIOUS
  <2> DEFINE T == {k \in 0..len : k >= m => H[k] = H[m]}
  <2>1. 0 \in T
        BY <1>1
  <2>2. ASSUME NEW k \in 1..len, k - 1 \in T
        PROVE  k \in T
    <3>1. CASE k - 1 >= m
      <4>1. H[k - 1] = H[m]
            BY <2>2, <3>1
      <4>2. H[k] = H[m]
        <5> HIDE DEF len, T
        <5> QED BY <1>9, <4>1
      <4>   QED BY <1>1, <4>2
    <3>2. CASE ~(k - 1 >= m)
      <4>1. k >= m => k = m
            BY <1>1, <3>2
      <4>   QED BY <1>1, <4>1
    <3>   QED BY <3>1, <3>2
  <2> HIDE DEF T
  <2>3. \A k \in 0..len : k \in T
    <3> HIDE DEF len
    <3> QED BY <1>1, <2>1, <2>2, Upwards
  <2>   QED BY <1>1, <2>3 DEF T
<1>15. \E n \in 0..len : Ended(H[n])
  <2> DEFINE T == {k \in 0..len : ~Ended(H[k]) => H[k].next > i + k}
  <2>1. 0 \in T
    <3>1. [next |-> i, depth |-> 0] \in Skipping
          BY <1>1 DEF Skipping
    <3>2. ~Ended(H[0]) => H[0].next > i
          BY <1>9, <3>1, SkippedType
    <3>   QED BY <1>1, <3>2
  <2>2. ASSUME NEW k \in 1..len, k - 1 \in T
        PROVE  k \in T
    <3> SUFFICES ASSUME ~Ended(H[k])
                 PROVE  H[k].next > i + k
        BY <1>1
    <3>1. ~Ended(H[k - 1]) /\ H[k] = Skipped(bs, H[k - 1])
      <4> HIDE DEF len, T
      <4> QED BY <1>9
    <3>2. H[k - 1] \in Skipping /\ H[k - 1].next \in Nat /\ H[k - 1].next > i + (k - 1)
          BY <1>8, <1>12, <2>2, <3>1 DEF SkipStates, Skipping
    <3>3. H[k].next > H[k - 1].next /\ H[k] \in Skipping
          BY <3>1, <3>2, SkippedType
    <3>4. H[k].next \in Nat
          BY <3>3 DEF Skipping
    <3>   QED BY <1>1, <3>2, <3>3, <3>4
  <2> HIDE DEF T
  <2>3. \A k \in 0..len : k \in T
    <3> HIDE DEF len
    <3> QED BY <1>1, <2>1, <2>2, Upwards
  <2>4. len \in 1..len /\ len - 1 \in 0..len /\ len \in 0..len
        BY <1>1
  <2>5. SUFFICES ASSUME ~Ended(H[len]), ~Ended(H[len - 1]) PROVE FALSE
        BY <2>4
  <2>6. H[len] = Skipped(bs, H[len - 1])
    <3> HIDE DEF len
    <3> QED BY <1>9, <2>4, <2>5
  <2>7. H[len - 1] \in Skipping /\ H[len - 1].next \in Nat /\ H[len - 1].next > i + (len - 1)
        BY <1>12, <2>3, <2>4, <2>5 DEF T, SkipStates, Skipping
  <2>8. H[len - 1].next <= len
        BY <2>5, <2>6, <2>7, SkippedType
  <2>   QED BY <1>1, <2>7, <2>8
<1>16. \A n \in 0..len : Ended(H[n]) => skip(bs, i) = H[n]
  <2> SUFFICES ASSUME NEW n \in 0..len, Ended(H[n])
               PROVE  skip(bs, i) = H[n]
      OBVIOUS
  <2> DEFINE m == CHOOSE k \in 0..len : Ended(H[k])
  <2>1. m \in 0..len /\ Ended(H[m])
        BY <1>15
  <2>2. skip(bs, i) = H[m]
        BY <1>10
  <2> HIDE DEF m
  <2>3. m \in n..len \/ n \in m..len
        BY <1>1, <2>1
  <2> HIDE DEF len, Ended
  <2>   QED BY <1>14, <2>1, <2>2, <2>3
<1>   QED BY <1>13, <1>15, <1>16

\* The position after a field that is skipped is a later one.
LEMMA SkipType ==
    ASSUME NEW bs \in Bytes, NEW i \in 1..Len(bs)
    PROVE  skip(bs, i) = Error \/ (skip(bs, i).next \in Nat /\ skip(bs, i).next > i)
<1> DEFINE len == Len(bs)
<1>1. len \in Nat /\ i \in Nat \ {0}
      BY DEF Bytes
<1>2. PICK f : /\ Rounds(f, bs, i)
               /\ \E n \in 0..Len(bs) : f[n] = Error \/ f[n].depth = 0
               /\ \A n \in 0..Len(bs) :
                     f[n] = Error \/ f[n].depth = 0 => skip(bs, i) = f[n]
      BY SkipIs
<1> DEFINE T == {k \in 0..len : f[k] = Error \/ f[k].next > i}
<1>3. 0 \in T
  <2>1. [next |-> i, depth |-> 0] \in Skipping
        BY <1>1 DEF Skipping
  <2>2. f[0] = Error \/ f[0].next > i
        BY <1>2, <2>1, SkippedType DEF Rounds
  <2>   QED BY <1>1, <2>2
<1>4. ASSUME NEW k \in 1..len, k - 1 \in T
      PROVE  k \in T
  <2>1. k \in 0..len /\ k - 1 \in 0..len
        BY <1>1
  <2>2. f[k] = IF f[k - 1] = Error \/ f[k - 1].depth = 0 THEN f[k - 1]
               ELSE Skipped(bs, f[k - 1])
        BY <1>2 DEF Rounds
  <2>3. f[k - 1] \in SkipStates
        BY <1>2, <2>1 DEF Rounds
  <2>4. CASE f[k - 1] = Error \/ f[k - 1].depth = 0
        BY <1>4, <2>1, <2>2, <2>4
  <2>5. CASE ~(f[k - 1] = Error \/ f[k - 1].depth = 0)
    <3>1. f[k - 1] \in Skipping /\ f[k] = Skipped(bs, f[k - 1])
          BY <2>2, <2>3, <2>5 DEF SkipStates
    <3>2. f[k - 1].next \in Nat /\ f[k - 1].next > i
          BY <1>4, <2>5, <3>1 DEF Skipping
    <3>3. f[k] = Error \/ (f[k] \in Skipping /\ f[k].next > f[k - 1].next)
          BY <3>1, SkippedType
    <3>4. f[k] = Error \/ f[k].next > i
          BY <1>1, <3>2, <3>3 DEF Skipping
    <3>   QED BY <2>1, <3>4
  <2>   QED BY <2>4, <2>5
<1> HIDE DEF T
<1>5. \A k \in 0..len : k \in T
  <2> HIDE DEF len
  <2> QED BY <1>1, <1>3, <1>4, Upwards
<1>6. PICK n \in 0..len : f[n] = Error \/ f[n].depth = 0
      BY <1>2
<1>7. skip(bs, i) = f[n] /\ f[n] \in SkipStates
      BY <1>2, <1>6 DEF Rounds
<1>8. f[n] = Error \/ (f[n].next > i /\ f[n] \in Skipping)
      BY <1>5, <1>7 DEF T, SkipStates
<1>   QED BY <1>7, <1>8 DEF Skipping

\* A tag is read back.
LEMMA TagReads ==
    ASSUME NEW bs \in Bytes, NEW p \in Nat, NEW tag \in 0..127, Stands(bs, p, <<tag>>)
    PROVE  p + 1 \in 1..Len(bs) /\ Varint(bs, p + 1) = [value |-> tag, next |-> p + 2]
<1>1. Groups(tag) = 1 /\ tag < 2^Width /\ tag \in Nat
  <2>1. 2^7 = 128
        OBVIOUS
  <2>   QED BY <2>1, Powers DEF Groups
<1>2. Len(encodeVarint(tag)) = 1
      BY <1>1, VarintBytes
<1>3. encodeVarint(tag)[1] = tag
  <2>1. encodeVarint(tag)[1] = ((tag \div 2^(7 * (1 - 1))) % 2^7)
                                   + (IF 1 < Groups(tag) THEN 2^7 ELSE 0)
        BY <1>1 DEF encodeVarint
  <2>2. 7 * (1 - 1) = 0 /\ 2^7 = 128
        OBVIOUS
  <2>3. 2^(7 * (1 - 1)) = 2^0
        BY <2>2, Zenon
  <2>   QED BY <1>1, <2>1, <2>2, <2>3
<1>4. Stands(bs, p, encodeVarint(tag))
  <2>1. \A k \in p + 1..p + 1 : k - p = 1
        OBVIOUS
  <2>2. Len(<<tag>>) = 1 /\ <<tag>>[1] = tag
        OBVIOUS
  <2>   QED BY <1>2, <1>3, <2>1, <2>2 DEF Stands
<1>5. Varint(bs, p + 1) = [value |-> tag, next |-> p + 1 + 1]
      BY <1>1, <1>4, VarintReads
<1>6. p + 1 <= Len(bs) /\ Len(bs) \in Nat
      BY <1>2, <1>4 DEF Stands, Bytes
<1>   QED BY <1>5, <1>6

\* A single field is skipped in one round.
LEMMA SkippedIs ==
    ASSUME NEW bs \in Bytes, NEW s \in Skipping, NEW wireType, NEW end,
           Varint(bs, s.next) # Error, s.next <= Len(bs),
           wireType = Varint(bs, s.next).value % 8,
           \/ wireType = 0 /\ end = Varint(bs, Varint(bs, s.next).next)
           \/ wireType = 2 /\ end = After(bs, Varint(bs, s.next).next),
           end # Error
    PROVE  Skipped(bs, s) = [next |-> end.next, depth |-> s.depth]
<1> DEFINE wire == Varint(bs, s.next)
           type == wire.value % 8
           ends == CASE type = 0 -> Varint(bs, wire.next)
                     [] type \in {1, 5} -> [next |-> wire.next + Fixed(type)]
                     [] type = 2 -> After(bs, wire.next)
                     [] type = 3 \/ (type = 4 /\ s.depth > 0) -> [next |-> wire.next]
                     [] OTHER -> Error
           open == CASE type = 3 -> s.depth + 1
                     [] type = 4 -> s.depth - 1
                     [] OTHER -> s.depth
<1>1. Skipped(bs, s) = IF s.next > Len(bs) \/ wire = Error \/ ends = Error THEN Error
                       ELSE [next |-> ends.next, depth |-> open]
      BY Zenon DEF Skipped, Beyond
<1>2. type = wireType
      OBVIOUS
<1>3. ends = end /\ open = s.depth
  <2> HIDE DEF type
  <2>1. CASE wireType = 0
    <3>1. end = Varint(bs, wire.next)
          BY <2>1
    <3>2. ends = Varint(bs, wire.next) /\ open = s.depth
          BY <1>2, <2>1
    <3>   QED BY <3>1, <3>2
  <2>2. CASE wireType = 2
    <3>1. end = After(bs, wire.next)
          BY <2>2
    <3>2. ends = After(bs, wire.next) /\ open = s.depth
          BY <1>2, <2>2
    <3>   QED BY <3>1, <3>2
  <2>   QED BY <2>1, <2>2
<1>4. ~(s.next > Len(bs))
      BY DEF Skipping, Bytes
<1> HIDE DEF ends, open, type
<1>   QED BY <1>1, <1>3, <1>4

\* What has no open group after one round is skipped.
LEMMA SkippedAtOnce ==
    ASSUME NEW bs \in Bytes, NEW i \in 1..Len(bs), NEW q,
           Skipped(bs, [next |-> i, depth |-> 0]) = [next |-> q, depth |-> 0]
    PROVE  skip(bs, i) = [next |-> q, depth |-> 0]
<1>1. PICK f : /\ Rounds(f, bs, i)
               /\ \A n \in 0..Len(bs) :
                     f[n] = Error \/ f[n].depth = 0 => skip(bs, i) = f[n]
      BY SkipIs
<1>2. 0 \in 0..Len(bs)
      BY DEF Bytes
<1>3. f[0] = [next |-> q, depth |-> 0]
      BY <1>1 DEF Rounds
<1>   QED BY <1>1, <1>2, <1>3

\* A number is skipped as a whole.
LEMMA NumberSkipped ==
    ASSUME NEW bs \in Bytes, NEW p \in Nat, NEW tag \in 0..127, tag % 8 = 0,
           NEW v \in Nat, v < 2^Width,
           Stands(bs, p, <<tag>>), Stands(bs, p + 1, encodeVarint(v))
    PROVE  skip(bs, p + 1) = [next |-> p + 2 + Groups(v), depth |-> 0]
<1> DEFINE s == [next |-> p + 1, depth |-> 0]
           wire == Varint(bs, s.next)
           end == Varint(bs, p + 2)
<1>1. p + 1 \in 1..Len(bs) /\ wire = [value |-> tag, next |-> p + 2]
      BY TagReads
<1>2. end = [value |-> v, next |-> p + 2 + Groups(v)]
  <2>1. Varint(bs, (p + 1) + 1) = [value |-> v, next |-> (p + 1) + 1 + Groups(v)]
        BY VarintReads
  <2>   QED BY <2>1
<1>3. s \in Skipping /\ s.next <= Len(bs) /\ s.depth = 0
      BY <1>1 DEF Skipping, Bytes
<1>4. wire # Error /\ wire.value = tag /\ wire.next = p + 2 /\ end # Error
      /\ end.next = p + 2 + Groups(v)
      BY <1>1, <1>2, NoError
<1>5. Skipped(bs, s) = [next |-> end.next, depth |-> s.depth]
  <2> HIDE DEF s
  <2> QED BY <1>3, <1>4, SkippedIs
<1>   QED BY <1>1, <1>3, <1>4, <1>5, SkippedAtOnce

\* A value with its length is skipped as a whole.
LEMMA DelimitedSkipped ==
    ASSUME NEW bs \in Bytes, Fits(bs), NEW p \in Nat, NEW tag \in 0..127, tag % 8 = 2,
           NEW v \in Bytes,
           Stands(bs, p, <<tag>>), Stands(bs, p + 1, encodeVarint(Len(v))),
           Stands(bs, p + 1 + Groups(Len(v)), v)
    PROVE  skip(bs, p + 1) = [next |-> p + 2 + Groups(Len(v)) + Len(v), depth |-> 0]
<1> DEFINE s == [next |-> p + 1, depth |-> 0]
           wire == Varint(bs, s.next)
           end == After(bs, p + 2)
<1>1. p + 1 \in 1..Len(bs) /\ wire = [value |-> tag, next |-> p + 2]
      BY TagReads
<1>2. end # Error /\ end.next = p + 2 + Groups(Len(v)) + Len(v)
  <2>1. /\ Len(v) \in Nat /\ Groups(Len(v)) \in 1..4
        /\ After(bs, (p + 1) + 1) = [value |-> (p + 1) + Groups(Len(v)) + 1,
                                    next |-> (p + 1) + Groups(Len(v)) + Len(v) + 1]
        BY AfterReads
  <2>2. (p + 1) + 1 = p + 2
        OBVIOUS
  <2>3. end = [value |-> (p + 1) + Groups(Len(v)) + 1,
               next |-> (p + 1) + Groups(Len(v)) + Len(v) + 1]
        BY <2>1, <2>2
  <2> HIDE DEF end
  <2>4. end # Error /\ end.next = (p + 1) + Groups(Len(v)) + Len(v) + 1
        BY <2>3, NoError
  <2>   QED BY <2>1, <2>4
<1>3. s \in Skipping /\ s.next <= Len(bs) /\ s.depth = 0
      BY <1>1 DEF Skipping, Bytes
<1>4. wire # Error /\ wire.value = tag /\ wire.next = p + 2
      BY <1>1, NoError
<1>5. Skipped(bs, s) = [next |-> end.next, depth |-> s.depth]
  <2> HIDE DEF s, end
  <2> QED BY <1>2, <1>3, <1>4, SkippedIs DEF end
<1>   QED BY <1>1, <1>2, <1>3, <1>5, SkippedAtOnce

----------------------------------------------------------------------------
(* The loop of Unmarshal.                                                  *)

\* How a kind of field is written.
WireType(kind) == IF kind \in {Number, Flag} THEN 0 ELSE 2

\* What an Unmarshal method is like: no number and no field occurs twice, and the kinds
\* have their wire types.
Table(rows) ==
    /\ \A r \in rows : r[1] \in 1..15 /\ r[4] \in Kinds /\ r[2] = WireType(r[4])
    /\ \A r, s \in rows : r # s => r[1] # s[1] /\ r[3] # s[3]

Names(rows) == {r[3] : r \in rows}

AnyContent == UNION {Content(kind) : kind \in Kinds}

\* The messages of a table.
Msgs(rows) ==
    {m \in [Names(rows) -> AnyContent] : \A r \in rows : m[r[3]] \in Content(r[4])}

\* The kinds are different.
LEMMA KindsDiffer ==
    /\ Text \notin {Texts, Pointer, Value, Nested, Number, Flag}
    /\ Texts \notin {Pointer, Value, Nested, Number, Flag}
    /\ Pointer \notin {Value, Nested, Number, Flag}
    /\ Value \notin {Nested, Number, Flag}
    /\ Nested \notin {Number, Flag} /\ Number # Flag
BY DEF Text, Texts, Pointer, Value, Nested, Number, Flag

\* The contents, kind by kind.
LEMMA ContentIs ==
    /\ Content(Text) = Bytes /\ Content(Texts) = Seq(Bytes)
    /\ Content(Value) = Bytes /\ Content(Nested) = Bytes
    /\ Content(Pointer) = {<<>>} \cup {<<v>> : v \in Bytes}
    /\ Content(Number) = {v \in Nat : v < 2^Width}
    /\ Content(Flag) = BOOLEAN
<1>1. /\ Content(Text) = Bytes /\ Content(Texts) = Seq(Bytes)
      /\ Content(Value) = Bytes /\ Content(Nested) = Bytes
      /\ Content(Pointer) = {v \in Seq(Bytes) : Len(v) <= 1}
      /\ Content(Number) = {v \in Nat : v < 2^Width}
      /\ Content(Flag) = BOOLEAN
      BY KindsDiffer DEF Content
<1>2. {v \in Seq(Bytes) : Len(v) <= 1} = {<<>>} \cup {<<v>> : v \in Bytes}
  <2>1. ASSUME NEW v \in Seq(Bytes), Len(v) <= 1
        PROVE  v \in {<<>>} \cup {<<w>> : w \in Bytes}
    <3>1. Len(v) \in Nat
          OBVIOUS
    <3>2. CASE Len(v) = 0
          BY <3>2
    <3>3. CASE Len(v) = 1
      <4>1. v[1] \in Bytes /\ v = <<v[1]>>
            BY <3>3
      <4>   QED BY <4>1
    <3>4. Len(v) = 0 \/ Len(v) = 1
      <4> DEFINE k == Len(v)
      <4>1. k \in Nat /\ k <= 1
            BY <2>1, <3>1
      <4> HIDE DEF k
      <4>2. k = 0 \/ k = 1
            BY <4>1
      <4>   QED BY <4>2 DEF k
    <3>   QED BY <3>2, <3>3, <3>4, Zenon
  <2>2. ASSUME NEW v \in Bytes
        PROVE  <<v>> \in Seq(Bytes) /\ Len(<<v>>) = 1
        OBVIOUS
  <2>3. <<>> \in Seq(Bytes) /\ Len(<<>>) = 0
        OBVIOUS
  <2> DEFINE A == {v \in Seq(Bytes) : Len(v) <= 1}
             B == {<<>>} \cup {<<v>> : v \in Bytes}
  <2>4. \A v \in A : v \in B
        BY <2>1, Zenon
  <2>5. <<>> \in A
        BY <2>3
  <2>6. \A v \in Bytes : <<v>> \in A
        BY <2>2
  <2>7. \A v \in B : v \in A
        BY <2>5, <2>6, Zenon
  <2> HIDE DEF A, B
  <2>8. A = B
        BY <2>4, <2>7
  <2>   QED BY <2>8 DEF A, B
<1>   QED BY <1>1, <1>2

\* What a field has after one more occurrence is a content of its kind.
LEMMA MergedType ==
    ASSUME NEW kind \in Kinds, NEW old \in Content(kind), NEW v,
           IF WireType(kind) = 0 THEN v \in Nat /\ v < 2^Width ELSE v \in Bytes
    PROVE  Merged(kind, old, v) \in Content(kind)
<1>1. CASE kind = Texts
  <2>1. Merged(kind, old, v) = Append(old, v) /\ v \in Bytes
        BY <1>1, KindsDiffer DEF Merged, WireType
  <2>2. old \in Seq(Bytes)
        BY <1>1, ContentIs
  <2>   QED BY <1>1, <2>1, <2>2, ContentIs
<1>2. CASE kind = Pointer
  <2>1. Merged(kind, old, v) = (IF old = <<>> THEN <<v>> ELSE <<old[1] \o v>>) /\ v \in Bytes
        BY <1>2, KindsDiffer DEF Merged, WireType
  <2>2. CASE old = <<>>
        BY <1>2, <2>1, <2>2, ContentIs
  <2>3. CASE old # <<>>
    <3>1. PICK w \in Bytes : old = <<w>>
          BY <1>2, <2>3, ContentIs
    <3>2. w \o v \in Bytes /\ old[1] = w
          BY <2>1, <3>1 DEF Bytes
    <3>   QED BY <1>2, <2>1, <2>3, <3>2, ContentIs
  <2>   QED BY <2>2, <2>3
<1>3. CASE kind = Flag
  <2>1. Merged(kind, old, v) = (v # 0)
        BY <1>3, KindsDiffer DEF Merged
  <2>   QED BY <1>3, <2>1, ContentIs
<1>4. CASE kind = Number
  <2>1. Merged(kind, old, v) = v /\ v \in Nat /\ v < 2^Width
        BY <1>4, KindsDiffer DEF Merged, WireType
  <2>   QED BY <1>4, <2>1, ContentIs
<1>5. CASE kind \in {Text, Value}
  <2>1. Merged(kind, old, v) = v /\ v \in Bytes
        BY <1>5, KindsDiffer DEF Merged, WireType
  <2>   QED BY <1>5, <2>1, ContentIs
<1>6. CASE kind = Nested
  <2>1. Merged(kind, old, v) = old \o v /\ v \in Bytes
        BY <1>6, KindsDiffer DEF Merged, WireType
  <2>2. old \in Bytes
        BY <1>6, ContentIs
  <2>3. old \o v \in Bytes
        BY <2>1, <2>2 DEF Bytes
  <2>   QED BY <1>6, <2>1, <2>3, ContentIs
<1>   QED BY <1>1, <1>2, <1>3, <1>4, <1>5, <1>6 DEF Kinds

\* The states of the loop over the fields of a message.
Reads(rows) == [at : Nat \ {0}, msg : Msgs(rows)]

\* A message with one field merged is a message.
LEMMA MergedInto ==
    ASSUME NEW rows, Table(rows), NEW m \in Msgs(rows), NEW r \in rows, NEW v,
           IF r[2] = 0 THEN v \in Nat /\ v < 2^Width ELSE v \in Bytes
    PROVE  [m EXCEPT ![r[3]] = Merged(r[4], @, v)] \in Msgs(rows)
<1> DEFINE w == Merged(r[4], m[r[3]], v)
<1>1. r[3] \in Names(rows) /\ m \in [Names(rows) -> AnyContent] /\ r[4] \in Kinds
      BY DEF Names, Msgs, Table
<1>2. w \in Content(r[4])
      BY MergedType DEF Table, Msgs
<1>3. w \in AnyContent
      BY <1>1, <1>2 DEF AnyContent
<1> HIDE DEF w
<1>4. [m EXCEPT ![r[3]] = w] \in [Names(rows) -> AnyContent]
      BY <1>1, <1>3
<1>5. \A s \in rows : [m EXCEPT ![r[3]] = w][s[3]] \in Content(s[4])
  <2> SUFFICES ASSUME NEW s \in rows
               PROVE  [m EXCEPT ![r[3]] = w][s[3]] \in Content(s[4])
      OBVIOUS
  <2>1. s[3] \in Names(rows)
        BY DEF Names
  <2>2. CASE s = r
        BY <1>1, <1>2, <2>2
  <2>3. CASE s # r
    <3>1. s[3] # r[3]
          BY <2>3 DEF Table
    <3>   QED BY <1>1, <2>1, <3>1 DEF Msgs
  <2>   QED BY <2>2, <2>3
<1>   QED BY <1>4, <1>5 DEF Msgs, w

\* A field is taken in, or skipped, or an error.
LEMMA FieldType ==
    ASSUME NEW rows, Table(rows), NEW bs \in Bytes, NEW s \in Reads(rows), s.at <= Len(bs)
    PROVE  Field(rows, bs, s) \in Reads(rows) \cup {Error}
<1> DEFINE wire == Varint(bs, s.at)
           known == {row \in rows : row[1] = FieldNumber(wire)}
           row == CHOOSE r \in known : TRUE
           end == IF known = {} THEN skip(bs, s.at)
                  ELSE CASE row[2] # wire.value % 8 -> Error
                         [] row[2] = wire.value % 8 /\ row[2] = 0 -> Varint(bs, wire.next)
                         [] row[2] = wire.value % 8 /\ row[2] = 2 -> After(bs, wire.next)
           got == IF row[2] = 0 THEN end.value ELSE SubSeq(bs, end.value, end.next - 1)
<1>1. Field(rows, bs, s) =
          IF wire = Error \/ ~Legal(wire) THEN Error
          ELSE IF end = Error \/ end.next > Len(bs) + 1 THEN Error
          ELSE [at |-> end.next,
                msg |-> IF known = {} THEN s.msg
                        ELSE [s.msg EXCEPT ![row[3]] = Merged(row[4], @, got)]]
      BY Zenon DEF Field, TakenIn, End
<1>2. s.at \in 1..Len(bs) /\ s.msg \in Msgs(rows) /\ Len(bs) \in Nat
      BY DEF Reads, Bytes
<1>3. SUFFICES ASSUME wire # Error, end # Error, ~(end.next > Len(bs) + 1)
               PROVE  [at |-> end.next,
                       msg |-> IF known = {} THEN s.msg
                               ELSE [s.msg EXCEPT ![row[3]] = Merged(row[4], @, got)]]
                          \in Reads(rows)
  <2> HIDE DEF wire, end, known, row, got
  <2> QED BY <1>1
<1>4. CASE known = {}
  <2>1. end = skip(bs, s.at)
    <3> HIDE DEF known, row, wire
    <3> QED BY <1>4
  <2> HIDE DEF end, known
  <2>2. end.next \in Nat \ {0}
        BY <1>2, <1>3, <2>1, SkipType
  <2>   QED BY <1>2, <1>4, <2>2 DEF Reads
<1>5. CASE known # {}
  <2>1. row \in rows
        BY <1>5
  <2>2. row[2] \in {0, 2}
        BY <2>1 DEF Table, WireType
  <2>3. wire.next \in Nat \ {0} /\ wire.next <= Len(bs) + 1
        BY <1>2, <1>3, VarintType
  <2> HIDE DEF wire, row, known
  <2>4. CASE row[2] = 0
    <3>1. end = Varint(bs, wire.next) /\ got = end.value
          BY <1>3, <1>5, <2>4
    <3>   HIDE DEF end
    <3>2. end.next \in Nat \ {0} /\ end.value \in Nat /\ end.value < 2^Width
          BY <1>3, <2>3, <3>1, VarintType
    <3>   HIDE DEF got
    <3>3. [s.msg EXCEPT ![row[3]] = Merged(row[4], @, got)] \in Msgs(rows)
          BY <1>2, <2>1, <2>4, <3>1, <3>2, MergedInto
    <3>   QED BY <1>5, <3>2, <3>3 DEF Reads
  <2>5. CASE row[2] = 2
    <3>1. end = After(bs, wire.next) /\ got = SubSeq(bs, end.value, end.next - 1)
          BY <1>3, <1>5, <2>5
    <3>   HIDE DEF end
    <3>2. end.next \in Nat \ {0} /\ end.value \in 1..Len(bs) + 1 /\ end.next - 1 \in 0..Len(bs)
          BY <1>2, <1>3, <2>3, <3>1, AfterType
    <3>   HIDE DEF got
    <3>3. got \in Bytes
      <4> DEFINE from == end.value
                 to == end.next - 1
      <4>1. from \in 1..Len(bs) + 1 /\ to \in 0..Len(bs) /\ got = SubSeq(bs, from, to)
            BY <3>1, <3>2
      <4>   HIDE DEF from, to
      <4>2. bs \in Seq(Nat) /\ from \in Int /\ to \in Int
            BY <1>2, <4>1 DEF Bytes
      <4>3. \A k \in from..to : bs[k] \in Nat
        <5> SUFFICES ASSUME NEW k \in from..to PROVE bs[k] \in Nat
            OBVIOUS
        <5>1. k \in 1..Len(bs)
              BY ONLY <1>2, <4>1, k \in from..to
        <5>   QED BY ONLY <4>2, <5>1
      <4>4. SubSeq(bs, from, to) \in Seq(Nat)
            BY ONLY <4>2, <4>3, SubSeqProperties
      <4>   QED BY <4>1, <4>4, Zenon DEF Bytes
    <3>3a. IF row[2] = 0 THEN got \in Nat /\ got < 2^Width ELSE got \in Bytes
          BY <2>5, <3>3
    <3>4. [s.msg EXCEPT ![row[3]] = Merged(row[4], @, got)] \in Msgs(rows)
          BY <1>2, <2>1, <3>3a, MergedInto
    <3>   QED BY <1>5, <3>2, <3>4 DEF Reads
  <2>   QED BY <2>2, <2>4, <2>5
<1>   QED BY <1>4, <1>5

\* The rounds of the loop over the fields.
FieldRounds(f, rows, bs) ==
    /\ f \in [0..Len(bs) -> Reads(rows) \cup {Error}]
    /\ f[0] = [at |-> 1, msg |-> Zero(rows)]
    /\ \A n \in 1..Len(bs) :
          f[n] = IF f[n - 1] = Error \/ f[n - 1].at > Len(bs) THEN f[n - 1]
                 ELSE Field(rows, bs, f[n - 1])

\* An empty field has a content of its kind.
LEMMA EmptyType ==
    \A kind \in Kinds : Empty(kind) \in Content(kind)
<1>1. 0 < 2^Width
      BY Powers
<1>2. <<>> \in Bytes /\ <<>> \in Seq(Bytes)
      BY DEF Bytes
<1>   QED BY <1>1, <1>2, ContentIs, KindsDiffer DEF Kinds, Empty

\* The zero message is a message.
LEMMA ZeroType ==
    ASSUME NEW rows, Table(rows)
    PROVE  /\ Zero(rows) \in Msgs(rows)
           /\ \A r \in rows : Zero(rows)[r[3]] = Empty(r[4])
<1>1. ASSUME NEW r \in rows
      PROVE  (CHOOSE row \in rows : row[3] = r[3]) = r
      BY DEF Table
<1>2. \A r \in rows : Zero(rows)[r[3]] = Empty(r[4])
  <2> SUFFICES ASSUME NEW r \in rows
               PROVE  Zero(rows)[r[3]] = Empty(r[4])
      OBVIOUS
  <2>1. r[3] \in {row[3] : row \in rows}
        OBVIOUS
  <2>2. Zero(rows)[r[3]] = Empty((CHOOSE row \in rows : row[3] = r[3])[4])
        BY <2>1 DEF Zero
  <2>   QED BY <1>1, <2>2
<1>3. \A kind \in Kinds : Empty(kind) \in Content(kind)
      BY EmptyType
<1>4. \A r \in rows : Zero(rows)[r[3]] \in Content(r[4]) /\ Content(r[4]) \in SUBSET AnyContent
      BY <1>2, <1>3 DEF Table, AnyContent
<1>5. Zero(rows) \in [Names(rows) -> AnyContent]
  <2>1. Zero(rows) = [f \in Names(rows) |-> Zero(rows)[f]]
        BY DEF Zero, Names
  <2>2. \A f \in Names(rows) : Zero(rows)[f] \in AnyContent
        BY <1>4 DEF Names
  <2>   QED BY <2>1, <2>2
<1>   QED BY <1>2, <1>4, <1>5 DEF Msgs

\* What the loop has come to when it ends is the result.
LEMMA UnmarshalIs ==
    ASSUME NEW rows, Table(rows), NEW bs \in Bytes
    PROVE  \E f : /\ FieldRounds(f, rows, bs)
                  /\ \A n \in 0..Len(bs) :
                        (f[n] \in Reads(rows) /\ f[n].at > Len(bs)) =>
                            Unmarshal(rows, bs) = f[n].msg
<1> DEFINE len == Len(bs)
           V == Reads(rows) \cup {Error}
           start == [at |-> 1, msg |-> Zero(rows)]
           Ended(s) == s = Error \/ s.at > Len(bs)
           step == [s \in V |-> IF Ended(s) THEN s ELSE Field(rows, bs, s)]
           B(f) == [n \in 0..len |-> IF n = 0 THEN start
                       ELSE IF Ended(f[n - 1]) THEN f[n - 1] ELSE Field(rows, bs, f[n - 1])]
           H == CHOOSE f : f = B(f)
<1>1. len \in Nat
      BY DEF Bytes
<1>2. start \in V
      BY ZeroType DEF Reads
<1>3. \A s \in V : ~Ended(s) => Field(rows, bs, s) \in V
  <2> SUFFICES ASSUME NEW s \in V, ~Ended(s)
               PROVE  Field(rows, bs, s) \in V
      OBVIOUS
  <2>1. s \in Reads(rows) /\ s.at \in Nat /\ ~(s.at > len)
        BY DEF Reads
  <2>   QED BY <1>1, <2>1, FieldType
<1>4. step \in [V -> V]
      BY <1>3
<1>5. PICK g \in [0..len -> V] : Loops(g, len, start, step)
  <2> HIDE DEF len, start, step, V
  <2> QED BY <1>1, <1>2, <1>4, LoopExists
<1>6. g = B(g)
  <2>1. g = [k \in 0..len |-> IF k = 0 THEN start ELSE step[g[k - 1]]]
        BY <1>5 DEF Loops
  <2>2. \A k \in 0..len : k # 0 => g[k - 1] \in V
        BY <1>1, <1>5
  <2>3. \A k \in 0..len : k # 0 =>
           step[g[k - 1]] = IF Ended(g[k - 1]) THEN g[k - 1] ELSE Field(rows, bs, g[k - 1])
        BY <2>2
  <2> HIDE DEF step, start, len, Ended, V
  <2>   QED BY <2>1, <2>3
<1>7. H = B(H)
  <2> HIDE DEF B
  <2> QED BY <1>6
<1>8. \A k \in 0..len : k # 0 => k \in 1..len /\ k - 1 \in 0..len
      BY <1>1
<1>9. /\ H[0] = start
      /\ \A k \in 1..len : H[k] = IF Ended(H[k - 1]) THEN H[k - 1] ELSE Field(rows, bs, H[k - 1])
      /\ H = [k \in 0..len |-> H[k]]
  <2>1. H = B(H)
        BY <1>7
  <2> HIDE DEF H
  <2>2. /\ B(H)[0] = start
        /\ \A k \in 1..len :
              B(H)[k] = IF Ended(H[k - 1]) THEN H[k - 1] ELSE Field(rows, bs, H[k - 1])
    <3> HIDE DEF start, Ended
    <3> QED BY <1>1
  <2>3. B(H) = [k \in 0..len |-> B(H)[k]]
        OBVIOUS
  <2> HIDE DEF B
  <2>   QED BY <2>1, <2>2, <2>3
<1>10. LET last == H[CHOOSE n \in 0..len : Ended(H[n])]
       IN  Unmarshal(rows, bs) = IF last = Error THEN Error ELSE last.msg
      BY Zenon DEF Unmarshal, Round
<1> HIDE DEF H, B
<1>11. \A k \in 0..len : H[k] \in V
  <2> DEFINE T == {k \in 0..len : H[k] \in V}
  <2>1. 0 \in T
        BY <1>1, <1>2, <1>9
  <2>2. ASSUME NEW k \in 1..len, k - 1 \in T
        PROVE  k \in T
    <3> HIDE DEF start, V
    <3> QED BY <1>1, <1>3, <1>9, <2>2
  <2> HIDE DEF T, len, V
  <2>3. \A k \in 0..len : k \in T
        BY <1>1, <2>1, <2>2, Upwards
  <2>   QED BY <2>3 DEF T
<1>12. FieldRounds(H, rows, bs)
  <2>1. H \in [0..len -> V]
    <3> HIDE DEF len, V
    <3> QED BY <1>9, <1>11
  <2>   QED BY <1>9, <2>1 DEF FieldRounds
<1>13. \A m \in 0..len : Ended(H[m]) => \A n \in m..len : H[n] = H[m]
  <2> SUFFICES ASSUME NEW m \in 0..len, Ended(H[m])
               PROVE  \A n \in m..len : H[n] = H[m]
      OBVIOUS
  <2> DEFINE T == {k \in 0..len : k >= m => H[k] = H[m]}
  <2>1. 0 \in T
        BY <1>1
  <2>2. ASSUME NEW k \in 1..len, k - 1 \in T
        PROVE  k \in T
    <3>1. CASE k - 1 >= m
      <4>1. H[k - 1] = H[m]
            BY <2>2, <3>1
      <4>2. H[k] = H[m]
        <5> HIDE DEF len, T
        <5> QED BY <1>9, <4>1
      <4>   QED BY <1>1, <4>2
    <3>2. CASE ~(k - 1 >= m)
      <4>1. k >= m => k = m
            BY <1>1, <3>2
      <4>   QED BY <1>1, <4>1
    <3>   QED BY <3>1, <3>2
  <2> HIDE DEF T
  <2>3. \A k \in 0..len : k \in T
    <3> HIDE DEF len
    <3> QED BY <1>1, <2>1, <2>2, Upwards
  <2>   QED BY <1>1, <2>3 DEF T
<1>14. ASSUME NEW n \in 0..len, H[n] \in Reads(rows), H[n].at > Len(bs)
       PROVE  Unmarshal(rows, bs) = H[n].msg
  <2> DEFINE m == CHOOSE k \in 0..len : Ended(H[k])
  <2>1. Ended(H[n])
        BY <1>14
  <2>2. m \in 0..len /\ Ended(H[m])
        BY <2>1
  <2>3. Unmarshal(rows, bs) = IF H[m] = Error THEN Error ELSE H[m].msg
        BY <1>10
  <2> HIDE DEF m
  <2>4. m \in n..len \/ n \in m..len
        BY <1>1, <2>2
  <2>5. H[m] = H[n]
    <3> HIDE DEF len, Ended
    <3> QED BY <1>13, <2>1, <2>2, <2>4
  <2>6. H[n] # Error
    <3>1. \A s \in Reads(rows) : s # Error
          BY NoError DEF Reads
    <3>   QED BY <1>14, <3>1
  <2>   QED BY <2>3, <2>5, <2>6
<1>   QED BY <1>12, <1>14

\* The tags of numbers and of values with a length, in one byte.
Tags == {tag \in 8..127 : tag % 8 \in {0, 2}}

\* What the loop makes of a tag.
LEMMA TagIs ==
    ASSUME NEW bs \in Bytes, NEW p \in Nat, NEW tag \in Tags,
           Stands(bs, p, <<tag>>), NEW wire, wire = Varint(bs, p + 1)
    PROVE  /\ wire # Error /\ wire.value = tag /\ wire.next = p + 2
           /\ FieldNumber(wire) = tag \div 8 /\ Legal(wire)
<1>1. wire = [value |-> tag, next |-> p + 2]
  <2>1. tag \in 0..127
        BY DEF Tags
  <2>   QED BY <2>1, TagReads
<1>2. wire # Error /\ wire.value = tag /\ wire.next = p + 2
      BY <1>1, NoError
<1>3. tag \div 8 \in 1..15 /\ tag % 8 # 4
      BY DEF Tags
<1>4. \A n \in 1..15 : n % 2^(Width \div 2) = n /\ n \in 1..2^(Width \div 2 - 1) - 1
      BY Powers
<1>5. FieldNumber(wire) = tag \div 8
      BY <1>2, <1>3, <1>4 DEF FieldNumber
<1>   QED BY <1>2, <1>3, <1>4, <1>5 DEF Legal

\* What is read for a field of a wire type at position i, and what the field then gets.
Taken(bs, i, type) == IF type = 0 THEN Varint(bs, i) ELSE After(bs, i)

Gotten(bs, i, type) ==
    IF type = 0 THEN Taken(bs, i, type).value
    ELSE SubSeq(bs, Taken(bs, i, type).value, Taken(bs, i, type).next - 1)

\* A field of the table is merged into the message.
LEMMA FieldKnown ==
    ASSUME NEW rows, Table(rows), NEW bs \in Bytes, NEW p \in Nat, NEW tag \in Tags,
           NEW m, Stands(bs, p, <<tag>>),
           NEW r \in rows, r[1] = tag \div 8, r[2] = tag % 8,
           Taken(bs, p + 2, r[2]) # Error, ~(Taken(bs, p + 2, r[2]).next > Len(bs) + 1)
    PROVE  Field(rows, bs, [at |-> p + 1, msg |-> m]) =
               [at |-> Taken(bs, p + 2, r[2]).next,
                msg |-> [m EXCEPT ![r[3]] = Merged(r[4], @, Gotten(bs, p + 2, r[2]))]]
<1> DEFINE end == Taken(bs, p + 2, r[2])
           got == Gotten(bs, p + 2, r[2])
           s == [at |-> p + 1, msg |-> m]
           wire == Varint(bs, s.at)
           known == {row \in rows : row[1] = FieldNumber(wire)}
           row == CHOOSE r_ \in known : TRUE
           ends == IF known = {} THEN skip(bs, s.at)
                   ELSE CASE row[2] # wire.value % 8 -> Error
                          [] row[2] = wire.value % 8 /\ row[2] = 0 -> Varint(bs, wire.next)
                          [] row[2] = wire.value % 8 /\ row[2] = 2 -> After(bs, wire.next)
           gets == IF row[2] = 0 THEN ends.value ELSE SubSeq(bs, ends.value, ends.next - 1)
<1>1. Field(rows, bs, s) =
          IF wire = Error \/ ~Legal(wire) THEN Error
          ELSE IF ends = Error \/ ends.next > Len(bs) + 1 THEN Error
          ELSE [at |-> ends.next,
                msg |-> IF known = {} THEN s.msg
                        ELSE [s.msg EXCEPT ![row[3]] = Merged(row[4], @, gets)]]
      BY Zenon DEF Field, TakenIn, End
<1>2. s.at = p + 1 /\ s.msg = m
      OBVIOUS
<1>3. wire # Error /\ wire.value = tag /\ wire.next = p + 2
      /\ FieldNumber(wire) = tag \div 8 /\ Legal(wire)
  <2>1. wire = Varint(bs, p + 1)
        BY <1>2
  <2> HIDE DEF wire
  <2>   QED BY <2>1, TagIs
<1> HIDE DEF wire, s
<1>4. known # {} /\ row = r
  <2>1. known = {r}
        BY <1>3 DEF Table
  <2>   QED BY <2>1
<1> HIDE DEF known, row
<1>5. ends = end
  <2>0. r[2] \in {0, 2}
        BY DEF Table, WireType
  <2>1. CASE r[2] = 0
    <3>1. ends = Varint(bs, wire.next)
          BY <1>3, <1>4, <2>1
    <3>   QED BY <1>3, <2>1, <3>1 DEF Taken
  <2>2. CASE r[2] = 2
    <3>1. ends = After(bs, wire.next)
          BY <1>3, <1>4, <2>2
    <3>   QED BY <1>3, <2>2, <3>1 DEF Taken
  <2>   QED BY <2>0, <2>1, <2>2
<1> HIDE DEF ends
<1>6. gets = got
      BY <1>4, <1>5 DEF Gotten
<1> HIDE DEF gets, end, got
<1>6a. end # Error /\ ~(end.next > Len(bs) + 1)
      BY DEF end
<1>   QED BY <1>1, <1>2, <1>3, <1>4, <1>5, <1>6, <1>6a DEF s, end, got

\* A field the table does not have is left out.
LEMMA FieldUnknown ==
    ASSUME NEW rows, Table(rows), NEW bs \in Bytes, NEW p \in Nat, NEW tag \in Tags,
           NEW m, Stands(bs, p, <<tag>>),
           \A r \in rows : r[1] # tag \div 8,
           skip(bs, p + 1) # Error, ~(skip(bs, p + 1).next > Len(bs) + 1)
    PROVE  Field(rows, bs, [at |-> p + 1, msg |-> m]) =
               [at |-> skip(bs, p + 1).next, msg |-> m]
<1> DEFINE s == [at |-> p + 1, msg |-> m]
           wire == Varint(bs, s.at)
           known == {row \in rows : row[1] = FieldNumber(wire)}
           row == CHOOSE r_ \in known : TRUE
           ends == IF known = {} THEN skip(bs, s.at)
                   ELSE CASE row[2] # wire.value % 8 -> Error
                          [] row[2] = wire.value % 8 /\ row[2] = 0 -> Varint(bs, wire.next)
                          [] row[2] = wire.value % 8 /\ row[2] = 2 -> After(bs, wire.next)
           gets == IF row[2] = 0 THEN ends.value ELSE SubSeq(bs, ends.value, ends.next - 1)
<1>1. Field(rows, bs, s) =
          IF wire = Error \/ ~Legal(wire) THEN Error
          ELSE IF ends = Error \/ ends.next > Len(bs) + 1 THEN Error
          ELSE [at |-> ends.next,
                msg |-> IF known = {} THEN s.msg
                        ELSE [s.msg EXCEPT ![row[3]] = Merged(row[4], @, gets)]]
      BY Zenon DEF Field, TakenIn, End
<1>2. s.at = p + 1 /\ s.msg = m
      OBVIOUS
<1>3. wire # Error /\ wire.value = tag /\ wire.next = p + 2
      /\ FieldNumber(wire) = tag \div 8 /\ Legal(wire)
  <2>1. wire = Varint(bs, p + 1)
        BY <1>2
  <2> HIDE DEF wire
  <2>   QED BY <2>1, TagIs
<1> HIDE DEF wire, s
<1>4. known = {}
      BY <1>3
<1> HIDE DEF known
<1>5. ends = skip(bs, p + 1)
      BY <1>2, <1>4
<1> HIDE DEF ends, gets, row
<1>   QED BY <1>1, <1>2, <1>3, <1>4, <1>5 DEF s

\* One occurrence of a field stands in bs after p.
OccursNumber(bs, p, tag, v) ==
    v \in Nat /\ v < 2^Width /\ Stands(bs, p, <<tag>>) /\ Stands(bs, p + 1, encodeVarint(v))

OccursDelimited(bs, p, tag, v) ==
    /\ v \in Bytes /\ Stands(bs, p, <<tag>>) /\ Stands(bs, p + 1, encodeVarint(Len(v)))
    /\ Stands(bs, p + 1 + Groups(Len(v)), v)

\* The occurrence v of a field with tag, of wire type `type`, is taken into m if the table
\* has the field, and left out if not; the next field is at q.
TakesIn(rows, bs, p, tag, type, v, q, m) ==
    /\ \A r \in rows : r[1] = tag \div 8 /\ r[2] = type =>
          Field(rows, bs, [at |-> p + 1, msg |-> m]) =
              [at |-> q, msg |-> [m EXCEPT ![r[3]] = Merged(r[4], @, v)]]
    /\ (\A r \in rows : r[1] # tag \div 8) =>
          Field(rows, bs, [at |-> p + 1, msg |-> m]) = [at |-> q, msg |-> m]

\* A number is merged into its field, or skipped when the table has no such field.
LEMMA NumberTaken ==
    ASSUME NEW rows, Table(rows), NEW bs \in Bytes, NEW p \in Nat, NEW tag \in Tags,
           tag % 8 = 0, NEW m, NEW v, OccursNumber(bs, p, tag, v)
    PROVE  /\ Groups(v) \in 1..4 /\ p + 1 + Groups(v) <= Len(bs)
           /\ TakesIn(rows, bs, p, tag, 0, v, p + 2 + Groups(v), m)
<1> DEFINE end == Varint(bs, p + 2)
           q == p + 2 + Groups(v)
<1>0. tag \in 0..127
      BY DEF Tags
<1>1. /\ v \in Nat /\ v < 2^Width /\ Stands(bs, p, <<tag>>) /\ Stands(bs, p + 1, encodeVarint(v))
      BY DEF OccursNumber
<1>2. Groups(v) \in 1..4 /\ Len(encodeVarint(v)) = Groups(v) /\ Len(bs) \in Nat
      BY <1>1, VarintBytes DEF Bytes
<1>3. p + 1 + Groups(v) <= Len(bs)
      BY <1>1, <1>2 DEF Stands
<1>4. end = [value |-> v, next |-> q]
  <2>1. Varint(bs, (p + 1) + 1) = [value |-> v, next |-> (p + 1) + 1 + Groups(v)]
        BY <1>1, VarintReads
  <2>   QED BY <2>1
<1>5. end # Error /\ end.value = v /\ end.next = q /\ ~(q > Len(bs) + 1)
      BY <1>2, <1>3, <1>4, NoError
<1>6. skip(bs, p + 1) = [next |-> q, depth |-> 0]
      BY <1>0, <1>1, NumberSkipped
<1> HIDE DEF end, q
<1>7. ASSUME NEW r \in rows, r[1] = tag \div 8, r[2] = 0
      PROVE  Field(rows, bs, [at |-> p + 1, msg |-> m]) =
                 [at |-> q, msg |-> [m EXCEPT ![r[3]] = Merged(r[4], @, v)]]
  <2>1. r[2] = tag % 8 /\ end # Error /\ ~(end.next > Len(bs) + 1)
        BY <1>5, <1>7
  <2>2. Taken(bs, p + 2, r[2]) = end /\ Gotten(bs, p + 2, r[2]) = v
        BY <1>5, <1>7 DEF end, Taken, Gotten
  <2>0. Stands(bs, p, <<tag>>)
        BY <1>1
  <2>4. Taken(bs, p + 2, r[2]) # Error /\ ~(Taken(bs, p + 2, r[2]).next > Len(bs) + 1)
        BY <2>1, <2>2
  <2>3. Field(rows, bs, [at |-> p + 1, msg |-> m]) =
            [at |-> Taken(bs, p + 2, r[2]).next,
             msg |-> [m EXCEPT ![r[3]] = Merged(r[4], @, Gotten(bs, p + 2, r[2]))]]
        BY <1>7, <2>0, <2>1, <2>4, FieldKnown, SMTT(30)
  <2>   QED BY <1>5, <2>2, <2>3
<1>8. ASSUME \A r \in rows : r[1] # tag \div 8
      PROVE  Field(rows, bs, [at |-> p + 1, msg |-> m]) = [at |-> q, msg |-> m]
  <2>1. skip(bs, p + 1) # Error /\ skip(bs, p + 1).next = q
        BY <1>6, NoError
  <2>0. ~(skip(bs, p + 1).next > Len(bs) + 1)
        BY <1>5, <2>1
  <2>2. Field(rows, bs, [at |-> p + 1, msg |-> m]) = [at |-> skip(bs, p + 1).next, msg |-> m]
        BY <1>1, <1>8, <2>0, <2>1, FieldUnknown
  <2>   QED BY <2>1, <2>2
<1>9. TakesIn(rows, bs, p, tag, 0, v, q, m)
      BY <1>7, <1>8 DEF TakesIn
<1>   QED BY <1>2, <1>3, <1>9 DEF q

\* A value with its length is merged into its field, or skipped.
LEMMA DelimitedTaken ==
    ASSUME NEW rows, Table(rows), NEW bs \in Bytes, Fits(bs), NEW p \in Nat, NEW tag \in Tags,
           tag % 8 = 2, NEW m, NEW v, OccursDelimited(bs, p, tag, v)
    PROVE  /\ Groups(Len(v)) \in 1..4 /\ Len(v) \in Nat
           /\ p + 1 + Groups(Len(v)) + Len(v) <= Len(bs)
           /\ TakesIn(rows, bs, p, tag, 2, v, p + 2 + Groups(Len(v)) + Len(v), m)
<1> DEFINE end == After(bs, p + 2)
           q == p + 2 + Groups(Len(v)) + Len(v)
<1>0. tag \in 0..127
      BY DEF Tags
<1>1. /\ v \in Bytes /\ Stands(bs, p, <<tag>>) /\ Stands(bs, p + 1, encodeVarint(Len(v)))
      /\ Stands(bs, p + 1 + Groups(Len(v)), v)
      BY DEF OccursDelimited
<1>2. /\ Len(v) \in Nat /\ Groups(Len(v)) \in 1..4
      /\ (p + 1) + Groups(Len(v)) + Len(v) <= Len(bs)
      /\ After(bs, (p + 1) + 1) = [value |-> (p + 1) + Groups(Len(v)) + 1,
                                  next |-> (p + 1) + Groups(Len(v)) + Len(v) + 1]
      /\ SubSeq(bs, (p + 1) + Groups(Len(v)) + 1, (p + 1) + Groups(Len(v)) + Len(v)) = v
      BY <1>1, AfterReads
<1>3. Len(bs) \in Nat /\ (p + 1) + 1 = p + 2
      /\ q = (p + 1) + Groups(Len(v)) + Len(v) + 1
      /\ q - 1 = (p + 1) + Groups(Len(v)) + Len(v)
  <2>1. Len(bs) \in Nat
        BY DEF Bytes
  <2> DEFINE g == Groups(Len(v))
             n == Len(v)
  <2>2. g \in Nat /\ n \in Nat
        BY <1>2
  <2>3. q = p + 2 + g + n
        OBVIOUS
  <2> HIDE DEF g, n, q
  <2>4. (p + 1) + 1 = p + 2 /\ q = (p + 1) + g + n + 1 /\ q - 1 = (p + 1) + g + n
        BY <2>2, <2>3
  <2>   QED BY <2>1, <2>4 DEF g, n
<1>4. end = [value |-> (p + 1) + Groups(Len(v)) + 1, next |-> q]
      BY <1>2, <1>3
<1> HIDE DEF end, q
<1>5. end # Error /\ end.next = q /\ ~(q > Len(bs) + 1)
      /\ SubSeq(bs, end.value, end.next - 1) = v
      BY <1>2, <1>3, <1>4, NoError
<1>6. skip(bs, p + 1) = [next |-> q, depth |-> 0]
      BY <1>0, <1>1, DelimitedSkipped DEF q
<1>7. ASSUME NEW r \in rows, r[1] = tag \div 8, r[2] = 2
      PROVE  Field(rows, bs, [at |-> p + 1, msg |-> m]) =
                 [at |-> q, msg |-> [m EXCEPT ![r[3]] = Merged(r[4], @, v)]]
  <2>1. r[2] = tag % 8 /\ end # Error /\ ~(end.next > Len(bs) + 1)
        BY <1>5, <1>7
  <2>2. Taken(bs, p + 2, r[2]) = end /\ Gotten(bs, p + 2, r[2]) = v
        BY <1>5, <1>7 DEF end, Taken, Gotten
  <2>0. Stands(bs, p, <<tag>>)
        BY <1>1
  <2>4. Taken(bs, p + 2, r[2]) # Error /\ ~(Taken(bs, p + 2, r[2]).next > Len(bs) + 1)
        BY <2>1, <2>2
  <2>3. Field(rows, bs, [at |-> p + 1, msg |-> m]) =
            [at |-> Taken(bs, p + 2, r[2]).next,
             msg |-> [m EXCEPT ![r[3]] = Merged(r[4], @, Gotten(bs, p + 2, r[2]))]]
        BY <1>7, <2>0, <2>1, <2>4, FieldKnown, SMTT(30)
  <2>   QED BY <1>5, <2>2, <2>3
<1>8. ASSUME \A r \in rows : r[1] # tag \div 8
      PROVE  Field(rows, bs, [at |-> p + 1, msg |-> m]) = [at |-> q, msg |-> m]
  <2>1. skip(bs, p + 1) # Error /\ skip(bs, p + 1).next = q
        BY <1>6, NoError
  <2>0. ~(skip(bs, p + 1).next > Len(bs) + 1)
        BY <1>5, <2>1
  <2>2. Field(rows, bs, [at |-> p + 1, msg |-> m]) = [at |-> skip(bs, p + 1).next, msg |-> m]
        BY <1>1, <1>8, <2>0, <2>1, FieldUnknown
  <2>   QED BY <2>1, <2>2
<1>9. TakesIn(rows, bs, p, tag, 2, v, q, m)
      BY <1>7, <1>8 DEF TakesIn
<1>   QED BY <1>2, <1>9 DEF q

----------------------------------------------------------------------------
(* What is flattened stands in sequence.                                   *)

\* f starts with start and takes a step of its own at each position.
Stages(f, n, start, step) == f[0] = start /\ \A k \in 1..n : f[k] = step[k][f[k - 1]]

\* There is such a function.
LEMMA StagesExist ==
    ASSUME NEW n \in Nat, NEW V, NEW start \in V, NEW step \in [1..n -> [V -> V]]
    PROVE  \E f \in [0..n -> V] : Stages(f, n, start, step)
<1> DEFINE next == [i \in 1..n |-> i + 1]
           each == [i \in 1..n |-> step[n + 1 - i]]
<1>1. next \in [1..n -> Nat] /\ \A i \in 1..n : next[i] \in i + 1..n + 1
      OBVIOUS
<1>2. each \in [1..n -> [V -> V]]
      OBVIOUS
<1>3. PICK g \in [1..n + 1 -> V] : Recurs(g, n, next, start, each)
  <2> HIDE DEF next, each
  <2> QED BY <1>1, <1>2, RecursionExists
<1> DEFINE f == [k \in 0..n |-> g[n + 1 - k]]
<1>4. f \in [0..n -> V]
      OBVIOUS
<1>5. f[0] = start
      BY <1>3 DEF Recurs
<1>6. ASSUME NEW k \in 1..n
      PROVE  f[k] = step[k][f[k - 1]]
  <2>1. PICK a \in 1..n : a = n + 1 - k
        OBVIOUS
  <2>2. next[a] = a + 1 /\ each[a] = step[k]
        BY <2>1
  <2>3. f[k] = g[a] /\ f[k - 1] = g[a + 1]
        BY <2>1
  <2>4. g[a] = each[a][g[next[a]]]
        BY <1>3 DEF Recurs
  <2> HIDE DEF next, each, f
  <2>   QED BY <2>2, <2>3, <2>4
<1> HIDE DEF f
<1>7. Stages(f, n, start, step)
      BY <1>5, <1>6 DEF Stages
<1>   QED BY <1>4, <1>7

\* What stands in a part of bs stands in bs.
LEMMA StandsWithin ==
    ASSUME NEW bs \in Bytes, NEW p \in Nat, NEW s \in Bytes, Stands(bs, p, s),
           NEW q \in Nat, NEW t \in Bytes, Stands(s, q, t)
    PROVE  Stands(bs, p + q, t)
<1>1. Len(s) \in Nat /\ Len(t) \in Nat /\ Len(bs) \in Nat
      BY DEF Bytes
<1>2. p + q + Len(t) <= Len(bs)
      BY <1>1 DEF Stands
<1>3. ASSUME NEW k \in p + q + 1..p + q + Len(t)
      PROVE  bs[k] = t[k - (p + q)]
  <2> DEFINE j == k - p
  <2>1. j \in q + 1..q + Len(t) /\ k \in p + 1..p + Len(s) /\ j - q = k - (p + q)
        BY <1>1 DEF Stands
  <2>2. bs[k] = s[j]
        BY <2>1 DEF Stands
  <2> HIDE DEF j
  <2>3. s[j] = t[j - q]
        BY <2>1 DEF Stands
  <2>   QED BY <2>1, <2>2, <2>3
<1>   QED BY <1>2, <1>3 DEF Stands

\* A sequence stands in itself.
LEMMA StandsAlone ==
    ASSUME NEW bs \in Bytes
    PROVE  Stands(bs, 0, bs)
<1>1. Len(bs) \in Nat
      BY DEF Bytes
<1>   QED BY <1>1 DEF Stands

\* Where the parts of a flattened sequence end.
Borders(ends, seqs, bs) ==
    /\ ends \in [0..Len(seqs) -> Nat]
    /\ ends[0] = 0 /\ ends[Len(seqs)] = Len(bs)
    /\ \A i \in 1..Len(seqs) :
          ends[i] = ends[i - 1] + Len(seqs[i]) /\ Stands(bs, ends[i - 1], seqs[i])

\* The parts stand in the flattened sequence one behind the other.
LEMMA Flattened ==
    ASSUME NEW seqs \in Seq(Bytes)
    PROVE  /\ FlattenSeq(seqs) \in Bytes
           /\ \E ends : Borders(ends, seqs, FlattenSeq(seqs))
<1> DEFINE n == Len(seqs)
           step == [k \in 1..n |-> [s \in Bytes |-> s \o seqs[k]]]
           B(f) == [i \in 1..n |-> IF i = 1 THEN seqs[i] ELSE f[i - 1] \o seqs[i]]
           H == CHOOSE f : f = B(f)
<1>1. n \in Nat /\ \A i \in 1..n : seqs[i] \in Bytes
      OBVIOUS
<1>2. <<>> \in Bytes /\ \A s, t \in Bytes : s \o t \in Bytes
      BY DEF Bytes
<1>3. step \in [1..n -> [Bytes -> Bytes]]
      BY <1>1, <1>2
<1>4. PICK f \in [0..n -> Bytes] : f[0] = <<>> /\ \A k \in 1..n : f[k] = step[k][f[k - 1]]
  <2> DEFINE none == <<>>
             V == Bytes
  <2>1. n \in Nat /\ none \in V /\ step \in [1..n -> [V -> V]]
        BY <1>1, <1>2, <1>3
  <2> HIDE DEF n, step, none, V
  <2>2. \E f \in [0..n -> V] : Stages(f, n, none, step)
        BY <2>1, StagesExist
  <2>   QED BY <2>2 DEF none, V, Stages
<1>5. \A k \in 1..n : f[k] = f[k - 1] \o seqs[k] /\ k - 1 \in 0..n
  <2> SUFFICES ASSUME NEW k \in 1..n
               PROVE  f[k] = f[k - 1] \o seqs[k] /\ k - 1 \in 0..n
      OBVIOUS
  <2>1. k - 1 \in 0..n
        BY <1>1
  <2>2. step[k][f[k - 1]] = f[k - 1] \o seqs[k]
        BY <2>1
  <2>   QED BY <1>4, <2>1, <2>2
<1> HIDE DEF step
<1> DEFINE g == [i \in 1..n |-> f[i]]
<1>6. g = B(g)
  <2>1. ASSUME NEW i \in 1..n
        PROVE  g[i] = IF i = 1 THEN seqs[i] ELSE g[i - 1] \o seqs[i]
    <3>1. CASE i = 1
      <4>1. f[1] = <<>> \o seqs[1] /\ seqs[1] \in Bytes
        <5>1. 1 \in 1..n /\ 1 - 1 = 0
              BY <1>1, <3>1
        <5>2. f[1] = f[1 - 1] \o seqs[1]
              BY <1>5, <5>1
        <5>   QED BY <1>1, <1>4, <5>1, <5>2
      <4>2. <<>> \o seqs[1] = seqs[1]
            BY <4>1 DEF Bytes
      <4>   QED BY <3>1, <4>1, <4>2
    <3>2. CASE i # 1
      <4>1. i - 1 \in 1..n
            BY <1>1, <3>2
      <4>2. g[i - 1] = f[i - 1] /\ g[i] = f[i]
            BY <4>1
      <4>3. f[i] = f[i - 1] \o seqs[i]
            BY <1>5
      <4> HIDE DEF g, n
      <4>   QED BY <3>2, <4>2, <4>3
    <3>   QED BY <3>1, <3>2
  <2>2. g = [i \in 1..n |-> g[i]]
        OBVIOUS
  <2> HIDE DEF g, n
  <2>   QED BY <2>1, <2>2
<1>7. H = B(H)
  <2> HIDE DEF B, g
  <2> QED BY <1>6
<1>8. \A i \in 1..n : H[i] = IF i = 1 THEN seqs[i] ELSE H[i - 1] \o seqs[i]
  <2> SUFFICES ASSUME NEW i \in 1..n
               PROVE  H[i] = IF i = 1 THEN seqs[i] ELSE H[i - 1] \o seqs[i]
      OBVIOUS
  <2> HIDE DEF H
  <2>1. B(H)[i] = IF i = 1 THEN seqs[i] ELSE H[i - 1] \o seqs[i]
    <3> HIDE DEF n
    <3> QED OBVIOUS
  <2> HIDE DEF B, n
  <2>   QED BY <1>7, <2>1
<1> HIDE DEF H, B, g
<1>9. \A k \in 0..n : k > 0 => H[k] = f[k]
  <2> DEFINE T == {k \in 0..n : k > 0 => H[k] = f[k]}
  <2>1. 0 \in T
        BY <1>1
  <2>2. ASSUME NEW k \in 1..n, k - 1 \in T
        PROVE  k \in T
    <3>1. CASE k = 1
      <4>1. f[1] = <<>> \o seqs[1] /\ seqs[1] \in Bytes
        <5>1. 1 \in 1..n /\ 1 - 1 = 0
              BY <1>1, <3>1
        <5>2. f[1] = f[1 - 1] \o seqs[1]
              BY <1>5, <5>1
        <5>   QED BY <1>1, <1>4, <5>1, <5>2
      <4>2. <<>> \o seqs[1] = seqs[1]
            BY <4>1 DEF Bytes
      <4>3. H[k] = f[k]
        <5> HIDE DEF n, T
        <5> QED BY <1>8, <3>1, <4>1, <4>2
      <4>   QED BY <1>1, <4>3
    <3>2. CASE k # 1
      <4>1. H[k - 1] = f[k - 1]
        <5>1. k - 1 > 0
              BY <1>1, <3>2
        <5>   QED BY <2>2, <5>1
      <4>2. H[k] = H[k - 1] \o seqs[k] /\ f[k] = f[k - 1] \o seqs[k]
        <5> HIDE DEF n, T
        <5> QED BY <1>5, <1>8, <3>2
      <4>3. H[k] = f[k]
            BY <4>1, <4>2
      <4> HIDE DEF n
      <4>   QED BY <1>1, <4>3
    <3>   QED BY <3>1, <3>2
  <2> HIDE DEF T, n
  <2>3. \A k \in 0..n : k \in T
        BY <1>1, <2>1, <2>2, Upwards
  <2>   QED BY <2>3 DEF T
<1>10. FlattenSeq(seqs) = f[n]
  <2>1. FlattenSeq(seqs) = IF n = 0 THEN seqs ELSE H[n]
        BY Zenon DEF FlattenSeq, H, B
  <2>2. CASE n = 0
    <3>1. seqs = <<>>
          BY <2>2
    <3>   QED BY <1>4, <2>1, <2>2, <3>1
  <2>3. CASE n # 0
    <3>1. n \in 0..n /\ n > 0
          BY <1>1, <2>3
    <3> HIDE DEF n
    <3>   QED BY <1>9, <2>1, <2>3, <3>1
  <2>   QED BY <2>2, <2>3
<1> DEFINE ends == [k \in 0..n |-> Len(f[k])]
<1>11. \A k \in 0..n : Len(f[k]) \in Nat
  <2> SUFFICES ASSUME NEW k \in 0..n
               PROVE  Len(f[k]) \in Nat
      OBVIOUS
  <2>1. f[k] \in Seq(Nat)
        BY DEF Bytes
  <2>   QED BY <2>1
<1>12. \A k \in 1..n : Len(f[k]) = Len(f[k - 1]) + Len(seqs[k])
           /\ Stands(f[k], 0, f[k - 1]) /\ Stands(f[k], Len(f[k - 1]), seqs[k])
  <2> SUFFICES ASSUME NEW k \in 1..n
               PROVE  /\ Len(f[k]) = Len(f[k - 1]) + Len(seqs[k])
                      /\ Stands(f[k], 0, f[k - 1]) /\ Stands(f[k], Len(f[k - 1]), seqs[k])
      OBVIOUS
  <2> DEFINE a == f[k - 1]
             b == seqs[k]
             c == f[k]
  <2>1. a \in Bytes /\ b \in Bytes /\ c \in Bytes /\ c = a \o b
    <3>1. k - 1 \in 0..n /\ k \in 0..n
          BY <1>1
    <3>   QED BY <1>1, <1>5, <3>1
  <2> HIDE DEF a, b, c
  <2>2. Stands(c, 0, a \o b)
        BY <2>1, StandsAlone
  <2>3. Stands(c, 0, a) /\ Stands(c, 0 + Len(a), b) /\ Len(c) = Len(a) + Len(b) /\ Len(a) \in Nat
        BY <2>1, <2>2, StandsJoin
  <2>4. 0 + Len(a) = Len(a)
        BY <2>3
  <2>   QED BY <2>3, <2>4 DEF a, b, c
<1>13. \A k \in 0..n : \A i \in 1..k : Stands(f[k], Len(f[i - 1]), seqs[i])
  <2> DEFINE T == {k \in 0..n : \A i \in 1..k : Stands(f[k], Len(f[i - 1]), seqs[i])}
  <2>1. 0 \in T
        BY <1>1
  <2>2. ASSUME NEW k \in 1..n, k - 1 \in T
        PROVE  k \in T
    <3> SUFFICES ASSUME NEW i \in 1..k
                 PROVE  Stands(f[k], Len(f[i - 1]), seqs[i])
        BY <1>1
    <3>1. CASE i = k
          BY <1>12, <3>1
    <3>2. CASE i # k
      <4>1. i \in 1..k - 1 /\ i - 1 \in 0..n /\ k - 1 \in 0..n /\ i \in 1..n /\ k \in 0..n
            BY <1>1, <3>2
      <4>2. Stands(f[k - 1], Len(f[i - 1]), seqs[i])
            BY <2>2, <4>1
      <4>3. Stands(f[k], 0, f[k - 1])
            BY <1>12
      <4>4. Stands(f[k], 0 + Len(f[i - 1]), seqs[i])
            BY <1>1, <1>11, <4>1, <4>2, <4>3, StandsWithin
      <4>5. 0 + Len(f[i - 1]) = Len(f[i - 1])
            BY <1>11, <4>1
      <4>   QED BY <4>4, <4>5
    <3>   QED BY <3>1, <3>2
  <2> HIDE DEF T, n
  <2>3. \A k \in 0..n : k \in T
        BY <1>1, <2>1, <2>2, Upwards
  <2>   QED BY <2>3 DEF T
<1>14. n \in 0..n /\ 0 \in 0..n
      BY <1>1
<1>15. Len(<<>>) = 0
      OBVIOUS
<1>16. \A i \in 1..n : i - 1 \in 0..n /\ i \in 0..n
      BY <1>1
<1> HIDE DEF n
<1>17. /\ ends \in [0..n -> Nat] /\ ends[0] = 0 /\ ends[n] = Len(f[n])
       /\ \A i \in 1..n : ends[i] = ends[i - 1] + Len(seqs[i]) /\ Stands(f[n], ends[i - 1], seqs[i])
      BY <1>4, <1>11, <1>12, <1>13, <1>14, <1>15, <1>16
<1>18. Borders(ends, seqs, f[n])
      BY <1>17 DEF Borders, n
<1>   QED BY <1>10, <1>14, <1>18

----------------------------------------------------------------------------
(* What a row of the marshaller writes.                                    *)

\* A value with its tag and length.
LEMMA DelimitedIs ==
    ASSUME NEW tag \in Nat, NEW v \in Bytes
    PROVE  /\ Delimited(tag, v) \in Bytes
           /\ Len(Delimited(tag, v)) = 1 + Groups(Len(v)) + Len(v)
           /\ Len(v) \in Nat /\ Groups(Len(v)) \in 1..4
           /\ \A bs \in Bytes : \A p \in Nat :
                 Stands(bs, p, Delimited(tag, v)) => OccursDelimited(bs, p, tag, v)
<1> DEFINE e == encodeVarint(Len(v))
           t == <<tag>>
<1>1. Len(v) \in Nat
      BY DEF Bytes
<1>2. e \in Bytes /\ Len(e) = Groups(Len(v)) /\ Groups(Len(v)) \in 1..4
      BY <1>1, VarintBytes
<1>3. t \in Bytes /\ Len(t) = 1
      BY DEF Bytes
<1>4. Delimited(tag, v) = (t \o e) \o v
      BY DEF Delimited
<1> HIDE DEF e, t
<1>5. /\ t \o e \in Bytes /\ Len(t \o e) = Len(t) + Len(e)
      /\ (t \o e) \o v \in Bytes /\ Len((t \o e) \o v) = Len(t \o e) + Len(v)
  <2>1. t \o e \in Bytes /\ Len(t \o e) = Len(t) + Len(e)
        BY <1>2, <1>3, Joined DEF Bytes
  <2> DEFINE s == t \o e
  <2>2. s \in Bytes
        BY <2>1
  <2> HIDE DEF s
  <2>3. s \o v \in Bytes /\ Len(s \o v) = Len(s) + Len(v)
        BY <2>2, Joined DEF Bytes
  <2>   QED BY <2>1, <2>3 DEF s
<1>6. ASSUME NEW bs \in Bytes, NEW p \in Nat, Stands(bs, p, Delimited(tag, v))
      PROVE  OccursDelimited(bs, p, tag, v)
  <2>0. Stands(bs, p, (t \o e) \o v)
        BY <1>4, <1>6
  <2>1. Stands(bs, p, t \o e) /\ Stands(bs, p + Len(t \o e), v)
        BY <1>5, <2>0, StandsJoin
  <2>2. Stands(bs, p, t) /\ Stands(bs, p + Len(t), e)
        BY <1>2, <1>3, <2>1, StandsJoin
  <2>3. p + Len(t \o e) = p + 1 + Groups(Len(v)) /\ p + Len(t) = p + 1
        BY <1>2, <1>3, <1>5
  <2>   QED BY <2>1, <2>2, <2>3 DEF OccursDelimited, e, t
<1>7. Len(Delimited(tag, v)) = 1 + Groups(Len(v)) + Len(v)
      BY <1>2, <1>3, <1>4, <1>5
<1>   QED BY <1>1, <1>2, <1>4, <1>5, <1>6, <1>7

\* A number with its tag.
Numbered(tag, v) == <<tag>> \o encodeVarint(v)

\* It is bytes, and a number that occurs where it stands.
LEMMA NumberedIs ==
    ASSUME NEW tag \in Nat, NEW v \in Nat
    PROVE  /\ Numbered(tag, v) \in Bytes
           /\ Len(Numbered(tag, v)) = 1 + Groups(v) /\ Groups(v) \in 1..4
           /\ \A bs \in Bytes : \A p \in Nat :
                 v < 2^Width /\ Stands(bs, p, Numbered(tag, v)) => OccursNumber(bs, p, tag, v)
<1> DEFINE e == encodeVarint(v)
           t == <<tag>>
<1>2. e \in Bytes /\ Len(e) = Groups(v) /\ Groups(v) \in 1..4
      BY VarintBytes
<1>3. t \in Bytes /\ Len(t) = 1
      BY DEF Bytes
<1>4. Numbered(tag, v) = t \o e
      BY DEF Numbered
<1> HIDE DEF e, t
<1>5. t \o e \in Bytes /\ Len(t \o e) = Len(t) + Len(e)
      BY <1>2, <1>3, Joined DEF Bytes
<1>6. ASSUME NEW bs \in Bytes, NEW p \in Nat, v < 2^Width, Stands(bs, p, Numbered(tag, v))
      PROVE  OccursNumber(bs, p, tag, v)
  <2>1. Stands(bs, p, t \o e)
        BY <1>4, <1>6
  <2>2. Stands(bs, p, t) /\ Stands(bs, p + Len(t), e)
        BY <1>2, <1>3, <2>1, StandsJoin
  <2>3. p + Len(t) = p + 1
        BY <1>3
  <2>   QED BY <1>6, <2>2, <2>3 DEF OccursNumber, e, t
<1>   QED BY <1>2, <1>3, <1>4, <1>5, <1>6

\* The elements of a repeated field.
Elements(tag, v) == [i \in DOMAIN v |-> Delimited(tag, v[i])]

\* They are values with their tag and length.
LEMMA ElementsType ==
    ASSUME NEW tag \in Nat, NEW v \in Seq(Bytes)
    PROVE  /\ Elements(tag, v) \in Seq(Bytes) /\ Len(Elements(tag, v)) = Len(v)
           /\ Len(v) \in Nat
           /\ \A i \in 1..Len(v) : v[i] \in Bytes /\ Elements(tag, v)[i] = Delimited(tag, v[i])
<1>1. Len(v) \in Nat /\ DOMAIN v = 1..Len(v) /\ \A i \in 1..Len(v) : v[i] \in Bytes
      OBVIOUS
<1>2. \A i \in 1..Len(v) : Delimited(tag, v[i]) \in Bytes
      BY <1>1, DelimitedIs
<1>3. Elements(tag, v) = [i \in 1..Len(v) |-> Delimited(tag, v[i])]
      BY <1>1, Zenon DEF Elements
<1> DEFINE n == Len(v)
<1> HIDE DEF n
<1>4. [i \in 1..n |-> Delimited(tag, v[i])] \in Seq(Bytes)
      /\ Len([i \in 1..n |-> Delimited(tag, v[i])]) = n
  <2>1. n \in Nat /\ \A i \in 1..n : Delimited(tag, v[i]) \in Bytes
        BY <1>1, <1>2 DEF n
  <2> DEFINE D(i) == Delimited(tag, v[i])
  <2> HIDE DEF D
  <2>2. \A i \in 1..n : D(i) \in Bytes
        BY <2>1 DEF D
  <2>3. [i \in 1..n |-> D(i)] \in Seq(Bytes) /\ Len([i \in 1..n |-> D(i)]) = n
        BY <2>1, <2>2
  <2>   QED BY <2>3 DEF D
<1>   QED BY <1>1, <1>3, <1>4 DEF n

\* What each kind of row writes.
LEMMA WrittenIs ==
    \A tag, v :
       /\ Written(tag, Text, v) = IF v = <<>> THEN <<>> ELSE Delimited(tag, v)
       /\ Written(tag, Value, v) = Delimited(tag, v)
       /\ Written(tag, Nested, v) = Delimited(tag, v)
       /\ Written(tag, Texts, v) = FlattenSeq(Elements(tag, v))
       /\ Written(tag, Pointer, v) = FlattenSeq(Elements(tag, v))
       /\ Written(tag, Number, v) = IF v = 0 THEN <<>> ELSE Numbered(tag, v)
       /\ Written(tag, Flag, v) = IF v THEN <<tag, 1>> ELSE <<>>
<1>1. \A tag, v : Written(tag, Text, v) = IF v = <<>> THEN <<>> ELSE Delimited(tag, v)
      BY KindsDiffer, Zenon DEF Written
<1>2. \A tag, v : /\ Written(tag, Value, v) = Delimited(tag, v)
                  /\ Written(tag, Nested, v) = Delimited(tag, v)
      BY KindsDiffer, Zenon DEF Written
<1>3. \A tag, v : Written(tag, Texts, v) = FlattenSeq(Elements(tag, v))
      BY KindsDiffer, Zenon DEF Written, Elements
<1>4. \A tag, v : Written(tag, Pointer, v) = FlattenSeq(Elements(tag, v))
      BY KindsDiffer, Zenon DEF Written, Elements
<1>5. \A tag, v : Written(tag, Number, v) = IF v = 0 THEN <<>> ELSE Numbered(tag, v)
      BY KindsDiffer, Zenon DEF Written, Numbered
<1>6. \A tag, v : Written(tag, Flag, v) = IF v THEN <<tag, 1>> ELSE <<>>
      BY KindsDiffer, Zenon DEF Written
<1>   QED BY <1>1, <1>2, <1>3, <1>4, <1>5, <1>6

\* A set flag is the number 1.
LEMMA FlagIsOne ==
    ASSUME NEW tag \in Nat
    PROVE  <<tag, 1>> = Numbered(tag, 1) /\ Groups(1) = 1 /\ 1 < 2^Width
<1>1. 2^7 = 128
      OBVIOUS
<1>2. Groups(1) = 1
      BY <1>1 DEF Groups
<1>3. encodeVarint(1) = <<1>>
  <2>1. 7 * (1 - 1) = 0 /\ \A e : e = 0 => 2^e = 1
        BY TwoTo
  <2>2. 2^(7 * (1 - 1)) = 1
        BY <2>1
  <2>3. encodeVarint(1)[1] = 1
        BY <1>1, <1>2, <2>2 DEF encodeVarint
  <2>4. encodeVarint(1) = [k \in 1..1 |-> encodeVarint(1)[k]]
        BY <1>2 DEF encodeVarint
  <2>   QED BY <2>3, <2>4
<1>4. 1 < 2^Width
      BY Powers
<1>5. Numbered(tag, 1) = <<tag>> \o <<1>>
      BY <1>3 DEF Numbered
<1>6. <<tag>> \o <<1>> = <<tag, 1>>
  <2> DEFINE a == <<tag>>
             b == <<1>>
             c == a \o b
  <2>1. a \in Seq(Nat) /\ b \in Seq(Nat) /\ Len(a) = 1 /\ Len(b) = 1 /\ a[1] = tag /\ b[1] = 1
        OBVIOUS
  <2> HIDE DEF a, b
  <2>2. c \in Seq(Nat) /\ Len(c) = 2 /\ c[1] = a[1] /\ c[2] = b[1]
    <3>1. c \in Seq(Nat) /\ Len(c) = Len(a) + Len(b)
          /\ (\A i \in 1..Len(a) : c[i] = a[i]) /\ \A i \in 1..Len(b) : c[Len(a) + i] = b[i]
      <4>1. a \in Seq(Nat) /\ b \in Seq(Nat)
            BY <2>1
      <4>2. /\ a \o b \in Seq(Nat) /\ Len(a \o b) = Len(a) + Len(b)
            /\ (\A i \in 1..Len(a) : (a \o b)[i] = a[i])
            /\ \A i \in 1..Len(b) : (a \o b)[Len(a) + i] = b[i]
            BY <4>1, Joined
      <4>   QED BY <4>2
    <3> HIDE DEF c
    <3>2. c[Len(a) + 1] = b[1] /\ Len(a) + 1 = 2
          BY <2>1, <3>1
    <3>   QED BY <2>1, <3>1, <3>2
  <2> HIDE DEF c
  <2>3. c = <<tag, 1>>
        BY <2>1, <2>2
  <2>   QED BY <2>3 DEF a, b, c
<1>   QED BY <1>2, <1>4, <1>5, <1>6

\* A pointer is a sequence of its element.
LEMMA PointerIs ==
    ASSUME NEW v \in Content(Pointer)
    PROVE  v \in Seq(Bytes) /\ Len(v) \in 0..1
<1>1. CASE v = <<>>
      BY <1>1
<1>2. CASE v # <<>>
  <2>1. PICK w \in Bytes : v = <<w>>
        BY <1>2, ContentIs
  <2>   QED BY <2>1
<1>   QED BY <1>1, <1>2

\* A row writes bytes.
LEMMA WrittenType ==
    ASSUME NEW tag \in Nat, NEW kind \in Kinds, NEW v \in Content(kind)
    PROVE  Written(tag, kind, v) \in Bytes
<1>1. <<>> \in Bytes
      BY DEF Bytes
<1>2. CASE kind \in {Text, Value, Nested}
  <2>1. v \in Bytes
        BY <1>2, ContentIs
  <2>2. Delimited(tag, v) \in Bytes
        BY <2>1, DelimitedIs
  <2>   QED BY <1>1, <1>2, <2>2, WrittenIs
<1>3. CASE kind \in {Texts, Pointer}
  <2>1. v \in Seq(Bytes)
        BY <1>3, ContentIs, PointerIs
  <2>2. FlattenSeq(Elements(tag, v)) \in Bytes
        BY <2>1, ElementsType, Flattened
  <2>   QED BY <1>3, <2>2, WrittenIs
<1>4. CASE kind = Number
  <2>1. v \in Nat
        BY <1>4, ContentIs
  <2>2. Numbered(tag, v) \in Bytes
        BY <2>1, NumberedIs
  <2>   QED BY <1>1, <1>4, <2>2, WrittenIs
<1>5. CASE kind = Flag
  <2>1. <<tag, 1>> \in Bytes
        BY DEF Bytes
  <2>   QED BY <1>1, <1>5, <2>1, WrittenIs
<1>   QED BY <1>2, <1>3, <1>4, <1>5 DEF Kinds

----------------------------------------------------------------------------
(* The loop reads a row.                                                   *)

\* The loop comes to the position after p with the message m.
Reached(f, p, m) == \E n \in 0..p : f[n] = [at |-> p + 1, msg |-> m]

\* One round further.
LEMMA OneField ==
    ASSUME NEW rows, NEW bs \in Bytes, NEW f, FieldRounds(f, rows, bs),
           NEW p \in Nat, NEW m, Reached(f, p, m),
           NEW q \in Nat, NEW k, p < q, q <= Len(bs),
           Field(rows, bs, [at |-> p + 1, msg |-> m]) = [at |-> q + 1, msg |-> k]
    PROVE  Reached(f, q, k)
<1> DEFINE s == [at |-> p + 1, msg |-> m]
           t == [at |-> q + 1, msg |-> k]
<1>1. PICK n \in 0..p : f[n] = s
      BY DEF Reached
<1>2. Len(bs) \in Nat
      BY DEF Bytes
<1>3. n + 1 \in 1..Len(bs) /\ n + 1 \in 0..q /\ (n + 1) - 1 = n
      BY <1>2
<1>4. s # Error /\ ~(s.at > Len(bs))
  <2>1. s # Error
        BY NoError
  <2>2. s.at = p + 1
        OBVIOUS
  <2>   QED BY <1>2, <2>1, <2>2
<1>5. Field(rows, bs, s) = t
      OBVIOUS
<1> HIDE DEF s, t
<1>6. f[n + 1] = t
  <2> DEFINE j == n + 1
  <2>1. j \in 1..Len(bs) /\ j - 1 = n
        BY <1>3
  <2> HIDE DEF j
  <2>2. f[j] = IF f[j - 1] = Error \/ f[j - 1].at > Len(bs) THEN f[j - 1]
               ELSE Field(rows, bs, f[j - 1])
        BY <2>1 DEF FieldRounds
  <2>   QED BY <1>1, <1>4, <1>5, <2>1, <2>2 DEF j
<1>   QED BY <1>3, <1>6 DEF Reached, t

\* The message m with v in the field that has the tag, if the table has it.
With(rows, tag, m, v) ==
    [g \in DOMAIN m |-> IF \E r \in rows : r[1] = tag \div 8 /\ r[3] = g THEN v ELSE m[g]]

\* The table gives the tag this kind, if it has it.
Suits(rows, tag, kind) == \A r \in rows : r[1] = tag \div 8 => r[4] = kind

\* Merging into the field, and a table that does not have it.
LEMMA WithMerged ==
    ASSUME NEW rows, Table(rows), NEW tag \in Tags, NEW kind, Suits(rows, tag, kind),
           NEW m \in Msgs(rows), NEW a, NEW x
    PROVE  /\ \A r \in rows : r[1] = tag \div 8 =>
                 [With(rows, tag, m, a) EXCEPT ![r[3]] = Merged(r[4], @, x)] =
                     With(rows, tag, m, Merged(kind, a, x))
           /\ (\A r \in rows : r[1] # tag \div 8) =>
                 With(rows, tag, m, a) = With(rows, tag, m, Merged(kind, a, x))
<1> DEFINE w == With(rows, tag, m, a)
           b == Merged(kind, a, x)
           u == With(rows, tag, m, b)
<1>1. DOMAIN m = Names(rows)
      BY DEF Msgs
<1>2. /\ w = [g \in Names(rows) |-> w[g]] /\ u = [g \in Names(rows) |-> u[g]]
      /\ \A g \in Names(rows) :
            /\ w[g] = IF \E r \in rows : r[1] = tag \div 8 /\ r[3] = g THEN a ELSE m[g]
            /\ u[g] = IF \E r \in rows : r[1] = tag \div 8 /\ r[3] = g THEN b ELSE m[g]
  <2> HIDE DEF b
  <2> QED BY <1>1 DEF With
<1> HIDE DEF w, u
<1>3. ASSUME NEW r \in rows, r[1] = tag \div 8
      PROVE  [w EXCEPT ![r[3]] = Merged(r[4], @, x)] = u
  <2>1. r[3] \in Names(rows) /\ r[4] = kind
        BY <1>3 DEF Names, Suits
  <2>2. w[r[3]] = a /\ u[r[3]] = b
        BY <1>2, <1>3, <2>1
  <2>3. \A g \in Names(rows) : g # r[3] => w[g] = u[g]
    <3> SUFFICES ASSUME NEW g \in Names(rows), g # r[3]
                 PROVE  w[g] = u[g]
        OBVIOUS
    <3>1. ~\E s \in rows : s[1] = tag \div 8 /\ s[3] = g
          BY <1>3 DEF Table
    <3>   QED BY <1>2, <3>1
  <2>4. Merged(r[4], w[r[3]], x) = b
        BY <2>1, <2>2
  <2> DEFINE e == [w EXCEPT ![r[3]] = b]
  <2> HIDE DEF b
  <2>5. /\ e = [g \in Names(rows) |-> e[g]]
        /\ \A g \in Names(rows) : e[g] = u[g]
        BY <1>2, <2>1, <2>2, <2>3
  <2> HIDE DEF e
  <2>6. e = u
        BY <1>2, <2>5
  <2>   QED BY <2>4, <2>6 DEF e
<1>4. ASSUME \A r \in rows : r[1] # tag \div 8
      PROVE  w = u
  <2>1. \A g \in Names(rows) : w[g] = u[g]
        BY <1>2, <1>4
  <2>   QED BY <1>2, <2>1
<1>   QED BY <1>3, <1>4 DEF w, u

\* A number is read.
LEMMA NumberRead ==
    ASSUME NEW rows, Table(rows), NEW bs \in Bytes, NEW f, FieldRounds(f, rows, bs),
           NEW p \in Nat, NEW tag \in Tags, NEW kind \in {Number, Flag}, tag % 8 = 0,
           Suits(rows, tag, kind), NEW m \in Msgs(rows), NEW a,
           Reached(f, p, With(rows, tag, m, a)), NEW x, OccursNumber(bs, p, tag, x)
    PROVE  Reached(f, p + 1 + Groups(x), With(rows, tag, m, Merged(kind, a, x)))
<1> DEFINE w == With(rows, tag, m, a)
           u == With(rows, tag, m, Merged(kind, a, x))
           q == p + 1 + Groups(x)
<1>1. /\ Groups(x) \in 1..4 /\ p + 1 + Groups(x) <= Len(bs)
      /\ TakesIn(rows, bs, p, tag, 0, x, p + 2 + Groups(x), w)
  <2> HIDE DEF w
  <2> QED BY NumberTaken
<1>2. q \in Nat /\ p < q /\ q <= Len(bs) /\ p + 2 + Groups(x) = q + 1
      BY <1>1
<1> HIDE DEF q
<1>3. Field(rows, bs, [at |-> p + 1, msg |-> w]) = [at |-> q + 1, msg |-> u]
  <2>1. CASE \A r \in rows : r[1] # tag \div 8
    <3>1. w = u
          BY <2>1, WithMerged
    <3> HIDE DEF w, u
    <3>   QED BY <1>1, <1>2, <2>1, <3>1 DEF TakesIn
  <2>2. CASE \E r \in rows : r[1] = tag \div 8
    <3>1. PICK r \in rows : r[1] = tag \div 8
          BY <2>2
    <3>2. r[2] = 0
      <4>1. r[4] = kind /\ r[2] = WireType(r[4])
            BY <3>1 DEF Suits, Table
      <4>   QED BY <4>1 DEF WireType
    <3>3. [w EXCEPT ![r[3]] = Merged(r[4], @, x)] = u
          BY <3>1, WithMerged
    <3> HIDE DEF w, u
    <3>   QED BY <1>1, <1>2, <3>1, <3>2, <3>3 DEF TakesIn
  <2>   QED BY <2>1, <2>2
<1>4. Reached(f, p, w)
      OBVIOUS
<1> HIDE DEF w, u
<1>5. Reached(f, q, u)
      BY <1>2, <1>3, <1>4, OneField
<1>   QED BY <1>5 DEF q, u

\* A value with its length is read.
LEMMA DelimitedRead ==
    ASSUME NEW rows, Table(rows), NEW bs \in Bytes, Fits(bs), NEW f, FieldRounds(f, rows, bs),
           NEW p \in Nat, NEW tag \in Tags, NEW kind \in Kinds \ {Number, Flag}, tag % 8 = 2,
           Suits(rows, tag, kind), NEW m \in Msgs(rows), NEW a,
           Reached(f, p, With(rows, tag, m, a)), NEW x, OccursDelimited(bs, p, tag, x)
    PROVE  Reached(f, p + 1 + Groups(Len(x)) + Len(x), With(rows, tag, m, Merged(kind, a, x)))
<1> DEFINE w == With(rows, tag, m, a)
           u == With(rows, tag, m, Merged(kind, a, x))
           q == p + 1 + Groups(Len(x)) + Len(x)
<1>1. /\ Groups(Len(x)) \in 1..4 /\ Len(x) \in Nat /\ p + 1 + Groups(Len(x)) + Len(x) <= Len(bs)
      /\ TakesIn(rows, bs, p, tag, 2, x, p + 2 + Groups(Len(x)) + Len(x), w)
  <2> HIDE DEF w
  <2> QED BY DelimitedTaken
<1>2. q \in Nat /\ p < q /\ q <= Len(bs) /\ p + 2 + Groups(Len(x)) + Len(x) = q + 1
  <2> DEFINE g == Groups(Len(x))
             l == Len(x)
  <2>1. g \in 1..4 /\ l \in Nat /\ q = p + 1 + g + l /\ q <= Len(bs)
        BY <1>1
  <2> HIDE DEF g, l, q
  <2>2. q \in Nat /\ p < q /\ q <= Len(bs) /\ p + 2 + g + l = q + 1
        BY <2>1
  <2>   QED BY <2>2 DEF g, l
<1> HIDE DEF q
<1>3. Field(rows, bs, [at |-> p + 1, msg |-> w]) = [at |-> q + 1, msg |-> u]
  <2>1. CASE \A r \in rows : r[1] # tag \div 8
    <3>1. w = u
          BY <2>1, WithMerged
    <3> HIDE DEF w, u
    <3>   QED BY <1>1, <1>2, <2>1, <3>1 DEF TakesIn
  <2>2. CASE \E r \in rows : r[1] = tag \div 8
    <3>1. PICK r \in rows : r[1] = tag \div 8
          BY <2>2
    <3>2. r[2] = 2
      <4>1. r[4] = kind /\ r[2] = WireType(r[4])
            BY <3>1 DEF Suits, Table
      <4>   QED BY <4>1 DEF WireType
    <3>3. [w EXCEPT ![r[3]] = Merged(r[4], @, x)] = u
          BY <3>1, WithMerged
    <3> HIDE DEF w, u
    <3>   QED BY <1>1, <1>2, <3>1, <3>2, <3>3 DEF TakesIn
  <2>   QED BY <2>1, <2>2
<1>4. Reached(f, p, w)
      OBVIOUS
<1> HIDE DEF w, u
<1>5. Reached(f, q, u)
      BY <1>2, <1>3, <1>4, OneField
<1>   QED BY <1>5 DEF q, u

\* Merging, kind by kind.
LEMMA MergedIs ==
    \A a, x :
       /\ Merged(Text, a, x) = x /\ Merged(Value, a, x) = x /\ Merged(Number, a, x) = x
       /\ Merged(Flag, a, x) = (x # 0)
       /\ Merged(Texts, a, x) = Append(a, x)
       /\ Merged(Nested, a, x) = a \o x
       /\ Merged(Pointer, a, x) = IF a = <<>> THEN <<x>> ELSE <<a[1] \o x>>
<1>1. \A a, x : Merged(Text, a, x) = x /\ Merged(Value, a, x) = x /\ Merged(Number, a, x) = x
      BY KindsDiffer DEF Merged
<1>2. \A a, x : Merged(Flag, a, x) = (x # 0)
      BY KindsDiffer, Zenon DEF Merged
<1>3. \A a, x : Merged(Texts, a, x) = Append(a, x)
      BY KindsDiffer, Zenon DEF Merged
<1>4. \A a, x : Merged(Pointer, a, x) = IF a = <<>> THEN <<x>> ELSE <<a[1] \o x>>
      BY KindsDiffer, Zenon DEF Merged
<1>5. \A a, x : Merged(Nested, a, x) = a \o x
      BY KindsDiffer, Zenon DEF Merged
<1>   QED BY <1>1, <1>2, <1>3, <1>4, <1>5

\* The first elements of v.
First(v, i) == [k \in 1..i |-> v[k]]

\* An element more.
LEMMA FirstMerged ==
    ASSUME NEW kind \in {Texts, Pointer}, NEW v \in Seq(Bytes), kind = Pointer => Len(v) <= 1,
           NEW i \in 1..Len(v)
    PROVE  Merged(kind, First(v, i - 1), v[i]) = First(v, i)
<1>1. Len(v) \in Nat /\ \A k \in 1..Len(v) : v[k] \in Bytes
      OBVIOUS
<1>2. CASE kind = Texts
  <2> DEFINE a == First(v, i - 1)
             x == v[i]
             j == i - 1
  <2>1. j \in Nat /\ j + 1 = i /\ \A k \in 1..j : k \in 1..Len(v)
        BY <1>1
  <2>2. a = [k \in 1..j |-> v[k]]
        BY DEF First
  <2>2a. \A k \in 1..j : v[k] \in Bytes
        BY <1>1, <2>1
  <2>3. x \in Bytes
        BY <1>1
  <2> HIDE DEF a, x, j
  <2>4. a \in Seq(Bytes) /\ Len(a) = j
        BY <2>1, <2>2, <2>2a
  <2>5. Append(a, x) = [k \in 1..j + 1 |-> IF k = j + 1 THEN x ELSE a[k]]
    <3> DEFINE c == Append(a, x)
    <3>1. c \in Seq(Bytes) /\ Len(c) = j + 1 /\ (\A k \in 1..j : c[k] = a[k]) /\ c[j + 1] = x
          BY <2>1, <2>3, <2>4, AppendProperties
    <3> HIDE DEF c
    <3>2. c = [k \in 1..j + 1 |-> c[k]]
          BY <3>1
    <3>3. \A k \in 1..j + 1 : c[k] = IF k = j + 1 THEN x ELSE a[k]
      <4> SUFFICES ASSUME NEW k \in 1..j + 1
                   PROVE  c[k] = IF k = j + 1 THEN x ELSE a[k]
          OBVIOUS
      <4>1. k # j + 1 => k \in 1..j
            BY <2>1
      <4>   QED BY <3>1, <4>1
    <3>   QED BY <3>2, <3>3 DEF c
  <2>6. \A k \in 1..i : (IF k = j + 1 THEN x ELSE a[k]) = v[k]
        BY <2>1, <2>2 DEF x
  <2>7. Append(a, x) = First(v, i)
        BY <2>1, <2>5, <2>6 DEF First
  <2>8. Merged(Texts, a, x) = Append(a, x)
        BY MergedIs
  <2>   QED BY <1>2, <2>7, <2>8 DEF a, x
<1>3. CASE kind = Pointer
  <2>1. i = 1 /\ Len(v) = 1
    <3> DEFINE n == Len(v)
    <3>1. n <= 1
          BY <1>3
    <3>2. n \in Nat /\ i \in 1..n
          BY <1>1
    <3> HIDE DEF n
    <3>3. i = 1 /\ n = 1
          BY <3>1, <3>2
    <3>   QED BY <3>3 DEF n
  <2>2. First(v, i - 1) = <<>>
        BY <2>1 DEF First
  <2>3. First(v, i) = <<v[1]>>
        BY <2>1 DEF First
  <2>4. Merged(Pointer, <<>>, v[1]) = <<v[1]>>
        BY MergedIs
  <2>   QED BY <1>3, <2>1, <2>2, <2>3, <2>4
<1>   QED BY <1>2, <1>3

\* The elements of a field are read one after the other.
LEMMA ElementsRead ==
    ASSUME NEW rows, Table(rows), NEW bs \in Bytes, Fits(bs), NEW f, FieldRounds(f, rows, bs),
           NEW p \in Nat, NEW tag \in Tags, NEW kind \in {Texts, Pointer}, tag % 8 = 2,
           Suits(rows, tag, kind), NEW m \in Msgs(rows),
           NEW v \in Seq(Bytes), kind = Pointer => Len(v) <= 1,
           Stands(bs, p, FlattenSeq(Elements(tag, v))),
           Reached(f, p, With(rows, tag, m, <<>>))
    PROVE  Reached(f, p + Len(FlattenSeq(Elements(tag, v))), With(rows, tag, m, v))
<1> DEFINE es == Elements(tag, v)
           n == Len(v)
           w(i) == With(rows, tag, m, First(v, i))
<1>0. tag \in Nat
      BY DEF Tags
<1>1. /\ es \in Seq(Bytes) /\ Len(es) = n /\ n \in Nat
      /\ \A i \in 1..n : v[i] \in Bytes /\ es[i] = Delimited(tag, v[i])
      BY <1>0, ElementsType
<1> HIDE DEF es
<1>2. FlattenSeq(es) \in Bytes /\ \E ends : Borders(ends, es, FlattenSeq(es))
      BY <1>1, Flattened
<1>3. PICK ends : Borders(ends, es, FlattenSeq(es))
      BY <1>2
<1> DEFINE fs == FlattenSeq(es)
           T == {i \in 0..n : Reached(f, p + ends[i], w(i))}
<1>4. /\ ends \in [0..n -> Nat] /\ ends[0] = 0 /\ ends[n] = Len(fs)
      /\ \A i \in 1..n : ends[i] = ends[i - 1] + Len(es[i]) /\ Stands(fs, ends[i - 1], es[i])
      BY <1>1, <1>3 DEF Borders
<1>5. fs \in Bytes /\ Stands(bs, p, fs)
      BY <1>2 DEF es
<1>6. First(v, 0) = <<>> /\ First(v, n) = v
      BY DEF First
<1> HIDE DEF fs
<1>7. 0 \in T
  <2>1. p + ends[0] = p /\ 0 \in 0..n
        BY <1>1, <1>4
  <2>2. Reached(f, p + ends[0], w(0))
        BY <1>6, <2>1
  <2>   QED BY <2>1, <2>2
<1>8. ASSUME NEW i \in 1..n, i - 1 \in T
      PROVE  i \in T
  <2> DEFINE a == ends[i - 1]
             x == v[i]
             h == i - 1
  <2>1. h \in 0..n /\ i \in 0..n
        BY <1>1
  <2>1a. x \in Bytes /\ es[i] = Delimited(tag, x)
        BY <1>1
  <2>1b. a \in Nat /\ ends[i] = a + Len(es[i]) /\ Stands(fs, a, es[i])
        BY <1>4, <2>1
  <2>2. Reached(f, p + a, w(h))
        BY <1>8
  <2> HIDE DEF a, x, T
  <2>3. Delimited(tag, x) \in Bytes
        /\ Len(Delimited(tag, x)) = 1 + Groups(Len(x)) + Len(x)
        /\ Len(x) \in Nat /\ Groups(Len(x)) \in 1..4
        /\ \A bs_ \in Bytes : \A p_ \in Nat :
              Stands(bs_, p_, Delimited(tag, x)) => OccursDelimited(bs_, p_, tag, x)
        BY <1>0, <2>1a, DelimitedIs
  <2>4. Stands(bs, p + a, Delimited(tag, x))
        BY <1>5, <2>1a, <2>1b, <2>3, StandsWithin
  <2> DEFINE b == p + a
  <2>5. b \in Nat
        BY <2>1b
  <2>6. OccursDelimited(bs, b, tag, x)
        BY <2>3, <2>4, <2>5
  <2> HIDE DEF b
  <2>7. Reached(f, b + 1 + Groups(Len(x)) + Len(x),
                With(rows, tag, m, Merged(kind, First(v, h), x)))
    <3>1. Reached(f, b, With(rows, tag, m, First(v, h)))
          BY <2>2 DEF b
    <3>2. kind \in Kinds \ {Number, Flag}
          BY KindsDiffer DEF Kinds
    <3> HIDE DEF h
    <3>   QED BY <2>5, <2>6, <3>1, <3>2, DelimitedRead
  <2>8. Merged(kind, First(v, h), x) = First(v, i)
        BY FirstMerged DEF x
  <2>9. b + 1 + Groups(Len(x)) + Len(x) = p + ends[i]
    <3> DEFINE g == Groups(Len(x))
               l == Len(x)
    <3>1. g \in Nat /\ l \in Nat /\ ends[i] = a + (1 + g + l) /\ b = p + a
          BY <2>1a, <2>1b, <2>3 DEF b
    <3> HIDE DEF g, l
    <3>2. b + 1 + g + l = p + ends[i]
          BY <2>1b, <3>1
    <3>   QED BY <3>2 DEF g, l
  <2>10. Reached(f, p + ends[i], w(i))
        BY <2>7, <2>8, <2>9
  <2>   QED BY <2>1, <2>10 DEF T
<1> HIDE DEF T
<1>9. n \in T
  <2>1. \A i \in 0..n : i \in T
        BY <1>1, <1>7, <1>8, Upwards
  <2>   QED BY <1>1, <2>1
<1>   QED BY <1>4, <1>6, <1>9 DEF T, fs, es

\* m has v in the field that has the tag.
Holds(rows, tag, m, v) == \A r \in rows : r[1] = tag \div 8 => m[r[3]] = v

\* A message already holds what a field has at first.
LEMMA WithEmpty ==
    ASSUME NEW rows, Table(rows), NEW tag, NEW m \in Msgs(rows), NEW v,
           Holds(rows, tag, m, v)
    PROVE  With(rows, tag, m, v) = m
<1>1. DOMAIN m = Names(rows) /\ m = [g \in Names(rows) |-> m[g]]
      BY DEF Msgs
<1>2. \A g \in Names(rows) :
         (IF \E r \in rows : r[1] = tag \div 8 /\ r[3] = g THEN v ELSE m[g]) = m[g]
      BY DEF Holds
<1>   QED BY <1>1, <1>2 DEF With

\* The loop reads what a row writes.
LEMMA RowRead ==
    ASSUME NEW rows, Table(rows), NEW bs \in Bytes, Fits(bs), NEW f, FieldRounds(f, rows, bs),
           NEW p \in Nat, NEW tag \in Tags, NEW kind \in Kinds, tag % 8 = WireType(kind),
           Suits(rows, tag, kind), NEW m \in Msgs(rows),
           Holds(rows, tag, m, Empty(kind)),
           NEW v \in Content(kind), Stands(bs, p, Written(tag, kind, v)), Reached(f, p, m)
    PROVE  Reached(f, p + Len(Written(tag, kind, v)), With(rows, tag, m, v))
<1>1. With(rows, tag, m, Empty(kind)) = m
      BY WithEmpty
<1>1a. Reached(f, p, With(rows, tag, m, Empty(kind)))
      BY <1>1
<1>2. /\ Empty(Text) = <<>> /\ Empty(Texts) = <<>>
      /\ Empty(Value) = <<>> /\ Empty(Nested) = <<>>
      /\ Empty(Pointer) = <<>> /\ Empty(Number) = 0 /\ Empty(Flag) = FALSE
      BY KindsDiffer DEF Empty
<1>3. Len(<<>>) = 0 /\ p + 0 = p /\ tag \in Nat
      BY DEF Tags
<1>4. CASE v = Empty(kind) /\ Written(tag, kind, v) = <<>>
      BY <1>1, <1>3, <1>4
<1>5. CASE kind \in {Text, Value, Nested} /\ Written(tag, kind, v) = Delimited(tag, v)
  <2>1. v \in Bytes /\ tag % 8 = 2 /\ kind \in Kinds \ {Number, Flag}
        BY <1>5, KindsDiffer, ContentIs DEF WireType
  <2>2. OccursDelimited(bs, p, tag, v)
        /\ Len(Delimited(tag, v)) = 1 + Groups(Len(v)) + Len(v)
        /\ Len(v) \in Nat /\ Groups(Len(v)) \in 1..4
        BY <1>3, <1>5, <2>1, DelimitedIs
  <2>3. Reached(f, p + 1 + Groups(Len(v)) + Len(v),
                With(rows, tag, m, Merged(kind, Empty(kind), v)))
        BY <1>1a, <2>1, <2>2, DelimitedRead
  <2>4. Merged(kind, Empty(kind), v) = v
    <3>1. CASE kind = Nested
      <4>1. Merged(Nested, <<>>, v) = <<>> \o v
            BY MergedIs, Zenon
      <4>2. <<>> \o v = v
            BY <2>1 DEF Bytes
      <4>3. Merged(kind, Empty(kind), v) = Merged(Nested, <<>>, v)
            BY <1>2, <3>1, Zenon
      <4>   QED BY <4>1, <4>2, <4>3, Zenon
    <3>2. CASE kind \in {Text, Value}
          BY <3>2, MergedIs
    <3>   QED BY <1>5, <3>1, <3>2
  <2>5. p + 1 + Groups(Len(v)) + Len(v) = p + Len(Written(tag, kind, v))
    <3> DEFINE g == Groups(Len(v))
               l == Len(v)
    <3>1. g \in Nat /\ l \in Nat /\ Len(Written(tag, kind, v)) = 1 + g + l
          BY <1>5, <2>2
    <3> HIDE DEF g, l
    <3>2. p + 1 + g + l = p + Len(Written(tag, kind, v))
          BY <3>1
    <3>   QED BY <3>2 DEF g, l
  <2>   QED BY <2>3, <2>4, <2>5
<1>6. CASE kind \in {Texts, Pointer}
  <2>1. v \in Seq(Bytes) /\ (kind = Pointer => Len(v) <= 1) /\ tag % 8 = 2
    <3>1. CASE kind = Texts
          BY <3>1, ContentIs, KindsDiffer DEF WireType
    <3>2. CASE kind = Pointer
      <4>1. v \in Seq(Bytes) /\ Len(v) \in 0..1
            BY <3>2, PointerIs
      <4>2. WireType(kind) = 2
            BY <3>2, KindsDiffer DEF WireType
      <4>3. \A n \in 0..1 : n <= 1
            OBVIOUS
      <4>4. Len(v) <= 1
            BY ONLY <4>1, <4>3, Zenon
      <4>5. tag % 8 = 2
            BY <4>2, Zenon
      <4>   QED BY ONLY <4>1, <4>4, <4>5, Zenon
    <3>3. kind = Texts \/ kind = Pointer
          BY <1>6
    <3>   QED BY <3>1, <3>2, <3>3, Zenon
  <2>2. Written(tag, kind, v) = FlattenSeq(Elements(tag, v)) /\ Empty(kind) = <<>>
        BY <1>2, <1>6, WrittenIs
  <2>3. Stands(bs, p, FlattenSeq(Elements(tag, v)))
        BY <2>2
  <2>4. Reached(f, p, With(rows, tag, m, <<>>))
        BY <1>1a, <2>2
  <2>5. Reached(f, p + Len(FlattenSeq(Elements(tag, v))), With(rows, tag, m, v))
        BY <1>6, <2>1, <2>3, <2>4, ElementsRead
  <2>   QED BY <2>2, <2>5
<1>7. ASSUME kind \in {Number, Flag}, NEW x \in Nat, x < 2^Width,
             Written(tag, kind, v) = Numbered(tag, x), Merged(kind, Empty(kind), x) = v
      PROVE  Reached(f, p + Len(Written(tag, kind, v)), With(rows, tag, m, v))
  <2>1. tag % 8 = 0
        BY <1>7, KindsDiffer DEF WireType
  <2>2. OccursNumber(bs, p, tag, x) /\ Len(Numbered(tag, x)) = 1 + Groups(x)
        /\ Groups(x) \in 1..4
        BY <1>3, <1>7, NumberedIs
  <2>3. Reached(f, p + 1 + Groups(x), With(rows, tag, m, Merged(kind, Empty(kind), x)))
        BY <1>1a, <1>7, <2>1, <2>2, NumberRead
  <2>4. p + 1 + Groups(x) = p + Len(Written(tag, kind, v))
        BY <1>7, <2>2
  <2>   QED BY <1>7, <2>3, <2>4
<1>8. CASE kind = Text
      BY <1>2, <1>4, <1>5, <1>8, WrittenIs
<1>9. CASE kind \in {Value, Nested}
      BY <1>5, <1>9, WrittenIs
<1>10. CASE kind = Number
  <2>1. v \in Nat /\ v < 2^Width
        BY <1>10, ContentIs
  <2>2. CASE v = 0
        BY <1>2, <1>4, <1>10, <2>2, WrittenIs
  <2>3. CASE v # 0
    <3>1. Written(tag, kind, v) = Numbered(tag, v) /\ Merged(kind, Empty(kind), v) = v
          BY <1>10, <2>3, WrittenIs, MergedIs
    <3>   QED BY <1>7, <1>10, <2>1, <3>1
  <2>   QED BY <2>2, <2>3
<1>11. CASE kind = Flag
  <2>1. v \in BOOLEAN
        BY <1>11, ContentIs
  <2>2. CASE v = FALSE
        BY <1>2, <1>4, <1>11, <2>2, WrittenIs
  <2>3. CASE v = TRUE
    <3>1. Written(tag, Flag, TRUE) = <<tag, 1>>
          BY WrittenIs
    <3>2. Written(tag, kind, v) = Numbered(tag, 1) /\ 1 < 2^Width
          BY <1>3, <1>11, <2>3, <3>1, FlagIsOne
    <3>3. Merged(Flag, Empty(kind), 1) = (1 # 0)
          BY MergedIs
    <3>4. Merged(kind, Empty(kind), 1) = v
      <4>1. (1 # 0) = TRUE
            OBVIOUS
      <4>   QED BY <1>11, <2>3, <3>3, <4>1, Zenon
    <3>   QED BY <1>7, <1>11, <3>2, <3>4
  <2>   QED BY <2>1, <2>2, <2>3
<1>   QED BY <1>6, <1>8, <1>9, <1>10, <1>11 DEF Kinds

----------------------------------------------------------------------------
(* What Size counts.                                                       *)

\* ends goes from 0 in steps of w.
Along(ends, w, S) == ends[0] = 0 /\ \A i \in S : ends[i] = ends[i - 1] + w[i]

\* What adds up along a sequence is the sum over its positions.
LEMMA SumAlong ==
    ASSUME NEW n \in Nat, NEW w \in [1..n -> Nat],
           NEW ends \in [0..n -> Nat], Along(ends, w, 1..n)
    PROVE  SumOf(w, 1..n) = ends[n]
<1> DEFINE S == 1..n
           G == {k \in 0..n : SumOf(w, 1..k) = ends[k]}
<1>1. IsFiniteSet(S)
      BY FS_Interval
<1>2. \A T \in SUBSET S :
         /\ SumOf(w, T) \in Nat
         /\ T = {} => SumOf(w, T) = 0
         /\ \A x \in T : SumOf(w, T) = w[x] + SumOf(w, T \ {x})
  <2> HIDE DEF S, G
  <2>1. w \in [S -> Nat]
        BY DEF S
  <2>   QED BY <1>1, <2>1, SumSteps
<1>3. 0 \in G
  <2>1. 1..0 = {}
        OBVIOUS
  <2>2. 1..0 \in SUBSET S
        BY <2>1
  <2>3. SumOf(w, 1..0) = 0
        BY <1>2, <2>1, <2>2
  <2>4. ends[0] = 0
        BY DEF Along
  <2>   QED BY <2>3, <2>4
<1>4. ASSUME NEW k \in 1..n, k - 1 \in G
      PROVE  k \in G
  <2> DEFINE A == 1..k
  <2>0. k \in Nat \ {0} /\ k <= n
        OBVIOUS
  <2>1. A \in SUBSET S /\ k \in A /\ A \ {k} = 1..k - 1
    <3>1. k \in A /\ A \in SUBSET S
          BY <2>0
    <3>2. A \ {k} = 1..k - 1
      <4>1. \A x : x \in A \ {k} <=> x \in 1..k - 1
            BY <2>0
      <4> HIDE DEF A
      <4>   QED BY <4>1
    <3>   QED BY <3>1, <3>2
  <2>2. SumOf(w, A) = w[k] + SumOf(w, A \ {k})
    <3> HIDE DEF A
    <3> QED BY <1>2, <2>1
  <2>3. SumOf(w, 1..k - 1) = ends[k - 1] /\ k - 1 \in 0..n
        BY <1>4
  <2>4. ends[k] = ends[k - 1] + w[k] /\ ends[k - 1] \in Nat /\ w[k] \in Nat
    <3>1. \A i \in S : ends[i] = ends[i - 1] + w[i]
          BY DEF Along
    <3>   QED BY <2>3, <3>1
  <2> HIDE DEF A, G
  <2>5. SumOf(w, A) = ends[k]
    <3>1. SumOf(w, A) = w[k] + ends[k - 1]
          BY <2>1, <2>2, <2>3
    <3>   QED BY <2>4, <3>1
  <2>   QED BY <2>5 DEF A, G
<1> HIDE DEF G
<1>5. \A k \in 0..n : k \in G
      BY <1>3, <1>4, Upwards
<1>   QED BY <1>5 DEF G

\* Where a part ends is not behind the end of the whole.
LEMMA PartsFit ==
    ASSUME NEW seqs \in Seq(Bytes), NEW bs \in Bytes, NEW ends, Borders(ends, seqs, bs)
    PROVE  \A i \in 1..Len(seqs) : Len(seqs[i]) \in Nat /\ Len(seqs[i]) <= Len(bs)
<1> SUFFICES ASSUME NEW i \in 1..Len(seqs)
             PROVE  Len(seqs[i]) \in Nat /\ Len(seqs[i]) <= Len(bs)
    OBVIOUS
<1>1. seqs[i] \in Bytes
      OBVIOUS
<1>2. Len(seqs[i]) \in Nat /\ Len(bs) \in Nat
      BY <1>1 DEF Bytes
<1>3. i - 1 \in 0..Len(seqs)
      OBVIOUS
<1>4. ends[i - 1] \in Nat /\ ends[i - 1] + Len(seqs[i]) <= Len(bs)
      BY <1>3 DEF Borders, Stands
<1>   QED BY <1>2, <1>4

\* What the elements of a field count.
ElementsSize(v) == MapThenSumSet(LAMBDA i : 1 + Len(v[i]) + sov(Len(v[i])), DOMAIN v)

\* It is the length of the elements as they are written.
LEMMA ElementsSizeIs ==
    ASSUME NEW v \in Seq(Bytes), NEW w \in [1..Len(v) -> Nat],
           \A i \in 1..Len(v) : w[i] = 1 + Len(v[i]) + sov(Len(v[i]))
    PROVE  ElementsSize(v) = SumOf(w, 1..Len(v))
<1> DEFINE S == 1..Len(v)
           E(i) == 1 + Len(v[i]) + sov(Len(v[i]))
           P(f) == f = [s \in SUBSET S |-> IF s = {} THEN 0
                            ELSE E(Pick(s)) + f[s \ {Pick(s)}]]
           H == CHOOSE f : P(f)
<1>1. Len(v) \in Nat /\ DOMAIN v = S
      OBVIOUS
<1>2. IsFiniteSet(S)
      BY <1>1, FS_Interval
<1>3. ElementsSize(v) = H[S]
      BY <1>1, Zenon DEF ElementsSize, MapThenSumSet, MapThenFoldSet, Pick
<1>4. w \in [S -> Nat] /\ \A i \in S : w[i] = E(i)
      OBVIOUS
<1> HIDE DEF S, E
<1>5. \A s \in SUBSET S : s # {} => w[Pick(s)] = E(Pick(s))
      BY <1>4, PickIn
<1>6. PICK g \in [SUBSET S -> Nat] : Adds(g, w, S)
      BY <1>2, <1>4, AddsExists
<1>7. \A f : P(f) <=> Adds(f, w, S)
      BY <1>5 DEF Adds
<1>8. Adds(H, w, S)
  <2> HIDE DEF P
  <2> QED BY <1>6, <1>7
<1> HIDE DEF H
<1>9. S \in SUBSET S
      OBVIOUS
<1>10. H[S] = g[S]
      BY <1>2, <1>6, <1>8, <1>9, AddsUnique
<1>11. SumOf(w, S) = g[S]
  <2>1. \A T \in SUBSET S : SumOf(w, T) = g[T]
        BY <1>2, <1>4, <1>6, SumIs
  <2>   QED BY <1>9, <2>1
<1>   QED BY <1>3, <1>10, <1>11 DEF S

\* What Size counts for each kind of field.
LEMMA SizeOfIs ==
    \A v :
       /\ SizeOf(Text, v) = IF v = <<>> THEN 0 ELSE 1 + Len(v) + sov(Len(v))
       /\ SizeOf(Value, v) = 1 + Len(v) + sov(Len(v))
       /\ SizeOf(Nested, v) = 1 + Len(v) + sov(Len(v))
       /\ SizeOf(Texts, v) = ElementsSize(v) /\ SizeOf(Pointer, v) = ElementsSize(v)
       /\ SizeOf(Number, v) = IF v = 0 THEN 0 ELSE 1 + sov(v)
       /\ SizeOf(Flag, v) = IF v THEN 2 ELSE 0
<1>1. \A v : SizeOf(Text, v) = IF v = <<>> THEN 0 ELSE 1 + Len(v) + sov(Len(v))
      BY KindsDiffer, Zenon DEF SizeOf
<1>2. \A v : /\ SizeOf(Value, v) = 1 + Len(v) + sov(Len(v))
             /\ SizeOf(Nested, v) = 1 + Len(v) + sov(Len(v))
      BY KindsDiffer, Zenon DEF SizeOf
<1>3. \A v : SizeOf(Texts, v) = ElementsSize(v)
      BY KindsDiffer, Zenon DEF SizeOf, ElementsSize
<1>4. \A v : SizeOf(Pointer, v) = ElementsSize(v)
      BY KindsDiffer, Zenon DEF SizeOf, ElementsSize
<1>5. \A v : SizeOf(Number, v) = IF v = 0 THEN 0 ELSE 1 + sov(v)
      BY KindsDiffer, Zenon DEF SizeOf
<1>6. \A v : SizeOf(Flag, v) = IF v THEN 2 ELSE 0
      BY KindsDiffer, Zenon DEF SizeOf
<1>   QED BY <1>1, <1>2, <1>3, <1>4, <1>5, <1>6

\* Size counts what is written.
LEMMA WrittenSize ==
    ASSUME NEW tag \in Nat, NEW kind \in Kinds, NEW v \in Content(kind),
           Len(Written(tag, kind, v)) < 2^Width
    PROVE  Len(Written(tag, kind, v)) = SizeOf(kind, v)
<1>1. Len(<<>>) = 0
      OBVIOUS
<1>2. 2^Width \in Nat
      BY Powers
<1>3. ASSUME NEW x \in Bytes, Len(Delimited(tag, x)) < 2^Width
      PROVE  Len(Delimited(tag, x)) = 1 + Len(x) + sov(Len(x))
  <2> DEFINE l == Len(x)
             g == Groups(l)
             d == Len(Delimited(tag, x))
  <2>1. l \in Nat /\ g \in 1..4 /\ d = 1 + g + l /\ d < 2^Width
        BY <1>3, DelimitedIs
  <2> HIDE DEF l, g, d
  <2>2. l < 2^Width
        BY <1>2, <2>1
  <2>3. sov(l) = g
        BY <2>1, <2>2, SizeOfVarint DEF g
  <2>4. d = 1 + l + sov(l)
        BY <2>1, <2>3
  <2>   QED BY <2>4 DEF l, d
<1>4. CASE kind = Text
  <2>1. CASE v = <<>>
        BY <1>1, <1>4, <2>1, WrittenIs, SizeOfIs
  <2>2. CASE v # <<>>
    <3>1. v \in Bytes
          BY <1>4, ContentIs
    <3>2. Written(tag, kind, v) = Delimited(tag, v)
          /\ SizeOf(kind, v) = 1 + Len(v) + sov(Len(v))
          BY <1>4, <2>2, WrittenIs, SizeOfIs
    <3>   QED BY <1>3, <3>1, <3>2
  <2>   QED BY <2>1, <2>2
<1>5. CASE kind \in {Value, Nested}
  <2>1. v \in Bytes
        BY <1>5, ContentIs
  <2>2. Written(tag, kind, v) = Delimited(tag, v)
        /\ SizeOf(kind, v) = 1 + Len(v) + sov(Len(v))
        BY <1>5, WrittenIs, SizeOfIs
  <2>   QED BY <1>3, <2>1, <2>2
<1>6. CASE kind \in {Texts, Pointer}
  <2> DEFINE es == Elements(tag, v)
             fs == FlattenSeq(es)
             n == Len(v)
             w == [i \in 1..n |-> Len(es[i])]
  <2>1. v \in Seq(Bytes)
        BY <1>6, ContentIs, PointerIs
  <2>2. Written(tag, kind, v) = fs /\ SizeOf(kind, v) = ElementsSize(v)
        BY <1>6, WrittenIs, SizeOfIs
  <2>3. /\ es \in Seq(Bytes) /\ Len(es) = n /\ n \in Nat
        /\ \A i \in 1..n : v[i] \in Bytes /\ es[i] = Delimited(tag, v[i])
        BY <2>1, ElementsType
  <2>4. fs \in Bytes /\ \E ends : Borders(ends, es, fs)
    <3> HIDE DEF es
    <3> QED BY <2>3, Flattened
  <2> HIDE DEF es, fs
  <2>5. PICK ends : Borders(ends, es, fs)
        BY <2>4
  <2>6. /\ ends \in [0..n -> Nat] /\ ends[0] = 0 /\ ends[n] = Len(fs)
        /\ \A i \in 1..n : ends[i] = ends[i - 1] + Len(es[i])
        BY <2>3, <2>5 DEF Borders
  <2>7. \A i \in 1..n : Len(es[i]) \in Nat /\ Len(es[i]) <= Len(fs)
        BY <2>3, <2>4, <2>5, PartsFit
  <2>8. Len(fs) \in Nat /\ Len(fs) < 2^Width
        BY <2>2, <2>4 DEF Bytes
  <2>9. w \in [1..n -> Nat] /\ \A i \in 1..n : w[i] = Len(es[i])
        BY <2>7
  <2>10. \A i \in 1..n : w[i] = 1 + Len(v[i]) + sov(Len(v[i]))
    <3> SUFFICES ASSUME NEW i \in 1..n
                 PROVE  w[i] = 1 + Len(v[i]) + sov(Len(v[i]))
        OBVIOUS
    <3>1. Len(es[i]) < 2^Width
          BY <1>2, <2>7, <2>8
    <3>2. v[i] \in Bytes /\ es[i] = Delimited(tag, v[i])
          BY <2>3
    <3>   QED BY <1>3, <2>9, <3>1, <3>2
  <2> HIDE DEF w
  <2>11. SumOf(w, 1..n) = ends[n]
    <3> HIDE DEF n
    <3>1. Along(ends, w, 1..n)
          BY <2>6, <2>9 DEF Along
    <3>2. w \in [1..n -> Nat] /\ n \in Nat /\ ends \in [0..n -> Nat]
          BY <2>3, <2>6, <2>9
    <3> HIDE DEF n
    <3>   QED BY <3>1, <3>2, SumAlong
  <2>12. ElementsSize(v) = SumOf(w, 1..n)
        BY <2>1, <2>9, <2>10, ElementsSizeIs
  <2>   QED BY <2>2, <2>6, <2>11, <2>12
<1>7. CASE kind = Number
  <2>1. v \in Nat /\ v < 2^Width
        BY <1>7, ContentIs
  <2>2. CASE v = 0
        BY <1>1, <1>7, <2>2, WrittenIs, SizeOfIs
  <2>3. CASE v # 0
    <3>1. Written(tag, kind, v) = Numbered(tag, v) /\ SizeOf(kind, v) = 1 + sov(v)
          BY <1>7, <2>3, WrittenIs, SizeOfIs
    <3>2. Len(Numbered(tag, v)) = 1 + Groups(v) /\ sov(v) = Groups(v)
          BY <2>1, NumberedIs, SizeOfVarint
    <3>   QED BY <3>1, <3>2
  <2>   QED BY <2>2, <2>3
<1>8. CASE kind = Flag
  <2>1. v \in BOOLEAN
        BY <1>8, ContentIs
  <2>2. Len(<<tag, 1>>) = 2
        OBVIOUS
  <2>3. CASE v = FALSE
        BY <1>1, <1>8, <2>3, WrittenIs, SizeOfIs
  <2>4. CASE v = TRUE
        BY <1>8, <2>2, <2>4, WrittenIs, SizeOfIs
  <2>   QED BY <2>1, <2>3, <2>4
<1>   QED BY <1>4, <1>5, <1>6, <1>7, <1>8 DEF Kinds

----------------------------------------------------------------------------
(* A whole message.                                                        *)

\* What a marshaller is like: one row per field, with a tag for its kind.
Writer(marshal) ==
    /\ Len(marshal) \in Nat /\ DOMAIN marshal = 1..Len(marshal)
    /\ \A k \in 1..Len(marshal) :
          /\ marshal[k][1] \in Tags /\ marshal[k][3] \in Kinds
          /\ marshal[k][1] % 8 = WireType(marshal[k][3])
    /\ \A j, k \in 1..Len(marshal) : j # k => marshal[j][2] # marshal[k][2]

\* What the marshaller can write of a message.
Writes(marshal, message) ==
    \A k \in 1..Len(marshal) : message[marshal[k][2]] \in Content(marshal[k][3])

\* The table reads the marshaller's fields by their numbers and as their kinds, and has no
\* other fields; it may lack some.
Reader(marshal, rows) ==
    /\ Table(rows)
    /\ \A k \in 1..Len(marshal) : \A r \in rows :
          /\ r[1] = marshal[k][1] \div 8 <=> r[3] = marshal[k][2]
          /\ r[3] = marshal[k][2] => r[4] = marshal[k][3]
    /\ \A r \in rows : \E k \in 1..Len(marshal) : marshal[k][2] = r[3]

\* What the row k writes.
RowBytes(marshal, message, k) ==
    Written(marshal[k][1], marshal[k][3], message[marshal[k][2]])

\* The rows' bytes in the order in which they stand in the buffer.
Pieces(marshal, message) ==
    [i \in 1..Len(marshal) |-> RowBytes(marshal, message, Len(marshal) - i + 1)]

\* The buffer has one part per row.
LEMMA BufferIs ==
    ASSUME NEW marshal, Writer(marshal), NEW message, Writes(marshal, message)
    PROVE  /\ MarshalToSizedBuffer(marshal, message) = FlattenSeq(Pieces(marshal, message))
           /\ Pieces(marshal, message) \in Seq(Bytes)
           /\ Len(Pieces(marshal, message)) = Len(marshal)
           /\ \A i \in 1..Len(marshal) :
                 /\ Len(marshal) - i + 1 \in 1..Len(marshal)
                 /\ Pieces(marshal, message)[i] = RowBytes(marshal, message, Len(marshal) - i + 1)
<1> DEFINE n == Len(marshal)
           W(k) == RowBytes(marshal, message, k)
           s == [k \in DOMAIN marshal |-> W(k)]
<1>1. n \in Nat /\ DOMAIN marshal = 1..n
      BY DEF Writer
<1>2. MarshalToSizedBuffer(marshal, message) = FlattenSeq(Reverse(s))
      BY Zenon DEF MarshalToSizedBuffer, RowBytes
<1>3. \A k \in 1..n : W(k) \in Bytes
  <2> SUFFICES ASSUME NEW k \in 1..n
               PROVE  W(k) \in Bytes
      OBVIOUS
  <2>1. marshal[k][1] \in Tags /\ marshal[k][3] \in Kinds
        BY DEF Writer
  <2>2. \A t \in Tags : t \in Nat
        BY DEF Tags
  <2>3. message[marshal[k][2]] \in Content(marshal[k][3])
        BY DEF Writes
  <2>   QED BY <2>1, <2>2, <2>3, WrittenType DEF RowBytes
<1> HIDE DEF W
<1>4. \A i \in 1..n : n - i + 1 \in 1..n
      BY <1>1
<1>5. Reverse(s) = [i \in 1..n |-> W(n - i + 1)]
  <2>1. Len(s) = n /\ \A k \in 1..n : s[k] = W(k)
    <3> HIDE DEF n
    <3> QED BY <1>1
  <2>2. Reverse(s) = [i \in 1..Len(s) |-> s[(Len(s) - i) + 1]]
        BY DEF Reverse
  <2> HIDE DEF s, n
  <2>   QED BY <1>4, <2>1, <2>2
<1> DEFINE ps == [i \in 1..n |-> W(n - i + 1)]
<1>6. ps \in Seq(Bytes) /\ Len(ps) = n /\ \A i \in 1..n : ps[i] = W(n - i + 1)
  <2> DEFINE V(i) == W(n - i + 1)
  <2>1. \A i \in 1..n : V(i) \in Bytes
        BY <1>3, <1>4
  <2> HIDE DEF V, n
  <2>2. [i \in 1..n |-> V(i)] \in Seq(Bytes) /\ Len([i \in 1..n |-> V(i)]) = n
        /\ \A i \in 1..n : [j \in 1..n |-> V(j)][i] = V(i)
        BY <1>1, <2>1
  <2>   QED BY <2>2 DEF V
<1>7. Pieces(marshal, message) = ps
      BY Zenon DEF Pieces, W
<1>   QED BY <1>2, <1>4, <1>5, <1>6, <1>7 DEF W

\* The message as far as the fields F have been read.
Partly(rows, message, F) ==
    [g \in Names(rows) |-> IF g \in F THEN message[g] ELSE Zero(rows)[g]]

\* It is a message, and without fields the zero message.
LEMMA PartlyType ==
    ASSUME NEW marshal, NEW rows, Reader(marshal, rows), NEW message, Writes(marshal, message),
           NEW F
    PROVE  /\ Partly(rows, message, F) \in Msgs(rows)
           /\ Partly(rows, message, {}) = Zero(rows)
<1> DEFINE w == Partly(rows, message, F)
<1>1. Table(rows)
      BY DEF Reader
<1>2. Zero(rows) \in Msgs(rows)
      BY <1>1, ZeroType
<1>3. \A r \in rows : r[3] \in Names(rows) /\ r[4] \in Kinds
      BY <1>1 DEF Names, Table
<1>4. \A r \in rows : message[r[3]] \in Content(r[4])
      BY DEF Reader, Writes
<1>5. \A r \in rows : w[r[3]] \in Content(r[4])
  <2> SUFFICES ASSUME NEW r \in rows
               PROVE  w[r[3]] \in Content(r[4])
      OBVIOUS
  <2>1. w[r[3]] = IF r[3] \in F THEN message[r[3]] ELSE Zero(rows)[r[3]]
        BY <1>3 DEF Partly
  <2>   QED BY <1>2, <1>4, <2>1 DEF Msgs
<1>6. \A g \in Names(rows) : w[g] \in AnyContent
  <2> SUFFICES ASSUME NEW g \in Names(rows)
               PROVE  w[g] \in AnyContent
      OBVIOUS
  <2>1. PICK r \in rows : r[3] = g
        BY DEF Names
  <2> HIDE DEF w
  <2>   QED BY <1>3, <1>5, <2>1 DEF AnyContent
<1>7. w = [g \in Names(rows) |-> w[g]]
      BY DEF Partly
<1>8. Partly(rows, message, {}) = Zero(rows)
  <2>1. Partly(rows, message, {}) = [g \in Names(rows) |-> Zero(rows)[g]]
        BY DEF Partly
  <2>2. Zero(rows) = [g \in Names(rows) |-> Zero(rows)[g]]
        BY <1>2 DEF Msgs
  <2>   QED BY <2>1, <2>2
<1> HIDE DEF w
<1>9. w \in [Names(rows) -> AnyContent]
      BY <1>6, <1>7
<1>10. w \in Msgs(rows)
      BY <1>5, <1>9 DEF Msgs
<1>   QED BY <1>8, <1>10 DEF w

\* The fields of the last rows, which stand first in the buffer.
Behind(marshal, i) == {marshal[j][2] : j \in Len(marshal) - i + 1..Len(marshal)}

\* One more row has been read.
LEMMA PartlyMore ==
    ASSUME NEW marshal, Writer(marshal), NEW rows, Reader(marshal, rows),
           NEW message, Writes(marshal, message),
           NEW i \in 1..Len(marshal), NEW k, k = Len(marshal) - i + 1
    PROVE  /\ Holds(rows, marshal[k][1], Partly(rows, message, Behind(marshal, i - 1)),
                    Empty(marshal[k][3]))
           /\ Suits(rows, marshal[k][1], marshal[k][3])
           /\ With(rows, marshal[k][1], Partly(rows, message, Behind(marshal, i - 1)),
                   message[marshal[k][2]]) = Partly(rows, message, Behind(marshal, i))
<1> DEFINE n == Len(marshal)
           G == Behind(marshal, i - 1)
           F == Behind(marshal, i)
           tag == marshal[k][1]
           name == marshal[k][2]
           kind == marshal[k][3]
           w == Partly(rows, message, G)
           u == Partly(rows, message, F)
<1>1. n \in Nat /\ k \in 1..n /\ Table(rows)
      BY DEF Writer, Reader
<1>2. G = {marshal[j][2] : j \in k + 1..n} /\ F = {marshal[j][2] : j \in k..n}
  <2>1. n - (i - 1) + 1 = k + 1
        BY <1>1
  <2>   QED BY <2>1 DEF Behind
<1>3. F = G \cup {name} /\ name \notin G
  <2>1. \A j \in k + 1..n : marshal[j][2] # name
        BY <1>1 DEF Writer
  <2>2. \A j : j \in k..n <=> j \in k + 1..n \/ j = k
        BY <1>1
  <2> HIDE DEF n
  <2>3. name \notin G
        BY <1>2, <2>1
  <2>4. \A x : x \in F <=> x \in G \/ x = name
        BY <1>2, <2>2
  <2> HIDE DEF F, G, name
  <2>   QED BY <2>3, <2>4
<1>4. \A r \in rows : /\ r[1] = tag \div 8 <=> r[3] = name
                      /\ r[1] = tag \div 8 => r[4] = kind
                      /\ r[3] \in Names(rows)
      BY <1>1 DEF Reader, Names
<1> HIDE DEF F, G, tag, name, kind
<1>5. /\ DOMAIN w = Names(rows)
      /\ \A g \in Names(rows) : w[g] = IF g \in G THEN message[g] ELSE Zero(rows)[g]
      BY DEF Partly
<1>6. u = [g \in Names(rows) |-> IF g \in F THEN message[g] ELSE Zero(rows)[g]]
      BY DEF Partly
<1> HIDE DEF w, u
<1>7. Holds(rows, tag, w, Empty(kind))
  <2>1. \A r \in rows : Zero(rows)[r[3]] = Empty(r[4])
        BY <1>1, ZeroType
  <2>   QED BY <1>3, <1>4, <1>5, <2>1 DEF Holds
<1>8. Suits(rows, tag, kind)
      BY <1>4 DEF Suits
<1>9. With(rows, tag, w, message[name]) = u
  <2>1. With(rows, tag, w, message[name]) =
            [g \in Names(rows) |->
                IF \E r \in rows : r[1] = tag \div 8 /\ r[3] = g THEN message[name] ELSE w[g]]
        BY <1>5 DEF With
  <2>2. ASSUME NEW g \in Names(rows)
        PROVE  (IF \E r \in rows : r[1] = tag \div 8 /\ r[3] = g THEN message[name] ELSE w[g]) =
               (IF g \in F THEN message[g] ELSE Zero(rows)[g])
    <3>1. PICK r \in rows : r[3] = g
          BY DEF Names
    <3>2. CASE g = name
          BY <1>3, <1>4, <3>1, <3>2
    <3>3. CASE g # name
          BY <1>3, <1>4, <1>5, <3>3
    <3>   QED BY <3>2, <3>3
  <2>   QED BY <1>6, <2>1, <2>2
<1>   QED BY <1>7, <1>8, <1>9 DEF w, u, F, G, tag, name, kind

\* The loop reads what the marshaller wrote, wherever it stands.
LEMMA BufferRead ==
    ASSUME NEW marshal, Writer(marshal), NEW rows, Reader(marshal, rows),
           NEW message, Writes(marshal, message),
           NEW bs \in Bytes, Fits(bs), NEW f, FieldRounds(f, rows, bs), NEW p \in Nat,
           Stands(bs, p, MarshalToSizedBuffer(marshal, message)), Reached(f, p, Zero(rows))
    PROVE  Reached(f, p + Len(MarshalToSizedBuffer(marshal, message)),
                   [g \in Names(rows) |-> message[g]])
<1> DEFINE n == Len(marshal)
           ps == Pieces(marshal, message)
           fs == FlattenSeq(ps)
           w(i) == Partly(rows, message, Behind(marshal, i))
<1>1. n \in Nat /\ Table(rows)
      BY DEF Writer, Reader
<1>2. /\ MarshalToSizedBuffer(marshal, message) = fs /\ ps \in Seq(Bytes) /\ Len(ps) = n
      /\ \A i \in 1..n : n - i + 1 \in 1..n /\ ps[i] = RowBytes(marshal, message, n - i + 1)
      BY BufferIs
<1>3. fs \in Bytes /\ \E ends : Borders(ends, ps, fs)
  <2> HIDE DEF ps
  <2> QED BY <1>2, Flattened
<1>4. PICK ends : Borders(ends, ps, fs)
      BY <1>3
<1> HIDE DEF ps, fs
<1>5. /\ ends \in [0..n -> Nat] /\ ends[0] = 0 /\ ends[n] = Len(fs)
      /\ \A i \in 1..n : ends[i] = ends[i - 1] + Len(ps[i]) /\ Stands(fs, ends[i - 1], ps[i])
      BY <1>2, <1>4 DEF Borders
<1>6. Stands(bs, p, fs)
      BY <1>2
<1> DEFINE T == {i \in 0..n : Reached(f, p + ends[i], w(i))}
<1>7. 0 \in T
  <2>1. Behind(marshal, 0) = {}
        BY <1>1 DEF Behind
  <2>2. w(0) = Zero(rows)
        BY <2>1, PartlyType
  <2>3. p + ends[0] = p /\ 0 \in 0..n
        BY <1>1, <1>5
  <2>   QED BY <2>2, <2>3
<1>8. ASSUME NEW i \in 1..n, i - 1 \in T
      PROVE  i \in T
  <2> DEFINE k == n - i + 1
             tag == marshal[k][1]
             kind == marshal[k][3]
             v == message[marshal[k][2]]
             a == ends[i - 1]
  <2>1. k \in 1..n /\ ps[i] = RowBytes(marshal, message, k)
        BY <1>2
  <2>2. tag \in Tags /\ kind \in Kinds /\ tag % 8 = WireType(kind) /\ v \in Content(kind)
        BY <2>1 DEF Writer, Writes
  <2>3. ps[i] = Written(tag, kind, v) /\ ps[i] \in Bytes
        BY <1>2, <2>1 DEF RowBytes
  <2>4. /\ Holds(rows, tag, w(i - 1), Empty(kind)) /\ Suits(rows, tag, kind)
        /\ With(rows, tag, w(i - 1), v) = w(i)
    <3>1. k = Len(marshal) - i + 1 /\ i \in 1..Len(marshal)
          OBVIOUS
    <3> HIDE DEF k
    <3>   QED BY <3>1, PartlyMore
  <2>5. w(i - 1) \in Msgs(rows)
        BY PartlyType
  <2>6. Reached(f, p + a, w(i - 1))
        BY <1>8
  <2>7. a \in Nat /\ ends[i] = a + Len(ps[i]) /\ Stands(fs, a, ps[i]) /\ i \in 0..n
    <3>1. i - 1 \in 0..n /\ i \in 0..n
          BY <1>1
    <3>   QED BY <1>5, <3>1
  <2> HIDE DEF k, tag, kind, v, a, T, n
  <2> DEFINE b == p + a
             m == w(i - 1)
  <2>8. b \in Nat /\ Stands(bs, b, Written(tag, kind, v))
    <3>1. Stands(bs, p + a, ps[i])
          BY <1>3, <1>6, <2>3, <2>7, StandsWithin
    <3>   QED BY <2>3, <2>7, <3>1
  <2>9. m \in Msgs(rows) /\ Reached(f, b, m) /\ Holds(rows, tag, m, Empty(kind))
        /\ Suits(rows, tag, kind) /\ With(rows, tag, m, v) = w(i)
        BY <2>4, <2>5, <2>6
  <2> HIDE DEF b, m, w
  <2>10. Reached(f, b + Len(Written(tag, kind, v)), With(rows, tag, m, v))
        BY <1>1, <2>2, <2>8, <2>9, RowRead
  <2>11. b + Len(Written(tag, kind, v)) = p + ends[i]
    <3> DEFINE l == Len(ps[i])
    <3>1. l \in Nat /\ ends[i] = a + l /\ a \in Nat /\ b = p + a
          BY <2>3, <2>7 DEF b, Bytes
    <3> HIDE DEF l
    <3>2. b + l = p + ends[i]
          BY <3>1
    <3>   QED BY <2>3, <3>2 DEF l
  <2>   QED BY <2>7, <2>9, <2>10, <2>11 DEF T, w
<1> HIDE DEF T
<1>9. \A i \in 0..n : i \in T
      BY <1>1, <1>7, <1>8, Upwards
<1>10. Reached(f, p + Len(fs), w(n))
      BY <1>1, <1>5, <1>9 DEF T
<1>11. w(n) = [g \in Names(rows) |-> message[g]]
  <2>1. Behind(marshal, n) = {marshal[j][2] : j \in 1..n}
    <3>1. n - n + 1 = 1
          BY <1>1
    <3>   QED BY <3>1 DEF Behind
  <2>2. \A g \in Names(rows) : g \in Behind(marshal, n)
        BY <2>1 DEF Reader, Names
  <2>   QED BY <2>2 DEF Partly
<1>   QED BY <1>2, <1>10, <1>11

\* A loop that has come to the end has the message.
LEMMA ReadThrough ==
    ASSUME NEW rows, NEW bs \in Bytes, NEW f, FieldRounds(f, rows, bs),
           \A n \in 0..Len(bs) :
               (f[n] \in Reads(rows) /\ f[n].at > Len(bs)) => Unmarshal(rows, bs) = f[n].msg,
           NEW m, Reached(f, Len(bs), m)
    PROVE  Unmarshal(rows, bs) = m
<1>1. PICK n \in 0..Len(bs) : f[n] = [at |-> Len(bs) + 1, msg |-> m]
      BY DEF Reached
<1>2. f[n] \in Reads(rows) \cup {Error} /\ f[n] # Error
      BY <1>1, NoError DEF FieldRounds
<1>3. f[n].at = Len(bs) + 1 /\ f[n].msg = m
      BY <1>1
<1>4. Len(bs) \in Nat
      BY DEF Bytes
<1>   QED BY <1>2, <1>3, <1>4

\* A buffer with a message in it is read as the message.
LEMMA MessageRead ==
    ASSUME NEW marshal, Writer(marshal), NEW rows, Reader(marshal, rows),
           NEW message, Writes(marshal, message),
           Fits(MarshalToSizedBuffer(marshal, message))
    PROVE  Unmarshal(rows, MarshalToSizedBuffer(marshal, message)) =
               [g \in Names(rows) |-> message[g]]
<1> DEFINE bs == MarshalToSizedBuffer(marshal, message)
           m == [g \in Names(rows) |-> message[g]]
<1>1. bs \in Bytes /\ Table(rows)
  <2>1. Pieces(marshal, message) \in Seq(Bytes) /\ bs = FlattenSeq(Pieces(marshal, message))
        BY BufferIs
  <2>   QED BY <2>1, Flattened DEF Reader
<1>2. Stands(bs, 0, bs)
      BY <1>1, StandsAlone
<1>3. Fits(bs)
      OBVIOUS
<1>4. PICK f : /\ FieldRounds(f, rows, bs)
               /\ \A n \in 0..Len(bs) :
                     (f[n] \in Reads(rows) /\ f[n].at > Len(bs)) => Unmarshal(rows, bs) = f[n].msg
  <2> HIDE DEF bs
  <2> QED BY <1>1, UnmarshalIs
<1>5. Reached(f, 0, Zero(rows))
  <2>1. f[0] = [at |-> 0 + 1, msg |-> Zero(rows)]
        BY <1>4 DEF FieldRounds
  <2>2. 0 \in 0..0
        OBVIOUS
  <2>   QED BY <2>1, <2>2 DEF Reached
<1>6. Reached(f, 0 + Len(bs), m)
      BY <1>1, <1>2, <1>3, <1>4, <1>5, BufferRead
<1> HIDE DEF bs, m
<1>7. Reached(f, Len(bs), m)
  <2>1. Len(bs) \in Nat
        BY <1>1 DEF Bytes
  <2>2. 0 + Len(bs) = Len(bs)
        BY <2>1
  <2>   QED BY <1>6, <2>2
<1>8. Unmarshal(rows, bs) = m
      BY <1>1, <1>4, <1>7, ReadThrough
<1>   QED BY <1>8 DEF bs, m

\* The fields Size counts.
Sizes(marshal, size) ==
    /\ \A k \in 1..Len(marshal) : <<marshal[k][2], marshal[k][3]>> \in size
    /\ \A s \in size : \E k \in 1..Len(marshal) : s = <<marshal[k][2], marshal[k][3]>>

\* Size counts the bytes of the buffer.
LEMMA BufferSize ==
    ASSUME NEW marshal, Writer(marshal), NEW message, Writes(marshal, message),
           NEW size, Sizes(marshal, size),
           Fits(MarshalToSizedBuffer(marshal, message))
    PROVE  Len(MarshalToSizedBuffer(marshal, message)) = Size(size, message)
<1> DEFINE n == Len(marshal)
           N == 1..n
           ps == Pieces(marshal, message)
           fs == FlattenSeq(ps)
           row(i) == <<marshal[n - i + 1][2], marshal[n - i + 1][3]>>
           rowOf == [i \in N |-> row(i)]
           E(s) == SizeOf(s[2], message[s[1]])
           w == [i \in N |-> Len(ps[i])]
           v == [s \in size |-> E(s)]
           P(f) == f = [s \in SUBSET size |-> IF s = {} THEN 0 ELSE E(Pick(s)) + f[s \ {Pick(s)}]]
           H == CHOOSE f : P(f)
<1>1. n \in Nat /\ IsFiniteSet(N)
  <2>1. n \in Nat
        BY DEF Writer
  <2>   QED BY <2>1, FS_Interval
<1>2. /\ MarshalToSizedBuffer(marshal, message) = fs /\ ps \in Seq(Bytes) /\ Len(ps) = n
      /\ \A i \in N : n - i + 1 \in N /\ ps[i] = RowBytes(marshal, message, n - i + 1)
      BY BufferIs
<1>3. fs \in Bytes /\ \E ends : Borders(ends, ps, fs)
  <2> HIDE DEF ps
  <2> QED BY <1>2, Flattened
<1>4. PICK ends : Borders(ends, ps, fs)
      BY <1>3
<1>4a. Fits(fs)
      BY <1>2
<1> HIDE DEF ps, fs
<1>5. /\ ends \in [0..n -> Nat] /\ ends[0] = 0 /\ ends[n] = Len(fs)
      /\ \A i \in N : ends[i] = ends[i - 1] + Len(ps[i])
      BY <1>2, <1>4 DEF Borders
<1>6. \A i \in N : Len(ps[i]) \in Nat /\ Len(ps[i]) <= Len(fs)
      BY <1>2, <1>3, <1>4, PartsFit
<1>7. Len(fs) \in Nat /\ Len(fs) < 2^Width /\ 2^Width \in Nat
  <2>1. 2^(Width - 1) \in Nat /\ 2^Width \in Nat /\ 2^(Width - 1) < 2^Width
        BY Powers
  <2>   QED BY <1>3, <1>4a, <2>1 DEF Fits, Bytes
<1>8. \A i \in N : Len(ps[i]) = E(row(i)) /\ row(i) \in size
  <2> SUFFICES ASSUME NEW i \in N
               PROVE  Len(ps[i]) = E(row(i)) /\ row(i) \in size
      OBVIOUS
  <2> DEFINE k == n - i + 1
             tag == marshal[k][1]
             kind == marshal[k][3]
             x == message[marshal[k][2]]
  <2>1. k \in N /\ ps[i] = RowBytes(marshal, message, k)
        BY <1>2
  <2>2. tag \in Tags /\ kind \in Kinds /\ x \in Content(kind) /\ \A t \in Tags : t \in Nat
        BY <2>1 DEF Writer, Writes, Tags
  <2>3. ps[i] = Written(tag, kind, x)
        BY <2>1 DEF RowBytes
  <2>4. Len(ps[i]) < 2^Width
        BY <1>6, <1>7
  <2>5. row(i) \in size /\ row(i)[1] = marshal[k][2] /\ row(i)[2] = kind
        BY <2>1 DEF Sizes
  <2>6. E(row(i)) = SizeOf(kind, x)
        BY <2>5
  <2> HIDE DEF k, tag, kind, x, E, row
  <2>7. Len(Written(tag, kind, x)) = SizeOf(kind, x)
        BY <2>2, <2>3, <2>4, WrittenSize
  <2>   QED BY <2>3, <2>5, <2>6, <2>7
<1>9. w \in [N -> Nat] /\ \A i \in N : w[i] = Len(ps[i])
      BY <1>6
<1>10. SumOf(w, N) = Len(fs)
  <2>1. Along(ends, w, N)
        BY <1>5, <1>9 DEF Along
  <2>2. w \in [1..n -> Nat] /\ Along(ends, w, 1..n) /\ n \in Nat
        BY <1>1, <1>9, <2>1
  <2> HIDE DEF w, n
  <2>3. SumOf(w, 1..n) = ends[n]
        BY <1>5, <2>2, SumAlong
  <2>   QED BY <1>5, <2>3
<1>11. size = ImageOf(rowOf, N)
  <2>1. \A s \in size : \E i \in N : s = row(i)
    <3> SUFFICES ASSUME NEW s \in size
                 PROVE  \E i \in N : s = row(i)
        OBVIOUS
    <3>1. PICK k \in N : s = <<marshal[k][2], marshal[k][3]>>
          BY DEF Sizes
    <3> DEFINE i == n - k + 1
    <3>2. i \in N /\ n - i + 1 = k
          BY <1>1
    <3>3. s = row(i)
          BY <3>1, <3>2
    <3>   QED BY <3>2, <3>3
  <2> HIDE DEF row, N
  <2>   QED BY <1>8, <2>1 DEF ImageOf
<1>12. \A i, j \in N : rowOf[i] = rowOf[j] => i = j
  <2> SUFFICES ASSUME NEW i \in N, NEW j \in N, i # j
               PROVE  rowOf[i] # rowOf[j]
      OBVIOUS
  <2> DEFINE k == n - i + 1
             l == n - j + 1
  <2>1. k \in N /\ l \in N /\ k # l
        BY <1>1, <1>2
  <2>2. marshal[k][2] # marshal[l][2]
    <3> HIDE DEF k, l
    <3> QED BY <2>1 DEF Writer
  <2>3. row(i)[1] = marshal[k][2] /\ row(j)[1] = marshal[l][2]
        BY <2>1
  <2>4. rowOf[i] = row(i) /\ rowOf[j] = row(j)
        OBVIOUS
  <2> HIDE DEF row, rowOf, k, l
  <2>   QED BY <2>2, <2>3, <2>4
<1> HIDE DEF row
<1>13. \A i \in N : rowOf[i] \in size /\ rowOf[i] = row(i)
      BY <1>8
<1> HIDE DEF rowOf, w
<1>14. \A s \in size : E(s) \in Nat
  <2> HIDE DEF E, N
  <2>1. \A s \in size : \E i \in N : s = rowOf[i]
        BY <1>11 DEF ImageOf
  <2>   QED BY <1>6, <1>8, <1>13, <2>1
<1> HIDE DEF E
<1>15. v \in [size -> Nat] /\ (\A s \in size : v[s] = E(s)) /\ \A i \in N : v[rowOf[i]] = w[i]
      BY <1>8, <1>9, <1>13, <1>14
<1>15a. rowOf \in [N -> size]
  <2>1. rowOf = [i \in N |-> rowOf[i]]
        BY DEF rowOf
  <2> HIDE DEF N
  <2>   QED BY <1>13, <2>1
<1>16. IsFiniteSet(size)
  <2> HIDE DEF N
  <2>1. rowOf \in Surjection(N, size)
        BY <1>11, <1>15a DEF Surjection, ImageOf
  <2>   QED BY <1>1, <2>1, FS_Surjection
<1> HIDE DEF v
<1>17. SumOf(v, size) = SumOf(w, N)
  <2> HIDE DEF N
  <2>1. v \in [ImageOf(rowOf, N) -> Nat]
        BY <1>11, <1>15
  <2>2. SumOf(v, ImageOf(rowOf, N)) = SumOf(w, N)
        BY <1>1, <1>9, <1>12, <1>15, <1>15a, <2>1, SumImage
  <2>   QED BY <1>11, <2>2
<1>18. Size(size, message) = H[size]
      BY Zenon DEF Size, MapThenSumSet, MapThenFoldSet, Pick, E
<1>19. SumOf(v, size) = H[size]
  <2>1. \A s \in SUBSET size : s # {} => v[Pick(s)] = E(Pick(s))
        BY <1>15, PickIn
  <2>2. PICK g \in [SUBSET size -> Nat] : Adds(g, v, size)
        BY <1>15, <1>16, AddsExists
  <2>3. \A f : P(f) <=> Adds(f, v, size)
        BY <2>1 DEF Adds
  <2>4. Adds(H, v, size)
    <3> HIDE DEF P
    <3> QED BY <2>2, <2>3
  <2> HIDE DEF H
  <2>5. size \in SUBSET size
        OBVIOUS
  <2>6. H[size] = g[size]
        BY <1>16, <2>2, <2>4, <2>5, AddsUnique
  <2>7. \A T \in SUBSET size : SumOf(v, T) = g[T]
        BY <1>15, <1>16, <2>2, SumIs
  <2>   QED BY <2>5, <2>6, <2>7
<1>   QED BY <1>2, <1>10, <1>17, <1>18, <1>19

----------------------------------------------------------------------------
(* A field of a newer hub in front of a message or behind it.              *)

\* A number is the same number wherever it stands.
LEMMA VarintWithin ==
    ASSUME NEW bs \in Bytes, NEW p \in Nat, NEW s \in Bytes, Stands(bs, p, s),
           NEW i \in Nat \ {0}, Varint(s, i) # Error
    PROVE  Varint(bs, p + i) = [value |-> Varint(s, i).value, next |-> p + Varint(s, i).next]
<1>1. Len(s) \in Nat /\ Len(bs) \in Nat /\ p + Len(s) <= Len(bs)
      /\ \A k \in p + 1..p + Len(s) : bs[k] = s[k - p]
      BY DEF Bytes, Stands
<1>2. Ends(s, i) # {} /\ Ends(s, i) \in SUBSET Nat
      BY VarintIs DEF Ends
<1>3. PICK j \in Ends(s, i) : \A k \in Ends(s, i) : j <= k
      BY <1>2, Least
<1>4. /\ j - i \in 0..3 /\ j \in Nat /\ i \in 1..Len(s)
      /\ Varint(s, i) = [value |-> Worth(s, i, j) % 2^Width, next |-> j + 1]
      BY <1>3, VarintIs
<1>5. j \in i..Len(s) /\ s[j] < 2^7 /\ 7 * (j - i) < Width
      BY DEF Ends
<1> DEFINE a == p + i
           b == p + j
<1>6. a \in Nat \ {0} /\ b \in a..Len(bs) /\ b - a = j - i /\ b - p = j /\ a \in 1..Len(bs)
      BY <1>1, <1>4, <1>5
<1>7. b \in Ends(bs, a)
  <2>1. bs[b] = s[j]
        BY <1>1, <1>4, <1>5, <1>6
  <2> HIDE DEF a, b
  <2>   QED BY <1>5, <1>6, <2>1 DEF Ends
<1>8. ASSUME NEW k \in Ends(bs, a)
      PROVE  b <= k
  <2>1. k \in a..Len(bs) /\ bs[k] < 2^7 /\ 7 * (k - a) < Width
        BY DEF Ends
  <2>2. SUFFICES ASSUME k < b PROVE FALSE
        BY <1>6, <2>1
  <2> DEFINE x == k - p
  <2>3. x \in i..Len(s) /\ k - a = x - i /\ x < j
        BY <1>1, <1>4, <1>5, <1>6, <2>1, <2>2
  <2>4. k \in p + 1..p + Len(s)
        BY <1>1, <1>4, <1>5, <1>6, <2>1, <2>2
  <2>5. s[x] = bs[k]
        BY <1>1, <2>4
  <2> HIDE DEF x, a, b
  <2>6. x \in Ends(s, i)
        BY <2>1, <2>3, <2>5 DEF Ends
  <2>7. j <= x
        BY <1>3, <2>6
  <2>   QED BY <1>4, <2>3, <2>7
<1>9. Varint(bs, a) = [value |-> Worth(bs, a, b) % 2^Width, next |-> b + 1]
  <2> HIDE DEF a, b
  <2> QED BY <1>6, <1>7, <1>8, VarintIs
<1>10. Worth(bs, a, b) = Worth(s, i, j)
  <2>1. PICK n \in 0..3 : j = i + n
        BY <1>4, <1>5
  <2>2. b = a + n /\ i + n <= Len(s) /\ a + n <= Len(bs)
        BY <1>1, <1>4, <1>5, <1>6, <2>1
  <2>3. Worth(bs, a, a + n) = Added(bs, a, n) /\ Worth(s, i, i + n) = Added(s, i, n)
    <3> HIDE DEF a, b
    <3> QED BY <1>4, <1>6, <2>2, WorthIs
  <2>4. ASSUME NEW c \in 0..3, c <= n
        PROVE  bs[a + c] = s[i + c]
    <3> DEFINE k == a + c
    <3>1. k \in p + 1..p + Len(s) /\ k - p = i + c
          BY <1>1, <1>4, <2>2, <2>4
    <3> HIDE DEF k
    <3>2. bs[k] = s[k - p]
          BY <1>1, <3>1
    <3>   QED BY <3>1, <3>2 DEF k
  <2>5. bs[a] = s[i]
    <3>1. bs[a + 0] = s[i + 0] /\ a + 0 = a /\ i + 0 = i
          BY <1>6, <2>4
    <3>   QED BY <3>1
  <2>6. (n > 0 => bs[a + 1] = s[i + 1]) /\ (n > 1 => bs[a + 2] = s[i + 2])
        /\ (n > 2 => bs[a + 3] = s[i + 3])
        BY <2>4
  <2> HIDE DEF a, b
  <2>7. Added(bs, a, n) = Added(s, i, n)
        BY <2>5, <2>6 DEF Added
  <2>   QED BY <2>1, <2>2, <2>3, <2>7
<1>11. Varint(bs, a) = [value |-> Varint(s, i).value, next |-> p + Varint(s, i).next]
  <2>1. b + 1 = p + (j + 1)
        BY <1>4, <1>6
  <2>2. Varint(s, i).value = Worth(s, i, j) % 2^Width /\ Varint(s, i).next = j + 1
        BY <1>4
  <2> HIDE DEF a, b
  <2>   QED BY <1>9, <1>10, <2>1, <2>2
<1>   QED BY <1>11

\* So is a length, when its value ends there too.
LEMMA AfterWithin ==
    ASSUME NEW bs \in Bytes, Fits(bs), NEW p \in Nat, NEW s \in Bytes, Stands(bs, p, s),
           NEW i \in Nat \ {0}, After(s, i) # Error, After(s, i).next <= Len(s) + 1
    PROVE  After(bs, p + i) # Error /\ After(bs, p + i).next = p + After(s, i).next
<1> DEFINE n == Varint(s, i)
           k == Varint(bs, p + i)
<1>1. Len(s) \in Nat /\ Len(bs) \in Nat /\ p + Len(s) <= Len(bs) /\ 2^(Width - 1) \in Nat
  <2>1. 2^(Width - 1) \in Nat
        BY Powers
  <2>   QED BY <2>1 DEF Bytes, Stands
<1>2. After(s, i) = IF n = Error \/ n.value >= 2^(Width - 1)
                            \/ n.next + n.value >= 2^(Width - 1) THEN Error
                    ELSE [value |-> n.next, next |-> n.next + n.value]
      BY Zenon DEF After, Summed
<1>3. After(bs, p + i) = IF k = Error \/ k.value >= 2^(Width - 1)
                                 \/ k.next + k.value >= 2^(Width - 1) THEN Error
                         ELSE [value |-> k.next, next |-> k.next + k.value]
      BY Zenon DEF After, Summed
<1>4. n = Error \/ (n.value \in Nat /\ n.next \in Nat)
  <2>1. n = Error \/ (n # Error /\ n.value \in Nat /\ n.next \in i + 1..Len(s) + 1)
        BY VarintType
  <2> HIDE DEF n
  <2>   QED BY <1>1, <2>1
<1>5. n # Error => k = [value |-> n.value, next |-> p + n.next]
      BY VarintWithin
<1> HIDE DEF n, k
<1>6. n # Error /\ ~(n.value >= 2^(Width - 1)) /\ After(s, i).next = n.next + n.value
      BY <1>2
<1>7. k # Error /\ k.value = n.value /\ k.next = p + n.next
      BY <1>5, <1>6, NoError
<1>8. k.next + k.value = p + After(s, i).next /\ k.next + k.value <= Len(bs) + 1
      BY <1>1, <1>4, <1>6, <1>7
<1>9. ~(k.next + k.value >= 2^(Width - 1)) /\ ~(k.value >= 2^(Width - 1))
      BY <1>1, <1>4, <1>6, <1>7, <1>8 DEF Fits
<1>   QED BY <1>3, <1>7, <1>8, <1>9, NoError

\* So is a round of the loop that skips a field, when it stays in the field.
LEMMA SkippedWithin ==
    ASSUME NEW bs \in Bytes, Fits(bs), NEW p \in Nat, NEW s \in Bytes, Stands(bs, p, s),
           NEW t \in Skipping, Skipped(s, t) # Error, Skipped(s, t).next <= Len(s) + 1
    PROVE  Skipped(bs, [next |-> p + t.next, depth |-> t.depth]) =
               [next |-> p + Skipped(s, t).next, depth |-> Skipped(s, t).depth]
<1> DEFINE u == [next |-> p + t.next, depth |-> t.depth]
           wire == Varint(s, t.next)
           type == wire.value % 8
           ends == CASE type = 0 -> Varint(s, wire.next)
                     [] type \in {1, 5} -> [next |-> wire.next + Fixed(type)]
                     [] type = 2 -> After(s, wire.next)
                     [] type = 3 \/ (type = 4 /\ t.depth > 0) -> [next |-> wire.next]
                     [] OTHER -> Error
           open == CASE type = 3 -> t.depth + 1
                     [] type = 4 -> t.depth - 1
                     [] OTHER -> t.depth
           wireU == Varint(bs, u.next)
           typeU == wireU.value % 8
           endsU == CASE typeU = 0 -> Varint(bs, wireU.next)
                      [] typeU \in {1, 5} -> [next |-> wireU.next + Fixed(typeU)]
                      [] typeU = 2 -> After(bs, wireU.next)
                      [] typeU = 3 \/ (typeU = 4 /\ u.depth > 0) -> [next |-> wireU.next]
                      [] OTHER -> Error
           openU == CASE typeU = 3 -> u.depth + 1
                      [] typeU = 4 -> u.depth - 1
                      [] OTHER -> u.depth
<1>1. Skipped(s, t) = IF t.next > Len(s) \/ wire = Error \/ ends = Error THEN Error
                      ELSE [next |-> ends.next, depth |-> open]
      BY Zenon DEF Skipped, Beyond
<1>2. Skipped(bs, u) = IF u.next > Len(bs) \/ wireU = Error \/ endsU = Error THEN Error
                       ELSE [next |-> endsU.next, depth |-> openU]
      BY Zenon DEF Skipped, Beyond
<1>3. /\ t.next \in Nat \ {0} /\ t.depth \in Nat /\ u.next = p + t.next /\ u.depth = t.depth
      /\ Len(s) \in Nat /\ Len(bs) \in Nat /\ p + Len(s) <= Len(bs)
      BY DEF Skipping, Bytes, Stands
<1> DEFINE r == Skipped(s, t)
<1>4. ~(t.next > Len(s)) /\ wire # Error /\ ends # Error /\ r = [next |-> ends.next, depth |-> open]
  <2> HIDE DEF wire, ends, open
  <2> QED BY <1>1
<1> HIDE DEF r
<1>5. wire.value \in Nat /\ wire.next \in Nat \ {0}
  <2>1. wire = Error \/ (wire # Error /\ wire.value \in Nat /\ wire.next \in t.next + 1..Len(s) + 1)
        BY <1>3, VarintType
  <2> HIDE DEF wire
  <2>   QED BY <1>3, <1>4, <2>1
<1>6. wireU # Error /\ wireU.value = wire.value /\ wireU.next = p + wire.next
  <2>1. Varint(bs, p + t.next) = [value |-> wire.value, next |-> p + wire.next]
        BY <1>3, <1>4, VarintWithin
  <2>2. wireU = Varint(bs, p + t.next)
        BY <1>3
  <2> HIDE DEF wire, wireU
  <2>   QED BY <2>1, <2>2, NoError
<1> HIDE DEF u, wire, wireU
<1>7. typeU = type
      BY <1>6
<1>8. openU = open
      BY <1>3, <1>7
<1>9. ends.next <= Len(s) + 1
      BY <1>4 DEF r
<1>10. endsU # Error /\ endsU.next = p + ends.next
  <2>1. CASE type = 0
    <3>1. ends = Varint(s, wire.next) /\ endsU = Varint(bs, wireU.next)
          BY <1>7, <2>1
    <3>2. Varint(bs, p + wire.next) = [value |-> ends.value, next |-> p + ends.next]
          BY <1>4, <1>5, <3>1, VarintWithin
    <3> HIDE DEF ends, endsU
    <3>   QED BY <1>6, <3>1, <3>2, NoError
  <2>2. CASE type \in {1, 5}
    <3>1. ends = [next |-> wire.next + Fixed(type)] /\ endsU = [next |-> wireU.next + Fixed(type)]
          BY <1>7, <2>2
    <3>2. Fixed(type) \in Nat
          BY DEF Fixed
    <3>3. ends.next = wire.next + Fixed(type) /\ endsU.next = wireU.next + Fixed(type)
          /\ endsU # Error
          BY <3>1, NoError
    <3> HIDE DEF ends, endsU, type
    <3>   QED BY <1>5, <1>6, <3>2, <3>3
  <2>3. CASE type = 2
    <3>1. ends = After(s, wire.next) /\ endsU = After(bs, wireU.next)
          BY <1>7, <2>3
    <3> HIDE DEF ends, endsU
    <3>   QED BY <1>4, <1>5, <1>6, <1>9, <3>1, AfterWithin
  <2>4. CASE type = 3 \/ (type = 4 /\ t.depth > 0)
    <3>1. ends = [next |-> wire.next] /\ endsU = [next |-> wireU.next]
          BY <1>3, <1>7, <2>4
    <3>   QED BY <1>6, <3>1, NoError
  <2>5. ends # Error => \/ type = 0 \/ type \in {1, 5} \/ type = 2
                        \/ type = 3 \/ (type = 4 /\ t.depth > 0)
    <3> HIDE DEF type
    <3> QED OBVIOUS
  <2>   QED BY <1>4, <2>1, <2>2, <2>3, <2>4, <2>5
<1>11. ~(u.next > Len(bs))
      BY <1>3, <1>4
<1> HIDE DEF ends, endsU, open, openU
<1>   QED BY <1>2, <1>4, <1>6, <1>8, <1>10, <1>11 DEF u, r

\* The field, skipped on its own, is skipped wherever it stands.
LEMMA SkipWithin ==
    ASSUME NEW bs \in Bytes, Fits(bs), NEW p \in Nat, NEW s \in Bytes, Stands(bs, p, s),
           s # <<>>, skip(s, 1) = [next |-> Len(s) + 1, depth |-> 0]
    PROVE  skip(bs, p + 1) = [next |-> p + Len(s) + 1, depth |-> 0]
<1> DEFINE m == Len(s)
           Shift(t) == [next |-> p + t.next, depth |-> t.depth]
<1>1. m \in Nat \ {0} /\ Len(bs) \in Nat /\ p + m <= Len(bs)
      BY DEF Bytes, Stands
<1>2. 1 \in 1..m /\ p + 1 \in 1..Len(bs)
      BY <1>1
<1>3. PICK f : /\ Rounds(f, s, 1)
               /\ \E n \in 0..m : f[n] = Error \/ f[n].depth = 0
               /\ \A n \in 0..m : f[n] = Error \/ f[n].depth = 0 => skip(s, 1) = f[n]
      BY <1>2, SkipIs
<1>4. PICK e \in 0..m : f[e] = [next |-> m + 1, depth |-> 0]
  <2>1. PICK e \in 0..m : f[e] = Error \/ f[e].depth = 0
        BY <1>3
  <2>   QED BY <1>3, <2>1
<1>5. PICK g : /\ Rounds(g, bs, p + 1)
               /\ \A n \in 0..Len(bs) : g[n] = Error \/ g[n].depth = 0 => skip(bs, p + 1) = g[n]
  <2> DEFINE i == p + 1
  <2>1. i \in 1..Len(bs)
        BY <1>2
  <2> HIDE DEF i
  <2>2. \E g : /\ Rounds(g, bs, i)
               /\ \A n \in 0..Len(bs) : g[n] = Error \/ g[n].depth = 0 => skip(bs, i) = g[n]
        BY <2>1, SkipIs
  <2>   QED BY <2>2 DEF i
<1> DEFINE Good(n) == f[n] # Error /\ f[n] \in Skipping /\ f[n].next <= m + 1
           D == {k \in 0..e : Good(e - k)}
<1>6. \A n \in 1..m : f[n - 1] \in SkipStates /\ f[n] \in SkipStates
                      /\ f[n] = IF f[n - 1] = Error \/ f[n - 1].depth = 0 THEN f[n - 1]
                                ELSE Skipped(s, f[n - 1])
  <2> SUFFICES ASSUME NEW n \in 1..m
               PROVE  f[n - 1] \in SkipStates /\ f[n] \in SkipStates
                      /\ f[n] = IF f[n - 1] = Error \/ f[n - 1].depth = 0 THEN f[n - 1]
                                ELSE Skipped(s, f[n - 1])
      OBVIOUS
  <2>1. n - 1 \in 0..m /\ n \in 0..m
        BY <1>1
  <2>   QED BY <1>3, <2>1 DEF Rounds
<1>7. 0 \in D
  <2>1. f[e] # Error /\ f[e] \in Skipping /\ f[e].next = m + 1
        BY <1>1, <1>4, NoError DEF Skipping
  <2>2. e - 0 = e
        OBVIOUS
  <2>3. Good(e - 0)
        BY <1>1, <2>1, <2>2
  <2>   QED BY <2>3
<1>8. \A k \in 1..e : k - 1 \in D => k \in D
  <2> SUFFICES ASSUME NEW k \in 1..e, k - 1 \in D
               PROVE  k \in D
      OBVIOUS
  <2> DEFINE n == e - (k - 1)
  <2>1. n \in 1..m /\ n - 1 = e - k /\ Good(n)
        BY <1>1
  <2> HIDE DEF n
  <2>2. /\ f[n - 1] \in SkipStates
        /\ f[n] = IF f[n - 1] = Error \/ f[n - 1].depth = 0 THEN f[n - 1]
                  ELSE Skipped(s, f[n - 1])
        BY <1>6, <2>1
  <2>3. f[n - 1] # Error /\ f[n - 1] \in Skipping
        BY <2>1, <2>2 DEF SkipStates
  <2>4. Good(n - 1)
    <3>1. CASE f[n - 1].depth = 0
          BY <2>1, <2>2, <3>1
    <3>2. CASE f[n - 1].depth # 0
      <4>1. f[n] = Skipped(s, f[n - 1])
            BY <2>2, <2>3, <3>2
      <4>2. f[n - 1].next <= Len(s)
            BY <2>1, <2>3, <4>1, SkippedType
      <4>3. f[n - 1].next <= m + 1
            BY <1>1, <2>3, <4>2 DEF Skipping
      <4>   QED BY <2>3, <4>3
    <3>   QED BY <3>1, <3>2
  <2>   QED BY <2>1, <2>4
<1>9. \A n \in 0..e : Good(n)
  <2>1. \A k \in 0..e : k \in D
    <3> HIDE DEF D
    <3>1. e \in Nat
          OBVIOUS
    <3>   QED BY <1>7, <1>8, <3>1, Upwards
  <2> SUFFICES ASSUME NEW n \in 0..e
               PROVE  Good(n)
      OBVIOUS
  <2> DEFINE k == e - n
  <2>2. k \in 0..e /\ e - k = n
        OBVIOUS
  <2>3. Good(e - k)
        BY <2>1, <2>2
  <2>   QED BY <2>2, <2>3
<1> HIDE DEF D
<1> DEFINE T == {n \in 0..e : g[n] = Shift(f[n])}
<1>10. 0 \in T
  <2> DEFINE t == [next |-> 1, depth |-> 0]
             u == [next |-> p + 1, depth |-> 0]
  <2>1. f[0] = Skipped(s, t) /\ g[0] = Skipped(bs, u)
        BY <1>3, <1>5 DEF Rounds
  <2>2. t \in Skipping /\ u = [next |-> p + t.next, depth |-> t.depth] /\ 0 \in 0..e
        BY DEF Skipping
  <2>3. Good(0)
        BY <1>9, <2>2
  <2> HIDE DEF t, u
  <2>4. g[0] = Shift(f[0])
        BY <2>1, <2>2, <2>3, SkippedWithin
  <2>   QED BY <2>2, <2>4
<1>11. \A n \in 1..e : n - 1 \in T => n \in T
  <2> SUFFICES ASSUME NEW n \in 1..e, n - 1 \in T
               PROVE  n \in T
      OBVIOUS
  <2> DEFINE t == f[n - 1]
             u == g[n - 1]
  <2>1. n \in 0..e /\ n - 1 \in 0..e /\ n \in 1..m /\ n \in 1..Len(bs)
        BY <1>1
  <2>2. t # Error /\ t \in Skipping /\ f[n] # Error /\ f[n].next <= m + 1
        BY <1>9, <2>1
  <2>3. u = Shift(t) /\ u # Error /\ u.depth = t.depth
    <3>1. u = Shift(t)
          OBVIOUS
    <3> HIDE DEF t, u
    <3>   QED BY <3>1, NoError
  <2>4. f[n] = IF t = Error \/ t.depth = 0 THEN t ELSE Skipped(s, t)
        BY <1>6, <2>1
  <2>5. g[n] = IF u = Error \/ u.depth = 0 THEN u ELSE Skipped(bs, u)
        BY <1>5, <2>1 DEF Rounds
  <2> HIDE DEF t, u
  <2>6. g[n] = Shift(f[n])
    <3>1. CASE t.depth = 0
          BY <2>2, <2>3, <2>4, <2>5, <3>1
    <3>2. CASE t.depth # 0
      <4>1. f[n] = Skipped(s, t) /\ g[n] = Skipped(bs, u)
            BY <2>2, <2>3, <2>4, <2>5, <3>2
      <4>   QED BY <2>2, <2>3, <4>1, SkippedWithin
    <3>   QED BY <3>1, <3>2
  <2>   QED BY <2>1, <2>6
<1>12. e \in T
  <2> HIDE DEF T
  <2>1. e \in Nat /\ e \in 0..e
        OBVIOUS
  <2>   QED BY <1>10, <1>11, <2>1, Upwards
<1>13. g[e] = [next |-> p + (m + 1), depth |-> 0]
      BY <1>4, <1>12
<1>14. e \in 0..Len(bs) /\ p + (m + 1) = p + m + 1
      BY <1>1
<1>15. skip(bs, p + 1) = g[e]
      BY <1>5, <1>13, <1>14
<1>   QED BY <1>13, <1>14, <1>15

\* It leaves the message as it is.
LEMMA StrangerRead ==
    ASSUME NEW rows, NEW bs \in Bytes, Fits(bs), NEW f, FieldRounds(f, rows, bs),
           NEW field, Stranger(field, rows), NEW p \in Nat, Stands(bs, p, field),
           NEW m, Reached(f, p, m)
    PROVE  Reached(f, p + Len(field), m)
<1> DEFINE s == [at |-> p + 1, msg |-> m]
           wire == Varint(bs, s.at)
           known == {row \in rows : row[1] = FieldNumber(wire)}
           row == CHOOSE r_ \in known : TRUE
           ends == IF known = {} THEN skip(bs, s.at)
                   ELSE CASE row[2] # wire.value % 8 -> Error
                          [] row[2] = wire.value % 8 /\ row[2] = 0 -> Varint(bs, wire.next)
                          [] row[2] = wire.value % 8 /\ row[2] = 2 -> After(bs, wire.next)
           gets == IF row[2] = 0 THEN ends.value ELSE SubSeq(bs, ends.value, ends.next - 1)
           own == Varint(field, 1)
           q == p + Len(field)
<1>1. Field(rows, bs, s) =
          IF wire = Error \/ ~Legal(wire) THEN Error
          ELSE IF ends = Error \/ ends.next > Len(bs) + 1 THEN Error
          ELSE [at |-> ends.next,
                msg |-> IF known = {} THEN s.msg
                        ELSE [s.msg EXCEPT ![row[3]] = Merged(row[4], @, gets)]]
      BY Zenon DEF Field, TakenIn, End
<1>2. /\ field \in Bytes /\ field # <<>>
      /\ skip(field, 1) = [next |-> Len(field) + 1, depth |-> 0]
      /\ own # Error /\ Legal(own) /\ \A r \in rows : r[1] # FieldNumber(own)
      BY DEF Stranger
<1>3. Len(field) \in Nat \ {0} /\ Len(bs) \in Nat /\ q <= Len(bs) /\ p < q /\ q \in Nat
      BY <1>2 DEF Bytes, Stands
<1>4. s.at = p + 1 /\ s.msg = m
      OBVIOUS
<1>5. wire # Error /\ wire.value = own.value
  <2>1. wire = [value |-> own.value, next |-> p + own.next]
    <3>1. 1 \in Nat \ {0}
          OBVIOUS
    <3>2. Varint(bs, p + 1) = [value |-> own.value, next |-> p + own.next]
      <4> HIDE DEF wire
      <4> QED BY <1>2, <3>1, VarintWithin
    <3>   QED BY <1>4, <3>2
  <2> HIDE DEF wire, own
  <2>   QED BY <2>1, NoError
<1>6. FieldNumber(wire) = FieldNumber(own) /\ Legal(wire)
  <2> HIDE DEF wire, own
  <2> QED BY <1>2, <1>5 DEF FieldNumber, Legal
<1> HIDE DEF wire, own, s
<1>7. known = {}
      BY <1>2, <1>6
<1> HIDE DEF known
<1>8. ends = skip(bs, p + 1)
      BY <1>4, <1>7
<1>9. skip(bs, p + 1) = [next |-> q + 1, depth |-> 0]
      BY <1>2, SkipWithin
<1> HIDE DEF ends, gets, row, q
<1>10. ends # Error /\ ends.next = q + 1 /\ ~(ends.next > Len(bs) + 1)
  <2>1. ends # Error /\ ends.next = q + 1
        BY <1>8, <1>9, NoError
  <2>   QED BY <1>3, <2>1
<1>11. Field(rows, bs, s) = [at |-> q + 1, msg |-> m]
      BY <1>1, <1>4, <1>5, <1>6, <1>7, <1>10
<1>12. Reached(f, q, m)
      BY <1>3, <1>11, OneField DEF s
<1>   QED BY <1>12 DEF q

\* A message between two such fields is read as the message.
LEMMA AmongStrangers ==
    ASSUME NEW marshal, Writer(marshal), NEW rows, Reader(marshal, rows),
           NEW message, Writes(marshal, message), NEW field, Stranger(field, rows),
           Fits(field \o MarshalToSizedBuffer(marshal, message) \o field)
    PROVE  Unmarshal(rows, field \o MarshalToSizedBuffer(marshal, message) \o field) =
               [g \in Names(rows) |-> message[g]]
<1> DEFINE es == MarshalToSizedBuffer(marshal, message)
           fe == field \o es
           bs == fe \o field
           m == [g \in Names(rows) |-> message[g]]
<1>1. es \in Bytes /\ field \in Bytes /\ Table(rows)
  <2>1. Pieces(marshal, message) \in Seq(Bytes) /\ es = FlattenSeq(Pieces(marshal, message))
        BY BufferIs
  <2>   QED BY <2>1, Flattened DEF Reader, Stranger
<1>2. /\ fe \in Bytes /\ bs \in Bytes
      /\ Len(bs) = Len(fe) + Len(field) /\ Len(fe) = Len(field) + Len(es)
      /\ Len(field) \in Nat /\ Len(es) \in Nat
  <2> HIDE DEF es
  <2>1. fe \in Bytes /\ Len(fe) = Len(field) + Len(es)
        BY <1>1, Joined DEF Bytes
  <2> HIDE DEF fe
  <2>2. bs \in Bytes /\ Len(bs) = Len(fe) + Len(field)
        BY <1>1, <2>1, Joined DEF Bytes
  <2>3. Len(field) \in Nat /\ Len(es) \in Nat
        BY <1>1 DEF Bytes
  <2>   QED BY <2>1, <2>2, <2>3
<1>3. Stands(bs, 0, fe) /\ Stands(bs, 0 + Len(fe), field)
  <2> HIDE DEF fe
  <2>1. Stands(bs, 0, fe \o field)
        BY <1>2, StandsAlone
  <2>   QED BY <1>1, <1>2, <2>1, StandsJoin
<1>4. Stands(bs, 0, field) /\ Stands(bs, 0 + Len(field), es)
  <2> HIDE DEF es, bs
  <2>1. Stands(bs, 0, field \o es)
        BY <1>3
  <2>   QED BY <1>1, <1>2, <2>1, StandsJoin
<1>5. Fits(bs)
      OBVIOUS
<1> HIDE DEF bs, fe
<1>6. PICK f : /\ FieldRounds(f, rows, bs)
               /\ \A n \in 0..Len(bs) :
                     (f[n] \in Reads(rows) /\ f[n].at > Len(bs)) => Unmarshal(rows, bs) = f[n].msg
      BY <1>1, <1>2, UnmarshalIs
<1>7. Reached(f, 0, Zero(rows))
  <2>1. f[0] = [at |-> 0 + 1, msg |-> Zero(rows)]
        BY <1>6 DEF FieldRounds
  <2>2. 0 \in 0..0
        OBVIOUS
  <2>   QED BY <2>1, <2>2 DEF Reached
<1>8. Reached(f, 0 + Len(field), Zero(rows))
      BY <1>2, <1>4, <1>5, <1>6, <1>7, StrangerRead
<1> DEFINE p == 0 + Len(field)
<1>9. p \in Nat /\ Stands(bs, p, es) /\ Reached(f, p, Zero(rows))
      BY <1>2, <1>4, <1>8
<1>15. p + Len(es) = 0 + Len(fe)
      BY <1>2
<1> HIDE DEF p
<1>10. Reached(f, p + Len(es), m)
      BY <1>2, <1>5, <1>6, <1>9, BufferRead
<1> HIDE DEF es, m
<1> DEFINE q == 0 + Len(fe)
<1>11. q \in Nat /\ Stands(bs, q, field) /\ Reached(f, q, m)
      BY <1>2, <1>3, <1>15, <1>10
<1>12. q + Len(field) = Len(bs)
      BY <1>2
<1> HIDE DEF q
<1>13. Reached(f, q + Len(field), m)
      BY <1>2, <1>5, <1>6, <1>11, StrangerRead
<1>14. Unmarshal(rows, bs) = m
      BY <1>2, <1>6, <1>12, <1>13, ReadThrough
<1>   QED BY <1>14 DEF bs, fe, es, m

----------------------------------------------------------------------------
(* The tables of the messages.                                             *)

\* The three methods of a message agree.
Agrees(marshal, size, rows) ==
    /\ Writer(marshal) /\ Reader(marshal, rows) /\ Sizes(marshal, size)
    /\ \A k \in 1..Len(marshal) : \E r \in rows : r[3] = marshal[k][2]

\* Of DecProto.
LEMMA DecProtoAgrees ==
    Agrees(DecProto_MarshalToSizedBuffer,
           DecProto_Size,
           DecProto_Unmarshal)
<1> DEFINE m == DecProto_MarshalToSizedBuffer
           s == DecProto_Size
           u == DecProto_Unmarshal
<1>1. /\ Len(m) = 1 /\ DOMAIN m = 1..1
      /\ m[1] = <<10, "Dec", Value>>
      BY DEF DecProto_MarshalToSizedBuffer
<1>2. u = { <<1, 2, "Dec", Value>> }
      BY DEF DecProto_Unmarshal
<1>3. s = { <<"Dec", Value>> }
      BY DEF DecProto_Size, Sized
<1> HIDE DEF m, s, u
<1>4. Writer(m)
      BY <1>1 DEF Writer, Tags, Kinds, WireType, Text, Texts, Pointer, Value, Nested, Number, Flag
<1>5. Reader(m, u)
      BY <1>1, <1>2 DEF Reader, Table, Kinds, WireType, Text, Texts, Pointer, Value, Nested, Number, Flag
<1>6. Sizes(m, s)
      BY <1>1, <1>3 DEF Sizes
<1>7. \A k \in 1..Len(m) : \E r \in u : r[3] = m[k][2]
      BY <1>1, <1>2
<1>   QED BY <1>4, <1>5, <1>6, <1>7 DEF Agrees, m, s, u

\* Of FulfillOrderAuthorization.
LEMMA FulfillOrderAuthorizationAgrees ==
    Agrees(FulfillOrderAuthorization_MarshalToSizedBuffer,
           FulfillOrderAuthorization_Size,
           FulfillOrderAuthorization_Unmarshal)
<1> DEFINE m == FulfillOrderAuthorization_MarshalToSizedBuffer
           s == FulfillOrderAuthorization_Size
           u == FulfillOrderAuthorization_Unmarshal
<1>1. /\ Len(m) = 1 /\ DOMAIN m = 1..1
      /\ m[1] = <<10, "Rollapps", Texts>>
      BY DEF FulfillOrderAuthorization_MarshalToSizedBuffer
<1>2. u = { <<1, 2, "Rollapps", Texts>> }
      BY DEF FulfillOrderAuthorization_Unmarshal
<1>3. s = { <<"Rollapps", Texts>> }
      BY DEF FulfillOrderAuthorization_Size, Sized
<1> HIDE DEF m, s, u
<1>4. Writer(m)
      BY <1>1 DEF Writer, Tags, Kinds, WireType, Text, Texts, Pointer, Value, Nested, Number, Flag
<1>5. Reader(m, u)
      BY <1>1, <1>2 DEF Reader, Table, Kinds, WireType, Text, Texts, Pointer, Value, Nested, Number, Flag
<1>6. Sizes(m, s)
      BY <1>1, <1>3 DEF Sizes
<1>7. \A k \in 1..Len(m) : \E r \in u : r[3] = m[k][2]
      BY <1>1, <1>2
<1>   QED BY <1>4, <1>5, <1>6, <1>7 DEF Agrees, m, s, u

\* Of RollappCriteria.
LEMMA RollappCriteriaAgrees ==
    Agrees(RollappCriteria_MarshalToSizedBuffer,
           RollappCriteria_Size,
           RollappCriteria_Unmarshal)
<1> DEFINE m == RollappCriteria_MarshalToSizedBuffer
           s == RollappCriteria_Size
           u == RollappCriteria_Unmarshal
<1>1. /\ Len(m) = 7 /\ DOMAIN m = 1..7
      /\ m[1] = <<58, "SpendLimit", Texts>>
      /\ m[2] = <<48, "SettlementValidated", Flag>>
      /\ m[3] = <<42, "OperatorFeeShare", Nested>>
      /\ m[4] = <<34, "MinFeePercentage", Nested>>
      /\ m[5] = <<26, "MaxPrice", Texts>>
      /\ m[6] = <<18, "Denoms", Texts>>
      /\ m[7] = <<10, "RollappId", Text>>
      BY DEF RollappCriteria_MarshalToSizedBuffer
<1>2. u = { <<1, 2, "RollappId", Text>>, <<2, 2, "Denoms", Texts>>,
            <<3, 2, "MaxPrice", Texts>>, <<4, 2, "MinFeePercentage", Nested>>,
            <<5, 2, "OperatorFeeShare", Nested>>, <<6, 0, "SettlementValidated", Flag>>,
            <<7, 2, "SpendLimit", Texts>> }
      BY DEF RollappCriteria_Unmarshal
<1>3. s = { <<"SpendLimit", Texts>>, <<"SettlementValidated", Flag>>,
            <<"OperatorFeeShare", Nested>>, <<"MinFeePercentage", Nested>>,
            <<"MaxPrice", Texts>>, <<"Denoms", Texts>>, <<"RollappId", Text>> }
      BY DEF RollappCriteria_Size, Sized
<1> HIDE DEF m, s, u
<1>4. Writer(m)
      BY <1>1 DEF Writer, Tags, Kinds, WireType, Text, Texts, Pointer, Value, Nested, Number, Flag
<1>5. Reader(m, u)
      BY <1>1, <1>2 DEF Reader, Table, Kinds, WireType, Text, Texts, Pointer, Value, Nested, Number, Flag
<1>6. Sizes(m, s)
      BY <1>1, <1>3 DEF Sizes
<1>7. \A k \in 1..Len(m) : \E r \in u : r[3] = m[k][2]
      BY <1>1, <1>2
<1>   QED BY <1>4, <1>5, <1>6, <1>7 DEF Agrees, m, s, u

\* Of MsgFulfillOrder.
LEMMA MsgFulfillOrderAgrees ==
    Agrees(MsgFulfillOrder_MarshalToSizedBuffer,
           MsgFulfillOrder_Size,
           MsgFulfillOrder_Unmarshal)
<1> DEFINE m == MsgFulfillOrder_MarshalToSizedBuffer
           s == MsgFulfillOrder_Size
           u == MsgFulfillOrder_Unmarshal
<1>1. /\ Len(m) = 3 /\ DOMAIN m = 1..3
      /\ m[1] = <<26, "ExpectedFee", Text>>
      /\ m[2] = <<18, "OrderId", Text>>
      /\ m[3] = <<10, "FulfillerAddress", Text>>
      BY DEF MsgFulfillOrder_MarshalToSizedBuffer
<1>2. u = { <<1, 2, "FulfillerAddress", Text>>, <<2, 2, "OrderId", Text>>,
            <<3, 2, "ExpectedFee", Text>> }
      BY DEF MsgFulfillOrder_Unmarshal
<1>3. s = { <<"ExpectedFee", Text>>, <<"OrderId", Text>>, <<"FulfillerAddress", Text>> }
      BY DEF MsgFulfillOrder_Size, Sized
<1> HIDE DEF m, s, u
<1>4. Writer(m)
      BY <1>1 DEF Writer, Tags, Kinds, WireType, Text, Texts, Pointer, Value, Nested, Number, Flag
<1>5. Reader(m, u)
      BY <1>1, <1>2 DEF Reader, Table, Kinds, WireType, Text, Texts, Pointer, Value, Nested, Number, Flag
<1>6. Sizes(m, s)
      BY <1>1, <1>3 DEF Sizes
<1>7. \A k \in 1..Len(m) : \E r \in u : r[3] = m[k][2]
      BY <1>1, <1>2
<1>   QED BY <1>4, <1>5, <1>6, <1>7 DEF Agrees, m, s, u

\* Of MsgFulfillOrderAuthorized.
LEMMA MsgFulfillOrderAuthorizedAgrees ==
    Agrees(MsgFulfillOrderAuthorized_MarshalToSizedBuffer,
           MsgFulfillOrderAuthorized_Size,
           MsgFulfillOrderAuthorized_Unmarshal)
<1> DEFINE m == MsgFulfillOrderAuthorized_MarshalToSizedBuffer
           s == MsgFulfillOrderAuthorized_Size
           u == MsgFulfillOrderAuthorized_Unmarshal
<1>1. /\ Len(m) = 9 /\ DOMAIN m = 1..9
      /\ m[1] = <<72, "SettlementValidated", Flag>>
      /\ m[2] = <<66, "OperatorFeeShare", Value>>
      /\ m[3] = <<58, "ExpectedFee", Text>>
      /\ m[4] = <<50, "OperatorFeeAddress", Text>>
      /\ m[5] = <<42, "LpAddress", Text>>
      /\ m[6] = <<34, "Amount", Value>>
      /\ m[7] = <<26, "Price", Texts>>
      /\ m[8] = <<18, "RollappId", Text>>
      /\ m[9] = <<10, "OrderId", Text>>
      BY DEF MsgFulfillOrderAuthorized_MarshalToSizedBuffer
<1>2. u = { <<1, 2, "OrderId", Text>>, <<2, 2, "RollappId", Text>>, <<3, 2, "Price", Texts>>,
            <<4, 2, "Amount", Value>>, <<5, 2, "LpAddress", Text>>,
            <<6, 2, "OperatorFeeAddress", Text>>, <<7, 2, "ExpectedFee", Text>>,
            <<8, 2, "OperatorFeeShare", Value>>, <<9, 0, "SettlementValidated", Flag>> }
      BY DEF MsgFulfillOrderAuthorized_Unmarshal
<1>3. s = { <<"SettlementValidated", Flag>>, <<"OperatorFeeShare", Value>>,
            <<"ExpectedFee", Text>>, <<"OperatorFeeAddress", Text>>, <<"LpAddress", Text>>,
            <<"Amount", Value>>, <<"Price", Texts>>, <<"RollappId", Text>>, <<"OrderId", Text>> }
      BY DEF MsgFulfillOrderAuthorized_Size, Sized
<1> HIDE DEF m, s, u
<1>4. Writer(m)
      BY <1>1 DEF Writer, Tags, Kinds, WireType, Text, Texts, Pointer, Value, Nested, Number, Flag
<1>5. Reader(m, u)
      BY <1>1, <1>2 DEF Reader, Table, Kinds, WireType, Text, Texts, Pointer, Value, Nested, Number, Flag
<1>6. Sizes(m, s)
      BY <1>1, <1>3 DEF Sizes
<1>7. \A k \in 1..Len(m) : \E r \in u : r[3] = m[k][2]
      BY <1>1, <1>2
<1>   QED BY <1>4, <1>5, <1>6, <1>7 DEF Agrees, m, s, u

\* Of MsgUpdateDemandOrder.
LEMMA MsgUpdateDemandOrderAgrees ==
    Agrees(MsgUpdateDemandOrder_MarshalToSizedBuffer,
           MsgUpdateDemandOrder_Size,
           MsgUpdateDemandOrder_Unmarshal)
<1> DEFINE m == MsgUpdateDemandOrder_MarshalToSizedBuffer
           s == MsgUpdateDemandOrder_Size
           u == MsgUpdateDemandOrder_Unmarshal
<1>1. /\ Len(m) = 3 /\ DOMAIN m = 1..3
      /\ m[1] = <<26, "NewFee", Text>>
      /\ m[2] = <<18, "OrderId", Text>>
      /\ m[3] = <<10, "OwnerAddress", Text>>
      BY DEF MsgUpdateDemandOrder_MarshalToSizedBuffer
<1>2. u = { <<1, 2, "OwnerAddress", Text>>, <<2, 2, "OrderId", Text>>, <<3, 2, "NewFee", Text>> }
      BY DEF MsgUpdateDemandOrder_Unmarshal
<1>3. s = { <<"NewFee", Text>>, <<"OrderId", Text>>, <<"OwnerAddress", Text>> }
      BY DEF MsgUpdateDemandOrder_Size, Sized
<1> HIDE DEF m, s, u
<1>4. Writer(m)
      BY <1>1 DEF Writer, Tags, Kinds, WireType, Text, Texts, Pointer, Value, Nested, Number, Flag
<1>5. Reader(m, u)
      BY <1>1, <1>2 DEF Reader, Table, Kinds, WireType, Text, Texts, Pointer, Value, Nested, Number, Flag
<1>6. Sizes(m, s)
      BY <1>1, <1>3 DEF Sizes
<1>7. \A k \in 1..Len(m) : \E r \in u : r[3] = m[k][2]
      BY <1>1, <1>2
<1>   QED BY <1>4, <1>5, <1>6, <1>7 DEF Agrees, m, s, u

\* Of MsgSubmitProposal.
LEMMA MsgSubmitProposalAgrees ==
    Agrees(MsgSubmitProposal_MarshalToSizedBuffer,
           MsgSubmitProposal_Size,
           MsgSubmitProposal_Unmarshal)
<1> DEFINE m == MsgSubmitProposal_MarshalToSizedBuffer
           s == MsgSubmitProposal_Size
           u == MsgSubmitProposal_Unmarshal
<1>1. /\ Len(m) = 7 /\ DOMAIN m = 1..7
      /\ m[1] = <<58, "Summary", Text>>
      /\ m[2] = <<50, "Title", Text>>
      /\ m[3] = <<40, "Exec", Number>>
      /\ m[4] = <<34, "Messages", Texts>>
      /\ m[5] = <<26, "Metadata", Text>>
      /\ m[6] = <<18, "Proposers", Texts>>
      /\ m[7] = <<10, "GroupPolicyAddress", Text>>
      BY DEF MsgSubmitProposal_MarshalToSizedBuffer
<1>2. u = { <<1, 2, "GroupPolicyAddress", Text>>, <<2, 2, "Proposers", Texts>>,
            <<3, 2, "Metadata", Text>>, <<4, 2, "Messages", Texts>>, <<5, 0, "Exec", Number>>,
            <<6, 2, "Title", Text>>, <<7, 2, "Summary", Text>> }
      BY DEF MsgSubmitProposal_Unmarshal
<1>3. s = { <<"Summary", Text>>, <<"Title", Text>>, <<"Exec", Number>>, <<"Messages", Texts>>,
            <<"Metadata", Text>>, <<"Proposers", Texts>>, <<"GroupPolicyAddress", Text>> }
      BY DEF MsgSubmitProposal_Size, Sized
<1> HIDE DEF m, s, u
<1>4. Writer(m)
      BY <1>1 DEF Writer, Tags, Kinds, WireType, Text, Texts, Pointer, Value, Nested, Number, Flag
<1>5. Reader(m, u)
      BY <1>1, <1>2 DEF Reader, Table, Kinds, WireType, Text, Texts, Pointer, Value, Nested, Number, Flag
<1>6. Sizes(m, s)
      BY <1>1, <1>3 DEF Sizes
<1>7. \A k \in 1..Len(m) : \E r \in u : r[3] = m[k][2]
      BY <1>1, <1>2
<1>   QED BY <1>4, <1>5, <1>6, <1>7 DEF Agrees, m, s, u

\* Of MsgSubmitProposalResponse.
LEMMA MsgSubmitProposalResponseAgrees ==
    Agrees(MsgSubmitProposalResponse_MarshalToSizedBuffer,
           MsgSubmitProposalResponse_Size,
           MsgSubmitProposalResponse_Unmarshal)
<1> DEFINE m == MsgSubmitProposalResponse_MarshalToSizedBuffer
           s == MsgSubmitProposalResponse_Size
           u == MsgSubmitProposalResponse_Unmarshal
<1>1. /\ Len(m) = 1 /\ DOMAIN m = 1..1
      /\ m[1] = <<8, "ProposalId", Number>>
      BY DEF MsgSubmitProposalResponse_MarshalToSizedBuffer
<1>2. u = { <<1, 0, "ProposalId", Number>> }
      BY DEF MsgSubmitProposalResponse_Unmarshal
<1>3. s = { <<"ProposalId", Number>> }
      BY DEF MsgSubmitProposalResponse_Size, Sized
<1> HIDE DEF m, s, u
<1>4. Writer(m)
      BY <1>1 DEF Writer, Tags, Kinds, WireType, Text, Texts, Pointer, Value, Nested, Number, Flag
<1>5. Reader(m, u)
      BY <1>1, <1>2 DEF Reader, Table, Kinds, WireType, Text, Texts, Pointer, Value, Nested, Number, Flag
<1>6. Sizes(m, s)
      BY <1>1, <1>3 DEF Sizes
<1>7. \A k \in 1..Len(m) : \E r \in u : r[3] = m[k][2]
      BY <1>1, <1>2
<1>   QED BY <1>4, <1>5, <1>6, <1>7 DEF Agrees, m, s, u

\* Of DemandOrder.
LEMMA DemandOrderAgrees ==
    Agrees(DemandOrder_MarshalToSizedBuffer,
           DemandOrder_Size,
           DemandOrder_Unmarshal)
<1> DEFINE m == DemandOrder_MarshalToSizedBuffer
           s == DemandOrder_Size
           u == DemandOrder_Unmarshal
<1>1. /\ Len(m) = 11 /\ DOMAIN m = 1..11
      /\ m[1] = <<96, "CreationHeight", Number>>
      /\ m[2] = <<90, "FulfillerAddress", Text>>
      /\ m[3] = <<80, "Type", Number>>
      /\ m[4] = <<74, "RollappId", Text>>
      /\ m[5] = <<64, "TrackingPacketStatus", Number>>
      /\ m[6] = <<48, "DeprecatedIsFulfilled", Flag>>
      /\ m[7] = <<42, "Recipient", Text>>
      /\ m[8] = <<34, "Fee", Texts>>
      /\ m[9] = <<26, "Price", Texts>>
      /\ m[10] = <<18, "TrackingPacketKey", Text>>
      /\ m[11] = <<10, "Id", Text>>
      BY DEF DemandOrder_MarshalToSizedBuffer
<1>2. u = { <<1, 2, "Id", Text>>, <<2, 2, "TrackingPacketKey", Text>>,
            <<3, 2, "Price", Texts>>, <<4, 2, "Fee", Texts>>, <<5, 2, "Recipient", Text>>,
            <<6, 0, "DeprecatedIsFulfilled", Flag>>, <<8, 0, "TrackingPacketStatus", Number>>,
            <<9, 2, "RollappId", Text>>, <<10, 0, "Type", Number>>,
            <<11, 2, "FulfillerAddress", Text>>, <<12, 0, "CreationHeight", Number>> }
      BY DEF DemandOrder_Unmarshal
<1>3. s = { <<"CreationHeight", Number>>, <<"FulfillerAddress", Text>>, <<"Type", Number>>,
            <<"RollappId", Text>>, <<"TrackingPacketStatus", Number>>,
            <<"DeprecatedIsFulfilled", Flag>>, <<"Recipient", Text>>, <<"Fee", Texts>>,
            <<"Price", Texts>>, <<"TrackingPacketKey", Text>>, <<"Id", Text>> }
      BY DEF DemandOrder_Size, Sized
<1> HIDE DEF m, s, u
<1>4. Writer(m)
      BY <1>1 DEF Writer, Tags, Kinds, WireType, Text, Texts, Pointer, Value, Nested, Number, Flag
<1>5. Reader(m, u)
      BY <1>1, <1>2 DEF Reader, Table, Kinds, WireType, Text, Texts, Pointer, Value, Nested, Number, Flag
<1>6. Sizes(m, s)
      BY <1>1, <1>3 DEF Sizes
<1>7. \A k \in 1..Len(m) : \E r \in u : r[3] = m[k][2]
      BY <1>1, <1>2
<1>   QED BY <1>4, <1>5, <1>6, <1>7 DEF Agrees, m, s, u

\* Of QueryGetDemandOrderRequest.
LEMMA QueryGetDemandOrderRequestAgrees ==
    Agrees(QueryGetDemandOrderRequest_MarshalToSizedBuffer,
           QueryGetDemandOrderRequest_Size,
           QueryGetDemandOrderRequest_Unmarshal)
<1> DEFINE m == QueryGetDemandOrderRequest_MarshalToSizedBuffer
           s == QueryGetDemandOrderRequest_Size
           u == QueryGetDemandOrderRequest_Unmarshal
<1>1. /\ Len(m) = 1 /\ DOMAIN m = 1..1
      /\ m[1] = <<10, "Id", Text>>
      BY DEF QueryGetDemandOrderRequest_MarshalToSizedBuffer
<1>2. u = { <<1, 2, "Id", Text>> }
      BY DEF QueryGetDemandOrderRequest_Unmarshal
<1>3. s = { <<"Id", Text>> }
      BY DEF QueryGetDemandOrderRequest_Size, Sized
<1> HIDE DEF m, s, u
<1>4. Writer(m)
      BY <1>1 DEF Writer, Tags, Kinds, WireType, Text, Texts, Pointer, Value, Nested, Number, Flag
<1>5. Reader(m, u)
      BY <1>1, <1>2 DEF Reader, Table, Kinds, WireType, Text, Texts, Pointer, Value, Nested, Number, Flag
<1>6. Sizes(m, s)
      BY <1>1, <1>3 DEF Sizes
<1>7. \A k \in 1..Len(m) : \E r \in u : r[3] = m[k][2]
      BY <1>1, <1>2
<1>   QED BY <1>4, <1>5, <1>6, <1>7 DEF Agrees, m, s, u

\* Of QueryGetDemandOrderResponse.
LEMMA QueryGetDemandOrderResponseAgrees ==
    Agrees(QueryGetDemandOrderResponse_MarshalToSizedBuffer,
           QueryGetDemandOrderResponse_Size,
           QueryGetDemandOrderResponse_Unmarshal)
<1> DEFINE m == QueryGetDemandOrderResponse_MarshalToSizedBuffer
           s == QueryGetDemandOrderResponse_Size
           u == QueryGetDemandOrderResponse_Unmarshal
<1>1. /\ Len(m) = 1 /\ DOMAIN m = 1..1
      /\ m[1] = <<10, "DemandOrder", Pointer>>
      BY DEF QueryGetDemandOrderResponse_MarshalToSizedBuffer
<1>2. u = { <<1, 2, "DemandOrder", Pointer>> }
      BY DEF QueryGetDemandOrderResponse_Unmarshal
<1>3. s = { <<"DemandOrder", Pointer>> }
      BY DEF QueryGetDemandOrderResponse_Size, Sized
<1> HIDE DEF m, s, u
<1>4. Writer(m)
      BY <1>1 DEF Writer, Tags, Kinds, WireType, Text, Texts, Pointer, Value, Nested, Number, Flag
<1>5. Reader(m, u)
      BY <1>1, <1>2 DEF Reader, Table, Kinds, WireType, Text, Texts, Pointer, Value, Nested, Number, Flag
<1>6. Sizes(m, s)
      BY <1>1, <1>3 DEF Sizes
<1>7. \A k \in 1..Len(m) : \E r \in u : r[3] = m[k][2]
      BY <1>1, <1>2
<1>   QED BY <1>4, <1>5, <1>6, <1>7 DEF Agrees, m, s, u

\* Of QueryDemandOrdersByStatusRequest.
LEMMA QueryDemandOrdersByStatusRequestAgrees ==
    Agrees(QueryDemandOrdersByStatusRequest_MarshalToSizedBuffer,
           QueryDemandOrdersByStatusRequest_Size,
           QueryDemandOrdersByStatusRequest_Unmarshal)
<1> DEFINE m == QueryDemandOrdersByStatusRequest_MarshalToSizedBuffer
           s == QueryDemandOrdersByStatusRequest_Size
           u == QueryDemandOrdersByStatusRequest_Unmarshal
<1>1. /\ Len(m) = 9 /\ DOMAIN m = 1..9
      /\ m[1] = <<74, "Pagination", Pointer>>
      /\ m[2] = <<66, "Recipient", Text>>
      /\ m[3] = <<58, "Denom", Text>>
      /\ m[4] = <<50, "Fulfiller", Text>>
      /\ m[5] = <<40, "FulfillmentState", Number>>
      /\ m[6] = <<32, "Limit", Number>>
      /\ m[7] = <<26, "RollappId", Text>>
      /\ m[8] = <<16, "Type", Number>>
      /\ m[9] = <<8, "Status", Number>>
      BY DEF QueryDemandOrdersByStatusRequest_MarshalToSizedBuffer
<1>2. u = { <<1, 0, "Status", Number>>, <<2, 0, "Type", Number>>, <<3, 2, "RollappId", Text>>,
            <<4, 0, "Limit", Number>>, <<5, 0, "FulfillmentState", Number>>,
            <<6, 2, "Fulfiller", Text>>, <<7, 2, "Denom", Text>>, <<8, 2, "Recipient", Text>>,
            <<9, 2, "Pagination", Pointer>> }
      BY DEF QueryDemandOrdersByStatusRequest_Unmarshal
<1>3. s = { <<"Pagination", Pointer>>, <<"Recipient", Text>>, <<"Denom", Text>>,
            <<"Fulfiller", Text>>, <<"FulfillmentState", Number>>, <<"Limit", Number>>,
            <<"RollappId", Text>>, <<"Type", Number>>, <<"Status", Number>> }
      BY DEF QueryDemandOrdersByStatusRequest_Size, Sized
<1> HIDE DEF m, s, u
<1>4. Writer(m)
      BY <1>1 DEF Writer, Tags, Kinds, WireType, Text, Texts, Pointer, Value, Nested, Number, Flag
<1>5. Reader(m, u)
      BY <1>1, <1>2 DEF Reader, Table, Kinds, WireType, Text, Texts, Pointer, Value, Nested, Number, Flag
<1>6. Sizes(m, s)
      BY <1>1, <1>3 DEF Sizes
<1>7. \A k \in 1..Len(m) : \E r \in u : r[3] = m[k][2]
      BY <1>1, <1>2
<1>   QED BY <1>4, <1>5, <1>6, <1>7 DEF Agrees, m, s, u

\* Of QueryDemandOrdersByStatusResponse.
LEMMA QueryDemandOrdersByStatusResponseAgrees ==
    Agrees(QueryDemandOrdersByStatusResponse_MarshalToSizedBuffer,
           QueryDemandOrdersByStatusResponse_Size,
           QueryDemandOrdersByStatusResponse_Unmarshal)
<1> DEFINE m == QueryDemandOrdersByStatusResponse_MarshalToSizedBuffer
           s == QueryDemandOrdersByStatusResponse_Size
           u == QueryDemandOrdersByStatusResponse_Unmarshal
<1>1. /\ Len(m) = 2 /\ DOMAIN m = 1..2
      /\ m[1] = <<18, "Pagination", Pointer>>
      /\ m[2] = <<10, "DemandOrders", Texts>>
      BY DEF QueryDemandOrdersByStatusResponse_MarshalToSizedBuffer
<1>2. u = { <<1, 2, "DemandOrders", Texts>>, <<2, 2, "Pagination", Pointer>> }
      BY DEF QueryDemandOrdersByStatusResponse_Unmarshal
<1>3. s = { <<"Pagination", Pointer>>, <<"DemandOrders", Texts>> }
      BY DEF QueryDemandOrdersByStatusResponse_Size, Sized
<1> HIDE DEF m, s, u
<1>4. Writer(m)
      BY <1>1 DEF Writer, Tags, Kinds, WireType, Text, Texts, Pointer, Value, Nested, Number, Flag
<1>5. Reader(m, u)
      BY <1>1, <1>2 DEF Reader, Table, Kinds, WireType, Text, Texts, Pointer, Value, Nested, Number, Flag
<1>6. Sizes(m, s)
      BY <1>1, <1>3 DEF Sizes
<1>7. \A k \in 1..Len(m) : \E r \in u : r[3] = m[k][2]
      BY <1>1, <1>2
<1>   QED BY <1>4, <1>5, <1>6, <1>7 DEF Agrees, m, s, u

\* Of QueryGetLatestHeightRequest.
LEMMA QueryGetLatestHeightRequestAgrees ==
    Agrees(QueryGetLatestHeightRequest_MarshalToSizedBuffer,
           QueryGetLatestHeightRequest_Size,
           QueryGetLatestHeightRequest_Unmarshal)
<1> DEFINE m == QueryGetLatestHeightRequest_MarshalToSizedBuffer
           s == QueryGetLatestHeightRequest_Size
           u == QueryGetLatestHeightRequest_Unmarshal
<1>1. /\ Len(m) = 2 /\ DOMAIN m = 1..2
      /\ m[1] = <<16, "Finalized", Flag>>
      /\ m[2] = <<10, "RollappId", Text>>
      BY DEF QueryGetLatestHeightRequest_MarshalToSizedBuffer
<1>2. u = { <<1, 2, "RollappId", Text>>, <<2, 0, "Finalized", Flag>> }
      BY DEF QueryGetLatestHeightRequest_Unmarshal
<1>3. s = { <<"Finalized", Flag>>, <<"RollappId", Text>> }
      BY DEF QueryGetLatestHeightRequest_Size, Sized
<1> HIDE DEF m, s, u
<1>4. Writer(m)
      BY <1>1 DEF Writer, Tags, Kinds, WireType, Text, Texts, Pointer, Value, Nested, Number, Flag
<1>5. Reader(m, u)
      BY <1>1, <1>2 DEF Reader, Table, Kinds, WireType, Text, Texts, Pointer, Value, Nested, Number, Flag
<1>6. Sizes(m, s)
      BY <1>1, <1>3 DEF Sizes
<1>7. \A k \in 1..Len(m) : \E r \in u : r[3] = m[k][2]
      BY <1>1, <1>2
<1>   QED BY <1>4, <1>5, <1>6, <1>7 DEF Agrees, m, s, u

\* Of QueryGetLatestHeightResponse.
LEMMA QueryGetLatestHeightResponseAgrees ==
    Agrees(QueryGetLatestHeightResponse_MarshalToSizedBuffer,
           QueryGetLatestHeightResponse_Size,
           QueryGetLatestHeightResponse_Unmarshal)
<1> DEFINE m == QueryGetLatestHeightResponse_MarshalToSizedBuffer
           s == QueryGetLatestHeightResponse_Size
           u == QueryGetLatestHeightResponse_Unmarshal
<1>1. /\ Len(m) = 1 /\ DOMAIN m = 1..1
      /\ m[1] = <<8, "Height", Number>>
      BY DEF QueryGetLatestHeightResponse_MarshalToSizedBuffer
<1>2. u = { <<1, 0, "Height", Number>> }
      BY DEF QueryGetLatestHeightResponse_Unmarshal
<1>3. s = { <<"Height", Number>> }
      BY DEF QueryGetLatestHeightResponse_Size, Sized
<1> HIDE DEF m, s, u
<1>4. Writer(m)
      BY <1>1 DEF Writer, Tags, Kinds, WireType, Text, Texts, Pointer, Value, Nested, Number, Flag
<1>5. Reader(m, u)
      BY <1>1, <1>2 DEF Reader, Table, Kinds, WireType, Text, Texts, Pointer, Value, Nested, Number, Flag
<1>6. Sizes(m, s)
      BY <1>1, <1>3 DEF Sizes
<1>7. \A k \in 1..Len(m) : \E r \in u : r[3] = m[k][2]
      BY <1>1, <1>2
<1>   QED BY <1>4, <1>5, <1>6, <1>7 DEF Agrees, m, s, u

\* Of MsgFinalizePacketByPacketKey.
LEMMA MsgFinalizePacketByPacketKeyAgrees ==
    Agrees(MsgFinalizePacketByPacketKey_MarshalToSizedBuffer,
           MsgFinalizePacketByPacketKey_Size,
           MsgFinalizePacketByPacketKey_Unmarshal)
<1> DEFINE m == MsgFinalizePacketByPacketKey_MarshalToSizedBuffer
           s == MsgFinalizePacketByPacketKey_Size
           u == MsgFinalizePacketByPacketKey_Unmarshal
<1>1. /\ Len(m) = 2 /\ DOMAIN m = 1..2
      /\ m[1] = <<18, "PacketKey", Text>>
      /\ m[2] = <<10, "Sender", Text>>
      BY DEF MsgFinalizePacketByPacketKey_MarshalToSizedBuffer
<1>2. u = { <<1, 2, "Sender", Text>>, <<2, 2, "PacketKey", Text>> }
      BY DEF MsgFinalizePacketByPacketKey_Unmarshal
<1>3. s = { <<"PacketKey", Text>>, <<"Sender", Text>> }
      BY DEF MsgFinalizePacketByPacketKey_Size, Sized
<1> HIDE DEF m, s, u
<1>4. Writer(m)
      BY <1>1 DEF Writer, Tags, Kinds, WireType, Text, Texts, Pointer, Value, Nested, Number, Flag
<1>5. Reader(m, u)
      BY <1>1, <1>2 DEF Reader, Table, Kinds, WireType, Text, Texts, Pointer, Value, Nested, Number, Flag
<1>6. Sizes(m, s)
      BY <1>1, <1>3 DEF Sizes
<1>7. \A k \in 1..Len(m) : \E r \in u : r[3] = m[k][2]
      BY <1>1, <1>2
<1>   QED BY <1>4, <1>5, <1>6, <1>7 DEF Agrees, m, s, u

----------------------------------------------------------------------------
(* What the runs check, for every message.                                 *)

\* A call of the codec of a message with contents of its fields' kinds.
Callable ==
    \E n \in DOMAIN Codecs : \E m \in Msgs(Codecs[n].unmarshal) :
        call = [name |-> n, message |-> m]

\* The three methods of every message agree.
LEMMA CodecsAgree ==
    \A n \in DOMAIN Codecs :
        Agrees(Codecs[n].marshal, Codecs[n].size, Codecs[n].unmarshal)
<1> DEFINE A(n) == Agrees(Codecs[n].marshal, Codecs[n].size, Codecs[n].unmarshal)
<1>1. A("DecProto")
      BY DecProtoAgrees, Zenon DEF Codecs, Codec
<1>2. A("FulfillOrderAuthorization")
      BY FulfillOrderAuthorizationAgrees, Zenon DEF Codecs, Codec
<1>3. A("RollappCriteria")
      BY RollappCriteriaAgrees, Zenon DEF Codecs, Codec
<1>4. A("MsgFulfillOrder")
      BY MsgFulfillOrderAgrees, Zenon DEF Codecs, Codec
<1>5. A("MsgFulfillOrderAuthorized")
      BY MsgFulfillOrderAuthorizedAgrees, Zenon DEF Codecs, Codec
<1>6. A("MsgUpdateDemandOrder")
      BY MsgUpdateDemandOrderAgrees, Zenon DEF Codecs, Codec
<1>7. A("MsgSubmitProposal")
      BY MsgSubmitProposalAgrees, Zenon DEF Codecs, Codec
<1>8. A("MsgSubmitProposalResponse")
      BY MsgSubmitProposalResponseAgrees, Zenon DEF Codecs, Codec
<1>9. A("DemandOrder")
      BY DemandOrderAgrees, Zenon DEF Codecs, Codec
<1>10. A("QueryGetDemandOrderRequest")
      BY QueryGetDemandOrderRequestAgrees, Zenon DEF Codecs, Codec
<1>11. A("QueryGetDemandOrderResponse")
      BY QueryGetDemandOrderResponseAgrees, Zenon DEF Codecs, Codec
<1>12. A("QueryDemandOrdersByStatusRequest")
      BY QueryDemandOrdersByStatusRequestAgrees, Zenon DEF Codecs, Codec
<1>13. A("QueryDemandOrdersByStatusResponse")
      BY QueryDemandOrdersByStatusResponseAgrees, Zenon DEF Codecs, Codec
<1>14. A("QueryGetLatestHeightRequest")
      BY QueryGetLatestHeightRequestAgrees, Zenon DEF Codecs, Codec
<1>15. A("QueryGetLatestHeightResponse")
      BY QueryGetLatestHeightResponseAgrees, Zenon DEF Codecs, Codec
<1>16. A("MsgFinalizePacketByPacketKey")
      BY MsgFinalizePacketByPacketKeyAgrees, Zenon DEF Codecs, Codec
<1> HIDE DEF A
<1>17. \A n \in DOMAIN Codecs :
          \/ n \in {"DecProto", "FulfillOrderAuthorization", "RollappCriteria",
                    "MsgFulfillOrder", "MsgFulfillOrderAuthorized", "MsgUpdateDemandOrder",
                    "MsgSubmitProposal", "MsgSubmitProposalResponse", "DemandOrder"}
          \/ n \in {"QueryGetDemandOrderRequest", "QueryGetDemandOrderResponse",
                    "QueryDemandOrdersByStatusRequest", "QueryDemandOrdersByStatusResponse",
                    "QueryGetLatestHeightRequest", "QueryGetLatestHeightResponse",
                    "MsgFinalizePacketByPacketKey"}
      BY DEF Codecs
<1>18. \A n \in DOMAIN Codecs : A(n)
      BY <1>1, <1>2, <1>3, <1>4, <1>5, <1>6, <1>7, <1>8, <1>9,
         <1>10, <1>11, <1>12, <1>13, <1>14, <1>15, <1>16, <1>17
<1>   QED BY <1>18, Zenon DEF A

\* The marshaller can write a message of the table.
LEMMA CanWrite ==
    ASSUME NEW marshal, NEW size, NEW rows, Agrees(marshal, size, rows),
           NEW message \in Msgs(rows)
    PROVE  /\ Writes(marshal, message)
           /\ message = [g \in Names(rows) |-> message[g]]
<1>1. ASSUME NEW k \in 1..Len(marshal)
      PROVE  message[marshal[k][2]] \in Content(marshal[k][3])
  <2>1. PICK r \in rows : r[3] = marshal[k][2]
        BY DEF Agrees
  <2>2. r[4] = marshal[k][3]
        BY <2>1 DEF Agrees, Reader
  <2>3. message[r[3]] \in Content(r[4])
        BY DEF Msgs
  <2>   QED BY <2>1, <2>2, <2>3
<1>2. message = [g \in Names(rows) |-> message[g]]
      BY DEF Msgs
<1>   QED BY <1>1, <1>2 DEF Writes

\* A table that lacks a field still reads the others.
LEMMA ReaderWithout ==
    ASSUME NEW marshal, NEW rows, Reader(marshal, rows), NEW f
    PROVE  /\ Reader(marshal, {row \in rows : row[3] # f})
           /\ Names({row \in rows : row[3] # f}) = Names(rows) \ {f}
BY DEF Reader, Table, Names

\* What a call has.
LEMMA CallIs ==
    ASSUME Callable
    PROVE  /\ Agrees(Codecs[call.name].marshal, Codecs[call.name].size,
                     Codecs[call.name].unmarshal)
           /\ call.message \in Msgs(Codecs[call.name].unmarshal)
           /\ Fields(call.name) = Names(Codecs[call.name].unmarshal)
           /\ call.name \in DOMAIN Codecs
<1>1. PICK n \in DOMAIN Codecs : \E m \in Msgs(Codecs[n].unmarshal) :
                                    call = [name |-> n, message |-> m]
      BY DEF Callable
<1>2. PICK m \in Msgs(Codecs[n].unmarshal) : call = [name |-> n, message |-> m]
      BY <1>1
<1>3. call.name = n /\ call.message = m
      BY <1>2
<1>   QED BY <1>3, CodecsAgree DEF Fields, Names

(***************************************************************************)
(* The buffer a message is marshalled into has the length Size gives, for  *)
(* every message of every one of the sixteen codecs that a signed length   *)
(* can count (types/authz.pb.go:340-349, and each message alike).          *)
(***************************************************************************)
THEOREM SizeIsExact ==
    ASSUME Callable, Fits(Encoded)
    PROVE  SizeExact
<1> DEFINE marshal == Codecs[call.name].marshal
           size == Codecs[call.name].size
           rows == Codecs[call.name].unmarshal
           message == call.message
<1>1. Agrees(marshal, size, rows) /\ message \in Msgs(rows)
      BY CallIs
<1>2. Fits(MarshalToSizedBuffer(marshal, message))
      BY DEF Encoded
<1> HIDE DEF marshal, size, rows, message
<1>3. Writer(marshal) /\ Sizes(marshal, size) /\ Writes(marshal, message)
      BY <1>1, CanWrite DEF Agrees
<1>4. Len(MarshalToSizedBuffer(marshal, message)) = Size(size, message)
      BY <1>2, <1>3, BufferSize
<1>   QED BY <1>4 DEF SizeExact, Encoded, marshal, size, message

(***************************************************************************)
(* What the marshaller of a message writes its Unmarshal method reads      *)
(* back, whatever the fields hold (types/tx.pb.go:668-768 and 1184-1515,   *)
(* and each message alike).                                                *)
(***************************************************************************)
THEOREM MessagesComeBack ==
    ASSUME Callable, Fits(Encoded)
    PROVE  RoundTrip
<1> DEFINE marshal == Codecs[call.name].marshal
           size == Codecs[call.name].size
           rows == Codecs[call.name].unmarshal
           message == call.message
<1>1. Agrees(marshal, size, rows) /\ message \in Msgs(rows)
      BY CallIs
<1>2. Fits(MarshalToSizedBuffer(marshal, message))
      BY DEF Encoded
<1> HIDE DEF marshal, size, rows, message
<1>3. /\ Writer(marshal) /\ Reader(marshal, rows) /\ Writes(marshal, message)
      /\ message = [g \in Names(rows) |-> message[g]]
      BY <1>1, CanWrite DEF Agrees
<1>4. Unmarshal(rows, MarshalToSizedBuffer(marshal, message)) = message
      BY <1>2, <1>3, MessageRead
<1>   QED BY <1>4 DEF RoundTrip, Encoded, marshal, rows, message

(***************************************************************************)
(* A version that lacks a field reads all the others: the first half of    *)
(* UnknownSkipped (types/authz.pb.go:932-945).                             *)
(***************************************************************************)
THEOREM OlderVersionsRead ==
    ASSUME Callable, Fits(Encoded), NEW f
    PROVE  ReadWithout(f) = [g \in Fields(call.name) \ {f} |-> call.message[g]]
<1> DEFINE marshal == Codecs[call.name].marshal
           size == Codecs[call.name].size
           rows == Codecs[call.name].unmarshal
           fewer == {row \in rows : row[3] # f}
           message == call.message
<1>1. Agrees(marshal, size, rows) /\ message \in Msgs(rows)
      /\ Fields(call.name) = Names(rows)
      BY CallIs
<1>2. Fits(MarshalToSizedBuffer(marshal, message))
      BY DEF Encoded
<1>3. ReadWithout(f) = Unmarshal(fewer, MarshalToSizedBuffer(marshal, message))
      BY DEF ReadWithout, Encoded
<1> HIDE DEF marshal, size, rows, message
<1>4. Writer(marshal) /\ Reader(marshal, rows) /\ Writes(marshal, message)
      BY <1>1, CanWrite DEF Agrees
<1>5. Reader(marshal, fewer) /\ Names(fewer) = Names(rows) \ {f}
      BY <1>4, ReaderWithout
<1> HIDE DEF fewer
<1>6. Unmarshal(fewer, MarshalToSizedBuffer(marshal, message)) =
          [g \in Names(fewer) |-> message[g]]
      BY <1>2, <1>4, <1>5, MessageRead
<1>   QED BY <1>1, <1>3, <1>5, <1>6 DEF message

(***************************************************************************)
(* A version that lacks a field, and one that meets a field of a newer     *)
(* hub in front of a message and behind it, reads all the others           *)
(* (types/authz.pb.go:932-945).                                            *)
(***************************************************************************)
THEOREM UnknownsAreSkipped ==
    ASSUME Callable, Fits(Encoded), \A field \in Foreign : Fits(field \o Encoded \o field)
    PROVE  UnknownSkipped
<1> DEFINE marshal == Codecs[call.name].marshal
           size == Codecs[call.name].size
           rows == Codecs[call.name].unmarshal
           message == call.message
<1>1. /\ Agrees(marshal, size, rows) /\ message \in Msgs(rows)
      /\ Encoded = MarshalToSizedBuffer(marshal, message) /\ call.name \in DOMAIN Codecs
      BY CallIs DEF Encoded
<1>2. \A f : ReadWithout(f) = [g \in Fields(call.name) \ {f} |-> message[g]]
      BY OlderVersionsRead
<1>3. \A field \in Foreign : Stranger(field, rows)
      BY <1>1, ForeignAssumption
<1> HIDE DEF marshal, size, rows, message
<1>4. /\ Writer(marshal) /\ Reader(marshal, rows) /\ Writes(marshal, message)
      /\ message = [g \in Names(rows) |-> message[g]]
      BY <1>1, CanWrite DEF Agrees
<1>5. ASSUME NEW field \in Foreign
      PROVE  Unmarshal(rows, field \o Encoded \o field) = message
  <2>1. Fits(field \o MarshalToSizedBuffer(marshal, message) \o field)
        BY <1>1
  <2>2. Unmarshal(rows, field \o MarshalToSizedBuffer(marshal, message) \o field) = message
        BY <1>3, <1>4, <2>1, AmongStrangers
  <2>   QED BY <1>1, <2>2
<1>   QED BY <1>2, <1>5 DEF UnknownSkipped, rows, message

----------------------------------------------------------------------------
(* The calls of the specification.                                         *)

\* The sampled messages are messages of their tables.
LEMMA SampledIsCallable == MessagesInit => Callable
<1> SUFFICES ASSUME MessagesInit PROVE Callable
    OBVIOUS
<1>1. PICK n \in DOMAIN Codecs : \E m \in Messages(n) : call = [name |-> n, message |-> m]
      BY DEF MessagesInit
<1>2. PICK m \in Messages(n) : call = [name |-> n, message |-> m]
      BY <1>1
<1> DEFINE rows == Codecs[n].unmarshal
<1>3. Table(rows) /\ Fields(n) = Names(rows)
      BY CodecsAgree DEF Agrees, Reader, Fields, Names
<1>4. ASSUME NEW r \in rows
      PROVE  KindOf(n, r[3]) = r[4] /\ r[4] \in Kinds
  <2>1. (CHOOSE row \in rows : row[3] = r[3]) = r
    <3> HIDE DEF rows
    <3> QED BY <1>3 DEF Table
  <2>2. r[4] \in Kinds
    <3> HIDE DEF rows
    <3> QED BY <1>3 DEF Table
  <2>   QED BY <2>1, <2>2 DEF KindOf
<1> HIDE DEF rows
<1>5. ASSUME NEW kind \in Kinds
      PROVE  /\ Empty(kind) \in Content(kind)
             /\ \A i \in DOMAIN Sample[kind] : Sample[kind][i] \in Content(kind)
             /\ 1 \in DOMAIN Sample[kind]
  <2>1. Sample[kind] \in Seq(Content(kind)) /\ Sample[kind] # <<>>
        BY SampleAssumption
  <2>2. Empty(kind) \in Content(kind)
        BY EmptyType
  <2> DEFINE s == Sample[kind]
             C == Content(kind)
  <2> HIDE DEF s, C
  <2>3. s \in Seq(C) /\ s # <<>>
        BY <2>1 DEF s, C
  <2>4. (\A i \in DOMAIN s : s[i] \in C) /\ 1 \in DOMAIN s
        BY <2>3
  <2>   QED BY <2>2, <2>4 DEF s, C
<1>6. ASSUME NEW k \in [Fields(n) -> AnyContent], \A r \in rows : k[r[3]] \in Content(r[4])
      PROVE  k \in Msgs(rows)
      BY <1>3, <1>6 DEF Msgs
<1>7. \A r \in rows : /\ Content(r[4]) \in SUBSET AnyContent
      BY <1>4 DEF AnyContent
<1>8. ASSUME NEW k, k = [f \in Fields(n) |-> k[f]], \A r \in rows : k[r[3]] \in Content(r[4])
      PROVE  k \in Msgs(rows)
  <2>1. \A f \in Fields(n) : k[f] \in AnyContent
        BY <1>3, <1>7, <1>8 DEF Names
  <2>   QED BY <1>6, <1>8, <2>1
<1>9. \A r \in rows : r[3] \in Fields(n)
      BY <1>3 DEF Names
<1>10. CASE m = [f \in Fields(n) |-> Sample[KindOf(n, f)][1]]
  <2>1. \A r \in rows : m[r[3]] = Sample[r[4]][1]
        BY <1>4, <1>9, <1>10
  <2>2. \A r \in rows : m[r[3]] \in Content(r[4])
        BY <1>4, <1>5, <2>1
  <2>   QED BY <1>2, <1>8, <1>10, <2>2 DEF Callable, rows
<1>11. ASSUME NEW F \in SUBSET Fields(n), m \in Contents(n, F)
       PROVE  m \in Msgs(rows)
  <2>1. PICK choice \in [F -> 1..3] :
            /\ \A f \in F : choice[f] \in DOMAIN Sample[KindOf(n, f)]
            /\ m = [f \in Fields(n) |-> IF f \in F THEN Sample[KindOf(n, f)][choice[f]]
                                        ELSE Empty(KindOf(n, f))]
        BY <1>11, Zenon DEF Contents
  <2>2. ASSUME NEW r \in rows
        PROVE  m[r[3]] \in Content(r[4])
    <3>1. m[r[3]] = IF r[3] \in F THEN Sample[r[4]][choice[r[3]]] ELSE Empty(r[4])
          BY <1>4, <1>9, <2>1
    <3>2. r[3] \in F => choice[r[3]] \in DOMAIN Sample[r[4]]
          BY <1>4, <2>1
    <3>   QED BY <1>4, <1>5, <3>1, <3>2
  <2>3. m = [f \in Fields(n) |-> m[f]]
        BY <2>1
  <2>   QED BY <1>8, <2>2, <2>3
<1>12. \/ m = [f \in Fields(n) |-> Sample[KindOf(n, f)][1]]
       \/ \E F \in SUBSET Fields(n) : m \in Contents(n, F)
  <2> DEFINE all == [f \in Fields(n) |-> Sample[KindOf(n, f)][1]]
             few == {G \in SUBSET Fields(n) : Cardinality(G) <= 2}
             some == {Contents(n, F) : F \in few}
  <2>1. m \in (UNION some) \cup {all}
        BY Zenon DEF Messages
  <2>2. \A S \in some : \E F \in SUBSET Fields(n) : S = Contents(n, F)
        OBVIOUS
  <2> HIDE DEF all, few, some
  <2>3. m = all \/ \E S \in some : m \in S
        BY <2>1
  <2>   QED BY <2>2, <2>3, Zenon DEF all
<1>   QED BY <1>2, <1>10, <1>11, <1>12 DEF Callable, rows
=============================================================================
