----------------------------- MODULE ProtoWire -----------------------------
(***************************************************************************)
(* The wire format of the hub's messages as the generated code of          *)
(* src/types/*.pb.go reads and writes it.  The code of a message is a      *)
(* table per method, transcribed on its own:                               *)
(*   MarshalToSizedBuffer   rows <<tag byte, field, kind>>, last field     *)
(*                          first, since the buffer is filled backwards;   *)
(*   Size                   pairs <<field, kind>>;                         *)
(*   Unmarshal              rows <<number, wire type, field, kind>>.       *)
(* What a field holds is a sequence of bytes nobody looks into: strings,   *)
(* addresses, coins and nested messages differ only in how often and when  *)
(* they are written.                                                       *)
(***************************************************************************)
EXTENDS Naturals, Sequences, FiniteSets, SequencesExt, FiniteSetsExt

CONSTANT Width   \* bits of uint64 and int, scaled down

ASSUME WidthAssumption == Width \in 16..24 /\ Width % 2 = 0

\* Kinds of fields.
Text == "Text"          \* a string or bytes: left out when empty
Texts == "Texts"        \* any number of strings or messages
Pointer == "Pointer"    \* a message or nil, as a sequence of at most one
Value == "Value"        \* a number type that is never nil
Nested == "Nested"      \* a message that is never nil
Number == "Number"      \* an integer or enum: left out when zero
Flag == "Flag"          \* a bool: left out when false

Kinds == {Text, Texts, Pointer, Value, Nested, Number, Flag}

Empty(kind) == CASE kind = Number -> 0 [] kind = Flag -> FALSE [] OTHER -> <<>>

Bytes == Seq(Nat)

\* What a field of a kind may hold.
Content(kind) ==
    CASE kind \in {Text, Value, Nested} -> Bytes
      [] kind = Texts -> Seq(Bytes)
      [] kind = Pointer -> {v \in Seq(Bytes) : Len(v) <= 1}
      [] kind = Number -> {v \in Nat : v < 2^Width}
      [] kind = Flag -> BOOLEAN

----------------------------------------------------------------------------
\* Groups of seven bits that v takes.  Len64 is the number of its bits.
Len64(v) == CHOOSE n \in 0..Width : v < 2^n /\ (n > 0 => v >= 2^(n - 1))

\* Bug variant: 128 is taken to fit into one group.
sov_OffByOne(v) == IF v <= 128 THEN 1 ELSE (Len64(v) + 6) \div 7

sov(v) == (Len64(IF v = 0 THEN 1 ELSE v) + 6) \div 7

Groups(v) == IF v < 2^7 THEN 1 ELSE IF v < 2^14 THEN 2 ELSE IF v < 2^21 THEN 3 ELSE 4

encodeVarint(v) ==
    [k \in 1..Groups(v) |-> ((v \div 2^(7 * (k - 1))) % 2^7) + (IF k < Groups(v) THEN 2^7 ELSE 0)]

Delimited(tag, bs) == <<tag>> \o encodeVarint(Len(bs)) \o bs

\* What one row of the marshaller writes.
Written(tag, kind, v) ==
    CASE kind = Text -> IF v = <<>> THEN <<>> ELSE Delimited(tag, v)
      [] kind \in {Value, Nested} -> Delimited(tag, v)
      [] kind \in {Texts, Pointer} -> FlattenSeq([i \in DOMAIN v |-> Delimited(tag, v[i])])
      [] kind = Number -> IF v = 0 THEN <<>> ELSE <<tag>> \o encodeVarint(v)
      [] kind = Flag -> IF v THEN <<tag, 1>> ELSE <<>>

\* Backwards: every row goes in front of what is there.
MarshalToSizedBuffer(rows, m) ==
    FlattenSeq(Reverse([k \in DOMAIN rows |-> Written(rows[k][1], rows[k][3], m[rows[k][2]])]))

SizeOf(kind, v) ==
    CASE kind = Text -> IF v = <<>> THEN 0 ELSE 1 + Len(v) + sov(Len(v))
      [] kind \in {Value, Nested} -> 1 + Len(v) + sov(Len(v))
      [] kind \in {Texts, Pointer} ->
            MapThenSumSet(LAMBDA i : 1 + Len(v[i]) + sov(Len(v[i])), DOMAIN v)
      [] kind = Number -> IF v = 0 THEN 0 ELSE 1 + sov(v)
      [] kind = Flag -> IF v THEN 2 ELSE 0

Size(rows, m) == MapThenSumSet(LAMBDA row : SizeOf(row[2], m[row[1]]), rows)

----------------------------------------------------------------------------
Error == [error |-> TRUE]

\* Decoding gives the value and the position after it, or Error: the buffer
\* ends first, or no group that ends the number comes in time.  Bits beyond
\* the width are lost.
Varint(bs, i) ==
    LET last == {j \in i..i + Width \div 7 : j <= Len(bs) /\ bs[j] < 2^7 /\ 7 * (j - i) < Width}
    IN  IF last = {} THEN Error
        ELSE LET j == Min(last)
             IN  [value |-> MapThenSumSet(LAMBDA k : (bs[k] % 2^7) * 2^(7 * (k - i)), i..j) % 2^Width,
                  next |-> j + 1]

\* The position after a length-delimited value: a length with the top bit
\* set is negative, and so is the sum that overflows.
Summed(n) ==
    IF n = Error \/ n.value >= 2^(Width - 1) \/ n.next + n.value >= 2^(Width - 1) THEN Error
    ELSE [value |-> n.next, next |-> n.next + n.value]

After(bs, i) == Summed(Varint(bs, i))

Fixed(wireType) == IF wireType = 1 THEN 8 ELSE 4

\* Where a value of a wire type ends that starts at i, in a group or not.
Beyond(bs, i, wireType, depth) ==
    CASE wireType = 0 -> Varint(bs, i)
      [] wireType \in {1, 5} -> [next |-> i + Fixed(wireType)]
      [] wireType = 2 -> After(bs, i)
      [] wireType = 3 \/ (wireType = 4 /\ depth > 0) -> [next |-> i]
      [] OTHER -> Error

\* One field, or the start or end of a group, at position s.next; s.depth
\* counts the open groups.
Skipped(bs, s) ==
    LET wire == Varint(bs, s.next)
        wireType == wire.value % 8
        end == Beyond(bs, wire.next, wireType, s.depth)
        open == CASE wireType = 3 -> s.depth + 1
                  [] wireType = 4 -> s.depth - 1
                  [] OTHER -> s.depth
    IN  IF s.next > Len(bs) \/ wire = Error \/ end = Error THEN Error
        ELSE [next |-> end.next, depth |-> open]

\* The position after the field at i, whatever it is.  Every round of the
\* loop takes a byte at least; a state that ends it stays.
skip(bs, i) ==
    LET Ended(s) == s = Error \/ s.depth = 0
        state[n \in 0..Len(bs)] ==
            IF n = 0 THEN Skipped(bs, [next |-> i, depth |-> 0])
            ELSE LET s == state[n - 1] IN IF Ended(s) THEN s ELSE Skipped(bs, s)
    IN  state[CHOOSE n \in 0..Len(bs) : Ended(state[n])]

\* int32 is half as wide; a number that is not positive is refused.
FieldNumber(wire) == (wire.value \div 8) % 2^(Width \div 2)

Legal(wire) == /\ wire.value % 8 # 4
               /\ FieldNumber(wire) \in 1..2^(Width \div 2 - 1) - 1

\* Bug variant: a repeated field keeps its last occurrence only.
Merged_Replaces(kind, old, v) ==
    CASE kind \in {Texts, Pointer} -> <<v>>
      [] kind = Flag -> v # 0
      [] OTHER -> v

\* What a field holds after one more occurrence v of it: a message that occurs
\* again is read into what it holds, as if its two contents were one.
Merged(kind, old, v) ==
    CASE kind = Texts -> Append(old, v)
      [] kind = Nested -> old \o v
      [] kind = Pointer -> IF old = <<>> THEN <<v>> ELSE <<old[1] \o v>>
      [] kind = Flag -> v # 0
      [] OTHER -> v

\* The zero message is filled field by field.
Zero(rows) == [f \in {row[3] : row \in rows} |-> Empty((CHOOSE row \in rows : row[3] = f)[4])]

\* Bug variant: the position is not set back before an unknown field is skipped.
End_NotSetBack(bs, i, wire, known, row) ==
    IF known = {} THEN skip(bs, wire.next)
    ELSE CASE row[2] # wire.value % 8 -> Error
           [] row[2] = wire.value % 8 /\ row[2] = 0 -> Varint(bs, wire.next)
           [] row[2] = wire.value % 8 /\ row[2] = 2 -> After(bs, wire.next)

\* How a field ends that is to be read as row says, or skipped.
End(bs, i, wire, known, row) ==
    IF known = {} THEN skip(bs, i)
    ELSE CASE row[2] # wire.value % 8 -> Error
           [] row[2] = wire.value % 8 /\ row[2] = 0 -> Varint(bs, wire.next)
           [] row[2] = wire.value % 8 /\ row[2] = 2 -> After(bs, wire.next)

\* The message s.msg with the field that ends so taken in.
TakenIn(bs, s, known, row, end) ==
    LET got == IF row[2] = 0 THEN end.value ELSE SubSeq(bs, end.value, end.next - 1)
    IN  IF end = Error \/ end.next > Len(bs) + 1 THEN Error
        ELSE [at |-> end.next,
              msg |-> IF known = {} THEN s.msg
                      ELSE [s.msg EXCEPT ![row[3]] = Merged(row[4], @, got)]]

\* The field at position s.at.
Field(rows, bs, s) ==
    LET wire == Varint(bs, s.at)
        known == {row \in rows : row[1] = FieldNumber(wire)}
        row == CHOOSE r \in known : TRUE
    IN  IF wire = Error \/ ~Legal(wire) THEN Error
        ELSE TakenIn(bs, s, known, row, End(bs, s.at, wire, known, row))

\* One round of the loop over the fields; a state that ends it stays.
Round(rows, bs, s) == IF s = Error \/ s.at > Len(bs) THEN s ELSE Field(rows, bs, s)

\* The loop: every round takes a byte at least.
Unmarshal(rows, bs) ==
    LET state[n \in 0..Len(bs)] ==
            IF n = 0 THEN [at |-> 1, msg |-> Zero(rows)] ELSE Round(rows, bs, state[n - 1])
        Ended(s) == s = Error \/ s.at > Len(bs)
        Result(s) == IF s = Error THEN Error ELSE s.msg
    IN  Result(state[CHOOSE n \in 0..Len(bs) : Ended(state[n])])
=============================================================================
