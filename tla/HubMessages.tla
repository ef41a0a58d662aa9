---------------------------- MODULE HubMessages ----------------------------
(***************************************************************************)
(* The messages the client exchanges with the hub, as src/types/ has them  *)
(* (copied from the hub's repository), in the wire format of ProtoWire:    *)
(* the grants and orders it reads, the queries it asks, the messages it    *)
(* sends.  A call takes one message through marshalling and back.          *)
(***************************************************************************)
EXTENDS ProtoWire

CONSTANTS
    Sample,   \* per kind, a sequence of contents to try
    Foreign   \* fields none of these messages has, as bytes

ASSUME SampleAssumption ==
    \A kind \in Kinds : Sample[kind] \in Seq(Content(kind)) /\ Sample[kind] # <<>>

VARIABLE call   \* a message and what its fields hold

Sized(kind, fields) == {<<f, kind>> : f \in fields}

----------------------------------------------------------------------------
\* types/authz.pb.go
DecProto_MarshalToSizedBuffer == << <<10, "Dec", Value>> >>
DecProto_Size == Sized(Value, {"Dec"})
DecProto_Unmarshal == { <<1, 2, "Dec", Value>> }

FulfillOrderAuthorization_MarshalToSizedBuffer == << <<10, "Rollapps", Texts>> >>
FulfillOrderAuthorization_Size == Sized(Texts, {"Rollapps"})
FulfillOrderAuthorization_Unmarshal == { <<1, 2, "Rollapps", Texts>> }

RollappCriteria_MarshalToSizedBuffer == <<
    <<58, "SpendLimit", Texts>>, <<48, "SettlementValidated", Flag>>,
    <<42, "OperatorFeeShare", Nested>>, <<34, "MinFeePercentage", Nested>>,
    <<26, "MaxPrice", Texts>>, <<18, "Denoms", Texts>>, <<10, "RollappId", Text>> >>
RollappCriteria_Size ==
    Sized(Text, {"RollappId"}) \cup Sized(Texts, {"Denoms", "MaxPrice", "SpendLimit"})
        \cup Sized(Nested, {"MinFeePercentage", "OperatorFeeShare"})
        \cup Sized(Flag, {"SettlementValidated"})
RollappCriteria_Unmarshal == {
    <<1, 2, "RollappId", Text>>, <<2, 2, "Denoms", Texts>>, <<3, 2, "MaxPrice", Texts>>,
    <<4, 2, "MinFeePercentage", Nested>>, <<5, 2, "OperatorFeeShare", Nested>>,
    <<6, 0, "SettlementValidated", Flag>>, <<7, 2, "SpendLimit", Texts>> }

----------------------------------------------------------------------------
\* types/tx.pb.go
MsgFulfillOrder_MarshalToSizedBuffer == <<
    <<26, "ExpectedFee", Text>>, <<18, "OrderId", Text>>, <<10, "FulfillerAddress", Text>> >>
MsgFulfillOrder_Size == Sized(Text, {"FulfillerAddress", "OrderId", "ExpectedFee"})
MsgFulfillOrder_Unmarshal == {
    <<1, 2, "FulfillerAddress", Text>>, <<2, 2, "OrderId", Text>>, <<3, 2, "ExpectedFee", Text>> }

MsgFulfillOrderAuthorized_MarshalToSizedBuffer == <<
    <<72, "SettlementValidated", Flag>>, <<66, "OperatorFeeShare", Value>>,
    <<58, "ExpectedFee", Text>>, <<50, "OperatorFeeAddress", Text>>,
    <<42, "LpAddress", Text>>, <<34, "Amount", Value>>, <<26, "Price", Texts>>,
    <<18, "RollappId", Text>>, <<10, "OrderId", Text>> >>
MsgFulfillOrderAuthorized_Size ==
    Sized(Text, {"OrderId", "RollappId", "LpAddress", "OperatorFeeAddress", "ExpectedFee"})
        \cup Sized(Texts, {"Price"}) \cup Sized(Value, {"Amount", "OperatorFeeShare"})
        \cup Sized(Flag, {"SettlementValidated"})
MsgFulfillOrderAuthorized_Unmarshal == {
    <<1, 2, "OrderId", Text>>, <<2, 2, "RollappId", Text>>, <<3, 2, "Price", Texts>>,
    <<4, 2, "Amount", Value>>, <<5, 2, "LpAddress", Text>>, <<6, 2, "OperatorFeeAddress", Text>>,
    <<7, 2, "ExpectedFee", Text>>, <<8, 2, "OperatorFeeShare", Value>>,
    <<9, 0, "SettlementValidated", Flag>> }

MsgUpdateDemandOrder_MarshalToSizedBuffer == <<
    <<26, "NewFee", Text>>, <<18, "OrderId", Text>>, <<10, "OwnerAddress", Text>> >>
MsgUpdateDemandOrder_Size == Sized(Text, {"OwnerAddress", "OrderId", "NewFee"})
MsgUpdateDemandOrder_Unmarshal == {
    <<1, 2, "OwnerAddress", Text>>, <<2, 2, "OrderId", Text>>, <<3, 2, "NewFee", Text>> }

----------------------------------------------------------------------------
\* types/group.pb.go
MsgSubmitProposal_MarshalToSizedBuffer == <<
    <<58, "Summary", Text>>, <<50, "Title", Text>>, <<40, "Exec", Number>>,
    <<34, "Messages", Texts>>, <<26, "Metadata", Text>>, <<18, "Proposers", Texts>>,
    <<10, "GroupPolicyAddress", Text>> >>
MsgSubmitProposal_Size ==
    Sized(Text, {"GroupPolicyAddress", "Metadata", "Title", "Summary"})
        \cup Sized(Texts, {"Proposers", "Messages"}) \cup Sized(Number, {"Exec"})
MsgSubmitProposal_Unmarshal == {
    <<1, 2, "GroupPolicyAddress", Text>>, <<2, 2, "Proposers", Texts>>,
    <<3, 2, "Metadata", Text>>, <<4, 2, "Messages", Texts>>, <<5, 0, "Exec", Number>>,
    <<6, 2, "Title", Text>>, <<7, 2, "Summary", Text>> }

MsgSubmitProposalResponse_MarshalToSizedBuffer == << <<8, "ProposalId", Number>> >>
MsgSubmitProposalResponse_Size == Sized(Number, {"ProposalId"})
MsgSubmitProposalResponse_Unmarshal == { <<1, 0, "ProposalId", Number>> }

----------------------------------------------------------------------------
\* types/eibc/demand_order.pb.go
DemandOrder_MarshalToSizedBuffer == <<
    <<96, "CreationHeight", Number>>, <<90, "FulfillerAddress", Text>>, <<80, "Type", Number>>,
    <<74, "RollappId", Text>>, <<64, "TrackingPacketStatus", Number>>,
    <<48, "DeprecatedIsFulfilled", Flag>>, <<42, "Recipient", Text>>, <<34, "Fee", Texts>>,
    <<26, "Price", Texts>>, <<18, "TrackingPacketKey", Text>>, <<10, "Id", Text>> >>
DemandOrder_Size ==
    Sized(Text, {"Id", "TrackingPacketKey", "Recipient", "RollappId", "FulfillerAddress"})
        \cup Sized(Texts, {"Price", "Fee"}) \cup Sized(Flag, {"DeprecatedIsFulfilled"})
        \cup Sized(Number, {"TrackingPacketStatus", "Type", "CreationHeight"})
DemandOrder_Unmarshal == {
    <<1, 2, "Id", Text>>, <<2, 2, "TrackingPacketKey", Text>>, <<3, 2, "Price", Texts>>,
    <<4, 2, "Fee", Texts>>, <<5, 2, "Recipient", Text>>, <<6, 0, "DeprecatedIsFulfilled", Flag>>,
    <<8, 0, "TrackingPacketStatus", Number>>, <<9, 2, "RollappId", Text>>,
    <<10, 0, "Type", Number>>, <<11, 2, "FulfillerAddress", Text>>,
    <<12, 0, "CreationHeight", Number>> }

----------------------------------------------------------------------------
\* types/eibc/query.pb.go
QueryGetDemandOrderRequest_MarshalToSizedBuffer == << <<10, "Id", Text>> >>
QueryGetDemandOrderRequest_Size == Sized(Text, {"Id"})
QueryGetDemandOrderRequest_Unmarshal == { <<1, 2, "Id", Text>> }

QueryGetDemandOrderResponse_MarshalToSizedBuffer == << <<10, "DemandOrder", Pointer>> >>
QueryGetDemandOrderResponse_Size == Sized(Pointer, {"DemandOrder"})
QueryGetDemandOrderResponse_Unmarshal == { <<1, 2, "DemandOrder", Pointer>> }

QueryDemandOrdersByStatusRequest_MarshalToSizedBuffer == <<
    <<74, "Pagination", Pointer>>, <<66, "Recipient", Text>>, <<58, "Denom", Text>>,
    <<50, "Fulfiller", Text>>, <<40, "FulfillmentState", Number>>, <<32, "Limit", Number>>,
    <<26, "RollappId", Text>>, <<16, "Type", Number>>, <<8, "Status", Number>> >>
QueryDemandOrdersByStatusRequest_Size ==
    Sized(Number, {"Status", "Type", "Limit", "FulfillmentState"})
        \cup Sized(Text, {"RollappId", "Fulfiller", "Denom", "Recipient"})
        \cup Sized(Pointer, {"Pagination"})
QueryDemandOrdersByStatusRequest_Unmarshal == {
    <<1, 0, "Status", Number>>, <<2, 0, "Type", Number>>, <<3, 2, "RollappId", Text>>,
    <<4, 0, "Limit", Number>>, <<5, 0, "FulfillmentState", Number>>, <<6, 2, "Fulfiller", Text>>,
    <<7, 2, "Denom", Text>>, <<8, 2, "Recipient", Text>>, <<9, 2, "Pagination", Pointer>> }

QueryDemandOrdersByStatusResponse_MarshalToSizedBuffer == <<
    <<18, "Pagination", Pointer>>, <<10, "DemandOrders", Texts>> >>
QueryDemandOrdersByStatusResponse_Size ==
    Sized(Texts, {"DemandOrders"}) \cup Sized(Pointer, {"Pagination"})
QueryDemandOrdersByStatusResponse_Unmarshal == {
    <<1, 2, "DemandOrders", Texts>>, <<2, 2, "Pagination", Pointer>> }

----------------------------------------------------------------------------
\* types/query.pb.go and types/eibc/tx.pb.go
QueryGetLatestHeightRequest_MarshalToSizedBuffer == <<
    <<16, "Finalized", Flag>>, <<10, "RollappId", Text>> >>
QueryGetLatestHeightRequest_Size == Sized(Text, {"RollappId"}) \cup Sized(Flag, {"Finalized"})
QueryGetLatestHeightRequest_Unmarshal == {
    <<1, 2, "RollappId", Text>>, <<2, 0, "Finalized", Flag>> }

QueryGetLatestHeightResponse_MarshalToSizedBuffer == << <<8, "Height", Number>> >>
QueryGetLatestHeightResponse_Size == Sized(Number, {"Height"})
QueryGetLatestHeightResponse_Unmarshal == { <<1, 0, "Height", Number>> }

MsgFinalizePacketByPacketKey_MarshalToSizedBuffer == <<
    <<18, "PacketKey", Text>>, <<10, "Sender", Text>> >>
MsgFinalizePacketByPacketKey_Size == Sized(Text, {"Sender", "PacketKey"})
MsgFinalizePacketByPacketKey_Unmarshal == {
    <<1, 2, "Sender", Text>>, <<2, 2, "PacketKey", Text>> }

----------------------------------------------------------------------------
Codec(marshal, size, unmarshal) ==
    [marshal |-> marshal, size |-> size, unmarshal |-> unmarshal]

Codecs == [
    DecProto |-> Codec(DecProto_MarshalToSizedBuffer, DecProto_Size, DecProto_Unmarshal),
    FulfillOrderAuthorization |->
        Codec(FulfillOrderAuthorization_MarshalToSizedBuffer,
              FulfillOrderAuthorization_Size, FulfillOrderAuthorization_Unmarshal),
    RollappCriteria |->
        Codec(RollappCriteria_MarshalToSizedBuffer, RollappCriteria_Size, RollappCriteria_Unmarshal),
    MsgFulfillOrder |->
        Codec(MsgFulfillOrder_MarshalToSizedBuffer, MsgFulfillOrder_Size, MsgFulfillOrder_Unmarshal),
    MsgFulfillOrderAuthorized |->
        Codec(MsgFulfillOrderAuthorized_MarshalToSizedBuffer,
              MsgFulfillOrderAuthorized_Size, MsgFulfillOrderAuthorized_Unmarshal),
    MsgUpdateDemandOrder |->
        Codec(MsgUpdateDemandOrder_MarshalToSizedBuffer,
              MsgUpdateDemandOrder_Size, MsgUpdateDemandOrder_Unmarshal),
    MsgSubmitProposal |->
        Codec(MsgSubmitProposal_MarshalToSizedBuffer,
              MsgSubmitProposal_Size, MsgSubmitProposal_Unmarshal),
    MsgSubmitProposalResponse |->
        Codec(MsgSubmitProposalResponse_MarshalToSizedBuffer,
              MsgSubmitProposalResponse_Size, MsgSubmitProposalResponse_Unmarshal),
    DemandOrder |->
        Codec(DemandOrder_MarshalToSizedBuffer, DemandOrder_Size, DemandOrder_Unmarshal),
    QueryGetDemandOrderRequest |->
        Codec(QueryGetDemandOrderRequest_MarshalToSizedBuffer,
              QueryGetDemandOrderRequest_Size, QueryGetDemandOrderRequest_Unmarshal),
    QueryGetDemandOrderResponse |->
        Codec(QueryGetDemandOrderResponse_MarshalToSizedBuffer,
              QueryGetDemandOrderResponse_Size, QueryGetDemandOrderResponse_Unmarshal),
    QueryDemandOrdersByStatusRequest |->
        Codec(QueryDemandOrdersByStatusRequest_MarshalToSizedBuffer,
              QueryDemandOrdersByStatusRequest_Size, QueryDemandOrdersByStatusRequest_Unmarshal),
    QueryDemandOrdersByStatusResponse |->
        Codec(QueryDemandOrdersByStatusResponse_MarshalToSizedBuffer,
              QueryDemandOrdersByStatusResponse_Size, QueryDemandOrdersByStatusResponse_Unmarshal),
    QueryGetLatestHeightRequest |->
        Codec(QueryGetLatestHeightRequest_MarshalToSizedBuffer,
              QueryGetLatestHeightRequest_Size, QueryGetLatestHeightRequest_Unmarshal),
    QueryGetLatestHeightResponse |->
        Codec(QueryGetLatestHeightResponse_MarshalToSizedBuffer,
              QueryGetLatestHeightResponse_Size, QueryGetLatestHeightResponse_Unmarshal),
    MsgFinalizePacketByPacketKey |->
        Codec(MsgFinalizePacketByPacketKey_MarshalToSizedBuffer,
              MsgFinalizePacketByPacketKey_Size, MsgFinalizePacketByPacketKey_Unmarshal)]

\* A field on its own that a table does not have.
Stranger(field, rows) ==
    /\ field \in Bytes /\ field # <<>>
    /\ skip(field, 1) = [next |-> Len(field) + 1, depth |-> 0]
    /\ Varint(field, 1) # Error /\ Legal(Varint(field, 1))
    /\ \A row \in rows : row[1] # FieldNumber(Varint(field, 1))

ASSUME ForeignAssumption ==
    \A field \in Foreign : \A n \in DOMAIN Codecs : Stranger(field, Codecs[n].unmarshal)

----------------------------------------------------------------------------
\* Contents to try: up to two fields that hold anything, and all of them.
KindOf(name, f) == (CHOOSE row \in Codecs[name].unmarshal : row[3] = f)[4]

Fields(name) == {row[3] : row \in Codecs[name].unmarshal}

Contents(name, F) ==
    {[f \in Fields(name) |-> IF f \in F THEN Sample[KindOf(name, f)][choice[f]]
                             ELSE Empty(KindOf(name, f))] :
        choice \in {c \in [F -> 1..3] : \A f \in F : c[f] \in DOMAIN Sample[KindOf(name, f)]}}

Messages(name) ==
    (UNION {Contents(name, F) : F \in {G \in SUBSET Fields(name) : Cardinality(G) <= 2}})
        \cup {[f \in Fields(name) |-> Sample[KindOf(name, f)][1]]}

MessagesInit ==
    call \in UNION {{[name |-> n, message |-> m] : m \in Messages(n)} : n \in DOMAIN Codecs}

NoCall == [name |-> "none"]

Encoded == MarshalToSizedBuffer(Codecs[call.name].marshal, call.message)

(***************************************************************************)
(* Marshal fills the buffer it has allocated with Size exactly: a buffer   *)
(* that is too small panics, one that is too large sends zeros in front    *)
(* (types/authz.pb.go:340-349, and each message alike).                    *)
(***************************************************************************)
SizeExact ==
    call # NoCall => Len(Encoded) = Size(Codecs[call.name].size, call.message)

(***************************************************************************)
(* What is written is read back: the tags, kinds and defaults of the three *)
(* methods of every message agree (types/tx.pb.go:668-768 and 1184-1515,   *)
(* and each message alike).                                                *)
(***************************************************************************)
RoundTrip ==
    call # NoCall => Unmarshal(Codecs[call.name].unmarshal, Encoded) = call.message

\* Read by a version that does not have field f yet.
ReadWithout(f) ==
    Unmarshal({row \in Codecs[call.name].unmarshal : row[3] # f}, Encoded)

(***************************************************************************)
(* A version that lacks a field, and one that meets a field of a newer     *)
(* hub, of any wire type, reads all the others: the client keeps reading   *)
(* grants and orders after an upgrade (types/authz.pb.go:932-945).         *)
(***************************************************************************)
UnknownSkipped ==
    call # NoCall =>
        /\ \A f \in Fields(call.name) :
              ReadWithout(f) = [g \in Fields(call.name) \ {f} |-> call.message[g]]
        /\ \A field \in Foreign :
              Unmarshal(Codecs[call.name].unmarshal, field \o Encoded \o field) = call.message
=============================================================================
