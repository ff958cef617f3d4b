------------------------------- MODULE InputDg -------------------------------
(***************************************************************************)
(* Input messages: how the client library writes one (libdory_client.c and *)
(* v0_write_msg.c) and how Dory takes it apart (src/dory/input_dg).        *)
(*                                                                         *)
(* What a client sends is a record [type, pkey, topic, ts, key, value];    *)
(* the type is "AnyPartition" or "PartitionKey", topics are names, keys    *)
(* and values sequences of bytes.                                          *)
(***************************************************************************)
EXTENDS Wire

CONSTANTS
  MaxInt16,          \* INT16_MAX
  MaxInt32           \* INT32_MAX

(* All of a message but its topic, its key and its value: the sizes of the *)
(* fields in input_dg_constants.h and v0_input_dg_constants.h.             *)
FixedPartSize == 4 + 2 + 2
AnyOverhead == FixedPartSize + 2 + 2 + 8 + 4 + 4
KeyOverhead == FixedPartSize + 2 + 4 + 2 + 8 + 4 + 4

ASSUME SizesAssumption ==
  MaxInt16 \in Nat /\ MaxInt32 \in Nat /\ MaxInt16 + KeyOverhead <= MaxInt32

KeyValueSpace(overhead, topic_size) == MaxInt32 - overhead - topic_size

CheckMsgSize(overhead, topic_size, key_size, value_size) ==
  IF topic_size > MaxInt16 THEN "DORY_TOPIC_TOO_LARGE"
  ELSE LET key_value_space == KeyValueSpace(overhead, topic_size)
       IN IF key_size > key_value_space \/ value_size > key_value_space - key_size
          THEN "DORY_MSG_TOO_LARGE" ELSE "DORY_OK"

MsgSize(overhead, topic_size, key_size, value_size) ==
  overhead + topic_size + key_size + value_size

ComputeMsgSize(overhead, topic_size, key_size, value_size) ==
  LET ret == CheckMsgSize(overhead, topic_size, key_size, value_size)
  IN [status |-> ret,
      size |-> IF ret = "DORY_OK" THEN MsgSize(overhead, topic_size, key_size, value_size)
               ELSE 0]

any_p_v0_compute_msg_size(topic_size, key_size, value_size) ==
  ComputeMsgSize(AnyOverhead, topic_size, key_size, value_size)

p_key_v0_compute_msg_size(topic_size, key_size, value_size) ==
  ComputeMsgSize(KeyOverhead, topic_size, key_size, value_size)

------------------------------------------------------------------------------
Byte(b) == [width |-> 1, value |-> b]
Bytes(s) == [i \in 1 .. Len(s) |-> Byte(s[i])]

(* The fields with which both formats end.                                 *)
TopicAndBody(m) ==
  Field(2, NameLength(m.topic)) \o Field(NameLength(m.topic), m.topic) \o Field(8, m.ts)
  \o Field(4, Len(m.key)) \o Bytes(m.key) \o Field(4, Len(m.value)) \o Bytes(m.value)

AnyMsgSize(m) == any_p_v0_compute_msg_size(NameLength(m.topic), Len(m.key), Len(m.value))
KeyMsgSize(m) == p_key_v0_compute_msg_size(NameLength(m.topic), Len(m.key), Len(m.value))

Header(size, api_key) ==
  Field(4, size) \o Field(2, api_key) \o Field(2, 0) \o Field(2, 0)

any_p_v0_write_msg(m) == Header(AnyMsgSize(m).size, 256) \o TopicAndBody(m)

p_key_v0_write_msg(m) ==
  Header(KeyMsgSize(m).size, 257) \o Field(4, m.pkey) \o TopicAndBody(m)

NotWritten(status) == [status |-> status, dg |-> <<>>]

dory_write_any_partition_msg(m, out_buf_size) ==
  LET found == AnyMsgSize(m)
  IN IF found.status # "DORY_OK" THEN NotWritten(found.status)
     ELSE IF out_buf_size < found.size THEN NotWritten("DORY_BUF_TOO_SMALL")
     ELSE [status |-> "DORY_OK", dg |-> any_p_v0_write_msg(m)]

dory_write_partition_key_msg(m, out_buf_size) ==
  LET found == KeyMsgSize(m)
  IN IF found.status # "DORY_OK" THEN NotWritten(found.status)
     ELSE IF out_buf_size < found.size THEN NotWritten("DORY_BUF_TOO_SMALL")
     ELSE [status |-> "DORY_OK", dg |-> p_key_v0_write_msg(m)]

-----------------------------------------------------------------------------
(* What becomes of a datagram: a message, or the reason of its discard.    *)
NoMsg == [type |-> "AnyPartition", pkey |-> 0, topic |-> 0, ts |-> 0, key |-> <<>>,
          value |-> <<>>]
Discarded(reason) == [reason |-> reason, m |-> NoMsg]
Built(m) == [reason |-> "none", m |-> m]

Values(cells) == [i \in 1 .. Len(cells) |-> cells[i].value]

(* The fields from the topic's size on, which is at offset pos.  Every one *)
(* is looked at only when the datagram is long enough for it.              *)
TopicToValue(dg, pos) ==
  LET Has(at, n) == Len(dg) - at >= n
      topic_sz == Read(dg, pos, 2)
      ts_pos == pos + 2 + topic_sz
      key_sz == Read(dg, ts_pos + 8, 4)
      key_pos == ts_pos + 12
      value_sz == Read(dg, key_pos + key_sz, 4)
      value_pos == key_pos + key_sz + 4
  IN IF /\ Has(pos, 2) /\ topic_sz > 0 /\ Has(pos + 2, topic_sz)
        /\ Has(ts_pos, 8)
        /\ Has(ts_pos + 8, 4) /\ key_sz >= 0 /\ Has(key_pos, key_sz)
        /\ Has(key_pos + key_sz, 4) /\ value_sz >= 0
        /\ Len(dg) - value_pos = value_sz
     THEN Built([NoMsg EXCEPT !.topic = Read(dg, pos + 2, topic_sz),
                              !.ts = Read(dg, ts_pos, 8),
                              !.key = Values(SubSeq(dg, key_pos + 1, key_pos + key_sz)),
                              !.value = Values(SubSeq(dg, value_pos + 1, value_pos + value_sz))])
     ELSE Discarded("Malformed")

FlagsAreZero(dg) == Len(dg) - FixedPartSize >= 2 /\ Read(dg, FixedPartSize, 2) = 0

AnyPartitionV0(dg) ==
  IF ~FlagsAreZero(dg) THEN Discarded("Malformed")
  ELSE TopicToValue(dg, FixedPartSize + 2)

PartitionKeyV0(dg) ==
  LET pos == FixedPartSize + 2
      built == TopicToValue(dg, pos + 4)
  IN IF ~FlagsAreZero(dg) \/ Len(dg) - pos < 4 THEN Discarded("Malformed")
     ELSE IF built.reason # "none" THEN built
     ELSE Built([built.m EXCEPT !.type = "PartitionKey", !.pkey = Read(dg, pos, 4)])

BuildAnyPartitionMsgFromDg(dg, api_version) ==
  IF api_version = 0 THEN AnyPartitionV0(dg) ELSE Discarded("Version")

BuildPartitionKeyMsgFromDg(dg, api_version) ==
  IF api_version = 0 THEN PartitionKeyV0(dg) ELSE Discarded("Version")

BuildMsgFromDg(dg) ==
  LET sz == Read(dg, 0, 4)
      api_key == Read(dg, 4, 2)
      api_version == Read(dg, 6, 2)
  IN IF Len(dg) < FixedPartSize \/ sz < 0 \/ sz # Len(dg) THEN Discarded("Malformed")
     ELSE IF api_key = 256 THEN BuildAnyPartitionMsgFromDg(dg, api_version)
     ELSE IF api_key = 257 THEN BuildPartitionKeyMsgFromDg(dg, api_version)
     ELSE Discarded("ApiKey")
==============================================================================
