------------------------ MODULE ProduceRequestReader -------------------------
(***************************************************************************)
(* TMsgSetReader and TProduceRequestReader (kafka_proto/produce/v0), with     *)
(* which the mock Kafka server reads what Dory sends.  A reader is a record   *)
(* of its buffer and offsets (Null for a null pointer); every operation gives *)
(* the new record, in which err is the exception it throws ("" if none) and   *)
(* more is the Boolean it returns.                                            *)
(***************************************************************************)
EXTENDS ProduceRequestWriter

Null == -1

\* The length a length field stands for.
LengthRead(n) == IF n = -1 THEN 0 ELSE n

\* The bytes of a string or a blob: an empty one is the name 0.
BytesRead(buf, begin, end) == IF end = begin THEN 0 ELSE Read(buf, begin, end - begin)

----------------------------------------------------------------------------
\* TMsgSetReader.

NoMsgSet ==
    [buf |-> <<>>, begin |-> Null, end |-> Null, msg |-> Null, size |-> 0,
     crcOk |-> FALSE, keyBegin |-> Null, keyEnd |-> Null, valueBegin |-> Null,
     valueEnd |-> Null, err |-> "", more |-> FALSE]

SetMsgSet(buf, begin, size) ==
    [NoMsgSet EXCEPT !.buf = buf, !.begin = begin, !.end = begin + size]

\* InitCurrentMsg of a message whose checksum is right.
MsgWithKeyAndValue(s, start, size) ==
    LET keyLengthAt == start + CrcSize + 2
        keySize == LengthRead(Read(s.buf, keyLengthAt, 4))
        keyEnd == keyLengthAt + 4 + keySize
        valueSize == LengthRead(Read(s.buf, keyEnd, 4))
        t == [s EXCEPT !.size = size, !.crcOk = TRUE]
    IN  IF keySize < 0 \/ MinMsgSize + keySize > size THEN [t EXCEPT !.err = "BadMsgKeySize"]
        ELSE IF valueSize < 0 \/ MinMsgSize + keySize + valueSize # size
        THEN [t EXCEPT !.err = "BadMsgValueSize"]
        ELSE [t EXCEPT !.keyBegin = keyLengthAt + 4, !.keyEnd = keyEnd,
                       !.valueBegin = keyEnd + 4, !.valueEnd = keyEnd + 4 + valueSize,
                       !.more = TRUE]

InitCurrentMsg(s) ==
    LET start == s.msg + MsgOffsetSize + MsgSizeSize
        size == Read(s.buf, s.msg + MsgOffsetSize, MsgSizeSize)
    IN  IF start > s.end THEN [s EXCEPT !.err = "MsgSetTruncated"]
        ELSE IF size < MinMsgSize THEN [s EXCEPT !.size = size, !.err = "BadMsgSize"]
        ELSE IF start + size > s.end THEN [s EXCEPT !.size = size, !.err = "MsgSetTruncated"]
        ELSE IF Checksum(SubSeq(s.buf, start + CrcSize + 1, start + size))
                 # Read(s.buf, start, CrcSize)
        THEN [s EXCEPT !.size = size, !.crcOk = FALSE, !.keyBegin = Null, !.keyEnd = Null,
                       !.valueBegin = Null, !.valueEnd = Null, !.more = TRUE]
        ELSE MsgWithKeyAndValue(s, start, size)

FirstMsg(s) ==
    IF s.begin < s.end THEN InitCurrentMsg([s EXCEPT !.msg = s.begin])
    ELSE [s EXCEPT !.msg = s.begin, !.more = FALSE]

NextMsg(s) ==
    LET next == s.msg + MsgOffsetSize + MsgSizeSize + s.size
    IN  IF s.msg = Null THEN FirstMsg(s)
        ELSE IF s.msg >= s.end THEN [s EXCEPT !.err = "range_error"]
        ELSE IF next > s.end THEN [s EXCEPT !.msg = next, !.err = "MsgSetTruncated"]
        ELSE IF next < s.end THEN InitCurrentMsg([s EXCEPT !.msg = next])
        ELSE [s EXCEPT !.msg = next, !.size = 0, !.crcOk = FALSE, !.keyBegin = Null,
                       !.keyEnd = Null, !.valueBegin = Null, !.valueEnd = Null,
                       !.more = FALSE]

\* GetCurrentMsgCompressionType: "Unknown" for TUnknownCompressionType.
GetCurrentMsgCompressionType(s) ==
    LET attrs == Read(s.buf, s.msg + MsgOffsetSize + MsgSizeSize + CrcSize + 1, 1)
    IN  IF \E t \in DOMAIN CompressionAttr : CompressionAttr[t] = attrs
        THEN CHOOSE t \in DOMAIN CompressionAttr : CompressionAttr[t] = attrs
        ELSE "Unknown"

\* GetCurrentMsgKeyBegin .. GetCurrentMsgKeyEnd.
GetCurrentMsgKey(s) == BytesRead(s.buf, s.keyBegin, s.keyEnd)

GetCurrentMsgValue(s) == BytesRead(s.buf, s.valueBegin, s.valueEnd)

\* The value's bytes as such, for the codec.
GetCurrentMsgValueCells(s) == SubSeq(s.buf, s.valueBegin + 1, s.valueEnd)

----------------------------------------------------------------------------
\* TProduceRequestReader.

NoRequest ==
    [buf |-> <<>>, end |-> 0, clientIdLen |-> 0, numTopics |-> 0, topicIndex |-> -1,
     topicBegin |-> Null, nameEnd |-> Null, numPartitions |-> 0, partitionIndex |-> -1,
     partitionBegin |-> Null, setEnd |-> Null, set |-> NoMsgSet, err |-> "",
     more |-> FALSE]

SetRequest(buf) ==
    LET end == Read(buf, 0, 4) + 4
        r == [NoRequest EXCEPT !.buf = buf, !.end = end]
        clientIdLen == LengthRead(Read(buf, 12, 2))
        numTopics == Read(buf, RequestOverhead + clientIdLen - 4, 4)
    IN  IF end < RequestOverhead THEN [r EXCEPT !.err = "BadRequestSize"]
        ELSE IF Len(buf) < end THEN [r EXCEPT !.err = "RequestTruncated"]
        ELSE IF Read(buf, 4, 2) # 0 THEN [r EXCEPT !.err = "BadApiKey"]
        ELSE IF Read(buf, 6, 2) # 0 THEN [r EXCEPT !.err = "BadApiVersion"]
        ELSE IF clientIdLen < 0 THEN [r EXCEPT !.err = "BadClientIdLen"]
        ELSE IF end < RequestOverhead + clientIdLen THEN [r EXCEPT !.err = "BadRequestSize"]
        ELSE IF numTopics < 0 THEN [r EXCEPT !.err = "BadTopicCount"]
        ELSE [r EXCEPT !.clientIdLen = clientIdLen, !.numTopics = numTopics]

GetCorrelationId(r) == Read(r.buf, 8, 4)

GetClientId(r) == BytesRead(r.buf, 14, 14 + r.clientIdLen)

GetRequiredAcks(r) == Read(r.buf, 14 + r.clientIdLen, 2)

GetReplicationTimeout(r) == Read(r.buf, 16 + r.clientIdLen, 4)

InitCurrentTopic(r) ==
    LET size == LengthRead(Read(r.buf, r.topicBegin, 2))
        nameEnd == r.topicBegin + 2 + size
        numPartitions == Read(r.buf, nameEnd, 4)
    IN  IF r.topicBegin + 2 > r.end THEN [r EXCEPT !.err = "RequestTruncated"]
        ELSE IF size < 0 THEN [r EXCEPT !.err = "BadTopicNameLen"]
        ELSE IF nameEnd + 4 > r.end THEN [r EXCEPT !.err = "RequestTruncated"]
        ELSE IF numPartitions < 0 THEN [r EXCEPT !.err = "BadPartitionCount"]
        ELSE [r EXCEPT !.nameEnd = nameEnd, !.numPartitions = numPartitions,
                       !.partitionIndex = -1, !.partitionBegin = Null, !.setEnd = Null,
                       !.more = TRUE]

InitCurrentPartition(r) ==
    LET begin == r.partitionBegin + 8
        size == Read(r.buf, r.partitionBegin + 4, 4)
    IN  IF begin > r.end \/ begin + size > r.end THEN [r EXCEPT !.err = "RequestTruncated"]
        ELSE [r EXCEPT !.setEnd = begin + size, !.set = SetMsgSet(r.buf, begin, size),
                       !.more = TRUE]

FirstTopic(r) ==
    LET s == [r EXCEPT !.topicIndex = 0, !.topicBegin = RequestOverhead + r.clientIdLen]
    IN  IF r.numTopics > 0 THEN InitCurrentTopic(s) ELSE [s EXCEPT !.more = FALSE]

FirstMsgSetInTopic(r) ==
    LET s == [r EXCEPT !.partitionIndex = 0, !.partitionBegin = r.nameEnd + 4]
    IN  IF r.numPartitions > 0 THEN InitCurrentPartition(s) ELSE [s EXCEPT !.more = FALSE]

NextMsgSetInTopic(r) ==
    LET s == [r EXCEPT !.partitionIndex = @ + 1, !.partitionBegin = r.setEnd]
    IN  IF r.partitionIndex < 0 THEN FirstMsgSetInTopic(r)
        ELSE IF r.partitionIndex >= r.numPartitions THEN [r EXCEPT !.err = "range_error"]
        ELSE IF s.partitionIndex < r.numPartitions THEN InitCurrentPartition(s)
        ELSE [s EXCEPT !.set = NoMsgSet, !.more = FALSE]

\* The rest of the topic's partitions: from one to the next until there are no
\* more.
PartitionsSkipped(r) ==
    LET first == IF r.partitionIndex = -1 THEN FirstMsgSetInTopic(r)
                 ELSE [r EXCEPT !.more = r.partitionIndex < r.numPartitions]
        after[n \in 0 .. r.numPartitions] ==
            IF n = 0 THEN first
            ELSE LET p == after[n - 1]
                 IN  IF p.more /\ p.err = "" THEN NextMsgSetInTopic(p) ELSE p
    IN  after[r.numPartitions]

\* NextTopic: a topic begins where the next partition of the one before it would.
NextTopic(r) ==
    LET s == PartitionsSkipped(r)
        t == [s EXCEPT !.topicBegin = s.partitionBegin, !.topicIndex = @ + 1]
    IN  IF r.topicIndex < 0 THEN FirstTopic(r)
        ELSE IF r.topicIndex >= r.numTopics THEN [r EXCEPT !.err = "range_error"]
        ELSE IF s.err # "" THEN s
        ELSE IF t.topicIndex < t.numTopics THEN InitCurrentTopic(t)
        ELSE [t EXCEPT !.more = FALSE]

GetCurrentTopicName(r) == BytesRead(r.buf, r.topicBegin + 2, r.nameEnd)

GetPartitionOfCurrentMsgSet(r) == Read(r.buf, r.partitionBegin, 4)

\* FirstMsgInMsgSet and NextMsgInMsgSet: those of the message set's reader.
NextMsgInMsgSet(r) ==
    LET At(s) == [r EXCEPT !.set = s, !.err = s.err, !.more = s.more]
    IN  At(NextMsg(r.set))

------------------------------------------------------------------------------
(***************************************************************************)
(* TProdReqBuilder of the mock Kafka server (mock_kafka_server/prod_req):    *)
(* what the server makes of the bytes of a produce request.  A message set   *)
(* that was compressed arrives as one message without key whose value is the *)
(* compressed set.                                                           *)
(***************************************************************************)

NoProdReq == [err |-> "none", corr |-> 0, clientId |-> 0, acks |-> 0, timeout |-> 0,
              groups |-> <<>>]

\* ProdReq::TMsg.
GoodMsg(key, value) == [crcOk |-> TRUE, key |-> key, value |-> value]

BadCrcMsg == [crcOk |-> FALSE, key |-> 0, value |-> 0]

\* ProdReq::TMsgSet.
BuiltSet(partition, type, msgs) == [partition |-> partition, type |-> type, msgs |-> msgs]

\* A step of a build loop: the reader, what was built and the exception.
Built(r, what, err) == [r |-> r, what |-> what, err |-> err]

\* The messages of an uncompressed set: s is the reader after NextMsg.
RECURSIVE UncompressedMsgs(_, _)
UncompressedMsgs(s, msgs) ==
    LET type == IF s.crcOk THEN GetCurrentMsgCompressionType(s) ELSE "None"
        msg == IF s.crcOk THEN GoodMsg(GetCurrentMsgKey(s), GetCurrentMsgValue(s))
               ELSE BadCrcMsg
    IN  IF s.err # "" THEN Built(s, msgs, s.err)
        ELSE IF ~ s.more THEN Built(s, msgs, "")
        ELSE IF type = "Unknown" THEN Built(s, msgs, "UnknownCompressionType")
        ELSE IF type # "None" THEN Built(s, msgs, "CompressedMsgInvalidAttributes")
        ELSE UncompressedMsgs(NextMsg(s), Append(msgs, msg))

BuildUncompressedMsgSet(cells) ==
    UncompressedMsgs(NextMsg(SetMsgSet(cells, 0, Len(cells))), <<>>)

\* GetCompressedData: the message must be the only one of its set, and have no
\* key; next is the reader after it.
CompressedDataError(r, next, msgs) ==
    IF msgs # <<>> THEN "CompressedMsgSetNotAlone"
    ELSE IF r.set.keyEnd # r.set.keyBegin THEN "CompressedMsgSetMustHaveEmptyKey"
    ELSE IF next.err # "" THEN next.err
    ELSE IF next.more THEN "CompressedMsgSetNotAlone" ELSE ""

\* GzipUncompressMsgSet, SnappyUncompressMsgSet and Lz4UncompressMsgSet.
UncompressMsgSet(type, cells) ==
    LET space == ComputeUncompressedResultBufSpace(type, cells)
    IN  IF space.ok THEN Uncompress(type, cells, space.size) ELSE Thrown

\* The uncompressed data as a message set of its own, b.
UncompressedMsgSet(next, soFar, type, b) ==
    Built(next, BuiltSet(soFar.partition, type, b.what), b.err)

\* BuildMsgSet meets a compressed message, data when it is uncompressed.
BuildCompressed(r, next, soFar, type, data) ==
    LET err == CompressedDataError(r, next, soFar.msgs)
    IN  IF err # "" THEN Built(r, soFar, err)
        ELSE IF ~ data.ok THEN Built(r, soFar, "UncompressFailed")
        ELSE UncompressedMsgSet(next, soFar, type, BuildUncompressedMsgSet(data.cells))

\* BuildMsgSet: the messages of the current set; s is the reader after
\* NextMsgInMsgSet, next the one after that.
RECURSIVE BuildMsgSet(_, _, _)
BuildMsgSet(s, next, soFar) ==
    LET type == IF s.set.crcOk THEN GetCurrentMsgCompressionType(s.set) ELSE "None"
        msg == IF s.set.crcOk
               THEN GoodMsg(GetCurrentMsgKey(s.set), GetCurrentMsgValue(s.set))
               ELSE BadCrcMsg
    IN  IF s.err # "" THEN Built(s, soFar, s.err)
        ELSE IF ~ s.more THEN Built(s, soFar, "")
        ELSE IF type = "Unknown" THEN Built(s, soFar, "UnknownCompressionType")
        ELSE IF type # "None"
        THEN BuildCompressed(s, next, soFar, type,
                             UncompressMsgSet(type, GetCurrentMsgValueCells(s.set)))
        ELSE BuildMsgSet(next, NextMsgInMsgSet(next), [soFar EXCEPT !.msgs = Append(@, msg)])

\* The message set that the reader s is at.
CurrentMsgSet(s, next) ==
    BuildMsgSet(next, NextMsgInMsgSet(next),
                BuiltSet(GetPartitionOfCurrentMsgSet(s), "None", <<>>))

\* BuildTopicGroup: the message sets of the current topic; s is the reader after
\* NextMsgSetInTopic.
RECURSIVE BuildTopicGroup(_, _), MsgSetAdded(_, _)
BuildTopicGroup(s, sets) ==
    IF s.err # "" THEN Built(s, sets, s.err)
    ELSE IF ~ s.more THEN Built(s, sets, "")
    ELSE MsgSetAdded(CurrentMsgSet(s, NextMsgInMsgSet(s)), sets)

MsgSetAdded(b, sets) ==
    IF b.err # "" THEN Built(b.r, sets, b.err)
    ELSE BuildTopicGroup(NextMsgSetInTopic(b.r), Append(sets, b.what))

\* The loop of BuildProdReq over the topics; s is the reader after NextTopic.
RECURSIVE BuildTopicGroups(_, _), TopicGroupAdded(_, _, _)
BuildTopicGroups(s, groups) ==
    IF s.err # "" THEN Built(s, groups, s.err)
    ELSE IF ~ s.more THEN Built(s, groups, "")
    ELSE TopicGroupAdded(BuildTopicGroup(NextMsgSetInTopic(s), <<>>), GetCurrentTopicName(s), groups)

TopicGroupAdded(b, topic, groups) ==
    IF b.err # "" THEN Built(b.r, groups, b.err)
    ELSE BuildTopicGroups(NextTopic(b.r), Append(groups, [topic |-> topic, sets |-> b.what]))

\* The request that the reader r is at, with its topics b.
ProdReqOf(r, b) ==
    [err |-> b.err, corr |-> GetCorrelationId(r), clientId |-> GetClientId(r),
     acks |-> GetRequiredAcks(r), timeout |-> GetReplicationTimeout(r), groups |-> b.what]

RequestRead(r) ==
    IF r.err # "" THEN [NoProdReq EXCEPT !.err = r.err]
    ELSE ProdReqOf(r, BuildTopicGroups(NextTopic(r), <<>>))

BuildProdReq(buf) == RequestRead(SetRequest(buf))
==============================================================================
