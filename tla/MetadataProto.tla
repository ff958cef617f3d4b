---------------------------- MODULE MetadataProto ----------------------------
(***************************************************************************)
(* Metadata requests (kafka_proto/metadata/v0): TMetadataRequestWriter, with *)
(* which dory asks for the metadata of all topics or for that of one topic   *)
(* (to have it created), and TMetadataRequestReader, with which the mock     *)
(* Kafka server reads such a request.                                       *)
(***************************************************************************)
EXTENDS Wire, SequencesExt

ApiKey == 3

ApiVersion == 0

EmptyStringLength == -1

AllTopicsHeaderSize == 18

SingleTopicHeaderSize == 20

\* NoTopic stands for the empty name of an all topics request.
NoTopic == 0

TopicSize(topic) == IF topic = NoTopic THEN 0 ELSE NameLength(topic)

WriteHeader(buf, topic, correlationId) ==
    LET size == IF topic = NoTopic THEN AllTopicsHeaderSize - 4
                ELSE TopicSize(topic) + SingleTopicHeaderSize - 4
        b1 == Write(Write(buf, 0, 4, size), 4, 2, ApiKey)
        b2 == Write(Write(b1, 6, 2, ApiVersion), 8, 4, correlationId)
        b3 == Write(b2, 12, 2, EmptyStringLength)
        b4 == IF topic = NoTopic THEN b3 ELSE Write(b3, 18, 2, TopicSize(topic))
    IN  Write(b4, 14, 4, IF topic = NoTopic THEN 0 ELSE 1)

WriteAllTopicsRequest(correlationId) ==
    WriteHeader(Grow(<<>>, AllTopicsHeaderSize), NoTopic, correlationId)

WriteSingleTopicRequest(topic, correlationId) ==
    Write(WriteHeader(Grow(<<>>, SingleTopicHeaderSize + TopicSize(topic)),
                      topic, correlationId),
          SingleTopicHeaderSize, TopicSize(topic), topic)

\* RequestSize(): what the size field promises.
RequestSize(buf) == Read(buf, 0, 4) + 4

\* The constructor of TMetadataRequestReader: the exception it throws.
RequestError(buf) ==
    LET count == Read(buf, 14, 4)
        topicSize == Read(buf, 18, 2)
    IN  IF RequestSize(buf) # Len(buf) THEN "Fault"
        ELSE IF Len(buf) < AllTopicsHeaderSize THEN "BadRequestSize"
        ELSE IF Read(buf, 4, 2) # ApiKey THEN "WrongRequestType"
        ELSE IF Read(buf, 6, 2) # ApiVersion THEN "BadApiVersion"
        ELSE IF Read(buf, 12, 2) # EmptyStringLength THEN "BadClientIdLength"
        ELSE IF count \notin {0, 1} THEN "BadTopicCount"
        ELSE IF count = 0
             THEN IF Len(buf) # AllTopicsHeaderSize THEN "BadRequestSize" ELSE "None"
        ELSE IF Len(buf) < SingleTopicHeaderSize THEN "BadRequestSize"
        ELSE IF topicSize < 1 THEN "BadTopicSize"
        ELSE IF topicSize + SingleTopicHeaderSize # Len(buf) THEN "BadRequestSize"
        ELSE "None"

GetTopic(buf) ==
    IF Read(buf, 14, 4) = 0 THEN NoTopic
    ELSE Read(buf, SingleTopicHeaderSize, Read(buf, 18, 2))

GetRequestCorrelationId(buf) == Read(buf, 8, 4)

------------------------------------------------------------------------------
(***************************************************************************)
(* TMetadataResponseWriter (kafka_proto/metadata/v0), with which the mock    *)
(* Kafka server answers a metadata request.  Counts are written back when    *)
(* their list is closed.  A writer is a record with the state, the buffer    *)
(* and, for each open list, its item count, the offset of that count and the *)
(* offset of its next item.  Names are numbers, NameLength their sizes.      *)
(***************************************************************************)

NoList == [count |-> 0, at |-> 0, next |-> 0]

WriterLists == {"brokers", "topics", "partitions", "replicas", "caughtUp"}

\* The writer of OpenResponse(): the size field, the correlation id and the
\* broker count are there, the broker list follows.
OpenResponse(correlationId) ==
    [buf |-> Write(Grow(<<>>, 12), 4, 4, correlationId),
     lists |-> [l \in WriterLists |-> NoList]]

\* SetStr: an int16 length and the name.
SetStr(buf, offset, name) ==
    Write(Write(buf, offset, 2, NameLength(name)), offset + 2, NameLength(name), name)

OpenBrokerList(w) ==
    [w EXCEPT !.lists["brokers"] = [count |-> 0, at |-> 8, next |-> 12]]

AddBroker(w, id, host, port) ==
    LET o == w.lists["brokers"].next
        size == 10 + NameLength(host)
        grown == Grow(w.buf, size)
    IN  [w EXCEPT
            !.buf = Write(SetStr(Write(grown, o, 4, id), o + 4, host),
                          o + 6 + NameLength(host), 4, port),
            !.lists["brokers"].count = @ + 1,
            !.lists["brokers"].next = @ + size]

\* CloseBrokerList, ClosePartitionList, CloseTopicList and the two replica
\* lists: the count goes to its place.
CloseList(w, l) ==
    [w EXCEPT !.buf = Write(@, w.lists[l].at, 4, w.lists[l].count)]

CloseBrokerList(w) == CloseList(w, "brokers")

OpenTopicList(w) ==
    LET o == w.lists["brokers"].next
    IN  [w EXCEPT !.buf = Grow(@, 4),
                  !.lists["topics"] = [count |-> 0, at |-> o, next |-> o + 4]]

OpenTopic(w, error, name) ==
    LET o == w.lists["topics"].next
        grown == Grow(w.buf, 8 + NameLength(name))
    IN  [w EXCEPT
            !.buf = SetStr(Write(grown, o, 2, error), o + 2, name),
            !.lists["partitions"].at = o + 4 + NameLength(name)]

OpenPartitionList(w) ==
    [w EXCEPT !.lists["partitions"].count = 0,
              !.lists["partitions"].next = Len(w.buf)]

OpenPartition(w, error, id, leader) ==
    LET o == w.lists["partitions"].next
        grown == Grow(w.buf, 14)
    IN  [w EXCEPT
            !.buf = Write(Write(Write(grown, o, 2, error), o + 2, 4, id), o + 6, 4, leader),
            !.lists["replicas"].at = o + 10]

OpenReplicaList(w) == [w EXCEPT !.lists["replicas"].count = 0]

AddReplica(w, id) ==
    [w EXCEPT !.buf = Write(Grow(@, 4), Len(w.buf), 4, id),
              !.lists["replicas"].count = @ + 1]

\* The place of the next count is made when the replica list is closed.
CloseReplicaList(w) ==
    [w EXCEPT !.buf = Grow(CloseList(w, "replicas").buf, 4),
              !.lists["caughtUp"].at = Len(w.buf)]

OpenCaughtUpReplicaList(w) == [w EXCEPT !.lists["caughtUp"].count = 0]

AddCaughtUpReplica(w, id) ==
    [w EXCEPT !.buf = Write(Grow(@, 4), Len(w.buf), 4, id),
              !.lists["caughtUp"].count = @ + 1]

CloseCaughtUpReplicaList(w) == CloseList(w, "caughtUp")

ClosePartition(w) ==
    [w EXCEPT !.lists["partitions"].count = @ + 1,
              !.lists["partitions"].next = Len(w.buf)]

ClosePartitionList(w) == CloseList(w, "partitions")

CloseTopic(w) ==
    [w EXCEPT !.lists["topics"].count = @ + 1,
              !.lists["topics"].next = Len(w.buf)]

CloseTopicList(w) == CloseList(w, "topics")

\* The size field does not count itself.
CloseResponse(w) == Write(w.buf, 0, 4, Len(w.buf) - 4)

------------------------------------------------------------------------------
(***************************************************************************)
(* TMetadataResponseReader (kafka_proto/metadata/v0): walks the nested lists *)
(* of a metadata response in place.  A reader is a record: its state is the  *)
(* list it is in (0 Initial, 1 brokers, 2 topics, 3 partitions of a topic,   *)
(* 4 replicas and 5 caught up replicas of a partition); left[k] and off[k]   *)
(* are the number of items left in list k and the offset of its current      *)
(* item, len[k] the length of the current host or topic name.  "more" is     *)
(* what the last First...() or Next...() returned, "err" the exception that  *)
(* was thrown; "Fault" is an assertion that failed or a read of bytes that   *)
(* are not there.                                                           *)
(***************************************************************************)

Lists == 1 .. 5

TMetadataResponseReader ==
    [state |-> 0, left |-> [k \in Lists |-> 0], off |-> [k \in Lists |-> 0],
     len |-> [k \in {1, 2} |-> 0], more |-> FALSE, err |-> "None"]

\* MinSize(): the size, the correlation id and the two top level counts.
MinSize == 16

\* The fixed part of an item of each list, up to the length of its name or to
\* the count of the list inside it.
FixedSize == <<6, 4, 14, 4, 4>>

\* BrokerSize() and RelPartitionCountOffset() + PARTITION_COUNT_SIZE.
ItemSize(k, len) ==
    CASE k = 1 -> ToSize(10 + len)
      [] k = 2 -> ToSize(8 + len)
      [] OTHER -> FixedSize[k]

Throw(r, e) == [r EXCEPT !.err = e, !.more = FALSE]

\* Runs step A on a reader, unless an exception has already left the caller.
Try(r, A(_)) == IF r.err # "None" THEN r ELSE A(r)

Require(r, p, A(_)) == IF p THEN A(r) ELSE Throw(r, "Fault")

ClearStateVariables(r) ==
    [r EXCEPT !.left = [k \in Lists |-> IF k > r.state THEN 0 ELSE @[k]],
              !.off = [k \in Lists |-> IF k > r.state THEN 0 ELSE @[k]],
              !.len = [k \in {1, 2} |-> IF k > r.state THEN 0 ELSE @[k]]]

\* InitBroker(), InitTopic(): the current item must lie in the buffer.
InitNamed(buf, r, k) ==
    LET space == Len(buf) - r.off[k]
        len == ToSize(Read(buf, r.off[k] + FixedSize[k] - 2, 2))
        c == [r EXCEPT !.len[k] = 0]
    IN  IF r.left[k] = 0 THEN [c EXCEPT !.more = FALSE]
        ELSE IF space < FixedSize[k] THEN Throw(c, "Incomplete")
        ELSE IF Read(buf, r.off[k] + FixedSize[k] - 2, 2) = Garbage
             THEN Throw(c, "Fault")
        ELSE IF len < 1 THEN Throw(c, "BadNameLen")
        ELSE IF space < ItemSize(k, len) THEN Throw(c, "Incomplete")
        ELSE [c EXCEPT !.len[k] = len, !.more = TRUE]

InitBroker(buf, r) == InitNamed(buf, r, 1)

InitTopic(buf, r) == InitNamed(buf, r, 2)

\* InitPartition(), InitReplica(), InitCaughtUpReplica().
InitPlain(buf, r, k) ==
    IF r.left[k] = 0 THEN [r EXCEPT !.more = FALSE]
    ELSE IF Len(buf) - r.off[k] < FixedSize[k] THEN Throw(r, "Incomplete")
    ELSE [r EXCEPT !.more = TRUE]

InitPartition(buf, r) == InitPlain(buf, r, 3)

InitReplica(buf, r) == InitPlain(buf, r, 4)

InitCaughtUpReplica(buf, r) == InitPlain(buf, r, 5)

\* The start of list k, whose count is at offset "at": Get...Count().
StartList(buf, r, k, at) ==
    LET count == Read(buf, at, 4)
        s == ClearStateVariables([r EXCEPT !.state = k])
    IN  IF Len(buf) - at < 4 THEN Throw(r, "Incomplete")
        ELSE IF count = Garbage THEN Throw(r, "Fault")
        ELSE IF count < 0 THEN Throw(r, "NegativeCount")
        ELSE LET t == [s EXCEPT !.left[k] = count, !.off[k] = at + 4]
             IN  IF k <= 2 THEN InitNamed(buf, t, k) ELSE InitPlain(buf, t, k)

\* while (left) { Next...(); }
SkipList(r, k, N(_)) ==
    FoldLeft(LAMBDA x, i : Try(x, N), r, [i \in 1 .. r.left[k] |-> i])

-----------------------------------------------------------------------------
FirstBroker(buf, r) ==
    IF Len(buf) < MinSize THEN Throw(r, "Incomplete")
    ELSE StartList(buf, r, 1, 8)

NextBroker(buf, r) ==
    IF r.state = 0 THEN FirstBroker(buf, r)
    ELSE Require(r, r.state = 1 /\ r.left[1] > 0, LAMBDA x :
            InitBroker(buf, [x EXCEPT !.left[1] = @ - 1,
                                      !.off[1] = ToSize(@ + ItemSize(1, x.len[1]))]))

SkipRemainingBrokers(buf, r) ==
    LET s == IF r.state = 0 THEN FirstBroker(buf, r) ELSE r
    IN  SkipList(s, 1, LAMBDA x : NextBroker(buf, x))

FirstTopic(buf, r) ==
    LET s == IF r.state <= 1 THEN SkipRemainingBrokers(buf, r) ELSE r
    IN  Try(s, LAMBDA x : StartList(buf, x, 2, x.off[1]))

FirstReplicaInPartition(buf, r) ==
    StartList(buf, r, 4, r.off[3] + 10)

NextReplicaInPartition(buf, r) ==
    IF r.state = 3 THEN FirstReplicaInPartition(buf, r)
    ELSE Require(r, r.state = 4 /\ r.left[4] > 0, LAMBDA x :
            InitReplica(buf, [x EXCEPT !.left[4] = @ - 1, !.off[4] = @ + 4]))

SkipRemainingReplicas(buf, r) ==
    LET s == IF r.state = 3 THEN FirstReplicaInPartition(buf, r) ELSE r
    IN  SkipList(s, 4, LAMBDA x : NextReplicaInPartition(buf, x))

FirstCaughtUpReplicaInPartition(buf, r) ==
    LET s == IF r.state <= 4 THEN SkipRemainingReplicas(buf, r) ELSE r
    IN  Try(s, LAMBDA x : StartList(buf, x, 5, x.off[4]))

NextCaughtUpReplicaInPartition(buf, r) ==
    IF r.state < 5 THEN FirstCaughtUpReplicaInPartition(buf, r)
    ELSE Require(r, r.left[5] > 0, LAMBDA x :
            InitCaughtUpReplica(buf, [x EXCEPT !.left[5] = @ - 1, !.off[5] = @ + 4]))

SkipRemainingCaughtUpReplicas(buf, r) ==
    LET s == IF r.state = 4 THEN FirstCaughtUpReplicaInPartition(buf, r) ELSE r
    IN  SkipList(s, 5, LAMBDA x : NextCaughtUpReplicaInPartition(buf, x))

FirstPartitionInTopic(buf, r) ==
    StartList(buf, r, 3, r.off[2] + 4 + r.len[2])

\* The lists of the partition are skipped first, whichever of them is open.
NextPartitionInTopic(buf, r) ==
    LET Replicas(x) == IF x.state = 5 THEN x ELSE SkipRemainingReplicas(buf, x)
        CaughtUp(x) == SkipRemainingCaughtUpReplicas(buf, x)
        Advance(x) == InitPartition(buf, [x EXCEPT
                          !.state = 3, !.left[3] = @ - 1, !.off[3] = x.off[5]])
    IN  IF r.state = 2 THEN FirstPartitionInTopic(buf, r)
        ELSE Require(r, r.state >= 3 /\ r.left[3] > 0, LAMBDA x :
                Try(Try(Replicas(x), CaughtUp), Advance))

SkipRemainingPartitions(buf, r) ==
    LET s == IF r.state = 2 THEN FirstPartitionInTopic(buf, r) ELSE r
    IN  SkipList(s, 3, LAMBDA x : NextPartitionInTopic(buf, x))

NextTopic(buf, r) ==
    IF r.state <= 1 THEN FirstTopic(buf, r)
    ELSE Require(r, r.left[2] > 0, LAMBDA y :
            Try(SkipRemainingPartitions(buf, y), LAMBDA x :
                InitTopic(buf, [x EXCEPT !.state = 2, !.left[2] = @ - 1,
                                         !.off[2] = x.off[3]])))

SkipRemainingTopics(buf, r) ==
    LET s == IF r.state = 1 THEN FirstTopic(buf, r) ELSE r
    IN  SkipList(s, 2, LAMBDA x : NextTopic(buf, x))

-----------------------------------------------------------------------------
(* The fields of the current items, without the checks of the getters,      *)
(* which BrokerError and PartitionError give.                               *)

GetCorrelationId(buf) == Read(buf, 4, 4)

GetCurrentBrokerNodeId(buf, r) == Read(buf, r.off[1], 4)

GetCurrentBrokerHost(buf, r) == Read(buf, r.off[1] + 6, r.len[1])

GetCurrentBrokerPort(buf, r) == Read(buf, r.off[1] + 6 + r.len[1], 4)

GetCurrentTopicErrorCode(buf, r) == Read(buf, r.off[2], 2)

GetCurrentTopicName(buf, r) == Read(buf, r.off[2] + 4, r.len[2])

GetCurrentPartitionErrorCode(buf, r) == Read(buf, r.off[3], 2)

GetCurrentPartitionId(buf, r) == Read(buf, r.off[3] + 2, 4)

GetCurrentPartitionLeaderId(buf, r) == Read(buf, r.off[3] + 6, 4)

GetCurrentReplicaNodeId(buf, r) == Read(buf, r.off[4], 4)

GetCurrentCaughtUpReplicaNodeId(buf, r) == Read(buf, r.off[5], 4)

MaxPort == 65535

\* What the getters of the current broker throw.
BrokerError(buf, r) ==
    LET id == GetCurrentBrokerNodeId(buf, r)
        port == GetCurrentBrokerPort(buf, r)
    IN  IF Garbage \in {id, port, GetCurrentBrokerHost(buf, r)} THEN "Fault"
        ELSE IF id < 0 THEN "NegativeBrokerNodeId"
        ELSE IF port \notin 0 .. MaxPort THEN "BadBrokerPort"
        ELSE "None"

\* What the getters of the current partition throw; -1 is "no leader".
PartitionError(buf, r) ==
    LET id == GetCurrentPartitionId(buf, r)
        leader == GetCurrentPartitionLeaderId(buf, r)
    IN  IF Garbage \in {id, leader, GetCurrentPartitionErrorCode(buf, r)} THEN "Fault"
        ELSE IF id < 0 THEN "NegativePartitionId"
        ELSE IF leader < -1 THEN "InvalidLeaderNodeId"
        ELSE "None"
==============================================================================
