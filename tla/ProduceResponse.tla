--------------------------- MODULE ProduceResponse ---------------------------
(***************************************************************************)
(* Produce responses: TProduceResponseWriter, with which the mock Kafka      *)
(* server acknowledges a request, TProduceResponseReader and ProcessAck of   *)
(* TProduceProto, with which Dory reads the answer (kafka_proto/produce/v0). *)
(* Readers are records as in ProduceRequestReader.                           *)
(***************************************************************************)
EXTENDS Wire, FiniteSets, SequencesExt

LOCAL Null == -1

PartitionAckSize == 4 + 2 + 8

----------------------------------------------------------------------------
\* TProduceResponseWriter.

ResponseOpened(correlationId) ==
    [buf |-> Write(Grow(<<>>, 12), 4, 4, correlationId), topicAt |-> 12,
     topics |-> 0, countAt |-> 0, partitionAt |-> 0, partitions |-> 0]

AckTopicOpened(w, topic) ==
    LET size == NameLength(topic)
        grown == Grow(w.buf, 6 + size)
        length == Write(grown, w.topicAt, 2, IF size = 0 THEN -1 ELSE size)
    IN  [w EXCEPT !.buf = Write(length, w.topicAt + 2, size, topic),
                  !.countAt = w.topicAt + 2 + size, !.partitionAt = w.topicAt + 6 + size,
                  !.partitions = 0]

AckAdded(w, partition, error, offset) ==
    LET grown == Grow(w.buf, PartitionAckSize)
        p == w.partitionAt
    IN  [w EXCEPT !.buf = Write(Write(Write(grown, p, 4, partition), p + 4, 2, error),
                                p + 6, 8, offset),
                  !.partitionAt = @ + PartitionAckSize, !.partitions = @ + 1]

AckTopicClosed(w) ==
    [w EXCEPT !.buf = Write(@, w.countAt, 4, w.partitions), !.topicAt = w.partitionAt,
              !.topics = @ + 1, !.countAt = 0, !.partitionAt = 0, !.partitions = 0]

\* CloseResponse: the bytes of the response.
ResponseClosed(w) ==
    Write(Write(w.buf, 8, 4, w.topics), 0, 4, Len(w.buf) - 4)

----------------------------------------------------------------------------
\* TProduceResponseReader.

NoResponse ==
    [buf |-> <<>>, end |-> 0, numTopics |-> 0, topicIndex |-> -1, topicBegin |-> Null,
     nameEnd |-> Null, numPartitions |-> 0, partitionIndex |-> -1, err |-> "",
     more |-> FALSE]

SetResponse(buf) ==
    LET end == Read(buf, 0, 4) + 4
        numTopics == Read(buf, 8, 4)
        r == [NoResponse EXCEPT !.buf = buf, !.end = end]
    IN  IF Len(buf) < 12 THEN [NoResponse EXCEPT !.err = "ShortResponse"]
        ELSE IF Len(buf) < end THEN [r EXCEPT !.err = "ResponseTruncated"]
        ELSE IF numTopics < 0 THEN [r EXCEPT !.err = "BadTopicCount"]
        ELSE [r EXCEPT !.numTopics = numTopics]

AckCorrelationId(r) == Read(r.buf, 4, 4)

\* GetPartitionStart.
AckStart(r, index) == r.nameEnd + 4 + index * PartitionAckSize

\* InitCurrentTopic.
AckTopicInit(r) ==
    LET size == Read(r.buf, r.topicBegin, 2)
        nameEnd == r.topicBegin + 2 + (IF size = -1 THEN 0 ELSE size)
        numPartitions == Read(r.buf, nameEnd, 4)
    IN  IF r.topicBegin + 2 > r.end THEN [r EXCEPT !.err = "ResponseTruncated"]
        ELSE IF size < -1 THEN [r EXCEPT !.err = "BadTopicNameLength"]
        ELSE IF nameEnd + 4 > r.end THEN [r EXCEPT !.err = "ResponseTruncated"]
        ELSE IF numPartitions < 0 THEN [r EXCEPT !.err = "BadPartitionCount"]
        ELSE [r EXCEPT !.nameEnd = nameEnd, !.numPartitions = numPartitions,
                       !.partitionIndex = -1, !.more = TRUE]

\* FirstTopic and NextTopic.
NextAckTopic(r) ==
    LET t == [r EXCEPT !.topicIndex = @ + 1,
                       !.topicBegin = IF r.topicIndex < 0 THEN 12
                                      ELSE AckStart(r, r.numPartitions)]
    IN  IF r.topicIndex < 0 /\ r.numTopics < 1 THEN [r EXCEPT !.more = FALSE]
        ELSE IF r.topicIndex >= r.numTopics THEN [r EXCEPT !.err = "range_error"]
        ELSE IF t.topicIndex < r.numTopics THEN AckTopicInit(t)
        ELSE [t EXCEPT !.topicBegin = Null, !.nameEnd = Null, !.numPartitions = 0,
                       !.partitionIndex = 0, !.more = FALSE]

\* FirstPartitionInTopic, NextPartitionInTopic and InitCurrentPartition.
NextAck(r) ==
    LET p == [r EXCEPT !.partitionIndex = @ + 1]
    IN  IF r.partitionIndex < 0 /\ r.numPartitions < 1 THEN [r EXCEPT !.more = FALSE]
        ELSE IF r.partitionIndex >= r.numPartitions THEN [r EXCEPT !.err = "range_error"]
        ELSE IF p.partitionIndex >= p.numPartitions THEN [p EXCEPT !.more = FALSE]
        ELSE IF AckStart(p, p.partitionIndex + 1) > p.end THEN [p EXCEPT !.err = "ResponseTruncated"]
        ELSE [p EXCEPT !.more = TRUE]

\* GetCurrentTopicName, GetCurrentPartitionNumber, GetCurrentPartitionErrorCode.
AckTopic(r) ==
    IF r.nameEnd = r.topicBegin + 2 THEN 0
    ELSE Read(r.buf, r.topicBegin + 2, r.nameEnd - r.topicBegin - 2)

AckPartition(r) == Read(r.buf, AckStart(r, r.partitionIndex), 4)

AckError(r) == Read(r.buf, AckStart(r, r.partitionIndex) + 4, 2)

----------------------------------------------------------------------------
\* ProcessAck: what an error code means for the messages of the set.  The codes
\* are those of TKafkaErrorCode.

NoError == 0

CorruptMessage == 2

\* Broker errors that new metadata will not cure: Unknown, OffsetOutOfRange,
\* InvalidFetchSize, BrokerNotAvailable .. OffsetMetadataTooLarge.
BrokerErrors == {-1, 1, 4} \cup 8 .. 12

\* GroupLoadInProgress .. InvalidCommitOffsetSize.
GroupErrors == 14 .. 28

\* TopicAuthorizationFailed .. UnsupportedForMessageFormat.
AdminErrors == 29 .. 43

\* UnknownTopicOrPartition, LeaderNotAvailable, NotLeaderForPartition,
\* RequestTimedOut, NetworkException: the messages are to be routed again with
\* new metadata.
PauseErrors == {3, 5, 6, 7, 13}

\* Mutant: an error without a name is taken for success.
TrustsUnknownErrors(error) ==
    CASE error \in BrokerErrors \cup GroupErrors \cup AdminErrors -> "Discard"
      [] error = CorruptMessage -> "Resend"
      [] error \in PauseErrors -> "Pause"
      [] OTHER -> "Ok"

\* An error without a name discards, too.
ProcessAck(error) ==
    CASE error = NoError -> "Ok"
      [] error = CorruptMessage -> "Resend"
      [] error \in PauseErrors -> "Pause"
      [] error \in BrokerErrors \cup GroupErrors \cup AdminErrors -> "Discard"
      [] OTHER -> "Discard"

------------------------------------------------------------------------------
(***************************************************************************)
(* TProduceResponseProcessor (msg_dispatch/produce_response_processor.cc):   *)
(* what becomes of the messages of a request when the response to it arrives.*)
(* A processor is a record of what is left of the request's contents (a      *)
(* function from topics to functions from partitions to message sets), of    *)
(* the lists that its caller takes from it, and of the messages that are     *)
(* done with.                                                                *)
(***************************************************************************)

CONSTANT MaxFailedDeliveryAttempts

Processor(contents) ==
    [left |-> contents, processed |-> {}, discarded |-> {}, immediateResend |-> <<>>,
     pauseAndResend |-> <<>>, withoutAcks |-> <<>>, pause |-> FALSE, bad |-> FALSE,
     err |-> "", action |-> ""]

\* A non-empty list of messages as a list of batches.
AsBatch(msgs) == IF msgs = <<>> THEN <<>> ELSE <<msgs>>

\* The messages after CountFailedDeliveryAttempt: those kept, those discarded.
Counted(msgs) == [i \in DOMAIN msgs |-> [msgs[i] EXCEPT !.attempts = @ + 1]]

CountFailedDeliveryAttempt(msgs) ==
    [kept |-> SelectSeq(Counted(msgs), LAMBDA m : m.attempts <= MaxFailedDeliveryAttempts),
     discarded |-> ToSet(SelectSeq(Counted(msgs),
                        LAMBDA m : m.attempts > MaxFailedDeliveryAttempts))]

\* What is left of the request without one message set.
SetDone(p, topic, partition) ==
    [p EXCEPT !.left[topic] = [q \in DOMAIN @ \ {partition} |-> @[q]]]

ProcessImmediateResendMsgSet(p, msgs) ==
    LET c == CountFailedDeliveryAttempt(msgs)
    IN  [p EXCEPT !.immediateResend = @ \o AsBatch(c.kept), !.discarded = @ \cup c.discarded]

ProcessPauseAndResendMsgSet(p, msgs) ==
    LET c == CountFailedDeliveryAttempt(msgs)
    IN  [p EXCEPT !.pauseAndResend = @ \o AsBatch(c.kept), !.discarded = @ \cup c.discarded]

\* ProcessOneAck: what the error code of a message set says of its messages.
ProcessOneAck(p, msgs, error) ==
    CASE ProcessAck(error) = "Ok" -> [p EXCEPT !.processed = @ \cup ToSet(msgs)]
      [] ProcessAck(error) = "Resend" -> ProcessImmediateResendMsgSet(p, msgs)
      [] ProcessAck(error) = "Discard" -> [p EXCEPT !.discarded = @ \cup ToSet(msgs)]
      [] ProcessAck(error) = "Pause" ->
            [ProcessPauseAndResendMsgSet(p, msgs) EXCEPT !.pause = TRUE]

\* ProcessNoAckMsgs, with EmptyAllTopics: what is left, one batch for a set.
ProcessNoAckMsgs(p) ==
    LET places == {x \in (DOMAIN p.left) \X (UNION {DOMAIN p.left[t] : t \in DOMAIN p.left}) :
                        x[2] \in DOMAIN p.left[x[1]]}
        order == SetToSortSeq(places, LAMBDA a, b :
                    a[1] < b[1] \/ (a[1] = b[1] /\ a[2] < b[2]))
    IN  [p EXCEPT !.withoutAcks = @ \o [i \in DOMAIN order |-> p.left[order[i][1]][order[i][2]].msgs],
                  !.left = [t \in {} |-> 0]]

\* The loop over the partitions of a topic of the response.
RECURSIVE PartitionAcks(_, _, _)
PartitionAcks(p, r, topic) ==
    LET Acked(s, partition) ==
            IF partition \notin DOMAIN p.left[topic]
            THEN [p |-> [p EXCEPT !.bad = TRUE], r |-> s]
            ELSE PartitionAcks(SetDone(ProcessOneAck(p, p.left[topic][partition].msgs, AckError(s)),
                                       topic, partition), s, topic)
        After(s) ==
            IF s.err # "" THEN [p |-> [p EXCEPT !.err = s.err], r |-> s]
            ELSE IF ~ s.more THEN [p |-> p, r |-> s]
            ELSE Acked(s, AckPartition(s))
    IN  After(NextAck(r))

\* The loop over the topics of the response, with those of its partitions.  One
\* that the request does not have ends it; so does a topic of which the response
\* leaves partitions out.
RECURSIVE TopicAcks(_, _)
TopicAcks(p, r) ==
    LET Done(q, topic) ==
            IF q.p.err # "" THEN q.p
            ELSE IF DOMAIN q.p.left[topic] # {} THEN [q.p EXCEPT !.bad = TRUE]
            ELSE TopicAcks([q.p EXCEPT !.left = [t \in DOMAIN @ \ {topic} |-> @[t]]], q.r)
        Of(s, topic) ==
            IF topic \notin DOMAIN p.left THEN [p EXCEPT !.bad = TRUE]
            ELSE Done(PartitionAcks(p, s, topic), topic)
        After(s) ==
            IF s.err # "" THEN [p EXCEPT !.err = s.err]
            ELSE IF ~ s.more THEN p
            ELSE Of(s, AckTopic(s))
    IN  After(NextAckTopic(r))

\* ProcessResponseAcks: a bad response leaves messages without acks.
ProcessResponseAcks(p, r) ==
    LET After(q) ==
            IF q.err # "" THEN q
            ELSE IF q.bad \/ DOMAIN q.left # {}
            THEN [ProcessNoAckMsgs([q EXCEPT !.bad = TRUE]) EXCEPT !.action = "PauseAndFinishNow"]
            ELSE [q EXCEPT !.action = IF q.pause THEN "PauseAndDeferFinish" ELSE "KeepRunning"]
    IN  After(TopicAcks(p, r))

\* ProcessResponse: the processor after a response; err is the exception that
\* leaves it.
ProcessResponse(request, buf) ==
    LET p == Processor(request.contents)
        After(r) ==
            IF r.err # "" THEN [p EXCEPT !.err = r.err]
            ELSE IF AckCorrelationId(r) # request.corr
            THEN [ProcessNoAckMsgs(p) EXCEPT !.action = "PauseAndFinishNow"]
            ELSE ProcessResponseAcks(p, r)
    IN  After(SetResponse(buf))
==============================================================================
