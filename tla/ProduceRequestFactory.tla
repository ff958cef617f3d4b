----------------------- MODULE ProduceRequestFactory -----------------------
(***************************************************************************)
(* TProduceRequestFactory (msg_dispatch/produce_request_factory.cc): a       *)
(* connector puts batches of messages into it and takes produce requests out *)
(* of it.  A factory is a record: its queue of batches, its correlation id   *)
(* counter, its topic data (compression, and the chooser of a partition for  *)
(* messages that any partition will do for) and the metadata's choices.      *)
(* The contents of a request (TAllTopics) are a function from topics to      *)
(* functions from partitions to message sets.                                *)
(***************************************************************************)
EXTENDS ProduceRequestWriter, FiniteSets, SequencesExt

CONSTANTS
    ClientId,                   \* KafkaConfigConf.ClientId
    ReplicationTimeout,
    ProduceRequestDataLimit,    \* bytes of keys and values in a request
    MessageMaxBytes,            \* bytes of a message set that may get compressed
    SizeThresholdPercent,       \* a worse compression is not used
    TopicConfigs,               \* compression of the topics that have their own
    DefaultTopicConfig

RequiredAcks == -1

SingleMsgOverhead == MsgOffsetSize + MsgSizeSize + MinMsgSize

NoChoice == -1

EmptyFunction == [x \in {} |-> 0]

EmptyMsgSet == [size |-> 0, msgs |-> <<>>]

\* GetKeyAndValue().Size().
DataSize(m) == NameLength(m.key) + NameLength(m.value)

----------------------------------------------------------------------------
\* Topic data.

TCompressionInfo(conf) ==
    [type |-> conf.type, minSize |-> conf.minSize,
     level |-> GetRealCompressionLevel(conf.type, conf.level)]

\* TTopicData, with the state of its TAnyPartitionChooser.
TTopicData(conf) ==
    [info |-> TCompressionInfo(conf), count |-> 0, choice |-> NoChoice, used |-> FALSE]

InitTopicDataMap == [t \in DOMAIN TopicConfigs |-> TTopicData(TopicConfigs[t])]

\* GetTopicData: a topic without compression of its own gets the default.
TopicKnown(f, t) ==
    IF t \in DOMAIN f.data THEN f
    ELSE [f EXCEPT !.data = (t :> TTopicData(DefaultTopicConfig)) @@ @]

\* The factory of the constructor, of Init (with the metadata's choices) and of
\* Reset, which all keep the queue.
FactoryInit(queue, choices) ==
    [queue |-> queue, corr |-> 0, data |-> InitTopicDataMap, choices |-> choices]

FactoryReset(f) == [f EXCEPT !.corr = 0, !.data = EmptyFunction]

\* Put, PutFront and GetAll.
Put(f, batches) == [f EXCEPT !.queue = @ \o batches]

PutFront(f, batches) == [f EXCEPT !.queue = batches \o @]

IsEmpty(f) == f.queue = <<>>

----------------------------------------------------------------------------
\* TAnyPartitionChooser.

\* GetChoice and Choose: a choice stays until it is cleared.
ChoiceMade(f, t) ==
    LET d == f.data[t]
        n == Len(f.choices[t])
    IN  IF d.choice # NoChoice THEN f
        ELSE [f EXCEPT !.data[t].choice = f.choices[t][(d.count % n) + 1]]

\* ClearChoice: the next choice is another one if this one was used.
ClearChoice(d) ==
    [d EXCEPT !.choice = NoChoice, !.count = @ + (IF d.used THEN 1 ELSE 0), !.used = FALSE]

----------------------------------------------------------------------------
\* The contents of a request.

SetOf(contents, t, p) ==
    IF t \in DOMAIN contents /\ p \in DOMAIN contents[t] THEN contents[t][p]
    ELSE EmptyMsgSet

\* result[topic][partition] = set.
WithSet(contents, t, p, set) ==
    LET group == IF t \in DOMAIN contents THEN contents[t] ELSE EmptyFunction
    IN  (t :> ((p :> set) @@ group)) @@ contents

\* The front message of a factory, with the partition it gets.
Routed(f, m) == IF m.any THEN [m EXCEPT !.partition = f.data[m.topic].choice] ELSE m

\* A batch or the whole queue without its first element.
FrontConsumed(queue) ==
    IF Len(queue[1]) = 1 THEN Tail(queue) ELSE <<Tail(queue[1])>> \o Tail(queue)

\* Choices for a message: GetTopicData and, for AnyPartition, GetChoice.
Prepared(f, m) ==
    IF m.any THEN ChoiceMade(TopicKnown(f, m.topic), m.topic) ELSE TopicKnown(f, m.topic)

Compresses(f, t) == HasCodec(f.data[t].info.type)

\* A message joins its set; the size of a set counts only if it may get
\* compressed.
Consumed(f, contents, m) ==
    LET set == SetOf(contents, m.topic, m.partition)
        size == set.size + DataSize(m) + SingleMsgOverhead
    IN  [f |-> [f EXCEPT !.queue = FrontConsumed(@),
                         !.data[m.topic].used = @ \/ m.any],
         contents |-> WithSet(contents, m.topic, m.partition,
            [size |-> IF Compresses(f, m.topic) THEN size ELSE set.size,
             msgs |-> Append(set.msgs, m)])]

AddFirstMsg(f) ==
    LET Add(g) == Consumed(g, EmptyFunction, Routed(g, g.queue[1][1]))
    IN  Add(Prepared(f, f.queue[1][1]))

\* Mutant: the bytes of the message that would be too much are not counted.
AddsOneMsgTooMany(f, contents, dataSize) ==
    LET g == Prepared(f, f.queue[1][1])
        m == Routed(g, g.queue[1][1])
        c == Consumed(g, contents, m)
    IN  IF dataSize > ProduceRequestDataLimit
        THEN [full |-> TRUE, f |-> g, contents |-> contents, dataSize |-> dataSize]
        ELSE [full |-> FALSE, f |-> c.f, contents |-> c.contents,
              dataSize |-> dataSize + DataSize(m)]

\* TryConsumeFrontMsg: a message that does not fit keeps its partition, and its
\* topic the choice that was made for it.
TryConsumeFrontMsg(f, contents, dataSize) ==
    LET Full(g, left) == [full |-> TRUE, f |-> g, contents |-> left, dataSize |-> dataSize]
        Added(c, n) == [full |-> FALSE, f |-> c.f, contents |-> c.contents, dataSize |-> n]
        Try(g, m, set) ==
            IF dataSize + DataSize(m) > ProduceRequestDataLimit THEN Full(g, contents)
            ELSE IF Compresses(g, m.topic)
                    /\ set.size + DataSize(m) + SingleMsgOverhead > MessageMaxBytes
            THEN Full(g, WithSet(contents, m.topic, m.partition, set))
            ELSE Added(Consumed(g, contents, m), dataSize + DataSize(m))
        Routes(g, m) == Try(g, m, SetOf(contents, m.topic, m.partition))
        Known(g) == Routes(g, Routed(g, g.queue[1][1]))
    IN  Known(Prepared(f, f.queue[1][1]))

\* The loop of BuildRequestContents: every message that fits, in order.  A batch
\* has messages of one topic only, so that MultipleTopicBugFixup is never called.
RECURSIVE Filled(_, _, _)
Filled(f, contents, dataSize) ==
    LET After(t) == IF t.full THEN [f |-> t.f, contents |-> t.contents]
                    ELSE Filled(t.f, t.contents, t.dataSize)
    IN  IF IsEmpty(f) THEN [f |-> f, contents |-> contents]
        ELSE After(TryConsumeFrontMsg(f, contents, dataSize))

\* SanityCheckRequestContents: no empty sets, no empty groups.
SanityCheckRequestContents(contents) ==
    LET Kept(t) == {p \in DOMAIN contents[t] : contents[t][p].msgs # <<>>}
    IN  [t \in {u \in DOMAIN contents : Kept(u) # {}} |->
            [p \in Kept(t) |-> contents[t][p]]]

BuildRequestContents(f) ==
    LET size == DataSize(f.queue[1][1])
        Fill(first) == IF size < ProduceRequestDataLimit
                       THEN Filled(first.f, first.contents, size) ELSE first
        Finish(last) ==
            [f |-> [last.f EXCEPT !.data = [t \in DOMAIN @ |->
                        IF t \in DOMAIN last.contents THEN ClearChoice(@[t]) ELSE @[t]]],
             contents |-> SanityCheckRequestContents(last.contents)]
    IN  Finish(Fill(AddFirstMsg(f)))

----------------------------------------------------------------------------
\* Serialization.

\* The messages of a set, through the writer s of a message set:
\* SerializeUncompressedMsgSet, and SerializeToCompressionBuf with a new buffer.
MsgsWritten(s, msgs) ==
    FoldLeft(LAMBDA w, m : MsgAdded(w, m.key, m.value), s, msgs)

SerializeToCompressionBuf(msgs) == MsgsWritten(MsgSetOpened(<<>>), msgs).buf

\* How the library's calls turn out for n bytes: lib.shrinks says whether they
\* get smaller.
LibResult(lib, n) ==
    [fails |-> lib.fails, size |-> IF lib.shrinks THEN n \div 2 + 2 ELSE Bound(n)]

\* A step of WriteOneMsgSet: the writer, and whether the set has been written.
Undone(s) == [s |-> s, done |-> FALSE]

\* The message that was opened gets the compressed set, if there is one and it
\* pays; else what was written is undone.
FrameWritten(opened, frame, length) ==
    IF ~ frame.ok \/ 100 * frame.size > SizeThresholdPercent * length
    THEN Undone(MsgRolledBack(opened))
    ELSE [s |-> MsgClosed(ValueSizeAdjusted(
                    [opened EXCEPT !.buf = Copied(@, opened.valueAt, frame.cells)], frame.size)),
          done |-> TRUE]

CompressedInto(s, info, data, result, space) ==
    IF ~ space.ok THEN Undone(s)
    ELSE FrameWritten(MsgOpened(s, info.type, 0, space.size),
                      Compress(info.type, data, space.size, info.level, result), Len(data))

CompressedWith(s, info, data, result) ==
    CompressedInto(s, info, data, result,
                   ComputeCompressedResultBufSpace(info.type, Len(data), result))

WriteCompressed(s, info, data, lib) ==
    CompressedWith(s, info, data, LibResult(lib, Len(data)))

\* The messages as they are, if they have not been written.
PlainIfUndone(step, msgs) == IF step.done THEN step.s ELSE MsgsWritten(step.s, msgs)

\* WriteOneMsgSet: compressed into one message, if that is wanted, succeeds and
\* pays; else the messages as they are.
WriteOneMsgSet(s, set, info, lib) ==
    PlainIfUndone(IF ~ HasCodec(info.type) \/ set.size < info.minSize THEN Undone(s)
                  ELSE WriteCompressed(s, info, SerializeToCompressionBuf(set.msgs), lib),
                  set.msgs)

PartitionWritten(w, p, set, info, lib) ==
    PartitionClosed([PartitionOpened(w, p) EXCEPT !.set = WriteOneMsgSet(@, set, info, lib)])

TopicWritten(w, f, t, group, lib) ==
    LET Order == SetToSortSeq(DOMAIN group, LAMBDA a, b : a < b)
    IN  TopicClosed(FoldLeft(
            LAMBDA v, p : PartitionWritten(v, p, group[p], f.data[t].info, lib),
            TopicOpened(w, t), Order))

\* The bytes of a request; libs[t] is how compression turns out for topic t.
RequestWritten(f, corr, contents, libs) ==
    LET Order == SetToSortSeq(DOMAIN contents, LAMBDA a, b : a < b)
        opened == RequestOpened(corr, ClientId, RequiredAcks, ReplicationTimeout)
    IN  RequestClosed(FoldLeft(
            LAMBDA w, t : TopicWritten(w, f, t, contents[t], libs[t]), opened, Order)).buf

\* BuildRequest: the factory afterwards, the request and its bytes.
RequestOf(b, corr, libs) ==
    [f |-> [b.f EXCEPT !.corr = corr],
     request |-> [corr |-> corr, contents |-> b.contents],
     buf |-> RequestWritten(b.f, corr, b.contents, libs)]

BuildRequest(f, libs) == RequestOf(BuildRequestContents(f), f.corr + 1, libs)
=============================================================================
