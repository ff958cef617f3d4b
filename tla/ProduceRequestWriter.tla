------------------------ MODULE ProduceRequestWriter -------------------------
(***************************************************************************)
(* TMsgSetWriter and TProduceRequestWriter (kafka_proto/produce/v0), with    *)
(* which the produce request factory serializes its messages.  Sizes, counts *)
(* and checksums are written back when what they describe is closed, and an  *)
(* open message can be rolled back or have its value resized.  A writer is a *)
(* record of its buffer, its state and its offsets; while a message set is   *)
(* open the buffer is the one of the message set writer.  Then the codecs    *)
(* that compress message sets.                                               *)
(***************************************************************************)
EXTENDS Wire

----------------------------------------------------------------------------
\* produce_request_constants.h.

RequestOverhead == 4 + 2 + 2 + 4 + 2 + 2 + 4 + 4

MsgOffsetSize == 8

MsgSizeSize == 4

CrcSize == 4

\* CRC, magic byte, attributes, key length and value length.
MinMsgSize == CrcSize + 1 + 1 + 4 + 4

CompressionAttr == [None |-> 0, Gzip |-> 1, Snappy |-> 2, Lz4 |-> 3]

\* A length field: -1 stands for 0.
LengthField(n) == IF n = 0 THEN -1 ELSE n

\* ComputeCrc32, the checksum of boost: any function of the bytes that tells
\* them apart will do.
Checksum(cells) ==
    LET fields == SelectSeq(cells, LAMBDA c : c # Rest)
        upTo[i \in 0 .. Len(fields)] ==
            IF i = 0 THEN Len(cells)
            ELSE (31 * upTo[i - 1] + 7 * fields[i].width + fields[i].value) % 65521
    IN  upTo[Len(fields)]

----------------------------------------------------------------------------
\* TMsgSetWriter.

MsgSetReset ==
    [state |-> "Idle", buf |-> <<>>, at |-> 0, size |-> 0, item |-> 0,
     keyAt |-> 0, valueAt |-> 0, keySize |-> 0, valueSize |-> 0]

\* OpenMsgSet: the messages go to the end of buf.
MsgSetOpened(buf) == [MsgSetReset EXCEPT !.state = "InMsgSet", !.buf = buf, !.at = Len(buf)]

ComputeMsgMinusValueSize(keySize) == MinMsgSize + keySize

ComputeMsgSetItemSize(msgSize) == MsgOffsetSize + MsgSizeSize + msgSize

\* OpenMsg: everything but the sizes, the checksum, the key and the value.
MsgOpened(s, type, keySize, valueSize) ==
    LET item == ComputeMsgSetItemSize(ComputeMsgMinusValueSize(keySize) + valueSize)
        crcAt == s.at + MsgOffsetSize + MsgSizeSize
        magicAt == crcAt + CrcSize
        offset == Write(Grow(s.buf, item), s.at, MsgOffsetSize, 0)
        magic == Write(offset, magicAt, 1, 0)
        attrs == Write(magic, magicAt + 1, 1, CompressionAttr[type])
    IN  [s EXCEPT !.state = "InMsg", !.item = s.at,
                  !.buf = Write(attrs, magicAt + 2, 4, LengthField(keySize)),
                  !.keyAt = magicAt + 6, !.valueAt = magicAt + 10 + keySize,
                  !.at = magicAt + 10 + keySize,
                  !.keySize = keySize, !.valueSize = valueSize]

\* std::vector::resize.
Resized(buf, n) == IF n <= Len(buf) THEN SubSeq(buf, 1, n) ELSE Grow(buf, n - Len(buf))

ValueSizeAdjusted(s, n) ==
    [s EXCEPT !.buf = Resized(@, Len(@) - s.valueSize + n), !.valueSize = n]

ItemForgotten(s) ==
    [s EXCEPT !.state = "InMsgSet", !.item = 0, !.keyAt = 0, !.valueAt = 0,
              !.keySize = 0, !.valueSize = 0]

\* Mutant: the bytes of the message stay in the buffer.
RollbackKeepsBytes(s) == ItemForgotten([s EXCEPT !.at = s.item])

MsgRolledBack(s) ==
    ItemForgotten([s EXCEPT !.buf = Resized(@, s.item), !.at = s.item])

\* CloseMsg: the sizes, then the checksum of all that follows it.
MsgClosed(s) ==
    LET msgSize == ComputeMsgMinusValueSize(s.keySize) + s.valueSize
        crcAt == s.item + MsgOffsetSize + MsgSizeSize
        sized == Write(s.buf, s.item + MsgOffsetSize, MsgSizeSize, msgSize)
        whole == Write(sized, s.keyAt + s.keySize, 4, LengthField(s.valueSize))
        crc == Checksum(SubSeq(whole, crcAt + CrcSize + 1, crcAt + msgSize))
    IN  ItemForgotten([s EXCEPT !.buf = Write(whole, crcAt, CrcSize, crc),
                                !.at = @ + s.valueSize,
                                !.size = @ + ComputeMsgSetItemSize(msgSize)])

\* What a caller of OpenMsg copies to GetCurrentMsgKeyOffset and
\* GetCurrentMsgValueOffset, and AddMsg: a whole message.
MsgAdded(s, key, value) ==
    LET opened == MsgOpened(s, "None", NameLength(key), NameLength(value))
        keyed == Write(opened.buf, opened.keyAt, NameLength(key), key)
    IN  MsgClosed([opened EXCEPT
            !.buf = Write(keyed, opened.valueAt, NameLength(value), value)])

----------------------------------------------------------------------------
\* TProduceRequestWriter.

RequestReset ==
    [state |-> "Idle", buf |-> <<>>, at |-> 0, topicCountAt |-> 0, topicCount |-> 0,
     partitionCountAt |-> 0, partitionCount |-> 0, partitionAt |-> 0, set |-> MsgSetReset]

RequestOpened(correlationId, clientId, requiredAcks, replicationTimeout) ==
    LET idSize == NameLength(clientId)
        ids == Write(Write(Write(Grow(<<>>, RequestOverhead + idSize), 4, 2, 0), 6, 2, 0),
                     8, 4, correlationId)
        client == Write(Write(ids, 12, 2, LengthField(idSize)), 14, idSize, clientId)
        acks == Write(client, 14 + idSize, 2, requiredAcks)
    IN  [RequestReset EXCEPT !.state = "InRequest",
                             !.buf = Write(acks, 16 + idSize, 4, replicationTimeout),
                             !.at = RequestOverhead + idSize, !.topicCountAt = 20 + idSize]

TopicOpened(w, topic) ==
    LET size == NameLength(topic)
        grown == Grow(w.buf, 6 + size)
        named == Write(Write(grown, w.at, 2, LengthField(size)), w.at + 2, size, topic)
    IN  [w EXCEPT !.state = "InTopic", !.buf = named, !.partitionCount = 0,
                  !.partitionCountAt = w.at + 2 + size, !.at = @ + 6 + size]

\* OpenMsgSet: the partition and its message set writer.
PartitionOpened(w, partition) ==
    LET buf == Write(Grow(w.buf, 8), w.at, 4, partition)
    IN  [w EXCEPT !.state = "InMsgSet", !.buf = buf, !.partitionAt = w.at,
                  !.at = @ + 8, !.set = MsgSetOpened(buf)]

\* CloseMsgSet: the size of the set goes to its place.
PartitionClosed(w) ==
    [w EXCEPT !.state = "InTopic", !.at = Len(w.set.buf),
              !.buf = Write(w.set.buf, w.partitionAt + 4, 4, w.set.size),
              !.partitionCount = @ + 1]

TopicClosed(w) ==
    [w EXCEPT !.state = "InRequest", !.topicCount = @ + 1,
              !.buf = Write(@, w.partitionCountAt, 4, w.partitionCount)]

\* CloseRequest: the topic count and the size of what follows the size field.
RequestClosed(w) ==
    [w EXCEPT !.state = "Idle",
              !.buf = Write(Write(@, w.topicCountAt, 4, w.topicCount), 0, 4, Len(@) - 4)]

------------------------------------------------------------------------------
(***************************************************************************)
(* The compression codecs (dory/compress): gzip, lz4 and snappy behind       *)
(* TCompressionCodecApi.  The libraries themselves are external.  What one   *)
(* of them makes of some bytes is a frame: a field that remembers the codec, *)
(* the level and the bytes.  How a library call turns out is a record lib:   *)
(* the call that fails, if any, and the size of the frame.  A codec call     *)
(* gives Thrown for an exception TError.                                     *)
(***************************************************************************)

CONSTANT FrameOverhead      \* of the libraries' bounds on compressed sizes

Thrown == [ok |-> FALSE, size |-> 0, cells |-> <<>>]

Returned(cells) == [ok |-> TRUE, size |-> Len(cells), cells |-> cells]

ReturnedSize(n) == [ok |-> TRUE, size |-> n, cells |-> <<>>]

NoLevel == -100

----------------------------------------------------------------------------
\* The libraries.

Frame(codec, level, data, n) ==
    [i \in 1 .. n |->
        IF i = 1
        THEN [width |-> n, value |-> Len(data), codec |-> codec, level |-> level,
              data |-> data]
        ELSE Rest]

\* deflateBound, LZ4F_compressBound, snappy_max_compressed_length.
Bound(n) == n + FrameOverhead

\* The levels deflateInit2 and LZ4F_compressBegin take.
LibLevels == [Gzip |-> -1 .. 9, Lz4 |-> 0 .. 16, Snappy |-> {0}]

\* Whether cells are a whole frame of the codec.
IsFrame(codec, cells) ==
    /\ Len(cells) > 0
    /\ "codec" \in DOMAIN cells[1]
    /\ cells[1].codec = codec
    /\ cells[1].width = Len(cells)

----------------------------------------------------------------------------
\* TCompressionCodecApi and its users.

HasCodec(type) == type \in {"Gzip", "Lz4", "Snappy"}

\* GetRealCompressionLevel of the gzip and lz4 codecs: the level that was asked
\* for if the codec has it, its default otherwise.
GzipLevel(requested) == IF requested \in 0 .. 9 THEN requested ELSE -1

Lz4Level(requested) == IF requested \in 0 .. 16 THEN requested ELSE 0

GetRealCompressionLevel(type, requested) ==
    CASE type = "Gzip" -> GzipLevel(requested)
      [] type = "Lz4" -> Lz4Level(requested)
      [] OTHER -> NoLevel

\* CompressionLevelParam: a codec without levels gets a 0 that it ignores.
CompressionLevelParam(type, requested) ==
    IF GetRealCompressionLevel(type, requested) = NoLevel THEN 0
    ELSE GetRealCompressionLevel(type, requested)

\* CheckStatus, CheckLz4Status and CheckSnappyStatus: whatever a library call
\* reports other than success is thrown.
CallFails(call, lib) == lib.fails = call

\* DoComputeCompressedResultBufSpace: gzip sets a stream up first, snappy's
\* call cannot fail.
ComputeCompressedResultBufSpace(type, n, lib) ==
    IF CallFails("bound", lib) /\ type # "Snappy" THEN Thrown ELSE ReturnedSize(Bound(n))

\* TGzipCodec::DoCompress: one call of deflate that must reach the end of the
\* stream.
GzipDoCompress(data, space, level, lib) ==
    IF CallFails("begin", lib) \/ CallFails("run", lib) \/ CallFails("end", lib)
    THEN Thrown ELSE Returned(Frame("Gzip", level, data, lib.size))

\* TLz4Codec::DoCompress: LZ4F_compressBegin, LZ4F_compressUpdate and
\* LZ4F_compressEnd, each into the room that the ones before it have left.
Lz4DoCompress(data, space, level, lib) ==
    LET header == 1
        update == lib.size - 2
        capacityAfterBegin == space - header
        capacityAfterUpdate == capacityAfterBegin - update
        capacityAfterEnd == capacityAfterUpdate - 1
    IN  IF CallFails("begin", lib) \/ CallFails("run", lib) \/ CallFails("end", lib)
        THEN Thrown
        ELSE Returned(Frame("Lz4", level, data, space - capacityAfterEnd))

\* TSnappyCodec::DoCompress: one call.
SnappyDoCompress(data, lib) ==
    IF CallFails("run", lib) THEN Thrown ELSE Returned(Frame("Snappy", 0, data, lib.size))

\* Compress: the size that is returned is that of the frame.
Compress(type, data, space, requested, lib) ==
    LET level == CompressionLevelParam(type, requested)
    IN  IF level \notin LibLevels[type] THEN Thrown
        ELSE CASE type = "Gzip" -> GzipDoCompress(data, space, level, lib)
               [] type = "Lz4" -> Lz4DoCompress(data, space, level, lib)
               [] type = "Snappy" -> SnappyDoCompress(data, lib)

----------------------------------------------------------------------------
\* DoUncompress of the gzip codec: inflate fills the room it is given, again and
\* again, until the end of the stream; only when the output is kept can it run
\* out of room.
GzipDoUncompress(cells, space, preserveOutput) ==
    IF ~ IsFrame("Gzip", cells) \/ (preserveOutput /\ Len(cells[1].data) > space)
    THEN Thrown ELSE Returned(cells[1].data)

\* A frame of lz4 says how large its content is: nothing, or more than 255 times
\* the frame, is refused.
Lz4UncompressedSpace(cells) ==
    IF ~ IsFrame("Lz4", cells) THEN Thrown
    ELSE LET n == Len(cells[1].data)
         IN  IF n = 0 \/ n > 255 * Len(cells) THEN Thrown ELSE ReturnedSize(n)

ComputeUncompressedResultBufSpace(type, cells) ==
    CASE type = "Gzip" -> LET r == GzipDoUncompress(cells, 0, FALSE)
                          IN  [r EXCEPT !.cells = <<>>]
      [] type = "Lz4" -> Lz4UncompressedSpace(cells)
      [] type = "Snappy" -> IF IsFrame("Snappy", cells) THEN ReturnedSize(Len(cells[1].data))
                            ELSE Thrown

\* TLz4Codec::Uncompress: LZ4F_decompress until the input is used up.
Lz4Uncompress(cells, space) ==
    IF ~ IsFrame("Lz4", cells) \/ Len(cells[1].data) > space THEN Thrown
    ELSE Returned(cells[1].data)

Uncompress(type, cells, space) ==
    CASE type = "Gzip" -> GzipDoUncompress(cells, space, TRUE)
      [] type = "Lz4" -> Lz4Uncompress(cells, space)
      [] type = "Snappy" -> IF IsFrame("Snappy", cells) /\ Len(cells[1].data) <= space
                            THEN Returned(cells[1].data) ELSE Thrown
==============================================================================
