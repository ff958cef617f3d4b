-------------------------------- MODULE Wire ---------------------------------
(***************************************************************************)
(* Buffers of bytes that hold fields of several widths                      *)
(* (src/base/field_access.h, and the offsets of the *_fields.h headers).    *)
(*                                                                         *)
(* A buffer is a sequence of cells, one per byte, so that every size and    *)
(* offset is that of the code.  The first cell of a field has its width and *)
(* its value, the other cells of the field are Rest; the value of a string  *)
(* is a name of its width.  A read that leaves the buffer, or that does not *)
(* meet a field of its width, gives Garbage: what the bytes of other fields *)
(* would spell is never needed.  Offsets count from 0, as in the code.      *)
(***************************************************************************)
EXTENDS Integers, Sequences

CONSTANT NameLength(_)      \* the bytes of a name

Rest == [width |-> 0, value |-> 0]

\* A byte that std::vector::resize() has set to 0.
ZeroByte == [width |-> 1, value |-> 0]

Garbage == -1000000

Field(w, v) == [i \in 1 .. w |-> IF i = 1 THEN [width |-> w, value |-> v] ELSE Rest]

\* Appends n bytes.
Grow(buf, n) == buf \o [i \in 1 .. n |-> ZeroByte]

\* memcpy of bytes that are fields already.  The writers have made room before
\* they write.
Copied(buf, offset, cells) ==
    IF offset + Len(cells) > Len(buf) THEN buf
    ELSE SubSeq(buf, 1, offset) \o cells \o SubSeq(buf, offset + Len(cells) + 1, Len(buf))

\* WriteInt16ToHeader, WriteInt32ToHeader, memcpy of a string.
Write(buf, offset, w, v) == Copied(buf, offset, Field(w, v))

\* ReadInt16FromHeader, ReadInt32FromHeader, the bytes of a string.
Read(buf, offset, w) ==
    IF w >= 1 /\ offset >= 0 /\ offset + w <= Len(buf) /\ buf[offset + 1].width = w
    THEN buf[offset + 1].value ELSE Garbage

\* size_t: static_cast<size_t> of a negative int wraps, and so do sums.  The
\* modulus stands for 2^64: it is larger than any buffer.
SizeModulus == 1000000

ToSize(n) == n % SizeModulus

\* The prefix of a buffer that arrived.
Truncated(buf, n) == SubSeq(buf, 1, n)

------------------------------------------------------------------------------
(***************************************************************************)
(* TStreamMsgReader and TStreamMsgWithSizeReader<T> (src/base): messages     *)
(* that follow each other on a stream, each after a field with its size.     *)
(* They read metadata and produce responses and the messages of stream       *)
(* clients.  The buffer is a TBuf: "items" are the bytes that were read and  *)
(* not consumed, which start at "offset" in a storage of "storage" bytes.    *)
(* A reader is a record; its configuration is the record c:                  *)
(*   [fieldSize, isSigned, sizeIncludesField, fieldInMsg, maxBody, readSize].*)
(***************************************************************************)

NoSize == -1

EmptyBuf == [items |-> <<>>, offset |-> 0, storage |-> 0]

SpaceSize(b) == b.storage - b.offset - Len(b.items)

\* The data moves to the front of the storage, which then grows if that does
\* not make enough room.
DoAddSpace(b, n) ==
    [b EXCEPT !.offset = 0,
              !.storage = IF b.offset < n THEN @ + n - b.offset ELSE @]

EnsureSpace(b, n) ==
    IF SpaceSize(b) < n THEN DoAddSpace(b, n - SpaceSize(b)) ELSE b

MarkSpaceConsumed(b, bytes) == [b EXCEPT !.items = @ \o bytes]

MarkDataConsumed(b, n) ==
    [b EXCEPT !.items = SubSeq(@, n + 1, Len(@)),
              !.offset = IF n = Len(b.items) THEN 0 ELSE @ + n]

\* TImpl for an open descriptor; a reader that has none is at its end.
Reset(b) ==
    [state |-> "ReadNeeded", buf |-> MarkDataConsumed(b, Len(b.items)),
     msgOffset |-> 0, msgSize |-> 0, endOfInput |-> FALSE, bodySize |-> NoSize]

NoFd == [Reset(EmptyBuf) EXCEPT !.state = "AtEnd", !.endOfInput = TRUE]

\* GetNextMsg() of the reader with a size field: the size is read once, when
\* the field is there, and kept until the message is consumed.
BodySize(c, r) ==
    LET size == Read(r.buf.items, 0, c.fieldSize)
    IN  IF r.bodySize # NoSize THEN r.bodySize
        ELSE IF size < 0 THEN NoSize
        ELSE IF c.sizeIncludesField /\ size < c.fieldSize THEN NoSize
        ELSE IF /\ size > c.maxBody
                /\ c.sizeIncludesField => size - c.maxBody > c.fieldSize
             THEN NoSize
        ELSE IF c.sizeIncludesField THEN size - c.fieldSize ELSE size

TryAdvanceToNextMsg(c, r) ==
    LET n == Len(r.buf.items)
        body == BodySize(c, r)
        none == IF r.endOfInput THEN "AtEnd" ELSE "ReadNeeded"
    IN  IF n < c.fieldSize THEN [r EXCEPT !.state = none]
        ELSE IF body = NoSize THEN [r EXCEPT !.state = "DataInvalid"]
        ELSE IF n < c.fieldSize + body
             THEN [r EXCEPT !.state = none, !.bodySize = body]
        ELSE [r EXCEPT !.state = "MsgReady", !.bodySize = body,
                       !.msgOffset = IF c.fieldInMsg THEN 0 ELSE c.fieldSize,
                       !.msgSize = IF c.fieldInMsg THEN body + c.fieldSize ELSE body]

\* Read() when read() gives the bytes: none of them is the end of the stream.
ReadBytes(c, r, bytes) ==
    TryAdvanceToNextMsg(c,
        [r EXCEPT !.buf = MarkSpaceConsumed(EnsureSpace(@, c.readSize), bytes),
                  !.endOfInput = (bytes = <<>>)])

GetReadyMsg(r) == SubSeq(r.buf.items, r.msgOffset + 1, r.msgOffset + r.msgSize)

ConsumeReadyMsg(c, r) ==
    TryAdvanceToNextMsg(c,
        [r EXCEPT !.buf = MarkDataConsumed(@, r.msgOffset + r.msgSize),
                  !.msgOffset = 0, !.msgSize = 0, !.bodySize = NoSize])

\* The assertions of TBuf and of the reader: the data fits into the storage,
\* and a message that is ready lies in the data.
ReaderOK(r) ==
    /\ r.buf.storage >= 0 /\ SpaceSize(r.buf) >= 0
    /\ r.buf.storage = 0 \/ r.buf.offset < r.buf.storage
    /\ r.msgOffset + r.msgSize <= Len(r.buf.items)
    /\ r.state = "ReadNeeded" => ~r.endOfInput /\ r.msgSize = 0
==============================================================================
