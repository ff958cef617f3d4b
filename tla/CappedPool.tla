------------------------------ MODULE CappedPool ------------------------------
(***************************************************************************)
(* The memory of messages (src/capped): a pool with a fixed number of      *)
(* blocks, blobs that are chains of blocks, and the writer and the reader  *)
(* of blobs.                                                               *)
(*                                                                         *)
(* A memory is a record [next, first, data]: the pointer at the start of   *)
(* every block (NextBlock), the pool's FirstFreeBlock, and what every      *)
(* block holds.  Chains are made of these pointers only, so that a block   *)
(* in two chains, or a chain that runs into another, is a state the model  *)
(* can be in.  A sequence of bytes is a sequence of values.                *)
(***************************************************************************)
EXTENDS Integers, Sequences, SequencesExt

CONSTANTS
  MaxBuffer,         \* configuration: the bytes that the pool may use
  PoolBlockSize,     \* the bytes of a block (128)
  PointerSize        \* sizeof(void *)

ComputeBlockCount(max_buffer, block_size) ==
  IF max_buffer \div block_size > 1 THEN max_buffer \div block_size ELSE 1

(* A block has at least room for its pointer and as many bytes of data.    *)
BlockSize == IF PoolBlockSize > 2 * PointerSize THEN PoolBlockSize ELSE 2 * PointerSize
BlockCount == ComputeBlockCount(MaxBuffer, PoolBlockSize)
DataSize == BlockSize - PointerSize

Null == 0
Blocks == 1 .. BlockCount

(* The chain that starts at b.  One that is longer than the pool has a     *)
(* cycle.                                                                  *)
Chain(m, b) ==
  FoldLeft(LAMBDA chain, i : IF chain = <<>> \/ m.next[Last(chain)] = Null THEN chain
                             ELSE Append(chain, m.next[Last(chain)]),
           IF b = Null THEN <<>> ELSE <<b>>, [i \in 1 .. BlockCount |-> i])

(* Every block is linked in front of the one before it.                    *)
TPool == [next |-> [b \in Blocks |-> b - 1], first |-> BlockCount,
          data |-> [b \in Blocks |-> <<>>]]

DoFree(m, b) == [m EXCEPT !.next[b] = m.first, !.first = b]

DoFreeList(m, b) == FoldLeft(DoFree, m, Chain(m, b))

FreeList(m, b) == IF b = Null THEN m ELSE DoFreeList(m, b)

(* The first free block becomes the first one of the list.                 *)
MoveToList(s) ==
  LET b == s.mem.first
  IN IF ~s.ok \/ b = Null THEN [s EXCEPT !.ok = FALSE]
     ELSE [ok |-> TRUE, list |-> b,
           mem |-> [s.mem EXCEPT !.first = s.mem.next[b], !.next[b] = s.list]]

(* Mutant: what was taken before the pool was exhausted is not returned.   *)
AllocListKeepsSome(m, n) ==
  LET got == FoldLeft(LAMBDA s, i : MoveToList(s), [ok |-> TRUE, list |-> Null, mem |-> m],
                      [i \in 1 .. n |-> i])
  IN IF got.ok THEN got ELSE [got EXCEPT !.list = Null]

(* All of n blocks, or none: then it throws TMemoryCapReached.             *)
AllocList(m, n) ==
  LET got == FoldLeft(LAMBDA s, i : MoveToList(s), [ok |-> TRUE, list |-> Null, mem |-> m],
                      [i \in 1 .. n |-> i])
  IN IF got.ok THEN got
     ELSE [ok |-> FALSE, list |-> Null, mem |-> FreeList(got.mem, got.list)]

-----------------------------------------------------------------------------
(* A writer: the chain so far, how much of its last block is used (Cursor),*)
(* and NumBytes.                                                           *)
TWriter == [first |-> Null, last |-> Null, used |-> 0, numBytes |-> 0]

EmptyBlob == [first |-> Null, lastSize |-> 0, size |-> 0]

CancelBlob(m, w) == FreeList(m, w.first)

DraftBlob(w) ==
  IF w.first = Null THEN EmptyBlob
  ELSE [first |-> w.first, lastSize |-> w.used, size |-> w.numBytes]

FillLast(m, w, bytes) ==
  IF w.last = Null THEN m
  ELSE [m EXCEPT !.data[w.last] = SubSeq(@, 1, w.used) \o bytes]

(* The whole blocks of the list, and then the rest.                        *)
FillBlocks(m, chain, bytes) ==
  [m EXCEPT !.data = [b \in Blocks |->
     IF b \notin ToSet(chain) THEN m.data[b]
     ELSE LET i == CHOOSE j \in DOMAIN chain : chain[j] = b
          IN SubSeq(bytes, (i - 1) * DataSize + 1,
                    IF i = Len(chain) THEN Len(bytes) ELSE i * DataSize)]]

(* Mutant: a block that is full gets one more byte than it has room for.   *)
WriterSpaceOffByOne(w) == IF w.last = Null THEN 0 ELSE DataSize + 1 - w.used

WriterSpace(w) == IF w.last = Null THEN 0 ELSE DataSize - w.used

(* Write() of a number of bytes: into the last block, and into blocks that *)
(* it takes from the pool under the pool's lock.  If there are not enough, *)
(* it throws and leaves the writer as it was.                              *)
WriteBytes(m, w, bytes) ==
  LET n == Len(bytes)
      avail == WriterSpace(w)
      rest == SubSeq(bytes, avail + 1, n)
      begun == FillLast(m, w, SubSeq(bytes, 1, avail))
      got == AllocList(begun, (Len(rest) + DataSize - 1) \div DataSize)
      chain == Chain(got.mem, got.list)
      linked == IF w.last = Null THEN got.mem
                ELSE [got.mem EXCEPT !.next[w.last] = got.list]
  IN CASE w.last # Null /\ n <= avail ->
            [ok |-> TRUE, mem |-> FillLast(m, w, bytes),
             w |-> [w EXCEPT !.used = @ + n, !.numBytes = @ + n]]
       [] ~(w.last # Null /\ n <= avail) /\ ~got.ok ->
            [ok |-> FALSE, mem |-> got.mem, w |-> w]
       [] ~(w.last # Null /\ n <= avail) /\ got.ok ->
            [ok |-> TRUE, mem |-> FillBlocks(linked, chain, rest),
             w |-> [first |-> IF w.last = Null THEN got.list ELSE w.first,
                    last |-> IF chain = <<>> THEN Null ELSE Last(chain),
                    used |-> IF chain = <<>> THEN 0 ELSE Len(rest) - (Len(chain) - 1) * DataSize,
                    numBytes |-> w.numBytes + n]]

-----------------------------------------------------------------------------
(* A reader: its block and its position in it (Cursor), BytesRemaining, and*)
(* what it has copied.                                                     *)
TReader(blob) ==
  [block |-> blob.first, cursor |-> 0, remaining |-> blob.size, got |-> <<>>, ok |-> TRUE]

(* One block of the loop in Advance(): left is what is still to be read.   *)
AdvanceInBlock(m, blob, s) ==
  LET next == m.next[s.r.block]
      avail == (IF next # Null THEN DataSize ELSE blob.lastSize) - s.r.cursor
      taken == IF s.left < avail THEN s.left ELSE avail
      bytes == SubSeq(m.data[s.r.block], s.r.cursor + 1, s.r.cursor + taken)
  IN CASE s.left = 0 \/ ~s.r.ok -> s
       [] s.left > 0 /\ s.r.ok /\ s.r.block = Null -> [s EXCEPT !.r.ok = FALSE]
       [] s.left > 0 /\ s.r.ok /\ s.r.block # Null ->
            [left |-> s.left - taken,
             r |-> [block |-> IF s.left < avail THEN s.r.block ELSE next,
                    cursor |-> IF s.left < avail THEN s.r.cursor + taken ELSE 0,
                    remaining |-> s.r.remaining - taken,
                    got |-> s.r.got \o bytes, ok |-> TRUE]]

Advance(m, blob, r, n) ==
  IF n = 0 THEN r
  ELSE IF blob.size = 0 THEN [r EXCEPT !.ok = FALSE]
  ELSE FoldLeft(LAMBDA s, i : AdvanceInBlock(m, blob, s), [left |-> n, r |-> r],
                [i \in 1 .. BlockCount + 1 |-> i]).r

ReadBlob(m, blob, r, n) == Advance(m, blob, [r EXCEPT !.got = <<>>], n)

(* WriteKey() and WriteValue() of msg_util.cc: the key is what the blob    *)
(* starts with.                                                            *)
KeyOf(m, msg) == ReadBlob(m, msg.blob, TReader(msg.blob), msg.keySize).got

ValueOf(m, msg) ==
  ReadBlob(m, msg.blob, Advance(m, msg.blob, TReader(msg.blob), msg.keySize),
            msg.blob.size - msg.keySize).got
===============================================================================
