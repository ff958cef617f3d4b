----------------------------- MODULE BatcherCore -----------------------------
(***************************************************************************)
(* The decision a batcher takes about one new message: TBatcherCore and    *)
(* TBatchConfig of dory/batch.  A batch is described by three counters, so *)
(* the module holds only operators on that triple; the message lists are   *)
(* kept by the batchers that use it (Batchers.tla).                        *)
(***************************************************************************)
EXTENDS Integers

CONSTANTS
  TsRange,    \* TMsg::TTimestamp (int64_t) is the interval -TsRange .. TsRange-1
  None        \* std::nullopt

ASSUME TsRangeAssumption == TsRange \in Nat \ {0}
ASSUME NoneAssumption == None \notin Int

Timestamp == (-TsRange) .. (TsRange - 1)
MaxTimestamp == TsRange - 1

(* static_cast<TTimestamp> of the unsigned sum 'timestamp + size_t'.       *)
ToTimestamp(x) == ((x + TsRange) % (2 * TsRange)) - TsRange

(* TBatchConfig: a limit of zero is a disabled limit.                      *)
BatchConfig == [TimeLimit : Nat, MsgCount : Nat, ByteCount : Nat]
TimeLimitIsEnabled(cfg) == cfg.TimeLimit # 0
MsgCountLimitIsEnabled(cfg) == cfg.MsgCount # 0
ByteCountLimitIsEnabled(cfg) == cfg.ByteCount # 0
BatchingIsEnabled(cfg) ==
  TimeLimitIsEnabled(cfg) \/ MsgCountLimitIsEnabled(cfg)
    \/ ByteCountLimitIsEnabled(cfg)

CoreState == [MinTimestamp : Timestamp, MsgCount : Nat, ByteCount : Nat]

ClearState == [MinTimestamp |-> MaxTimestamp, MsgCount |-> 0, ByteCount |-> 0]

IsEmpty(core) == core.MsgCount = 0

Earlier(a, b) == IF a <= b THEN a ELSE b

GetNextCompleteTime(cfg, core) ==
  IF IsEmpty(core) \/ ~TimeLimitIsEnabled(cfg)
    THEN None
    ELSE ToTimestamp(core.MinTimestamp + cfg.TimeLimit)

TestTimeLimit(cfg, core, now, ts) ==
  /\ TimeLimitIsEnabled(cfg)
  /\ now >= ToTimestamp(Earlier(core.MinTimestamp, ts) + cfg.TimeLimit)

(* Mutant: one message too many.                                           *)
TestMsgCountOffByOne(cfg, core, toAdd) ==
  MsgCountLimitIsEnabled(cfg) /\ core.MsgCount + toAdd > cfg.MsgCount

TestMsgCount(cfg, core, toAdd) ==
  MsgCountLimitIsEnabled(cfg) /\ core.MsgCount + toAdd >= cfg.MsgCount

TestByteCount(cfg, core) ==
  ByteCountLimitIsEnabled(cfg) /\ core.ByteCount >= cfg.ByteCount

TestByteCountExceeded(cfg, core, bytes) ==
  ByteCountLimitIsEnabled(cfg) /\ core.ByteCount + bytes > cfg.ByteCount

TestAllLimits(cfg, core, now) ==
  \/ TestTimeLimit(cfg, core, now, MaxTimestamp)
  \/ TestMsgCount(cfg, core, 0)
  \/ TestByteCount(cfg, core)

UpdateState(core, ts, bytes) ==
  [MinTimestamp |-> Earlier(core.MinTimestamp, ts),
   MsgCount |-> core.MsgCount + 1,
   ByteCount |-> core.ByteCount + bytes]

(* An empty message counts as one byte.                                    *)
BodySize(size) == IF size = 0 THEN 1 ELSE size

(* A message that fills a batch by itself is never batched.                *)
FillsBatch(cfg, bytes) == ByteCountLimitIsEnabled(cfg) /\ bytes >= cfg.ByteCount

Decision(action, core) == [action |-> action, core |-> core]

(* Mutant: a message that overflows the batch is always taken, even when   *)
(* its own time limit has already passed.                                  *)
ProcessNewMsgAlwaysTake(cfg, core, now, ts, size) ==
  LET bytes == BodySize(size)
      added == UpdateState(core, ts, bytes)
  IN IF ~BatchingIsEnabled(cfg) THEN
       Decision("LeaveMsgAndReturnBatch", core)
     ELSE IF FillsBatch(cfg, bytes) THEN
       Decision("LeaveMsgAndReturnBatch", ClearState)
     ELSE IF TestByteCountExceeded(cfg, core, bytes) THEN
       Decision("ReturnBatchAndTakeMsg", UpdateState(ClearState, ts, bytes))
     ELSE IF TestAllLimits(cfg, added, now)
       THEN Decision("TakeMsgAndReturnBatch", ClearState)
       ELSE Decision("TakeMsgAndLeaveBatch", added)

(* The TAction returned, and the state the core is left in.                *)
ProcessNewMsg(cfg, core, now, ts, size) ==
  LET bytes == BodySize(size)
      added == UpdateState(core, ts, bytes)
  IN IF ~BatchingIsEnabled(cfg) THEN
       Decision("LeaveMsgAndReturnBatch", core)
     ELSE IF FillsBatch(cfg, bytes) THEN
       Decision("LeaveMsgAndReturnBatch", ClearState)
     ELSE IF TestByteCountExceeded(cfg, core, bytes) THEN
       IF TestMsgCount(cfg, ClearState, 1) \/ TestTimeLimit(cfg, ClearState, now, ts)
         THEN Decision("LeaveMsgAndReturnBatch", ClearState)
         ELSE Decision("ReturnBatchAndTakeMsg", UpdateState(ClearState, ts, bytes))
     ELSE IF TestAllLimits(cfg, added, now)
       THEN Decision("TakeMsgAndReturnBatch", ClearState)
       ELSE Decision("TakeMsgAndLeaveBatch", added)
==============================================================================
