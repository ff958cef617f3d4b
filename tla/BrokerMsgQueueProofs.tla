------------------------- MODULE BrokerMsgQueueProofs -------------------------
(***************************************************************************)
(* The safety of the hand-off between the router thread and a connector    *)
(* thread, for every batching configuration, timestamp width and number of *)
(* messages.  The invariants are inductive once the batchers' state is     *)
(* typed; the lemmas about the batchers come from BatcherTheorems.         *)
(***************************************************************************)
EXTENDS BrokerMsgQueue, BatcherTheorems

LEMMA TimestampIsInt == \A x \in Timestamp : x \in Int
BY TsRangeAssumption DEF Timestamp

(* min_opt_ts() returns the earlier of two optional timestamps.            *)
LEMMA MinOptTs ==
  ASSUME NEW a \in OptTimestamp, NEW b \in OptTimestamp
  PROVE  /\ min_opt_ts(a, b) \in OptTimestamp
         /\ min_opt_ts(a, b) \in {a, b}
         /\ min_opt_ts(a, b) = None <=> a = None /\ b = None
         /\ a # None => min_opt_ts(a, b) <= a
         /\ b # None => min_opt_ts(a, b) <= b
<1>1. a # None => a \in Int
  BY TimestampIsInt DEF OptTimestamp
<1>2. b # None => b \in Int
  BY TimestampIsInt DEF OptTimestamp
<1> QED BY <1>1, <1>2 DEF min_opt_ts, Earlier, OptTimestamp

LEMMA NextExpiryType ==
  ASSUME NEW p, PerTopicState(p), NEW c, CombinedState(c)
  PROVE  /\ PerTopicNextCompleteTime(p) \in OptTimestamp
         /\ CombinedNextCompleteTime(c) \in OptTimestamp
         /\ min_opt_ts(PerTopicNextCompleteTime(p), CombinedNextCompleteTime(c)) \in OptTimestamp
<1>1. PerTopicNextCompleteTime(p) \in OptTimestamp
  BY PerTopicNextCompleteTimeType DEF PerTopicState, OptTime, OptTimestamp
<1>2. CombinedNextCompleteTime(c) \in OptTimestamp
  BY NextCompleteTimeType, ConfigAssumption
     DEF CombinedNextCompleteTime, CombinedState, OptTime, OptTimestamp
<1> QED BY <1>1, <1>2, MinOptTs

(* No batch held back has a time limit at or before t.                     *)
NothingDueAt(p, c, t) ==
  /\ \A r \in p.ExpiryTracker : r.Expiry > t
  /\ CombinedNextCompleteTime(c) = None \/ CombinedNextCompleteTime(c) > t

LEMMA NothingDueNextExpiry ==
  ASSUME NEW p, PerTopicState(p), NEW c, CombinedState(c), NEW t \in Int, NothingDueAt(p, c, t)
  PROVE  LET e == min_opt_ts(PerTopicNextCompleteTime(p), CombinedNextCompleteTime(c))
         IN e = None \/ e > t
<1> DEFINE a == PerTopicNextCompleteTime(p)
           b == CombinedNextCompleteTime(c)
<1>1. a = None \/ a > t
  BY PerTopicNextCompleteTimeIsLeast DEF PerTopicState, NothingDueAt
<1>2. b = None \/ b > t
  BY DEF NothingDueAt
<1>3. a \in OptTimestamp /\ b \in OptTimestamp
  BY NextExpiryType
<1> HIDE DEF a, b
<1>4. min_opt_ts(a, b) = None \/ min_opt_ts(a, b) > t
  BY <1>1, <1>2, <1>3, MinOptTs, SMTT(60)
<1> QED BY <1>4 DEF a, b

(* CheckBothBatchers(): types are kept, nothing due at t is left, and      *)
(* nothing is added to the batchers.                                       *)
LEMMA CheckBothBatchersType ==
  ASSUME PerTopicState(pt), CombinedState(ct), NEW t \in Int, NEW order
  PROVE  LET r == CheckBothBatchers(t, order)
         IN /\ PerTopicState(r.pt) /\ CombinedState(r.ct)
            /\ NothingDueAt(r.pt, r.ct, t)
            /\ r.pt.ExpiryTracker \subseteq pt.ExpiryTracker
            /\ r.ct \in {ct, EmptyCombined}
<1> DEFINE p == CheckPerTopicBatcher(t, order).pt
           c == CheckCombinedTopicsBatcher(t, order).ct
           r == CheckBothBatchers(t, order)
<1>1. r.pt = p /\ r.ct = c
  BY DEF CheckBothBatchers
<1>2. /\ PerTopicState(p) /\ p.ExpiryTracker \subseteq pt.ExpiryTracker
      /\ \A x \in p.ExpiryTracker : x.Expiry > t
  <2>1. \A x \in pt.ExpiryTracker : x.Expiry \in Int
    BY TimestampIsInt DEF PerTopicState, ExpiryRecord
  <2>2. PerTopicNextCompleteTime(pt) \in OptTimestamp
    BY NextExpiryType
  <2>3. CASE PerTopicNextCompleteTime(pt) # None /\ PerTopicNextCompleteTime(pt) <= t
    <3>1. p = GetCompleteBatches(pt, t, order).pt
      BY <2>3 DEF CheckPerTopicBatcher
    <3>2. PerTopicState(p) /\ p.ExpiryTracker = {x \in pt.ExpiryTracker : ~(x.Expiry <= t)}
      BY <3>1, GetCompleteBatchesType
    <3> HIDE DEF p
    <3> QED BY <2>1, <3>2
  <2>4. CASE ~(PerTopicNextCompleteTime(pt) # None /\ PerTopicNextCompleteTime(pt) <= t)
    <3>1. p = pt
      BY <2>4 DEF CheckPerTopicBatcher
    <3>2. \A x \in pt.ExpiryTracker : PerTopicNextCompleteTime(pt) # None
                                      /\ PerTopicNextCompleteTime(pt) <= x.Expiry
      <4>1. \A x \in Timestamp : x # None
        BY TimestampIsInt, NoneAssumption
      <4> QED BY <4>1, PerTopicNextCompleteTimeIsLeast DEF PerTopicState
    <3>3. \A x \in pt.ExpiryTracker : x.Expiry > t
      BY <2>1, <2>2, <2>4, <3>2, TimestampIsInt, SMTT(60) DEF OptTimestamp
    <3> QED BY <3>1, <3>3
  <2> QED BY <2>3, <2>4
<1>3. /\ CombinedState(c) /\ c \in {ct, EmptyCombined}
      /\ CombinedNextCompleteTime(c) = None \/ CombinedNextCompleteTime(c) > t
  <2>1. CombinedNextCompleteTime(ct) \in OptTimestamp
    BY NextExpiryType
  <2>2. \/ c = EmptyCombined
        \/ /\ c = ct
           /\ ~(CombinedNextCompleteTime(ct) # None /\ CombinedNextCompleteTime(ct) <= t)
    BY DEF CheckCombinedTopicsBatcher, TakeBatch
  <2> HIDE DEF c
  <2> QED BY <2>1, <2>2, EmptyCombinedType, TimestampIsInt, SMTT(60) DEF OptTimestamp
<1> HIDE DEF p, c, r
<1> QED BY <1>1, <1>2, <1>3 DEF NothingDueAt, r

(* Put(): the batchers keep their types, and what they gain is not due.    *)
LEMMA PutResultType ==
  ASSUME PerTopicState(pt), CombinedState(ct), NEW t \in Int, NEW msg \in Msg, NEW order
  PROVE  LET r == PutResult(t, msg, order)
         IN /\ PerTopicState(r.pt) /\ CombinedState(r.ct)
            /\ r.pt = pt \/ \A x \in r.pt.ExpiryTracker : x.Expiry > t
            /\ r.ct = ct \/ CombinedNextCompleteTime(r.ct) = None
                 \/ CombinedNextCompleteTime(r.ct) > t
<1> DEFINE p == PerTopicAddMsg(pt, msg, t, order).pt
           c == CombinedAddMsg(ct, msg, t, order).ct
           r == PutResult(t, msg, order)
<1>1. r.pt \in {pt, p} /\ r.ct \in {ct, c}
  BY DEF PutResult, TryBatchPerTopic
<1>2. PerTopicState(p) /\ \A x \in p.ExpiryTracker : x.Expiry > t
  BY PerTopicAddMsgType
<1>3. /\ CombinedState(c)
      /\ CombinedNextCompleteTime(c) = None \/ CombinedNextCompleteTime(c) > t
  BY CombinedAddMsgType
<1> HIDE DEF p, c, r
<1> QED BY <1>1, <1>2, <1>3, SMTT(60) DEF r
------------------------------------------------------------------------------
(* Type correctness                                                        *)

LEMMA InitTypeOK == Init => TypeOK
<1> SUFFICES ASSUME Init PROVE TypeOK
  OBVIOUS
<1>1. PerTopicState(pt)
  BY DEF Init, EmptyPerTopic, PerTopicState
<1>2. CombinedState(ct)
  BY EmptyCombinedType DEF Init
<1> QED BY <1>1, <1>2 DEF Init, TypeOK, Idle, OptTimestamp

(* What a step does to the batchers: it leaves them, adds one message, or  *)
(* takes batches out.                                                      *)
LEMMA TakeAllType ==
  ASSUME PerTopicState(pt), NEW orderP, NEW orderC, TakeAll(orderP, orderC)
  PROVE  PerTopicState(pt') /\ CombinedState(ct')
<1>1. pt'.ExpiryTracker = {} /\ DOMAIN pt'.BatchMap = DOMAIN pt.BatchMap
      /\ \A t \in DOMAIN pt.BatchMap : pt'.BatchMap[t] = NewEntry
  BY DEF TakeAll, GetAllBatches
<1>2. PerTopicState(pt')
  BY <1>1, NewEntryType DEF PerTopicState
<1>3. CombinedState(ct')
  BY EmptyCombinedType, SMTT(60) DEF TakeAll
<1> QED BY <1>2, <1>3

LEMMA NextTypeOK == TypeOK /\ [Next]_vars => TypeOK'
<1> SUFFICES ASSUME TypeOK, [Next]_vars PROVE TypeOK'
  OBVIOUS
<1> USE DEF TypeOK
<1>1. ASSUME NEW shape \in MsgShapes, Dispatch(shape) PROVE TypeOK'
  <2>1. NewMsg(shape, msgCount + 1, "Put") \in Msg
    BY ShapesAssumption DEF NewMsg, Msg
  <2>2. /\ router'.pc = "lock" /\ router'.op = "Put" /\ router'.now = now
        /\ router'.batch = <<NewMsg(shape, msgCount + 1, "Put")>>
    BY <1>1 DEF Dispatch
  <2>3. router'.batch \in Seq(Msg) \ {<<>>}
    BY <2>1, <2>2
  <2> QED BY <1>1, <2>2, <2>3, SMTT(60) DEF Dispatch
<1>2. ASSUME NEW shape \in NowShapes, NEW n \in 1 .. 2, DispatchNow(shape, n) PROVE TypeOK'
  <2> DEFINE b == [i \in 1 .. n |-> NewMsg(shape, msgCount + i, "PutNow")]
  <2>1. \A i \in 1 .. n : NewMsg(shape, msgCount + i, "PutNow") \in Msg
    BY ShapesAssumption DEF NewMsg, Msg
  <2>2. b \in Seq(Msg) /\ Len(b) = n
    BY <2>1
  <2>3. /\ router'.pc = "lock" /\ router'.op = "PutNow" /\ router'.now = now
        /\ router'.batch = b
    BY <1>2 DEF DispatchNow
  <2>4. msgCount' = msgCount + n
    BY <1>2, SMTT(60) DEF DispatchNow
  <2> HIDE DEF b
  <2> QED BY <1>2, <2>2, <2>3, <2>4, SMTT(60) DEF DispatchNow
<1>3. ASSUME NEW order \in TopicOrders, Put(order) PROVE TypeOK'
  <2>1. router.batch[1] \in Msg /\ router.now \in Int
    BY <1>3 DEF Put
  <2>2. PerTopicState(pt') /\ CombinedState(ct')
    BY <1>3, <2>1, PutResultType, SMTT(60) DEF Put, LeaveQueue
  <2> QED BY <1>3, <2>2 DEF Put, LeaveQueue, Idle
<1>4. ASSUME NEW order \in TopicOrders, PutNow(order) PROVE TypeOK'
  <2>1. router.now \in Int
    BY <1>4, SMTT(60) DEF PutNow
  <2>2. PerTopicState(pt') /\ CombinedState(ct')
    BY <1>4, <2>1, CheckBothBatchersType, SMTT(60) DEF PutNow, LeaveQueue, PutNowResult
  <2> QED BY <1>4, <2>2, SMTT(60) DEF PutNow, LeaveQueue, Idle
<1>5. CASE PushSenderNotify
  BY <1>5 DEF PushSenderNotify, Idle
<1>6. CASE PollNotified
  BY <1>6 DEF PollNotified
<1>7. CASE PollTimedOut
  BY <1>7 DEF PollTimedOut
<1>8. ASSUME NEW order \in TopicOrders, CheckInputQueue(order) PROVE TypeOK'
  <2>1. conn.now \in Int
    OBVIOUS
  <2>2. PerTopicState(pt') /\ CombinedState(ct')
    BY <1>8, <2>1, CheckBothBatchersType, SMTT(60) DEF CheckInputQueue
  <2>3. OptNextBatchExpiry' \in OptTimestamp
    BY <1>8, <2>2, NextExpiryType, SMTT(60) DEF CheckInputQueue
  <2>4. conn'.pc = "poll" /\ conn'.now \in Nat
    BY <1>8 DEF CheckInputQueue
  <2> QED BY <1>8, <2>2, <2>3, <2>4, SMTT(60) DEF CheckInputQueue
<1>9. ASSUME NEW orderP, NEW orderC, GetAllOnShutdown(orderP, orderC) PROVE TypeOK'
  <2>1. PerTopicState(pt') /\ CombinedState(ct')
    BY <1>9, TakeAllType DEF GetAllOnShutdown
  <2> QED BY <1>9, <2>1 DEF GetAllOnShutdown
<1>10. ASSUME NEW orderP, NEW orderC, Reset(orderP, orderC) PROVE TypeOK'
  <2>1. PerTopicState(pt') /\ CombinedState(ct')
    BY <1>10, TakeAllType DEF Reset
  <2> QED BY <1>10, <2>1 DEF Reset
<1>11. CASE StopWatching
  BY <1>11 DEF StopWatching
<1>12. CASE Tick
  BY <1>12 DEF Tick
<1>13. CASE UNCHANGED vars
  BY <1>13 DEF vars
<1> HIDE DEF TypeOK
<1> QED BY <1>1, <1>2, <1>3, <1>4, <1>5, <1>6, <1>7, <1>8, <1>9, <1>10, <1>11, <1>12,
           <1>13, ZenonT(60)
  DEF Next, RouterStep, ConnectorStep, Done

(* Every reachable state of the queue and its two threads is well typed.   *)
THEOREM TypeCorrect == Spec => []TypeOK
BY InitTypeOK, NextTypeOK, PTL DEF Spec

------------------------------------------------------------------------------
(* No wakeup is lost                                                       *)

(* The invariant is inductive: Put() without a push leaves the ready list  *)
(* empty if it was, and no expiry earlier than the one that was known;     *)
(* PutNow() without a push finds a nonempty list, whose push is pending.   *)
LEMMA NextNoLostWakeup == TypeOK /\ NoLostWakeup /\ [Next]_vars => NoLostWakeup'
<1> SUFFICES ASSUME TypeOK, NoLostWakeup, [Next]_vars,
                    conn'.pc = "poll", router'.pc # "push"
             PROVE  /\ ReadyList' # <<>> => SenderNotify' > 0
                    /\ NextExpiry' # None =>
                         \/ SenderNotify' > 0
                         \/ /\ OptNextBatchExpiry' # None
                            /\ OptNextBatchExpiry' <= NextExpiry'
  BY DEF NoLostWakeup
<1> DEFINE Goal == /\ ReadyList' # <<>> => SenderNotify' > 0
                   /\ NextExpiry' # None =>
                        \/ SenderNotify' > 0
                        \/ /\ OptNextBatchExpiry' # None
                           /\ OptNextBatchExpiry' <= NextExpiry'
<1>0. TypeOK'
  BY NextTypeOK
<1>t. /\ NextExpiry \in OptTimestamp /\ NextExpiry' \in OptTimestamp
      /\ OptNextBatchExpiry \in OptTimestamp /\ OptNextBatchExpiry' \in OptTimestamp
      /\ SenderNotify \in Nat /\ SenderNotify' \in Nat
  BY <1>0, NextExpiryType DEF TypeOK, NextExpiry
<1>u. ASSUME UNCHANGED <<pt, ct, ReadyList, SenderNotify, OptNextBatchExpiry>>,
             conn.pc = "poll", router.pc # "push"
      PROVE  Goal
  BY <1>u DEF NoLostWakeup, NextExpiry
<1>1. ASSUME NEW shape \in MsgShapes, Dispatch(shape) PROVE Goal
  BY <1>1, <1>u DEF Dispatch
<1>2. ASSUME NEW shape \in NowShapes, NEW n \in 1 .. 2, DispatchNow(shape, n) PROVE Goal
  BY <1>2, <1>u DEF DispatchNow
<1>3. ASSUME NEW order \in TopicOrders, Put(order) PROVE Goal
  <2> DEFINE r == PutResult(router.now, router.batch[1], order)
  <2>1. /\ pt' = r.pt /\ ct' = r.ct /\ ReadyList' = r.ready /\ ~r.notify
        /\ SenderNotify' = SenderNotify /\ OptNextBatchExpiry' = OptNextBatchExpiry
        /\ conn.pc = "poll" /\ router.pc # "push"
    BY <1>3, SMTT(60) DEF Put, LeaveQueue
  <2>2. NextExpiry' = min_opt_ts(PerTopicNextCompleteTime(r.pt), CombinedNextCompleteTime(r.ct))
    BY <2>1, SMTT(60) DEF NextExpiry
  <2>3. /\ ReadyList = <<>> => r.ready = <<>>
        /\ NextExpiry' # None => NextExpiry # None /\ ~(NextExpiry' < NextExpiry)
    BY <2>1, <2>2, ZenonT(60) DEF PutResult
  <2> HIDE DEF r
  <2>4. CASE ReadyList # <<>>
    BY <2>1, <2>4 DEF NoLostWakeup
  <2>5. CASE ReadyList = <<>>
    <3>1. ReadyList' = <<>>
      BY <2>1, <2>3, <2>5, SMTT(60)
    <3>2. NextExpiry' # None => NextExpiry # None /\ NextExpiry <= NextExpiry'
      BY <1>t, <2>3, TimestampIsInt, SMTT(60) DEF OptTimestamp
    <3>3. NextExpiry' # None =>
            (SenderNotify > 0
               \/ (OptNextBatchExpiry # None /\ OptNextBatchExpiry <= NextExpiry))
      BY <2>1, <3>2 DEF NoLostWakeup
    <3> QED BY <1>t, <2>1, <3>1, <3>2, <3>3, TimestampIsInt, SMTT(60) DEF OptTimestamp
  <2> QED BY <2>4, <2>5, SMTT(60)
<1>4. ASSUME NEW order \in TopicOrders, PutNow(order) PROVE Goal
  <2>1. ReadyList # <<>> /\ SenderNotify' = SenderNotify /\ conn.pc = "poll"
        /\ router.pc # "push"
    BY <1>4, ZenonT(60) DEF PutNow, LeaveQueue, PutNowResult
  <2> QED BY <2>1, SMTT(60) DEF NoLostWakeup
<1>5. CASE PushSenderNotify
  BY <1>5, <1>t DEF PushSenderNotify
<1>6. CASE PollNotified \/ PollTimedOut
  BY <1>6 DEF PollNotified, PollTimedOut
<1>7. ASSUME NEW order \in TopicOrders, CheckInputQueue(order) PROVE Goal
  <2>1. ReadyList' = <<>> /\ OptNextBatchExpiry' = NextExpiry'
    BY <1>7 DEF CheckInputQueue, NextExpiry
  <2> QED BY <1>t, <2>1, TimestampIsInt DEF OptTimestamp
<1>8. ASSUME NEW orderP, NEW orderC, GetAllOnShutdown(orderP, orderC) PROVE Goal
  BY <1>8 DEF GetAllOnShutdown, TypeOK
<1>9. ASSUME NEW orderP, NEW orderC, Reset(orderP, orderC) PROVE Goal
  BY <1>9 DEF Reset, TypeOK
<1>10. CASE StopWatching
  BY <1>10 DEF StopWatching, TypeOK
<1>11. CASE Tick
  BY <1>11, <1>u, SMTT(60) DEF Tick
<1>12. CASE UNCHANGED vars
  BY <1>12, <1>u DEF vars
<1> QED BY <1>1, <1>2, <1>3, <1>4, <1>5, <1>6, <1>7, <1>8, <1>9, <1>10, <1>11, <1>12,
           ZenonT(60)
  DEF Next, RouterStep, ConnectorStep, Done

(* A connector asleep in poll() is always going to be woken for what the   *)
(* queue holds, however the router's Put()/PutNow() interleave with it.    *)
THEOREM NoLostWakeupHolds == Spec => []NoLostWakeup
<1>1. Init => NoLostWakeup
  <2> SUFFICES ASSUME Init PROVE NoLostWakeup
    OBVIOUS
  <2>1. ReadyList = <<>> /\ PerTopicNextCompleteTime(pt) = None
    BY DEF Init, EmptyPerTopic, PerTopicNextCompleteTime
  <2>2. CombinedNextCompleteTime(ct) = None
    BY EmptyCombinedType DEF Init
  <2> QED BY <2>1, <2>2 DEF NoLostWakeup, NextExpiry, min_opt_ts
<1> QED BY <1>1, TypeCorrect, NextNoLostWakeup, PTL DEF Spec

------------------------------------------------------------------------------
(* Deadlines                                                               *)

(* Every batch held back has a positive expiry: Put() only ever stores one *)
(* that lies after the time it read, and taking batches stores none.       *)
LEMMA NextNothingDue == TypeOK /\ NothingDueAt(pt, ct, 0) /\ [Next]_vars => NothingDueAt(pt, ct, 0)'
<1> SUFFICES ASSUME TypeOK, NothingDueAt(pt, ct, 0), [Next]_vars
             PROVE  NothingDueAt(pt', ct', 0)
  BY DEF NothingDueAt
<1>0. TypeOK'
  BY NextTypeOK, SMTT(60)
<1>t. /\ \A x \in pt'.ExpiryTracker : x.Expiry \in Int
      /\ CombinedNextCompleteTime(ct') \in OptTimestamp
  BY <1>0, NextExpiryType, TimestampIsInt, SMTT(60)
  DEF TypeOK, PerTopicState, ExpiryRecord
<1>u. ASSUME UNCHANGED <<pt, ct>> PROVE NothingDueAt(pt', ct', 0)
  BY <1>u
<1>a. ASSUME NEW orderP, NEW orderC, TakeAll(orderP, orderC) PROVE NothingDueAt(pt', ct', 0)
  BY <1>a, EmptyCombinedType DEF TakeAll, GetAllBatches, NothingDueAt
<1>b. ASSUME NEW t \in Int, NEW order, pt' = CheckBothBatchers(t, order).pt,
             ct' = CheckBothBatchers(t, order).ct
      PROVE  NothingDueAt(pt', ct', 0)
  <2>1. pt'.ExpiryTracker \subseteq pt.ExpiryTracker /\ ct' \in {ct, EmptyCombined}
    BY <1>b, CheckBothBatchersType, SMTT(60) DEF TypeOK
  <2> QED BY <2>1, EmptyCombinedType, SMTT(60) DEF NothingDueAt
<1>1. ASSUME NEW shape \in MsgShapes, Dispatch(shape) PROVE NothingDueAt(pt', ct', 0)
  BY <1>1, <1>u, SMTT(60) DEF Dispatch
<1>2. ASSUME NEW shape \in NowShapes, NEW n \in 1 .. 2, DispatchNow(shape, n)
      PROVE  NothingDueAt(pt', ct', 0)
  BY <1>2, <1>u, SMTT(60) DEF DispatchNow
<1>3. ASSUME NEW order \in TopicOrders, Put(order) PROVE NothingDueAt(pt', ct', 0)
  <2>1. router.batch[1] \in Msg /\ router.now \in Nat
    BY <1>3, SMTT(60) DEF Put, TypeOK
  <2>2. /\ pt' = pt \/ \A x \in pt'.ExpiryTracker : x.Expiry > router.now
        /\ ct' = ct \/ CombinedNextCompleteTime(ct') = None
             \/ CombinedNextCompleteTime(ct') > router.now
    BY <1>3, <2>1, PutResultType, SMTT(60) DEF Put, LeaveQueue, TypeOK
  <2>3. \A x \in pt'.ExpiryTracker : x.Expiry > 0
    BY <1>t, <2>1, <2>2, SMTT(60) DEF NothingDueAt
  <2>4. CombinedNextCompleteTime(ct') = None \/ CombinedNextCompleteTime(ct') > 0
    BY <1>t, <2>1, <2>2, TimestampIsInt, SMTT(60) DEF NothingDueAt, OptTimestamp
  <2> QED BY <2>3, <2>4, SMTT(60) DEF NothingDueAt
<1>4. ASSUME NEW order \in TopicOrders, PutNow(order) PROVE NothingDueAt(pt', ct', 0)
  BY <1>4, <1>b, SMTT(60) DEF PutNow, LeaveQueue, PutNowResult, TypeOK
<1>5. CASE PushSenderNotify
  BY <1>5, <1>u, SMTT(60) DEF PushSenderNotify
<1>6. CASE PollNotified \/ PollTimedOut
  BY <1>6, <1>u, SMTT(60) DEF PollNotified, PollTimedOut
<1>7. ASSUME NEW order \in TopicOrders, CheckInputQueue(order) PROVE NothingDueAt(pt', ct', 0)
  BY <1>7, <1>b, SMTT(60) DEF CheckInputQueue, TypeOK
<1>8. ASSUME NEW orderP, NEW orderC, GetAllOnShutdown(orderP, orderC) \/ Reset(orderP, orderC)
      PROVE  NothingDueAt(pt', ct', 0)
  BY <1>8, <1>a, SMTT(60) DEF GetAllOnShutdown, Reset
<1>9. CASE StopWatching \/ Tick \/ UNCHANGED vars
  BY <1>9, <1>u, SMTT(60) DEF StopWatching, Tick, vars
<1> QED BY <1>1, <1>2, <1>3, <1>4, <1>5, <1>6, <1>7, <1>8, <1>9, ZenonT(60)
  DEF Next, RouterStep, ConnectorStep, Done

(* No batch waits for a deadline that PrepareForPoll()'s unsigned cast     *)
(* would turn into an endless wait.                                        *)
THEOREM RetainedExpiryHolds == Spec => []RetainedExpiryIsPositive
<1>1. Init => NothingDueAt(pt, ct, 0)
  BY EmptyCombinedType, SMTT(60) DEF Init, EmptyPerTopic, NothingDueAt
<1>2. TypeOK /\ NothingDueAt(pt, ct, 0) => RetainedExpiryIsPositive
  BY NothingDueNextExpiry DEF TypeOK, RetainedExpiryIsPositive, NextExpiry
<1> QED BY <1>1, <1>2, TypeCorrect, NextNothingDue, PTL DEF Spec

(* Taking from the queue at time t leaves no batch that was due at t.      *)
THEOREM NothingDueIsLeftHolds == Spec => NothingDueIsLeft
<1> DEFINE Step == conn.pc = "get" /\ conn'.pc = "poll" =>
                     NextExpiry' = None \/ NextExpiry' > conn.now
<1>1. TypeOK /\ [Next]_vars => [Step]_vars
  <2> SUFFICES ASSUME TypeOK, [Next]_vars, conn.pc = "get", conn'.pc = "poll"
               PROVE  NextExpiry' = None \/ NextExpiry' > conn.now
    BY SMTT(60)
  <2>1. PICK order \in TopicOrders : CheckInputQueue(order)
    BY DEF Next, RouterStep, ConnectorStep, Done, Dispatch, DispatchNow, Put, PutNow, LeaveQueue,
           PushSenderNotify, Reset, PollNotified, PollTimedOut, GetAllOnShutdown, StopWatching,
           Tick, vars
  <2> DEFINE r == CheckBothBatchers(conn.now, order)
  <2>2. conn.now \in Int
    BY DEF TypeOK
  <2>3. PerTopicState(r.pt) /\ CombinedState(r.ct) /\ NothingDueAt(r.pt, r.ct, conn.now)
    BY <2>2, CheckBothBatchersType DEF TypeOK
  <2>4. pt' = r.pt /\ ct' = r.ct
    BY <2>1 DEF CheckInputQueue
  <2> HIDE DEF r
  <2> QED BY <2>2, <2>3, <2>4, NothingDueNextExpiry, SMTT(60) DEF NextExpiry
<1> QED BY <1>1, TypeCorrect, PTL DEF Spec, NothingDueIsLeft

==============================================================================
