---------------------------- MODULE BrokerMsgQueue ----------------------------
(***************************************************************************)
(* TBrokerMsgQueue (dory/msg_dispatch/broker_msg_queue.cc): the queue that *)
(* the router thread fills and one connector thread empties, together with *)
(* the part of each thread that touches it.  The queue holds a list of     *)
(* batches that are ready to send and two batchers whose batches become    *)
(* ready at a time limit.  The connector sleeps in poll() on SenderNotify  *)
(* and on the expiry it last learned of; the router wakes it by pushing    *)
(* SenderNotify AFTER it has released the queue's mutex.                   *)
(***************************************************************************)
EXTENDS Batchers

CONSTANTS
  MsgShapes,   \* the [topic, routing, ts, size] of the messages put
  NowShapes,   \* those put with PutNow(), which reads neither ts nor size
  MaxMsgs,     \* bound: messages put during a behaviour
  MaxNow       \* bound: the last instant of the clock

ASSUME BoundsAssumption == MaxMsgs \in Nat /\ MaxNow \in Nat
ASSUME ShapesAssumption ==
  /\ MsgShapes \subseteq [topic : Topics, routing : {"AnyPartition", "PartitionKey"},
                          ts : Timestamp, size : Nat]
  /\ NowShapes \subseteq MsgShapes

VARIABLES
  now,                  \* GetEpochMilliseconds()
  pt, ct,               \* PerTopicBatcher, CombinedTopicsBatcher
  ReadyList,            \* batches ready to send
  SenderNotify,         \* the count of the event semaphore
  router,               \* router thread: where it is in Put()/PutNow()
  conn,                 \* connector thread: where it is in its main loop
  OptNextBatchExpiry,   \* the connector's copy of the next batch expiry
  got,                  \* every message the connector side took out, in order
  msgCount              \* messages created

queueVars == <<pt, ct, ReadyList>>
vars == <<now, pt, ct, ReadyList, SenderNotify, router, conn,
          OptNextBatchExpiry, got, msgCount>>

min_opt_ts(a, b) ==
  CASE a = None -> b
    [] b = None -> a
    [] OTHER -> Earlier(a, b)

(* The earliest time at which a batch held back becomes ready.             *)
NextExpiry == min_opt_ts(PerTopicNextCompleteTime(pt), CombinedNextCompleteTime(ct))

Idle == [pc |-> "idle"]

Init ==
  /\ now = 0
  /\ pt = EmptyPerTopic
  /\ ct = EmptyCombined
  /\ ReadyList = <<>>
  /\ SenderNotify = 0
  /\ router = Idle
  /\ conn = [pc |-> "poll", now |-> 0]
  /\ OptNextBatchExpiry = None
  /\ got = <<>>
  /\ msgCount = 0

------------------------------------------------------------------------------
(* The batchers as the queue calls them, with Mutex held.                  *)

(* Mutant: a batch that is due this instant is left.                       *)
CheckPerTopicBatcherLate(t, order) ==
  LET nct == PerTopicNextCompleteTime(pt)
  IN IF nct # None /\ nct < t
       THEN GetCompleteBatches(pt, t, order)
       ELSE [pt |-> pt, batches |-> <<>>]

(* CheckPerTopicBatcher, CheckCombinedTopicsBatcher: release what is due.  *)
CheckPerTopicBatcher(t, order) ==
  LET nct == PerTopicNextCompleteTime(pt)
  IN IF nct # None /\ nct <= t
       THEN GetCompleteBatches(pt, t, order)
       ELSE [pt |-> pt, batches |-> <<>>]

CheckCombinedTopicsBatcher(t, order) ==
  LET nct == CombinedNextCompleteTime(ct)
  IN IF nct # None /\ nct <= t
       THEN TakeBatch(ct, order)
       ELSE [ct |-> ct, batches |-> <<>>]

(* The batcher with the earlier expiry is queued first; 'perTopicFirst'    *)
(* settles the case in which the expiries do not decide.                   *)
InExpiryOrder(perTopic, combined, perTopicFirst) ==
  IF perTopicFirst THEN perTopic \o combined ELSE combined \o perTopic

CheckBothBatchers(t, order) ==
  LET p == CheckPerTopicBatcher(t, order)
      c == CheckCombinedTopicsBatcher(t, order)
      pExp == PerTopicNextCompleteTime(pt)
      cExp == CombinedNextCompleteTime(ct)
  IN [pt |-> p.pt, ct |-> c.ct,
      ready |-> ReadyList \o InExpiryOrder(p.batches, c.batches,
                  pExp = None \/ cExp = None \/ pExp < cExp)]

GetAllMsgs(orderP, orderC) ==
  LET pExp == PerTopicNextCompleteTime(pt)
      cExp == CombinedNextCompleteTime(ct)
  IN ReadyList \o InExpiryOrder(GetAllBatches(pt, orderP).batches,
                                TakeBatch(ct, orderC).batches,
                                ~(pExp # None /\ cExp # None /\ cExp < pExp))

(* TryBatchPerTopic: only PartitionKey messages are batched per topic here. *)
TryBatchPerTopic(t, msg, order) ==
  IF msg.routing = "PartitionKey"
    THEN PerTopicAddMsg(pt, msg, t, order)
    ELSE [pt |-> pt, batches |-> <<>>, left |-> TRUE]

(* Mutant: the connector is not told of an expiry that moved forward.      *)
PutResultReadyOnly(t, msg, order) ==
  LET p == TryBatchPerTopic(t, msg, order)
      c == IF p.left
             THEN CombinedAddMsg(ct, msg, t, order)
             ELSE [ct |-> ct, batches |-> <<>>, left |-> FALSE]
      ready == ReadyList \o p.batches \o c.batches
                 \o (IF c.left THEN <<<<msg>>>> ELSE <<>>)
      final == min_opt_ts(PerTopicNextCompleteTime(p.pt), CombinedNextCompleteTime(c.ct))
  IN [pt |-> p.pt, ct |-> c.ct, ready |-> ready,
      notify |-> \/ ReadyList = <<>> /\ ready # <<>>
                 \/ final # None /\ NextExpiry = None]

(* The queue that Put() leaves behind, and whether it has to wake the      *)
(* connector: the ready list became nonempty, or an expiry came into being *)
(* or moved forward.                                                       *)
PutResult(t, msg, order) ==
  LET p == TryBatchPerTopic(t, msg, order)
      c == IF p.left
             THEN CombinedAddMsg(ct, msg, t, order)
             ELSE [ct |-> ct, batches |-> <<>>, left |-> FALSE]
      ready == ReadyList \o p.batches \o c.batches
                 \o (IF c.left THEN <<<<msg>>>> ELSE <<>>)
      final == min_opt_ts(PerTopicNextCompleteTime(p.pt), CombinedNextCompleteTime(c.ct))
  IN [pt |-> p.pt, ct |-> c.ct, ready |-> ready,
      notify |-> \/ ReadyList = <<>> /\ ready # <<>>
                 \/ final # None /\ (NextExpiry = None \/ final < NextExpiry)]

(* Mutant: emptiness is looked at after the batchers were checked.         *)
PutNowResultLateTest(t, batch, order) ==
  LET r == CheckBothBatchers(t, order)
  IN [pt |-> r.pt, ct |-> r.ct, ready |-> Append(r.ready, batch),
      notify |-> Append(r.ready, batch) = <<>>]

(* PutNow() wakes the connector exactly when the list was empty before.    *)
PutNowResult(t, batch, order) ==
  LET r == CheckBothBatchers(t, order)
  IN [pt |-> r.pt, ct |-> r.ct, ready |-> Append(r.ready, batch),
      notify |-> ReadyList = <<>>]

------------------------------------------------------------------------------
(* Router thread.  TConnector::Dispatch()/DispatchNow() read the clock,    *)
(* then Put()/PutNow() lock the mutex, update the queue, release the mutex *)
(* and push SenderNotify if they decided to.                               *)

NewMsg(shape, i, via) ==
  [topic |-> shape.topic, routing |-> shape.routing, ts |-> shape.ts,
   size |-> shape.size, id |-> i, via |-> via]

Dispatch(shape) ==
  /\ router.pc = "idle"
  /\ msgCount < MaxMsgs
  /\ router' = [pc |-> "lock", op |-> "Put", now |-> now,
                batch |-> <<NewMsg(shape, msgCount + 1, "Put")>>]
  /\ msgCount' = msgCount + 1
  /\ UNCHANGED <<now, pt, ct, ReadyList, SenderNotify, conn, OptNextBatchExpiry, got>>

(* DispatchNow() of one message, or of a batch of n messages of a topic.   *)
DispatchNow(shape, n) ==
  /\ router.pc = "idle"
  /\ msgCount + n <= MaxMsgs
  /\ router' = [pc |-> "lock", op |-> "PutNow", now |-> now,
                batch |-> [i \in 1 .. n |-> NewMsg(shape, msgCount + i, "PutNow")]]
  /\ msgCount' = msgCount + n
  /\ UNCHANGED <<now, pt, ct, ReadyList, SenderNotify, conn, OptNextBatchExpiry, got>>

LeaveQueue(r) ==
  /\ pt' = r.pt
  /\ ct' = r.ct
  /\ ReadyList' = r.ready
  /\ router' = IF r.notify THEN [pc |-> "push"] ELSE Idle
  /\ UNCHANGED <<now, SenderNotify, conn, OptNextBatchExpiry, got, msgCount>>

Put(order) ==
  /\ router.pc = "lock" /\ router.op = "Put"
  /\ LeaveQueue(PutResult(router.now, router.batch[1], order))

PutNow(order) ==
  /\ router.pc = "lock" /\ router.op = "PutNow"
  /\ LeaveQueue(PutNowResult(router.now, router.batch, order))

PushSenderNotify ==
  /\ router.pc = "push"
  /\ SenderNotify' = SenderNotify + 1
  /\ router' = Idle
  /\ UNCHANGED <<now, pt, ct, ReadyList, conn, OptNextBatchExpiry, got, msgCount>>

------------------------------------------------------------------------------
(* Connector thread.  poll() returns because SenderNotify is readable      *)
(* (Get() pops it) or because the recorded expiry has come (NonblockingGet *)
(* does not); either way CheckInputQueue() then locks the mutex and takes  *)
(* what is ready at the time poll() returned.                              *)

(* PrepareForPoll() casts the expiry to an unsigned type, so a negative    *)
(* one is a deadline that never comes.                                     *)
PollDeadlinePassed(expiry) == expiry >= 0 /\ expiry <= now

PollNotified ==
  /\ conn.pc = "poll"
  /\ SenderNotify > 0
  /\ SenderNotify' = SenderNotify - 1
  /\ conn' = [pc |-> "get", now |-> now]
  /\ UNCHANGED <<now, pt, ct, ReadyList, router, OptNextBatchExpiry, got, msgCount>>

PollTimedOut ==
  /\ conn.pc = "poll"
  /\ SenderNotify = 0
  /\ OptNextBatchExpiry # None
  /\ PollDeadlinePassed(OptNextBatchExpiry)
  /\ conn' = [pc |-> "get", now |-> now]
  /\ UNCHANGED <<now, pt, ct, ReadyList, SenderNotify, router, OptNextBatchExpiry,
                 got, msgCount>>

CheckInputQueue(order) ==
  /\ conn.pc = "get"
  /\ LET r == CheckBothBatchers(conn.now, order)
     IN /\ pt' = r.pt
        /\ ct' = r.ct
        /\ got' = got \o FlattenSeq(r.ready)
  /\ ReadyList' = <<>>
  /\ OptNextBatchExpiry' = min_opt_ts(PerTopicNextCompleteTime(pt'),
                                      CombinedNextCompleteTime(ct'))
  /\ conn' = [conn EXCEPT !.pc = "poll"]
  /\ UNCHANGED <<now, SenderNotify, router, msgCount>>

TakeAll(orderP, orderC) ==
  /\ got' = got \o FlattenSeq(GetAllMsgs(orderP, orderC))
  /\ pt' = GetAllBatches(pt, orderP).pt
  /\ ct' = EmptyCombined
  /\ ReadyList' = <<>>

(* A slow shutdown request, which the router sends after its last Put(),   *)
(* empties the queue; from then on it is not watched.                      *)
GetAllOnShutdown(orderP, orderC) ==
  /\ conn.pc = "poll"
  /\ router.pc = "idle"
  /\ TakeAll(orderP, orderC)
  /\ conn' = [conn EXCEPT !.pc = "stopped"]
  /\ router' = [pc |-> "shutdown"]
  /\ UNCHANGED <<now, SenderNotify, OptNextBatchExpiry, msgCount>>

(* A pause, a fast shutdown or an error ends the watch and leaves the      *)
(* queue as it is; the router may still be putting messages.               *)
StopWatching ==
  /\ conn.pc = "poll"
  /\ conn' = [conn EXCEPT !.pc = "stopped"]
  /\ UNCHANGED <<now, pt, ct, ReadyList, SenderNotify, router, OptNextBatchExpiry,
                 got, msgCount>>

(* The router joins the connector and CleanupAfterJoin() resets the queue. *)
Reset(orderP, orderC) ==
  /\ conn.pc = "stopped"
  /\ router.pc \in {"idle", "shutdown"}
  /\ SenderNotify' = 0
  /\ TakeAll(orderP, orderC)
  /\ conn' = [conn EXCEPT !.pc = "joined"]
  /\ router' = [pc |-> "joined"]
  /\ UNCHANGED <<now, OptNextBatchExpiry, msgCount>>

Tick ==
  /\ now < MaxNow
  /\ now' = now + 1
  /\ UNCHANGED <<pt, ct, ReadyList, SenderNotify, router, conn, OptNextBatchExpiry,
                 got, msgCount>>

(* The connector has been joined: nothing uses the queue any more.         *)
Done == conn.pc = "joined" /\ UNCHANGED vars

RouterStep ==
  \/ \E shape \in MsgShapes : Dispatch(shape)
  \/ \E shape \in NowShapes, n \in 1 .. 2 : DispatchNow(shape, n)
  \/ \E order \in TopicOrders : Put(order) \/ PutNow(order)
  \/ PushSenderNotify
  \/ \E orderP, orderC \in TopicOrders : Reset(orderP, orderC)

ConnectorStep ==
  \/ PollNotified
  \/ PollTimedOut
  \/ \E order \in TopicOrders : CheckInputQueue(order)
  \/ \E orderP, orderC \in TopicOrders : GetAllOnShutdown(orderP, orderC)
  \/ StopWatching

Next == RouterStep \/ ConnectorStep \/ Tick \/ Done

Spec == Init /\ [][Next]_vars

(* The threads run, poll() returns when it can, time passes, and a         *)
(* connector that stops is joined.  Each of these steps disables itself,   *)
(* so weak fairness of it says that its guard is false again and again;    *)
(* stating the guards spares TLC the evaluation of ENABLED.                *)
LockEnabled == router.pc = "lock"
PushEnabled == router.pc = "push"
PollEnabled ==
  /\ conn.pc = "poll"
  /\ SenderNotify > 0
       \/ (OptNextBatchExpiry # None /\ PollDeadlinePassed(OptNextBatchExpiry))
GetEnabled == conn.pc = "get"
ResetEnabled == conn.pc = "stopped" /\ router.pc \in {"idle", "shutdown"}

Fairness ==
  /\ []<>~LockEnabled
  /\ []<>~PushEnabled
  /\ []<>~PollEnabled
  /\ []<>~GetEnabled
  /\ []<>~ResetEnabled
  /\ WF_vars(Tick)

FairSpec == Spec /\ Fairness

------------------------------------------------------------------------------
(* Properties                                                              *)

OptTimestamp == Timestamp \cup {None}

(* Every variable has its type; in particular ExpiryTracker holds          *)
(* timestamps of known topics (TPerTopicBatcher, TBatchExpiryRecord).      *)
TypeOK ==
  /\ now \in Nat
  /\ PerTopicState(pt)
  /\ CombinedState(ct)
  /\ SenderNotify \in Nat
  /\ router.pc \in {"idle", "lock", "push", "shutdown", "joined"}
  /\ router.pc = "lock" =>
       router.op \in {"Put", "PutNow"} /\ router.now \in Nat /\ router.batch \in Seq(Msg) \ {<<>>}
  /\ conn \in [pc : {"poll", "get", "stopped", "joined"}, now : Nat]
  /\ OptNextBatchExpiry \in OptTimestamp
  /\ msgCount \in Nat

(* A connector asleep in poll() has what it needs to wake up: if batches   *)
(* are ready SenderNotify has been pushed, and if one will become ready    *)
(* the connector knows of an expiry no later than its own.  Put() and      *)
(* PutNow() skip the push whenever they can, and do it after unlocking.    *)
NoLostWakeup ==
  conn.pc = "poll" /\ router.pc # "push" =>
    /\ ReadyList # <<>> => SenderNotify > 0
    /\ NextExpiry # None =>
         \/ SenderNotify > 0
         \/ OptNextBatchExpiry # None /\ OptNextBatchExpiry <= NextExpiry

(* A batch is held back only until a time that has yet to come when it is  *)
(* stored, so its expiry survives PrepareForPoll()'s cast to uint64_t even *)
(* when timestamp plus time limit overflows.                               *)
RetainedExpiryIsPositive == NextExpiry # None => NextExpiry > 0

(* The assertions of TPerTopicBatcher::SanityCheck() and of the combined   *)
(* batcher: the tracker holds exactly the expiries of the topics with a    *)
(* nonempty batch and a time limit, and the counters describe the lists.   *)
BatcherSync ==
  LET Counts(core, msgs) ==
        /\ core.MsgCount = Len(msgs)
        /\ core.MinTimestamp = FoldSeq(LAMBDA m, a : Earlier(m.ts, a), MaxTimestamp, msgs)
        /\ core.ByteCount = FoldSeq(LAMBDA m, a : BodySize(m.size) + a, 0, msgs)
      expiry == [t \in DOMAIN pt.BatchMap |->
                   GetNextCompleteTime(PerTopicConfig[t], pt.BatchMap[t].Batcher.core)]
      tracked == {t \in DOMAIN pt.BatchMap : expiry[t] # None}
      order == CHOOSE o \in TopicOrders : TRUE
  IN /\ pt.ExpiryTracker = {[Expiry |-> expiry[t], Topic |-> t] : t \in tracked}
     /\ \A t \in DOMAIN pt.BatchMap :
          /\ Counts(pt.BatchMap[t].Batcher.core, pt.BatchMap[t].Batcher.MsgList)
          /\ pt.BatchMap[t].ExpiryRef =
               IF t \in tracked THEN [Expiry |-> expiry[t], Topic |-> t] ELSE None
     /\ Counts(ct.core, FlattenSeq(TopicMapGet(ct.TopicMap, order)))

(* What the batch limits promise: a batch of a per-topic batcher that is   *)
(* ready holds one topic, at most MsgCount messages, and at most ByteCount *)
(* bytes unless it is a single message; one held back is below each limit, *)
(* for the limits look at counters, and these describe the lists.          *)
BatchesWithinLimits ==
  LET Bytes(msgs) == FoldSeq(LAMBDA m, a : BodySize(m.size) + a, 0, msgs)
      Below(cfg, n, bytes) ==
        /\ MsgCountLimitIsEnabled(cfg) => n < cfg.MsgCount
        /\ ByteCountLimitIsEnabled(cfg) => bytes < cfg.ByteCount
  IN /\ BatcherSync
     /\ \A i \in DOMAIN ReadyList :
          LET b == ReadyList[i]
          IN /\ b # <<>>
             /\ \A j \in DOMAIN b : b[j].topic = b[1].topic
             /\ b[1].via = "Put" /\ b[1].routing = "PartitionKey" =>
                  LET cfg == PerTopicConfig[b[1].topic]
                  IN /\ MsgCountLimitIsEnabled(cfg) => Len(b) <= cfg.MsgCount
                     /\ ByteCountLimitIsEnabled(cfg) =>
                          Len(b) = 1 \/ Bytes(b) <= cfg.ByteCount
     /\ \A t \in DOMAIN pt.BatchMap :
          Below(PerTopicConfig[t], pt.BatchMap[t].Batcher.core.MsgCount,
                pt.BatchMap[t].Batcher.core.ByteCount)
     /\ Below(CombinedConfig, ct.core.MsgCount, ct.core.ByteCount)

(* Taking from the queue leaves nothing that was due: after Get() or       *)
(* NonblockingGet() at time t the next expiry lies after t, so the         *)
(* connector does not spin on a deadline that has passed.                  *)
NothingDueIsLeft ==
  [][conn.pc = "get" /\ conn'.pc = "poll" =>
       NextExpiry' = None \/ NextExpiry' > conn.now]_vars

(* A stream is a topic and an entry point (Put or PutNow).                 *)
Streams == Topics \X {"Put", "PutNow"}

OfStream(s, msgs) == SelectSeq(msgs, LAMBDA m : m.topic = s[1] /\ m.via = s[2])

Held(topic) ==
  (IF topic \in DOMAIN pt.BatchMap THEN pt.BatchMap[topic].Batcher.MsgList ELSE <<>>)
    \o ct.TopicMap[topic]

Fifo == INSTANCE FifoHandoff WITH
  waiting <- [s \in Streams |-> OfStream(s, FlattenSeq(ReadyList) \o Held(s[1]))],
  handed <- [s \in Streams |-> OfStream(s, got)]

(* The queue implements FifoHandoff: each stream leaves the queue in the   *)
(* order it entered, each message once, whatever the batchers hold back    *)
(* (Put, PutNow, CheckBothBatchers, Reset).                                *)
FifoSpec == Fifo!Spec

(* Every message that the router dispatches leaves the queue in the end,   *)
(* through the connector or through Reset(): no batch is held for ever.    *)
EveryMsgLeaves ==
  \A i \in 1 .. MaxMsgs :
    msgCount >= i ~> \E j \in DOMAIN got : got[j].id = i

==============================================================================
