----------------------------- MODULE MsgRouting ------------------------------
(***************************************************************************)
(* What the router thread (router_thread.cc) does with each message: it    *)
(* validates it against the metadata, creates its topic when so            *)
(* configured, limits its topic's rate, batches it, chooses its broker,    *)
(* and gives it a new one when the metadata changes; and how the message   *)
(* state tracker follows it.                                               *)
(*                                                                         *)
(* RouterThread.tla is about the threads: here the connector of a broker   *)
(* is the list of what it holds, batches to send and batches to be         *)
(* acknowledged, and shutting the dispatcher down is one step.  Pauses are *)
(* left to that module.  The program is the release build (NDEBUG): a      *)
(* failed assertion changes nothing, except where the code after it has no *)
(* meaning (pc = "Crashed").                                               *)
(***************************************************************************)
EXTENDS Batchers, MsgStateTracker, FiniteSets

------------------------------------------------------------------------------
(***************************************************************************)
(* The per-topic rate limiter (msg_rate_limiter.cc), which the router      *)
(* thread asks about every new message.  Its state is a partial function   *)
(* from topics to the state of the topic's current interval.               *)
(***************************************************************************)

CONSTANTS
  RateConf,          \* partial function: topic -> [Interval, MaxCount], by name
  DefaultRateConf,   \* the configuration of the topics that are not named
  Unlimited          \* MaxCount of a configuration without a limit

ConfOf(topic) == IF topic \in DOMAIN RateConf THEN RateConf[topic] ELSE DefaultRateConf

RateLimitingIsEnabled ==
  DefaultRateConf.MaxCount # Unlimited
    \/ \E t \in DOMAIN RateConf : RateConf[t].MaxCount # Unlimited

TTopicState == [Enable |-> FALSE, Interval |-> 1, MaxCount |-> 0,
                IntervalStart |-> 0, Count |-> 0]


(* The state of the interval that 'ts' belongs to.                         *)
GetTopicState(map, topic, ts) ==
  LET conf == ConfOf(topic)
      state == map[topic]
      delta == (ts - state.IntervalStart) \div state.Interval
  IN IF topic \in DOMAIN map THEN
       IF ts >= state.IntervalStart + state.Interval
         THEN [state EXCEPT !.IntervalStart = @ + delta * state.Interval, !.Count = 0]
         ELSE state
     ELSE IF conf.MaxCount = Unlimited THEN TTopicState
     ELSE [TTopicState EXCEPT !.Enable = TRUE, !.Interval = conf.Interval,
                              !.MaxCount = conf.MaxCount, !.IntervalStart = ts]

(* Counts the message whether or not it will be discarded.                 *)
WouldExceedLimit(map, topic, ts) ==
  LET state == GetTopicState(map, topic, ts)
      counted == [state EXCEPT !.Count = @ + 1]
  IN IF ~RateLimitingIsEnabled THEN [map |-> map, exceeds |-> FALSE]
     ELSE [map |-> With(map, topic, counted),
           exceeds |-> counted.Enable /\ counted.Count > counted.MaxCount]

------------------------------------------------------------------------------
(* The routing of messages.                                                *)

CONSTANTS
  Msgs,              \* 1 .. n: the messages, in the order of their creation
  Kinds,             \* records [topic, routing, key, long, size]
  Versions,          \* the metadata the Kafka cluster may answer with
  TopicAutocreate,   \* configuration: create unknown topics
  CompareMetadataOnRefresh,   \* configuration: fetch and compare before a restart
  NumAttempts,       \* NUM_ATTEMPTS: metadata updates after a topic was created
  IntMax,            \* std::numeric_limits<int>::max()
  MaxTime,           \* bound: the clock
  MaxUpdates         \* bound: how often the refresh timer fires

ASSUME RoutingAssumption ==
  /\ TopicAutocreate \in BOOLEAN /\ CompareMetadataOnRefresh \in BOOLEAN
  /\ NumAttempts \in Nat \ {0} /\ IntMax \in Nat /\ MaxTime \in Nat /\ MaxUpdates \in Nat

M == INSTANCE Metadata

VARIABLES
  now,                \* the clock
  info, born,         \* kind and creation time of the messages that exist
  msgState,           \* TMsg::State
  fate,               \* what became of a message: acknowledged or why discarded
  MsgChannel,         \* messages from the input agents
  stats,              \* the message state tracker
  limiter,            \* the rate limiter's topics
  Metadata,
  PerTopicBatcher, OptNextBatchExpiry,
  running,            \* whether the dispatcher is started
  queue,              \* per broker: [held, send, ack]
  pc,                 \* where the router thread is
  wakeAt,             \* when its poll() returns at the latest (None: never)
  gotMsgs, readTime,  \* whether that poll() saw messages; the local 'now' after it
  msg_list, remaining, ready_batches,     \* locals of HandleMsgAvailable
  creating,           \* locals of AutocreateTopic: [from, tries]
  stopping, ShutdownStartTime, NeedToContinueShutdown,
  updates,            \* refreshes so far
  leaked              \* per topic: messages discarded in state Batching

msgVars == <<info, born>>
trackVars == <<msgState, stats, fate, leaked>>
batchVars == <<PerTopicBatcher, OptNextBatchExpiry>>
dispVars == <<running, queue>>
mdVars == <<Metadata, updates>>
localVars == <<msg_list, remaining, ready_batches, creating>>
stopVars == <<stopping, ShutdownStartTime, NeedToContinueShutdown>>
routingVars == <<now, msgVars, trackVars, MsgChannel, limiter, mdVars, batchVars,
                 dispVars, pc, wakeAt, gotMsgs, readTime, localVars, stopVars>>

Brokers == UNION {DOMAIN v.brokers : v \in Versions}
NoQueue == [held |-> <<>>, send |-> <<>>, ack |-> <<>>]
NotCreating == [from |-> "none", tries |-> 0]

TopicOf(m) == info[m].topic
Record(m) == [topic |-> TopicOf(m), routing |-> info[m].routing, ts |-> born[m],
              size |-> info[m].size, id |-> m, via |-> "Put"]
Ids(batch) == [i \in DOMAIN batch |-> batch[i].id]
AllIds(batches) == [i \in DOMAIN batches |-> Ids(batches[i])]
InLists(lists) == UNION {ToSet(lists[i]) : i \in DOMAIN lists}

-----------------------------------------------------------------------------
(* The state tracker is told of lists of messages of one topic, in the     *)
(* order of 'moves', each a record [msgs, to]; 'st' are the messages'      *)
(* states before.                                                          *)
Moves(lists, to) == [i \in DOMAIN lists |-> [msgs |-> lists[i], to |-> to]]

Tracked(tr, st, moves) ==
  FoldLeft(LAMBDA t, mv :
             IF mv.msgs = <<>> THEN t
             ELSE MsgEnter(t, TopicOf(mv.msgs[1]),
                           [i \in DOMAIN mv.msgs |-> st[mv.msgs[i]]], mv.to),
           tr, moves)

(* The states after the moves, the outcomes of those that end here, and    *)
(* the messages that end while the tracker has them in a batch.            *)
Account(st, moves, outcome) ==
  LET Moved(m) == {i \in DOMAIN moves : m \in ToSet(moves[i].msgs)}
      ended == {m \in Msgs : \E i \in Moved(m) : moves[i].to = "Processed"}
      Lost(t) == {m \in ended : TopicOf(m) = t /\ st[m] = "Batching"}
  IN /\ msgState' = [m \in Msgs |-> IF Moved(m) = {} THEN st[m]
                                    ELSE moves[CHOOSE i \in Moved(m) : TRUE].to]
     /\ fate' = [m \in Msgs |-> IF m \in ended THEN outcome[m] ELSE fate[m]]
     /\ leaked' = [t \in Topics |-> leaked[t] + Cardinality(Lost(t))]

Track(moves, outcome) ==
  Account(msgState, moves, outcome) /\ stats' = Tracked(stats, msgState, moves)

(* For a loop over a map that only discards: its order makes no difference.*)
SomeOrder == SetToSeq(Topics)

All(outcome) == [m \in Msgs |-> outcome]

-----------------------------------------------------------------------------
(* Choosing brokers.  The counter of the round robin may have any value.   *)

Known(md, t) == M!FindTopicIndex(md, t) # 0
OkPartitions(md, t) ==
  IF Known(md, t) THEN md.topics[M!FindTopicIndex(md, t)].ok ELSE <<>>

(* A batch or message of this topic can be routed; otherwise               *)
(* LookupValidTopicIndex ends the program, or the round robin divides by 0.*)
Routable(md, t) == OkPartitions(md, t) # <<>>

AnyPartitionBrokers(md, t) == {OkPartitions(md, t)[i].broker : i \in DOMAIN OkPartitions(md, t)}

BrokerOfKey(md, m) ==
  LET t == TopicOf(m)
  IN md.topics[M!FindTopicIndex(md, t)].all[M!ChoosePartitionByKey(md, t, info[m].key)].broker

AssignBroker(md, m) ==
  IF info[m].routing = "PartitionKey" THEN {BrokerOfKey(md, m)}
  ELSE AnyPartitionBrokers(md, TopicOf(m))

(* One broker for each batch; and each message's broker.                   *)
BatchRoutes(md, lists) ==
  {r \in [DOMAIN lists -> Brokers] :
     \A i \in DOMAIN lists : r[i] \in AnyPartitionBrokers(md, TopicOf(lists[i][1]))}
MsgRoutes(md, msgs) ==
  {r \in [DOMAIN msgs -> Brokers] : \A i \in DOMAIN msgs : r[i] \in AssignBroker(md, msgs[i])}

AppendSend(q, b, lists) == [q EXCEPT ![b].send = @ \o lists]
AppendHeld(q, b, m) == [q EXCEPT ![b].held = Append(@, m)]

(* RouteAnyPartitionNow: the batches, in their order, to their brokers.    *)
RouteAnyPartitionNow(q, lists, r) ==
  FoldLeft(LAMBDA acc, i : AppendSend(acc, r[i], <<lists[i]>>), q,
           [i \in DOMAIN lists |-> i])

(* Mutant: routes by the metadata that is being replaced.                  *)
RouteByOldMetadata(md, q, msgs) ==
  [b \in DOMAIN q |->
     LET Mine(t) == SelectSeq(msgs, LAMBDA m : BrokerOfKey(Metadata, m) = b /\ TopicOf(m) = t)
         groups == SetToSeq({Mine(t) : t \in Topics} \ {<<>>})
     IN [q[b] EXCEPT !.send = @ \o groups]]

(* RoutePartitionKeyNow: for each broker its messages, grouped by topic.   *)
RoutePartitionKeyNow(md, q, msgs) ==
  [b \in DOMAIN q |->
     LET Mine(t) == SelectSeq(msgs, LAMBDA m : BrokerOfKey(md, m) = b /\ TopicOf(m) = t)
         groups == SetToSeq({Mine(t) : t \in Topics} \ {<<>>})
     IN [q[b] EXCEPT !.send = @ \o groups]]

(* Route: the broker's queue holds the message back or makes it ready.     *)
Route(q, msgs, r, kept) ==
  FoldLeft(LAMBDA acc, i : IF msgs[i] \in kept THEN AppendHeld(acc, r[i], msgs[i])
                           ELSE AppendSend(acc, r[i], <<<<msgs[i]>>>>),
           q, [i \in DOMAIN msgs |-> i])

-----------------------------------------------------------------------------
(* Emptying the dispatcher after it was shut down.                         *)

ByTopic(msgs) ==
  SetToSeq({SelectSeq(msgs, LAMBDA m : TopicOf(m) = t) : t \in Topics} \ {<<>>})

(* Mutant: what was sent and not acknowledged is forgotten.                *)
BrokerListWithoutUnacked(q) == q.send \o ByTopic(q.held)

(* The lists of one broker: what it has no ACK for, then what waits.       *)
BrokerList(q) == q.ack \o q.send \o ByTopic(q.held)

(* GetAllMsgs makes the messages that were held back ready to send.        *)
ReleasedHeld ==
  FlattenSeq([b \in 1 .. Cardinality(Brokers) |-> ByTopic(queue[b].held)])

Released ==
  [m \in Msgs |-> IF m \in InLists(ReleasedHeld) THEN "SendWait" ELSE msgState[m]]

(* One list from each broker's lists in turn; a broker without any more is *)
(* replaced by the last one.                                               *)
EmptyDispatcher ==
  LET lists == SelectSeq([b \in 1 .. Cardinality(Brokers) |-> BrokerList(queue[b])],
                         LAMBDA l : l # <<>>)
      n == FoldLeft(LAMBDA s, l : s + Len(l), 0, lists)
      Pop(acc, i) ==
        LET rest == Tail(acc.lists[i])
            last == acc.lists[Len(acc.lists)]
            left == Len(acc.lists) - 1
        IN [out |-> Append(acc.out, acc.lists[i][1]),
            lists |-> IF rest # <<>> THEN [acc.lists EXCEPT ![i] = rest]
                      ELSE IF i = left + 1 THEN SubSeq(acc.lists, 1, left)
                      ELSE [SubSeq(acc.lists, 1, left) EXCEPT ![i] = last]]
      Round(acc) == FoldRight(LAMBDA i, a : Pop(a, i), [i \in DOMAIN acc.lists |-> i], acc)
  IN FoldLeft(LAMBDA acc, k : Round(acc), [out |-> <<>>, lists |-> lists],
              [k \in 1 .. n |-> k]).out

-----------------------------------------------------------------------------
(* New metadata.                                                           *)

(* The topics that had a partition to send to and have none any more.      *)
Vanished(old, new) ==
  {t \in Topics : Routable(old, t) /\ ~Routable(new, t)}

(* UpdateBatchStateForNewMetadata: their batches leave the batcher; two    *)
(* lists of messages, each of several topics.                              *)
UpdateBatchStateForNewMetadata(old, new, order) ==
  LET gone == SelectSeq(order, LAMBDA t : t \in Vanished(old, new))
  IN FoldLeft(LAMBDA acc, t :
       LET d == DeleteTopic(acc.pt, t) IN
         IF Known(new, t)
           THEN [acc EXCEPT !.pt = d.pt, !.unavailable = @ \o Ids(d.batch)]
           ELSE [acc EXCEPT !.pt = d.pt, !.deleted = @ \o Ids(d.batch)],
       [pt |-> PerTopicBatcher, deleted |-> <<>>, unavailable |-> <<>>], gone)

(* Reroute: the lists whose topic has gone are discarded; keyed messages   *)
(* are separated from the others.                                          *)
Rerouted(md, lists) ==
  LET valid == SelectSeq(lists, LAMBDA l : Routable(md, TopicOf(l[1])))
      any == [i \in DOMAIN valid |->
                SelectSeq(valid[i], LAMBDA m : info[m].routing = "AnyPartition")]
  IN [bad |-> SelectSeq(lists, LAMBDA l : ~Routable(md, TopicOf(l[1]))),
      any |-> SelectSeq(any, LAMBDA l : l # <<>>),
      keyed |-> FlattenSeq([i \in DOMAIN valid |->
                  SelectSeq(valid[i], LAMBDA m : info[m].routing = "PartitionKey")])]

(* ReplaceMetadataOnRefresh, its fetch done: shut the dispatcher down,     *)
(* SetMetadata, restart, and reroute what the connectors had.              *)
ReplaceMetadata(md) ==
  LET upd == UpdateBatchStateForNewMetadata(Metadata, md, SomeOrder)
      batched == Moves(<<upd.deleted, upd.unavailable>>, "Processed")
      re == Rerouted(md, EmptyDispatcher)
      moves == Moves(re.bad, "Processed") \o Moves(re.any, "SendWait")
                 \o Moves(ByTopic(re.keyed), "SendWait")
      pruned == PruneTopics(
                  Tracked(Tracked(stats, msgState, Moves(ReleasedHeld, "SendWait")),
                          msgState, batched),
                  {t \in Topics : Known(md, t)})
  IN /\ Metadata' = md
     /\ PerTopicBatcher' = upd.pt
     /\ stats' = Tracked(pruned, Released, moves)
     /\ Account(Released, batched \o moves,
                [m \in Msgs |-> IF Known(md, TopicOf(m)) THEN "NoAvailablePartitions"
                                ELSE "BadTopic"])
     /\ \E r \in BatchRoutes(md, re.any) :
          queue' = RoutePartitionKeyNow(md,
                     RouteAnyPartitionNow([b \in Brokers |-> NoQueue], re.any, r), re.keyed)
     /\ UNCHANGED <<OptNextBatchExpiry, running>>

(* The dispatcher is shut down for good: discard what it had.              *)
DiscardDispatcher(more) ==
  /\ running' = FALSE
  /\ queue' = [b \in Brokers |-> NoQueue]
  /\ LET moves == Moves(EmptyDispatcher \o more, "Processed")
     IN /\ Account(Released, moves, All("ServerShutdown"))
        /\ stats' = Tracked(Tracked(stats, msgState, Moves(ReleasedHeld, "SendWait")),
                            Released, moves)

(* GetMetadata: it gives up only when the time limit of a slow shutdown    *)
(* expires, and that shutdown may be one it learns of between two tries.   *)
StartShutdown == ShutdownStartTime' = TRUE /\ NeedToContinueShutdown' = TRUE
LearnsOfShutdown ==
  \/ ~ShutdownStartTime /\ stopping /\ StartShutdown
  \/ ShutdownStartTime /\ UNCHANGED <<ShutdownStartTime, NeedToContinueShutdown>>
GetMetadata ==
  \/ UNCHANGED <<ShutdownStartTime, NeedToContinueShutdown>>
  \/ LearnsOfShutdown

(* HandleMetadataUpdate, when it brings metadata.                          *)
UpdateMetadata ==
  /\ GetMetadata
  /\ \E md \in Versions :
       \/ CompareMetadataOnRefresh /\ M!SameMetadata(md, Metadata)
            /\ UNCHANGED <<Metadata, batchVars, dispVars, trackVars>>
       \/ ~(CompareMetadataOnRefresh /\ M!SameMetadata(md, Metadata))
            /\ ReplaceMetadata(md)

(* HandleMetadataUpdate, when it does not: 'more' is what the caller       *)
(* discards besides.  When the fetch came before a comparison, the         *)
(* dispatcher was not shut down and EmptyDispatcher finds nothing.         *)
UpdateGivesUp(more) ==
  /\ LearnsOfShutdown
  /\ IF CompareMetadataOnRefresh
       THEN Track(Moves(more, "Processed"), All("ServerShutdown")) /\ UNCHANGED dispVars
       ELSE DiscardDispatcher(more)
  /\ UNCHANGED <<Metadata, batchVars>>

-----------------------------------------------------------------------------
(* The threads around the router.                                          *)

RoutingInit ==
  /\ now = 0 /\ info = <<>> /\ born = <<>>
  /\ msgState = [m \in Msgs |-> "Absent"] /\ fate = [m \in Msgs |-> "none"]
  /\ MsgChannel = <<>> /\ stats = TMsgStateTracker /\ limiter = <<>>
  /\ leaked = [t \in Topics |-> 0]
  /\ Metadata \in Versions /\ updates = 0
  /\ PerTopicBatcher = EmptyPerTopic /\ OptNextBatchExpiry = None
  /\ running = TRUE /\ queue = [b \in Brokers |-> NoQueue]
  /\ pc = "loop" /\ wakeAt = None /\ gotMsgs = FALSE /\ readTime = 0
  /\ msg_list = <<>> /\ remaining = <<>> /\ ready_batches = <<>> /\ creating = NotCreating
  /\ stopping = FALSE /\ ShutdownStartTime = FALSE /\ NeedToContinueShutdown = FALSE

Tick ==
  /\ now < MaxTime
  /\ now' = now + 1
  /\ UNCHANGED <<msgVars, trackVars, MsgChannel, limiter, mdVars, batchVars, dispVars,
                 pc, wakeAt, gotMsgs, readTime, localVars, stopVars>>

(* An input agent creates a message.                                       *)
NewMsg(m, kind) ==
  /\ ~stopping
  /\ m = Len(info) + 1
  /\ info' = Append(info, kind) /\ born' = Append(born, now)
  /\ msgState' = [msgState EXCEPT ![m] = "New"]
  /\ stats' = MsgEnterNew(stats)
  /\ MsgChannel' = Append(MsgChannel, m)
  /\ UNCHANGED <<now, fate, leaked, limiter, mdVars, batchVars, dispVars, pc, wakeAt, gotMsgs,
                 readTime, localVars, stopVars>>

(* The main thread has stopped the input agents and stops the router.      *)
RequestShutdown ==
  /\ ~stopping
  /\ stopping' = TRUE
  /\ UNCHANGED <<now, msgVars, trackVars, MsgChannel, limiter, mdVars, batchVars, dispVars,
                 pc, wakeAt, gotMsgs, readTime, localVars, ShutdownStartTime, NeedToContinueShutdown>>

connectorLeaves == <<now, msgVars, MsgChannel, limiter, mdVars, batchVars, running, pc,
                     wakeAt, gotMsgs, readTime, localVars, stopVars>>

(* A batch of broker b's queue is complete.                                *)
CompleteBatch(b) ==
  /\ running /\ queue[b].held # <<>>
  /\ queue' = [queue EXCEPT ![b].send = @ \o ByTopic(queue[b].held), ![b].held = <<>>]
  /\ Track(Moves(ByTopic(queue[b].held), "SendWait"), All("none"))
  /\ UNCHANGED connectorLeaves

Send(b) ==
  /\ running /\ queue[b].send # <<>>
  /\ queue' = [queue EXCEPT ![b].ack = Append(@, Head(queue[b].send)), ![b].send = Tail(@)]
  /\ Track(Moves(<<Head(queue[b].send)>>, "AckWait"), All("none"))
  /\ UNCHANGED connectorLeaves

Acknowledge(b) ==
  /\ running /\ queue[b].ack # <<>>
  /\ queue' = [queue EXCEPT ![b].ack = Tail(@)]
  /\ Track(Moves(<<Head(queue[b].ack)>>, "Processed"), All("Acknowledged"))
  /\ UNCHANGED connectorLeaves

-----------------------------------------------------------------------------
(* The main loop.                                                          *)

(* Mutant: a timeout that does not fit an int becomes negative.            *)
PollTimeoutOverflows ==
  IF OptNextBatchExpiry = None \/ OptNextBatchExpiry > now + IntMax
    THEN [wakeAt |-> None, expiry |-> OptNextBatchExpiry]
    ELSE [wakeAt |-> OptNextBatchExpiry, expiry |-> OptNextBatchExpiry]

(* When poll() will return, and the expiry that is left for afterwards.    *)
ComputeMainLoopPollTimeout ==
  IF OptNextBatchExpiry = None THEN [wakeAt |-> None, expiry |-> None]
  ELSE IF OptNextBatchExpiry <= now THEN [wakeAt |-> now, expiry |-> OptNextBatchExpiry]
  ELSE IF OptNextBatchExpiry - now > IntMax THEN [wakeAt |-> now, expiry |-> now]
  ELSE [wakeAt |-> OptNextBatchExpiry, expiry |-> OptNextBatchExpiry]

(* The top of the loop, and the call of poll().                            *)
Poll ==
  /\ pc = "loop" /\ ~NeedToContinueShutdown
  /\ pc' = "poll"
  /\ wakeAt' = ComputeMainLoopPollTimeout.wakeAt
  /\ OptNextBatchExpiry' = ComputeMainLoopPollTimeout.expiry
  /\ UNCHANGED <<now, msgVars, trackVars, MsgChannel, limiter, mdVars, PerTopicBatcher,
                 dispVars, gotMsgs, readTime, localVars, stopVars>>

(* poll() returns: a request to stop, the refresh timer, messages, or the  *)
(* timeout.                                                                *)
Wake ==
  /\ pc = "poll"
  /\ LET asked == stopping /\ ~ShutdownStartTime
         got == MsgChannel # <<>> /\ ~ShutdownStartTime
         late == wakeAt # None /\ now >= wakeAt
     IN \E timer \in BOOLEAN :
          /\ asked \/ got \/ late \/ timer
          /\ timer => ~ShutdownStartTime /\ updates < MaxUpdates
          /\ IF asked THEN StartShutdown
             ELSE UNCHANGED <<ShutdownStartTime, NeedToContinueShutdown>>
          /\ pc' = IF timer THEN "refresh" ELSE "expiry"
          /\ gotMsgs' = got
  /\ wakeAt' = None
  /\ UNCHANGED <<now, msgVars, trackVars, MsgChannel, limiter, mdVars, batchVars, dispVars,
                 readTime, localVars, stopping>>

(* The dispatcher has finished its slow shutdown.                          *)
HandleShutdownFinished ==
  /\ pc = "poll" /\ ShutdownStartTime
  /\ DiscardDispatcher(<<>>)
  /\ pc' = "ending" /\ wakeAt' = None
  /\ UNCHANGED <<now, msgVars, MsgChannel, limiter, mdVars, batchVars, gotMsgs, readTime,
                 localVars, stopVars>>

(* HandleMetadataUpdate in the main loop.                                  *)
Refresh ==
  /\ pc = "refresh"
  /\ \/ UpdateMetadata /\ pc' = "expiry"
     \/ UpdateGivesUp(<<>>) /\ pc' = "ending"
  /\ updates' = updates + 1
  /\ UNCHANGED <<now, msgVars, MsgChannel, limiter, wakeAt, gotMsgs, readTime, localVars,
                 stopping>>

(* After the loop: what is still batched is discarded.                     *)
EndLoop ==
  /\ pc = "ending"
  /\ pc' = "ended"
  /\ LET all == GetAllBatches(PerTopicBatcher, SomeOrder)
     IN /\ Track(Moves(AllIds(all.batches), "Processed"), All("ServerShutdown"))
        /\ PerTopicBatcher' = all.pt
  /\ UNCHANGED <<now, msgVars, MsgChannel, limiter, mdVars, OptNextBatchExpiry, dispVars,
                 wakeAt, gotMsgs, readTime, localVars, stopVars>>

(* The batches can be routed; the program dies otherwise.                  *)
AllRoutable(lists) == \A i \in DOMAIN lists : Routable(Metadata, TopicOf(lists[i][1]))

Crash ==
  /\ pc' = "Crashed"
  /\ UNCHANGED <<now, msgVars, trackVars, MsgChannel, limiter, mdVars, batchVars, dispVars,
                 wakeAt, gotMsgs, readTime, localVars, stopVars>>

RouteBatches(lists) ==
  /\ \E r \in BatchRoutes(Metadata, lists) : queue' = RouteAnyPartitionNow(queue, lists, r)
  /\ Track(Moves(lists, "SendWait"), All("none"))
  /\ UNCHANGED running

(* HandleBatchExpiry, and MsgChannel.Get() of HandleMsgAvailable.          *)
HandleBatchExpiry ==
  /\ pc = "expiry"
  /\ \E order \in TopicOrders :
       LET due == OptNextBatchExpiry # None /\ now >= OptNextBatchExpiry
           done == GetCompleteBatches(PerTopicBatcher, now, order)
           lists == IF due THEN AllIds(done.batches) ELSE <<>>
       IN IF ~AllRoutable(lists) THEN Crash
          ELSE /\ RouteBatches(lists)
               /\ PerTopicBatcher' = IF due THEN done.pt ELSE PerTopicBatcher
               /\ OptNextBatchExpiry' = IF due THEN PerTopicNextCompleteTime(done.pt)
                                        ELSE OptNextBatchExpiry
               /\ pc' = IF gotMsgs THEN "msgs" ELSE "loop"
               /\ readTime' = IF gotMsgs THEN now ELSE 0
               /\ msg_list' = IF gotMsgs THEN MsgChannel ELSE <<>>
               /\ MsgChannel' = IF gotMsgs THEN <<>> ELSE MsgChannel
               /\ gotMsgs' = FALSE
               /\ UNCHANGED <<now, msgVars, limiter, mdVars, wakeAt, remaining,
                              ready_batches, creating, stopVars>>

-----------------------------------------------------------------------------
(* ValidateNewMsg for the first message of msg_list, in HandleMsgAvailable *)
(* (pc = "msgs") or RouteFinalMsgs (pc = "final").                         *)

First == Head(msg_list)
Validating == pc \in {"msgs", "final"} /\ msg_list # <<>>

(* What is wrong with the message, once its topic has been looked for.     *)
Fault ==
  LET t == TopicOf(First) IN
  CASE ~Known(Metadata, t) -> "BadTopic"
    [] Known(Metadata, t) /\ info[First].long -> "TooLong"
    [] Known(Metadata, t) /\ ~info[First].long /\ ~Routable(Metadata, t) ->
         "NoAvailablePartitions"
    [] OTHER -> "none"

AsksToCreate ==
  TopicAutocreate /\ ~Known(Metadata, TopicOf(First)) /\ creating = NotCreating

(* Only a message without a fault is counted.                              *)
Limited == WouldExceedLimit(limiter, TopicOf(First), born[First])

DiscardFirst(reason) ==
  /\ Track(Moves(<<<<First>>>>, "Processed"), All(reason))
  /\ msg_list' = Tail(msg_list)
  /\ creating' = NotCreating
  /\ UNCHANGED <<now, msgVars, MsgChannel, mdVars, batchVars, dispVars, pc, wakeAt, gotMsgs,
                 readTime, remaining, ready_batches, stopVars>>

ValidateFails ==
  /\ Validating /\ ~AsksToCreate
  /\ \/ Fault # "none" /\ DiscardFirst(Fault) /\ UNCHANGED limiter
     \/ Fault = "none" /\ Limited.exceeds /\ DiscardFirst("RateLimit")
          /\ limiter' = Limited.map

(* AutocreateTopic: no broker could be reached or agreed; or one did.      *)
AutocreateFails ==
  Validating /\ AsksToCreate /\ DiscardFirst("FailedTopicAutocreate") /\ UNCHANGED limiter

AutocreateTopic ==
  /\ Validating /\ AsksToCreate
  /\ creating' = [from |-> pc, tries |-> 0]
  /\ pc' = "created"
  /\ UNCHANGED <<now, msgVars, trackVars, MsgChannel, limiter, mdVars, batchVars, dispVars,
                 wakeAt, gotMsgs, readTime, msg_list, remaining, ready_batches, stopVars>>

(* UpdateMetadataAfterTopicAutocreate: one of its attempts.                *)
UpdateAfterAutocreate ==
  /\ pc = "created"
  /\ UpdateMetadata
  /\ creating' = [creating EXCEPT !.tries = @ + 1]
  /\ pc' = IF Known(Metadata', TopicOf(First)) \/ creating.tries + 1 = NumAttempts
             THEN creating.from ELSE "created"
  /\ UNCHANGED <<now, msgVars, MsgChannel, limiter, updates, wakeAt, gotMsgs, readTime,
                 msg_list, remaining, ready_batches, stopping>>

(* The time for shutdown ran out in it: all the messages at hand are       *)
(* discarded, one by one.  The caller of HandleMsgAvailable is not told.   *)
AutocreateGivesUp ==
  /\ pc = "created"
  /\ LET atHand == msg_list \o remaining \o FlattenSeq(ready_batches)
     IN UpdateGivesUp([i \in DOMAIN atHand |-> <<atHand[i]>>])
  /\ pc' = IF creating.from = "msgs" THEN "loop" ELSE "final"
  /\ msg_list' = <<>> /\ remaining' = <<>> /\ ready_batches' = <<>>
  /\ creating' = NotCreating
  /\ readTime' = 0
  /\ UNCHANGED <<now, msgVars, MsgChannel, limiter, updates, wakeAt, gotMsgs, stopping>>

-----------------------------------------------------------------------------
(* The rest of HandleMsgAvailable.                                         *)

(* A valid message goes to the batcher, or with the others to be routed.   *)
BatchOrKeep ==
  /\ pc = "msgs" /\ Validating /\ ~AsksToCreate /\ Fault = "none" /\ ~Limited.exceeds
  /\ limiter' = Limited.map
  /\ \E order \in TopicOrders :
       LET add == PerTopicAddMsg(PerTopicBatcher, Record(First), readTime, order)
           toBatcher == info[First].routing = "AnyPartition"
           taken == toBatcher /\ ~add.left
       IN /\ PerTopicBatcher' = IF toBatcher THEN add.pt ELSE PerTopicBatcher
          /\ OptNextBatchExpiry' = IF toBatcher THEN PerTopicNextCompleteTime(add.pt)
                                   ELSE OptNextBatchExpiry
          /\ ready_batches' = IF toBatcher THEN ready_batches \o AllIds(add.batches)
                              ELSE ready_batches
          /\ remaining' = IF taken THEN remaining ELSE Append(remaining, First)
          /\ Track(IF taken THEN Moves(<<<<First>>>>, "Batching") ELSE <<>>, All("none"))
  /\ msg_list' = Tail(msg_list)
  /\ creating' = NotCreating
  /\ UNCHANGED <<now, msgVars, MsgChannel, mdVars, dispVars, pc, wakeAt, gotMsgs, readTime,
                 stopVars>>

(* Every message has been looked at: route the complete batches and the    *)
(* messages that were not batched.  'kept' are those a broker's queue      *)
(* holds back.                                                             *)
RouteMsgs ==
  /\ pc = "msgs" /\ msg_list = <<>>
  /\ IF ~AllRoutable(ready_batches) \/ ~AllRoutable([i \in DOMAIN remaining |-> <<remaining[i]>>])
       THEN Crash
       ELSE /\ \E r \in BatchRoutes(Metadata, ready_batches), s \in MsgRoutes(Metadata, remaining),
                 kept \in SUBSET ToSet(remaining) :
                 /\ queue' = Route(RouteAnyPartitionNow(queue, ready_batches, r), remaining, s, kept)
                 /\ Track(Moves(ready_batches, "SendWait")
                            \o [i \in DOMAIN remaining |->
                                  [msgs |-> <<remaining[i]>>,
                                   to |-> IF remaining[i] \in kept THEN "Batching"
                                          ELSE "SendWait"]], All("none"))
            /\ pc' = "loop"
            /\ remaining' = <<>> /\ ready_batches' = <<>> /\ readTime' = 0
            /\ UNCHANGED <<now, msgVars, MsgChannel, limiter, mdVars, batchVars, running,
                           wakeAt, gotMsgs, msg_list, creating, stopVars>>

-----------------------------------------------------------------------------
(* ContinueShutdown.                                                       *)

(* RouteFinalMsgs begins.  A stopped dispatcher takes no messages.         *)
ContinueShutdown ==
  /\ pc = "loop" /\ NeedToContinueShutdown
  /\ \E order \in TopicOrders :
       LET all == GetAllBatches(PerTopicBatcher, order)
           lists == AllIds(all.batches)
       IN IF ~running \/ ~AllRoutable(lists) THEN Crash
          ELSE /\ NeedToContinueShutdown' = FALSE
               /\ RouteBatches(lists)
               /\ PerTopicBatcher' = all.pt
               /\ msg_list' = MsgChannel /\ MsgChannel' = <<>>
               /\ pc' = "final"
               /\ UNCHANGED <<now, msgVars, limiter, mdVars, OptNextBatchExpiry, wakeAt,
                              gotMsgs, readTime, remaining, ready_batches, creating,
                              stopping, ShutdownStartTime>>

(* A valid message of the last ones is routed at once.                     *)
RouteNow ==
  /\ pc = "final" /\ Validating /\ ~AsksToCreate /\ Fault = "none" /\ ~Limited.exceeds
  /\ limiter' = Limited.map
  /\ \E b \in AssignBroker(Metadata, First) : queue' = AppendSend(queue, b, <<<<First>>>>)
  /\ Track(Moves(<<<<First>>>>, "SendWait"), All("none"))
  /\ msg_list' = Tail(msg_list)
  /\ creating' = NotCreating
  /\ UNCHANGED <<now, msgVars, MsgChannel, mdVars, batchVars, running, pc, wakeAt, gotMsgs,
                 readTime, remaining, ready_batches, stopVars>>

(* Dispatcher.StartSlowShutdown()                                          *)
StartSlowShutdown ==
  /\ pc = "final" /\ msg_list = <<>>
  /\ IF ~running THEN Crash
     ELSE /\ pc' = "loop"
          /\ UNCHANGED <<now, msgVars, trackVars, MsgChannel, limiter, mdVars, batchVars,
                         dispVars, wakeAt, gotMsgs, readTime, localVars, stopVars>>

Stopped == pc \in {"ended", "Crashed"} /\ UNCHANGED routingVars

RouterStep ==
  \/ Poll \/ Wake \/ HandleShutdownFinished \/ Refresh \/ EndLoop \/ HandleBatchExpiry
  \/ ValidateFails \/ AutocreateFails \/ AutocreateTopic \/ UpdateAfterAutocreate
  \/ AutocreateGivesUp \/ BatchOrKeep \/ RouteMsgs
  \/ ContinueShutdown \/ RouteNow \/ StartSlowShutdown

RoutingNext ==
  \/ Tick \/ RequestShutdown \/ \E m \in Msgs, k \in Kinds : NewMsg(m, k)
  \/ \E b \in Brokers : CompleteBatch(b) \/ Send(b) \/ Acknowledge(b)
  \/ RouterStep \/ Stopped

RoutingSpec == RoutingInit /\ [][RoutingNext]_routingVars
==============================================================================
