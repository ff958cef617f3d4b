---------------------------- MODULE MsgStateTracker ---------------------------
(***************************************************************************)
(* The message state tracker (msg_state_tracker.cc): per topic, how many   *)
(* messages are being batched, wait to be sent and wait for an ACK, and    *)
(* over all topics how many are new.  A tracker is a record                *)
(*   [TopicStats : partial function from topics, NewCount]                 *)
(* and every operator is what one thread does while it holds Mutex.  The   *)
(* state of a message belongs to the thread that owns the message.         *)
(***************************************************************************)
EXTENDS Integers, Sequences, SequencesExt

Counted == {"New", "Batching", "SendWait", "AckWait"}

TTopicStats == [BatchingCount |-> 0, SendWaitCount |-> 0, AckWaitCount |-> 0,
                OkToDelete |-> FALSE]

TMsgStateTracker == [TopicStats |-> <<>>, NewCount |-> 0]

MsgEnterNew(tr) == [tr EXCEPT !.NewCount = @ + 1]

(* The states from which each state may be entered; from any other the     *)
(* tracker logs a bug and fails an assertion.                              *)
BatchingEnteredFrom == {"New"}
SendWaitEnteredFrom == {"New", "Batching", "SendWait", "AckWait"}
AckWaitEnteredFrom == {"SendWait"}
ProcessedEnteredFrom == {"New", "SendWait", "AckWait"}

EnteredFrom == [Batching |-> BatchingEnteredFrom, SendWait |-> SendWaitEnteredFrom,
                AckWait |-> AckWaitEnteredFrom, Processed |-> ProcessedEnteredFrom]


(* TDeltaComputer: what one message adds to the counts.                    *)
Move(delta, from, to) ==
  [s \in Counted |-> delta[s] + (IF s = to THEN 1 ELSE 0) - (IF s = from THEN 1 ELSE 0)]

NoCounts(stats) ==
  stats.BatchingCount = 0 /\ stats.SendWaitCount = 0 /\ stats.AckWaitCount = 0

Without(f, x) == [t \in DOMAIN f \ {x} |-> f[t]]
With(f, x, v) == [t \in DOMAIN f \cup {x} |-> IF t = x THEN v ELSE f[t]]

UpdateStats(tr, topic, d) ==
  LET old == IF topic \in DOMAIN tr.TopicStats THEN tr.TopicStats[topic] ELSE TTopicStats
      new == [old EXCEPT !.BatchingCount = @ + d["Batching"],
                         !.SendWaitCount = @ + d["SendWait"],
                         !.AckWaitCount = @ + d["AckWait"]]
      touched == d["Batching"] # 0 \/ d["SendWait"] # 0 \/ d["AckWait"] # 0
  IN [TopicStats |-> CASE ~touched -> tr.TopicStats
                       [] touched /\ new.OkToDelete /\ NoCounts(new) ->
                            Without(tr.TopicStats, topic)
                       [] OTHER -> With(tr.TopicStats, topic, new),
      NewCount |-> tr.NewCount + d["New"]]

(* MsgEnterBatching, MsgEnterSendWait, MsgEnterAckWait, MsgEnterProcessed  *)
(* for a list of messages of one topic: 'states' are the states they come  *)
(* from.                                                                   *)
MsgEnter(tr, topic, states, to) ==
  IF states = <<>> THEN tr
  ELSE UpdateStats(tr, topic,
         FoldLeft(LAMBDA d, s : IF s \in EnteredFrom[to] THEN Move(d, s, to) ELSE d,
                  [s \in Counted |-> 0], states))

(* The topics with something to report, and the number of new messages.    *)
GetStats(tr) ==
  [topics |-> {t \in DOMAIN tr.TopicStats : ~NoCounts(tr.TopicStats[t])},
   stats |-> tr.TopicStats, NewCount |-> tr.NewCount]

(* The metadata has changed: 'exists' are its topics.                      *)
PruneTopics(tr, exists) ==
  LET kept == {t \in DOMAIN tr.TopicStats :
                 t \in exists \/ ~NoCounts(tr.TopicStats[t])}
  IN [tr EXCEPT !.TopicStats =
        [t \in kept |-> [tr.TopicStats[t] EXCEPT !.OkToDelete = t \notin exists]]]
===============================================================================
