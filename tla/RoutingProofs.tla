---------------------------- MODULE RoutingProofs ----------------------------
(***************************************************************************)
(* The steps of the router thread that route messages to connectors,       *)
(* start and restart the dispatcher or discard what is left are all of     *)
(* the kind RouterMoves of MsgInvProofs.                                   *)
(***************************************************************************)
EXTENDS MsgInvProofs

(* Nothing is left of a former dispatcher but between a join and a start,  *)
(* and then the router finds all of it.                                    *)
LEMMA LeftOnlyAtJoin ==
  ASSUME TypeOK, QueuesOwned
  PROVE  /\ rpc \notin {"join", "restart"} =>
              \A c \in Brokers : SendWaitAfterShutdown[c] = {} /\ NoAckAfterShutdown[c] = {}
         /\ LeftInDispatcher = UNION {Left(c) : c \in Brokers}
         /\ \A c \in Brokers : NoAckAfterShutdown[c] \subseteq PossibleDuplicates
<1>1. Connectors \subseteq Brokers
  BY ConnectorsAreBrokers DEF TypeOK
<1>2. ASSUME rpc \notin {"join", "restart"}, NEW c \in Brokers
      PROVE  SendWaitAfterShutdown[c] = {} /\ NoAckAfterShutdown[c] = {}
  BY <1>2 DEF QueuesOwned, Left
<1>3. \A c \in Brokers : Left(c) # {} => c \in Connectors
  BY DEF QueuesOwned
<1>4. LeftInDispatcher = UNION {Left(c) : c \in Connectors}
  BY DEF LeftInDispatcher, Left
<1>5. LeftInDispatcher = UNION {Left(c) : c \in Brokers}
  BY <1>1, <1>3, <1>4
<1>6. \A c \in Brokers : NoAckAfterShutdown[c] \subseteq PossibleDuplicates
  BY <1>3 DEF Left, PossibleDuplicates
<1> QED
  BY <1>2, <1>5, <1>6

(* The final routing of a shutdown is such a step.                         *)
LEMMA ContinueShutdownMoves ==
  ASSUME TypeOK, MsgInv, ContinueShutdown
  PROVE  \E In, D : RouterMoves(In, D)
<1>1. PICK route \in FinalRoutes(PerTopicBatcher, MsgChannel, Connectors) :
        ContinueShutdown!3!(route)
  BY DEF ContinueShutdown
<1> DEFINE S == PerTopicBatcher \cup MsgChannel
           In == Routed(route)
           D == Invalid(route)
<1>2. route \in [S -> Connectors \cup {0}]
  BY <1>1 DEF FinalRoutes
<1>3. /\ \A c \in Brokers : /\ SendWaitAfterShutdown[c] = {} /\ NoAckAfterShutdown[c] = {}
      /\ Free = S
  <2>1. \A c \in Brokers : /\ SendWaitAfterShutdown[c] = {} /\ NoAckAfterShutdown[c] = {}
    BY LeftOnlyAtJoin DEF ContinueShutdown, MsgInv
  <2> QED
    BY <2>1 DEF Free, Left
<1>4. Connectors \subseteq Brokers
  BY ConnectorsAreBrokers DEF TypeOK
<1>5. /\ \A c \in Brokers : /\ In[c] = {m \in S : route[m] = c}
                            /\ In[c] # {} => c \in Connectors \cup {0}
                            /\ In[c] \cap D = {}
      /\ \A c, d \in Brokers : c # d => In[c] \cap In[d] = {}
      /\ D = {m \in S : route[m] = 0}
  <2> HIDE DEF S
  <2>1. DOMAIN route = S /\ \A m \in S : route[m] \in Connectors \cup {0}
    BY <1>2
  <2>2. 0 \notin Brokers
    BY BoundsAssumption DEF Brokers
  <2> QED
    BY <2>1, <2>2 DEF Routed, Invalid
<1>6. 0 \notin Brokers
  BY BoundsAssumption DEF Brokers
<1>7. D \cup UNION {In[c] : c \in Brokers} = S
  <2>1. \A m \in S : route[m] = 0 \/ route[m] \in Brokers
    BY <1>2, <1>4
  <2> QED
    BY <1>5, <2>1
<1>8. StateMoves(D)
  <2>1. \A c \in Brokers : Left(c) = {}
    BY <1>3 DEF Left
  <2>2. msgState' = RouteNow(S, D) /\ D \subseteq S
    BY <1>1, <1>2, <1>5
  <2> HIDE DEF D, S
  <2> QED
    BY <1>3, <2>1, <2>2 DEF RouteNow, StateMoves
<1>9. /\ \A c \in Brokers : InputQueue'[c] = InputQueue[c] \cup In[c]
      /\ discarded' = discarded \cup D
  BY <1>1
<1>10. /\ UNCHANGED <<RequestFactory, CurrentRequest, AckWaitQueue, GotAckAfterPause,
                      NoAckAfterPause, SendWaitAfterShutdown, NoAckAfterShutdown, Connectors,
                      delivered, destroyed, unacked, duplicates>>
       /\ MsgChannel' = {} /\ PerTopicBatcher' = {}
       /\ rpc' \in {"ack", "send"}
  BY DEF ContinueShutdown, BeginShutdown, sharedVars, fateVars
<1>11. \A c \in Brokers : /\ Apart(AckWaitQueue[c])
                          /\ Working(c) # {} => c \in Connectors
  BY DEF MsgInv, ConnectorsApart, QueuesOwned
<1> HIDE DEF In, D, S
<1>12. RouterMoves(In, D)
  BY <1>3, <1>5, <1>6, <1>7, <1>8, <1>9, <1>10, <1>11 DEF RouterMoves
<1> QED
  BY <1>12

(* A start, at which nothing is in the queues of the connectors.           *)
LEMMA StartMoves ==
  ASSUME TypeOK, MsgInv, rpc \in {"init", "restart"}, NEW n \in 0 .. MaxBrokers,
         NEW In, StartDispatcher(n, In), NEW c \in Brokers
  PROVE  /\ InputQueue'[c] = InputQueue[c] \cup In[c]
         /\ RequestFactory'[c] = RequestFactory[c] /\ CurrentRequest'[c] = CurrentRequest[c]
         /\ GotAckAfterPause'[c] = GotAckAfterPause[c]
         /\ NoAckAfterPause'[c] = NoAckAfterPause[c]
         /\ Flatten(AckWaitQueue[c])' = Flatten(AckWaitQueue[c]) /\ Apart(AckWaitQueue[c])'
         /\ SendWaitAfterShutdown'[c] = {} /\ NoAckAfterShutdown'[c] = {}
         /\ Working(c) = {}
<1>1. Working(c) = {}
  BY DEF MsgInv, QueuesOwned
<1>2. /\ InputQueue[c] = {} /\ RequestFactory[c] = {} /\ CurrentRequest[c] = {}
      /\ GotAckAfterPause[c] = {} /\ NoAckAfterPause[c] = {} /\ Flatten(AckWaitQueue[c]) = {}
  BY <1>1 DEF Working
<1>3. /\ InputQueue'[c] = In[c] /\ RequestFactory'[c] = {} /\ CurrentRequest'[c] = {}
      /\ GotAckAfterPause'[c] = {} /\ NoAckAfterPause'[c] = {} /\ AckWaitQueue'[c] = <<>>
      /\ SendWaitAfterShutdown'[c] = {} /\ NoAckAfterShutdown'[c] = {}
  BY DEF StartDispatcher, NoMsgs
<1> QED
  BY <1>1, <1>2, <1>3, FlattenEmpty

(* So is a restart of the dispatcher, with or without final routing.       *)
LEMMA RestartMoves ==
  ASSUME TypeOK, MsgInv, rpc = "restart", NEW final \in BOOLEAN, Restart(final),
         rpc' \notin {"init", "join", "restart"}
  PROVE  \E In, D : RouterMoves(In, D)
<1>1. PICK n \in 0 .. MaxBrokers, E \in SUBSET PerTopicBatcher : Restart(final)!(n, E)
  BY ZenonT(60) DEF Restart
<1> DEFINE kept == PerTopicBatcher \ E
<1>2. PICK route \in [LeftInDispatcher -> 0 .. n],
           routeFinal \in (IF final THEN FinalRoutes(kept, MsgChannel, 1 .. n) ELSE {<<>>}) :
        LET gone == E \cup Invalid(route) \cup Invalid(routeFinal) IN
        /\ StartDispatcher(n, [c \in Brokers |-> Routed(route)[c] \cup Routed(routeFinal)[c]])
        /\ discarded' = discarded \cup gone
        /\ msgState' = RouteNow(DOMAIN route \cup DOMAIN routeFinal, gone)
  BY <1>1, ZenonT(60)
<1> DEFINE In == [c \in Brokers |-> Routed(route)[c] \cup Routed(routeFinal)[c]]
           D == E \cup Invalid(route) \cup Invalid(routeFinal)
           S == LeftInDispatcher
           F == IF final THEN kept \cup MsgChannel ELSE {}
<1>3. /\ Free = MsgChannel \cup PerTopicBatcher \cup S
      /\ \A c \in Brokers : NoAckAfterShutdown[c] \subseteq duplicates'
      /\ duplicates \subseteq duplicates'
  BY <1>1, LeftOnlyAtJoin DEF Free, MsgInv
<1>4. 1 .. n \subseteq Brokers /\ 0 .. n \subseteq Brokers \cup {0} /\ 0 \notin Brokers
  BY BoundsAssumption DEF Brokers
<1>5. /\ route \in [S -> 0 .. n] /\ DOMAIN route = S
      /\ routeFinal \in [F -> 0 .. n] /\ DOMAIN routeFinal = F
  <2>1. CASE final
    <3>1. routeFinal \in [kept \cup MsgChannel -> 1 .. n \cup {0}]
      BY <1>2, <2>1 DEF FinalRoutes
    <3>2. 1 .. n \cup {0} = 0 .. n
      OBVIOUS
    <3> QED
      BY <1>2, <2>1, <3>1, <3>2
  <2>2. CASE ~final
    BY <1>2, <2>2
  <2> QED
    BY <2>1, <2>2
<1>6. /\ \A c \in Brokers : /\ Routed(route)[c] = {m \in S : route[m] = c}
                            /\ Routed(route)[c] # {} => c \in 0 .. n
      /\ Invalid(route) = {m \in S : route[m] = 0}
  <2> HIDE DEF S
  <2>1. DOMAIN route = S /\ \A m \in S : route[m] \in 0 .. n
    BY <1>5
  <2> QED
    BY <2>1 DEF Routed, Invalid
<1>7. /\ \A c \in Brokers : /\ Routed(routeFinal)[c] = {m \in F : routeFinal[m] = c}
                            /\ Routed(routeFinal)[c] # {} => c \in 0 .. n
      /\ Invalid(routeFinal) = {m \in F : routeFinal[m] = 0}
  <2> HIDE DEF F
  <2>1. DOMAIN routeFinal = F /\ \A m \in F : routeFinal[m] \in 0 .. n
    BY <1>5
  <2> QED
    BY <2>1 DEF Routed, Invalid
<1>8. /\ S \cap (MsgChannel \cup PerTopicBatcher) = {} /\ MsgChannel \cap PerTopicBatcher = {}
  <2>1. S \subseteq InConnectors
    BY LeftOnlyAtJoin DEF MsgInv, InConnectors
  <2> QED
    BY <2>1 DEF MsgInv, MsgsApart
<1>9. StartDispatcher(n, In) /\ discarded' = discarded \cup D
  BY <1>2
<1>10. msgState' = RouteNow(S \cup F, D)
  BY <1>2, <1>5
<1>11. /\ S \subseteq Free /\ F \subseteq Free /\ F \cap S = {} /\ E \cap (S \cup F) = {}
       /\ E \subseteq Free
  BY <1>3, <1>8
<1>12. \A c \in Brokers : In[c] = {m \in S : route[m] = c} \cup {m \in F : routeFinal[m] = c}
  BY <1>6, <1>7
<1>13. D = E \cup {m \in S : route[m] = 0} \cup {m \in F : routeFinal[m] = 0}
  BY <1>6, <1>7
<1>14. \A c \in Brokers : /\ In[c] \subseteq Free /\ In[c] \cap D = {}
                          /\ In[c] # {} => c \in 1 .. n
  <2>1. \A c \in Brokers : c \in 0 .. n => c \in 1 .. n
    BY <1>4
  <2>2. ASSUME NEW c \in Brokers PROVE In[c] \subseteq Free /\ In[c] \cap D = {}
    <3>1. c # 0
      BY <1>4
    <3> HIDE DEF In, D, S, F
    <3> QED
      BY <1>11, <1>12, <1>13, <3>1
  <2> QED
    BY <1>6, <1>7, <2>1, <2>2
<1>15. \A c, d \in Brokers : c # d => In[c] \cap In[d] = {}
  <2> HIDE DEF In, S, F
  <2> QED
    BY <1>11, <1>12
<1>16. D \cup UNION {In[c] : c \in Brokers} = E \cup S \cup F
  <2>1. \A m \in S : route[m] = 0 \/ route[m] \in Brokers
    BY <1>4, <1>5
  <2>2. \A m \in F : routeFinal[m] = 0 \/ routeFinal[m] \in Brokers
    BY <1>4, <1>5
  <2>3. D \subseteq E \cup S \cup F /\ \A c \in Brokers : In[c] \subseteq S \cup F
    BY <1>12, <1>13
  <2> HIDE DEF In, D, S, F
  <2> QED
    BY <1>12, <1>13, <2>1, <2>2, <2>3
<1>17. /\ MsgChannel' \cap PerTopicBatcher' = {}
       /\ MsgChannel' \cup PerTopicBatcher' = Free \ (E \cup S \cup F)
  <2>1. PerTopicBatcher' = (IF final THEN {} ELSE kept)
        /\ MsgChannel' = (IF final THEN {} ELSE MsgChannel)
    BY <1>1
  <2> QED
    BY <1>3, <1>8, <2>1
<1>18. StateMoves(D)
  <2>1. \A c \in Brokers : Left(c) \subseteq S
    BY LeftOnlyAtJoin DEF MsgInv
  <2> HIDE DEF D, S, F
  <2> QED
    BY <1>10, <1>11, <2>1 DEF RouteNow, StateMoves
<1>19. UNCHANGED <<delivered, destroyed, unacked>> /\ Connectors' = 1 .. n
  <2>1. UNCHANGED fateVars
    BY <1>1
  <2> QED
    BY <2>1, <1>9 DEF fateVars, StartDispatcher
<1> HIDE DEF In, D, S, F, kept
<1>20. \A c \in Brokers :
         /\ InputQueue'[c] = InputQueue[c] \cup In[c]
         /\ RequestFactory'[c] = RequestFactory[c] /\ CurrentRequest'[c] = CurrentRequest[c]
         /\ GotAckAfterPause'[c] = GotAckAfterPause[c]
         /\ NoAckAfterPause'[c] = NoAckAfterPause[c]
         /\ Flatten(AckWaitQueue[c])' = Flatten(AckWaitQueue[c]) /\ Apart(AckWaitQueue[c])'
         /\ SendWaitAfterShutdown'[c] = {} /\ NoAckAfterShutdown'[c] = {}
         /\ Working(c) = {}
  BY <1>9, StartMoves
<1>21. D \subseteq Free
  BY <1>11, <1>16
<1>22. RouterMoves(In, D)
  BY <1>3, <1>9, <1>14, <1>15, <1>16, <1>17, <1>18, <1>19, <1>20, <1>21
  DEF RouterMoves
<1> QED
  BY <1>22

(* Steps that only discard: the queues stay as they are, the lists of what *)
(* connectors left are emptied.                                            *)
LEMMA DiscardMoves ==
  ASSUME TypeOK, MsgInv, NEW D, D \subseteq Free,
         UNCHANGED <<InputQueue, RequestFactory, CurrentRequest, AckWaitQueue,
                     GotAckAfterPause, NoAckAfterPause, Connectors, delivered, destroyed,
                     unacked>>,
         \A c \in Brokers : SendWaitAfterShutdown'[c] = {} /\ NoAckAfterShutdown'[c] = {},
         \A c \in Brokers : NoAckAfterShutdown[c] \subseteq duplicates',
         duplicates \subseteq duplicates',
         rpc \notin {"init", "restart"} \/ \A c \in Brokers : Working(c) = {},
         rpc' \in {"end", "joined"},
         MsgChannel' \subseteq MsgChannel, PerTopicBatcher' \subseteq PerTopicBatcher,
         MsgChannel' \cup PerTopicBatcher' = Free \ D,
         discarded' = discarded \cup D,
         msgState' = Enter(D, "Processed"), \A c \in Brokers : Left(c) \subseteq D
  PROVE  RouterMoves(NoMsgs, D)
<1>1. StateMoves(D)
  BY DEF Enter, StateMoves
<1>2. \A c \in Brokers : /\ NoMsgs[c] = {} /\ Apart(AckWaitQueue[c])
                         /\ Working(c) # {} => c \in Connectors
  BY DEF MsgInv, ConnectorsApart, QueuesOwned, NoMsgs
<1>3. UNION {NoMsgs[c] : c \in Brokers} = {}
  BY <1>2
<1>4. MsgChannel' \cap PerTopicBatcher' = {}
  BY DEF MsgInv, MsgsApart
<1> HIDE DEF NoMsgs
<1> QED
  BY <1>1, <1>2, <1>3, <1>4 DEF RouterMoves

(* The end of the router thread discards what it has.                      *)
LEMMA DiscardAndEndMoves ==
  ASSUME TypeOK, MsgInv, DiscardAndEnd, rpc \in {"events", "restart"}
  PROVE  \E In, D : RouterMoves(In, D)
<1> DEFINE D == LeftInDispatcher \cup PerTopicBatcher
<1>1. /\ LeftInDispatcher = UNION {Left(c) : c \in Brokers}
      /\ \A c \in Brokers : NoAckAfterShutdown[c] \subseteq duplicates'
      /\ duplicates \subseteq duplicates'
  BY LeftOnlyAtJoin, ZenonT(60) DEF MsgInv, DiscardAndEnd
<1>2. Free = MsgChannel \cup D
  BY <1>1 DEF Free
<1>3. /\ UNCHANGED <<InputQueue, RequestFactory, CurrentRequest, AckWaitQueue,
                     GotAckAfterPause, NoAckAfterPause, Connectors, delivered, destroyed,
                     unacked, MsgChannel>>
      /\ PerTopicBatcher' = {} /\ rpc' = "end" /\ discarded' = discarded \cup D
      /\ msgState' = Enter(D, "Processed")
  BY DEF DiscardAndEnd, sharedVars, fateVars
<1>4. \A c \in Brokers : SendWaitAfterShutdown'[c] = {} /\ NoAckAfterShutdown'[c] = {}
  BY DEF DiscardAndEnd, NoMsgs
<1>5. MsgChannel \cap D = {}
  <2>1. LeftInDispatcher \subseteq InConnectors
    BY <1>1 DEF InConnectors
  <2> QED
    BY <2>1 DEF MsgInv, MsgsApart
<1>6. rpc \notin {"init", "restart"} \/ \A c \in Brokers : Working(c) = {}
  BY DEF MsgInv, QueuesOwned
<1> HIDE DEF D
<1>7. MsgChannel' \cup PerTopicBatcher' = Free \ D /\ D \subseteq Free
  BY <1>2, <1>3, <1>5
<1>8. \A c \in Brokers : Left(c) \subseteq D
  BY <1>1 DEF D
<1>9. RouterMoves(NoMsgs, D)
  BY <1>1, <1>3, <1>4, <1>6, <1>7, <1>8, DiscardMoves
<1> QED
  BY <1>9

(* What is in the channel at the end is discarded.                         *)
LEMMA ChannelDiscardMoves ==
  ASSUME TypeOK, MsgInv, rpc \in {"init", "end"}, rpc' \in {"end", "joined"},
         UNCHANGED <<sharedVars, queueVars, fateVars, duplicates, PerTopicBatcher>>,
         MsgChannel' = {}, discarded' = discarded \cup MsgChannel,
         msgState' = Enter(MsgChannel, "Processed")
  PROVE  \E In, D : RouterMoves(In, D)
<1>1. /\ UNCHANGED <<InputQueue, RequestFactory, CurrentRequest, AckWaitQueue,
                     GotAckAfterPause, NoAckAfterPause, SendWaitAfterShutdown,
                     NoAckAfterShutdown, Connectors, delivered, destroyed, unacked>>
  BY DEF sharedVars, queueVars, fateVars
<1>2. \A c \in Brokers : SendWaitAfterShutdown[c] = {} /\ NoAckAfterShutdown[c] = {}
  BY LeftOnlyAtJoin DEF MsgInv
<1>3. \A c \in Brokers : /\ SendWaitAfterShutdown'[c] = {} /\ NoAckAfterShutdown'[c] = {}
                         /\ NoAckAfterShutdown[c] \subseteq duplicates'
  BY <1>1, <1>2, ZenonT(60)
<1>4. Free = MsgChannel \cup PerTopicBatcher
  BY <1>2 DEF Free, Left
<1>5. MsgChannel' \cup PerTopicBatcher' = Free \ MsgChannel /\ MsgChannel \subseteq Free
  BY <1>4 DEF MsgInv, MsgsApart
<1>6. rpc \notin {"init", "restart"} \/ \A c \in Brokers : Working(c) = {}
  BY DEF MsgInv, QueuesOwned
<1>7. \A c \in Brokers : Left(c) \subseteq MsgChannel
  BY <1>2 DEF Left
<1>8. RouterMoves(NoMsgs, MsgChannel)
  BY <1>1, <1>3, <1>5, <1>6, <1>7, DiscardMoves
<1> QED
  BY <1>8

(* Init of the router thread is such a step.                               *)
LEMMA StartUpMoves ==
  ASSUME TypeOK, MsgInv, StartUp
  PROVE  \E In, D : RouterMoves(In, D)
<1>1. CASE /\ \E n \in 0 .. MaxBrokers : StartDispatcher(n, NoMsgs)
           /\ rpc' = "poll" /\ UNCHANGED <<MsgChannel, msgVars>>
  <2>1. PICK n \in 0 .. MaxBrokers : StartDispatcher(n, NoMsgs)
    BY <1>1
  <2>2. \A c \in Brokers :
         /\ InputQueue'[c] = InputQueue[c] \cup NoMsgs[c]
         /\ RequestFactory'[c] = RequestFactory[c] /\ CurrentRequest'[c] = CurrentRequest[c]
         /\ GotAckAfterPause'[c] = GotAckAfterPause[c]
         /\ NoAckAfterPause'[c] = NoAckAfterPause[c]
         /\ Flatten(AckWaitQueue[c])' = Flatten(AckWaitQueue[c]) /\ Apart(AckWaitQueue[c])'
         /\ SendWaitAfterShutdown'[c] = {} /\ NoAckAfterShutdown'[c] = {}
         /\ Working(c) = {}
    BY <2>1, StartMoves DEF StartUp
  <2>3. \A c \in Brokers : SendWaitAfterShutdown[c] = {} /\ NoAckAfterShutdown[c] = {}
    BY LeftOnlyAtJoin DEF MsgInv, StartUp
  <2>4. Free = MsgChannel \cup PerTopicBatcher
    BY <2>3 DEF Free, Left
  <2>5. UNCHANGED <<MsgChannel, PerTopicBatcher, msgState, delivered, discarded, destroyed,
                    unacked, duplicates>>
    BY <1>1 DEF StartUp, msgVars
  <2>6. \A c \in Brokers : NoMsgs[c] = {}
    BY DEF NoMsgs
  <2>7. UNION {NoMsgs[c] : c \in Brokers} = {}
    BY <2>6
  <2>8. MsgChannel \cap PerTopicBatcher = {}
    BY DEF MsgInv, MsgsApart
  <2>9. StateMoves({})
    BY <2>3, <2>5 DEF StateMoves, Left
  <2> HIDE DEF NoMsgs
  <2>10. RouterMoves(NoMsgs, {})!1
    BY <2>2, <2>3, <2>6
  <2>11. RouterMoves(NoMsgs, {})
    BY <1>1, <2>4, <2>5, <2>6, <2>7, <2>8, <2>9, <2>10, ZenonT(60) DEF RouterMoves
  <2> QED
    BY <2>11
<1>2. CASE /\ rpc' = "end" /\ discarded' = discarded \cup MsgChannel
           /\ msgState' = Enter(MsgChannel, "Processed") /\ MsgChannel' = {}
           /\ UNCHANGED <<sharedVars, controlVars, queueVars, fateVars, duplicates>>
  <2>1. rpc = "init" /\ UNCHANGED PerTopicBatcher
    BY DEF StartUp
  <2> QED
    BY <1>2, <2>1, ChannelDiscardMoves
<1> QED
  BY <1>1, <1>2, ZenonT(60) DEF StartUp

(* So is the join of the router by the main thread.                        *)
LEMMA JoinRouterMoves ==
  ASSUME TypeOK, MsgInv, JoinRouter
  PROVE  \E In, D : RouterMoves(In, D)
<1>1. UNCHANGED <<sharedVars, queueVars, fateVars, duplicates, PerTopicBatcher>>
  BY DEF JoinRouter, fateVars
<1>2. /\ rpc = "end" /\ rpc' = "joined" /\ MsgChannel' = {}
      /\ discarded' = discarded \cup MsgChannel
      /\ msgState' = Enter(MsgChannel, "Processed")
  BY DEF JoinRouter
<1> QED
  BY <1>1, <1>2, ChannelDiscardMoves

(* So is the handling of batches and of new messages.                      *)
LEMMA HandleMessagesMoves ==
  ASSUME TypeOK, MsgInv, HandleMessages
  PROVE  \E In, D : RouterMoves(In, D)
<1>1. PICK complete \in SUBSET PerTopicBatcher, batched \in SUBSET NewMsgs :
        \E routeBatch \in [complete -> Connectors], route \in [NewMsgs -> Choices] :
          RouteNewMsgs(complete, routeBatch, batched, route)
  BY DEF HandleMessages
<1>2. PICK routeBatch \in [complete -> Connectors], route \in [NewMsgs -> Choices] :
        RouteNewMsgs(complete, routeBatch, batched, route)
  BY <1>1
<1> DEFINE In == [c \in Brokers |-> Routed(routeBatch)[c] \cup Routed(route)[c]]
           D == Invalid(route)
           held == {m \in NewMsgs : route[m] = Held}
<1>3. /\ InputQueue' = [c \in Brokers |-> InputQueue[c] \cup Routed(routeBatch)[c]
                                            \cup Routed(route)[c]]
      /\ PerTopicBatcher' = (PerTopicBatcher \ complete) \cup held
      /\ MsgChannel' = MsgChannel \ NewMsgs
      /\ discarded' = discarded \cup D
      /\ msgState' = [m \in Msgs |-> IF m \in batched THEN "Batching"
                                 ELSE RouteNow(complete \cup NewMsgs, D)[m]]
  BY <1>2 DEF RouteNewMsgs
<1>4. /\ NewMsgs \subseteq MsgChannel /\ complete \subseteq PerTopicBatcher
      /\ MsgChannel \cap PerTopicBatcher = {} /\ batched \subseteq NewMsgs
  BY DEF NewMsgs, MsgInv, MsgsApart
<1>5. /\ Connectors \subseteq Brokers /\ 0 \notin Brokers /\ Held \notin Brokers /\ Held # 0
      /\ Choices \subseteq Connectors \cup {0, Held}
  <2>1. Connectors \subseteq Brokers
    BY ConnectorsAreBrokers DEF TypeOK
  <2>2. 0 \notin Brokers /\ Held \notin Brokers /\ Held # 0
    BY BoundsAssumption DEF Brokers, Held
  <2> QED
    BY <2>1, <2>2 DEF Choices
<1>6. /\ \A c \in Brokers : SendWaitAfterShutdown[c] = {} /\ NoAckAfterShutdown[c] = {}
      /\ Free = MsgChannel \cup PerTopicBatcher
  <2>1. \A c \in Brokers : SendWaitAfterShutdown[c] = {} /\ NoAckAfterShutdown[c] = {}
    BY LeftOnlyAtJoin DEF MsgInv, HandleMessages
  <2> QED
    BY <2>1 DEF Free, Left
<1>7. /\ \A m \in complete : routeBatch[m] \in Connectors
      /\ \A m \in NewMsgs : route[m] \in Connectors \cup {0, Held}
  BY <1>5
<1>8. \A c \in Brokers :
        In[c] = {m \in complete : routeBatch[m] = c} \cup {m \in NewMsgs : route[m] = c}
  <2>1. DOMAIN routeBatch = complete /\ DOMAIN route = NewMsgs
    OBVIOUS
  <2> QED
    BY <2>1 DEF Routed
<1>9. D = {m \in NewMsgs : route[m] = 0}
  BY DEF Invalid
<1>10. \A c \in Brokers : InputQueue'[c] = InputQueue[c] \cup In[c]
  BY <1>3
<1> HIDE DEF In, D, held
<1>11. \A c \in Brokers : /\ In[c] \subseteq Free /\ In[c] \cap D = {}
                          /\ In[c] # {} => c \in Connectors
  <2>1. ASSUME NEW c \in Brokers
        PROVE  In[c] \subseteq Free /\ In[c] \cap D = {} /\ (In[c] # {} => c \in Connectors)
    BY <1>4, <1>5, <1>6, <1>7, <1>8, <1>9
  <2> QED
    BY <2>1
<1>12. \A c, d \in Brokers : c # d => In[c] \cap In[d] = {}
  BY <1>4, <1>8
<1>13. D \cup UNION {In[c] : c \in Brokers} = complete \cup (NewMsgs \ held)
  <2>1. \A m : m \in UNION {In[c] : c \in Brokers} <=> \E c \in Brokers : m \in In[c]
    OBVIOUS
  <2>2. ASSUME NEW m \in complete \cup (NewMsgs \ held)
        PROVE  m \in D \/ \E c \in Brokers : m \in In[c]
    BY <1>5, <1>7, <1>8, <1>9 DEF held
  <2>3. ASSUME NEW c \in Brokers, NEW m \in In[c] PROVE m \in complete \cup (NewMsgs \ held)
    BY <1>5, <1>8 DEF held
  <2>4. D \subseteq NewMsgs \ held
    BY <1>5, <1>9 DEF held
  <2> QED
    BY <2>1, <2>2, <2>3, <2>4
<1>14. /\ MsgChannel' \cap PerTopicBatcher' = {}
       /\ MsgChannel' \cup PerTopicBatcher' = Free \ (complete \cup (NewMsgs \ held))
  <2>1. held \subseteq NewMsgs
    BY DEF held
  <2> QED
    BY <1>3, <1>4, <1>6, <2>1
<1>15. StateMoves(D)
  <2>1. D \subseteq NewMsgs /\ D \cap batched = {}
    BY <1>2, <1>9 DEF RouteNewMsgs, D
  <2>2. \A c \in Brokers : Left(c) = {}
    BY <1>6 DEF Left
  <2>3. complete \cup NewMsgs \subseteq Free
    BY <1>4, <1>6
  <2> QED
    BY <1>3, <1>4, <2>1, <2>2, <2>3 DEF RouteNow, StateMoves
<1>16. /\ UNCHANGED <<RequestFactory, CurrentRequest, AckWaitQueue, GotAckAfterPause,
                      NoAckAfterPause, SendWaitAfterShutdown, NoAckAfterShutdown, Connectors,
                      delivered, destroyed, unacked, duplicates>>
       /\ rpc' = "poll"
  BY DEF HandleMessages, sharedVars, fateVars
<1>17. \A c \in Brokers : /\ Apart(AckWaitQueue[c])
                          /\ Working(c) # {} => c \in Connectors
  BY DEF MsgInv, ConnectorsApart, QueuesOwned
<1>18. D \subseteq Free
  BY <1>4, <1>6, <1>9
<1>19. discarded' = discarded \cup D
  BY <1>3
<1>20. RouterMoves(In, D)!1
  BY <1>6, <1>10, <1>11, <1>16, <1>17, ZenonT(60)
<1>21. RouterMoves(In, D)
  BY <1>12, <1>13, <1>14, <1>15, <1>16, <1>18, <1>19, <1>20, ZenonT(60) DEF RouterMoves
<1> QED
  BY <1>21

-----------------------------------------------------------------------------
(* All steps.                                                              *)

MovingStep == StartUp \/ ContinueShutdown \/ FinishPause \/ FinishRefresh \/ FinishRouter
                \/ HandleMessages \/ JoinRouter \/ (HandleMetadataUpdate /\ DiscardAndEnd)

(* They are all of the kind RouterMoves.                                   *)
LEMMA MovingSteps ==
  ASSUME TypeOK, MsgInv, MovingStep
  PROVE  \E In, D : RouterMoves(In, D)
<1>1. CASE FinishPause
  <2>1. CASE DiscardAndEnd
    BY <1>1, <2>1, DiscardAndEndMoves DEF FinishPause
  <2>2. CASE /\ Restart(ShutdownStartTime' /\ ~ShutdownStartTime)
             /\ FinishPause!2!2!3
    <3>1. rpc' \notin {"init", "join", "restart"}
      BY <2>2
    <3>2. rpc = "restart"
      BY <1>1 DEF FinishPause
    <3>3. (ShutdownStartTime' /\ ~ShutdownStartTime) \in BOOLEAN
      OBVIOUS
    <3> QED
      BY <2>2, <3>1, <3>2, <3>3, RestartMoves, ZenonT(60)
  <2> QED
    BY <1>1, <2>1, <2>2, ZenonT(60) DEF FinishPause
<1>2. CASE FinishRefresh
  <2>1. rpc = "restart" /\ (DiscardAndEnd \/ (Restart(FALSE) /\ rpc' = "events"))
    BY <1>2, ZenonT(60) DEF FinishRefresh
  <2>2. CASE DiscardAndEnd
    BY <2>1, <2>2, DiscardAndEndMoves
  <2>3. CASE Restart(FALSE) /\ rpc' = "events"
    <3>1. rpc' \notin {"init", "join", "restart"} /\ FALSE \in BOOLEAN
      BY <2>3
    <3> QED
      BY <2>1, <2>3, <3>1, RestartMoves, ZenonT(60)
  <2> QED
    BY <2>1, <2>2, <2>3, ZenonT(60)
<1>3. CASE FinishRouter
  BY <1>3, DiscardAndEndMoves DEF FinishRouter
<1>4. CASE HandleMetadataUpdate /\ DiscardAndEnd
  BY <1>4, DiscardAndEndMoves DEF HandleMetadataUpdate
<1> QED
  BY <1>1, <1>2, <1>3, <1>4, StartUpMoves, ContinueShutdownMoves, HandleMessagesMoves,
     JoinRouterMoves
  DEF MovingStep
==============================================================================
