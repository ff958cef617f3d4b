------------------------- MODULE ConnectorMsgProofs --------------------------
(***************************************************************************)
(* The invariant about where the messages of RouterThread are, and what    *)
(* the steps of a connector do to them (ConnectorMoves).  The control      *)
(* state it rests on is in RouterThreadProofs.                             *)
(***************************************************************************)
EXTENDS RouterThreadProofs

-----------------------------------------------------------------------------
(* The inductive invariant.                                                *)

(* What a connector works on, and what a joined one has left.              *)
Working(c) ==
  InputQueue[c] \cup RequestFactory[c] \cup CurrentRequest[c]
    \cup GotAckAfterPause[c] \cup NoAckAfterPause[c] \cup Flatten(AckWaitQueue[c])
Left(c) == SendWaitAfterShutdown[c] \cup NoAckAfterShutdown[c]

(* Within a connector a message is in one queue and in one request.        *)
QueuesApart(c) ==
  /\ \A m \in InputQueue[c] :
       m \notin RequestFactory[c] \cup CurrentRequest[c] \cup GotAckAfterPause[c]
                  \cup NoAckAfterPause[c] \cup Flatten(AckWaitQueue[c])
  /\ \A m \in RequestFactory[c] :
       m \notin CurrentRequest[c] \cup GotAckAfterPause[c] \cup NoAckAfterPause[c]
                  \cup Flatten(AckWaitQueue[c])
  /\ \A m \in CurrentRequest[c] :
       m \notin GotAckAfterPause[c] \cup NoAckAfterPause[c] \cup Flatten(AckWaitQueue[c])
  /\ \A m \in GotAckAfterPause[c] :
       m \notin NoAckAfterPause[c] \cup Flatten(AckWaitQueue[c])
  /\ \A m \in NoAckAfterPause[c] : m \notin Flatten(AckWaitQueue[c])
LeftApart(c) == \A m \in SendWaitAfterShutdown[c] : m \notin NoAckAfterShutdown[c]

ConnectorsApart ==
  \A c \in Brokers : QueuesApart(c) /\ LeftApart(c) /\ Apart(AckWaitQueue[c])

(* Connectors have queued messages only while they run, and lists of what  *)
(* they left only between their join and the restart.                      *)
QueuesOwned ==
  \A c \in Brokers :
    /\ Working(c) # {} =>
         /\ c \in Connectors /\ rpc \notin {"init", "restart"}
         /\ rpc = "join" => c \in todo
    /\ Left(c) # {} =>
         c \in Connectors /\ (rpc = "restart" \/ (rpc = "join" /\ c \notin todo))

InConnectors == UNION {Working(c) \cup Left(c) : c \in Brokers}

(* A message is with one connector only, or somewhere else.                *)
MsgsApart ==
  /\ \A c, d \in Brokers :
       c # d => \A m \in Working(c) \cup Left(c) : m \notin Working(d) \cup Left(d)
  /\ \A m \in InConnectors :
       m \notin MsgChannel \cup PerTopicBatcher \cup delivered \cup discarded \cup destroyed
  /\ \A m \in MsgChannel :
       m \notin PerTopicBatcher \cup delivered \cup discarded \cup destroyed
  /\ \A m \in PerTopicBatcher : m \notin delivered \cup discarded \cup destroyed
  /\ \A m \in delivered : m \notin discarded \cup destroyed
  /\ \A m \in discarded : m \notin destroyed

(* The tracker knows the messages that are somewhere.                      *)
Accounted ==
  \A m \in Msgs :
    msgState[m] # "Absent" <=>
      m \in InConnectors \cup MsgChannel \cup PerTopicBatcher
              \cup delivered \cup discarded \cup destroyed

MsgInv == ConnectorsApart /\ QueuesOwned /\ MsgsApart /\ Accounted

-----------------------------------------------------------------------------
(* Requests that wait for ACKs.                                            *)

LEMMA FlattenType ==
  ASSUME NEW s \in Seq(SUBSET Msgs)
  PROVE  Flatten(s) \subseteq Msgs
BY DEF Flatten

LEMMA ApartSets ==
  ASSUME NEW s
  PROVE  Apart(s) <=> \A x, y \in DOMAIN s : x # y => s[x] \cap s[y] = {}
BY DEF Apart

LEMMA FlattenEmpty == Flatten(<<>>) = {} /\ Apart(<<>>)
BY DEF Flatten, Apart

LEMMA FlattenAppend ==
  ASSUME NEW s \in Seq(SUBSET Msgs), NEW R \in SUBSET Msgs
  PROVE  /\ Flatten(Append(s, R)) = Flatten(s) \cup R
         /\ Apart(s) /\ R \cap Flatten(s) = {} => Apart(Append(s, R))
<1>1. /\ DOMAIN Append(s, R) = DOMAIN s \cup {Len(s) + 1}
      /\ Append(s, R)[Len(s) + 1] = R
      /\ \A i \in DOMAIN s : Append(s, R)[i] = s[i]
      /\ Len(s) + 1 \notin DOMAIN s
  OBVIOUS
<1>2. Flatten(Append(s, R)) = Flatten(s) \cup R
  BY <1>1 DEF Flatten
<1>3. ASSUME Apart(s), R \cap Flatten(s) = {} PROVE Apart(Append(s, R))
  <2>1. \A i \in DOMAIN s : s[i] \cap R = {}
    BY <1>3 DEF Flatten
  <2> QED
    BY <1>1, <1>3, <2>1, ApartSets, ZenonT(60)
<1> QED
  BY <1>2, <1>3

LEMMA FlattenTail ==
  ASSUME NEW s \in Seq(SUBSET Msgs), s # <<>>
  PROVE  /\ Flatten(s) = Head(s) \cup Flatten(Tail(s))
         /\ Apart(s) => Apart(Tail(s)) /\ Head(s) \cap Flatten(Tail(s)) = {}
<1>1. /\ Head(s) = s[1] /\ Len(s) \in Nat \ {0} /\ DOMAIN s = 1 .. Len(s)
      /\ DOMAIN Tail(s) = 1 .. Len(s) - 1
      /\ \A i \in 1 .. Len(s) - 1 : Tail(s)[i] = s[i + 1]
  OBVIOUS
<1>2. \A i \in DOMAIN s : i = 1 \/ (i - 1 \in DOMAIN Tail(s) /\ Tail(s)[i - 1] = s[i])
  BY <1>1
<1>3. \A i \in DOMAIN Tail(s) : i + 1 \in DOMAIN s /\ i + 1 # 1 /\ Tail(s)[i] = s[i + 1]
  BY <1>1
<1>4. 1 \in DOMAIN s /\ s[1] = Head(s)
  BY <1>1
<1>5. Flatten(s) = Head(s) \cup Flatten(Tail(s))
  <2>1. ASSUME NEW m \in Flatten(s) PROVE m \in Head(s) \cup Flatten(Tail(s))
    <3>1. PICK i \in DOMAIN s : m \in s[i]
      BY <2>1 DEF Flatten
    <3> QED
      BY <1>2, <1>4, <3>1, ZenonT(60) DEF Flatten
  <2>2. ASSUME NEW m \in Flatten(Tail(s)) PROVE m \in Flatten(s)
    <3>1. PICK i \in DOMAIN Tail(s) : m \in Tail(s)[i]
      BY <2>2 DEF Flatten
    <3> QED
      BY <1>3, <3>1 DEF Flatten
  <2>3. Head(s) \subseteq Flatten(s)
    BY <1>4 DEF Flatten
  <2> QED
    BY <2>1, <2>2, <2>3
<1>6. ASSUME Apart(s) PROVE Apart(Tail(s)) /\ Head(s) \cap Flatten(Tail(s)) = {}
  <2>1. \A i, j \in DOMAIN Tail(s) : i # j => i + 1 # j + 1
    BY <1>1
  <2>2. Apart(Tail(s))
    BY <1>3, <1>6, <2>1, ApartSets, ZenonT(60)
  <2>3. \A i \in DOMAIN Tail(s) : s[1] \cap Tail(s)[i] = {}
    BY <1>3, <1>4, <1>6, ApartSets
  <2> QED
    BY <1>4, <2>2, <2>3 DEF Flatten
<1> QED
  BY <1>5, <1>6

-----------------------------------------------------------------------------
(* What the property says follows from the invariant.                      *)

(* HeldBy, in terms of Working and Left.                                   *)
LEMMA HeldIsWorkingOrLeft ==
  ASSUME NEW c
  PROVE  HeldBy(c) = Working(c) \cup Left(c)
BY DEF HeldBy, Working, Left

LEMMA HeldInConnectors ==
  /\ UNION {HeldBy(c) : c \in Brokers} = InConnectors
  /\ HeldMsgs = MsgChannel \cup PerTopicBatcher \cup InConnectors
BY HeldIsWorkingOrLeft DEF InConnectors, HeldMsgs

LEMMA HeldNext == HeldMsgs' = MsgChannel' \cup PerTopicBatcher' \cup InConnectors'
<1>1. HeldMsgs = MsgChannel \cup PerTopicBatcher \cup InConnectors
  BY HeldInConnectors
<1>2. (HeldMsgs = MsgChannel \cup PerTopicBatcher \cup InConnectors)'
  BY <1>1, PTL
<1> QED
  BY <1>2

(* What connectors have are messages.                                      *)
LEMMA HeldTypes ==
  ASSUME TypeOK
  PROVE  /\ \A c \in Brokers : Working(c) \subseteq Msgs /\ Left(c) \subseteq Msgs
         /\ InConnectors \subseteq Msgs
<1>1. ASSUME NEW c \in Brokers PROVE Working(c) \subseteq Msgs /\ Left(c) \subseteq Msgs
  <2>1. Flatten(AckWaitQueue[c]) \subseteq Msgs
    BY FlattenType, ZenonT(60) DEF TypeOK, DispatcherTypeOK
  <2> QED
    BY <2>1 DEF TypeOK, DispatcherTypeOK, Working, Left
<1> QED
  BY <1>1 DEF InConnectors

(* The invariant says more than ExactlyOnePlace.                           *)
LEMMA MsgInvImplies == TypeOK /\ MsgInv => ExactlyOnePlace
<1> SUFFICES ASSUME TypeOK, MsgInv PROVE ExactlyOnePlace
  OBVIOUS
<1>1. Apart(Places)
  <2>1. DOMAIN Places = {"channel", "batcher", "connectors", "delivered", "discarded",
                         "destroyed"}
    BY DEF Places
  <2>2. /\ Places["channel"] = MsgChannel /\ Places["batcher"] = PerTopicBatcher
        /\ Places["connectors"] = InConnectors /\ Places["delivered"] = delivered
        /\ Places["discarded"] = discarded /\ Places["destroyed"] = destroyed
    BY HeldInConnectors DEF Places
  <2> HIDE DEF Places
  <2>3. ASSUME NEW p \in DOMAIN Places, NEW q \in DOMAIN Places, p # q,
               NEW m \in Places[p], m \in Places[q]
        PROVE  FALSE
    BY <2>1, <2>2, <2>3 DEF MsgInv, MsgsApart
  <2> QED
    BY <2>3 DEF Apart
<1>2. Apart([c \in Brokers |-> HeldBy(c)])
  BY HeldIsWorkingOrLeft DEF Apart, MsgInv, MsgsApart
<1>3. ASSUME NEW c \in Brokers PROVE Apart(QueuesOf(c)) /\ Apart(AckWaitQueue[c])
  <2>1. DOMAIN QueuesOf(c) = {"input", "factory", "current", "sent", "gotAck", "noAck",
                              "sendWaitAfter", "noAckAfter"}
    BY DEF QueuesOf
  <2>2. /\ QueuesOf(c)["input"] = InputQueue[c] /\ QueuesOf(c)["factory"] = RequestFactory[c]
        /\ QueuesOf(c)["current"] = CurrentRequest[c]
        /\ QueuesOf(c)["sent"] = Flatten(AckWaitQueue[c])
        /\ QueuesOf(c)["gotAck"] = GotAckAfterPause[c]
        /\ QueuesOf(c)["noAck"] = NoAckAfterPause[c]
        /\ QueuesOf(c)["sendWaitAfter"] = SendWaitAfterShutdown[c]
        /\ QueuesOf(c)["noAckAfter"] = NoAckAfterShutdown[c]
    BY DEF QueuesOf
  <2> HIDE DEF QueuesOf
  <2>3. QueuesApart(c) /\ LeftApart(c) /\ (Working(c) = {} \/ Left(c) = {})
    BY DEF MsgInv, ConnectorsApart, QueuesOwned
  <2>4. ASSUME NEW p \in DOMAIN QueuesOf(c), NEW q \in DOMAIN QueuesOf(c), p # q,
               NEW m \in QueuesOf(c)[p], m \in QueuesOf(c)[q]
        PROVE  FALSE
    BY <2>1, <2>2, <2>3, <2>4 DEF QueuesApart, LeftApart, Working, Left
  <2> QED
    BY <2>4 DEF Apart, MsgInv, ConnectorsApart
<1>4. {m \in Msgs : msgState[m] # "Absent"} = Flatten(Places)
  <2>1. Flatten(Places) =
          InConnectors \cup MsgChannel \cup PerTopicBatcher
            \cup delivered \cup discarded \cup destroyed
    BY HeldInConnectors DEF Places, Flatten
  <2>2. InConnectors \cup MsgChannel \cup PerTopicBatcher
            \cup delivered \cup discarded \cup destroyed \subseteq Msgs
    BY HeldTypes DEF TypeOK, DispatcherTypeOK, RouterTypeOK
  <2> QED
    BY <2>1, <2>2 DEF MsgInv, Accounted
<1> QED
  BY <1>1, <1>2, <1>3, <1>4 DEF ExactlyOnePlace

-----------------------------------------------------------------------------
(* The connector threads.                                                  *)

(* A step of connector c moves messages between its queues, and those of   *)
(* A, D and L to their ends.                                               *)
ConnectorMoves(c, A, D, L) ==
  /\ UNCHANGED <<SendWaitAfterShutdown, NoAckAfterShutdown>>
  /\ \A d \in Brokers \ {c} :
       /\ InputQueue'[d] = InputQueue[d] /\ RequestFactory'[d] = RequestFactory[d]
       /\ CurrentRequest'[d] = CurrentRequest[d] /\ AckWaitQueue'[d] = AckWaitQueue[d]
       /\ GotAckAfterPause'[d] = GotAckAfterPause[d]
       /\ NoAckAfterPause'[d] = NoAckAfterPause[d]
  /\ A \cup D \cup L \subseteq Working(c)
  /\ A \cap D = {} /\ (A \cup D) \cap L = {}
  /\ Working(c)' = Working(c) \ (A \cup D \cup L)
  /\ QueuesApart(c)' /\ Apart(AckWaitQueue[c])'
  /\ delivered' = delivered \cup A
  /\ discarded' = discarded \cup D
  /\ destroyed' = destroyed \cup L
  /\ \A m \in Msgs : msgState'[m] = "Absent" <=> msgState[m] = "Absent"

LEMMA NothingMoves ==
  ASSUME MsgInv, NEW c \in Brokers, UNCHANGED <<queueVars, msgVars>>
  PROVE  ConnectorMoves(c, {}, {}, {})
<1>1. /\ UNCHANGED <<InputQueue, RequestFactory, CurrentRequest, AckWaitQueue,
                     GotAckAfterPause, NoAckAfterPause, SendWaitAfterShutdown,
                     NoAckAfterShutdown>>
      /\ UNCHANGED <<msgState, delivered, discarded, destroyed>>
  BY DEF queueVars, msgVars
<1>2. Working(c)' = Working(c)
  BY <1>1 DEF Working
<1>3. QueuesApart(c)' /\ Apart(AckWaitQueue[c])'
  BY <1>1 DEF QueuesApart, Apart, MsgInv, ConnectorsApart
<1> QED
  BY <1>1, <1>2, <1>3 DEF ConnectorMoves

(* Messages a connector holds are known, and stay so in a new state.       *)
LEMMA WorkingKnown ==
  ASSUME MsgInv, TypeOK, NEW c \in Brokers
  PROVE  \A m \in Working(c) : m \in Msgs /\ msgState[m] # "Absent"
<1>1. Working(c) \subseteq InConnectors /\ Working(c) \subseteq Msgs
  BY HeldTypes DEF InConnectors
<1> QED
  BY <1>1 DEF MsgInv, Accounted

(* A state that is not Absent keeps the messages known.                    *)
LEMMA EnterKnown ==
  ASSUME MsgInv, TypeOK, NEW c \in Brokers, NEW S, S \subseteq Working(c),
         NEW s, s # "Absent", msgState' = Enter(S, s)
  PROVE  \A m \in Msgs : msgState'[m] = "Absent" <=> msgState[m] = "Absent"
BY WorkingKnown DEF Enter

(* Each step of a connector is of this kind.                               *)
LEMMA ConnectorMovesMsgs ==
  ASSUME RouterInv, MsgInv, NEW c \in Brokers, ConnectorStep(c)
  PROVE  \E A, D, L : ConnectorMoves(c, A, D, L)
<1> USE DEF RouterInv
<1>0. /\ InputQueue \in [Brokers -> SUBSET Msgs] /\ RequestFactory \in [Brokers -> SUBSET Msgs]
      /\ CurrentRequest \in [Brokers -> SUBSET Msgs]
      /\ GotAckAfterPause \in [Brokers -> SUBSET Msgs]
      /\ NoAckAfterPause \in [Brokers -> SUBSET Msgs]
      /\ AckWaitQueue \in [Brokers -> Seq(SUBSET Msgs)]
  BY DEF TypeOK, DispatcherTypeOK
<1>q. QueuesApart(c) /\ Apart(AckWaitQueue[c])
  BY DEF MsgInv, ConnectorsApart
<1>t. TypeOK
  OBVIOUS
<1>1. CASE UNCHANGED <<queueVars, msgVars>>
  BY <1>1, NothingMoves
<1>2. CASE HandleShutdownRequest(c)
  <2>1. CASE OptShutdownCmd[c].cmd = "fast"
    <3>1. UNCHANGED <<queueVars, msgVars>>
      BY <1>2, <2>1 DEF HandleShutdownRequest, queueVars, msgVars
    <3> QED
      BY <3>1, <1>1
  <2>2. CASE OptShutdownCmd[c].cmd # "fast"
    <3>1. /\ RequestFactory' = [RequestFactory EXCEPT ![c] = @ \cup InputQueue[c]]
          /\ InputQueue' = [InputQueue EXCEPT ![c] = {}]
          /\ msgState' = Enter(InputQueue[c], "SendWait")
          /\ UNCHANGED <<CurrentRequest, AckWaitQueue, GotAckAfterPause, NoAckAfterPause,
                         SendWaitAfterShutdown, NoAckAfterShutdown, delivered, discarded,
                         destroyed>>
      BY <1>2, <2>2, ZenonT(60) DEF HandleShutdownRequest
    <3>2. /\ RequestFactory'[c] = RequestFactory[c] \cup InputQueue[c] /\ InputQueue'[c] = {}
          /\ \A d \in Brokers \ {c} : /\ RequestFactory'[d] = RequestFactory[d]
                                       /\ InputQueue'[d] = InputQueue[d]
      BY <1>0, <3>1
    <3>3. Working(c)' = Working(c)
      BY <3>1, <3>2 DEF Working
    <3>4. QueuesApart(c)' /\ Apart(AckWaitQueue[c])'
      BY <1>q, <3>1, <3>2 DEF QueuesApart
    <3>5. \A m \in Msgs : msgState'[m] = "Absent" <=> msgState[m] = "Absent"
      <4>1. InputQueue[c] \subseteq Working(c) /\ "SendWait" # "Absent"
        BY DEF Working
      <4> QED
        BY <1>t, <3>1, <4>1, EnterKnown
    <3>6. ConnectorMoves(c, {}, {}, {})
      BY <3>1, <3>2, <3>3, <3>4, <3>5 DEF ConnectorMoves
    <3> QED
      BY <3>6
  <2> QED
    BY <2>1, <2>2
<1>3. CASE CheckInputQueue(c)
  <2>1. PICK S \in SUBSET InputQueue[c] :
          /\ InputQueue' = [InputQueue EXCEPT ![c] = @ \ S]
          /\ RequestFactory' = [RequestFactory EXCEPT ![c] = @ \cup S]
          /\ msgState' = Enter(S, "SendWait")
    BY <1>3, ZenonT(60) DEF CheckInputQueue
  <2>2. UNCHANGED <<CurrentRequest, AckWaitQueue, GotAckAfterPause, NoAckAfterPause,
                    SendWaitAfterShutdown, NoAckAfterShutdown, delivered, discarded, destroyed>>
    BY <1>3 DEF CheckInputQueue
  <2>3. /\ RequestFactory'[c] = RequestFactory[c] \cup S /\ InputQueue'[c] = InputQueue[c] \ S
        /\ \A d \in Brokers \ {c} : /\ RequestFactory'[d] = RequestFactory[d]
                                     /\ InputQueue'[d] = InputQueue[d]
    BY <1>0, <2>1
  <2>4. Working(c)' = Working(c)
    BY <2>2, <2>3 DEF Working
  <2>5. QueuesApart(c)' /\ Apart(AckWaitQueue[c])'
    BY <1>q, <2>2, <2>3 DEF QueuesApart
  <2>6. \A m \in Msgs : msgState'[m] = "Absent" <=> msgState[m] = "Absent"
    <3>1. S \subseteq Working(c) /\ "SendWait" # "Absent"
      BY DEF Working
    <3> QED
      BY <1>t, <2>1, <3>1, EnterKnown
  <2>7. ConnectorMoves(c, {}, {}, {})
    BY <2>2, <2>3, <2>4, <2>5, <2>6 DEF ConnectorMoves
  <2> QED
    BY <2>7
<1>4. CASE HandleSockWriteReady(c)
  <2>1. PICK R \in IF SendInProgress(c) THEN {CurrentRequest[c]}
                   ELSE SUBSET RequestFactory[c] \ {{}} :
               HandleSockWriteReady(c)!3!(R)
    BY <1>4, ZenonT(60) DEF HandleSockWriteReady
  <2>2. UNCHANGED <<InputQueue, GotAckAfterPause, NoAckAfterPause,
                    SendWaitAfterShutdown, NoAckAfterShutdown, delivered, discarded, destroyed>>
    BY <1>4 DEF HandleSockWriteReady
  <2>3. /\ RequestFactory' = [RequestFactory EXCEPT ![c] = @ \ R]
        /\ \/ /\ CurrentRequest' = [CurrentRequest EXCEPT ![c] = R]
              /\ UNCHANGED <<AckWaitQueue, msgState>>
           \/ /\ CurrentRequest' = [CurrentRequest EXCEPT ![c] = {}]
              /\ AckWaitQueue' = [AckWaitQueue EXCEPT ![c] = Append(@, R)]
              /\ msgState' = Enter(R, "AckWait")
    BY <2>1, ZenonT(60)
  <2>4. /\ R \in SUBSET Msgs /\ R \subseteq RequestFactory[c] \cup CurrentRequest[c]
        /\ CurrentRequest[c] = {} \/ CurrentRequest[c] = R
    BY <1>0, <2>1 DEF SendInProgress
  <2>5. /\ R \cap Flatten(AckWaitQueue[c]) = {}
        /\ R \cap (InputQueue[c] \cup GotAckAfterPause[c] \cup NoAckAfterPause[c]) = {}
    BY <1>q, <2>4 DEF QueuesApart
  <2>6. /\ RequestFactory'[c] = RequestFactory[c] \ R
        /\ \A d \in Brokers \ {c} : /\ RequestFactory'[d] = RequestFactory[d]
                                     /\ CurrentRequest'[d] = CurrentRequest[d]
                                     /\ AckWaitQueue'[d] = AckWaitQueue[d]
        /\ \/ CurrentRequest'[c] = R /\ AckWaitQueue'[c] = AckWaitQueue[c]
           \/ CurrentRequest'[c] = {} /\ AckWaitQueue'[c] = Append(AckWaitQueue[c], R)
    BY <1>0, <2>3
  <2>7. /\ \/ /\ CurrentRequest'[c] = R
              /\ Flatten(AckWaitQueue[c])' = Flatten(AckWaitQueue[c])
           \/ /\ CurrentRequest'[c] = {}
              /\ Flatten(AckWaitQueue[c])' = Flatten(AckWaitQueue[c]) \cup R
        /\ Apart(AckWaitQueue[c])'
    <3>1. CASE CurrentRequest'[c] = R /\ AckWaitQueue'[c] = AckWaitQueue[c]
      BY <1>q, <3>1
    <3>2. CASE CurrentRequest'[c] = {} /\ AckWaitQueue'[c] = Append(AckWaitQueue[c], R)
      <4>1. AckWaitQueue[c] \in Seq(SUBSET Msgs)
        BY <1>0
      <4> QED
        BY <1>q, <2>4, <2>5, <3>2, <4>1, FlattenAppend
    <3> QED
      BY <2>6, <3>1, <3>2
  <2>8. Working(c)' = Working(c)
    BY <2>2, <2>4, <2>6, <2>7, ZenonT(60) DEF Working
  <2>9. QueuesApart(c)'
    BY <1>q, <2>2, <2>4, <2>5, <2>6, <2>7, ZenonT(60) DEF QueuesApart
  <2>10. \A m \in Msgs : msgState'[m] = "Absent" <=> msgState[m] = "Absent"
    <3>1. R \subseteq Working(c) /\ "AckWait" # "Absent"
      BY <2>4 DEF Working
    <3>2. CASE msgState' = msgState
      BY <3>2
    <3>3. CASE msgState' = Enter(R, "AckWait")
      BY <1>t, <3>1, <3>3, EnterKnown
    <3> QED
      BY <2>3, <3>2, <3>3
  <2>11. ConnectorMoves(c, {}, {}, {})
    BY <2>2, <2>6, <2>7, <2>8, <2>9, <2>10 DEF ConnectorMoves
  <2> QED
    BY <2>11
<1>5. CASE ProcessSingleProduceResponse(c)
  <2>1. PICK A \in SUBSET Head(AckWaitQueue[c]), kind \in {"complete", "mismatch", "bad"} :
        \E ack \in [A -> AckActions] : ProcessSingleProduceResponse(c)!2!(A, kind)!(ack)
    BY <1>5, ZenonT(60) DEF ProcessSingleProduceResponse
  <2>2. PICK ack \in [A -> AckActions] : ProcessSingleProduceResponse(c)!2!(A, kind)!(ack)
    BY <2>1
  <2>3. ProcessResponse(c, A, ack, kind)
    BY <2>2
  <2>4. UNCHANGED <<InputQueue, CurrentRequest, SendWaitAfterShutdown, NoAckAfterShutdown>>
    BY <1>5 DEF ProcessSingleProduceResponse
  <2> DEFINE s == AckWaitQueue[c]
             rest == Head(s) \ A
             Ok == Acked(A, ack, "Ok")
             Dis == DiscardedByAck(A, ack)
             Lost == DestroyedMsgs(rest, kind)
             Again == Resendable(A, ack)
             Paused == PauseResendable(A, ack)
             Unacked == NoAckMsgs(rest, kind)
  <2>5. s \in Seq(SUBSET Msgs) /\ s # <<>> /\ Head(s) \in SUBSET Msgs
    BY <1>0, <1>5 DEF ReadHasRequest, ProcessSingleProduceResponse
  <2>6. /\ Flatten(s) = Head(s) \cup Flatten(Tail(s))
        /\ Apart(Tail(s)) /\ Head(s) \cap Flatten(Tail(s)) = {}
    BY <1>q, <2>5, FlattenTail
  <2>7. /\ kind = "complete" => rest = {}
        /\ Unacked \cup Lost = rest /\ Unacked \cap Lost = {}
    <3>1. kind = "complete" => rest = {}
      BY <2>2, ZenonT(60)
    <3> QED
      BY <3>1 DEF NoAckMsgs, DestroyedMsgs
  <2>8. /\ Ok \cup Dis \cup Again \cup Paused = A
        /\ Ok \cap Dis = {} /\ Ok \cap Again = {} /\ Ok \cap Paused = {}
        /\ Dis \cap Again = {} /\ Dis \cap Paused = {} /\ Again \cap Paused = {}
    BY DEF Acked, DiscardedByAck, Resendable, PauseResendable, BelowAttemptLimit, AckActions
  <2> HIDE DEF s, rest, Ok, Dis, Lost, Again, Paused, Unacked
  <2>9. /\ AckWaitQueue' = [AckWaitQueue EXCEPT ![c] = Tail(@)]
        /\ RequestFactory' = [RequestFactory EXCEPT ![c] = @ \cup Again]
        /\ GotAckAfterPause' = [GotAckAfterPause EXCEPT ![c] = @ \cup Paused]
        /\ NoAckAfterPause' = [NoAckAfterPause EXCEPT ![c] = @ \cup Unacked]
        /\ delivered' = delivered \cup Ok /\ discarded' = discarded \cup Dis
        /\ destroyed' = destroyed \cup Lost
    BY <2>3 DEF ProcessResponse, s, rest, Ok, Dis, Lost, Again, Paused, Unacked
  <2>10. /\ AckWaitQueue'[c] = Tail(s) /\ RequestFactory'[c] = RequestFactory[c] \cup Again
         /\ GotAckAfterPause'[c] = GotAckAfterPause[c] \cup Paused
         /\ NoAckAfterPause'[c] = NoAckAfterPause[c] \cup Unacked
         /\ \A d \in Brokers \ {c} : /\ AckWaitQueue'[d] = AckWaitQueue[d]
                                      /\ RequestFactory'[d] = RequestFactory[d]
                                      /\ GotAckAfterPause'[d] = GotAckAfterPause[d]
                                      /\ NoAckAfterPause'[d] = NoAckAfterPause[d]
    BY <1>0, <2>9 DEF s
  <2>11. /\ Head(s) = Ok \cup Dis \cup Again \cup Paused \cup Unacked \cup Lost
         /\ Unacked \cap A = {} /\ Lost \cap A = {} /\ A \subseteq Head(s)
    BY <2>1, <2>7, <2>8 DEF rest, s
  <2>12. Head(s) \cap (InputQueue[c] \cup RequestFactory[c] \cup CurrentRequest[c]
                         \cup GotAckAfterPause[c] \cup NoAckAfterPause[c]) = {}
    BY <1>q, <2>6, ZenonT(60) DEF QueuesApart, s
  <2>13. Flatten(AckWaitQueue[c])' = Flatten(Tail(s)) /\ Apart(AckWaitQueue[c])'
    BY <2>6, <2>10
  <2>14. Ok \cup Dis \cup Lost \subseteq Working(c)
    BY <2>6, <2>11 DEF Working, s
  <2>15. Working(c)' = Working(c) \ (Ok \cup Dis \cup Lost)
    <3>1. Working(c) = InputQueue[c] \cup RequestFactory[c] \cup CurrentRequest[c]
             \cup GotAckAfterPause[c] \cup NoAckAfterPause[c] \cup Head(s) \cup Flatten(Tail(s))
      BY <2>6 DEF Working, s
    <3>2. Working(c)' = InputQueue[c] \cup (RequestFactory[c] \cup Again) \cup CurrentRequest[c]
             \cup (GotAckAfterPause[c] \cup Paused) \cup (NoAckAfterPause[c] \cup Unacked)
             \cup Flatten(Tail(s))
      BY <2>4, <2>10, <2>13 DEF Working
    <3> QED
      BY <2>6, <2>7, <2>8, <2>11, <2>12, <3>1, <3>2
  <2>16. QueuesApart(c)'
    <3>1. /\ Again \subseteq Head(s) /\ Paused \subseteq Head(s) /\ Unacked \subseteq Head(s)
          /\ Again \cap Paused = {} /\ Again \cap Unacked = {} /\ Paused \cap Unacked = {}
      BY <2>8, <2>11
    <3> QED
      BY <1>q, <2>4, <2>6, <2>10, <2>12, <2>13, <3>1, ZenonT(60) DEF QueuesApart, s
  <2>17. \A m \in Msgs : msgState'[m] = "Absent" <=> msgState[m] = "Absent"
    <3>1. \A m \in Head(s) : m \in Msgs /\ msgState[m] # "Absent"
      <4>1. Head(s) \subseteq Working(c)
        BY <2>6 DEF Working, s
      <4> QED
        BY <1>t, <4>1, WorkingKnown
    <3>2. \A m \in Msgs : \/ msgState'[m] \in {"Processed", "SendWait"} /\ m \in Head(s)
                          \/ msgState'[m] = msgState[m]
      <4>1. msgState' = [m \in Msgs |-> CASE m \in Ok \cup Dis -> "Processed"
                             [] m \in Requeued(A, ack, rest, kind) -> "SendWait"
                             [] OTHER -> msgState[m]]
        BY <2>3 DEF ProcessResponse, s, rest, Ok, Dis
      <4>2. Requeued(A, ack, rest, kind) = Again \cup Paused \cup Unacked
        BY DEF Requeued, Again, Paused, Unacked
      <4> QED
        BY <2>11, <4>1, <4>2
    <3> QED
      BY <3>1, <3>2
  <2>18. ConnectorMoves(c, Ok, Dis, Lost)
    BY <2>4, <2>8, <2>9, <2>10, <2>11, <2>13, <2>14, <2>15, <2>16, <2>17, ZenonT(60) DEF ConnectorMoves
  <2> QED
    BY <2>18
<1> QED
  BY <1>1, <1>2, <1>3, <1>4, <1>5, ZenonT(60)
  DEF ConnectorStep, ConnectToBroker, FinishShutdown, SocketTimeout, HandlePauseDetected,
      HandleSockReadReady, MarkThreadFinished, Terminate
==============================================================================
