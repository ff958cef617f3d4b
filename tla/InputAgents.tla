------------------------ MODULE InputAgents ------------------------
(***************************************************************************)
(* From a client to the router: to_dory sends messages over a socket, an   *)
(* input thread reads them (unix_dg_input_agent.cc for datagrams,          *)
(* stream_client_work_fn.cc for each connection of a stream client),       *)
(* builds messages in the pool (msg.cc) and puts them into the gate        *)
(* (thread/gate.h) from which the router takes them.                       *)
(*                                                                         *)
(* A step of an input thread ends where it takes a lock: the pool's, the   *)
(* message state tracker's or the gate's.  The pool's lock is not held     *)
(* while bytes are copied, but only the blocks of the thread's own writer  *)
(* are written then.  The tracker of anomalies is reduced to the list of   *)
(* what it was told (AnomalyTracker.tla has the rest), the worker pool to  *)
(* one thread per connection (ManagedThreadPool.tla), the router to taking *)
(* messages and destroying them.                                           *)
(***************************************************************************)
EXTENDS InputDg, CappedPool, MsgStateTracker, FiniteSets

------------------------------------------------------------------------------
(***************************************************************************)
(* The program to_dory (to_dory.cc), which sends messages to Dory: its     *)
(* arguments and the messages it makes of them.                            *)
(*                                                                         *)
(* Arguments are a record [socketPath, streamSocketPath, portSet, port,    *)
(* topic, usePartitionKey, pkey, key, value, valueSpecified, stdin, input, *)
(* count, seq, pad, bad]; the paths are there or not, and "input" is what  *)
(* can be read from standard input.                                        *)
(***************************************************************************)

Space == 32
Digit(i) == 48 + i

ParseArgsOK(a) ==
  /\ a.portSet => a.port >= 1
  /\ (IF a.portSet THEN 1 ELSE 0) + (IF a.socketPath THEN 1 ELSE 0)
       + (IF a.streamSocketPath THEN 1 ELSE 0) = 1
  /\ ~(a.stdin /\ a.valueSpecified)

CreateSender(a) ==
  IF a.socketPath THEN "dg" ELSE IF a.streamSocketPath THEN "unix" ELSE "tcp"

(* Standard input is read to its end for the first message.                *)
GetValueFromStdin(a, i) == IF i = 1 THEN a.input ELSE <<>>

(* The number of the message, padded (numbers here have one digit).        *)
SeqPrefix(a, i) ==
  IF ~a.seq THEN <<>>
  ELSE [j \in 1 .. (IF a.pad > 1 THEN a.pad - 1 ELSE 0) |-> Digit(0)] \o <<Digit(i), Space>>

MsgOf(a, i) ==
  [type |-> IF a.usePartitionKey THEN "PartitionKey" ELSE "AnyPartition",
   pkey |-> IF a.usePartitionKey THEN a.pkey ELSE 0,
   topic |-> a.topic, ts |-> i, key |-> a.key,
   value |-> SeqPrefix(a, i) \o (IF a.stdin THEN GetValueFromStdin(a, i) ELSE a.value)]

(* The i-th message: the size is asked for, a buffer of that size is       *)
(* filled, and a bad message gets another size.                            *)
CreateDg(a, i) ==
  LET m == MsgOf(a, i)
      found == IF a.usePartitionKey THEN KeyMsgSize(m) ELSE AnyMsgSize(m)
      written == IF a.usePartitionKey THEN dory_write_partition_key_msg(m, found.size)
                 ELSE dory_write_any_partition_msg(m, found.size)
  IN IF found.status # "DORY_OK" THEN NotWritten(found.status)
     ELSE IF a.bad THEN [written EXCEPT !.dg = Write(@, 0, 4, found.size - 1)]
     ELSE written


------------------------------------------------------------------------------
CONSTANTS
  Clients,              \* the processes that send
  ArgsOf(_),            \* the arguments each of them can be started with
  MaxDatagramMsgSize,   \* configuration
  MaxStreamMsgSize,     \* configuration
  ReadSize,             \* how much a worker asks read() for (64 * 1024)
  DgQueueLength,        \* what the kernel queues for a datagram socket
  ChunkSizes            \* bound: how many bytes a read may return, if not all

StreamClients == {c \in Clients : \E a \in ArgsOf(c) : CreateSender(a) # "dg"}
Agent == "agent"                          \* the UNIX datagram input agent
Threads == {Agent} \cup StreamClients     \* a worker has the name of its client

VARIABLES
  client,      \* to_dory: its arguments, and the number of the next message
  sent,        \* history: the messages each client handed to the kernel
  dgQueue,     \* the datagrams in the agent's socket
  conn,        \* the stream connections: the bytes in flight, and both ends
  thread,      \* the input threads
  mem,         \* the pool
  tracker,     \* the message state tracker
  gate,        \* MsgChannel: its list and its semaphore
  router,      \* what the router has taken
  outcome,     \* history: per client, what became of its messages, in order
  told,        \* the anomalies the tracker was told of
  stop         \* who was asked to shut down

inVars == <<client, sent, dgQueue, conn, thread, mem, tracker, gate, router, outcome,
            told, stop>>

WorkFnConf == [fieldSize |-> 4, isSigned |-> TRUE, sizeIncludesField |-> TRUE,
               fieldInMsg |-> TRUE, maxBody |-> MaxStreamMsgSize, readSize |-> ReadSize]

IdleThread == [pc |-> "idle", src |-> Agent, reader |-> NoFd, m |-> NoMsg,
               writer |-> TWriter, msg |-> [src |-> Agent]]

NoConn == [state |-> "none", bytes |-> <<>>, eof |-> FALSE, reset |-> FALSE]

InputInit ==
  /\ client \in [Clients -> {[pc |-> "start", a |-> a, i |-> 1] :
                               a \in UNION {ArgsOf(c) : c \in Clients}}]
  /\ \A c \in Clients : client[c].a \in ArgsOf(c)
  /\ sent = [c \in Clients |-> <<>>] /\ dgQueue = <<>>
  /\ conn = [c \in StreamClients |-> NoConn]
  /\ thread = [t \in Threads |-> IF t = Agent THEN [IdleThread EXCEPT !.pc = "poll"]
                                 ELSE IdleThread]
  /\ mem = TPool /\ tracker = TMsgStateTracker
  /\ gate = [list |-> <<>>, sem |-> 0]
  /\ router = [pc |-> "idle", msgs |-> <<>>, done |-> <<>>]
  /\ outcome = [c \in Clients |-> <<>>] /\ told = <<>> /\ stop = {}

-----------------------------------------------------------------------------
(* to_dory.                                                                *)
serverVars == <<thread, mem, tracker, gate, router, outcome, told, stop>>

ClientIs(c, pc) == client' = [client EXCEPT ![c].pc = pc]

ParseArgs(c) ==
  /\ client[c].pc = "start"
  /\ ClientIs(c, IF ParseArgsOK(client[c].a) THEN "prepare" ELSE "failed")
  /\ UNCHANGED <<sent, dgQueue, conn, serverVars>>

(* A datagram socket needs no server, a connection needs one that listens. *)
PrepareToSend(c) ==
  /\ client[c].pc = "prepare"
  /\ IF CreateSender(client[c].a) = "dg"
       THEN ClientIs(c, "send") /\ UNCHANGED conn
       ELSE IF "acceptor" \in stop THEN ClientIs(c, "failed") /\ UNCHANGED conn
       ELSE /\ ClientIs(c, "send")
            /\ conn' = [conn EXCEPT ![c].state = "queued"]
  /\ UNCHANGED <<sent, dgQueue, serverVars>>

SockIsGone(c) ==
  IF CreateSender(client[c].a) = "dg" THEN thread[Agent].pc = "done"
  ELSE conn[c].state = "closed" \/ conn[c].reset

(* One message.  A datagram waits for room in the agent's socket.          *)
Send(c) ==
  LET cl == client[c]
      created == CreateDg(cl.a, cl.i)
      dg == CreateSender(cl.a) = "dg"
  IN /\ cl.pc = "send" /\ cl.i <= cl.a.count
     /\ IF created.status # "DORY_OK" \/ SockIsGone(c)
          THEN ClientIs(c, "exit") /\ UNCHANGED <<sent, dgQueue, conn>>
          ELSE /\ dg => Len(dgQueue) < DgQueueLength
               /\ client' = [client EXCEPT ![c].i = @ + 1]
               /\ sent' = [sent EXCEPT ![c] = Append(@, MsgOf(cl.a, cl.i))]
               /\ IF dg THEN /\ dgQueue' = Append(dgQueue, [src |-> c, dg |-> created.dg])
                             /\ UNCHANGED conn
                        ELSE /\ conn' = [conn EXCEPT ![c].bytes = @ \o created.dg]
                             /\ UNCHANGED dgQueue
     /\ UNCHANGED serverVars

(* The program ends, and the kernel closes its socket.                     *)
Exit(c) ==
  /\ \/ client[c].pc = "send" /\ client[c].i > client[c].a.count
     \/ client[c].pc = "exit"
  /\ ClientIs(c, "done")
  /\ conn' = IF c \in StreamClients THEN [conn EXCEPT ![c].eof = TRUE] ELSE conn
  /\ UNCHANGED <<sent, dgQueue, serverVars>>

(* The program is killed in the middle of a message.                       *)
DieWhileSending(c) ==
  LET cl == client[c]
      dg == CreateDg(cl.a, cl.i).dg
  IN /\ cl.pc = "send" /\ cl.i <= cl.a.count /\ dg # <<>> /\ ~SockIsGone(c)
     /\ ClientIs(c, "done")
     /\ \E n \in {k \in ChunkSizes : 0 < k /\ k < Len(dg)} :
          conn' = [conn EXCEPT ![c].bytes = @ \o Truncated(dg, n), ![c].eof = TRUE]
     /\ sent' = [sent EXCEPT ![c] = Append(@, MsgOf(cl.a, cl.i))]
     /\ UNCHANGED <<dgQueue, serverVars>>

(* A TCP connection is reset: what is in flight is lost.                   *)
ConnReset(c) ==
  /\ CreateSender(client[c].a) = "tcp" /\ conn[c].state = "open" /\ ~conn[c].reset
  /\ conn' = [conn EXCEPT ![c].reset = TRUE, ![c].bytes = <<>>]
  /\ UNCHANGED <<client, sent, dgQueue, serverVars>>

-----------------------------------------------------------------------------
(* The input threads.                                                      *)
senderVars == <<client, sent>>

Track(t, call) == told' = Append(told, [by |-> t, call |-> call])

Settle(src, how) == outcome' = [outcome EXCEPT ![src] = Append(@, how)]

(* What a thread does after a message: the agent polls again, a worker     *)
(* consumes it from its stream reader.                                     *)
AfterMsg(t) ==
  IF t = Agent THEN [IdleThread EXCEPT !.pc = "poll"]
  ELSE [IdleThread EXCEPT !.pc = "loop", !.src = t,
                          !.reader = ConsumeReadyMsg(WorkFnConf, thread[t].reader)]

(* BuildMsgFromDg: the thread goes on to create the message, or reports    *)
(* why there is none.                                                      *)
BuildOrDiscard(t, src, dg) ==
  LET built == BuildMsgFromDg(dg)
  IN IF built.reason = "none"
     THEN /\ thread' = [thread EXCEPT ![t].pc = "key", ![t].src = src, ![t].m = built.m]
          /\ UNCHANGED <<outcome, told>>
     ELSE /\ thread' = [thread EXCEPT ![t] = AfterMsg(t)]
          /\ Track(t, built.reason) /\ Settle(src, built.reason)

(* ForwardMessages and ReadOneMsg: the buffer cuts a datagram that is too  *)
(* long.  A shutdown request is looked at first.                           *)
ReadOneMsg ==
  LET item == Head(dgQueue)
      n == IF Len(item.dg) < MaxDatagramMsgSize THEN Len(item.dg) ELSE MaxDatagramMsgSize
  IN /\ thread[Agent].pc = "poll" /\ Agent \notin stop /\ dgQueue # <<>>
     /\ dgQueue' = Tail(dgQueue)
     /\ BuildOrDiscard(Agent, item.src, Truncated(item.dg, n))
     /\ UNCHANGED <<senderVars, conn, mem, tracker, gate, router, stop>>

(* The agent closes its socket, with what is in it.                        *)
AgentStops ==
  /\ thread[Agent].pc = "poll" /\ Agent \in stop
  /\ thread' = [thread EXCEPT ![Agent].pc = "done"]
  /\ dgQueue' = <<>>
  /\ UNCHANGED <<senderVars, conn, mem, tracker, gate, router, outcome, told, stop>>

(* The acceptor hands a connection to a worker.                            *)
HandleConnection(c) ==
  /\ conn[c].state = "queued" /\ "acceptor" \notin stop
  /\ conn' = [conn EXCEPT ![c].state = "open"]
  /\ thread' = [thread EXCEPT ![c] = [IdleThread EXCEPT !.pc = "poll", !.src = c,
                                                        !.reader = Reset(EmptyBuf)]]
  /\ UNCHANGED <<senderVars, dgQueue, mem, tracker, gate, router, outcome, told, stop>>

(* The acceptor stops, and the connections it has not accepted are closed. *)
AcceptorStops ==
  /\ "acceptor" \in stop /\ \E c \in StreamClients : conn[c].state = "queued"
  /\ conn' = [c \in StreamClients |->
                IF conn[c].state = "queued" THEN [conn[c] EXCEPT !.state = "closed", !.bytes = <<>>]
                ELSE conn[c]]
  /\ UNCHANGED <<senderVars, dgQueue, serverVars>>

EndWorker(c) == thread' = [thread EXCEPT ![c] = [IdleThread EXCEPT !.pc = "done"]]
CloseConn(c) == conn' = [conn EXCEPT ![c].state = "closed", ![c].bytes = <<>>]

WorkerPolls(c) == c \in StreamClients /\ thread[c].pc = "poll"

WorkerStops(c) ==
  /\ WorkerPolls(c) /\ "pool" \in stop
  /\ EndWorker(c) /\ CloseConn(c)
  /\ UNCHANGED <<senderVars, dgQueue, mem, tracker, gate, router, outcome, told, stop>>

(* Read() of some of the bytes that are there, or of the end of the stream.*)
ReadStream(c) ==
  LET inflight == Len(conn[c].bytes)
      here == IF inflight < WorkFnConf.readSize THEN inflight ELSE WorkFnConf.readSize
  IN /\ WorkerPolls(c) /\ "pool" \notin stop /\ ~conn[c].reset
     /\ here > 0 \/ conn[c].eof
     /\ \E n \in {here} \cup {k \in ChunkSizes : 0 < k /\ k < here} :
          /\ conn' = [conn EXCEPT ![c].bytes = SubSeq(@, n + 1, inflight)]
          /\ thread' = [thread EXCEPT
               ![c].pc = "loop",
               ![c].reader = ReadBytes(WorkFnConf, @, SubSeq(conn[c].bytes, 1, n))]
     /\ UNCHANGED <<senderVars, dgQueue, mem, tracker, gate, router, outcome, told, stop>>

(* A connection that was lost; any other error ends Dory.                  *)
LostTcpConnection(c) ==
  /\ WorkerPolls(c) /\ "pool" \notin stop /\ conn[c].reset
  /\ EndWorker(c) /\ CloseConn(c)
  /\ UNCHANGED <<senderVars, dgQueue, mem, tracker, gate, router, outcome, told, stop>>

(* The loop in HandleSockReadReady.                                        *)
ReadNeeded(c) ==
  /\ thread[c].reader.state = "ReadNeeded"
  /\ thread' = [thread EXCEPT ![c].pc = "poll"]
  /\ UNCHANGED <<conn, outcome, told>>

MsgReady(c) ==
  /\ thread[c].reader.state = "MsgReady"
  /\ BuildOrDiscard(c, c, GetReadyMsg(thread[c].reader))
  /\ UNCHANGED conn

HandleDataInvalid(c) ==
  /\ thread[c].reader.state = "DataInvalid"
  /\ Track(c, "Malformed") /\ Settle(c, "DataInvalid")
  /\ EndWorker(c) /\ CloseConn(c)

HandleClientClosed(c) ==
  /\ thread[c].reader.state = "AtEnd"
  /\ IF thread[c].reader.buf.items = <<>> THEN UNCHANGED told ELSE Track(c, "Unclean")
  /\ EndWorker(c) /\ CloseConn(c)
  /\ UNCHANGED outcome

HandleSockReadReady(c) ==
  /\ c \in StreamClients /\ thread[c].pc = "loop"
  /\ ReadNeeded(c) \/ MsgReady(c) \/ HandleDataInvalid(c) \/ HandleClientClosed(c)
  /\ UNCHANGED <<senderVars, dgQueue, mem, tracker, gate, router, stop>>

-----------------------------------------------------------------------------
(* Creating a message: MakeKeyAndValue writes the key and the value.       *)
WriteStep(t, bytes, next) ==
  LET w == WriteBytes(mem, thread[t].writer, bytes)
  IN /\ mem' = w.mem
     /\ thread' = [thread EXCEPT ![t].writer = w.w,
                                 ![t].pc = IF w.ok THEN next ELSE "cancel"]
     /\ UNCHANGED <<senderVars, dgQueue, conn, tracker, gate, router, outcome, told, stop>>

WriteKeyStep(t) == thread[t].pc = "key" /\ WriteStep(t, thread[t].m.key, "value")
WriteValueStep(t) == thread[t].pc = "value" /\ WriteStep(t, thread[t].m.value, "enter")

(* TMemoryCapReached: the writer's destructor gives the blocks back, and   *)
(* the discard is reported.                                                *)
DiscardMsgNoMem(t) ==
  /\ thread[t].pc = "cancel"
  /\ mem' = CancelBlob(mem, thread[t].writer)
  /\ thread' = [thread EXCEPT ![t] = AfterMsg(t)]
  /\ Track(t, "NoMem") /\ Settle(thread[t].src, "NoMem")
  /\ UNCHANGED <<senderVars, dgQueue, conn, tracker, gate, router, stop>>

(* The message has its blob; the tracker counts it.                        *)
CreateMsg(t) ==
  LET m == thread[t].m
  IN /\ thread[t].pc = "enter"
     /\ thread' = [thread EXCEPT
          ![t].pc = "put", ![t].writer = TWriter,
          ![t].msg = [src |-> thread[t].src, n |-> Len(outcome[thread[t].src]) + 1,
                      type |-> m.type, pkey |-> m.pkey, topic |-> m.topic, ts |-> m.ts,
                      keySize |-> Len(m.key), blob |-> DraftBlob(thread[t].writer)]]
     /\ tracker' = MsgEnterNew(tracker)
     /\ UNCHANGED <<senderVars, dgQueue, conn, mem, gate, router, outcome, told, stop>>


(* TGate::Put() adds to the list under the gate's lock and, after that,    *)
(* pushes the semaphore if the list was empty.                             *)
Put(t) ==
  /\ thread[t].pc = "put"
  /\ gate' = [gate EXCEPT !.list = Append(@, thread[t].msg)]
  /\ thread' = [thread EXCEPT ![t] = IF gate.list = <<>> THEN [@ EXCEPT !.pc = "push"]
                                     ELSE AfterMsg(t)]
  /\ Settle(thread[t].src, "queued")
  /\ UNCHANGED <<senderVars, dgQueue, conn, mem, tracker, router, told, stop>>

Push(t) ==
  /\ thread[t].pc = "push"
  /\ gate' = [gate EXCEPT !.sem = @ + 1]
  /\ thread' = [thread EXCEPT ![t] = AfterMsg(t)]
  /\ UNCHANGED <<senderVars, dgQueue, conn, mem, tracker, router, outcome, told, stop>>

InputThread(t) ==
  \/ WriteKeyStep(t) \/ WriteValueStep(t) \/ DiscardMsgNoMem(t)
  \/ CreateMsg(t) \/ Put(t) \/ Push(t)

-----------------------------------------------------------------------------
(* The router.  Get() pops the semaphore and takes the list.               *)
inputVars == <<senderVars, dgQueue, conn, thread, outcome, told, stop>>

GetPop ==
  /\ router.pc = "idle" /\ gate.sem > 0
  /\ gate' = [gate EXCEPT !.sem = @ - 1]
  /\ router' = [router EXCEPT !.pc = "get"]
  /\ UNCHANGED <<inputVars, mem, tracker>>

NonblockingGet ==
  /\ router.pc = "get"
  /\ router' = [router EXCEPT !.pc = "idle", !.msgs = @ \o gate.list]
  /\ gate' = [gate EXCEPT !.list = <<>>]
  /\ UNCHANGED <<inputVars, mem, tracker>>

(* A message is processed and destroyed; its blob returns its blocks.      *)
DestroyMsg ==
  /\ router.msgs # <<>>
  /\ LET msg == Head(router.msgs)
     IN /\ mem' = FreeList(mem, msg.blob.first)
        /\ tracker' = MsgEnter(tracker, msg.topic, <<"New">>, "Processed")
        /\ router' = [router EXCEPT !.msgs = Tail(@), !.done = Append(@, [src |-> msg.src, n |-> msg.n])]
  /\ UNCHANGED <<inputVars, gate>>

(* The main thread stops the acceptor, the agent and the worker pool.      *)
RequestStop ==
  /\ \E s \in {"acceptor", Agent, "pool"} \ stop :
       /\ s = Agent => "acceptor" \in stop
       /\ s = "pool" => thread[Agent].pc = "done"
       /\ stop' = stop \cup {s}
  /\ UNCHANGED <<senderVars, dgQueue, conn, thread, mem, tracker, gate, router, outcome, told>>

InputNext ==
  \/ \E c \in Clients : ParseArgs(c) \/ PrepareToSend(c) \/ Send(c) \/ Exit(c)
  \/ \E c \in StreamClients :
       \/ DieWhileSending(c) \/ ConnReset(c) \/ HandleConnection(c) \/ WorkerStops(c) \/ ReadStream(c)
       \/ LostTcpConnection(c) \/ HandleSockReadReady(c)
  \/ ReadOneMsg \/ AgentStops \/ AcceptorStops
  \/ \E t \in Threads : InputThread(t)
  \/ GetPop \/ NonblockingGet \/ DestroyMsg \/ RequestStop
==============================================================================
