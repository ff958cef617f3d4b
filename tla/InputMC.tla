-------------------------------- MODULE InputMC -------------------------------
(***************************************************************************)
(* The way of a message from its sender to the router (InputAgents), the   *)
(* sockets of the client library (DoryClient) and the life of the server   *)
(* (DoryServer), on small instances.  "focus" says which of them a         *)
(* behaviour is about; the others stay as they are.                        *)
(***************************************************************************)
EXTENDS InputAgents, DoryClient, DoryServer

VARIABLE focus
allVars == <<inVars, csVars, svVars, focus>>

(* The last digit of a name is its length.                                 *)
NameLengthMC(n) == n % 10

-----------------------------------------------------------------------------
(* Arguments of to_dory: with and without keys, read from standard input,  *)
(* numbered, messages that are bad, too large for the pool, for a datagram *)
(* or a stream message or for the format, and arguments that are wrong.    *)
Args == [socketPath |-> FALSE, streamSocketPath |-> FALSE, portSet |-> FALSE, port |-> 0,
         topic |-> 11, usePartitionKey |-> FALSE, pkey |-> 0, key |-> <<7>>,
         value |-> <<8, 9>>, valueSpecified |-> TRUE, stdin |-> FALSE, input |-> <<>>,
         count |-> 2, seq |-> FALSE, pad |-> 0, bad |-> FALSE]

Dg == [Args EXCEPT !.socketPath = TRUE]
Unix == [Args EXCEPT !.streamSocketPath = TRUE]
Tcp == [Args EXCEPT !.portSet = TRUE, !.port = 1]

(* What the datagram client d and the stream client s are started with.    *)
Scenarios ==
  {[d |-> [Dg EXCEPT !.usePartitionKey = TRUE, !.pkey = 5],
    s |-> [Unix EXCEPT !.seq = TRUE, !.pad = 2, !.value = <<3>>, !.count = 1]],
   [d |-> [Dg EXCEPT !.key = <<1, 2, 3>>, !.value = <<1, 2, 3>>, !.count = 1],
    s |-> [Tcp EXCEPT !.key = <<>>, !.usePartitionKey = TRUE, !.count = 1]],
   [d |-> [Dg EXCEPT !.bad = TRUE, !.count = 1], s |-> [Unix EXCEPT !.bad = TRUE]],
   [d |-> [Dg EXCEPT !.key = <<1, 2, 3, 4>>, !.value = <<1, 2, 3, 4>>, !.count = 1],
    s |-> [Tcp EXCEPT !.value = <<1, 2, 3, 4, 5, 6, 7, 8>>, !.count = 1]],
   [d |-> [Dg EXCEPT !.key = <<>>, !.valueSpecified = FALSE, !.stdin = TRUE,
                     !.input = <<4, 5, 6>>],
    s |-> [Tcp EXCEPT !.port = 0]],
   [d |-> [Dg EXCEPT !.topic = 25], s |-> [Tcp EXCEPT !.stdin = TRUE]],
   [d |-> [Dg EXCEPT !.value = [i \in 1 .. 12 |-> i]], s |-> [Tcp EXCEPT !.socketPath = TRUE]],
   [d |-> [Dg EXCEPT !.portSet = TRUE], s |-> [Unix EXCEPT !.seq = TRUE]]}

ArgsOfMC(c) == {sc[c] : sc \in Scenarios}

-----------------------------------------------------------------------------
InputsMC == {{"dg", "unix"}, {"tcp"}}

MCInit ==
  /\ focus \in {"input", "socket", "service"}
  /\ InputInit /\ SocketInit /\ ServerInit
  /\ \E sc \in Scenarios :
       /\ client = [c \in Clients |-> [pc |-> "start", a |-> sc[c], i |-> 1]]
       /\ focus # "input" => sc = CHOOSE x \in Scenarios : TRUE
  /\ focus # "service" => main.in = {"tcp"}

MCNext ==
  \/ focus = "input" /\ InputNext /\ UNCHANGED <<csVars, svVars, focus>>
  \/ focus = "socket" /\ SocketNext /\ UNCHANGED <<inVars, svVars, focus>>
  \/ focus = "service" /\ ServerNext /\ UNCHANGED <<inVars, csVars, focus>>

(* Somebody on the way from a client to the router has something to do.    *)
ClientCanStep(c) ==
  \/ client[c].pc \in {"start", "prepare", "exit"}
  \/ /\ client[c].pc = "send"
     /\ \/ client[c].i > client[c].a.count \/ CreateSender(client[c].a) # "dg"
        \/ Len(dgQueue) < DgQueueLength \/ SockIsGone(c)
        \/ CreateDg(client[c].a, client[c].i).status # "DORY_OK"

WorkerCanStep(c) ==
  \/ conn[c].state = "queued"
  \/ /\ thread[c].pc = "poll"
     /\ "pool" \in stop \/ conn[c].reset \/ conn[c].eof \/ conn[c].bytes # <<>>

InputCanStep ==
  \/ \E c \in Clients : ClientCanStep(c)
  \/ \E c \in StreamClients : WorkerCanStep(c)
  \/ thread[Agent].pc = "poll" /\ (Agent \in stop \/ dgQueue # <<>>)
  \/ \E t \in Threads : thread[t].pc \in {"loop", "key", "value", "cancel", "enter", "put", "push"}
  \/ router.pc = "get" \/ gate.sem > 0 \/ router.msgs # <<>>

(* The end of a behaviour.                                                 *)
Quiet ==
  /\ focus = "input" => ~InputCanStep
  /\ focus = "service" => ~Alive
  /\ UNCHANGED allVars

(* Every thread runs, and a signal is delivered to the thread that waits   *)
(* for it.  Workers and the pool end when they are told to, and so does    *)
(* the router (RouterThread: ShutdownCompletes).                         *)
ServerFairness ==
  /\ WF_svVars(focus = "service" /\ MainStep)
  /\ WF_svVars(focus = "service" /\ SignalStep)
  /\ \A a \in Agents : WF_svVars(focus = "service" /\ AgentStep(a))
  /\ WF_svVars(focus = "service" /\ pool.t.req > 0 /\ (WorkerEnds \/ PoolEnds))
  /\ WF_svVars(focus = "service" /\ routerT.req > 0 /\ RouterEnds)

(* As long as one of the processes can make a step, one does.              *)
InputFairness == []<>(focus = "input" => ~InputCanStep) \/ []<><<TRUE>>_inVars

MCSpec == MCInit /\ [][MCNext \/ Quiet]_allVars /\ ServerFairness /\ InputFairness

Live == {router.msgs[i] : i \in DOMAIN router.msgs} \cup {gate.list[i] : i \in DOMAIN gate.list}
        \cup {thread[t].msg : t \in {x \in Threads : thread[x].pc = "put"}}

-----------------------------------------------------------------------------
TakenBy(c) == SelectSeq(router.done \o [i \in DOMAIN router.msgs |->
                 [src |-> router.msgs[i].src, n |-> router.msgs[i].n]], LAMBDA e : e.src = c)

(* A message on its way to the router is what its client sent, part by     *)
(* part (topic, key, value, type, time stamp), through write, cut-up read, *)
(* BuildMsgFromDg() and the blocks of the pool; and none is made of what   *)
(* was sent with a wrong size.  The router gets the messages of a client   *)
(* in the order in which it sent them (TGate::Put appends, NonblockingGet  *)
(* takes the whole list).                                                  *)
MsgsArriveUnchanged ==
  /\ \A msg \in Live :
       LET m == sent[msg.src][msg.n]
       IN /\ ~client[msg.src].a.bad
          /\ msg.type = m.type /\ msg.pkey = m.pkey /\ msg.topic = m.topic /\ msg.ts = m.ts
          /\ KeyOf(mem, msg) = m.key /\ ValueOf(mem, msg) = m.value
  /\ \A c \in Clients : \A i, j \in DOMAIN TakenBy(c) : i < j => TakenBy(c)[i].n < TakenBy(c)[j].n

Heads ==
  {<<"free", mem.first>>} \cup {<<"msg", m.src, m.n, m.blob.first>> : m \in Live}
  \cup {<<"writer", t, thread[t].writer.first>> : t \in Threads}

(* Every block of the pool is in exactly one chain, the free list's, a     *)
(* message's or a writer's, and in it once, although threads allocate and  *)
(* run out of memory while others free (AllocList, FreeList, CancelBlob);  *)
(* and the tracker's count of new messages is the number of those that     *)
(* hold blocks or could (TMsgCreator, MsgEnterProcessed).                  *)
BlocksInOneChain ==
  LET chains == {<<h, Chain(mem, h[Len(h)])>> : h \in Heads}
  IN /\ tracker.NewCount = Cardinality(Live)
     /\ \A b \in Blocks : Cardinality({c \in chains : b \in ToSet(c[2])}) = 1
     /\ \A c \in chains : IsInjective(c[2])

Settled(c, n) ==
  \/ /\ Len(outcome[c]) >= n
     /\ outcome[c][n] = "queued" => [src |-> c, n |-> n] \in ToSet(router.done)
  \/ stop # {}
  \/ c \in StreamClients /\ (conn[c].reset \/ \E i \in DOMAIN told : told[i].by = c)


-----------------------------------------------------------------------------
(* The client library leaks nothing and takes nothing that is not its own, *)
(* although each step of dory_client_socket_bind() may fail and sockets    *)
(* are moved and swapped while they are bound.                             *)
SocketsOwnWhatExists == FdsAreOwned /\ FilesCleaned

-----------------------------------------------------------------------------
(* The exit code of the server (DoryMain) is success exactly if nothing    *)
(* has gone wrong: an agent that fails while it is being stopped counts.   *)
ExitTellsErrors ==
  main.pc = "exited" => (main.code = "success" <=> failures = {})

(* The router is asked to stop only when nobody is left who could put a    *)
(* message into its channel: no agent and no worker (Shutdown()).          *)
RouterOutlivesInput ==
  routerT.req > 0 => (\A a \in Agents : ~Joinable(agent[a].t)) /\ pool.workers = 0

(* A server that returns from DoryMain has joined every thread, has left   *)
(* no message in the channel and no socket file, whatever happened before  *)
(* (Shutdown() after a start that failed half way included): the router is *)
(* asked to stop only when no agent and no worker is left that could put a *)
(* message into its channel.  The exit code is success exactly if nothing  *)
(* has gone wrong; an agent that fails while it is being stopped counts.   *)
NothingLeftBehind ==
  /\ RouterOutlivesInput /\ ExitTellsErrors
  /\ main.pc = "exited" =>
    /\ \A a \in Agents : ~Joinable(agent[a].t)
    /\ ~Joinable(pool.t) /\ pool.workers = 0 /\ ~Joinable(routerT) /\ ~Joinable(sig.t)
    /\ queued = 0 /\ sockFile = {}

(* SIGTERM, sent at any time after the signal handler thread is started,   *)
(* ends the server: during its start, with other signals pending, or when  *)
(* an agent has failed (SyncStart, SignalCallback, RequestShutdown).  So   *)
(* does an agent or a pool that ends with an exception (HandleEvents       *)
(* watches GetShutdownWaitFd()).                                           *)
TermEndsServer ==
  /\ main.pc # "sigstop" /\ "SIGTERM" \in sig.pending \cup sig.caught ~> ~Alive
  /\ (\E a \in Agents : agent[a].t.thrown) \/ pool.t.thrown ~> ~Alive

===============================================================================
