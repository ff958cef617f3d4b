------------------------------ MODULE DoryServer ------------------------------
(***************************************************************************)
(* The life of the server process: DoryMain (dory.cc), the main thread of  *)
(* TDoryServer (dory_server.cc), the input agents it starts and stops as   *)
(* TFdManagedThreads (fd_managed_thread.cc, stream_server_base.cc,         *)
(* unix_dg_input_agent.cc) and the thread that handles signals             *)
(* (signal_handler_thread.cc, misc_util.cc).                               *)
(*                                                                         *)
(* Messages are counted only.  The worker pool and the router are reduced  *)
(* to what the main thread sees of them (ManagedThreadPool.tla,            *)
(* RouterThread.tla).  Die() ends the process at once, wherever it is      *)
(* called.                                                                 *)
(***************************************************************************)
EXTENDS Integers, Sequences, FiniteSets, SequencesExt

CONSTANTS
  Inputs,          \* the sets of inputs a configuration can enable
  MaxQueued,       \* bound: messages in the channel
  MaxSignals       \* bound: signals that are sent

StartOrder == <<"dg", "unix", "tcp">>
StopOrder == <<"tcp", "unix", "dg">>
Agents == ToSet(StartOrder)
HasFile == {"dg", "unix"}
Handled == {"SIGTERM", "SIGUSR1"}          \* SIGINT is handled as SIGTERM is

VARIABLES
  main,        \* the main thread: pc, position in the order, its results
  agent,       \* the input agents
  pool,        \* the stream client worker pool
  routerT,     \* the router thread
  sig,         \* the signal handler thread
  shutdownSem, \* ShutdownRequested, and the flag that makes it pushed once
  queued,      \* MsgChannel
  sockFile,    \* the socket files there are
  failures     \* history: what has gone wrong

svVars == <<main, agent, pool, routerT, sig, shutdownSem, queued, sockFile, failures>>

(* A TFdManagedThread that was not started.                                *)
NoThread == [pc |-> "none", req |-> 0, fin |-> 0, thrown |-> FALSE]

ServerInit ==
  /\ main \in {[pc |-> "args", i |-> 1, in |-> inputs, noError |-> TRUE, ok |-> TRUE,
                code |-> "none", notified |-> 0] : inputs \in Inputs}
  /\ agent = [a \in Agents |-> [t |-> NoThread, notify |-> 0, success |-> FALSE]]
  /\ pool = [t |-> NoThread, workers |-> 0, errors |-> 0]
  /\ routerT = NoThread
  /\ sig = [t |-> NoThread, pending |-> {}, caught |-> {}, sent |-> 0, reopened |-> 0]
  /\ shutdownSem = [sem |-> 0, flag |-> FALSE]
  /\ queued = 0 /\ sockFile = {} /\ failures = {}

Alive == main.pc # "died" /\ main.pc # "exited"

-----------------------------------------------------------------------------
(* TFdManagedThread.                                                       *)
Joinable(t) == t.pc # "none"
StartThread(t) == [t EXCEPT !.pc = "init"]
Requested(t) == [t EXCEPT !.req = @ + 1]
Joined(t) == NoThread
Ended(t, thrown) == [t EXCEPT !.pc = "ending", !.thrown = thrown]

(* The end of RunAndTerminate().                                           *)
Terminated(t) == [t EXCEPT !.pc = "dead", !.fin = 1]

-----------------------------------------------------------------------------
(* The main thread up to Run().                                            *)
childVars == <<agent, pool, routerT, sig, shutdownSem, queued, sockFile>>

Goto(pc) == main' = [main EXCEPT !.pc = pc]
Die == Goto("died")
ExitWith(pc, code) == main' = [main EXCEPT !.pc = pc, !.code = code]

(* Arguments, configuration and CheckUnixDgSize(): before there is any     *)
(* other thread.                                                           *)
ReadConf ==
  /\ main.pc = "args"
  /\ \/ Goto("sigstart") /\ UNCHANGED failures
     \/ ExitWith("exited", "failure") /\ failures' = failures \cup {"conf"}
  /\ UNCHANGED childVars

TSignalHandlerThreadStarter ==
  /\ main.pc = "sigstart"
  /\ sig' = [sig EXCEPT !.t = StartThread(@)]
  /\ Goto("construct")
  /\ UNCHANGED <<agent, pool, routerT, shutdownSem, queued, sockFile, failures>>

(* PrepareForInit(), the server's constructor and BindStatusSocket().  Too *)
(* little memory is a failure that is reported, any other exception ends   *)
(* in Die() after the signal handler thread has been stopped.              *)
Construct ==
  /\ main.pc = "construct"
  /\ \/ /\ main' = [main EXCEPT !.pc = "start", !.i = 1] /\ UNCHANGED failures
     \/ /\ \E code \in {"failure", "die"} : ExitWith("sigstop", code)
        /\ failures' = failures \cup {"init"}
  /\ UNCHANGED childVars

-----------------------------------------------------------------------------
(* StartMsgHandlingThreads(): the pool, then one agent after the other.    *)
Enabled(a) == a \in main.in
UsesPool == main.in \cap {"unix", "tcp"} # {}

StartPool ==
  /\ main.pc = "start" /\ main.i = 1 /\ UsesPool /\ ~Joinable(pool.t)
  /\ pool' = [pool EXCEPT !.t = [StartThread(@) EXCEPT !.pc = "run"]]
  /\ UNCHANGED <<main, agent, routerT, sig, shutdownSem, queued, sockFile, failures>>

(* SyncStart() starts the thread, and waits for what it tells.             *)
SyncStart ==
  LET a == StartOrder[main.i]
  IN /\ main.pc = "start" /\ main.i <= Len(StartOrder)
     /\ UsesPool => Joinable(pool.t)
     /\ IF Enabled(a)
          THEN /\ agent' = [agent EXCEPT ![a].t = StartThread(@), ![a].success = FALSE,
                                         ![a].notify = 0]
               /\ Goto("sync")
          ELSE main' = [main EXCEPT !.i = @ + 1] /\ UNCHANGED agent
     /\ UNCHANGED <<pool, routerT, sig, shutdownSem, queued, sockFile, failures>>

SyncStarted ==
  LET a == StartOrder[main.i]
  IN /\ main.pc = "sync" /\ agent[a].notify > 0
     /\ agent' = [agent EXCEPT ![a].notify = @ - 1]
     /\ main' = IF agent[a].success THEN [main EXCEPT !.pc = "start", !.i = @ + 1]
                ELSE [main EXCEPT !.pc = "stop", !.i = 1, !.noError = FALSE]
     /\ UNCHANGED <<pool, routerT, sig, shutdownSem, queued, sockFile, failures>>

StartRouter ==
  /\ main.pc = "start" /\ main.i > Len(StartOrder)
  /\ routerT' = [StartThread(routerT) EXCEPT !.pc = "run"]
  /\ Goto("http")
  /\ UNCHANGED <<agent, pool, sig, shutdownSem, queued, sockFile, failures>>

(* The web interface; TInitNotifier tells that Dory is running.            *)
StartHttpServer ==
  /\ main.pc = "http"
  /\ \/ main' = [main EXCEPT !.pc = "events", !.notified = 1] /\ UNCHANGED failures
     \/ Die /\ failures' = failures \cup {"http"}
  /\ UNCHANGED childVars

-----------------------------------------------------------------------------
(* HandleEvents().                                                         *)
FatalError ==
  \/ \E a \in main.in : agent[a].t.fin > 0
  \/ routerT.fin > 0 \/ pool.t.fin > 0

(* Something is there to read.  Worker errors are reported; the timer for  *)
(* CheckGetInfoRate() changes nothing here.                                *)
HandleEvents ==
  /\ main.pc = "events"
  /\ FatalError \/ pool.errors > 0 \/ shutdownSem.sem > 0
  /\ pool' = [pool EXCEPT !.errors = 0]
  /\ main' = IF FatalError THEN [main EXCEPT !.pc = "stop", !.i = 1, !.noError = FALSE]
             ELSE IF shutdownSem.sem > 0 THEN [main EXCEPT !.pc = "stop", !.i = 1]
             ELSE main
  /\ UNCHANGED <<agent, routerT, sig, shutdownSem, queued, sockFile, failures>>

-----------------------------------------------------------------------------
(* Shutdown(): every agent that was started is stopped and joined, then    *)
(* the pool, then the router.                                              *)
ShutDownInputAgent ==
  LET a == StopOrder[main.i]
  IN /\ main.pc = "stop" /\ main.i <= Len(StopOrder)
     /\ IF Joinable(agent[a].t)
          THEN agent' = [agent EXCEPT ![a].t = Requested(@)] /\ Goto("join")
          ELSE main' = [main EXCEPT !.i = @ + 1] /\ UNCHANGED agent
     /\ UNCHANGED <<pool, routerT, sig, shutdownSem, queued, sockFile, failures>>

JoinInputAgent ==
  LET a == StopOrder[main.i]
  IN /\ main.pc = "join" /\ agent[a].t.pc = "dead"
     /\ main' = [main EXCEPT !.pc = "stop", !.i = @ + 1, !.ok = @ /\ ~agent[a].t.thrown]
     /\ agent' = [agent EXCEPT ![a].t = Joined(@)]
     /\ UNCHANGED <<pool, routerT, sig, shutdownSem, queued, sockFile, failures>>

InputAgentsStopped == main.pc = "stop" /\ main.i > Len(StopOrder)

(* Mutant: the router is stopped when the agents are, before the pool.     *)
RequestRouterShutdownEarly ==
  /\ InputAgentsStopped /\ Goto("router")
  /\ routerT' = IF Joinable(routerT) THEN Requested(routerT) ELSE routerT
  /\ UNCHANGED <<agent, pool, sig, shutdownSem, queued, sockFile, failures>>

StopPool ==
  /\ InputAgentsStopped
  /\ pool' = IF UsesPool THEN [pool EXCEPT !.t = Requested(@)] ELSE pool
  /\ Goto("pool")
  /\ UNCHANGED <<agent, routerT, sig, shutdownSem, queued, sockFile, failures>>

(* WaitForShutdown() calls Die() if the manager has thrown.                *)
JoinPool ==
  /\ main.pc = "pool" /\ (UsesPool => pool.t.pc = "dead")
  /\ IF pool.t.thrown THEN Die /\ UNCHANGED <<pool, routerT>>
     ELSE /\ pool' = [pool EXCEPT !.t = Joined(@), !.errors = 0]
          /\ routerT' = IF Joinable(routerT) THEN Requested(routerT) ELSE routerT
          /\ Goto("router")
  /\ UNCHANGED <<agent, sig, shutdownSem, queued, sockFile, failures>>

(* GetRemainingMsgs() and DiscardFinalMsgs().  Then the web interface and  *)
(* the server are destroyed; the socket files go with the server.          *)
FinishShutdown ==
  /\ main.pc = "router" /\ (Joinable(routerT) => routerT.pc = "dead")
  /\ routerT' = Joined(routerT)
  /\ queued' = 0 /\ sockFile' = {}
  /\ ExitWith("sigstop", IF main.ok /\ main.noError THEN "success" ELSE "failure")
  /\ UNCHANGED <<agent, pool, sig, shutdownSem, failures>>

StopSignalHandlerThread ==
  /\ main.pc = "sigstop"
  /\ IF Joinable(sig.t) /\ sig.t.req = 0
       THEN sig' = [sig EXCEPT !.t = Requested(@)] /\ UNCHANGED main
       ELSE /\ sig.t.pc = "dead"
            /\ sig' = [sig EXCEPT !.t = Joined(@)]
            /\ Goto(IF main.code = "die" THEN "died" ELSE "exited")
  /\ UNCHANGED <<agent, pool, routerT, shutdownSem, queued, sockFile, failures>>

MainStep ==
  \/ ReadConf \/ TSignalHandlerThreadStarter \/ Construct \/ StartPool \/ SyncStart
  \/ SyncStarted \/ StartRouter \/ StartHttpServer \/ HandleEvents \/ ShutDownInputAgent
  \/ JoinInputAgent \/ StopPool \/ JoinPool \/ FinishShutdown \/ StopSignalHandlerThread

-----------------------------------------------------------------------------
(* The input agents.                                                       *)
agentVars == <<agent, sockFile, failures>>

AgentThread(a, t) == agent' = [agent EXCEPT ![a].t = t]

(* The socket is opened.  The datagram agent dies if that fails, a stream  *)
(* agent removes its file and throws.                                      *)
OpenSocket(a) ==
  /\ Alive /\ agent[a].t.pc = "init"
  /\ \/ /\ agent' = [agent EXCEPT ![a].t.pc = "run", ![a].notify = 1, ![a].success = TRUE]
        /\ sockFile' = sockFile \cup ({a} \cap HasFile) /\ UNCHANGED <<main, failures>>
     \/ /\ a = "dg" /\ Die /\ failures' = failures \cup {a} /\ UNCHANGED <<agent, sockFile>>
     \/ /\ a # "dg" /\ failures' = failures \cup {a} /\ UNCHANGED <<main, sockFile>>
        /\ agent' = [agent EXCEPT ![a].t = Ended(@, TRUE), ![a].notify = 1]
  /\ UNCHANGED <<pool, routerT, sig, shutdownSem, queued>>

(* A datagram is queued, a connection given to a worker.                   *)
AgentInput(a) ==
  /\ Alive /\ agent[a].t.pc = "run" /\ agent[a].t.req = 0
  /\ IF a = "dg" THEN queued < MaxQueued /\ queued' = queued + 1 /\ UNCHANGED pool
     ELSE /\ pool.t.pc = "run" /\ pool.workers = 0
          /\ pool' = [pool EXCEPT !.workers = 1] /\ UNCHANGED queued
  /\ UNCHANGED <<main, agentVars, routerT, sig, shutdownSem>>

(* An exception ends the agent; a stream agent closes its socket.          *)
AgentThrows(a) ==
  /\ Alive /\ agent[a].t.pc = "run"
  /\ AgentThread(a, Ended(agent[a].t, TRUE))
  /\ sockFile' = IF a = "dg" THEN sockFile ELSE sockFile \ {a}
  /\ failures' = failures \cup {a}
  /\ UNCHANGED <<main, pool, routerT, sig, shutdownSem, queued>>

AgentStopsOnRequest(a) ==
  /\ Alive /\ agent[a].t.pc = "run" /\ agent[a].t.req > 0
  /\ AgentThread(a, Ended(agent[a].t, FALSE))
  /\ sockFile' = sockFile \ {a}
  /\ UNCHANGED <<main, failures, pool, routerT, sig, shutdownSem, queued>>

RunAndTerminate(a) ==
  /\ Alive /\ agent[a].t.pc = "ending"
  /\ AgentThread(a, Terminated(agent[a].t))
  /\ UNCHANGED <<main, sockFile, failures, pool, routerT, sig, shutdownSem, queued>>

AgentStep(a) == OpenSocket(a) \/ AgentStopsOnRequest(a) \/ RunAndTerminate(a)

-----------------------------------------------------------------------------
(* The worker pool and the router, as the main thread sees them.           *)
restOfPool == <<main, agent, routerT, sig, shutdownSem, sockFile>>

WorkerPuts ==
  /\ Alive /\ pool.workers > 0 /\ queued < MaxQueued
  /\ queued' = queued + 1
  /\ UNCHANGED <<restOfPool, pool, failures>>

(* A worker ends, maybe on an error.                                       *)
WorkerEnds ==
  /\ Alive /\ pool.workers > 0
  /\ \E e \in {0, 1} : pool' = [pool EXCEPT !.workers = 0, !.errors = e]
  /\ UNCHANGED <<restOfPool, queued, failures>>

PoolEnds ==
  /\ Alive /\ pool.t.pc = "run" /\ pool.workers = 0
  /\ \/ /\ pool.t.req > 0 /\ UNCHANGED failures
        /\ pool' = [pool EXCEPT !.t = Terminated(Ended(@, FALSE))]
     \/ /\ pool' = [pool EXCEPT !.t = Terminated(Ended(@, TRUE))]
        /\ failures' = failures \cup {"pool"}
  /\ UNCHANGED <<restOfPool, queued>>

RouterTakes ==
  /\ Alive /\ routerT.pc = "run" /\ queued > 0
  /\ queued' = 0
  /\ UNCHANGED <<restOfPool, pool, failures>>

(* The router ends when it is asked to, with or without the messages that  *)
(* are queued, or calls Die().                                             *)
RouterEnds ==
  /\ Alive /\ routerT.pc = "run"
  /\ \/ /\ routerT.req > 0
        /\ routerT' = Terminated(Ended(routerT, FALSE))
        /\ queued' \in {0, queued} /\ UNCHANGED <<main, failures>>
     \/ Die /\ failures' = failures \cup {"router"} /\ UNCHANGED <<routerT, queued>>
  /\ UNCHANGED <<agent, pool, sig, shutdownSem, sockFile>>

-----------------------------------------------------------------------------
(* Signals.  They are blocked but in ppoll(), which the signal handler     *)
(* thread calls.                                                           *)
restOfSignals == <<agent, pool, routerT, queued, sockFile>>

(* Before the thread is started a signal ends the process.                 *)
SendSignal ==
  /\ Alive /\ sig.sent < MaxSignals
  /\ \E s \in Handled :
       IF Joinable(sig.t) \/ main.pc = "sigstop"
         THEN /\ sig' = [sig EXCEPT !.pending = @ \cup {s}, !.sent = @ + 1]
              /\ UNCHANGED <<main, failures>>
         ELSE /\ Die /\ failures' = failures \cup {"signal"} /\ UNCHANGED sig
  /\ UNCHANGED <<restOfSignals, shutdownSem>>

InstallHandler ==
  /\ Alive /\ sig.t.pc = "init"
  /\ sig' = [sig EXCEPT !.t.pc = "ppoll"]
  /\ UNCHANGED <<main, restOfSignals, shutdownSem, failures>>

(* ppoll() ends with a signal, which Handler() records, or because the     *)
(* thread shall stop.                                                      *)
Handler ==
  /\ Alive /\ sig.t.pc = "ppoll" /\ sig.pending # {}
  /\ \E caught \in SUBSET sig.pending \ {{}} :
       sig' = [sig EXCEPT !.t.pc = "loop", !.pending = @ \ caught, !.caught = caught]
  /\ UNCHANGED <<main, restOfSignals, shutdownSem, failures>>

SignalThreadStops ==
  /\ Alive /\ sig.t.pc = "ppoll" /\ sig.t.req > 0
  /\ sig' = [sig EXCEPT !.t = Terminated(Ended(@, FALSE))]
  /\ UNCHANGED <<main, restOfSignals, shutdownSem, failures>>

(* RequestShutdown(): the first request pushes the semaphore.              *)
RequestShutdown(s) ==
  IF s.flag THEN s ELSE [sem |-> s.sem + 1, flag |-> TRUE]

(* Mutant: the loop ends after one signal.                                 *)
HandleOneSignal ==
  /\ Alive /\ sig.t.pc = "loop"
  /\ \E s \in sig.caught :
       /\ shutdownSem' = IF s = "SIGTERM" THEN RequestShutdown(shutdownSem) ELSE shutdownSem
       /\ sig' = [sig EXCEPT !.t.pc = "ppoll", !.caught = {},
                             !.reopened = @ + (IF s = "SIGUSR1" THEN 1 ELSE 0)]
  /\ UNCHANGED <<main, restOfSignals, failures>>

(* SignalCallback() for every signal that was caught.                      *)
SignalCallback ==
  /\ Alive /\ sig.t.pc = "loop"
  /\ IF sig.caught = {} THEN sig' = [sig EXCEPT !.t.pc = "ppoll"] /\ UNCHANGED shutdownSem
     ELSE \E s \in sig.caught :
            /\ shutdownSem' = IF s = "SIGTERM" THEN RequestShutdown(shutdownSem) ELSE shutdownSem
            /\ sig' = [sig EXCEPT !.caught = @ \ {s},
                                  !.reopened = @ + (IF s = "SIGUSR1" THEN 1 ELSE 0)]
  /\ UNCHANGED <<main, restOfSignals, failures>>

SignalStep == InstallHandler \/ Handler \/ SignalThreadStops \/ SignalCallback

ServerNext ==
  \/ MainStep
  \/ \E a \in Agents : AgentStep(a) \/ AgentInput(a) \/ AgentThrows(a)
  \/ WorkerPuts \/ WorkerEnds \/ PoolEnds \/ RouterTakes \/ RouterEnds
  \/ SendSignal \/ SignalStep
===============================================================================
