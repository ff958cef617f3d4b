-------------------------- MODULE ManagedThreadPool --------------------------
(***************************************************************************)
(* TManagedThreadPoolBase (thread/managed_thread_pool_base.cc): the pool   *)
(* of worker threads that serve the stream clients, with the clients that  *)
(* take workers out of it (the threads that accept connections), the       *)
(* manager thread that prunes and stops it, and the main thread.           *)
(*                                                                         *)
(* A step is a section of code under PoolLock, or what a thread does       *)
(* between two of them that another thread can see.  WakeupWait, a mutex   *)
(* that one thread locks and another unlocks, is a binary semaphore.  A    *)
(* segment of the idle list is the set of its workers, newest segment      *)
(* first.  Time is not modelled: the manager may prune whenever it polls.  *)
(***************************************************************************)
EXTENDS Naturals, Sequences, FiniteSets

CONSTANTS
  Clients,           \* threads that take workers out of the pool
  Workers,           \* bound: worker objects that can exist at a time
  Configs,           \* the configurations that SetConfig is called with
  ClientsStopFirst,  \* the clients have ended before the pool is shut down
  MaxGets,           \* bound: successful calls of GetAvailableWorker
  MaxStarts,         \* bound: calls of Start
  MaxCalls,          \* bound: calls of Start and of SetConfig in all
  None

PoolConfig == [MinPoolSize : Nat, MaxPoolSize : Nat, PruneQuantumCount : Nat \ {0},
               MaxPruneFraction : 0 .. 1000, MinIdleFraction : 0 .. 1000]

ASSUME ConfigAssumption == Configs # {} /\ Configs \subseteq PoolConfig
ASSUME PoolAssumption ==
  /\ IsFiniteSet(Workers) /\ None \notin Workers
  /\ ClientsStopFirst \in BOOLEAN
  /\ MaxGets \in Nat /\ MaxStarts \in Nat /\ MaxCalls \in Nat

VARIABLES
  (* TManagedThreadPoolBase *)
  IdleList, BusyList, JoinList, WorkerErrorList, LiveWorkerCount, PoolIsReady,
  Config, ReconfigPending, AllWorkersFinished, ReconfigSem, ErrorPendingSem,
  (* TWorkerBase *)
  objects,          \* the workers that exist
  wpc,              \* where each worker's thread is
  after,            \* where it goes from there
  failed,           \* the workers whose work threw an exception
  WorkerThread,     \* whether the member holds the thread
  WaitAfterDoWork, TerminateRequested,
  WakeupWait,       \* whether it is locked
  (* clients, manager and main thread *)
  cpc, worker,      \* where each client is, and the worker it holds
  mpc, reap,        \* where the manager is, and the workers it has to join
  ManagerConfig,    \* the manager's copy of Config
  ShutdownRequest,  \* the manager's shutdown request semaphore
  main,             \* where the main thread is
  popErrors,        \* it has taken the errors, and has to pop ErrorPendingSem
  pushReconfig,     \* calls of SetConfig that have yet to push ReconfigSem
  gets, sets, starts

poolVars == <<IdleList, BusyList, JoinList, LiveWorkerCount>>
errorVars == <<WorkerErrorList, ErrorPendingSem>>
configVars == <<Config, ReconfigPending, ReconfigSem, pushReconfig, sets>>
workerVars == <<objects, wpc, after, failed, WorkerThread, WaitAfterDoWork,
                TerminateRequested, WakeupWait>>
clientVars == <<cpc, worker, gets>>
managerVars == <<mpc, reap, ManagerConfig>>
mainVars == <<main, popErrors, ShutdownRequest, starts>>
vars == <<poolVars, PoolIsReady, AllWorkersFinished, errorVars, configVars,
          workerVars, clientVars, managerVars, mainVars>>

(* A thread sleeps on WakeupWait ("sleep"), runs the client's work         *)
(* ("work"), waits for the end of Activate ("wait"), is about to leave the *)
(* busy list ("leave"), reports an error ("error"), reports that it is the *)
(* last one ("notify"), and ends.                                          *)
(* A client has found the idle list empty ("miss"), holds a worker, has    *)
(* started a thread that WorkerThread does not hold yet ("assign"), joins  *)
(* the thread of a worker it puts back, or reports the last worker.  The   *)
(* manager copies Config, polls, handles a reconfiguration, prunes, or     *)
(* goes through HandleShutdownRequest.  The main thread has stopped the    *)
(* pool, runs it, waits for its end, or has yet to reset the semaphores.   *)

Elements(segments) == UNION {segments[i] : i \in DOMAIN segments}
Idle == Elements(IdleList)

NoWorkers == <<{}>>

Init ==
  /\ IdleList = NoWorkers /\ BusyList = {} /\ JoinList = {}
  /\ WorkerErrorList = 0 /\ LiveWorkerCount = 0 /\ PoolIsReady = FALSE
  /\ Config \in Configs
  /\ ReconfigPending = FALSE
  /\ AllWorkersFinished = 0 /\ ReconfigSem = 0 /\ ErrorPendingSem = 0
  /\ objects = {}
  /\ wpc = [w \in Workers |-> "none"] /\ after = [w \in Workers |-> "none"]
  /\ failed = {}
  /\ WorkerThread = [w \in Workers |-> FALSE]
  /\ WaitAfterDoWork = [w \in Workers |-> FALSE]
  /\ TerminateRequested = [w \in Workers |-> FALSE]
  /\ WakeupWait = [w \in Workers |-> FALSE]
  /\ cpc = [c \in Clients |-> "idle"] /\ worker = [c \in Clients |-> None]
  /\ mpc = "off" /\ reap = {} /\ ManagerConfig = Config
  /\ ShutdownRequest = FALSE
  /\ main = "stopped" /\ popErrors = FALSE
  /\ pushReconfig = 0
  /\ gets = 0 /\ sets = 0 /\ starts = 0

-----------------------------------------------------------------------------
(* TSegmentedList.                                                         *)

AddNew(segments, S) == [segments EXCEPT ![1] = @ \cup S]

(* RemoveOneNewest takes w, a worker of the first segment that has one.    *)
IsNewest(segments, w) ==
  \E i \in DOMAIN segments :
    w \in segments[i] /\ \A j \in 1 .. (i - 1) : segments[j] = {}
Remove(segments, S) == [i \in DOMAIN segments |-> segments[i] \ S]

(* RemoveOldest(max_count) takes S out of the last segment.                *)
IsOldest(segments, S, max_count) ==
  LET last == segments[Len(segments)]
  IN /\ S \subseteq last
     /\ Cardinality(S) = IF max_count >= Cardinality(last)
                         THEN Cardinality(last) ELSE max_count

AddNewSegment(segments) == <<{}>> \o segments

(* What is left in the last segment joins the one before it.               *)
RecycleOldestSegment(segments) ==
  LET n == Len(segments)
  IN IF n = 1 THEN segments
     ELSE <<{}>> \o [i \in 1 .. (n - 1) |->
            IF i = n - 1 THEN segments[i] \cup segments[n] ELSE segments[i]]

ResetSegments(segments) == <<Elements(segments)>>

-----------------------------------------------------------------------------
(* TWorkerBase: construction, destruction, Activate and Terminate.         *)

(* Workers are created with WakeupWait locked; with a thread, which sleeps *)
(* on it, or without one, to wait on it after the first work.              *)
Create(S, start) ==
  /\ objects' = objects \cup S
  /\ wpc' = [w \in Workers |-> IF w \in S /\ start THEN "sleep" ELSE wpc[w]]
  /\ WorkerThread' = [w \in Workers |-> IF w \in S THEN start ELSE WorkerThread[w]]
  /\ WaitAfterDoWork' =
       [w \in Workers |-> IF w \in S THEN ~start ELSE WaitAfterDoWork[w]]
  /\ TerminateRequested' =
       [w \in Workers |-> IF w \in S THEN FALSE ELSE TerminateRequested[w]]
  /\ WakeupWait' = [w \in Workers |-> IF w \in S THEN TRUE ELSE WakeupWait[w]]
  /\ UNCHANGED <<after, failed>>

(* WakeupWait is unlocked, and its thread told what for.                   *)
Wakeup(S, terminate) ==
  /\ TerminateRequested' =
       [w \in Workers |-> IF w \in S THEN terminate ELSE TerminateRequested[w]]
  /\ WakeupWait' = [w \in Workers |-> IF w \in S THEN FALSE ELSE WakeupWait[w]]

(* A thread is waited for if WorkerThread holds it.                        *)
Join(S) == \A w \in S : WorkerThread[w] => wpc[w] = "done"

(* Join, and delete: no member has a value any more.                       *)
JoinAndDestroy(S) ==
  /\ Join(S)
  /\ objects' = objects \ S
  /\ wpc' = [w \in Workers |-> IF w \in S /\ wpc[w] = "done" THEN "none" ELSE wpc[w]]
  /\ WorkerThread' = [w \in Workers |-> IF w \in S THEN FALSE ELSE WorkerThread[w]]
  /\ WaitAfterDoWork' =
       [w \in Workers |-> IF w \in S THEN FALSE ELSE WaitAfterDoWork[w]]
  /\ Wakeup(S, FALSE)
  /\ UNCHANGED <<after, failed>>

Terminate(S) ==
  /\ Wakeup(S, TRUE)
  /\ UNCHANGED <<objects, wpc, after, failed, WorkerThread, WaitAfterDoWork>>

-----------------------------------------------------------------------------
(* Clients.                                                                *)

BelowMaxPoolSize ==
  Config.MaxPoolSize = 0 \/ LiveWorkerCount < Config.MaxPoolSize

(* The first section of GetAvailableWorker, when it goes on: it returns no *)
(* worker when the pool is at its maximum size and throws when the pool is *)
(* not ready.                                                              *)
GetAvailableWorker(c) ==
  /\ cpc[c] = "idle"
  /\ ClientsStopFirst => main = "running"
  /\ gets < MaxGets
  /\ BelowMaxPoolSize
  /\ PoolIsReady
  /\ gets' = gets + 1
  /\ \E w \in Workers :
       /\ worker' = [worker EXCEPT ![c] = w]
       /\ \/ /\ IsNewest(IdleList, w)
             /\ IdleList' = Remove(IdleList, {w})
             /\ BusyList' = BusyList \cup {w}
             /\ cpc' = [cpc EXCEPT ![c] = "hold"]
             /\ UNCHANGED workerVars
          \/ /\ Idle = {} /\ w \notin objects
             /\ Create({w}, FALSE)
             /\ cpc' = [cpc EXCEPT ![c] = "miss"]
             /\ UNCHANGED <<IdleList, BusyList>>
  /\ UNCHANGED <<JoinList, LiveWorkerCount, PoolIsReady, AllWorkersFinished,
                 errorVars, configVars, managerVars, mainVars>>

(* Mutant: the new worker is not counted.                                  *)
AddUncounted(c) ==
  /\ cpc[c] = "miss"
  /\ BusyList' = BusyList \cup {worker[c]}
  /\ cpc' = [cpc EXCEPT ![c] = "hold"]
  /\ UNCHANGED <<IdleList, JoinList, LiveWorkerCount, PoolIsReady, AllWorkersFinished,
                 errorVars, configVars, workerVars, worker, gets, managerVars, mainVars>>

(* Its second section adds the new worker, whatever has happened since.    *)
AddNewWorker(c) ==
  /\ cpc[c] = "miss"
  /\ LiveWorkerCount' = LiveWorkerCount + 1
  /\ BusyList' = BusyList \cup {worker[c]}
  /\ cpc' = [cpc EXCEPT ![c] = "hold"]
  /\ UNCHANGED <<IdleList, JoinList, PoolIsReady, AllWorkersFinished, errorVars,
                 configVars, workerVars, worker, gets, managerVars, mainVars>>

Released(c) ==
  /\ cpc' = [cpc EXCEPT ![c] = "idle"]
  /\ worker' = [worker EXCEPT ![c] = None]
  /\ UNCHANGED gets

(* Activate wakes a thread up, or starts one and only then stores it.      *)
Activate(c) ==
  /\ cpc[c] = "hold"
  /\ LET w == worker[c] IN
       IF WorkerThread[w]
       THEN /\ Wakeup({w}, FALSE)
            /\ Released(c)
            /\ UNCHANGED wpc
       ELSE /\ wpc' = [wpc EXCEPT ![w] = "work"]
            /\ cpc' = [cpc EXCEPT ![c] = "assign"]
            /\ UNCHANGED <<TerminateRequested, WakeupWait, worker, gets>>
  /\ UNCHANGED <<poolVars, PoolIsReady, AllWorkersFinished, errorVars, configVars,
                 objects, after, failed, WorkerThread, WaitAfterDoWork,
                 managerVars, mainVars>>

AssignWorkerThread(c) ==
  /\ cpc[c] = "assign"
  /\ WorkerThread' = [WorkerThread EXCEPT ![worker[c]] = TRUE]
  /\ WakeupWait' = [WakeupWait EXCEPT ![worker[c]] = FALSE]
  /\ Released(c)
  /\ UNCHANGED <<poolVars, PoolIsReady, AllWorkersFinished, errorVars, configVars,
                 objects, wpc, after, failed, WaitAfterDoWork, TerminateRequested,
                 managerVars, mainVars>>

(* DoPutBack: a worker with a thread goes back to the idle list; one       *)
(* without, or any when the pool is shutting down, is destroyed.           *)
PutBack(c) ==
  /\ cpc[c] = "hold"
  /\ LET w == worker[c]
         keep == PoolIsReady /\ WorkerThread[w]
     IN /\ BusyList' = BusyList \ {w}
        /\ IF keep
           THEN /\ IdleList' = AddNew(IdleList, {w})
                /\ Released(c)
                /\ UNCHANGED <<LiveWorkerCount, workerVars>>
           ELSE /\ LiveWorkerCount' = LiveWorkerCount - 1
                /\ cpc' = [cpc EXCEPT ![c] =
                     IF ~PoolIsReady /\ LiveWorkerCount = 1 THEN "notify" ELSE "join"]
                /\ Terminate(IF WorkerThread[w] THEN {w} ELSE {})
                /\ UNCHANGED <<IdleList, worker, gets>>
  /\ UNCHANGED <<JoinList, PoolIsReady, AllWorkersFinished, errorVars, configVars,
                 managerVars, mainVars>>

(* The end of DoPutBack for a worker that is destroyed.                    *)
FinishPutBack(c) ==
  /\ cpc[c] \in {"join", "notify"}
  /\ JoinAndDestroy({worker[c]})
  /\ AllWorkersFinished' = AllWorkersFinished + IF cpc[c] = "notify" THEN 1 ELSE 0
  /\ Released(c)
  /\ UNCHANGED <<poolVars, PoolIsReady, errorVars, configVars, managerVars, mainVars>>

-----------------------------------------------------------------------------
(* Worker threads.                                                         *)

AfterWork(w) == IF WaitAfterDoWork[w] THEN "wait" ELSE "leave"

(* The work, which may throw, is skipped when the pool is shutting down.   *)
DoWork(w) ==
  /\ wpc[w] = "work"
  /\ wpc' = [wpc EXCEPT ![w] = AfterWork(w)]
  /\ \/ UNCHANGED failed
     \/ PoolIsReady /\ failed' = failed \cup {w}
  /\ UNCHANGED <<poolVars, PoolIsReady, AllWorkersFinished, errorVars, configVars,
                 objects, after, WorkerThread, WaitAfterDoWork, TerminateRequested,
                 WakeupWait, clientVars, managerVars, mainVars>>

(* A new worker waits for the end of Activate before it may become idle.   *)
WaitForActivate(w) ==
  /\ wpc[w] = "wait"
  /\ ~WakeupWait[w]
  /\ WakeupWait' = [WakeupWait EXCEPT ![w] = TRUE]
  /\ WaitAfterDoWork' = [WaitAfterDoWork EXCEPT ![w] = FALSE]
  /\ wpc' = [wpc EXCEPT ![w] = "leave"]
  /\ UNCHANGED <<poolVars, PoolIsReady, AllWorkersFinished, errorVars, configVars,
                 objects, after, failed, WorkerThread, TerminateRequested,
                 clientVars, managerVars, mainVars>>

(* Mutant: the last worker does not say that it is the last.               *)
NobodyNotifies == IF PoolIsReady THEN "sleep" ELSE "done"

(* The result of LeaveBusyList: the worker becomes idle, or ends, and the  *)
(* last one says so.                                                       *)
AfterBusyAction ==
  CASE PoolIsReady -> "sleep"
    [] ~PoolIsReady /\ LiveWorkerCount = 1 -> "notify"
    [] OTHER -> "done"

ErrorNotify(w) == w \in failed /\ WorkerErrorList = 0

(* LeaveBusyList and the report of an error, in one section: the worker    *)
(* becomes idle, or ends because the pool is shutting down.                *)
LeaveBusyList(w) ==
  /\ wpc[w] = "leave"
  /\ BusyList' = BusyList \ {w}
  /\ wpc' = [wpc EXCEPT ![w] = IF ErrorNotify(w) THEN "error" ELSE AfterBusyAction]
  /\ after' = [after EXCEPT ![w] = IF ErrorNotify(w) THEN AfterBusyAction ELSE "none"]
  /\ WorkerErrorList' = IF w \in failed THEN WorkerErrorList + 1 ELSE WorkerErrorList
  /\ failed' = failed \ {w}
  /\ IF PoolIsReady
     THEN /\ IdleList' = AddNew(IdleList, {w})
          /\ UNCHANGED <<JoinList, LiveWorkerCount>>
     ELSE /\ JoinList' = JoinList \cup {w}
          /\ LiveWorkerCount' = LiveWorkerCount - 1
          /\ UNCHANGED IdleList
  /\ UNCHANGED <<PoolIsReady, AllWorkersFinished, ErrorPendingSem, configVars,
                 objects, WorkerThread, WaitAfterDoWork, TerminateRequested,
                 WakeupWait, clientVars, managerVars, mainVars>>

PushErrorPending(w) ==
  /\ wpc[w] = "error"
  /\ ErrorPendingSem' = ErrorPendingSem + 1
  /\ wpc' = [wpc EXCEPT ![w] = after[w]]
  /\ after' = [after EXCEPT ![w] = "none"]
  /\ UNCHANGED <<poolVars, PoolIsReady, AllWorkersFinished, WorkerErrorList,
                 configVars, objects, failed, WorkerThread, WaitAfterDoWork,
                 TerminateRequested, WakeupWait, clientVars, managerVars, mainVars>>

(* Mutant: the request to terminate is not looked at.                      *)
AlwaysWorks(w) == "work"

AfterWakeup(w) == IF TerminateRequested[w] THEN "done" ELSE "work"

WakeUp(w) ==
  /\ wpc[w] = "sleep"
  /\ ~WakeupWait[w]
  /\ WakeupWait' = [WakeupWait EXCEPT ![w] = TRUE]
  /\ wpc' = [wpc EXCEPT ![w] = AfterWakeup(w)]
  /\ UNCHANGED <<poolVars, PoolIsReady, AllWorkersFinished, errorVars, configVars,
                 objects, after, failed, WorkerThread, WaitAfterDoWork,
                 TerminateRequested, clientVars, managerVars, mainVars>>

PushAllWorkersFinished(w) ==
  /\ wpc[w] = "notify"
  /\ AllWorkersFinished' = AllWorkersFinished + 1
  /\ wpc' = [wpc EXCEPT ![w] = "done"]
  /\ UNCHANGED <<poolVars, PoolIsReady, errorVars, configVars, objects, after,
                 failed, WorkerThread, WaitAfterDoWork, TerminateRequested,
                 WakeupWait, clientVars, managerVars, mainVars>>

-----------------------------------------------------------------------------
(* The manager thread.                                                     *)

(* How many threads there are above the minimum size.                      *)
SpareThreads(cfg, live) == IF live <= cfg.MinPoolSize THEN 0 ELSE live - cfg.MinPoolSize

(* How many of idle threads, of live ones in all, may be pruned: the pool  *)
(* keeps its minimum size and its minimum fraction of idle threads, and    *)
(* loses no more than a fraction, or one.                                  *)
GetMaxThreadsToPrune(cfg, idle, live) ==
  LET d == 1000 - cfg.MinIdleFraction
      v == d * idle
      w == cfg.MinIdleFraction * (live - idle)
      n == (live * cfg.MaxPruneFraction) \div 1000
      max1 == SpareThreads(cfg, live)
      max2 == IF idle = live THEN idle ELSE (v - w) \div d
      max3 == CASE cfg.MaxPruneFraction = 0 -> 0 [] n = 0 -> 1 [] OTHER -> n
  IN IF idle # live /\ w >= v THEN 0
     ELSE CHOOSE m \in {max1, max2, max3} : \A k \in {max1, max2, max3} : m <= k

ManagerGoes(to) ==
  /\ mpc' = to
  /\ UNCHANGED <<poolVars, PoolIsReady, AllWorkersFinished, errorVars, configVars,
                 workerVars, clientVars, reap, mainVars>>

StartManager ==
  /\ mpc = "init"
  /\ ManagerConfig' = Config
  /\ ManagerGoes("poll")

(* The outcome of poll(): it times out only if there is something to prune *)
(* for.                                                                    *)
Poll ==
  /\ mpc = "poll"
  /\ \/ ShutdownRequest /\ ManagerGoes("shutdown")
     \/ ~ShutdownRequest /\ ReconfigSem > 0 /\ ManagerGoes("pop")
     \/ /\ ~ShutdownRequest /\ ReconfigSem = 0
        /\ ManagerConfig.MaxPruneFraction # 0
        /\ ManagerGoes("prune")
  /\ UNCHANGED ManagerConfig

(* PruneThreadPool to the termination of the workers it takes.             *)
PruneThreadPool ==
  /\ mpc = "prune"
  /\ IF Len(IdleList) < ManagerConfig.PruneQuantumCount
     THEN /\ IdleList' = AddNewSegment(IdleList)
          /\ mpc' = "poll"
          /\ UNCHANGED <<LiveWorkerCount, workerVars, reap>>
     ELSE \E S \in SUBSET IdleList[Len(IdleList)] :
            /\ IsOldest(IdleList, S, GetMaxThreadsToPrune(ManagerConfig,
                                       Cardinality(Idle), LiveWorkerCount))
            /\ IdleList' = RecycleOldestSegment(Remove(IdleList, S))
            /\ LiveWorkerCount' = LiveWorkerCount - Cardinality(S)
            /\ Terminate(S)
            /\ reap' = S
            /\ mpc' = "pruned"
  /\ UNCHANGED <<BusyList, JoinList, PoolIsReady, AllWorkersFinished, errorVars,
                 configVars, clientVars, ManagerConfig, mainVars>>

JoinPruned ==
  /\ mpc = "pruned"
  /\ JoinAndDestroy(reap)
  /\ reap' = {}
  /\ mpc' = "poll"
  /\ UNCHANGED <<poolVars, PoolIsReady, AllWorkersFinished, errorVars, configVars,
                 clientVars, ManagerConfig, mainVars>>

PopReconfig ==
  /\ mpc = "pop"
  /\ ReconfigSem > 0
  /\ ReconfigSem' = ReconfigSem - 1
  /\ mpc' = "reconfig"
  /\ UNCHANGED <<poolVars, PoolIsReady, AllWorkersFinished, errorVars, Config,
                 ReconfigPending, pushReconfig, sets, workerVars, clientVars, reap,
                 ManagerConfig, mainVars>>

(* HandleReconfig after its Pop; the time to prune may have come.  (A      *)
(* change of PruneQuantumMs resets the segments as one of the count does.) *)
HandleReconfig ==
  /\ mpc = "reconfig"
  /\ ReconfigPending' = FALSE
  /\ IdleList' = IF Config.PruneQuantumCount # ManagerConfig.PruneQuantumCount
                 THEN ResetSegments(IdleList) ELSE IdleList
  /\ ManagerConfig' = Config
  /\ mpc' \in IF Config.MaxPruneFraction # 0 THEN {"poll", "prune"} ELSE {"poll"}
  /\ UNCHANGED <<BusyList, JoinList, LiveWorkerCount, PoolIsReady,
                 AllWorkersFinished, errorVars, Config, ReconfigSem, pushReconfig,
                 sets, workerVars, clientVars, reap, mainVars>>

WaitForWorkers(live) == IF live # 0 THEN "stop and wait" ELSE "stop"

(* HandleShutdownRequest, first section and the termination of the idle    *)
(* workers; then their join, and the wait for the busy ones.               *)
HandleShutdownRequest ==
  /\ mpc = "shutdown"
  /\ LiveWorkerCount' = LiveWorkerCount - Cardinality(Idle)
  /\ Terminate(Idle)
  /\ reap' = Idle \cup JoinList
  /\ IdleList' = NoWorkers /\ JoinList' = {}
  /\ PoolIsReady' = FALSE
  /\ mpc' = WaitForWorkers(LiveWorkerCount')
  /\ UNCHANGED <<BusyList, AllWorkersFinished, errorVars, configVars, clientVars,
                 ManagerConfig, mainVars>>

JoinIdle ==
  /\ mpc \in {"stop", "stop and wait"}
  /\ JoinAndDestroy(reap)
  /\ reap' = {}
  /\ mpc' = IF mpc = "stop" THEN "last" ELSE "await"
  /\ UNCHANGED <<poolVars, PoolIsReady, AllWorkersFinished, errorVars, configVars,
                 clientVars, ManagerConfig, mainVars>>

AwaitAllWorkersFinished ==
  /\ mpc = "await"
  /\ AllWorkersFinished > 0
  /\ AllWorkersFinished' = AllWorkersFinished - 1
  /\ mpc' = "last"
  /\ UNCHANGED <<poolVars, PoolIsReady, errorVars, configVars, workerVars,
                 clientVars, reap, ManagerConfig, mainVars>>

(* The workers that ended by themselves are joined at last.                *)
TakeJoinList ==
  /\ mpc = "last"
  /\ reap' = JoinList
  /\ JoinList' = {}
  /\ mpc' = "join"
  /\ UNCHANGED <<IdleList, BusyList, LiveWorkerCount, PoolIsReady,
                 AllWorkersFinished, errorVars, configVars, workerVars, clientVars,
                 ManagerConfig, mainVars>>

JoinLast ==
  /\ mpc = "join"
  /\ JoinAndDestroy(reap)
  /\ reap' = {}
  /\ mpc' = "exit"
  /\ UNCHANGED <<poolVars, PoolIsReady, AllWorkersFinished, errorVars, configVars,
                 clientVars, ManagerConfig, mainVars>>

-----------------------------------------------------------------------------
(* The main thread, and SetConfig, which any thread may call.              *)

(* operator!= of the configuration, which does not look at MaxPoolSize.    *)
Differs(a, b) == [a EXCEPT !.MaxPoolSize = 0] # [b EXCEPT !.MaxPoolSize = 0]

SetConfig ==
  /\ starts + sets < MaxCalls
  /\ \E cfg \in Configs :
       /\ Differs(cfg, Config)
       /\ Config' = cfg
       /\ pushReconfig' = IF ReconfigPending THEN pushReconfig ELSE pushReconfig + 1
  /\ ReconfigPending' = TRUE
  /\ sets' = sets + 1
  /\ UNCHANGED <<poolVars, PoolIsReady, AllWorkersFinished, errorVars, ReconfigSem,
                 workerVars, clientVars, managerVars, mainVars>>

PushReconfig ==
  /\ pushReconfig > 0
  /\ pushReconfig' = pushReconfig - 1
  /\ ReconfigSem' = ReconfigSem + 1
  /\ UNCHANGED <<poolVars, PoolIsReady, AllWorkersFinished, errorVars, Config,
                 ReconfigPending, sets, workerVars, clientVars, managerVars, mainVars>>

Start ==
  /\ main = "stopped" /\ ~popErrors
  /\ starts < MaxStarts /\ starts + sets < MaxCalls
  /\ \E populate \in BOOLEAN, S \in SUBSET (Workers \ objects) :
       /\ Cardinality(S) = IF populate THEN Config.MinPoolSize ELSE 0
       /\ Create(S, TRUE)
       /\ IdleList' = AddNew(IdleList, S)
       /\ LiveWorkerCount' = Cardinality(S)
  /\ ErrorPendingSem' = 0 /\ WorkerErrorList' = 0
  /\ ReconfigPending' = FALSE
  /\ PoolIsReady' = TRUE
  /\ ShutdownRequest' = FALSE
  /\ main' = "running" /\ mpc' = "init"
  /\ starts' = starts + 1
  /\ UNCHANGED <<BusyList, JoinList, AllWorkersFinished, Config, ReconfigSem,
                 pushReconfig, sets, clientVars, reap, ManagerConfig, popErrors>>

GetAllPendingErrors ==
  /\ main \in {"running", "stopped"} /\ ~popErrors
  /\ WorkerErrorList > 0
  /\ WorkerErrorList' = 0
  /\ popErrors' = TRUE
  /\ UNCHANGED <<poolVars, PoolIsReady, AllWorkersFinished, ErrorPendingSem,
                 configVars, workerVars, clientVars, managerVars, main,
                 ShutdownRequest, starts>>

PopErrorPending ==
  /\ popErrors
  /\ ErrorPendingSem > 0
  /\ ErrorPendingSem' = ErrorPendingSem - 1
  /\ popErrors' = FALSE
  /\ UNCHANGED <<poolVars, PoolIsReady, AllWorkersFinished, WorkerErrorList,
                 configVars, workerVars, clientVars, managerVars, main,
                 ShutdownRequest, starts>>

RequestShutdown ==
  /\ main = "running" /\ ~popErrors
  /\ ClientsStopFirst => \A c \in Clients : cpc[c] = "idle"
  /\ ShutdownRequest' = TRUE
  /\ main' = "stopping"
  /\ UNCHANGED <<poolVars, PoolIsReady, AllWorkersFinished, errorVars, configVars,
                 workerVars, clientVars, managerVars, popErrors, starts>>

(* The join of the manager, with the section under PoolLock.               *)
WaitForShutdown ==
  /\ main = "stopping"
  /\ mpc = "exit"
  /\ mpc' = "off"
  /\ ReconfigPending' = FALSE
  /\ main' = "reset"
  /\ UNCHANGED <<poolVars, PoolIsReady, AllWorkersFinished, errorVars, Config,
                 ReconfigSem, pushReconfig, sets, workerVars, clientVars, reap,
                 ManagerConfig, popErrors, ShutdownRequest, starts>>

ResetSemaphores ==
  /\ main = "reset"
  /\ AllWorkersFinished' = 0 /\ ReconfigSem' = 0
  /\ main' = "stopped"
  /\ UNCHANGED <<poolVars, PoolIsReady, errorVars, Config, ReconfigPending,
                 pushReconfig, sets, workerVars, clientVars, managerVars, popErrors,
                 ShutdownRequest, starts>>

-----------------------------------------------------------------------------
ClientStep(c) ==
  \/ AddNewWorker(c) \/ Activate(c) \/ AssignWorkerThread(c)
  \/ PutBack(c) \/ FinishPutBack(c)

WorkerStep(w) ==
  \/ WaitForActivate(w) \/ LeaveBusyList(w) \/ PushErrorPending(w)
  \/ WakeUp(w) \/ PushAllWorkersFinished(w)

ManagerStep ==
  \/ StartManager \/ Poll \/ PruneThreadPool \/ JoinPruned
  \/ PopReconfig \/ HandleReconfig
  \/ HandleShutdownRequest \/ JoinIdle \/ AwaitAllWorkersFinished
  \/ TakeJoinList \/ JoinLast

MainStep == PopErrorPending \/ WaitForShutdown \/ ResetSemaphores

Next ==
  \/ \E c \in Clients : GetAvailableWorker(c) \/ ClientStep(c)
  \/ \E w \in Workers : DoWork(w) \/ WorkerStep(w)
  \/ ManagerStep
  \/ MainStep \/ Start \/ GetAllPendingErrors \/ RequestShutdown
  \/ SetConfig \/ PushReconfig

(* A thread that can go on does; the client's work has to end only once    *)
(* the pool's shutdown request tells it to.                                *)
Fairness ==
  /\ \A c \in Clients : WF_vars(ClientStep(c))
  /\ \A w \in Workers : WF_vars(WorkerStep(w)) /\ WF_vars(ShutdownRequest /\ DoWork(w))
  /\ WF_vars(ManagerStep) /\ WF_vars(MainStep) /\ WF_vars(PushReconfig)

Spec == Init /\ [][Next]_vars
FairSpec == Spec /\ Fairness

-----------------------------------------------------------------------------
(* Properties.                                                             *)

Held == {c \in Clients : cpc[c] \in {"hold", "assign"}}

(* LiveWorkerCount counts the idle and the busy workers whenever PoolLock  *)
(* is free, and no worker is on two lists: the decrements of DoPutBack,    *)
(* LeaveBusyList, PruneThreadPool and HandleShutdownRequest never count a  *)
(* worker twice.  So, as HandleShutdownRequest, WaitForShutdown and Start  *)
(* assert, the pool is empty when the last worker has been reported, and a *)
(* pool that has been stopped can be started again.  PruneThreadPool never *)
(* finds more segments than the manager's PruneQuantumCount, across        *)
(* reconfigurations and restarts; and ErrorPendingSem counts, or is about  *)
(* to, exactly when errors are pending, so that GetAllPendingErrors does   *)
(* not block for good and leaves it unreadable once it has taken all.      *)
LiveCountIsExact ==
  /\ LiveWorkerCount = Cardinality(Idle) + Cardinality(BusyList)
  /\ Idle \cap BusyList = {} /\ Idle \cap JoinList = {} /\ BusyList \cap JoinList = {}
  /\ \A i, j \in DOMAIN IdleList : i # j => IdleList[i] \cap IdleList[j] = {}
  /\ mpc \in {"last", "join", "exit"} \/ main \in {"reset", "stopped"} =>
       Idle = {} /\ BusyList = {} /\ LiveWorkerCount = 0
  /\ main = "stopped" =>
       /\ objects = {} /\ JoinList = {} /\ Len(IdleList) = 1
       /\ AllWorkersFinished = 0 /\ ~PoolIsReady
  /\ mpc = "prune" => Len(IdleList) <= ManagerConfig.PruneQuantumCount
  /\ main \in {"running", "stopping"} \/ popErrors =>
       ErrorPendingSem + Cardinality({w \in Workers : wpc[w] = "error"}) =
         (IF WorkerErrorList > 0 THEN 1 ELSE 0) + (IF popErrors THEN 1 ELSE 0)

(* A worker belongs to one owner: a client that holds it, its own running  *)
(* thread, or the idle list.  A thread that works is on the busy list      *)
(* (assertion at the head of DoBusyRun's loop).  Whoever may take a worker *)
(* and unlock its WakeupWait finds it locked, which is what the wait after *)
(* the first work is for (comment in Activate): none is unlocked twice and *)
(* none misses a wakeup.  No worker object is destroyed that a list or its *)
(* own thread still refers to.                                             *)
OneOwner ==
  /\ \A w \in Idle : WakeupWait[w] /\ WorkerThread[w] /\ ~WaitAfterDoWork[w]
  /\ \A c \in Held : WakeupWait[worker[c]]
  /\ \A c \in Held : worker[c] \in BusyList
  /\ \A c \in Held : cpc[c] = "hold" => wpc[worker[c]] \in {"none", "sleep", "error"}
  /\ \A c, d \in Held : worker[c] = worker[d] => c = d
  /\ \A w \in Workers : wpc[w] \in {"work", "wait", "leave"} => w \in BusyList
  /\ Idle \cup BusyList \cup JoinList \cup reap \subseteq objects
  /\ \A w \in Workers : wpc[w] # "none" => w \in objects

(* A shutdown ends, whatever the workers and the manager were doing.       *)
ShutdownEnds == main = "stopping" ~> main = "stopped"

(* Two configurations that differ in the count of segments and in each     *)
(* limit of pruning: the first keeps one worker and lets all others go at  *)
(* once, the second keeps half of them idle and lets half of them go.      *)
TwoConfigs ==
  { [MinPoolSize |-> 1, MaxPoolSize |-> 0, PruneQuantumCount |-> 2,
     MaxPruneFraction |-> 1000, MinIdleFraction |-> 0],
    [MinPoolSize |-> 0, MaxPoolSize |-> 0, PruneQuantumCount |-> 1,
     MaxPruneFraction |-> 500, MinIdleFraction |-> 500] }
=============================================================================
