--------------------------- MODULE PoolLifecycle ---------------------------
(***************************************************************************)
(* The program's life (src/src/main.cpp, PoolHttpServer::start and stop):  *)
(* main() reads the configuration, builds the parts of the pool, starts    *)
(* their threads and waits for the monitor thread; a thread of its own     *)
(* watches the flags that the signal handlers set and stops the parts.     *)
(*                                                                         *)
(* The classes of poolcore are not part of the repository.  Of them only   *)
(* start() and stop() are modelled, as calls that return when the threads  *)
(* of the part run, or have ended.  ComplexMiningStats has neither in      *)
(* main(), which counts one thread for it (main.cpp:158): its constructor  *)
(* starts that thread, or nobody does.                                     *)
(***************************************************************************)
EXTENDS Naturals, FiniteSets

CONSTANTS
  Coins,        \* the coins of the configuration
  Algorithms,   \* their mining algorithms
  Instances,    \* the instances of the configuration
  UnknownCoin,  \* a name that is in no coin's configuration
  HttpThreads,  \* httpThreadsNum
  None

ASSUME HttpThreadsAssumption == IsFiniteSet(HttpThreads) /\ HttpThreads # {}
ASSUME NamesAssumption == UnknownCoin \notin Coins /\ None \notin Coins

VARIABLES
  algorithm,      \* configuration: algorithm of a coin
  links,          \* configuration: backends of an instance
  process,        \* "up", or how it ended
  main,           \* next step of main()
  todo,           \* what is left of the loop main() or the signal thread is in
  life,           \* of every part: "absent", "built", "running", "stopped", "destroyed"
  knownAlgo,      \* algorithm -> the coin for which its statistic server was made
  meta,           \* coin -> its algorithm's statistic server, as that coin
  statistic,      \* instance -> the same
  quit,           \* PoolHttpServer::stop has posted the quit operation
  httpThread,     \* "none", "loop" in asyncLoop, "call" in a call, "left"
  calling,        \* the part a thread of the HTTP server calls
  interrupted, sigusrReceived,   \* set by the signal handlers
  watcher         \* next step of the signal thread

configVars == <<algorithm, links>>
buildVars  == <<knownAlgo, meta, statistic>>
httpVars   == <<quit, httpThread, calling>>
signalVars == <<interrupted, sigusrReceived>>
vars == <<configVars, process, main, todo, life, buildVars, httpVars, signalVars, watcher>>

Single(kind)    == <<kind, None>>
Workers   == Single("ThreadPool")
Users     == Single("UserMgr")
Http      == Single("HttpServer")
Mining    == Single("MiningStats")
Prices    == Single("PriceFetcher")
Monitor   == Single("monitorThread")
Backend(c)    == <<"Backend", c>>
Dispatcher(c) == <<"ClientDispatcher", c>>
AlgoServer(c) == <<"AlgoMetaStatistic", c>>
Instance(i)   == <<"Instance", i>>
Parts == {Workers, Users, Http, Mining, Prices, Monitor}
           \cup {Backend(c) : c \in Coins} \cup {Dispatcher(c) : c \in Coins}
           \cup {AlgoServer(c) : c \in Coins} \cup {Instance(i) : i \in Instances}

AlgoServers == {AlgoServer(knownAlgo[a]) : a \in {b \in Algorithms : knownAlgo[b] # None}}

MainSteps == {"config", "users", "smtp", "coins", "backends", "instances", "startWorkers",
              "startUsers", "startBackends", "startAlgo", "poll", "http", "monitor",
              "signals", "watch", "join", "destroy", "return"}
WatcherSteps == {"none", "test", "dump", "clear", "sleep", "stopHttp", "joinHttp", "stopWorkers",
                 "stopBackends", "stopUsers", "stopMonitor", "left"}

TypeOK ==
  /\ algorithm \in [Coins -> Algorithms]
  /\ links \in [Instances -> SUBSET (Coins \cup {UnknownCoin})]
  /\ process \in {"up", "failed", "crashed", "killed", "exited"}
  /\ main \in MainSteps /\ watcher \in WatcherSteps
  /\ todo \subseteq Coins \cup Instances
  /\ life \in [Parts -> {"absent", "built", "running", "stopped", "destroyed"}]
  /\ knownAlgo \in [Algorithms -> Coins \cup {None}]
  /\ meta \in [Coins -> Coins \cup {None}]
  /\ statistic \in [Instances -> Coins \cup {None}]
  /\ quit \in BOOLEAN
  /\ httpThread \in [HttpThreads -> {"none", "loop", "call", "left"}]
  /\ calling \in [HttpThreads -> Parts \cup {None}]
  /\ interrupted \in 0..1 /\ sigusrReceived \in 0..1

Init ==
  /\ algorithm \in [Coins -> Algorithms]
  /\ links \in [Instances -> SUBSET (Coins \cup {UnknownCoin})]
  /\ process = "up" /\ main = "config" /\ todo = {}
  /\ life = [p \in Parts |-> "absent"]
  /\ knownAlgo = [a \in Algorithms |-> None]
  /\ meta = [c \in Coins |-> None]
  /\ statistic = [i \in Instances |-> None]
  /\ quit = FALSE
  /\ httpThread = [t \in HttpThreads |-> "none"]
  /\ calling = [t \in HttpThreads |-> None]
  /\ interrupted = 0 /\ sigusrReceived = 0 /\ watcher = "none"

-----------------------------------------------------------------------------
(* main(), lines 75 to 387: reading the configuration and building.        *)

At(step) == process = "up" /\ main = step
Become(parts, state) == life' = [p \in Parts |-> IF p \in parts THEN state ELSE life[p]]
Known(state) == {p \in Parts : life[p] = state}

\* return 1: the destructors of poolContext run.
Fail ==
  /\ process' = "failed"
  /\ Become(Parts \ Known("absent"), "destroyed")
  /\ UNCHANGED <<main, todo, buildVars>>

Aside == UNCHANGED <<configVars, httpVars, signalVars, watcher>>

LoadConfig ==
  /\ At("config")
  /\ \/ Fail
     \/ main' = "users" /\ UNCHANGED <<process, todo, life, buildVars>>
  /\ Aside

BuildUsers ==
  /\ At("users")
  /\ Become({Users}, "built")
  /\ main' = "smtp"
  /\ UNCHANGED <<process, todo, buildVars>> /\ Aside

\* The server's name has no ':' or its address is 0; or the null pointer
\* that gethostbyname returned is dereferenced.
EnableSmtp ==
  /\ At("smtp")
  /\ \/ Fail
     \/ process' = "crashed" /\ UNCHANGED <<main, todo, life, buildVars>>
     \/ main' = "coins" /\ UNCHANGED <<process, todo, life, buildVars>>
  /\ Aside

LookUpCoins ==
  /\ At("coins")
  /\ \/ Fail
     \/ /\ Become({Prices}, "built")
        /\ main' = "backends" /\ todo' = Coins
        /\ UNCHANGED <<process, buildVars>>
  /\ Aside

\* Mutation: every coin gets a statistic server of its own.
BuildBackendWithServer(c) ==
  /\ At("backends") /\ c \in todo
  /\ Become({Dispatcher(c), Backend(c), AlgoServer(c)}, "built")
  /\ knownAlgo' = [knownAlgo EXCEPT ![algorithm[c]] = c]
  /\ meta' = [meta EXCEPT ![c] = c]
  /\ todo' = todo \ {c}
  /\ UNCHANGED <<process, main, statistic>> /\ Aside

\* A threshold, a number of confirmations, an address, a node or the
\* algorithm of the coin may be wrong.
BuildBackend(c) ==
  /\ At("backends") /\ c \in todo
  /\ \/ Fail
     \/ LET a == algorithm[c]
            server == IF knownAlgo[a] = None THEN c ELSE knownAlgo[a]
        IN /\ Become({Dispatcher(c), Backend(c), AlgoServer(server)}, "built")
           /\ knownAlgo' = [knownAlgo EXCEPT ![a] = server]
           /\ meta' = [meta EXCEPT ![c] = server]
           /\ todo' = todo \ {c}
           /\ UNCHANGED <<process, main, statistic>>
  /\ Aside

\* The constructor of ComplexMiningStats may start the thread it is counted for.
BuildPool ==
  /\ At("backends") /\ todo = {}
  /\ \E state \in {"built", "running"} :
       life' = [life EXCEPT ![Workers] = "built", ![Mining] = state]
  /\ main' = "instances" /\ todo' = Instances
  /\ UNCHANGED <<process, buildVars>> /\ Aside

Agree(coins) == \A c, d \in coins : algorithm[c] = algorithm[d]

\* PoolInstanceFabric may not know the type.  The instance takes the
\* statistic server of the backend linked last.
BuildInstance(i) ==
  /\ At("instances") /\ i \in todo
  /\ \/ Fail
     \/ /\ UnknownCoin \notin links[i]
        /\ Agree(links[i])
        /\ Become({Instance(i)}, "built")
        /\ IF links[i] = {} THEN UNCHANGED statistic
           ELSE \E c \in links[i] : statistic' = [statistic EXCEPT ![i] = meta[c]]
        /\ todo' = todo \ {i}
        /\ UNCHANGED <<process, main, knownAlgo, meta>>
  /\ Aside

Built ==
  /\ At("instances") /\ todo = {}
  /\ main' = "startWorkers"
  /\ UNCHANGED <<process, todo, life, buildVars>> /\ Aside

-----------------------------------------------------------------------------
(* main(), lines 389 to 457: starting, and waiting for the end.            *)

\* One start() after the other; a loop starts its parts in any order.
Start(step, parts, then) ==
  /\ At(step)
  /\ Become(parts, "running")
  /\ main' = then
  /\ UNCHANGED <<process, todo, buildVars, configVars, httpVars, signalVars, watcher>>

StartWorkers  == Start("startWorkers", {Workers}, "startUsers")
StartUsers    == Start("startUsers", {Users}, "startBackends")
StartBackends == Start("startBackends", {Backend(c) : c \in Coins}, "startAlgo")
StartAlgo     == Start("startAlgo", AlgoServers, "poll")
Poll          == Start("poll", {Dispatcher(c) : c \in Coins}, "http")

\* start() returns false if the port cannot be bound or listened to; main()
\* does not look at what it returns.
StartHttp ==
  /\ At("http")
  /\ \/ /\ Become({Http}, "running")
        /\ httpThread' = [t \in HttpThreads |-> "loop"]
     \/ Become({Http}, "built") /\ UNCHANGED httpThread
  /\ main' = "monitor"
  /\ UNCHANGED <<process, todo, buildVars, configVars, quit, calling, signalVars, watcher>>

StartMonitor == Start("monitor", {Monitor}, "signals")

InstallHandlers == Start("signals", {}, "watch")

StartWatcher ==
  /\ At("watch")
  /\ watcher' = "test" /\ main' = "join"
  /\ UNCHANGED <<process, todo, life, buildVars, configVars, httpVars, signalVars>>

JoinMonitor ==
  /\ At("join") /\ life[Monitor] = "stopped"
  /\ main' = "destroy"
  /\ UNCHANGED <<process, todo, life, buildVars>> /\ Aside

\* The destructor of poolContext: that of MiningStats, its last member, comes
\* first, and ends the thread it may have.
Destroy ==
  /\ At("destroy")
  /\ Become(Parts \ Known("absent"), "destroyed")
  /\ process' = "exited" /\ main' = "return"
  /\ UNCHANGED <<todo, buildVars>> /\ Aside

-----------------------------------------------------------------------------
(* The threads of the HTTP server: a handler calls a part, and returns.    *)

Callable == {Users, Mining} \cup {Backend(c) : c \in Coins} \cup AlgoServers

HttpCall(t, p) ==
  /\ process = "up" /\ httpThread[t] = "loop"
  /\ httpThread' = [httpThread EXCEPT ![t] = "call"]
  /\ calling' = [calling EXCEPT ![t] = p]
  /\ UNCHANGED <<configVars, process, main, todo, life, buildVars, quit, signalVars, watcher>>

HttpReturn(t) ==
  /\ process = "up" /\ httpThread[t] = "call"
  /\ httpThread' = [httpThread EXCEPT ![t] = "loop"]
  /\ calling' = [calling EXCEPT ![t] = None]
  /\ UNCHANGED <<configVars, process, main, todo, life, buildVars, quit, signalVars, watcher>>

HttpLeave(t) ==
  /\ process = "up" /\ quit /\ httpThread[t] = "loop"
  /\ httpThread' = [httpThread EXCEPT ![t] = "left"]
  /\ UNCHANGED <<configVars, process, main, todo, life, buildVars, quit, calling, signalVars,
                 watcher>>

-----------------------------------------------------------------------------
(* The signals, and the thread that watches the flags.                     *)

HandlersInstalled == main \in {"watch", "join", "destroy", "return"}

\* Before signal() is called the default action of the signals ends the process.
SigInt ==
  /\ process = "up"
  /\ IF HandlersInstalled
     THEN interrupted' = 1 /\ UNCHANGED process
     ELSE process' = "killed" /\ UNCHANGED interrupted
  /\ UNCHANGED <<configVars, main, todo, life, buildVars, httpVars, sigusrReceived, watcher>>

\* Mutation: the handler counts the signals.
SigUsrCounts ==
  /\ process = "up" /\ HandlersInstalled
  /\ sigusrReceived' = sigusrReceived + 1
  /\ UNCHANGED <<configVars, process, main, todo, life, buildVars, httpVars, interrupted, watcher>>

SigUsr ==
  /\ process = "up" /\ HandlersInstalled
  /\ sigusrReceived' = 1
  /\ UNCHANGED <<configVars, process, main, todo, life, buildVars, httpVars, interrupted, watcher>>

Watch(step) == process = "up" /\ watcher = step
Watched == UNCHANGED <<configVars, main, buildVars, httpThread, calling, interrupted>>

\* Mutation: the HTTP server is not stopped before the parts it calls.
TestFlagsPartsFirst ==
  /\ Watch("test")
  /\ watcher' = IF interrupted = 1 THEN "stopWorkers"
                ELSE IF sigusrReceived = 1 THEN "dump" ELSE "sleep"
  /\ UNCHANGED <<process, todo, life, quit, sigusrReceived>> /\ Watched

TestFlags ==
  /\ Watch("test")
  /\ watcher' = IF interrupted = 1 THEN "stopHttp"
                ELSE IF sigusrReceived = 1 THEN "dump" ELSE "sleep"
  /\ UNCHANGED <<process, todo, life, quit, sigusrReceived>> /\ Watched

Dump ==
  /\ Watch("dump")
  /\ watcher' = "clear"
  /\ UNCHANGED <<process, todo, life, quit, sigusrReceived>> /\ Watched

ClearFlag ==
  /\ Watch("clear")
  /\ sigusrReceived' = 0 /\ watcher' = "sleep"
  /\ UNCHANGED <<process, todo, life, quit>> /\ Watched

\* Mutation: the flag is reset at the end of every turn of the loop.
SleepAndClear ==
  /\ Watch("sleep")
  /\ watcher' = "test" /\ sigusrReceived' = 0
  /\ UNCHANGED <<process, todo, life, quit>> /\ Watched

Sleep ==
  /\ Watch("sleep")
  /\ watcher' = "test"
  /\ UNCHANGED <<process, todo, life, quit, sigusrReceived>> /\ Watched

\* PoolHttpServer::stop joins threads that are not there if start() failed.
StopHttp ==
  /\ Watch("stopHttp")
  /\ quit' = TRUE
  /\ IF life[Http] = "running"
     THEN watcher' = "joinHttp" /\ UNCHANGED process
     ELSE process' = "crashed" /\ UNCHANGED watcher
  /\ UNCHANGED <<todo, life, sigusrReceived>> /\ Watched

\* Mutation: stop() posts the quit operation and does not join.
JoinHttpAtOnce ==
  /\ Watch("joinHttp")
  /\ Become({Http}, "stopped")
  /\ watcher' = "stopWorkers"
  /\ UNCHANGED <<process, todo, quit, sigusrReceived>> /\ Watched

JoinHttp ==
  /\ Watch("joinHttp")
  /\ \A t \in HttpThreads : httpThread[t] = "left"
  /\ Become({Http}, "stopped")
  /\ watcher' = "stopWorkers"
  /\ UNCHANGED <<process, todo, quit, sigusrReceived>> /\ Watched

StopWorkers ==
  /\ Watch("stopWorkers")
  /\ Become({Workers}, "stopped")
  /\ watcher' = "stopBackends" /\ todo' = Coins
  /\ UNCHANGED <<process, quit, sigusrReceived>> /\ Watched

StopBackend(c) ==
  /\ Watch("stopBackends") /\ c \in todo
  /\ Become({Backend(c)}, "stopped")
  /\ todo' = todo \ {c}
  /\ UNCHANGED <<process, watcher, quit, sigusrReceived>> /\ Watched

StopAlgo ==
  /\ Watch("stopBackends") /\ todo = {}
  /\ Become(AlgoServers, "stopped")
  /\ watcher' = "stopUsers"
  /\ UNCHANGED <<process, todo, quit, sigusrReceived>> /\ Watched

StopUsers ==
  /\ Watch("stopUsers")
  /\ Become({Users}, "stopped")
  /\ watcher' = "stopMonitor"
  /\ UNCHANGED <<process, todo, quit, sigusrReceived>> /\ Watched

\* Mutation: the monitor's loop is not told to quit.
StopAllButMonitor ==
  /\ Watch("stopMonitor")
  /\ watcher' = "left"
  /\ UNCHANGED <<process, todo, life, quit, sigusrReceived>> /\ Watched

\* The monitor thread polls the clients of the nodes, too.
StopMonitor ==
  /\ Watch("stopMonitor")
  /\ Become({Monitor} \cup {Dispatcher(c) : c \in Coins}, "stopped")
  /\ watcher' = "left"
  /\ UNCHANGED <<process, todo, quit, sigusrReceived>> /\ Watched

Ended == process # "up" /\ UNCHANGED vars

MainStep ==
  \/ LoadConfig \/ BuildUsers \/ EnableSmtp \/ LookUpCoins
  \/ \E c \in Coins : BuildBackend(c)
  \/ BuildPool
  \/ \E i \in Instances : BuildInstance(i)
  \/ Built \/ StartWorkers \/ StartUsers \/ StartBackends \/ StartAlgo \/ Poll
  \/ StartHttp \/ StartMonitor \/ InstallHandlers \/ StartWatcher \/ JoinMonitor \/ Destroy

WatcherStep ==
  \/ TestFlags \/ Dump \/ ClearFlag \/ Sleep \/ StopHttp \/ JoinHttp \/ StopWorkers
  \/ \E c \in Coins : StopBackend(c)
  \/ StopAlgo \/ StopUsers \/ StopMonitor

Next ==
  \/ MainStep \/ WatcherStep
  \/ \E t \in HttpThreads : (\E p \in Callable : HttpCall(t, p)) \/ HttpReturn(t) \/ HttpLeave(t)
  \/ SigInt \/ SigUsr \/ Ended

Spec == Init /\ [][Next]_vars

\* Threads that can run do run, and a quit operation ends every thread's loop:
\* a thread that has something to call does not take it for ever.
FairSpec ==
  /\ Spec /\ WF_vars(MainStep) /\ WF_vars(WatcherStep)
  /\ \A t \in HttpThreads : WF_vars(HttpReturn(t)) /\ SF_vars(HttpLeave(t))

-----------------------------------------------------------------------------
(* Properties.                                                             *)

(* An error of the configuration, found anywhere in lines 98 to 387 of     *)
(* main.cpp, ends the program before main() has started any of its parts:  *)
(* the destructors meet no running thread but one that MiningStats itself  *)
(* has started.                                                            *)
NothingStartedOnError ==
  [][process' = "failed" => \A p \in Parts \ {Mining} : life[p] \in {"absent", "built"}]_vars

(* A thread of the HTTP server is never in a call of a part that main()    *)
(* has not started yet, or of one that is stopped or destroyed (the orders *)
(* of starting in 389-411 and of stopping in 438-448).  MiningStats, which *)
(* main() builds in 340 and neither starts nor stops, is called only       *)
(* between its constructor and its destructor, with its thread or without. *)
CallsFindTheirPart ==
  \A t \in HttpThreads : httpThread[t] = "call" =>
    \/ life[calling[t]] = "running"
    \/ calling[t] = Mining /\ life[Mining] = "built"

(* When main() has joined the monitor thread and the destructor of         *)
(* poolContext is to run, no part that main() has started runs and no      *)
(* thread of the HTTP server is in its loop (main.cpp:428-457); only a     *)
(* thread of MiningStats, which nobody stops, may run.                     *)
NothingRunsWhenDestroyed ==
  main = "destroy" =>
    /\ Known("running") \subseteq {Mining}
    /\ \A t \in HttpThreads : httpThread[t] = "left"

(* The backends linked to one instance, and the instance, report to one    *)
(* and the same statistic server of their algorithm (main.cpp:318-334 and  *)
(* 371-383).                                                               *)
SharedStatistic ==
  \A i \in Instances : life[Instance(i)] = "built" =>
    \A c \in links[i] : /\ meta[c] = statistic[i]
                       /\ algorithm[meta[c]] = algorithm[c]

(* Every part is built, started, stopped and destroyed in this order, each *)
(* at most once and whatever the signals do; the HTTP server is started    *)
(* when all that its handlers call runs, and nothing of that is stopped    *)
(* while it runs (main.cpp:211-457).  MiningStats, which they call, too,   *)
(* is built by then, and destroyed after the server has been stopped.      *)
Life == INSTANCE PartLife
          WITH Front <- Http, Direct <- {Http, Monitor}, Own <- {Mining}, served <- Callable
PartsLiveInOrder == Life!Spec

(* SIGINT and SIGTERM end the program in order once its HTTP server runs   *)
(* (main.cpp:421-457).                                                     *)
InterruptEnds == interrupted = 1 /\ life[Http] = "running" ~> process = "exited"

(* A SIGUSR1 that finds the signal thread at the start of a turn or in its *)
(* sleep is served, unless the program is told to end (main.cpp:430-436);  *)
(* one that comes during a dump may be lost with it.                       *)
UsrServed ==
  sigusrReceived = 1 /\ watcher \in {"test", "sleep"}
    ~> watcher = "dump" \/ interrupted = 1

(* "Handle CTRL+C (SIGINT)" (main.cpp:421), "Stop HTTP server",            *)
(* "Stop workers", "Stop backends", "Stop user manager" (438-447): an      *)
(* interrupted program does not end with one of them running.              *)
InterruptStopsAll ==
  interrupted = 1 /\ process # "up" => Known("running") \subseteq {Mining}

(* The crash that InterruptStopsAll is about is the only one: unless the   *)
(* HTTP server was never started, a program that was interrupted, however  *)
(* often, ends by the destructors and in no other way (main.cpp:33-36 and  *)
(* 428-457).                                                               *)
OnlyPortTakenCrashes ==
  interrupted = 1 /\ process # "up" =>
    process = "exited" \/ (process = "crashed" /\ life[Http] = "built")

(* The inductive invariant behind the theorems of PoolLifecycleProofs: how *)
(* far main() and the signal thread have come says what runs.              *)
AfterAlgo == {"poll", "http", "monitor", "signals", "watch", "join", "destroy", "return"}
AfterUsers == {"startBackends", "startAlgo"} \cup AfterAlgo
AfterBackends == {"startAlgo"} \cup AfterAlgo
AfterHttp == {"monitor", "signals", "watch", "join", "destroy", "return"}
WorkersStopped == {"stopBackends", "stopUsers", "stopMonitor", "left"}
HttpStopped == {"stopWorkers"} \cup WorkersStopped

\* While main() reads the configuration and builds, it has started nothing.
Building == {"config", "users", "smtp", "coins", "backends", "instances"}
NotStarted == process = "up" /\ main \in Building =>
  \A p \in Parts \ {Mining} : life[p] \in {"absent", "built"}

\* The parts are what the progress of the two threads says.
WorkersAsMarked ==
  life[Workers] = "running" => watcher \notin WorkersStopped
UsersAsMarked ==
  life[Users] = "running" <=> main \in AfterUsers /\ watcher \notin {"stopMonitor", "left"}
BackendsAsMarked ==
  \A c \in Coins : life[Backend(c)] = "running" <=>
    /\ main \in AfterBackends
    /\ watcher \notin WorkersStopped \/ (watcher = "stopBackends" /\ c \in todo)
AlgoAsMarked ==
  /\ \A c \in Coins : life[AlgoServer(c)] = "running" =>
       AlgoServer(c) \in AlgoServers /\ watcher \notin {"stopUsers", "stopMonitor", "left"}
  /\ main \in AfterAlgo /\ watcher \notin {"stopUsers", "stopMonitor", "left"} =>
       \A p \in AlgoServers : life[p] = "running"
MonitorAsMarked ==
  /\ life[Monitor] = "stopped" => watcher = "left"
  /\ life[Monitor] = "running" => watcher # "left"
  /\ \A c \in Coins : life[Dispatcher(c)] = "running" => watcher # "left"
NeverStarted ==
  /\ life[Prices] # "running"
  /\ \A i \in Instances : life[Instance(i)] # "running"
MiningAsMarked ==
  life[Mining] \in (IF main \in {"config", "users", "smtp", "coins", "backends"} THEN {"absent"}
                    ELSE {"built", "running"})

\* The threads of the HTTP server exist while it runs and main() is past it.
HttpAsMarked ==
  /\ life[Http] = "running" => main \in AfterHttp /\ watcher \notin HttpStopped
  /\ \A t \in HttpThreads :
       /\ httpThread[t] \in {"loop", "call"} => life[Http] = "running"
       /\ watcher \in HttpStopped => httpThread[t] = "left"
       /\ httpThread[t] = "call" => calling[t] \in Callable
WatcherAsMarked ==
  /\ watcher # "none" => main \in {"join", "destroy", "return"}
  /\ main = "destroy" => watcher = "left"
  /\ watcher = "joinHttp" => life[Http] = "running"

Marked ==
  /\ WorkersAsMarked /\ UsersAsMarked /\ BackendsAsMarked /\ AlgoAsMarked
  /\ MonitorAsMarked /\ NeverStarted /\ MiningAsMarked /\ HttpAsMarked /\ WatcherAsMarked
IInv ==
  /\ TypeOK
  /\ process \in {"up", "crashed", "killed"} => Marked
  /\ process \in {"failed", "exited"} =>
       main # "destroy" /\ \A t \in HttpThreads : httpThread[t] # "call"

(* The strengthening of SharedStatistic: an algorithm has one statistic    *)
(* server, that of one of its coins, and every coin has got it when the    *)
(* instances are linked.                                                   *)
ServersOfAlgorithms ==
  /\ \A a \in Algorithms : knownAlgo[a] # None => algorithm[knownAlgo[a]] = a
  /\ \A c \in Coins : meta[c] # None => meta[c] = knownAlgo[algorithm[c]]
CoinsServed ==
  \A c \in Coins :
    meta[c] # None \/ main \in Building \ {"backends", "instances"} \/ (main = "backends" /\ c \in todo)
InstancesLinked ==
  \A i \in Instances : life[Instance(i)] = "built" =>
    /\ main \notin Building \ {"instances"}
    /\ \A c \in links[i] : c \in Coins /\ statistic[i] = meta[c]
StatisticsAsBuilt == ServersOfAlgorithms /\ CoinsServed /\ InstancesLinked

(* The strengthening of OnlyPortTakenCrashes: which ends come before the   *)
(* handlers of the signals are installed.                                  *)
EndsAsInterrupted ==
  /\ interrupted = 1 => HandlersInstalled
  /\ process \in {"failed", "killed"} => ~HandlersInstalled
  /\ process = "crashed" => ~HandlersInstalled \/ life[Http] = "built"
=============================================================================
