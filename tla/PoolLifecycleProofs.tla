------------------------ MODULE PoolLifecycleProofs ------------------------
(***************************************************************************)
(* Proofs about PoolLifecycle, for any configuration and any number of     *)
(* coins, algorithms, instances and HTTP threads.                          *)
(***************************************************************************)
EXTENDS PoolLifecycle, TLAPS

(* The parts of the pool are parts, and no two of them have one name.      *)
LEMMA PartNames ==
  /\ Workers \in Parts /\ Users \in Parts /\ Http \in Parts /\ Mining \in Parts
  /\ Prices \in Parts /\ Monitor \in Parts
  /\ \A c \in Coins : Backend(c) \in Parts /\ Dispatcher(c) \in Parts /\ AlgoServer(c) \in Parts
  /\ \A i \in Instances : Instance(i) \in Parts
  BY DEF Parts

(* No part is two of them.                                                 *)
LEMMA NamesDiffer ==
  /\ Workers # Users /\ Workers # Http /\ Workers # Mining /\ Workers # Prices
  /\ Workers # Monitor /\ Users # Http /\ Users # Mining /\ Users # Prices
  /\ Users # Monitor /\ Http # Mining /\ Http # Prices /\ Http # Monitor
  /\ Mining # Prices /\ Mining # Monitor /\ Prices # Monitor
  /\ \A c : /\ Backend(c) \notin {Workers, Users, Http, Mining, Prices, Monitor}
            /\ Dispatcher(c) \notin {Workers, Users, Http, Mining, Prices, Monitor}
            /\ AlgoServer(c) \notin {Workers, Users, Http, Mining, Prices, Monitor}
            /\ Instance(c) \notin {Workers, Users, Http, Mining, Prices, Monitor}
  /\ \A c, d : /\ Backend(c) \notin {Dispatcher(d), AlgoServer(d), Instance(d)}
               /\ Dispatcher(c) \notin {AlgoServer(d), Instance(d)}
               /\ AlgoServer(c) # Instance(d)
               /\ Backend(c) = Backend(d) <=> c = d
               /\ Dispatcher(c) = Dispatcher(d) <=> c = d
               /\ AlgoServer(c) = AlgoServer(d) <=> c = d
               /\ Instance(c) = Instance(d) <=> c = d
  BY DEF Workers, Users, Http, Mining, Prices, Monitor, Single, Backend, Dispatcher,
    AlgoServer, Instance

(* The parts that are stepped, and the others.                             *)
LEMMA BecomeIs ==
  ASSUME NEW parts, NEW state, Become(parts, state), NEW p \in Parts
  PROVE  life'[p] = IF p \in parts THEN state ELSE life[p]
  BY DEF Become

(* BuildPool leaves MiningStats with a thread or without.                  *)
LEMMA BuildPoolIs ==
  ASSUME TypeOK, BuildPool
  PROVE  /\ life' \in [Parts -> {"absent", "built", "running", "stopped", "destroyed"}]
         /\ life'[Mining] \in {"built", "running"} /\ life'[Workers] = "built"
         /\ \A p \in Parts \ {Mining, Workers} : life'[p] = life[p]
         /\ process = "up" /\ main = "backends" /\ todo = {}
         /\ main' = "instances" /\ todo' = Instances
         /\ UNCHANGED <<process, buildVars, configVars, httpVars, signalVars, watcher>>
<1>1. PICK state \in {"built", "running"} :
        life' = [life EXCEPT ![Workers] = "built", ![Mining] = state]
  BY DEF BuildPool
<1>2. life \in [Parts -> {"absent", "built", "running", "stopped", "destroyed"}]
  BY DEF TypeOK
<1>3. \A p \in Parts : life'[p] = IF p = Mining THEN state
                                  ELSE IF p = Workers THEN "built" ELSE life[p]
  BY <1>1, <1>2, PartNames, NamesDiffer
<1>4. life' \in [Parts -> {"absent", "built", "running", "stopped", "destroyed"}]
  BY <1>1, <1>2
<1> QED
  BY <1>3, <1>4, PartNames, NamesDiffer DEF BuildPool, At, Aside

(* What the statistic servers are.                                         *)
LEMMA ServersAre ==
  ASSUME TypeOK
  PROVE  /\ AlgoServers \subseteq {AlgoServer(c) : c \in Coins}
         /\ AlgoServers \subseteq Parts
  BY DEF TypeOK, AlgoServers, Parts

(* Every variable keeps its type.                                          *)
LEMMA TypeStep == TypeOK /\ [Next]_vars => TypeOK'
<1> SUFFICES ASSUME TypeOK, [Next]_vars PROVE TypeOK'
  OBVIOUS
<1> USE DEF MainSteps, WatcherSteps
<1>0. ASSUME NEW parts, NEW state \in {"absent", "built", "running", "stopped", "destroyed"},
             Become(parts, state)
      PROVE  life' \in [Parts -> {"absent", "built", "running", "stopped", "destroyed"}]
  BY <1>0 DEF TypeOK, Become
<1>1. CASE LoadConfig
  BY <1>0, <1>1 DEF TypeOK, LoadConfig, Fail, Known, Aside, configVars, httpVars, signalVars,
    buildVars
<1>2. CASE BuildUsers
  BY <1>0, <1>2 DEF TypeOK, BuildUsers, Aside, configVars, httpVars, signalVars, buildVars
<1>3. CASE EnableSmtp
  BY <1>0, <1>3 DEF TypeOK, EnableSmtp, Fail, Known, Aside, configVars, httpVars, signalVars,
    buildVars
<1>4. CASE LookUpCoins
  BY <1>0, <1>4 DEF TypeOK, LookUpCoins, Fail, Known, Aside, configVars, httpVars, signalVars,
    buildVars
<1>5. CASE BuildPool
  BY <1>5, BuildPoolIs DEF TypeOK, configVars, httpVars, signalVars, buildVars
<1>6. CASE Built
  BY <1>0, <1>6 DEF TypeOK, Built, Aside, configVars, httpVars, signalVars, buildVars
<1>7. CASE StartWorkers
  BY <1>0, <1>7 DEF TypeOK, StartWorkers, Start, configVars, httpVars, signalVars, buildVars
<1>8. CASE StartUsers
  BY <1>0, <1>8 DEF TypeOK, StartUsers, Start, configVars, httpVars, signalVars, buildVars
<1>9. CASE StartBackends
  BY <1>0, <1>9 DEF TypeOK, StartBackends, Start, configVars, httpVars, signalVars, buildVars
<1>10. CASE StartAlgo
  BY <1>0, <1>10 DEF TypeOK, StartAlgo, Start, configVars, httpVars, signalVars, buildVars
<1>11. CASE Poll
  BY <1>0, <1>11 DEF TypeOK, Poll, Start, configVars, httpVars, signalVars, buildVars
<1>12. CASE StartHttp
  BY <1>0, <1>12 DEF TypeOK, StartHttp, configVars, signalVars, buildVars
<1>13. CASE StartMonitor
  BY <1>0, <1>13 DEF TypeOK, StartMonitor, Start, configVars, httpVars, signalVars, buildVars
<1>14. CASE InstallHandlers
  BY <1>0, <1>14 DEF TypeOK, InstallHandlers, Start, configVars, httpVars, signalVars, buildVars
<1>15. CASE StartWatcher
  BY <1>0, <1>15 DEF TypeOK, StartWatcher, configVars, httpVars, signalVars, buildVars
<1>16. CASE JoinMonitor
  BY <1>0, <1>16 DEF TypeOK, JoinMonitor, Aside, configVars, httpVars, signalVars, buildVars
<1>17. CASE Destroy
  BY <1>0, <1>17 DEF TypeOK, Destroy, Known, Aside, configVars, httpVars, signalVars, buildVars
<1>18. ASSUME NEW c \in Coins, BuildBackend(c) PROVE TypeOK'
  <2>1. CASE Fail
    BY <1>0, <1>18, <2>1 DEF TypeOK, BuildBackend, Fail, Aside, configVars, httpVars,
      signalVars, buildVars
  <2>2. CASE ~Fail
    <3> DEFINE server == IF knownAlgo[algorithm[c]] = None THEN c ELSE knownAlgo[algorithm[c]]
    <3>1. server \in Coins
      BY DEF TypeOK
    <3>2. /\ Become({Dispatcher(c), Backend(c), AlgoServer(server)}, "built")
          /\ knownAlgo' = [knownAlgo EXCEPT ![algorithm[c]] = server]
          /\ meta' = [meta EXCEPT ![c] = server]
          /\ todo' = todo \ {c}
          /\ UNCHANGED <<process, main, statistic, configVars, httpVars, signalVars, watcher>>
      BY <1>18, <2>2 DEF BuildBackend, Aside
    <3> QED
      BY <1>0, <3>1, <3>2 DEF TypeOK, configVars, httpVars, signalVars
  <2> QED
    BY <2>1, <2>2
<1>19. ASSUME NEW i \in Instances, BuildInstance(i) PROVE TypeOK'
  <2>1. CASE Fail
    BY <1>0, <1>19, <2>1 DEF TypeOK, BuildInstance, Fail, Aside, configVars, httpVars,
      signalVars, buildVars
  <2>2. CASE ~Fail
    <3>1. statistic' \in [Instances -> Coins \cup {None}]
      BY <1>19, <2>2 DEF TypeOK, BuildInstance
    <3> QED
      BY <1>0, <1>19, <2>2, <3>1 DEF TypeOK, BuildInstance, Aside, configVars, httpVars,
        signalVars
  <2> QED
    BY <2>1, <2>2
<1>20. CASE TestFlags
  BY <1>0, <1>20 DEF TypeOK, TestFlags, Watch, Watched, configVars, buildVars
<1>21. CASE Dump
  BY <1>0, <1>21 DEF TypeOK, Dump, Watch, Watched, configVars, buildVars
<1>22. CASE ClearFlag
  BY <1>0, <1>22 DEF TypeOK, ClearFlag, Watch, Watched, configVars, buildVars
<1>23. CASE Sleep
  BY <1>0, <1>23 DEF TypeOK, Sleep, Watch, Watched, configVars, buildVars
<1>24. CASE StopHttp
  BY <1>0, <1>24 DEF TypeOK, StopHttp, Watch, Watched, configVars, buildVars
<1>25. CASE JoinHttp
  BY <1>0, <1>25 DEF TypeOK, JoinHttp, Watch, Watched, configVars, buildVars
<1>26. CASE StopWorkers
  BY <1>0, <1>26 DEF TypeOK, StopWorkers, Watch, Watched, configVars, buildVars
<1>27. CASE StopAlgo
  BY <1>0, <1>27 DEF TypeOK, StopAlgo, Watch, Watched, configVars, buildVars
<1>28. CASE StopUsers
  BY <1>0, <1>28 DEF TypeOK, StopUsers, Watch, Watched, configVars, buildVars
<1>29. CASE StopMonitor
  BY <1>0, <1>29 DEF TypeOK, StopMonitor, Watch, Watched, configVars, buildVars
<1>30. ASSUME NEW c \in Coins, StopBackend(c) PROVE TypeOK'
  BY <1>0, <1>30 DEF TypeOK, StopBackend, Watch, Watched, configVars, buildVars
<1>31. ASSUME NEW t \in HttpThreads, NEW p \in Callable, HttpCall(t, p) PROVE TypeOK'
  BY <1>0, <1>31, PartNames, ServersAre DEF TypeOK, HttpCall, Callable, configVars,
    signalVars, buildVars
<1>32. ASSUME NEW t \in HttpThreads, HttpReturn(t) \/ HttpLeave(t) PROVE TypeOK'
  BY <1>0, <1>32 DEF TypeOK, HttpReturn, HttpLeave, configVars, signalVars, buildVars
<1>33. CASE SigInt \/ SigUsr
  BY <1>0, <1>33 DEF TypeOK, SigInt, SigUsr, configVars, httpVars, buildVars
<1>34. CASE UNCHANGED vars
  BY <1>0, <1>34 DEF TypeOK, vars, configVars, httpVars, signalVars, buildVars
<1> QED
  BY <1>1, <1>2, <1>3, <1>4, <1>5, <1>6, <1>7, <1>8, <1>9, <1>10, <1>11,
    <1>12, <1>13, <1>14, <1>15, <1>16, <1>17, <1>18, <1>19, <1>20, <1>21,
    <1>22, <1>23, <1>24, <1>25, <1>26, <1>27, <1>28, <1>29, <1>30, <1>31,
    <1>32, <1>33, <1>34
    DEF Next, MainStep, WatcherStep, Ended

(* A step of a program that runs leaves the parts as the progress of the   *)
(* two threads says.                                                       *)
LEMMA MarkedStep ==
  ASSUME TypeOK, Marked, [Next]_vars, process' \notin {"failed", "exited"}
  PROVE  Marked'
<1> USE PartNames, NamesDiffer, ServersAre
<1> USE DEF Marked, WorkersAsMarked, UsersAsMarked, BackendsAsMarked, AlgoAsMarked,
  MonitorAsMarked, NeverStarted, MiningAsMarked, HttpAsMarked, WatcherAsMarked, WorkersStopped,
  HttpStopped, AfterAlgo, AfterUsers, AfterBackends, AfterHttp
<1>1. CASE LoadConfig
  BY <1>1 DEF LoadConfig, Fail, At, Aside, configVars, httpVars, signalVars, buildVars,
    Callable, AlgoServers
<1>2. CASE EnableSmtp
  BY <1>2 DEF EnableSmtp, Fail, At, Aside, configVars, httpVars, signalVars, buildVars,
    Callable, AlgoServers
<1>3. CASE Built
  BY <1>3 DEF Built, At, Aside, configVars, httpVars, signalVars, buildVars, Callable,
    AlgoServers
<1>4. CASE InstallHandlers
  <2>1. \A p \in Parts : life'[p] = life[p]
    BY <1>4 DEF InstallHandlers, Start, Become
  <2> QED
    BY <1>4, <2>1 DEF InstallHandlers, Start, At, configVars, httpVars, signalVars, buildVars,
      Callable, AlgoServers
<1>5. CASE StartWatcher
  BY <1>5 DEF StartWatcher, At, configVars, httpVars, signalVars, buildVars, Callable,
    AlgoServers
<1>6. CASE JoinMonitor
  BY <1>6 DEF JoinMonitor, At, Aside, configVars, httpVars, signalVars, buildVars, Callable,
    AlgoServers
<1>7. CASE BuildUsers
  <2>1. \A p \in Parts : life'[p] = IF p \in {Users} THEN "built" ELSE life[p]
    BY <1>7, BecomeIs DEF BuildUsers, At, Aside, configVars, buildVars, httpVars, signalVars
  <2> QED
    BY <1>7, <2>1 DEF BuildUsers, At, Aside, configVars, buildVars, httpVars, signalVars,
      Callable, AlgoServers
<1>8. CASE LookUpCoins
  <2>1. \A p \in Parts : life'[p] = IF p \in {Prices} THEN "built" ELSE life[p]
    BY <1>8, BecomeIs DEF LookUpCoins, Fail, At, Aside, configVars, buildVars, httpVars,
      signalVars
  <2> QED
    BY <1>8, <2>1 DEF LookUpCoins, Fail, At, Aside, configVars, buildVars, httpVars,
      signalVars, Callable, AlgoServers
<1>9. CASE BuildPool
  <2>1. UNCHANGED AlgoServers
    BY <1>9, BuildPoolIs DEF buildVars, AlgoServers
  <2> QED
    BY <1>9, <2>1, BuildPoolIs DEF configVars, httpVars, signalVars, Callable
<1>10. CASE StartWorkers
  <2>1. \A p \in Parts : life'[p] = IF p \in {Workers} THEN "running" ELSE life[p]
    BY <1>10, BecomeIs DEF StartWorkers, Start, At, Aside, configVars, buildVars, httpVars,
      signalVars
  <2> QED
    BY <1>10, <2>1 DEF StartWorkers, Start, At, Aside, configVars, buildVars, httpVars,
      signalVars, Callable, AlgoServers
<1>11. CASE StartUsers
  <2>1. \A p \in Parts : life'[p] = IF p \in {Users} THEN "running" ELSE life[p]
    BY <1>11, BecomeIs DEF StartUsers, Start, At, Aside, configVars, buildVars, httpVars,
      signalVars
  <2> QED
    BY <1>11, <2>1 DEF StartUsers, Start, At, Aside, configVars, buildVars, httpVars,
      signalVars, Callable, AlgoServers
<1>12. CASE StartBackends
  <2>1. \A p \in Parts : life'[p] = IF p \in {Backend(c) : c \in Coins} THEN "running"
                                    ELSE life[p]
    BY <1>12, BecomeIs DEF StartBackends, Start, At, Aside, configVars, buildVars, httpVars,
      signalVars
  <2> QED
    BY <1>12, <2>1 DEF StartBackends, Start, At, Aside, configVars, buildVars, httpVars,
      signalVars, Callable, AlgoServers
<1>13. CASE StartAlgo
  <2>1. \A p \in Parts : life'[p] = IF p \in AlgoServers THEN "running" ELSE life[p]
    BY <1>13, BecomeIs DEF StartAlgo, Start, At, Aside, configVars, buildVars, httpVars,
      signalVars
  <2> QED
    BY <1>13, <2>1 DEF StartAlgo, Start, At, Aside, configVars, buildVars, httpVars,
      signalVars, Callable, AlgoServers
<1>14. CASE Poll
  <2>1. \A p \in Parts : life'[p] = IF p \in {Dispatcher(c) : c \in Coins} THEN "running"
                                    ELSE life[p]
    BY <1>14, BecomeIs DEF Poll, Start, At, Aside, configVars, buildVars, httpVars, signalVars
  <2> QED
    BY <1>14, <2>1 DEF Poll, Start, At, Aside, configVars, buildVars, httpVars, signalVars,
      Callable, AlgoServers
<1>15. CASE StartMonitor
  <2>1. \A p \in Parts : life'[p] = IF p \in {Monitor} THEN "running" ELSE life[p]
    BY <1>15, BecomeIs DEF StartMonitor, Start, At, Aside, configVars, buildVars, httpVars,
      signalVars
  <2> QED
    BY <1>15, <2>1 DEF StartMonitor, Start, At, Aside, configVars, buildVars, httpVars,
      signalVars, Callable, AlgoServers
<1>16. CASE TestFlags \/ Dump \/ ClearFlag \/ Sleep \/ StopHttp
  BY <1>16 DEF TestFlags, Dump, ClearFlag, Sleep, StopHttp, Watch, Watched, configVars,
    buildVars, Callable, AlgoServers
<1>17. CASE JoinHttp
  <2>1. \A p \in Parts : life'[p] = IF p \in {Http} THEN "stopped" ELSE life[p]
    BY <1>17, BecomeIs DEF JoinHttp, Watch, Watched, configVars, buildVars
  <2> QED
    BY <1>17, <2>1 DEF JoinHttp, Watch, Watched, configVars, buildVars, Callable, AlgoServers
<1>18. CASE StopWorkers
  <2>1. \A p \in Parts : life'[p] = IF p \in {Workers} THEN "stopped" ELSE life[p]
    BY <1>18, BecomeIs DEF StopWorkers, Watch, Watched, configVars, buildVars
  <2> QED
    BY <1>18, <2>1 DEF StopWorkers, Watch, Watched, configVars, buildVars, Callable, AlgoServers
<1>19. CASE StopAlgo
  <2>1. \A p \in Parts : life'[p] = IF p \in AlgoServers THEN "stopped" ELSE life[p]
    BY <1>19, BecomeIs DEF StopAlgo, Watch, Watched, configVars, buildVars
  <2> QED
    BY <1>19, <2>1 DEF StopAlgo, Watch, Watched, configVars, buildVars, Callable, AlgoServers
<1>20. CASE StopUsers
  <2>1. \A p \in Parts : life'[p] = IF p \in {Users} THEN "stopped" ELSE life[p]
    BY <1>20, BecomeIs DEF StopUsers, Watch, Watched, configVars, buildVars
  <2> QED
    BY <1>20, <2>1 DEF StopUsers, Watch, Watched, configVars, buildVars, Callable, AlgoServers
<1>21. CASE StopMonitor
  <2>1. \A p \in Parts : life'[p] = IF p \in ({Monitor} \cup {Dispatcher(c) : c \in Coins})
                                    THEN "stopped"
                                    ELSE life[p]
    BY <1>21, BecomeIs DEF StopMonitor, Watch, Watched, configVars, buildVars
  <2> QED
    BY <1>21, <2>1 DEF StopMonitor, Watch, Watched, configVars, buildVars, Callable, AlgoServers
<1>22. ASSUME NEW c \in Coins, StopBackend(c) PROVE Marked'
  <2>1. \A p \in Parts : life'[p] = IF p \in {Backend(c)} THEN "stopped" ELSE life[p]
    BY <1>22, BecomeIs DEF StopBackend, Watch, Watched, configVars, buildVars
  <2> QED
    BY <1>22, <2>1 DEF StopBackend, Watch, Watched, configVars, buildVars, Callable, AlgoServers
<1>23. CASE SigInt \/ SigUsr \/ UNCHANGED vars
  BY <1>23 DEF SigInt, SigUsr, vars, configVars, buildVars, httpVars, signalVars, Callable,
    AlgoServers
<1>24. ASSUME NEW t \in HttpThreads, NEW q \in Callable, HttpCall(t, q) PROVE Marked'
  BY <1>24 DEF TypeOK, HttpCall, Callable, AlgoServers, configVars, buildVars, signalVars
<1>25. ASSUME NEW t \in HttpThreads, HttpReturn(t) \/ HttpLeave(t) PROVE Marked'
  <2>1. CASE HttpReturn(t)
    BY <2>1 DEF TypeOK, HttpReturn, Callable, AlgoServers, configVars, buildVars, signalVars
  <2>2. CASE HttpLeave(t)
    BY <2>2 DEF TypeOK, HttpLeave, Callable, AlgoServers, configVars, buildVars, signalVars
  <2> QED
    BY <1>25, <2>1, <2>2
<1>26. CASE StartHttp
  <2>1. \A p \in Parts : p # Http => life'[p] = life[p]
    BY <1>26, BecomeIs DEF StartHttp
  <2>2. /\ main = "http" /\ main' = "monitor"
        /\ UNCHANGED <<todo, buildVars, configVars, quit, calling, watcher>>
    BY <1>26 DEF StartHttp, At
  <2>3. watcher = "none" /\ AlgoServers' = AlgoServers
    BY <2>2 DEF buildVars, AlgoServers
  <2>4. \/ life'[Http] = "running" /\ httpThread' = [t \in HttpThreads |-> "loop"]
        \/ life'[Http] = "built" /\ httpThread' = httpThread
    BY <1>26, BecomeIs DEF StartHttp
  <2>5. WorkersAsMarked' /\ UsersAsMarked' /\ BackendsAsMarked' /\ AlgoAsMarked'
    BY <2>1, <2>2, <2>3
  <2>6. MonitorAsMarked' /\ NeverStarted' /\ MiningAsMarked' /\ WatcherAsMarked'
    BY <2>1, <2>2, <2>3
  <2>7. \A t \in HttpThreads : httpThread[t] \notin {"loop", "call"}
    BY <2>2
  <2>8. HttpAsMarked'
    BY <2>2, <2>3, <2>4, <2>7
  <2> QED
    BY <2>5, <2>6, <2>8
<1>27. ASSUME NEW i \in Instances, BuildInstance(i) PROVE Marked'
  <2>1. \A p \in Parts : life'[p] = IF p \in {Instance(i)} THEN "built" ELSE life[p]
    BY <1>27, BecomeIs DEF BuildInstance, Fail
  <2> QED
    BY <1>27, <2>1 DEF BuildInstance, Fail, Callable, AlgoServers, At, Aside, configVars,
      httpVars, signalVars
<1>28. ASSUME NEW c \in Coins, BuildBackend(c) PROVE Marked'
  <2> DEFINE server == IF knownAlgo[algorithm[c]] = None THEN c ELSE knownAlgo[algorithm[c]]
  <2>1. /\ Become({Dispatcher(c), Backend(c), AlgoServer(server)}, "built")
        /\ knownAlgo' = [knownAlgo EXCEPT ![algorithm[c]] = server]
        /\ UNCHANGED <<main, statistic, configVars, httpVars, signalVars, watcher>>
        /\ main = "backends"
    BY <1>28 DEF BuildBackend, Fail, Aside, At
  <2>2. server \in Coins
    BY DEF TypeOK
  <2>3. \A p \in Parts : life'[p] = IF p \in {Dispatcher(c), Backend(c), AlgoServer(server)}
                                    THEN "built" ELSE life[p]
    BY <2>1, BecomeIs
  <2>4. AlgoServers \subseteq AlgoServers'
    BY <2>1, NamesAssumption DEF TypeOK, AlgoServers
  <2> HIDE DEF server
  <2> QED
    BY <2>1, <2>2, <2>3, <2>4 DEF Callable, configVars, httpVars, signalVars
<1>29. ~Destroy
  BY DEF Destroy
<1> HIDE DEF Marked
<1> QED
  BY <1>1, <1>2, <1>3, <1>4, <1>5, <1>6, <1>7, <1>8, <1>9, <1>10, <1>11, <1>12, <1>13, <1>14,
    <1>15, <1>16, <1>17, <1>18, <1>19, <1>20, <1>21, <1>22, <1>23, <1>24, <1>25, <1>26,
    <1>27, <1>28, <1>29
    DEF Next, MainStep, WatcherStep, Ended

(* A program ends in order by the destructors, or by an error that main()  *)
(* finds before it has started anything.                                   *)
LEMMA EndsBy ==
  ASSUME process = "up", [Next]_vars, process' \in {"failed", "exited"}
  PROVE  /\ httpThread' = httpThread
         /\ \/ main \in {"config", "smtp", "coins", "backends", "instances"} /\ main' = main
            \/ main = "destroy" /\ main' = "return" /\ process' = "exited"
<1> USE DEF At, Watch
<1>1. process' # process
  OBVIOUS
<1>2. Next
  BY <1>1 DEF vars
<1>3. ~(SigInt \/ SigUsr \/ Ended \/ WatcherStep)
  BY <1>1 DEF SigInt, SigUsr, Ended, vars, WatcherStep, TestFlags, Dump, ClearFlag, Sleep,
    StopHttp, JoinHttp, StopWorkers, StopBackend, StopAlgo, StopUsers, StopMonitor
<1>4. \A t \in HttpThreads :
        ~((\E p \in Callable : HttpCall(t, p)) \/ HttpReturn(t) \/ HttpLeave(t))
  BY <1>1 DEF HttpCall, HttpReturn, HttpLeave
<1>5. MainStep
  BY <1>2, <1>3, <1>4 DEF Next
<1>6. ~(BuildUsers \/ BuildPool \/ Built \/ StartWorkers \/ StartUsers \/ StartBackends)
  BY <1>1 DEF BuildUsers, BuildPool, Built, StartWorkers, StartUsers, StartBackends, Start
<1>7. ~(StartAlgo \/ Poll \/ StartHttp \/ StartMonitor \/ InstallHandlers \/ StartWatcher
          \/ JoinMonitor)
  BY <1>1 DEF StartAlgo, Poll, StartHttp, StartMonitor, InstallHandlers, StartWatcher,
    JoinMonitor, Start
<1> DEFINE Goal == /\ httpThread' = httpThread
                   /\ \/ /\ main \in {"config", "smtp", "coins", "backends", "instances"}
                         /\ main' = main
                      \/ main = "destroy" /\ main' = "return" /\ process' = "exited"
<1>8. CASE LoadConfig \/ EnableSmtp \/ LookUpCoins \/ Destroy
  BY <1>1, <1>8 DEF LoadConfig, EnableSmtp, LookUpCoins, Destroy, Fail, Aside, httpVars
<1>9. ASSUME NEW c \in Coins, BuildBackend(c) PROVE Goal
  BY <1>1, <1>9 DEF BuildBackend, Fail, Aside, httpVars
<1>10. ASSUME NEW i \in Instances, BuildInstance(i) PROVE Goal
  BY <1>1, <1>10 DEF BuildInstance, Fail, Aside, httpVars
<1> QED
  BY <1>5, <1>6, <1>7, <1>8, <1>9, <1>10 DEF MainStep

(* A thread of the HTTP server is in a call only while the server runs:    *)
(* an error of the configuration comes before, the destructors after.      *)
LEMMA InvStep == IInv /\ [Next]_vars => IInv'
<1> SUFFICES ASSUME IInv, [Next]_vars PROVE IInv'
  OBVIOUS
<1>1. TypeOK /\ TypeOK'
  BY TypeStep DEF IInv
<1>2. CASE process # "up"
  <2>1. UNCHANGED vars
    BY <1>2 DEF Next, MainStep, WatcherStep, Ended, At, Watch, LoadConfig, BuildUsers,
      EnableSmtp,
      LookUpCoins, BuildBackend, BuildPool, BuildInstance, Built, StartWorkers, StartUsers,
      StartBackends, StartAlgo, Poll, Start, StartHttp, StartMonitor, InstallHandlers,
      StartWatcher, JoinMonitor, Destroy, TestFlags, Dump, ClearFlag, Sleep, StopHttp, JoinHttp,
      StopWorkers, StopBackend, StopAlgo, StopUsers, StopMonitor, HttpCall, HttpReturn,
      HttpLeave, SigInt, SigUsr
  <2>2. process' = process /\ main' = main /\ httpThread' = httpThread
    BY <2>1 DEF vars, httpVars
  <2>3. Marked => Marked'
    BY <2>1 DEF vars, configVars, buildVars, httpVars, signalVars, Marked, WorkersAsMarked,
      UsersAsMarked, BackendsAsMarked, AlgoAsMarked, MonitorAsMarked, NeverStarted,
      MiningAsMarked, HttpAsMarked, WatcherAsMarked, Callable, AlgoServers
  <2> QED
    BY <1>1, <2>2, <2>3 DEF IInv
<1>3. CASE process = "up"
  <2>1. Marked
    BY <1>3 DEF IInv
  <2>2. CASE process' \notin {"failed", "exited"}
    BY <1>1, <2>1, <2>2, MarkedStep DEF IInv
  <2>3. CASE process' \in {"failed", "exited"}
    <3>1. /\ httpThread' = httpThread
          /\ main' # "destroy"
          /\ main \notin AfterHttp \ {"destroy"}
          /\ main = "destroy" => watcher \in HttpStopped
      BY <1>3, <2>3, <2>1, EndsBy
        DEF AfterHttp, HttpStopped, WorkersStopped, Marked, WatcherAsMarked
    <3>2. \A t \in HttpThreads : httpThread[t] # "call"
      BY <2>1, <3>1 DEF Marked, HttpAsMarked, AfterHttp
    <3> QED
      BY <1>1, <2>3, <3>1, <3>2 DEF IInv
  <2> QED
    BY <2>2, <2>3
<1> QED
  BY <1>2, <1>3

(* The program starts in the invariant ...                                 *)
LEMMA InitInv == Init => IInv
<1> SUFFICES ASSUME Init PROVE IInv
  OBVIOUS
<1>1. TypeOK
  <2>1. /\ process \in {"up", "failed", "crashed", "killed", "exited"}
        /\ main \in MainSteps /\ watcher \in WatcherSteps /\ todo \subseteq Coins \cup Instances
        /\ interrupted \in 0..1 /\ sigusrReceived \in 0..1
    BY DEF Init, MainSteps, WatcherSteps
  <2>2. /\ algorithm \in [Coins -> Algorithms]
        /\ links \in [Instances -> SUBSET (Coins \cup {UnknownCoin})]
        /\ life \in [Parts -> {"absent", "built", "running", "stopped", "destroyed"}]
        /\ httpThread \in [HttpThreads -> {"none", "loop", "call", "left"}]
    BY DEF Init
  <2>3. /\ knownAlgo \in [Algorithms -> Coins \cup {None}]
        /\ meta \in [Coins -> Coins \cup {None}]
        /\ statistic \in [Instances -> Coins \cup {None}]
        /\ calling \in [HttpThreads -> Parts \cup {None}]
    BY DEF Init
  <2>4. quit \in BOOLEAN
    BY DEF Init
  <2> QED
    BY <2>1, <2>2, <2>3, <2>4 DEF TypeOK
<1>2. \A p \in Parts : life[p] = "absent"
  BY DEF Init
<1>3. Marked
  BY <1>1, <1>2, PartNames DEF Init, Marked, WorkersAsMarked, UsersAsMarked, BackendsAsMarked,
    AlgoAsMarked, MonitorAsMarked, NeverStarted, MiningAsMarked, HttpAsMarked, WatcherAsMarked,
    AfterAlgo, AfterUsers, AfterBackends, AfterHttp, HttpStopped, WorkersStopped
<1>4. process = "up"
  BY DEF Init
<1> QED
  BY <1>1, <1>3, <1>4 DEF IInv

(* ... and stays in it.                                                    *)
LEMMA InvHolds == Spec => []IInv
<1>1. Init => IInv
  BY InitInv
<1>2. IInv /\ [Next]_vars => IInv'
  BY InvStep
<1> QED
  BY <1>1, <1>2, PTL DEF Spec

(* Every variable keeps its type.                                          *)
THEOREM LifeTypeCorrect == Spec => []TypeOK
<1>1. IInv => TypeOK
  BY DEF IInv
<1> QED
  BY <1>1, InvHolds, PTL

(* A thread of the HTTP server is never in a call of a part that main()    *)
(* has not started yet, or of one that is stopped or destroyed             *)
(* (main.cpp:389-411 and 438-448): while one is in a call the server runs, *)
(* so main() has started all that it starts and the signal thread has      *)
(* stopped none.  MiningStats is called after its constructor and before   *)
(* its destructor, and no more is known of its thread.                     *)
THEOREM CallsFindTheirPartHolds == Spec => []CallsFindTheirPart
<1>1. IInv => CallsFindTheirPart
  <2> DEFINE Found(p) == life[p] = "running" \/ (p = Mining /\ life[Mining] = "built")
  <2> SUFFICES ASSUME IInv, NEW t \in HttpThreads, httpThread[t] = "call"
               PROVE  Found(calling[t])
    BY DEF CallsFindTheirPart
  <2>1. TypeOK /\ Marked
    BY DEF IInv, TypeOK
  <2>2. /\ main \in AfterHttp /\ watcher \notin HttpStopped
        /\ calling[t] \in Callable
    BY <2>1 DEF Marked, HttpAsMarked
  <2>3. /\ main \in AfterUsers /\ main \in AfterBackends /\ main \in AfterAlgo
        /\ watcher \notin WorkersStopped
        /\ watcher \notin {"stopUsers", "stopMonitor", "left"}
    BY <2>2 DEF AfterHttp, AfterUsers, AfterBackends, AfterAlgo, HttpStopped, WorkersStopped
  <2>4. CASE calling[t] = Mining
    <3>1. main \notin {"config", "users", "smtp", "coins", "backends"}
      BY <2>2 DEF AfterHttp
    <3> QED
      BY <2>1, <2>4, <3>1 DEF Marked, MiningAsMarked
  <2>5. CASE calling[t] = Users
    BY <2>1, <2>3, <2>5, NamesDiffer DEF Marked, UsersAsMarked
  <2>6. ASSUME NEW c \in Coins, calling[t] = Backend(c) PROVE Found(calling[t])
    BY <2>1, <2>3, <2>6 DEF Marked, BackendsAsMarked
  <2>7. CASE calling[t] \in AlgoServers
    BY <2>1, <2>3, <2>7 DEF Marked, AlgoAsMarked
  <2> QED
    BY <2>2, <2>4, <2>5, <2>6, <2>7 DEF Callable
<1> QED
  BY <1>1, InvHolds, PTL

(* When main() has joined the monitor thread and the destructor of         *)
(* poolContext is to run, no part but MiningStats runs and every thread of *)
(* the HTTP server has left its loop (main.cpp:428-457).                   *)
THEOREM NothingRunsWhenDestroyedHolds == Spec => []NothingRunsWhenDestroyed
<1>1. IInv => NothingRunsWhenDestroyed
  <2> SUFFICES ASSUME IInv, main = "destroy"
               PROVE  /\ \A p \in Parts \ {Mining} : life[p] # "running"
                      /\ \A t \in HttpThreads : httpThread[t] = "left"
    BY DEF NothingRunsWhenDestroyed, Known
  <2>1. TypeOK /\ Marked
    BY DEF IInv, TypeOK
  <2>2. watcher = "left"
    BY <2>1 DEF Marked, WatcherAsMarked
  <2>3. \A t \in HttpThreads : httpThread[t] = "left"
    BY <2>1, <2>2 DEF Marked, HttpAsMarked, HttpStopped, WorkersStopped
  <2>4. /\ life[Workers] # "running" /\ life[Users] # "running" /\ life[Http] # "running"
        /\ life[Prices] # "running" /\ life[Monitor] # "running"
        /\ \A i \in Instances : life[Instance(i)] # "running"
        /\ \A c \in Coins : /\ life[Backend(c)] # "running"
                            /\ life[Dispatcher(c)] # "running"
                            /\ life[AlgoServer(c)] # "running"
    BY <2>1, <2>2 DEF Marked, WorkersAsMarked, UsersAsMarked, BackendsAsMarked, AlgoAsMarked,
      MonitorAsMarked, NeverStarted, MiningAsMarked, HttpAsMarked, HttpStopped, WorkersStopped
  <2> QED
    BY <2>3, <2>4 DEF Parts
<1> QED
  BY <1>1, InvHolds, PTL

(* main() only goes forward, and the signal thread runs after it has       *)
(* started everything.                                                     *)
LEMMA BuildingStep == IInv /\ NotStarted /\ [Next]_vars => NotStarted'
<1> SUFFICES ASSUME IInv, NotStarted, [Next]_vars, process' = "up", main' \in Building
             PROVE  \A p \in Parts \ {Mining} : life'[p] \in {"absent", "built"}
  BY DEF NotStarted
<1> USE DEF At, Watch, Building
<1>1. CASE UNCHANGED <<process, main, life>>
  BY <1>1 DEF NotStarted
<1>2. CASE Next /\ ~UNCHANGED <<process, main, life>>
  <2>1. process = "up" /\ (main \in {"join", "destroy", "return"} \/ watcher = "none")
    BY <1>2 DEF IInv, Marked, WatcherAsMarked, Ended, Next, MainStep, WatcherStep, vars,
      LoadConfig, BuildUsers, EnableSmtp, LookUpCoins, BuildBackend, BuildPool, BuildInstance,
      Built, StartWorkers, StartUsers, StartBackends, StartAlgo, Poll, Start, StartHttp,
      StartMonitor, InstallHandlers, StartWatcher, JoinMonitor, Destroy, TestFlags, Dump,
      ClearFlag, Sleep, StopHttp, JoinHttp, StopWorkers, StopBackend, StopAlgo, StopUsers,
      StopMonitor, HttpCall, HttpReturn, HttpLeave, SigInt, SigUsr
  <2>2. ~WatcherStep
    <3>1. WatcherStep => watcher # "none" /\ main' = main
      BY DEF WatcherStep, Watched, TestFlags, Dump, ClearFlag, Sleep, StopHttp, JoinHttp,
        StopWorkers, StopBackend, StopAlgo, StopUsers, StopMonitor
    <3> QED
      BY <2>1, <3>1
  <2>3. MainStep
    BY <1>2, <2>2 DEF Next, Ended, vars, SigInt, SigUsr, HttpCall, HttpReturn, HttpLeave
  <2>4. ~(Built \/ StartWorkers \/ StartUsers \/ StartBackends \/ StartAlgo \/ Poll
            \/ StartHttp \/ StartMonitor \/ InstallHandlers \/ StartWatcher \/ JoinMonitor
            \/ Destroy)
    BY DEF Built, StartWorkers, StartUsers, StartBackends, StartAlgo, Poll, StartHttp,
      StartMonitor, InstallHandlers, StartWatcher, JoinMonitor, Destroy, Start
  <2>5. CASE LoadConfig \/ BuildUsers \/ EnableSmtp \/ LookUpCoins
    BY <2>5 DEF NotStarted, LoadConfig, BuildUsers, EnableSmtp, LookUpCoins, Fail, Become
  <2>6. ASSUME NEW c \in Coins, BuildBackend(c)
        PROVE  \A p \in Parts \ {Mining} : life'[p] \in {"absent", "built"}
    BY <2>6 DEF NotStarted, BuildBackend, Fail, Become
  <2>7. ASSUME NEW i \in Instances, BuildInstance(i)
        PROVE  \A p \in Parts \ {Mining} : life'[p] \in {"absent", "built"}
    BY <2>7 DEF NotStarted, BuildInstance, Fail, Become
  <2>8. CASE BuildPool
    <3>1. TypeOK
      BY DEF IInv
    <3> QED
      BY <2>8, <3>1, BuildPoolIs DEF NotStarted
  <2> QED
    BY <2>3, <2>4, <2>5, <2>6, <2>7, <2>8 DEF MainStep
<1> QED
  BY <1>1, <1>2 DEF vars

(* An error of the configuration ends the program before main() has        *)
(* started any of its parts: the destructors meet no running thread but    *)
(* one that MiningStats itself has started (main.cpp:98-387).              *)
THEOREM NothingStartedOnErrorHolds == Spec => NothingStartedOnError
<1>1. Init => NotStarted
  BY DEF Init, NotStarted
<1>2. IInv /\ NotStarted /\ [Next]_vars
        => \/ process' = "failed" => \A p \in Parts \ {Mining} : life[p] \in {"absent", "built"}
           \/ UNCHANGED vars
  <2> SUFFICES ASSUME NotStarted, Next, ~UNCHANGED vars, process' = "failed"
               PROVE  \A p \in Parts \ {Mining} : life[p] \in {"absent", "built"}
    OBVIOUS
  <2>1. process = "up"
    BY DEF Next, MainStep, WatcherStep, Ended, At, Watch, LoadConfig, BuildUsers, EnableSmtp,
      LookUpCoins, BuildBackend, BuildPool, BuildInstance, Built, StartWorkers, StartUsers,
      StartBackends, StartAlgo, Poll, Start, StartHttp, StartMonitor, InstallHandlers,
      StartWatcher, JoinMonitor, Destroy, TestFlags, Dump, ClearFlag, Sleep, StopHttp, JoinHttp,
      StopWorkers, StopBackend, StopAlgo, StopUsers, StopMonitor, HttpCall, HttpReturn,
      HttpLeave, SigInt, SigUsr
  <2>2. main \in Building
    BY <2>1, EndsBy DEF Building
  <2> QED
    BY <2>1, <2>2 DEF NotStarted
<1>3. IInv /\ NotStarted /\ [Next]_vars => NotStarted'
  BY BuildingStep
<1> QED
  BY <1>1, <1>2, <1>3, InvHolds, PTL DEF Spec, NothingStartedOnError

(* A step that builds neither a backend nor an instance leaves the         *)
(* statistic servers and the instances as they were, or destroys them;     *)
(* main() goes on to the backends with all coins to be done, and past them *)
(* when none is left.                                                      *)
LEMMA OtherStep ==
  ASSUME IInv, [Next]_vars,
         ~ \E c \in Coins : BuildBackend(c), ~ \E i \in Instances : BuildInstance(i)
  PROVE  /\ UNCHANGED <<algorithm, links, knownAlgo, meta, statistic>>
         /\ \A i \in Instances : life'[Instance(i)] = "built" => life[Instance(i)] = "built"
         /\ main \notin Building \ {"instances"} => main' \notin Building \ {"instances"}
         /\ main \in Building \ {"backends", "instances"} =>
              main' \in Building \ {"instances"}
         /\ main = "backends" /\ main' # "backends" => todo = {}
         /\ main' = "backends" => \/ main = "backends" /\ todo' = todo
                                  \/ todo' = Coins
<1> DEFINE Same == UNCHANGED <<algorithm, links, knownAlgo, meta, statistic>>
           Kept == \A i \in Instances : life'[Instance(i)] = "built" => life[Instance(i)] = "built"
           Goes == /\ main \notin Building \ {"instances"} => main' \notin Building \ {"instances"}
                   /\ main \in Building \ {"backends", "instances"} =>
                        main' \in Building \ {"instances"}
                   /\ main = "backends" /\ main' # "backends" => todo = {}
                   /\ main' = "backends" => \/ main = "backends" /\ todo' = todo
                                            \/ todo' = Coins
<1> USE PartNames, NamesDiffer
<1>a. TypeOK
  BY DEF IInv
<1> USE <1>a, ServersAre
<1>0. ASSUME NEW parts, NEW state, Become(parts, state),
             state # "built" \/ \A i \in Instances : Instance(i) \notin parts
      PROVE  Kept
  BY <1>0, BecomeIs
<1>1. CASE LoadConfig \/ EnableSmtp \/ BuildUsers \/ LookUpCoins
  <2>1. Kept
    BY <1>0, <1>1 DEF LoadConfig, EnableSmtp, BuildUsers, LookUpCoins, Fail
  <2> QED
    BY <1>1, <2>1 DEF LoadConfig, EnableSmtp, BuildUsers, LookUpCoins, Fail, At, Aside,
      configVars, buildVars, Building
<1>2. CASE BuildPool \/ Built
  <2>1. Kept
    BY <1>2, BuildPoolIs DEF Built
  <2> QED
    BY <1>2, <2>1 DEF BuildPool, Built, At, Aside, configVars, buildVars, Building
<1>3. CASE StartWorkers \/ StartUsers \/ StartBackends \/ StartAlgo \/ Poll \/ StartMonitor
             \/ InstallHandlers
  <2>1. Kept
    BY <1>0, <1>3 DEF StartWorkers, StartUsers, StartBackends, StartAlgo, Poll, StartMonitor,
      InstallHandlers, Start
  <2> QED
    BY <1>3, <2>1 DEF StartWorkers, StartUsers, StartBackends, StartAlgo, Poll, StartMonitor,
      InstallHandlers, Start, At, configVars, buildVars, Building
<1>4. CASE StartHttp \/ StartWatcher \/ JoinMonitor \/ Destroy
  <2>1. Kept
    BY <1>0, <1>4 DEF StartHttp, StartWatcher, JoinMonitor, Destroy
  <2> QED
    BY <1>4, <2>1 DEF StartHttp, StartWatcher, JoinMonitor, Destroy, At, Aside, configVars,
      buildVars, Building
<1>5. WatcherStep => main \in {"join", "destroy", "return"} /\ main' = main
  BY DEF WatcherStep, TestFlags, Dump, ClearFlag, Sleep, StopHttp, JoinHttp, StopWorkers,
    StopBackend, StopAlgo, StopUsers, StopMonitor, Watch, Watched, IInv, Marked, WatcherAsMarked
<1>6. CASE TestFlags \/ Dump \/ ClearFlag \/ Sleep \/ StopHttp
  BY <1>5, <1>6 DEF WatcherStep, TestFlags, Dump, ClearFlag, Sleep, StopHttp, Watched,
    configVars, buildVars, Building
<1>7. CASE JoinHttp \/ StopUsers \/ StopMonitor \/ StopWorkers \/ StopAlgo
  <2>1. Kept
    BY <1>0, <1>7 DEF JoinHttp, StopUsers, StopMonitor, StopWorkers, StopAlgo
  <2>2. Same
    BY <1>7 DEF JoinHttp, StopUsers, StopMonitor, StopWorkers, StopAlgo, Watched, configVars,
      buildVars
  <2> QED
    BY <1>5, <1>7, <2>1, <2>2 DEF WatcherStep, Building
<1>8. ASSUME NEW c \in Coins, StopBackend(c) PROVE Same /\ Kept /\ Goes
  <2>1. Same /\ Kept
    BY <1>0, <1>8 DEF StopBackend, Watched, configVars, buildVars, Building
  <2> QED
    BY <1>5, <1>8, <2>1 DEF WatcherStep, Building
<1>9. CASE SigInt \/ SigUsr \/ UNCHANGED vars
  BY <1>9 DEF SigInt, SigUsr, vars, configVars, buildVars, Building
<1>10. ASSUME NEW t \in HttpThreads, NEW p \in Callable, HttpCall(t, p) PROVE Same /\ Kept /\ Goes
  BY <1>10 DEF HttpCall, configVars, buildVars, Building
<1>11. ASSUME NEW t \in HttpThreads, HttpReturn(t) \/ HttpLeave(t) PROVE Same /\ Kept /\ Goes
  BY <1>11 DEF HttpReturn, HttpLeave, configVars, buildVars, Building
<1> QED
  BY <1>1, <1>2, <1>3, <1>4, <1>5, <1>6, <1>7, <1>8, <1>9, <1>10, <1>11
    DEF Next, MainStep, WatcherStep, Ended


(* The strengthening is kept by every step of a program that is as marked. *)
LEMMA StatisticsStep == IInv /\ StatisticsAsBuilt /\ [Next]_vars => StatisticsAsBuilt'
<1> SUFFICES ASSUME IInv, StatisticsAsBuilt, [Next]_vars PROVE StatisticsAsBuilt'
  OBVIOUS
<1>1. TypeOK
  BY DEF IInv
<1>2. CASE ~ (\E c \in Coins : BuildBackend(c)) /\ ~ (\E i \in Instances : BuildInstance(i))
  <2>1. /\ UNCHANGED <<algorithm, links, knownAlgo, meta, statistic>>
        /\ \A i \in Instances : life'[Instance(i)] = "built" => life[Instance(i)] = "built"
        /\ main \notin Building \ {"instances"} => main' \notin Building \ {"instances"}
        /\ main \in Building \ {"backends", "instances"} =>
             main' \in Building \ {"instances"}
        /\ main = "backends" /\ main' # "backends" => todo = {}
        /\ main' = "backends" => \/ main = "backends" /\ todo' = todo
                                 \/ todo' = Coins
    BY <1>1, <1>2, OtherStep
  <2> QED
    BY <2>1 DEF StatisticsAsBuilt, ServersOfAlgorithms, CoinsServed, InstancesLinked,
      Building
<1>3. ASSUME NEW c \in Coins, BuildBackend(c) PROVE StatisticsAsBuilt'
  <2> DEFINE a == algorithm[c]
             server == IF knownAlgo[a] = None THEN c ELSE knownAlgo[a]
  <2>1. main = "backends" /\ main' = main /\ UNCHANGED <<algorithm, links>>
    BY <1>3 DEF BuildBackend, Fail, At, Aside, configVars
  <2>2. \A i \in Instances : life'[Instance(i)] # "built"
    <3>1. \A i \in Instances : life[Instance(i)] # "built"
      BY <2>1 DEF StatisticsAsBuilt, InstancesLinked, Building
    <3>2. CASE Fail
      BY <3>1, <3>2, BecomeIs, PartNames DEF Fail
    <3>3. CASE Become({Dispatcher(c), Backend(c), AlgoServer(server)}, "built")
      <4>1. \A i \in Instances :
              Instance(i) \notin {Dispatcher(c), Backend(c), AlgoServer(server)}
        BY NamesDiffer
      <4> QED
        BY <3>1, <3>3, <4>1, BecomeIs, PartNames
    <3> QED
      BY <1>3, <3>2, <3>3 DEF BuildBackend
  <2>3. CASE UNCHANGED <<knownAlgo, meta, todo>>
    BY <2>1, <2>2, <2>3 DEF StatisticsAsBuilt, ServersOfAlgorithms, CoinsServed, InstancesLinked
  <2>4. CASE /\ knownAlgo' = [knownAlgo EXCEPT ![a] = server]
             /\ meta' = [meta EXCEPT ![c] = server]
             /\ todo' = todo \ {c}
    <3>1. a \in Algorithms /\ server \in Coins /\ algorithm[server] = a /\ server # None
      BY <1>1, NamesAssumption DEF TypeOK, StatisticsAsBuilt, ServersOfAlgorithms
    <3>2. ServersOfAlgorithms'
      <4>1. \A b \in Algorithms : knownAlgo'[b] = IF b = a THEN server ELSE knownAlgo[b]
        BY <1>1, <2>4 DEF TypeOK
      <4>2. \A d \in Coins : meta'[d] = IF d = c THEN server ELSE meta[d]
        BY <1>1, <2>4 DEF TypeOK
      <4>3. \A d \in Coins : algorithm[d] \in Algorithms
        BY <1>1 DEF TypeOK
      <4>4. ASSUME NEW d \in Coins, meta'[d] # None PROVE meta'[d] = knownAlgo'[algorithm[d]]
        <5>1. CASE d = c
          BY <3>1, <4>1, <4>2, <5>1
        <5>2. CASE d # c
          <6>1. meta[d] # None /\ meta[d] = knownAlgo[algorithm[d]]
            BY <4>2, <4>4, <5>2 DEF StatisticsAsBuilt, ServersOfAlgorithms
          <6>2. algorithm[d] = a => server = knownAlgo[a]
            BY <6>1
          <6> QED
            BY <4>1, <4>2, <4>3, <5>2, <6>1, <6>2
        <5> QED
          BY <5>1, <5>2
      <4>5. ASSUME NEW b \in Algorithms, knownAlgo'[b] # None PROVE algorithm[knownAlgo'[b]] = b
        BY <3>1, <4>1, <4>5 DEF StatisticsAsBuilt, ServersOfAlgorithms
      <4> QED
        BY <2>1, <4>4, <4>5 DEF ServersOfAlgorithms
    <3>3. CoinsServed'
      BY <1>1, <2>1, <2>4, <3>1 DEF TypeOK, StatisticsAsBuilt, CoinsServed, Building
    <3> QED
      BY <2>2, <3>2, <3>3 DEF StatisticsAsBuilt, InstancesLinked
  <2> QED
    BY <1>3, <2>3, <2>4 DEF BuildBackend, Fail, buildVars
<1>4. ASSUME NEW i \in Instances, BuildInstance(i) PROVE StatisticsAsBuilt'
  <2>1. main = "instances" /\ main' = main /\ UNCHANGED <<algorithm, links, knownAlgo, meta>>
    BY <1>4 DEF BuildInstance, Fail, At, Aside, configVars, buildVars
  <2>2. ServersOfAlgorithms' /\ CoinsServed'
    BY <2>1 DEF StatisticsAsBuilt, ServersOfAlgorithms, CoinsServed, Building
  <2>3. CASE Fail
    <3>1. \A j \in Instances : life'[Instance(j)] = "built" => life[Instance(j)] = "built"
      BY <2>3, BecomeIs, PartNames DEF Fail
    <3>2. statistic' = statistic
      BY <2>3 DEF Fail, buildVars
    <3> QED
      BY <2>1, <2>2, <3>1, <3>2 DEF StatisticsAsBuilt, InstancesLinked
  <2>4. CASE ~Fail
    <3>1. /\ UnknownCoin \notin links[i] /\ Agree(links[i])
          /\ Become({Instance(i)}, "built")
          /\ IF links[i] = {} THEN UNCHANGED statistic
             ELSE \E c \in links[i] : statistic' = [statistic EXCEPT ![i] = meta[c]]
      BY <1>4, <2>4 DEF BuildInstance
    <3>2. links[i] \subseteq Coins
      BY <1>1, <3>1 DEF TypeOK
    <3>3. \A c, d \in links[i] : meta[c] = meta[d]
      <4>1. \A c \in links[i] : meta[c] = knownAlgo[algorithm[c]]
        BY <2>1, <3>2 DEF StatisticsAsBuilt, CoinsServed, ServersOfAlgorithms, Building
      <4> QED
        BY <3>1, <4>1 DEF Agree
    <3>4. ASSUME NEW j \in Instances, life'[Instance(j)] = "built"
          PROVE  \A c \in links[j] : c \in Coins /\ statistic'[j] = meta[c]
      <4>1. CASE j = i
        BY <1>1, <3>1, <3>2, <3>3, <4>1 DEF TypeOK
      <4>2. CASE j # i
        <5>1. life[Instance(j)] = "built"
          BY <3>1, <3>4, <4>2, BecomeIs, PartNames, NamesDiffer
        <5>2. statistic'[j] = statistic[j]
          BY <1>1, <3>1, <4>2 DEF TypeOK
        <5> QED
          BY <5>1, <5>2 DEF StatisticsAsBuilt, InstancesLinked
      <4> QED
        BY <4>1, <4>2
    <3> QED
      BY <2>1, <2>2, <3>4 DEF StatisticsAsBuilt, InstancesLinked, Building
  <2> QED
    BY <2>3, <2>4
<1> QED
  BY <1>2, <1>3, <1>4

(* The backends linked to one instance, and the instance, report to one    *)
(* and the same statistic server of their algorithm (main.cpp:318-334 and  *)
(* 371-383).                                                               *)
THEOREM SharedStatisticHolds == Spec => []SharedStatistic
<1>1. Init => StatisticsAsBuilt
  BY PartNames DEF Init, StatisticsAsBuilt, ServersOfAlgorithms, CoinsServed, InstancesLinked,
    Building
<1>2. IInv /\ StatisticsAsBuilt /\ [Next]_vars => StatisticsAsBuilt'
  BY StatisticsStep
<1>3. IInv /\ StatisticsAsBuilt => SharedStatistic
  <2> SUFFICES ASSUME IInv, StatisticsAsBuilt,
                      NEW i \in Instances, life[Instance(i)] = "built", NEW c \in links[i]
               PROVE  meta[c] = statistic[i] /\ algorithm[meta[c]] = algorithm[c]
    BY DEF SharedStatistic
  <2>1. c \in Coins /\ statistic[i] = meta[c] /\ main \notin Building \ {"instances"}
    BY DEF StatisticsAsBuilt, InstancesLinked
  <2>2. meta[c] # None
    BY <2>1 DEF StatisticsAsBuilt, CoinsServed, Building
  <2>3. algorithm[c] \in Algorithms
    BY <2>1 DEF IInv, TypeOK
  <2> QED
    BY <2>1, <2>2, <2>3 DEF StatisticsAsBuilt, ServersOfAlgorithms
<1> QED
  BY <1>1, <1>2, <1>3, InvHolds, PTL DEF Spec

-----------------------------------------------------------------------------
\* Once something of a stage is to be started it is built; once it is
\* started it runs until the signal thread stops it.
AfterWorkers == {"startUsers"} \cup AfterUsers
AfterPoll == {"http"} \cup AfterHttp
AfterMonitor == AfterHttp \ {"monitor"}
CoinsBuilt == {"instances", "startWorkers", "startUsers", "startBackends"}

UsersStaged ==
  /\ main \in {"smtp", "coins", "backends", "instances", "startWorkers", "startUsers"} =>
       life[Users] = "built"
  /\ main \in AfterUsers => life[Users] \in {"running", "stopped"}
WorkersStaged ==
  /\ main \in {"instances", "startWorkers"} => life[Workers] = "built"
  /\ main \in AfterWorkers /\ watcher \notin WorkersStopped => life[Workers] = "running"
BackendsStaged == \A c \in Coins :
  /\ main \in CoinsBuilt \/ (main = "backends" /\ c \notin todo) => life[Backend(c)] = "built"
  /\ main \in AfterBackends => life[Backend(c)] \in {"running", "stopped"}
AlgoStaged == \A p \in AlgoServers :
  /\ main \notin AfterAlgo => life[p] = "built"
  /\ main \in AfterAlgo => life[p] \in {"running", "stopped"}
PollStaged == \A c \in Coins :
  /\ main \in CoinsBuilt \cup {"startAlgo", "poll"} \/ (main = "backends" /\ c \notin todo) =>
       life[Dispatcher(c)] = "built"
  /\ main \in AfterPoll /\ watcher # "left" => life[Dispatcher(c)] = "running"
HttpStaged ==
  /\ main \notin AfterHttp => life[Http] = "absent"
  /\ main \in AfterHttp /\ watcher \notin HttpStopped => life[Http] \in {"built", "running"}
  /\ watcher \in HttpStopped => life[Http] = "stopped"
MonitorStaged ==
  /\ main \notin AfterMonitor => life[Monitor] = "absent"
  /\ main \in AfterMonitor /\ watcher # "left" => life[Monitor] = "running"
Staged == /\ UsersStaged /\ WorkersStaged /\ BackendsStaged /\ AlgoStaged /\ PollStaged
          /\ HttpStaged /\ MonitorStaged

(* A step of a program that runs keeps it so.                              *)
LEMMA StagedStep ==
  ASSUME TypeOK, Marked, Staged, [Next]_vars, process' \notin {"failed", "exited"}
  PROVE  Staged'
<1> USE PartNames, NamesDiffer, ServersAre
<1> USE DEF Staged, UsersStaged, WorkersStaged, BackendsStaged, AlgoStaged, PollStaged,
  HttpStaged, MonitorStaged, Marked, WatcherAsMarked, WorkersStopped, HttpStopped, AfterAlgo,
  AfterUsers, AfterBackends, AfterHttp, AfterWorkers, AfterPoll, AfterMonitor, CoinsBuilt
<1>1. CASE LoadConfig
  BY <1>1 DEF LoadConfig, Fail, At, Aside, configVars, httpVars, signalVars, buildVars,
    Callable, AlgoServers
<1>2. CASE EnableSmtp
  BY <1>2 DEF EnableSmtp, Fail, At, Aside, configVars, httpVars, signalVars, buildVars,
    Callable, AlgoServers
<1>3. CASE Built
  BY <1>3 DEF Built, At, Aside, configVars, httpVars, signalVars, buildVars, Callable,
    AlgoServers
<1>4. CASE InstallHandlers
  <2>1. \A p \in Parts : life'[p] = life[p]
    BY <1>4 DEF InstallHandlers, Start, Become
  <2> QED
    BY <1>4, <2>1 DEF InstallHandlers, Start, At, configVars, httpVars, signalVars, buildVars,
      Callable, AlgoServers
<1>5. CASE StartWatcher
  BY <1>5 DEF StartWatcher, At, configVars, httpVars, signalVars, buildVars, Callable,
    AlgoServers
<1>6. CASE JoinMonitor
  BY <1>6 DEF JoinMonitor, At, Aside, configVars, httpVars, signalVars, buildVars, Callable,
    AlgoServers
<1>7. CASE BuildUsers
  <2>1. \A p \in Parts : life'[p] = IF p \in {Users} THEN "built" ELSE life[p]
    BY <1>7, BecomeIs DEF BuildUsers, At, Aside, configVars, buildVars, httpVars, signalVars
  <2> QED
    BY <1>7, <2>1 DEF BuildUsers, At, Aside, configVars, buildVars, httpVars, signalVars,
      Callable, AlgoServers
<1>8. CASE LookUpCoins
  <2>1. \A p \in Parts : life'[p] = IF p \in {Prices} THEN "built" ELSE life[p]
    BY <1>8, BecomeIs DEF LookUpCoins, Fail, At, Aside, configVars, buildVars, httpVars,
      signalVars
  <2> QED
    BY <1>8, <2>1 DEF LookUpCoins, Fail, At, Aside, configVars, buildVars, httpVars,
      signalVars, Callable, AlgoServers
<1>9. CASE BuildPool
  <2>1. UNCHANGED AlgoServers
    BY <1>9, BuildPoolIs DEF buildVars, AlgoServers
  <2> QED
    BY <1>9, <2>1, BuildPoolIs DEF configVars, httpVars, signalVars, Callable
<1>10. CASE StartWorkers
  <2>1. \A p \in Parts : life'[p] = IF p \in {Workers} THEN "running" ELSE life[p]
    BY <1>10, BecomeIs DEF StartWorkers, Start, At, Aside, configVars, buildVars, httpVars,
      signalVars
  <2> QED
    BY <1>10, <2>1 DEF StartWorkers, Start, At, Aside, configVars, buildVars, httpVars,
      signalVars, Callable, AlgoServers
<1>11. CASE StartUsers
  <2>1. \A p \in Parts : life'[p] = IF p \in {Users} THEN "running" ELSE life[p]
    BY <1>11, BecomeIs DEF StartUsers, Start, At, Aside, configVars, buildVars, httpVars,
      signalVars
  <2> QED
    BY <1>11, <2>1 DEF StartUsers, Start, At, Aside, configVars, buildVars, httpVars,
      signalVars, Callable, AlgoServers
<1>12. CASE StartBackends
  <2>1. \A p \in Parts : life'[p] = IF p \in {Backend(c) : c \in Coins} THEN "running"
                                    ELSE life[p]
    BY <1>12, BecomeIs DEF StartBackends, Start, At, Aside, configVars, buildVars, httpVars,
      signalVars
  <2> QED
    BY <1>12, <2>1 DEF StartBackends, Start, At, Aside, configVars, buildVars, httpVars,
      signalVars, Callable, AlgoServers
<1>13. CASE StartAlgo
  <2>1. \A p \in Parts : life'[p] = IF p \in AlgoServers THEN "running" ELSE life[p]
    BY <1>13, BecomeIs DEF StartAlgo, Start, At, Aside, configVars, buildVars, httpVars,
      signalVars
  <2> QED
    BY <1>13, <2>1 DEF StartAlgo, Start, At, Aside, configVars, buildVars, httpVars,
      signalVars, Callable, AlgoServers
<1>14. CASE Poll
  <2>1. \A p \in Parts : life'[p] = IF p \in {Dispatcher(c) : c \in Coins} THEN "running"
                                    ELSE life[p]
    BY <1>14, BecomeIs DEF Poll, Start, At, Aside, configVars, buildVars, httpVars, signalVars
  <2> QED
    BY <1>14, <2>1 DEF Poll, Start, At, Aside, configVars, buildVars, httpVars, signalVars,
      Callable, AlgoServers
<1>15. CASE StartMonitor
  <2>1. \A p \in Parts : life'[p] = IF p \in {Monitor} THEN "running" ELSE life[p]
    BY <1>15, BecomeIs DEF StartMonitor, Start, At, Aside, configVars, buildVars, httpVars,
      signalVars
  <2> QED
    BY <1>15, <2>1 DEF StartMonitor, Start, At, Aside, configVars, buildVars, httpVars,
      signalVars, Callable, AlgoServers
<1>16. CASE TestFlags \/ Dump \/ ClearFlag \/ Sleep \/ StopHttp
  BY <1>16 DEF TestFlags, Dump, ClearFlag, Sleep, StopHttp, Watch, Watched, configVars,
    buildVars, Callable, AlgoServers
<1>17. CASE JoinHttp
  <2>1. \A p \in Parts : life'[p] = IF p \in {Http} THEN "stopped" ELSE life[p]
    BY <1>17, BecomeIs DEF JoinHttp, Watch, Watched, configVars, buildVars
  <2> QED
    BY <1>17, <2>1 DEF JoinHttp, Watch, Watched, configVars, buildVars, Callable, AlgoServers
<1>18. CASE StopWorkers
  <2>1. \A p \in Parts : life'[p] = IF p \in {Workers} THEN "stopped" ELSE life[p]
    BY <1>18, BecomeIs DEF StopWorkers, Watch, Watched, configVars, buildVars
  <2> QED
    BY <1>18, <2>1 DEF StopWorkers, Watch, Watched, configVars, buildVars, Callable, AlgoServers
<1>19. CASE StopAlgo
  <2>1. \A p \in Parts : life'[p] = IF p \in AlgoServers THEN "stopped" ELSE life[p]
    BY <1>19, BecomeIs DEF StopAlgo, Watch, Watched, configVars, buildVars
  <2> QED
    BY <1>19, <2>1 DEF StopAlgo, Watch, Watched, configVars, buildVars, Callable, AlgoServers
<1>20. CASE StopUsers
  <2>1. \A p \in Parts : life'[p] = IF p \in {Users} THEN "stopped" ELSE life[p]
    BY <1>20, BecomeIs DEF StopUsers, Watch, Watched, configVars, buildVars
  <2> QED
    BY <1>20, <2>1 DEF StopUsers, Watch, Watched, configVars, buildVars, Callable, AlgoServers
<1>21. CASE StopMonitor
  <2>1. \A p \in Parts : life'[p] = IF p \in ({Monitor} \cup {Dispatcher(c) : c \in Coins})
                                    THEN "stopped"
                                    ELSE life[p]
    BY <1>21, BecomeIs DEF StopMonitor, Watch, Watched, configVars, buildVars
  <2> QED
    BY <1>21, <2>1 DEF StopMonitor, Watch, Watched, configVars, buildVars, Callable, AlgoServers
<1>22. ASSUME NEW c \in Coins, StopBackend(c) PROVE Staged'
  <2>1. \A p \in Parts : life'[p] = IF p \in {Backend(c)} THEN "stopped" ELSE life[p]
    BY <1>22, BecomeIs DEF StopBackend, Watch, Watched, configVars, buildVars
  <2> QED
    BY <1>22, <2>1 DEF StopBackend, Watch, Watched, configVars, buildVars, Callable, AlgoServers
<1>23. CASE SigInt \/ SigUsr \/ UNCHANGED vars
  BY <1>23 DEF SigInt, SigUsr, vars, configVars, buildVars, httpVars, signalVars, Callable,
    AlgoServers
<1>24. ASSUME NEW t \in HttpThreads, NEW q \in Callable, HttpCall(t, q) PROVE Staged'
  BY <1>24 DEF TypeOK, HttpCall, Callable, AlgoServers, configVars, buildVars, signalVars
<1>25. ASSUME NEW t \in HttpThreads, HttpReturn(t) \/ HttpLeave(t) PROVE Staged'
  BY <1>25 DEF TypeOK, HttpReturn, HttpLeave, Callable, AlgoServers, configVars, buildVars,
    signalVars
<1>26. CASE StartHttp
  <2>1. \A p \in Parts : p # Http => life'[p] = life[p]
    BY <1>26, BecomeIs DEF StartHttp
  <2>2. /\ main = "http" /\ main' = "monitor"
        /\ UNCHANGED <<todo, buildVars, configVars, quit, calling, watcher>>
    BY <1>26 DEF StartHttp, At
  <2>3. watcher = "none" /\ AlgoServers' = AlgoServers
    BY <2>2 DEF buildVars, AlgoServers
  <2>4. \/ life'[Http] = "running" /\ httpThread' = [t \in HttpThreads |-> "loop"]
        \/ life'[Http] = "built" /\ httpThread' = httpThread
    BY <1>26, BecomeIs DEF StartHttp
  <2> QED
    BY <2>1, <2>2, <2>3, <2>4
<1>27. ASSUME NEW i \in Instances, BuildInstance(i) PROVE Staged'
  <2>1. \A p \in Parts : life'[p] = IF p \in {Instance(i)} THEN "built" ELSE life[p]
    BY <1>27, BecomeIs DEF BuildInstance, Fail
  <2> QED
    BY <1>27, <2>1 DEF BuildInstance, Fail, Callable, AlgoServers, At, Aside, configVars,
      httpVars, signalVars
<1>28. ASSUME NEW c \in Coins, BuildBackend(c) PROVE Staged'
  <2> DEFINE server == IF knownAlgo[algorithm[c]] = None THEN c ELSE knownAlgo[algorithm[c]]
  <2>1. /\ Become({Dispatcher(c), Backend(c), AlgoServer(server)}, "built")
        /\ knownAlgo' = [knownAlgo EXCEPT ![algorithm[c]] = server]
        /\ UNCHANGED <<main, statistic, configVars, httpVars, signalVars, watcher>>
        /\ main = "backends" /\ todo' = todo \ {c}
    BY <1>28 DEF BuildBackend, Fail, Aside, At
  <2>2. server \in Coins
    BY DEF TypeOK
  <2>3. \A p \in Parts : life'[p] = IF p \in {Dispatcher(c), Backend(c), AlgoServer(server)}
                                    THEN "built" ELSE life[p]
    BY <2>1, BecomeIs
  <2>4. AlgoServers' \subseteq AlgoServers \cup {AlgoServer(server)}
    BY <2>1, NamesAssumption DEF TypeOK, AlgoServers
  <2> HIDE DEF server
  <2>5. AlgoStaged' /\ UsersStaged' /\ WorkersStaged' /\ HttpStaged' /\ MonitorStaged'
    BY <2>1, <2>2, <2>3, <2>4
  <2>6. BackendsStaged' /\ PollStaged'
    BY <2>1, <2>2, <2>3
  <2> QED
    BY <2>5, <2>6
<1>29. ~Destroy
  BY DEF Destroy
<1> HIDE DEF Staged
<1> QED
  BY <1>1, <1>2, <1>3, <1>4, <1>5, <1>6, <1>7, <1>8, <1>9, <1>10, <1>11, <1>12, <1>13, <1>14,
    <1>15, <1>16, <1>17, <1>18, <1>19, <1>20, <1>21, <1>22, <1>23, <1>24, <1>25, <1>26,
    <1>27, <1>28, <1>29
    DEF Next, MainStep, WatcherStep, Ended

(* A program that has ended stays as it is.                                *)
LEMMA EndedForGood ==
  ASSUME [Next]_vars, process # "up"
  PROVE  UNCHANGED vars
  BY DEF Next, MainStep, WatcherStep, Ended, At, Watch, LoadConfig, BuildUsers,
    EnableSmtp, LookUpCoins, BuildBackend, BuildPool, BuildInstance, Built, StartWorkers,
    StartUsers, StartBackends, StartAlgo, Poll, Start, StartHttp, StartMonitor, InstallHandlers,
    StartWatcher, JoinMonitor, Destroy, TestFlags, Dump, ClearFlag, Sleep, StopHttp, JoinHttp,
    StopWorkers, StopBackend, StopAlgo, StopUsers, StopMonitor, HttpCall, HttpReturn,
    HttpLeave, SigInt, SigUsr

(* How far the parts are, while the program has not ended by itself.       *)
StagedWhileUp == process \notin {"failed", "exited"} => Staged

LEMMA StagedHolds == Spec => []StagedWhileUp
<1>1. Init => StagedWhileUp
  <2> SUFFICES ASSUME Init PROVE Staged
    BY DEF StagedWhileUp
  <2>1. \A p \in Parts : life[p] = "absent"
    BY DEF Init
  <2>2. AlgoServers = {}
    BY DEF Init, AlgoServers
  <2> QED
    BY <2>1, <2>2, PartNames DEF Init, Staged, UsersStaged, WorkersStaged, BackendsStaged,
      AlgoStaged, PollStaged, HttpStaged, MonitorStaged, WorkersStopped, HttpStopped, AfterAlgo,
      AfterUsers, AfterBackends, AfterHttp, AfterWorkers, AfterPoll, AfterMonitor, CoinsBuilt
<1>2. IInv /\ StagedWhileUp /\ [Next]_vars => StagedWhileUp'
  <2> SUFFICES ASSUME IInv, StagedWhileUp, [Next]_vars, process' \notin {"failed", "exited"}
               PROVE  Staged'
    BY DEF StagedWhileUp
  <2>1. TypeOK /\ (process \in {"up", "crashed", "killed"} => Marked)
    BY DEF IInv
  <2>2. process \notin {"failed", "exited"}
    BY EndedForGood DEF vars
  <2> QED
    BY <2>1, <2>2, StagedStep DEF StagedWhileUp, TypeOK
<1> QED
  BY <1>1, <1>2, InvHolds, PTL DEF Spec

-----------------------------------------------------------------------------
Served == Callable

(* A step that makes parts built, running or stopped moves none but them.  *)
LEMMA BecomeMoves ==
  ASSUME TypeOK, NEW parts, NEW state, Become(parts, state)
  PROVE  Life!Become(state) /\ Life!Moved \subseteq parts
  BY DEF TypeOK, Become, Life!Become, Life!Moved

LEMMA ServedParts ==
  /\ TypeOK  => Served  \subseteq Parts \ {Http}
  /\ TypeOK' => Served' \subseteq Parts \ {Http}
<1>1. TypeOK => Served \subseteq Parts \ {Http}
  BY PartNames, NamesDiffer, ServersAre DEF Served, Callable
<1>2. ASSUME TypeOK' PROVE AlgoServers' \subseteq {AlgoServer(c) : c \in Coins}
  BY <1>2, NamesAssumption DEF TypeOK, AlgoServers
<1>3. TypeOK' => Served' \subseteq Parts \ {Http}
  BY <1>2, PartNames, NamesDiffer DEF Served, Callable
<1> QED
  BY <1>1, <1>3

(* The same parts are called while the statistic servers are the same.     *)
LEMMA ServedStays == UNCHANGED knownAlgo => UNCHANGED Served
  BY DEF Served, Callable, AlgoServers

LEMMA BuildInOrder ==
  ASSUME TypeOK, TypeOK', NEW parts, Become(parts, "built"),
         \A p \in Parts \cap parts : life[p] \in {"absent", "built"},
         Served \subseteq Served', life[Http] = "running" => UNCHANGED Served
  PROVE  Life!Build
<1>1. Life!Become("built") /\ Life!Moved \subseteq parts
  BY BecomeMoves
<1>2. Served' \subseteq Parts \ {Http}
  BY ServedParts
<1>3. \A p \in Life!Moved : life[p] = "absent" /\ life'[p] = "built"
  BY <1>1 DEF Life!Moved, Become
<1>4. life' \in [Parts -> {"absent", "built", "running", "stopped", "destroyed"}]
  BY DEF TypeOK
<1> QED
  BY <1>2, <1>3, <1>4 DEF Life!Build, Served

LEMMA StartInOrder ==
  ASSUME TypeOK, NEW parts, Mining \notin parts, Become(parts, "running"), UNCHANGED knownAlgo,
         \A p \in Parts \cap parts :
           life[p] = "built" \/ (p \in {Http, Monitor} /\ life[p] = "absent"),
         Http \in parts => \A p \in Served : Life!Stands(p)
  PROVE  Life!Start
<1>1. Life!Become("running") /\ Life!Moved \subseteq parts /\ Life!Moved \subseteq Parts
  BY BecomeMoves DEF Life!Moved
<1> QED
  BY <1>1, ServedStays DEF Life!Start, Served

LEMMA StopInOrder ==
  ASSUME TypeOK, NEW parts, Mining \notin parts, Become(parts, "stopped"), UNCHANGED knownAlgo,
         \A p \in Parts \cap parts : life[p] = "running",
         life[Http] # "running" \/ parts \cap Served = {}
  PROVE  Life!Stop
<1>1. Life!Become("stopped") /\ Life!Moved \subseteq parts /\ Life!Moved \subseteq Parts
  BY BecomeMoves DEF Life!Moved
<1> QED
  BY <1>1, ServedStays DEF Life!Stop, Served

LEMMA DestroyInOrder ==
  ASSUME TypeOK, Become(Parts \ Known("absent"), "destroyed"), UNCHANGED knownAlgo,
         \A p \in Parts \ {Mining} : life[p] # "running"
  PROVE  Life!Destroy
  BY ServedStays DEF Life!Destroy, Become, Known, Served

(* Every step moves the parts in order, or leaves them as they are.        *)
LEMMA InOrderStep ==
  IInv /\ NotStarted /\ NothingRunsWhenDestroyed /\ StagedWhileUp /\ [Next]_vars
    => [Life!Next]_(Life!vars)
<1> SUFFICES ASSUME IInv, NotStarted, NothingRunsWhenDestroyed, StagedWhileUp, [Next]_vars
             PROVE  [Life!Next]_(Life!vars)
  OBVIOUS
<1>1. TypeOK /\ TypeOK'
  BY TypeStep DEF IInv
<1>2. ASSUME UNCHANGED life, UNCHANGED knownAlgo PROVE UNCHANGED Life!vars
  BY <1>2, ServedStays DEF Life!vars, Served
<1>3. ASSUME process = "up" PROVE Marked /\ Staged
  BY <1>3 DEF IInv, StagedWhileUp
<1>4. ASSUME process = "up", main \in Building, Fail PROVE Life!Destroy
  BY <1>1, <1>4, DestroyInOrder DEF NotStarted, Fail, buildVars
<1>5. ASSUME process = "up", main \in Building, UNCHANGED knownAlgo, NEW parts,
             Mining \notin parts, Become(parts, "built")
      PROVE  Life!Build
  BY <1>1, <1>5, BuildInOrder, ServedStays DEF NotStarted
<1> USE PartNames, NamesDiffer
<1>6. CASE LoadConfig \/ BuildUsers \/ EnableSmtp \/ LookUpCoins \/ Built
  BY <1>2, <1>4, <1>5, <1>6 DEF LoadConfig, BuildUsers, EnableSmtp, LookUpCoins, Built, At,
    Building, buildVars, Life!Next
<1>7. ASSUME NEW c \in Coins, BuildBackend(c) PROVE Life!Next
  <2>1. process = "up" /\ main \in Building
    BY <1>7 DEF BuildBackend, At, Building
  <2> DEFINE server == IF knownAlgo[algorithm[c]] = None THEN c ELSE knownAlgo[algorithm[c]]
  <2>2. CASE ~Fail
    <3>1. /\ Become({Dispatcher(c), Backend(c), AlgoServer(server)}, "built")
          /\ knownAlgo' = [knownAlgo EXCEPT ![algorithm[c]] = server]
      BY <1>7, <2>2 DEF BuildBackend
    <3>2. AlgoServers \subseteq AlgoServers'
      BY <1>1, <3>1, NamesAssumption DEF TypeOK, AlgoServers
    <3>3. Served \subseteq Served'
      BY <3>2 DEF Served, Callable
    <3>4. \A p \in Parts \ {Mining} : life[p] \in {"absent", "built"}
      BY <2>1 DEF NotStarted
    <3>5. Mining \notin {Dispatcher(c), Backend(c), AlgoServer(server)}
      OBVIOUS
    <3>6. life[Http] # "running"
      BY <3>4
    <3> HIDE DEF server
    <3> QED
      BY <1>1, <3>1, <3>3, <3>4, <3>5, <3>6, BuildInOrder DEF Life!Next
  <2> QED
    BY <1>4, <2>1, <2>2 DEF Life!Next
<1>8. ASSUME NEW i \in Instances, BuildInstance(i) PROVE Life!Next
  BY <1>4, <1>5, <1>8 DEF BuildInstance, At, Building, Life!Next
<1>9. CASE StartWorkers \/ StartUsers \/ StartBackends \/ StartAlgo \/ Poll \/ StartMonitor
  <2>1. /\ process = "up" /\ UNCHANGED knownAlgo
        /\ \E parts \in SUBSET (Parts \ {Http, Mining}) :
             /\ Become(parts, "running")
             /\ \A p \in parts : life[p] = "built" \/ (p = Monitor /\ life[p] = "absent")
    <3> USE <1>1, <1>3, ServersAre DEF Start, At, buildVars, Staged, CoinsBuilt
    <3>1. CASE StartWorkers
      BY <3>1 DEF StartWorkers, WorkersStaged
    <3>2. CASE StartUsers
      BY <3>2 DEF StartUsers, UsersStaged
    <3>3. CASE StartBackends
      BY <3>3 DEF StartBackends, BackendsStaged
    <3>4. CASE StartAlgo
      BY <3>4 DEF StartAlgo, AlgoStaged, AfterAlgo
    <3>5. CASE Poll
      BY <3>5 DEF Poll, PollStaged
    <3>6. CASE StartMonitor
      BY <3>6 DEF StartMonitor, MonitorStaged, AfterMonitor, AfterHttp
    <3> QED
      BY <1>9, <3>1, <3>2, <3>3, <3>4, <3>5, <3>6
  <2> QED
    BY <1>1, <2>1, StartInOrder DEF Life!Next
<1>10. CASE InstallHandlers
  <2>1. UNCHANGED life
    BY <1>1, <1>10 DEF InstallHandlers, Start, Become, TypeOK
  <2> QED
    BY <1>2, <1>10, <2>1 DEF InstallHandlers, Start, buildVars
<1>11. CASE StartHttp
  <2>1. process = "up" /\ main = "http" /\ watcher = "none" /\ UNCHANGED knownAlgo
    BY <1>3, <1>11 DEF StartHttp, At, buildVars, Marked, WatcherAsMarked
  <2>2. life[Http] = "absent"
    BY <1>3, <2>1 DEF Staged, HttpStaged, AfterHttp
  <2>3. ASSUME NEW p \in Served PROVE Life!Stands(p)
    BY <1>3, <2>1 DEF Served, Callable, Marked, UsersAsMarked, BackendsAsMarked, AlgoAsMarked,
      MiningAsMarked, AfterUsers, AfterBackends, AfterAlgo, WorkersStopped, Life!Stands
  <2>4. CASE Become({Http}, "running")
    BY <1>1, <2>1, <2>2, <2>3, <2>4, StartInOrder DEF Life!Next
  <2>5. CASE Become({Http}, "built")
    BY <1>1, <2>1, <2>2, <2>5, BuildInOrder, ServedStays DEF Life!Next
  <2> QED
    BY <1>11, <2>4, <2>5 DEF StartHttp
<1>12. CASE StartWatcher \/ JoinMonitor
  BY <1>2, <1>12 DEF StartWatcher, JoinMonitor, buildVars
<1>13. CASE Destroy
  <2>1. \A p \in Parts \ {Mining} : life[p] # "running"
    BY <1>13 DEF Destroy, At, NothingRunsWhenDestroyed, Known
  <2> QED
    BY <1>1, <1>13, <2>1, DestroyInOrder DEF Destroy, buildVars, Life!Next
<1>14. CASE TestFlags \/ Dump \/ ClearFlag \/ Sleep \/ StopHttp
  BY <1>2, <1>14 DEF TestFlags, Dump, ClearFlag, Sleep, StopHttp, Watched, buildVars
<1>15. ASSUME \/ JoinHttp \/ StopWorkers \/ StopAlgo \/ StopUsers \/ StopMonitor
              \/ \E c \in Coins : StopBackend(c)
       PROVE  Life!Next
  <2>1. process = "up" /\ UNCHANGED knownAlgo /\ watcher # "none"
    BY <1>15 DEF JoinHttp, StopWorkers, StopAlgo, StopUsers, StopMonitor, StopBackend, Watch,
      Watched, buildVars
  <2>2. main \in {"join", "destroy", "return"} /\ Marked /\ Staged
    BY <1>3, <2>1 DEF Marked, WatcherAsMarked
  <2>3. watcher \in HttpStopped => life[Http] # "running"
    BY <2>2 DEF Marked, HttpAsMarked
  <2> USE <1>1, <2>2, ServersAre DEF Watch, Marked, Staged, HttpStopped, WorkersStopped
  <2>4. ASSUME NEW parts \in SUBSET (Parts \ {Mining}), Become(parts, "stopped"),
               \A p \in parts : life[p] = "running", watcher \in HttpStopped
        PROVE  Life!Next
    BY <2>1, <2>3, <2>4, StopInOrder DEF Life!Next
  <2>5. CASE JoinHttp
    <3>1. {Http} \cap Served = {}
      BY ServedParts
    <3>2. Become({Http}, "stopped") /\ life[Http] = "running"
      BY <2>5 DEF JoinHttp, WatcherAsMarked
    <3> QED
      BY <2>1, <3>1, <3>2, StopInOrder DEF Life!Next
  <2>6. CASE StopWorkers
    BY <2>4, <2>6 DEF StopWorkers, WorkersStaged, AfterWorkers, AfterUsers, AfterAlgo
  <2>7. ASSUME NEW c \in Coins, StopBackend(c) PROVE Life!Next
    <3>1. Become({Backend(c)}, "stopped") /\ life[Backend(c)] = "running"
      BY <2>7 DEF StopBackend, BackendsAsMarked, AfterBackends, AfterAlgo
    <3> QED
      BY <2>4, <2>7, <3>1 DEF StopBackend
  <2>8. CASE StopAlgo
    <3>1. Become(AlgoServers, "stopped") /\ \A p \in AlgoServers : life[p] = "running"
      BY <2>8 DEF StopAlgo, AlgoAsMarked, AfterAlgo
    <3> QED
      BY <2>4, <2>8, <3>1 DEF StopAlgo
  <2>9. CASE StopUsers
    <3>1. Become({Users}, "stopped") /\ life[Users] = "running"
      BY <2>9 DEF StopUsers, UsersAsMarked, AfterUsers, AfterAlgo
    <3> QED
      BY <2>4, <2>9, <3>1 DEF StopUsers
  <2>10. CASE StopMonitor
    <3> DEFINE polled == {Monitor} \cup {Dispatcher(c) : c \in Coins}
    <3>1. Become(polled, "stopped") /\ \A p \in polled : life[p] = "running"
      BY <2>10 DEF StopMonitor, MonitorStaged, PollStaged, AfterMonitor, AfterPoll, AfterHttp
    <3>2. polled \in SUBSET (Parts \ {Mining})
      OBVIOUS
    <3> HIDE DEF polled
    <3> QED
      BY <2>4, <2>10, <3>1, <3>2 DEF StopMonitor
  <2> QED
    BY <1>15, <2>5, <2>6, <2>7, <2>8, <2>9, <2>10
<1>16. CASE SigInt \/ SigUsr \/ UNCHANGED vars
  BY <1>2, <1>16 DEF SigInt, SigUsr, vars, buildVars
<1>17. ASSUME NEW t \in HttpThreads, NEW p, HttpCall(t, p) \/ HttpReturn(t) \/ HttpLeave(t)
       PROVE  UNCHANGED Life!vars
  BY <1>2, <1>17 DEF HttpCall, HttpReturn, HttpLeave, buildVars
<1>18. ASSUME NEW t \in HttpThreads, HttpReturn(t) \/ HttpLeave(t) PROVE UNCHANGED Life!vars
  BY <1>2, <1>18 DEF HttpReturn, HttpLeave, buildVars
<1>19. CASE BuildPool
  <2>1. life[Mining] = "absent" /\ life[Workers] \in {"absent", "built"} /\ life[Http] # "running"
    BY <1>1, <1>3, <1>19, BuildPoolIs DEF Marked, MiningAsMarked, NotStarted, Building
  <2>2. \A p \in Life!Moved :
          life[p] = "absent" /\ (life'[p] = "built" \/ (p \in {Mining} /\ life'[p] = "running"))
    BY <1>1, <1>19, <2>1, BuildPoolIs DEF Life!Moved
  <2>3. UNCHANGED Served
    BY <1>1, <1>19, BuildPoolIs, ServedStays DEF buildVars
  <2>4. Served' \subseteq Parts \ {Http}
    BY <1>1, ServedParts
  <2>5. life' \in [Parts -> {"absent", "built", "running", "stopped", "destroyed"}]
    BY <1>1, <1>19, BuildPoolIs
  <2>6. Life!Build
    BY <2>2, <2>3, <2>4, <2>5 DEF Life!Build, Served
  <2> QED
    BY <2>6 DEF Life!Next
<1> QED
  BY <1>6, <1>7, <1>8, <1>9, <1>10, <1>11, <1>12, <1>13, <1>14, <1>15, <1>16, <1>17, <1>18, <1>19
    DEF Next, MainStep, WatcherStep, Ended

(* Every part is built, started, stopped and destroyed in this order, each *)
(* at most once and whatever the signals do; the HTTP server is started    *)
(* when all that its handlers call runs, and nothing of that is stopped    *)
(* while it runs (main.cpp:211-457).  MiningStats, which they call, too,   *)
(* is built by then, and destroyed after the server has been stopped.      *)
THEOREM PartsLiveInOrderHolds == Spec => PartsLiveInOrder
<1>1. Init => Life!Init
  <2> SUFFICES ASSUME Init PROVE Life!Init
    OBVIOUS
  <2>1. TypeOK
    BY InitInv DEF IInv
  <2> QED
    BY <2>1, ServedParts DEF Init, Life!Init, Served
<1>2. Init => NotStarted
  BY DEF Init, NotStarted
<1>3. IInv /\ NotStarted /\ [Next]_vars => NotStarted'
  BY BuildingStep
<1> QED
  BY <1>1, <1>2, <1>3, InOrderStep, InvHolds, NothingRunsWhenDestroyedHolds, StagedHolds, PTL
    DEF Spec, PartsLiveInOrder, Life!Spec

(* That order is all that the handlers of the HTTP server need.            *)
LEMMA FrontStaysServed ==
  ASSUME Life!TypeOK, Life!FrontIsServed, [Life!Next]_(Life!vars)
  PROVE  Life!TypeOK' /\ Life!FrontIsServed'
<1> USE PartNames, NamesDiffer DEF Life!TypeOK, Life!FrontIsServed, Life!Stands, Served
<1>1. CASE UNCHANGED Life!vars
  BY <1>1 DEF Life!vars
<1>2. CASE Life!Build
  <2>1. Life!TypeOK' /\ \A p \in Parts : life[p] # "absent" => life'[p] = life[p]
    BY <1>2 DEF Life!Build, Life!Moved
  <2>2. life'[Http] = "running" => life[Http] = "running"
    BY <1>2 DEF Life!Build, Life!Moved
  <2> QED
    BY <1>2, <2>1, <2>2 DEF Life!Build
<1>3. CASE Life!Start
  <2>1. /\ Life!TypeOK' /\ \A p \in Parts : life[p] = "running" => life'[p] = "running"
        /\ life'[Mining] = life[Mining]
    BY <1>3 DEF Life!Start, Life!Become, Life!Moved
  <2>2. life'[Http] = "running" => life[Http] = "running" \/ Http \in Life!Moved
    BY <1>3 DEF Life!Start, Life!Become
  <2> QED
    BY <1>3, <2>1, <2>2 DEF Life!Start
<1>4. CASE Life!Stop
  <2>1. Life!TypeOK' /\ \A p \in Parts \ Life!Moved : life'[p] = life[p]
    BY <1>4 DEF Life!Stop, Life!Become
  <2>2. life'[Http] = "running" => life[Http] = "running"
    BY <1>4 DEF Life!Stop, Life!Become
  <2> QED
    BY <1>4, <2>1, <2>2 DEF Life!Stop
<1>5. CASE Life!Destroy
  BY <1>5 DEF Life!Destroy
<1> QED
  BY <1>1, <1>2, <1>3, <1>4, <1>5 DEF Life!Next

(* While the HTTP server runs, all that its handlers may call and main()   *)
(* starts run (389-411 and 438-448 of main.cpp), and MiningStats, which it *)
(* does not start, is there: it follows from PartLife alone.               *)
THEOREM HttpIsServedHolds == Spec => []Life!FrontIsServed
<1>1. Life!Init => Life!TypeOK /\ Life!FrontIsServed
  BY PartNames DEF Life!Init, Life!TypeOK, Life!FrontIsServed
<1>2. Life!Spec => []Life!FrontIsServed
  BY <1>1, FrontStaysServed, PTL DEF Life!Spec
<1> QED
  BY <1>2, PartsLiveInOrderHolds DEF PartsLiveInOrder

(* main() never goes back, and no statistic server is forgotten.           *)
LEMMA LifeGoesOn ==
  ASSUME IInv, [Next]_vars
  PROVE  /\ AlgoServers \subseteq AlgoServers'
         /\ main \in AfterHttp => main' \in AfterHttp
<1>1. TypeOK
  BY DEF IInv
<1>2. ASSUME NEW c \in Coins, BuildBackend(c), ~Fail
      PROVE  AlgoServers \subseteq AlgoServers' /\ main \notin AfterHttp
  <2> DEFINE server == IF knownAlgo[algorithm[c]] = None THEN c ELSE knownAlgo[algorithm[c]]
  <2>1. knownAlgo' = [knownAlgo EXCEPT ![algorithm[c]] = server] /\ main = "backends"
    BY <1>2 DEF BuildBackend, At
  <2> QED
    BY <1>1, <2>1, NamesAssumption DEF TypeOK, AlgoServers, AfterHttp
<1>3. ASSUME NEW i \in Instances, BuildInstance(i)
      PROVE  UNCHANGED knownAlgo /\ main \notin AfterHttp
  BY <1>3 DEF BuildInstance, Fail, At, AfterHttp, buildVars
<1>4. ASSUME MainStep, \A c \in Coins : BuildBackend(c) => Fail
      PROVE  UNCHANGED knownAlgo /\ (main \in AfterHttp => main' \in AfterHttp)
  <2>1. CASE LoadConfig \/ BuildUsers \/ EnableSmtp \/ LookUpCoins \/ BuildPool \/ Built
    BY <2>1 DEF LoadConfig, BuildUsers, EnableSmtp, LookUpCoins, BuildPool, Built, Fail, At,
      AfterHttp, buildVars
  <2>2. CASE StartWorkers \/ StartUsers \/ StartBackends \/ StartAlgo \/ Poll \/ StartHttp
    BY <2>2 DEF StartWorkers, StartUsers, StartBackends, StartAlgo, Poll, StartHttp, Start, At,
      AfterHttp, buildVars
  <2>3. CASE StartMonitor \/ InstallHandlers \/ StartWatcher \/ JoinMonitor \/ Destroy
    BY <2>3 DEF StartMonitor, InstallHandlers, StartWatcher, JoinMonitor, Destroy, Start,
      AfterHttp, buildVars
  <2>4. CASE \E c \in Coins : BuildBackend(c)
    BY <1>4, <2>4 DEF BuildBackend, Fail, buildVars
  <2> QED
    BY <1>3, <1>4, <2>1, <2>2, <2>3, <2>4 DEF MainStep
<1>5. ASSUME [Next]_vars, ~MainStep PROVE UNCHANGED <<knownAlgo, main>>
  BY <1>5 DEF Next, WatcherStep, TestFlags, Dump, ClearFlag, Sleep, StopHttp, JoinHttp,
    StopWorkers, StopBackend, StopAlgo, StopUsers, StopMonitor, Watched, HttpCall, HttpReturn,
    HttpLeave, SigInt, SigUsr, Ended, vars, buildVars
<1>6. UNCHANGED knownAlgo => AlgoServers \subseteq AlgoServers'
  BY DEF AlgoServers
<1> QED
  BY <1>2, <1>4, <1>5, <1>6 DEF AfterHttp

(* Whatever the handlers of the HTTP server may call runs from then on     *)
(* that this server is started, until after it has been stopped; or it is  *)
(* a MiningStats without a thread.                                         *)
RunsWhileServed ==
  main \in AfterHttp => \A p \in Callable :
    \/ life[p] = "running" \/ (p = Mining /\ life[p] = "built")
    \/ life[p] \in {"stopped", "destroyed"} /\ life[Http] \in {"stopped", "destroyed"}

LEMMA RunsWhileServedHolds == Spec => []RunsWhileServed
<1>1. Init => RunsWhileServed
  BY DEF Init, RunsWhileServed, AfterHttp
<1>2. ASSUME IInv, IInv', StagedWhileUp, StagedWhileUp', [Next]_vars, RunsWhileServed
      PROVE  RunsWhileServed'
  <2>1. CASE process # "up"
    <3>1. UNCHANGED vars
      BY <1>2, <2>1, EndedForGood
    <3> QED
      BY <1>2, <3>1 DEF vars, buildVars, RunsWhileServed, Callable, AlgoServers
  <2>2. CASE process' \notin {"failed", "exited"}
    <3>1. TypeOK' /\ Marked' /\ Staged'
      BY <1>2, <2>2 DEF IInv, TypeOK, StagedWhileUp
    <3>2. ASSUME NEW p, p \in Callable', main' \in AfterHttp
          PROVE  \/ life'[p] = "running" \/ (p = Mining /\ life'[p] = "built")
                 \/ life'[p] = "stopped" /\ watcher' \in HttpStopped
      <4> USE <3>1, <3>2 DEF AfterHttp, AfterAlgo, AfterBackends, AfterUsers, HttpStopped,
            WorkersStopped
      <4>1. CASE p = Users
        BY <4>1 DEF Marked, UsersAsMarked, Staged, UsersStaged
      <4>2. ASSUME NEW c \in Coins, p = Backend(c)
            PROVE  life'[p] = "running" \/ (life'[p] = "stopped" /\ watcher' \in HttpStopped)
        BY <4>2 DEF Marked, BackendsAsMarked, Staged, BackendsStaged
      <4>3. CASE p \in AlgoServers'
        BY <4>3 DEF Marked, AlgoAsMarked, Staged, AlgoStaged
      <4>4. CASE p = Mining
        BY <4>4 DEF Marked, MiningAsMarked
      <4> QED
        BY <4>1, <4>2, <4>3, <4>4 DEF Callable
    <3> QED
      BY <3>1, <3>2 DEF RunsWhileServed, Staged, HttpStaged
  <2>3. CASE process = "up" /\ process' \in {"failed", "exited"} /\ main \notin AfterHttp
    BY <1>2, <2>3, EndsBy DEF RunsWhileServed, AfterHttp
  <2>4. CASE process = "up" /\ process' \in {"failed", "exited"} /\ main \in AfterHttp
    <3>1. main = "destroy" /\ main' = "return"
      BY <1>2, <2>4, EndsBy DEF AfterHttp
    <3>2. Destroy
      <4>1. MainStep
        BY <1>2, <3>1 DEF Next, WatcherStep, TestFlags, Dump, ClearFlag, Sleep, StopHttp,
          JoinHttp, StopWorkers, StopBackend, StopAlgo, StopUsers, StopMonitor, Watched,
          HttpCall, HttpReturn, HttpLeave, SigInt, SigUsr, Ended, vars
      <4> QED
        BY <3>1, <4>1 DEF MainStep, At, LoadConfig, BuildUsers, EnableSmtp, LookUpCoins,
          BuildBackend, BuildPool, BuildInstance, Built, StartWorkers, StartUsers,
          StartBackends, StartAlgo, Poll, Start, StartHttp, StartMonitor, InstallHandlers,
          StartWatcher, JoinMonitor
    <3>3. Marked /\ Staged /\ TypeOK
      BY <1>2, <2>4 DEF IInv, StagedWhileUp
    <3>4. UNCHANGED Callable
      BY <3>2 DEF Destroy, buildVars, Callable, AlgoServers
    <3>5. Callable \subseteq Parts /\ Http \in Parts
      BY <3>3, ServedParts, PartNames DEF Served
    <3>6. watcher = "left"
      BY <3>1, <3>3 DEF Marked, WatcherAsMarked
    <3>7. life[Http] = "stopped"
      BY <3>3, <3>6 DEF Staged, HttpStaged, HttpStopped, WorkersStopped
    <3>8. \A p \in Callable : life[p] # "absent"
      BY <1>2, <3>1 DEF RunsWhileServed, AfterHttp
    <3> QED
      BY <3>2, <3>4, <3>5, <3>7, <3>8, BecomeIs DEF RunsWhileServed, Destroy, Known
  <2> QED
    BY <2>1, <2>2, <2>3, <2>4
<1> QED
  BY <1>1, <1>2, InvHolds, StagedHolds, PTL DEF Spec

-----------------------------------------------------------------------------
(* How a program ends says whether the signals had their handlers: only    *)
(* StopHttp may still crash it, and only if start() of the HTTP server     *)
(* failed.                                                                 *)
LEMMA EndsAsInterruptedStep ==
  ASSUME IInv, StagedWhileUp, EndsAsInterrupted, [Next]_vars
  PROVE  EndsAsInterrupted'
<1> USE DEF EndsAsInterrupted, HandlersInstalled
<1>1. TypeOK
  BY DEF IInv
<1>2. CASE UNCHANGED vars
  BY <1>2 DEF vars, signalVars
<1>3. CASE process = "up" /\ Next
  <2>1. CASE SigInt
    BY <1>3, <2>1 DEF SigInt
  <2>2. CASE SigUsr
    BY <1>3, <2>2 DEF SigUsr
  <2>3. CASE StopHttp
    <3>1. CASE life[Http] = "running"
      BY <1>3, <2>3, <3>1 DEF StopHttp, Watched
    <3>2. CASE life[Http] # "running"
      <4>1. watcher = "stopHttp" /\ main \in {"join", "destroy", "return"}
        BY <1>3, <2>3 DEF IInv, StopHttp, Watch, Marked, WatcherAsMarked
      <4>2. life[Http] = "built"
        BY <1>3, <3>2, <4>1 DEF StagedWhileUp, Staged, HttpStaged, AfterHttp, HttpStopped,
          WorkersStopped
      <4> QED
        BY <1>3, <2>3, <3>2, <4>2 DEF StopHttp, Watched
    <3> QED
      BY <3>1, <3>2
  <2>4. CASE WatcherStep /\ ~StopHttp
    BY <1>3, <2>4 DEF WatcherStep, TestFlags, Dump, ClearFlag, Sleep, JoinHttp, StopWorkers,
      StopBackend, StopAlgo, StopUsers, StopMonitor, Watched
  <2>5. CASE \E t \in HttpThreads :
               (\E p \in Callable : HttpCall(t, p)) \/ HttpReturn(t) \/ HttpLeave(t)
    BY <1>3, <2>5 DEF HttpCall, HttpReturn, HttpLeave, signalVars
  <2>6. CASE MainStep
    <3>1. interrupted' = interrupted
      BY <2>6 DEF MainStep, LoadConfig, BuildUsers, EnableSmtp, LookUpCoins, BuildBackend,
        BuildPool, BuildInstance, Built, StartWorkers, StartUsers, StartBackends, StartAlgo,
        Poll, Start, StartHttp, StartMonitor, InstallHandlers, StartWatcher, JoinMonitor,
        Destroy, Aside, signalVars
    <3>2. CASE LoadConfig \/ BuildUsers \/ EnableSmtp \/ LookUpCoins \/ BuildPool \/ Built
      BY <1>3, <3>1, <3>2 DEF LoadConfig, BuildUsers, EnableSmtp, LookUpCoins, BuildPool, Built,
        Fail, At
    <3>3. ASSUME NEW c \in Coins, BuildBackend(c) PROVE EndsAsInterrupted'
      BY <1>3, <3>1, <3>3 DEF BuildBackend, Fail, At
    <3>4. ASSUME NEW i \in Instances, BuildInstance(i) PROVE EndsAsInterrupted'
      BY <1>3, <3>1, <3>4 DEF BuildInstance, Fail, At
    <3>5. CASE StartWorkers \/ StartUsers \/ StartBackends \/ StartAlgo \/ Poll \/ StartHttp
      BY <1>3, <3>1, <3>5 DEF StartWorkers, StartUsers, StartBackends, StartAlgo, Poll,
        StartHttp, Start, At
    <3>6. CASE StartMonitor \/ InstallHandlers \/ StartWatcher \/ JoinMonitor \/ Destroy
      BY <1>3, <3>1, <3>6 DEF StartMonitor, InstallHandlers, StartWatcher, JoinMonitor, Destroy,
        Start, At
    <3> QED
      BY <2>6, <3>2, <3>3, <3>4, <3>5, <3>6 DEF MainStep
  <2> QED
    BY <1>2, <1>3, <2>1, <2>2, <2>3, <2>4, <2>5, <2>6 DEF Next, Ended
<1> QED
  BY <1>2, <1>3, EndedForGood

(* The crash that InterruptStopsAll is about is the only one: unless the   *)
(* HTTP server was never started, a program that was interrupted, however  *)
(* often, ends by the destructors and in no other way (main.cpp:33-36 and  *)
(* 428-457).                                                               *)
THEOREM OnlyPortTakenCrashesHolds == Spec => []OnlyPortTakenCrashes
<1>1. Init => EndsAsInterrupted
  BY DEF Init, EndsAsInterrupted
<1>2. IInv /\ EndsAsInterrupted => OnlyPortTakenCrashes
  BY DEF IInv, TypeOK, EndsAsInterrupted, OnlyPortTakenCrashes
<1> QED
  BY <1>1, <1>2, EndsAsInterruptedStep, InvHolds, StagedHolds, PTL DEF Spec
=============================================================================
