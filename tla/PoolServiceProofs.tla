------------------------- MODULE PoolServiceProofs -------------------------
(***************************************************************************)
(* Proofs about PoolService, for any number of connections and HTTP        *)
(* threads and any configuration: the composition is a behaviour of both   *)
(* its components, hence what is proved of PoolLifecycle and of            *)
(* HttpConnection holds of it, and from both follows that no callback      *)
(* outlives the part whose thread runs it, and that a request is at any    *)
(* time with one part, also when this one is stopped.                      *)
(***************************************************************************)
EXTENDS PoolService, PoolLifecycleProofs, FiniteSetTheorems

(* Every step of the composition is one of main(), the signal thread, an   *)
(* HTTP thread or a signal, or leaves the pool's life alone.               *)
LEMMA LivesAsPool == [ServiceNext]_allVars => [Next]_vars
<1> SUFFICES ASSUME [ServiceNext]_allVars PROVE [Next]_vars
  OBVIOUS
<1>1. CASE Main \/ Watcher \/ Signal
  BY <1>1 DEF Main, Watcher, Signal, Next
<1>2. CASE Over \/ UNCHANGED allVars
  BY <1>2 DEF Over, allVars
<1>3. ASSUME NEW t \in HttpThreads, NEW c \in Conns,
             Callback(t) \/ Accept(t, c) \/ Take(t, c)
      PROVE  UNCHANGED vars
  BY <1>3 DEF Callback, Accept, Take, HttpOnly
<1>4. ASSUME NEW t \in HttpThreads, Callback(t) PROVE UNCHANGED vars
  BY <1>4 DEF Callback, HttpOnly
<1>5. ASSUME NEW t \in HttpThreads, LeavePart(t) \/ LeaveLoop(t) PROVE Next
  BY <1>5 DEF LeavePart, LeaveLoop, Next
<1>6. ASSUME NEW t \in HttpThreads, NEW p \in Callable, EnterPart(t, p) PROVE Next
  BY <1>6 DEF EnterPart, Next
<1>7. ASSUME NEW s \in Services, Service(s) PROVE UNCHANGED vars
  BY <1>7 DEF Service, HttpOnly
<1>8. ASSUME NEW s \in Services, NEW c \in Conns, Answer(s, c) PROVE UNCHANGED vars
  BY <1>8 DEF Answer
<1>9. ASSUME NEW c \in Conns, NEW p \in StatisticParts, Outside(c) \/ Forward(c, p)
      PROVE  UNCHANGED vars
  BY <1>9 DEF Outside, Forward, HttpOnly
<1>10. ASSUME NEW c \in Conns, Outside(c) PROVE UNCHANGED vars
  BY <1>10 DEF Outside, HttpOnly
<1> QED
  BY <1>1, <1>2, <1>3, <1>4, <1>5, <1>6, <1>7, <1>8, <1>9, <1>10 DEF ServiceNext

(* So what is proved of the pool's life holds while it serves connections. *)
THEOREM ServiceLivesAsPool == ServiceSpec => Spec
<1>1. ServiceInit => Init
  BY DEF ServiceInit
<1> QED
  BY <1>1, LivesAsPool, PTL DEF ServiceSpec, Spec

(* Every step of the composition is one of HttpConnection, taken by an     *)
(* HTTP thread in its loop or by the thread of a part, or leaves the       *)
(* connections alone: starting and stopping the pool only holds back what  *)
(* the threads of HttpConnection may do.                                   *)
THEOREM ServiceServesAsHttp == ServiceSpec => Conn!Spec
<1>1. ServiceInit => Conn!Init
  BY DEF ServiceInit
<1>2. [ServiceNext]_allVars => [Conn!Next]_(Conn!vars)
  <2> SUFFICES ASSUME [ServiceNext]_allVars PROVE [Conn!Next]_(Conn!vars)
    OBVIOUS
  <2> USE DEF Threads, Conn!Threads
  <2>1. CASE Main \/ Watcher \/ Signal \/ Over \/ UNCHANGED allVars
    <3>1. UNCHANGED connVars
      BY <2>1 DEF Main, Watcher, Signal, Over, allVars, LifeOnly
    <3> QED
      BY <3>1 DEF connVars, Conn!vars, Conn!lifeVars, Conn!opVars, Conn!dataVars,
        Conn!runVars, Conn!watchVars
  <2>2. ASSUME NEW t \in HttpThreads, Callback(t) \/ LeavePart(t) PROVE Conn!Next
    BY <2>2 DEF Callback, LeavePart, Conn!Next, Conn!Continue
  <2>3. ASSUME NEW t \in HttpThreads, LeaveLoop(t) PROVE UNCHANGED Conn!vars
    BY <2>3 DEF LeaveLoop, connVars, Conn!vars, Conn!lifeVars, Conn!opVars, Conn!dataVars,
      Conn!runVars, Conn!watchVars
  <2>4. ASSUME NEW t \in HttpThreads, NEW c \in Conns, Accept(t, c) \/ Take(t, c)
        PROVE  Conn!Next
    BY <2>4 DEF Accept, Take, Conn!Next, Conn!Dispatch
  <2>5. ASSUME NEW t \in HttpThreads, NEW p, EnterPart(t, p) PROVE Conn!Next
    BY <2>5 DEF EnterPart, Conn!Next, Conn!Continue
  <2>6. ASSUME NEW s \in Services, Service(s) PROVE Conn!Next
    BY <2>6 DEF Service, Conn!Next, Conn!Continue
  <2>7. ASSUME NEW s \in Services, NEW c \in Conns, Answer(s, c) PROVE Conn!Next
    BY <2>7 DEF Answer, Conn!Next, Conn!Dispatch
  <2>8. ASSUME NEW c \in Conns, Outside(c) PROVE Conn!Next
    BY <2>8 DEF Outside, Conn!Next
  <2>9. ASSUME NEW c \in Conns, NEW p \in StatisticParts, Forward(c, p) PROVE Conn!Next
    BY <2>9 DEF Forward, Services, Conn!Next, Conn!Dispatch
  <2> QED
    BY <2>1, <2>2, <2>3, <2>4, <2>5, <2>6, <2>7, <2>8, <2>9 DEF ServiceNext
<1> QED
  BY <1>1, <1>2, PTL DEF ServiceSpec, Conn!Spec

(* What a thread does for a connection, it does while its part runs.       *)
Serving ==
  /\ pc \in [Threads -> Conn!HttpPCs \cup Conn!ServicePCs]
  /\ \A t \in HttpThreads : pc[t] # "idle" => httpThread[t] \in {"loop", "call"}
  /\ \A s \in Services : /\ pc[s] \in Conn!ServicePCs
                         /\ pc[s] # "idle" => life[s] = "running"

(* A step of a connection is that of the thread that takes it.             *)
LEMMA OneThreadMoves ==
  ASSUME NEW t \in Threads, pc \in [Threads -> Conn!HttpPCs \cup Conn!ServicePCs],
         \/ Conn!Continue(t) \/ Conn!AcceptFails(t)
         \/ \E c \in Conns : Conn!AcceptOk(t, c) \/ Conn!Dispatch(t, c)
  PROVE  /\ pc' \in [Threads -> Conn!HttpPCs \cup Conn!ServicePCs]
         /\ \A u \in Threads : u # t => pc'[u] = pc[u]
<1> USE DEF Conn!HttpPCs, Conn!ServicePCs
<1>1. ASSUME NEW label \in Conn!HttpPCs \cup Conn!ServicePCs, pc' = [pc EXCEPT ![t] = label]
      PROVE  /\ pc' \in [Threads -> Conn!HttpPCs \cup Conn!ServicePCs]
             /\ \A u \in Threads : u # t => pc'[u] = pc[u]
  BY <1>1
<1>2. CASE Conn!Continue(t)
  BY <1>1, <1>2 DEF Conn!Continue, Conn!Rearm, Conn!ParseNeedMore, Conn!ParseError,
    Conn!ParseNotFound, Conn!ParseReply, Conn!ParsePin, Conn!Call, Conn!Close, Conn!Delete,
    Conn!Leave, Conn!OnWrite, Conn!Reply, Conn!Release, Conn!Goto, Conn!Visit
<1>3. CASE Conn!AcceptFails(t) \/ \E c \in Conns : Conn!AcceptOk(t, c)
  BY <1>1, <1>3 DEF Conn!AcceptFails, Conn!AcceptOk
<1>4. ASSUME NEW c \in Conns, Conn!ReadOk(t, c) \/ Conn!ReadFailed(t, c)
             \/ Conn!WriteEnded(t, c) \/ Conn!Answer(t, c)
      PROVE  \E label \in Conn!HttpPCs \cup Conn!ServicePCs : pc' = [pc EXCEPT ![t] = label]
  BY <1>4 DEF Conn!ReadOk, Conn!ReadFailed, Conn!WriteEnded, Conn!Answer, Conn!Visit
<1>5. ASSUME NEW c \in Conns, Conn!Forward(t, c) PROVE pc' = pc
  BY <1>5 DEF Conn!Forward, Conn!runVars
<1> QED
  BY <1>1, <1>2, <1>3, <1>4, <1>5 DEF Conn!Dispatch

(* Every step of the composition keeps it so.                              *)
LEMMA ServingStep ==
  ASSUME IInv, Serving, [ServiceNext]_allVars
  PROVE  Serving'
<1> USE DEF Threads, Conn!Threads
<1>1. ASSUME UNCHANGED pc, UNCHANGED httpThread, UNCHANGED life PROVE Serving'
  BY <1>1 DEF Serving
<1>2. ASSUME NEW t \in HttpThreads, InLoop(t), HttpOnly,
             \/ Conn!Continue(t) \/ Conn!AcceptFails(t)
             \/ \E c \in Conns : Conn!AcceptOk(t, c) \/ Conn!Dispatch(t, c)
      PROVE  Serving'
  BY <1>2, OneThreadMoves, ServiceAssumption DEF Serving, InLoop, HttpOnly, vars, httpVars
<1>3. ASSUME NEW s \in Services, Runs(s), UNCHANGED vars,
             \/ Conn!Reply(s) \/ Conn!Release(s)
             \/ \E c \in Conns : Conn!Answer(s, c) \/ Conn!Forward(s, c)
      PROVE  Serving'
  <2>1. /\ pc' \in [Threads -> Conn!HttpPCs \cup Conn!ServicePCs]
        /\ \A u \in Threads : u # s => pc'[u] = pc[u]
    BY <1>3, OneThreadMoves DEF Conn!Continue, Conn!Dispatch, Serving
  <2>2. pc'[s] \in Conn!ServicePCs
    BY <1>3 DEF Serving, Conn!ServicePCs, Conn!Reply, Conn!Release, Conn!Answer, Conn!Forward,
      Conn!Goto, Conn!Visit, Conn!runVars
  <2> QED
    BY <1>3, <2>1, <2>2, ServiceAssumption DEF Serving, Runs, vars, httpVars
<1>4. ASSUME NEW t \in HttpThreads, Callback(t) PROVE Serving'
  BY <1>2, <1>4 DEF Callback, Conn!Continue
<1>5. ASSUME NEW t \in HttpThreads, NEW c \in Conns, Accept(t, c) \/ Take(t, c) PROVE Serving'
  BY <1>2, <1>5 DEF Accept, Take, Conn!Dispatch
<1>6. ASSUME NEW t \in HttpThreads, NEW p, EnterPart(t, p) PROVE Serving'
  <2>1. httpThread' = [httpThread EXCEPT ![t] = "call"] /\ UNCHANGED life
    BY <1>6 DEF EnterPart, HttpCall
  <2>2. /\ pc' \in [Threads -> Conn!HttpPCs \cup Conn!ServicePCs]
        /\ \A u \in Threads : u # t => pc'[u] = pc[u]
    BY <1>6, OneThreadMoves DEF EnterPart, Conn!Continue, Serving
  <2> QED
    BY <2>1, <2>2, ServiceAssumption DEF Serving, IInv, TypeOK
<1>7. ASSUME NEW t \in HttpThreads, LeavePart(t) PROVE Serving'
  <2>1. httpThread' = [httpThread EXCEPT ![t] = "loop"] /\ UNCHANGED life
    BY <1>7 DEF LeavePart, HttpReturn
  <2>2. /\ pc' \in [Threads -> Conn!HttpPCs \cup Conn!ServicePCs]
        /\ \A u \in Threads : u # t => pc'[u] = pc[u]
    BY <1>7, OneThreadMoves DEF LeavePart, Conn!Continue, Serving
  <2> QED
    BY <2>1, <2>2, ServiceAssumption DEF Serving, IInv, TypeOK
<1>8. ASSUME NEW t \in HttpThreads, LeaveLoop(t) PROVE Serving'
  BY <1>8 DEF LeaveLoop, HttpLeave, connVars, Serving, IInv, TypeOK
<1>9. ASSUME NEW s \in Services, Service(s) PROVE Serving'
  BY <1>3, <1>9 DEF Service, HttpOnly
<1>10. ASSUME NEW s \in Services, NEW c \in Conns, Answer(s, c) PROVE Serving'
  BY <1>3, <1>10 DEF Answer
<1>11. ASSUME NEW c \in Conns, NEW p \in StatisticParts, Forward(c, p) PROVE Serving'
  BY <1>3, <1>11 DEF Forward, Services
<1>12. ASSUME NEW c \in Conns, Outside(c) PROVE Serving'
  <2>1. UNCHANGED pc
    BY <1>12 DEF Outside, Conn!Outside, Conn!ReadArrives, Conn!ReadFails, Conn!WriteEnds,
      Conn!runVars
  <2> QED
    BY <1>1, <1>12, <2>1 DEF Outside, HttpOnly, vars, httpVars
<1>13. CASE Main
  <2>1. UNCHANGED pc /\ MainStep /\ Joined
    BY <1>13 DEF Main, LifeOnly, connVars
  <2>2. \/ UNCHANGED httpThread
        \/ httpThread' = [t \in HttpThreads |-> "loop"]
    BY <2>1 DEF MainStep, LoadConfig, BuildUsers, EnableSmtp, LookUpCoins, BuildBackend,
      BuildPool, BuildInstance, Built, StartWorkers, StartUsers, StartBackends, StartAlgo, Poll,
      Start, StartHttp, StartMonitor, InstallHandlers, StartWatcher, JoinMonitor, Destroy,
      Aside, httpVars
  <2> QED
    BY <2>1, <2>2 DEF Serving, Joined, Stopping
<1>14. CASE Watcher
  <2>1. UNCHANGED pc /\ WatcherStep /\ Joined
    BY <1>14 DEF Watcher, LifeOnly, connVars
  <2>2. UNCHANGED httpThread
    BY <2>1 DEF WatcherStep, TestFlags, Dump, ClearFlag, Sleep, StopHttp, JoinHttp, StopWorkers,
      StopBackend, StopAlgo, StopUsers, StopMonitor, Watched
  <2> QED
    BY <2>1, <2>2 DEF Serving, Joined, Stopping
<1>15. CASE Signal \/ Over \/ UNCHANGED allVars
  BY <1>1, <1>15 DEF Signal, SigInt, LifeOnly, Over, allVars, connVars, vars, httpVars
<1> QED
  BY <1>4, <1>5, <1>6, <1>7, <1>8, <1>9, <1>10, <1>11, <1>12, <1>13, <1>14, <1>15 DEF ServiceNext

(* So each does from the start to the end.                                 *)
LEMMA ServingHolds == ServiceSpec => []Serving
<1>1. ServiceInit => Serving
  BY DEF ServiceInit, Conn!Init, Serving, Conn!HttpPCs, Conn!ServicePCs, Threads, Conn!Threads
<1> QED
  BY <1>1, ServingStep, ServiceLivesAsPool, InvHolds, PTL DEF ServiceSpec

(* After the destructors no part runs and no callback is under way.        *)
AllIdle ==
  main = "return" =>
    /\ process = "exited"
    /\ \A t \in Threads : pc[t] = "idle"
    /\ \A s \in Services : life[s] # "running"

(* The destructor of MiningStats waits for its callback; the other threads *)
(* have ended before.                                                      *)
LEMMA DestroyIsQuiet ==
  ASSUME TypeOK, Serving, NothingRunsWhenDestroyed, Destroy, Joined, UNCHANGED pc
  PROVE  AllIdle'
<1>1. main = "destroy" /\ process' = "exited"
  BY DEF Destroy, At
<1>2. ASSUME NEW s \in Services PROVE life'[s] # "running" /\ pc'[s] = "idle"
  <2>1. s \in Parts
    BY PartNames DEF Services, StatisticParts
  <2>2. life'[s] # "running"
    BY <2>1, BecomeIs DEF Destroy, Known
  <2> QED
    BY <2>2 DEF Serving, Joined, Stopping
<1>3. ASSUME NEW t \in HttpThreads PROVE pc'[t] = "idle"
  BY <1>1 DEF NothingRunsWhenDestroyed, Serving
<1> QED
  BY <1>1, <1>2, <1>3 DEF AllIdle, Threads

LEMMA AllIdleStep ==
  ASSUME TypeOK, Serving, NothingRunsWhenDestroyed, AllIdle, [ServiceNext]_allVars
  PROVE  AllIdle'
<1>1. [Next]_vars
  BY LivesAsPool
<1>2. CASE main = "return"
  <2>1. UNCHANGED vars
    BY <1>1, <1>2, EndedForGood DEF AllIdle
  <2>2. UNCHANGED pc
    <3>1. process # "up"
      BY <1>2 DEF AllIdle
    <3>2. ASSUME NEW t \in HttpThreads, NEW c \in Conns, NEW p
          PROVE  ~(\/ Callback(t) \/ LeavePart(t) \/ LeaveLoop(t)
                   \/ Accept(t, c) \/ Take(t, c) \/ EnterPart(t, p))
      BY <3>1 DEF Callback, LeavePart, LeaveLoop, Accept, Take, EnterPart, InLoop, HttpCall,
        HttpReturn, HttpLeave
    <3>3. ASSUME NEW t \in HttpThreads
          PROVE  ~(Callback(t) \/ LeavePart(t) \/ LeaveLoop(t)) /\ \A p : ~EnterPart(t, p)
      BY <3>1 DEF Callback, LeavePart, LeaveLoop, EnterPart, InLoop, HttpCall, HttpReturn,
        HttpLeave
    <3>4. ASSUME NEW s \in Services PROVE ~Service(s) /\ \A c \in Conns : ~Answer(s, c)
      BY <3>1 DEF Service, Answer, Runs
    <3>5. ASSUME NEW c \in Conns PROVE ~Outside(c) /\ \A p : ~Forward(c, p)
      BY <3>1 DEF Outside, Forward, Runs
    <3>6. Main \/ Watcher \/ Signal \/ Over \/ UNCHANGED allVars => UNCHANGED pc
      BY DEF Main, Watcher, Signal, LifeOnly, Over, allVars, connVars
    <3> QED
      BY <3>2, <3>3, <3>4, <3>5, <3>6 DEF ServiceNext
  <2> QED
    BY <2>1, <2>2 DEF AllIdle, vars
<1>3. CASE main # "return" /\ main' = "return"
  <2>1. MainStep
    BY <1>1, <1>3 DEF Next, WatcherStep, TestFlags, Dump, ClearFlag, Sleep, StopHttp,
      JoinHttp, StopWorkers, StopBackend, StopAlgo, StopUsers, StopMonitor, Watched, HttpCall,
      HttpReturn, HttpLeave, SigInt, SigUsr, Ended, vars
  <2>2. Destroy
    BY <1>3, <2>1 DEF MainStep, At, LoadConfig, BuildUsers, EnableSmtp, LookUpCoins,
      BuildBackend, BuildPool, BuildInstance, Built, StartWorkers, StartUsers, StartBackends,
      StartAlgo, Poll, Start, StartHttp, StartMonitor, InstallHandlers, StartWatcher,
      JoinMonitor, Fail
  <2>3. Main
    <3>1. ASSUME NEW t \in HttpThreads, NEW c \in Conns, NEW p,
                 \/ Callback(t) \/ LeavePart(t) \/ LeaveLoop(t)
                 \/ Accept(t, c) \/ Take(t, c) \/ EnterPart(t, p)
          PROVE  UNCHANGED main
      BY <3>1 DEF Callback, LeavePart, LeaveLoop, Accept, Take, EnterPart, HttpOnly, HttpCall,
        HttpReturn, HttpLeave, vars
    <3>2. ASSUME NEW t \in HttpThreads, NEW p,
                 Callback(t) \/ LeavePart(t) \/ LeaveLoop(t) \/ EnterPart(t, p)
          PROVE  UNCHANGED main
      BY <3>2 DEF Callback, LeavePart, LeaveLoop, EnterPart, HttpOnly, HttpCall, HttpReturn,
        HttpLeave, vars
    <3>3. ASSUME NEW s \in Services, Service(s) PROVE UNCHANGED main
      BY <3>3 DEF Service, HttpOnly, vars
    <3>4. ASSUME NEW s \in Services, NEW c \in Conns, Answer(s, c) PROVE UNCHANGED main
      BY <3>4 DEF Answer, vars
    <3>5. ASSUME NEW c \in Conns, NEW p, Forward(c, p) PROVE UNCHANGED main
      BY <3>5 DEF Forward, vars
    <3>6. ASSUME NEW c \in Conns, Outside(c) PROVE UNCHANGED main
      BY <3>6 DEF Outside, HttpOnly, vars
    <3>7. Watcher \/ Signal \/ Over \/ UNCHANGED allVars => UNCHANGED main
      BY DEF Watcher, WatcherStep, TestFlags, Dump, ClearFlag, Sleep, StopHttp, JoinHttp,
        StopWorkers, StopBackend, StopAlgo, StopUsers, StopMonitor, Watched, Signal, SigInt,
        Over, allVars, vars
    <3>8. ASSUME NEW t \in HttpThreads, Callback(t) \/ LeavePart(t) \/ LeaveLoop(t)
          PROVE  UNCHANGED main
      BY <3>8 DEF Callback, LeavePart, LeaveLoop, HttpOnly, HttpReturn, HttpLeave, vars
    <3> QED
      BY <1>3, <3>1, <3>2, <3>3, <3>4, <3>5, <3>6, <3>7, <3>8 DEF ServiceNext
  <2> QED
    BY <2>2, <2>3, DestroyIsQuiet DEF Main, LifeOnly, connVars
<1> QED
  BY <1>2, <1>3 DEF AllIdle

LEMMA AllIdleHolds == ServiceSpec => []AllIdle
<1>1. ServiceInit => AllIdle
  BY DEF ServiceInit, Init, AllIdle
<1> QED
  BY <1>1, AllIdleStep, ServiceLivesAsPool, LifeTypeCorrect, ServingHolds,
    NothingRunsWhenDestroyedHolds, PTL DEF ServiceSpec

(* A callback of a connection, on whatever thread, runs in a part that     *)
(* runs.  When the destructor of poolContext is to run, MiningStats, which *)
(* main() never stops, is the only part that may still be in a callback or *)
(* begin one; when main() returns none is under way (main.cpp:438-457,     *)
(* http.cpp:783).                                                          *)
THEOREM QuietWhenDestroyedHolds == ServiceSpec => []QuietWhenDestroyed
<1>1. IInv /\ NothingRunsWhenDestroyed /\ Serving /\ AllIdle => QuietWhenDestroyed
  <2> SUFFICES ASSUME IInv, NothingRunsWhenDestroyed, Serving, AllIdle PROVE QuietWhenDestroyed
    OBVIOUS
  <2>1. ASSUME process = "up", NEW t \in HttpThreads, pc[t] # "idle"
        PROVE  life[Http] = "running"
    BY <2>1 DEF Serving, IInv, Marked, HttpAsMarked
  <2>2. ASSUME main = "destroy"
        PROVE  /\ \A t \in HttpThreads : httpThread[t] = "left" /\ pc[t] = "idle"
               /\ \A s \in Services \ {Mining} : life[s] # "running" /\ pc[s] = "idle"
    <3>1. Services \subseteq Parts
      BY PartNames DEF Services, StatisticParts
    <3> QED
      BY <2>2, <3>1 DEF NothingRunsWhenDestroyed, Known, Serving
  <2> QED
    BY <2>1, <2>2 DEF QuietWhenDestroyed, Serving, Threads, AllIdle
<1> QED
  BY <1>1, ServingHolds, AllIdleHolds, ServiceLivesAsPool, InvHolds,
    NothingRunsWhenDestroyedHolds, PTL

-----------------------------------------------------------------------------
(* The connections of the composition are those of HttpConnection, which   *)
(* its proofs see through an instance of their own: the steps are the same.*)
Chains == INSTANCE ConnectionLifetimeProofs

LEMMA SameStep ==
  /\ UNCHANGED Conn!vars => UNCHANGED Chains!vars
  /\ \A t \in Threads : Conn!AcceptFails(t) \/ Conn!Continue(t) =>
                          Chains!AcceptFails(t) \/ Chains!Continue(t)
  /\ \A t \in Threads, c \in Conns : Conn!AcceptOk(t, c) \/ Conn!Dispatch(t, c) =>
                                      Chains!AcceptOk(t, c) \/ Chains!Dispatch(t, c)
  /\ \A c \in Conns : Conn!Outside(c) => Chains!Outside(c)
<1>1. UNCHANGED Conn!vars => UNCHANGED Chains!vars
  BY DEF Conn!vars, Chains!vars, Conn!lifeVars, Chains!lifeVars, Conn!opVars, Chains!opVars,
    Conn!dataVars, Chains!dataVars, Conn!runVars, Chains!runVars, Conn!watchVars,
    Chains!watchVars
<1>2. \A t, c : Conn!AcceptOk(t, c) <=> Chains!AcceptOk(t, c)
  BY DEF Conn!AcceptOk, Chains!AcceptOk, Conn!dataVars, Chains!dataVars, Conn!watchVars,
    Chains!watchVars
<1>3. \A t : Conn!AcceptFails(t) <=> Chains!AcceptFails(t)
  BY DEF Conn!AcceptFails, Chains!AcceptFails, Conn!lifeVars, Chains!lifeVars, Conn!opVars,
    Chains!opVars, Conn!dataVars, Chains!dataVars, Conn!watchVars, Chains!watchVars
<1>4. \A t : Conn!Rearm(t) <=> Chains!Rearm(t)
  BY DEF Conn!Rearm, Chains!Rearm, Conn!lifeVars, Chains!lifeVars, Conn!opVars, Chains!opVars,
    Conn!dataVars, Chains!dataVars, Conn!watchVars, Chains!watchVars
<1>5. \A t, c : Conn!ReadOk(t, c) <=> Chains!ReadOk(t, c)
  BY DEF Conn!ReadOk, Chains!ReadOk, Conn!Visit, Chains!Visit, Conn!lifeVars, Chains!lifeVars,
    Conn!dataVars, Chains!dataVars, Conn!watchVars, Chains!watchVars
<1>6. \A t, c : Conn!ReadFailed(t, c) <=> Chains!ReadFailed(t, c)
  BY DEF Conn!ReadFailed, Chains!ReadFailed, Conn!Visit, Chains!Visit, Conn!lifeVars,
    Chains!lifeVars, Conn!dataVars, Chains!dataVars, Conn!watchVars, Chains!watchVars
<1>7. \A t : Conn!ParseNeedMore(t) <=> Chains!ParseNeedMore(t)
  BY DEF Conn!ParseNeedMore, Chains!ParseNeedMore, Conn!Goto, Chains!Goto, Conn!PostRead,
    Chains!PostRead, Conn!watchVars, Chains!watchVars, Conn!TakeRef, Chains!TakeRef
<1>8. \A t : Conn!ParseError(t) <=> Chains!ParseError(t)
  BY DEF Conn!ParseError, Chains!ParseError, Conn!Goto, Chains!Goto, Conn!lifeVars,
    Chains!lifeVars, Conn!opVars, Chains!opVars, Conn!dataVars, Chains!dataVars, Conn!watchVars,
    Chains!watchVars
<1>9. \A t : Conn!ParseNotFound(t) <=> Chains!ParseNotFound(t)
  BY DEF Conn!ParseNotFound, Chains!ParseNotFound, Conn!Goto, Chains!Goto, Conn!PostWrite,
    Chains!PostWrite, Conn!dataVars, Chains!dataVars, Conn!TakeRef, Chains!TakeRef
<1>10. \A t : Conn!ParseReply(t) <=> Chains!ParseReply(t)
  BY DEF Conn!ParseReply, Chains!ParseReply, Conn!Goto, Chains!Goto, Conn!PostWrite,
    Chains!PostWrite, Conn!dataVars, Chains!dataVars, Conn!TakeRef, Chains!TakeRef
<1>11. \A t : Conn!ParsePin(t) <=> Chains!ParsePin(t)
  BY DEF Conn!ParsePin, Chains!ParsePin, Conn!Goto, Chains!Goto, Conn!TakeRef, Chains!TakeRef,
    Conn!opVars, Chains!opVars, Conn!dataVars, Chains!dataVars
<1>12. \A t : Conn!Call(t) <=> Chains!Call(t)
  BY DEF Conn!Call, Chains!Call, Conn!Goto, Chains!Goto, Conn!lifeVars, Chains!lifeVars,
    Conn!dataVars, Chains!dataVars, Conn!watchVars, Chains!watchVars
<1>13. \A t : Conn!Close(t) <=> Chains!Close(t)
  BY DEF Conn!Close, Chains!Close, Conn!Goto, Chains!Goto, Conn!opVars, Chains!opVars,
    Conn!dataVars, Chains!dataVars, Conn!watchVars, Chains!watchVars
<1>14. \A t : Conn!Delete(t) <=> Chains!Delete(t)
  BY DEF Conn!Delete, Chains!Delete, Conn!Goto, Chains!Goto, Conn!DropRef, Chains!DropRef,
    Conn!CutOff, Chains!CutOff, Conn!dataVars, Chains!dataVars
<1>15. \A t : Conn!Leave(t) <=> Chains!Leave(t)
  BY DEF Conn!Leave, Chains!Leave, Conn!Visit, Chains!Visit, Conn!DropRef, Chains!DropRef,
    Conn!opVars, Chains!opVars, Conn!dataVars, Chains!dataVars, Conn!watchVars, Chains!watchVars
<1>16. \A t, c : Conn!WriteEnded(t, c) <=> Chains!WriteEnded(t, c)
  BY DEF Conn!WriteEnded, Chains!WriteEnded, Conn!Visit, Chains!Visit, Conn!lifeVars,
    Chains!lifeVars, Conn!dataVars, Chains!dataVars, Conn!watchVars, Chains!watchVars
<1>17. \A t : Conn!OnWrite(t) <=> Chains!OnWrite(t)
  BY DEF Conn!OnWrite, Chains!OnWrite, Conn!Goto, Chains!Goto, Conn!PostRead, Chains!PostRead,
    Conn!CutOff, Chains!CutOff, Conn!TakeRef, Chains!TakeRef
<1>18. \A t, c : Conn!Answer(t, c) <=> Chains!Answer(t, c)
  BY DEF Conn!Answer, Chains!Answer, Conn!Visit, Chains!Visit, Conn!lifeVars, Chains!lifeVars,
    Conn!dataVars, Chains!dataVars, Conn!watchVars, Chains!watchVars
<1>19. \A t, c : Conn!Forward(t, c) <=> Chains!Forward(t, c)
  BY DEF Conn!Forward, Chains!Forward, Conn!lifeVars, Chains!lifeVars, Conn!dataVars,
    Chains!dataVars, Conn!runVars, Chains!runVars, Conn!watchVars, Chains!watchVars
<1>20. \A t : Conn!Reply(t) <=> Chains!Reply(t)
  BY DEF Conn!Reply, Chains!Reply, Conn!Goto, Chains!Goto, Conn!PostWrite, Chains!PostWrite,
    Conn!dataVars, Chains!dataVars, Conn!TakeRef, Chains!TakeRef
<1>21. \A t : Conn!Release(t) <=> Chains!Release(t)
  BY DEF Conn!Release, Chains!Release, Conn!Visit, Chains!Visit, Conn!DropRef, Chains!DropRef,
    Conn!opVars, Chains!opVars, Conn!dataVars, Chains!dataVars, Conn!watchVars, Chains!watchVars
<1>22. \A c : Conn!ReadArrives(c) <=> Chains!ReadArrives(c)
  BY DEF Conn!ReadArrives, Chains!ReadArrives, Conn!lifeVars, Chains!lifeVars, Conn!runVars,
    Chains!runVars, Conn!watchVars, Chains!watchVars
<1>23. \A c : Conn!ReadFails(c) <=> Chains!ReadFails(c)
  BY DEF Conn!ReadFails, Chains!ReadFails, Conn!lifeVars, Chains!lifeVars, Conn!dataVars,
    Chains!dataVars, Conn!runVars, Chains!runVars, Conn!watchVars, Chains!watchVars
<1>24. \A c : Conn!WriteEnds(c) <=> Chains!WriteEnds(c)
  BY DEF Conn!WriteEnds, Chains!WriteEnds, Conn!lifeVars, Chains!lifeVars, Conn!dataVars,
    Chains!dataVars, Conn!runVars, Chains!runVars, Conn!watchVars, Chains!watchVars
<1> QED
  BY <1>1, <1>2, <1>3, <1>4, <1>5, <1>6, <1>7, <1>8, <1>9, <1>10, <1>11, <1>12, <1>13, <1>14,
    <1>15, <1>16, <1>17, <1>18, <1>19, <1>20, <1>21, <1>22, <1>23, <1>24 DEF Conn!Continue,
    Chains!Continue, Conn!Dispatch, Chains!Dispatch, Conn!Outside, Chains!Outside

(* The assumptions about HttpConnection hold of the composition.           *)
LEMMA ConnectionsAsAssumed ==
  Chains!ConnsAssumption /\ Chains!ThreadsAssumption /\ Chains!BoundsAssumption
<1>1. Chains!ConnsAssumption /\ Chains!BoundsAssumption
  BY ConnectionsAssumption
    DEF Chains!ConnsAssumption, Chains!BoundsAssumption, Chains!IsFiniteSet, IsFiniteSet
<1>2. IsFiniteSet(Services)
  <2>1. IsFiniteSet({Backend(c) : c \in Coins})
    <3>1. [c \in Coins |-> Backend(c)] \in Surjection(Coins, {Backend(c) : c \in Coins})
      BY DEF Surjection
    <3> QED
      BY <3>1, ConnectionsAssumption, FS_Surjection
  <2>2. IsFiniteSet({AlgoServer(c) : c \in Coins})
    <3>1. [c \in Coins |-> AlgoServer(c)] \in Surjection(Coins, {AlgoServer(c) : c \in Coins})
      BY DEF Surjection
    <3> QED
      BY <3>1, ConnectionsAssumption, FS_Surjection
  <2> QED
    <3>1. IsFiniteSet({Users} \cup {Mining})
      BY FS_Singleton, FS_Union
    <3>2. Services = ({Users} \cup {Mining}) \cup StatisticParts
      BY DEF Services
    <3> QED
      BY <2>1, <2>2, <3>1, <3>2, FS_Union DEF StatisticParts
<1>3. Chains!ThreadsAssumption
  BY <1>2, HttpThreadsAssumption, ServiceAssumption
    DEF Chains!ThreadsAssumption, Chains!IsFiniteSet, IsFiniteSet
<1> QED
  BY <1>1, <1>3

(* The composition is a behaviour of HttpConnection as it is seen there.   *)
LEMMA ServesAsChains == ServiceSpec => Chains!Spec
<1>1. Conn!Init => Chains!Init
  BY DEF Conn!Init, Chains!Init, Conn!Threads, Chains!Threads
<1>2. [Conn!Next]_(Conn!vars) => [Chains!Next]_(Chains!vars)
  <2> SUFFICES ASSUME [Conn!Next]_(Conn!vars) PROVE [Chains!Next]_(Chains!vars)
    OBVIOUS
  <2>1. CASE UNCHANGED Conn!vars
    BY <2>1, SameStep
  <2>2. CASE Conn!Next
    BY <2>2, SameStep DEF Conn!Next, Chains!Next, Conn!Threads, Chains!Threads, Threads
  <2> QED
    BY <2>1, <2>2
<1> QED
  BY <1>1, <1>2, ServiceServesAsHttp, PTL DEF Conn!Spec, Chains!Spec

(* So what is proved of connections holds of those of the composition:     *)
(* while the pool starts, serves and is stopped at any moment, the         *)
(* reference counts balance, no connection is freed in use, deleted twice  *)
(* or forgotten, and buffer, replies and closing stay in step              *)
(* (http.cpp:86-134, 195-331).                                             *)
THEOREM ServiceKeepsConnections ==
  ServiceSpec => [](/\ Conn!RefsAccount /\ Conn!DeletedOnce /\ Conn!NoUseAfterFree
                    /\ Conn!NeverForgotten /\ Conn!BufferExclusive /\ Conn!WindowExact
                    /\ Conn!ReplyNotCutOff /\ Conn!ClosedOwesNothing)
<1>1. \A S : Chains!Cardinality(S) = Conn!Cardinality(S)
  BY DEF Chains!Cardinality, Conn!Cardinality
<1> USE <1>1 DEF Chains!ReadOps, Conn!ReadOps, Chains!WriteOps, Conn!WriteOps, Chains!Requested,
      Conn!Requested, Chains!Visitors, Conn!Visitors, Chains!Threads, Conn!Threads
<1>2. Chains!RefsAccount => Conn!RefsAccount
  BY DEF Chains!RefsAccount, Conn!RefsAccount, Chains!Holders, Conn!Holders, Chains!BaseRef,
    Conn!BaseRef, Chains!Pinning, Conn!Pinning
<1>3. Chains!DeletedOnce => Conn!DeletedOnce
  BY DEF Chains!DeletedOnce, Conn!DeletedOnce, Chains!Deleting, Conn!Deleting
<1>4. Chains!NoUseAfterFree /\ Chains!NeverForgotten => Conn!NoUseAfterFree /\ Conn!NeverForgotten
  BY DEF Chains!NoUseAfterFree, Conn!NoUseAfterFree, Chains!NeverForgotten,
    Conn!NeverForgotten, Chains!Outstanding, Conn!Outstanding
<1>5. Chains!BufferExclusive => Conn!BufferExclusive
  BY DEF Chains!BufferExclusive, Conn!BufferExclusive, Chains!Parsing, Conn!Parsing
<1>6. /\ Chains!WindowExact => Conn!WindowExact
      /\ Chains!ReplyNotCutOff => Conn!ReplyNotCutOff
      /\ Chains!ClosedOwesNothing => Conn!ClosedOwesNothing
  BY DEF Chains!WindowExact, Conn!WindowExact, Chains!ReplyNotCutOff, Conn!ReplyNotCutOff,
    Chains!ClosedOwesNothing, Conn!ClosedOwesNothing
<1> QED
  BY <1>2, <1>3, <1>4, <1>5, <1>6, ServesAsChains, ConnectionsAsAssumed,
    Chains!RefsAccountHolds, Chains!DeletedOnceHolds, Chains!NoUseAfterFreeHolds,
    Chains!NeverForgottenHolds, Chains!BufferExclusiveHolds, Chains!WindowExactHolds,
    Chains!ReplyNotCutOffHolds, Chains!ClosedOwesNothingHolds, PTL

(* And every connection keeps its promise to its client: one request at a  *)
(* time is taken and answered once, and the connection is freed once, when *)
(* it owes nothing; stopping the pool may only keep it from going on.      *)
THEOREM ServiceImplementsLifetime == ServiceSpec => Conn!LifetimeSpec
<1>1. Chains!Lifetime!Init => Conn!Lifetime!Init
  BY DEF Chains!Lifetime!Init, Conn!Lifetime!Init
<1>2. [Chains!Lifetime!Next]_(Chains!Lifetime!vars) => [Conn!Lifetime!Next]_(Conn!Lifetime!vars)
  BY DEF Chains!Lifetime!Next, Conn!Lifetime!Next, Chains!Lifetime!vars, Conn!Lifetime!vars,
    Chains!Lifetime!Open, Conn!Lifetime!Open, Chains!Lifetime!Take, Conn!Lifetime!Take,
    Chains!Lifetime!Answer, Conn!Lifetime!Answer, Chains!Lifetime!Free, Conn!Lifetime!Free
<1> QED
  BY <1>1, <1>2, ServesAsChains, ConnectionsAsAssumed, Chains!ImplementsLifetime, PTL
    DEF Conn!LifetimeSpec, Chains!LifetimeSpec, Conn!Lifetime!Spec, Chains!Lifetime!Spec

-----------------------------------------------------------------------------
(* What the chain of a connection says of its requests, its threads and    *)
(* its client.                                                             *)
LEMMA OneRequest ==
  ASSUME Chains!CInv, NEW c \in Conns
  PROVE  /\ calls \in [Conns -> [plain : Nat, chained : Nat]]
         /\ calls[c].plain + calls[c].chained <= 1
         /\ \A t \in Threads : at[t] = c /\ pc[t] \in {"parse", "call", "answer"} =>
              calls[c].plain = 0 /\ calls[c].chained = 0
         /\ \A t, u \in Threads :
              at[t] = c /\ at[u] = c /\ pc[t] \in Chains!Busy /\ pc[u] \in Chains!Busy => t = u
         /\ asked[c] > written[c] =>
              \/ calls[c].plain > 0 \/ calls[c].chained > 0
              \/ \E t \in Threads : at[t] = c /\ pc[t] \in {"call", "answer"}
<1>1. /\ Chains!TypeOK /\ Chains!Alone(c) /\ Chains!Owes(c)
  BY DEF Chains!CInv, Chains!IInv, Chains!Chain
<1>2. /\ calls \in [Conns -> [plain : Nat, chained : Nat]]
      /\ asked[c] \in Nat /\ written[c] \in Nat
  BY <1>1 DEF Chains!TypeOK, Chains!Requests
<1>3. /\ Chains!ReadOps(c) \in Nat /\ Chains!WriteOps(c) \in Nat
      /\ Chains!Requested(c) \in Nat
  BY <1>1, ConnectionsAsAssumed, Chains!ChainTyped
<1>4. Chains!Requested(c) = calls[c].plain + calls[c].chained
  BY DEF Chains!Requested
<1>5. Chains!Requested(c) <= 1
  BY <1>1, <1>3 DEF Chains!Alone, Chains!Ops
<1>6. ASSUME NEW t \in Threads, at[t] = c, pc[t] \in {"parse", "call", "answer"}
      PROVE  Chains!Requested(c) = 0
  <2>1. Chains!Doing(c, Chains!Busy)
    BY <1>6 DEF Chains!Doing, Chains!Busy, Threads, Chains!Threads
  <2> QED
    BY <1>1, <1>3, <2>1 DEF Chains!Alone, Chains!Ops
<1>7. asked[c] > written[c] => Chains!Requested(c) > 0 \/ Chains!Doing(c, {"call", "answer"})
  BY <1>1, <1>2 DEF Chains!Owes
<1>8. \A t, u \in Threads :
        at[t] = c /\ at[u] = c /\ pc[t] \in Chains!Busy /\ pc[u] \in Chains!Busy => t = u
  BY <1>1 DEF Chains!Alone, Threads, Chains!Threads
<1> QED
  BY <1>2, <1>4, <1>5, <1>6, <1>7, <1>8 DEF Chains!Doing, Threads, Chains!Threads

\* A plain request is with the one part that it was given to, which is one
\* that may be called, and the HTTP server has been started.
HeldAt(c) ==
  /\ calls[c].plain = 0 => \A s \in Services : inbox[s][c] = 0
  /\ calls[c].plain = 1 =>
       \E s \in Services : inbox[s][c] = 1 /\ \A p \in Services \ {s} : inbox[p][c] = 0
  /\ \A s \in Services : inbox[s][c] > 0 => s \in Callable
  /\ calls[c].plain > 0 \/ calls[c].chained > 0 => main \in AfterHttp
Held ==
  /\ inbox \in [Services -> [Conns -> Nat]]
  /\ \A c \in Conns : HeldAt(c)
  /\ \A t \in HttpThreads : httpThread[t] = "call" => calling[t] \in Services

(* What handlers may call are services.                                    *)
LEMMA CallableServes ==
  ASSUME TypeOK
  PROVE  Callable \subseteq Services
  BY ServersAre DEF Callable, Services, StatisticParts

(* What goes with no step of a request goes on being held.                 *)
LEMMA StaysHeld ==
  ASSUME IInv, [Next]_vars, NEW c \in Conns, HeldAt(c), calls'[c] = calls[c],
         \A s \in Services : inbox'[s][c] = inbox[s][c]
  PROVE  HeldAt(c)'
  BY LifeGoesOn DEF HeldAt, Callable

(* A handler gives a request to the part it calls, ...                     *)
LEMMA GivenIsHeld ==
  ASSUME IInv, Chains!CInv, Held, NEW t \in HttpThreads, LeavePart(t),
         NEW c, c = at[t], NEW p, p = calling[t]
  PROVE  Held'
<1>1. /\ pc[t] = "call" /\ HttpReturn(t)
      /\ \/ calls' = [calls EXCEPT ![c].plain = @ + 1]
         \/ calls' = [calls EXCEPT ![c].chained = @ + 1]
      /\ \/ calls'[c].plain > calls[c].plain /\ inbox' = [inbox EXCEPT ![p][c] = @ + 1]
         \/ calls'[c].chained > calls[c].chained /\ p = Users /\ UNCHANGED inbox
  BY DEF LeavePart, Conn!Call
<1>2. c \in Conns /\ t \in Threads
  BY <1>1 DEF Chains!CInv, Chains!IInv, Chains!TypeOK, Chains!Working, Threads, Chains!Threads
<1>3. /\ process = "up" /\ httpThread[t] = "call" /\ UNCHANGED <<main, knownAlgo>>
      /\ httpThread' = [httpThread EXCEPT ![t] = "loop"]
      /\ calling' = [calling EXCEPT ![t] = None]
  BY <1>1 DEF HttpReturn, buildVars
<1>4. main \in AfterHttp /\ p \in Callable /\ p \in Services
  BY <1>3 DEF IInv, Marked, HttpAsMarked, Held
<1>5. /\ calls \in [Conns -> [plain : Nat, chained : Nat]]
      /\ calls[c].plain = 0 /\ calls[c].chained = 0
  BY <1>1, <1>2, OneRequest
<1>6. inbox \in [Services -> [Conns -> Nat]] /\ \A s \in Services : inbox[s][c] = 0
  BY <1>2, <1>5 DEF Held, HeldAt
<1>7. UNCHANGED Callable
  BY <1>3 DEF Callable, AlgoServers
<1>8. ASSUME NEW d \in Conns, d # c PROVE HeldAt(d)'
  <2>1. calls'[d] = calls[d]
    BY <1>1, <1>2, <1>5, <1>8
  <2>2. \A s \in Services : inbox'[s][d] = inbox[s][d]
    BY <1>1, <1>2, <1>4, <1>6, <1>8
  <2> QED
    BY <1>3, <1>7, <1>8, <2>1, <2>2 DEF Held, HeldAt
<1>9. inbox' \in [Services -> [Conns -> Nat]] /\ HeldAt(c)'
  <2>1. CASE calls' = [calls EXCEPT ![c].plain = @ + 1]
    <3>1. calls'[c].plain = 1 /\ calls'[c].chained = 0
      BY <1>2, <1>5, <2>1
    <3>2. inbox' = [inbox EXCEPT ![p][c] = @ + 1]
      BY <1>1, <1>5, <3>1
    <3>3. /\ inbox' \in [Services -> [Conns -> Nat]]
          /\ inbox'[p][c] = 1 /\ \A s \in Services \ {p} : inbox'[s][c] = 0
      BY <1>2, <1>4, <1>6, <3>2
    <3> QED
      BY <1>3, <1>4, <1>7, <3>1, <3>3 DEF HeldAt
  <2>2. CASE calls' = [calls EXCEPT ![c].chained = @ + 1]
    <3>1. calls'[c].plain = 0 /\ calls'[c].chained = 1
      BY <1>2, <1>5, <2>2
    <3>2. UNCHANGED inbox
      BY <1>1, <1>5, <3>1
    <3> QED
      BY <1>3, <1>4, <1>6, <3>1, <3>2 DEF HeldAt
  <2> QED
    BY <1>1, <2>1, <2>2
<1>10. \A u \in HttpThreads : httpThread'[u] = "call" => calling'[u] \in Services
  BY <1>3 DEF IInv, TypeOK, Held
<1> QED
  BY <1>8, <1>9, <1>10 DEF Held

(* ... the part takes it to answer it, ...                                 *)
LEMMA AnsweredIsNotHeld ==
  ASSUME Chains!CInv, Held, NEW s \in Services, NEW c \in Conns, Answer(s, c)
  PROVE  Held'
<1>1. /\ inbox[s][c] > 0 /\ calls[c].plain > 0
      /\ calls' = [calls EXCEPT ![c].plain = @ - 1]
      /\ inbox' = [inbox EXCEPT ![s][c] = @ - 1]
      /\ UNCHANGED vars
  BY DEF Answer, Conn!Answer
<1>2. /\ calls \in [Conns -> [plain : Nat, chained : Nat]]
      /\ calls[c].plain + calls[c].chained <= 1
  BY OneRequest
<1>3. calls[c].plain = 1 /\ calls'[c].plain = 0 /\ calls'[c].chained = 0
  BY <1>1, <1>2
<1>4. inbox[s][c] = 1 /\ \A p \in Services \ {s} : inbox[p][c] = 0
  BY <1>1, <1>3 DEF Held, HeldAt
<1>5. UNCHANGED <<Callable, main, httpThread, calling>>
  BY <1>1 DEF vars, buildVars, httpVars, Callable, AlgoServers
<1>6. HeldAt(c)' /\ inbox' \in [Services -> [Conns -> Nat]]
  <2>1. inbox' \in [Services -> [Conns -> Nat]] /\ \A p \in Services : inbox'[p][c] = 0
    BY <1>1, <1>4 DEF Held
  <2> QED
    BY <1>3, <2>1 DEF HeldAt
<1>7. ASSUME NEW d \in Conns, d # c PROVE HeldAt(d)'
  <2>1. calls'[d] = calls[d] /\ \A p \in Services : inbox'[p][d] = inbox[p][d]
    BY <1>1, <1>2, <1>7 DEF Held
  <2> QED
    BY <1>5, <1>7, <2>1 DEF Held, HeldAt
<1> QED
  BY <1>5, <1>6, <1>7 DEF Held

(* ... or the user manager passes it on.                                   *)
LEMMA ForwardedIsHeld ==
  ASSUME Chains!CInv, Held, NEW c \in Conns, NEW p \in StatisticParts, Forward(c, p)
  PROVE  Held'
<1>1. /\ calls[c].chained > 0 /\ p \in Callable
      /\ calls' = [calls EXCEPT ![c] = [plain |-> @.plain + 1, chained |-> @.chained - 1]]
      /\ inbox' = [inbox EXCEPT ![p][c] = @ + 1]
      /\ UNCHANGED vars
  BY DEF Forward, Conn!Forward
<1>2. /\ calls \in [Conns -> [plain : Nat, chained : Nat]]
      /\ calls[c].plain + calls[c].chained <= 1
  BY OneRequest
<1>3. calls[c].plain = 0 /\ calls'[c].plain = 1 /\ calls'[c].chained = 0
  BY <1>1, <1>2
<1>4. (\A s \in Services : inbox[s][c] = 0) /\ main \in AfterHttp /\ p \in Services
  BY <1>1, <1>3 DEF Held, HeldAt, Services
<1>5. UNCHANGED <<Callable, main, httpThread, calling>>
  BY <1>1 DEF vars, buildVars, httpVars, Callable, AlgoServers
<1>6. HeldAt(c)' /\ inbox' \in [Services -> [Conns -> Nat]]
  <2>1. /\ inbox' \in [Services -> [Conns -> Nat]]
        /\ inbox'[p][c] = 1 /\ \A s \in Services \ {p} : inbox'[s][c] = 0
    BY <1>1, <1>4 DEF Held
  <2> QED
    BY <1>1, <1>3, <1>4, <1>5, <2>1 DEF HeldAt
<1>7. ASSUME NEW d \in Conns, d # c PROVE HeldAt(d)'
  <2>1. calls'[d] = calls[d] /\ \A s \in Services : inbox'[s][d] = inbox[s][d]
    BY <1>1, <1>2, <1>4, <1>7 DEF Held
  <2> QED
    BY <1>5, <1>7, <2>1 DEF Held, HeldAt
<1> QED
  BY <1>5, <1>6, <1>7 DEF Held

(* Every step of the composition keeps it so.                              *)
LEMMA HeldStep ==
  IInv /\ Chains!CInv /\ Held /\ [ServiceNext]_allVars => Held'
<1> SUFFICES ASSUME IInv, Chains!CInv, Held, [ServiceNext]_allVars PROVE Held'
  OBVIOUS
<1>1. [Next]_vars
  BY LivesAsPool
<1>2. ASSUME UNCHANGED <<calls, inbox>>,
             \A t \in HttpThreads : httpThread'[t] = "call" => calling'[t] \in Services
      PROVE  Held'
  BY <1>1, <1>2, StaysHeld DEF Held
<1>3. ASSUME UNCHANGED <<calls, inbox, vars>> PROVE Held'
  BY <1>2, <1>3 DEF Held, vars, httpVars
<1>4. ASSUME NEW t \in HttpThreads, Callback(t) PROVE Held'
  <2>1. UNCHANGED calls
    BY <1>4 DEF Callback, Conn!Rearm, Conn!ParseNeedMore, Conn!ParseError, Conn!ParseNotFound,
      Conn!ParseReply, Conn!Close, Conn!Delete, Conn!OnWrite, Conn!Leave, Conn!opVars
  <2> QED
    BY <1>3, <1>4, <2>1 DEF Callback, HttpOnly
<1>5. ASSUME NEW t \in HttpThreads, NEW c \in Conns, Accept(t, c) \/ Take(t, c) PROVE Held'
  <2>1. UNCHANGED calls /\ HttpOnly
    BY <1>5 DEF Accept, Take, Conn!AcceptOk, Conn!AcceptFails, Conn!ReadOk, Conn!ReadFailed,
      Conn!WriteEnded, Conn!opVars
  <2> QED
    BY <1>3, <2>1 DEF HttpOnly
<1>6. ASSUME NEW t \in HttpThreads, NEW p \in Callable, EnterPart(t, p) PROVE Held'
  <2>1. UNCHANGED calls
    BY <1>6 DEF EnterPart, Conn!ParsePin, Conn!opVars
  <2>2. /\ httpThread' = [httpThread EXCEPT ![t] = "call"]
        /\ calling' = [calling EXCEPT ![t] = p]
    BY <1>6 DEF EnterPart, HttpCall
  <2>3. p \in Services /\ TypeOK
    BY CallableServes DEF IInv
  <2> QED
    BY <1>2, <1>6, <2>1, <2>2, <2>3 DEF EnterPart, Held, TypeOK
<1>7. ASSUME NEW t \in HttpThreads, LeaveLoop(t) PROVE Held'
  <2>1. UNCHANGED <<calls, inbox, calling>> /\ httpThread' = [httpThread EXCEPT ![t] = "left"]
    BY <1>7 DEF LeaveLoop, HttpLeave, connVars
  <2> QED
    BY <1>2, <2>1 DEF Held, IInv, TypeOK
<1>8. ASSUME NEW s \in Services, Service(s) PROVE Held'
  <2>1. UNCHANGED calls
    BY <1>8 DEF Service, Conn!Reply, Conn!Release, Conn!opVars
  <2> QED
    BY <1>3, <1>8, <2>1 DEF Service, HttpOnly
<1>9. ASSUME NEW c \in Conns, Outside(c) PROVE Held'
  <2>1. UNCHANGED calls
    BY <1>9 DEF Outside, Conn!Outside, Conn!ReadArrives, Conn!ReadFails, Conn!WriteEnds
  <2> QED
    BY <1>3, <1>9, <2>1 DEF Outside, HttpOnly
<1>10. CASE Main
  <2>1. UNCHANGED <<calls, inbox>> /\ MainStep
    BY <1>10 DEF Main, LifeOnly, connVars
  <2>2. UNCHANGED httpVars \/ httpThread' = [t \in HttpThreads |-> "loop"]
    BY <2>1 DEF MainStep, LoadConfig, BuildUsers, EnableSmtp, LookUpCoins, BuildBackend,
      BuildPool, BuildInstance, Built, StartWorkers, StartUsers, StartBackends, StartAlgo, Poll,
      Start, StartHttp, StartMonitor, InstallHandlers, StartWatcher, JoinMonitor, Destroy,
      Aside, httpVars
  <2> QED
    BY <1>2, <2>1, <2>2 DEF Held, httpVars
<1>11. CASE Watcher
  <2>1. UNCHANGED <<calls, inbox>> /\ WatcherStep
    BY <1>11 DEF Watcher, LifeOnly, connVars
  <2>2. UNCHANGED <<httpThread, calling>>
    BY <2>1 DEF WatcherStep, TestFlags, Dump, ClearFlag, Sleep, StopHttp, JoinHttp, StopWorkers,
      StopBackend, StopAlgo, StopUsers, StopMonitor, Watched
  <2> QED
    BY <1>2, <2>1, <2>2 DEF Held
<1>12. CASE Signal \/ Over \/ UNCHANGED allVars
  <2>1. UNCHANGED <<calls, inbox, httpThread, calling>>
    BY <1>12 DEF Signal, SigInt, LifeOnly, Over, allVars, connVars, vars, httpVars
  <2> QED
    BY <1>2, <2>1 DEF Held
<1>13. ASSUME NEW c \in Conns, NEW p \in StatisticParts, Forward(c, p) PROVE Held'
  BY <1>13, ForwardedIsHeld
<1> QED
  BY <1>4, <1>5, <1>6, <1>7, <1>8, <1>9, <1>10, <1>11, <1>12, <1>13, GivenIsHeld,
    AnsweredIsNotHeld DEF ServiceNext

(* The composition keeps Held, too.                                        *)
LEMMA ServiceInvariants ==
  ServiceSpec => [](/\ IInv /\ RunsWhileServed /\ Serving /\ Chains!CInv /\ Held
                    /\ AllIdle /\ QuietWhenDestroyed)
<1>1. ServiceInit => Held
  BY DEF ServiceInit, Conn!Init, Init, Held, HeldAt
<1>2. IInv /\ Chains!CInv /\ Held /\ [ServiceNext]_allVars => Held'
  BY HeldStep
<1> QED
  BY <1>1, <1>2, ServiceLivesAsPool, InvHolds, RunsWhileServedHolds, ServingHolds,
    ServesAsChains, ConnectionsAsAssumed, Chains!ChainHolds, AllIdleHolds,
    QuietWhenDestroyedHolds, PTL DEF ServiceSpec

(* Every variable of the composition keeps its type, and no part answers   *)
(* more than it was given.                                                 *)
THEOREM ServiceTypeCorrect == ServiceSpec => []ServiceTypeOK
<1>1. IInv /\ Chains!CInv /\ Held => ServiceTypeOK
  BY DEF IInv, Chains!CInv, Chains!IInv, Chains!TypeOK, Conn!TypeOK, Held, ServiceTypeOK,
    Chains!Readings, Conn!Readings, Chains!Writings, Conn!Writings, Chains!Requests,
    Conn!Requests, Chains!HttpPCs, Conn!HttpPCs, Chains!ServicePCs, Conn!ServicePCs,
    Chains!Threads, Conn!Threads
<1> QED
  BY <1>1, ServiceInvariants, PTL

(* No two parts work for one connection at a time, and no HTTP thread      *)
(* parses for it or calls a part meanwhile (http.cpp:783).                 *)
THEOREM OnePartPerConnectionHolds == ServiceSpec => []OnePartPerConnection
<1>1. Chains!CInv /\ Held => OnePartPerConnection
  <2> SUFFICES ASSUME Chains!CInv, Held, NEW c \in Conns, NEW s \in Services, WorksFor(s, c)
               PROVE  /\ \A p \in Services : p # s => ~WorksFor(p, c)
                      /\ \A t \in HttpThreads : at[t] = c => pc[t] \notin {"parse", "call"}
    BY DEF OnePartPerConnection
  <2>1. /\ calls \in [Conns -> [plain : Nat, chained : Nat]]
        /\ calls[c].plain + calls[c].chained <= 1
        /\ \A t \in Threads : at[t] = c /\ pc[t] \in {"parse", "call", "answer"} =>
             calls[c].plain = 0
        /\ \A t, u \in Threads :
             at[t] = c /\ at[u] = c /\ pc[t] \in Chains!Busy /\ pc[u] \in Chains!Busy => t = u
    BY OneRequest
  <2>2. calls[c].plain = 0 => \A p \in Services : inbox[p][c] = 0
    BY DEF Held, HeldAt
  <2>3. CASE calls[c].plain = 0
    <3>1. at[s] = c /\ pc[s] = "answer"
      BY <2>2, <2>3 DEF WorksFor
    <3>2. \A t \in Threads : t # s /\ at[t] = c => pc[t] \notin {"parse", "call", "answer"}
      BY <2>1, <3>1 DEF Threads, Chains!Busy
    <3> QED
      BY <2>2, <2>3, <3>1, <3>2, ServiceAssumption DEF WorksFor, Threads
  <2>4. CASE calls[c].plain # 0
    <3>1. calls[c].plain = 1
      BY <2>1, <2>4
    <3>2. PICK q \in Services : inbox[q][c] = 1 /\ \A p \in Services \ {q} : inbox[p][c] = 0
      BY <3>1 DEF Held, HeldAt
    <3>3. \A t \in Threads : at[t] = c => pc[t] \notin {"parse", "call", "answer"}
      BY <2>1, <2>4
    <3> QED
      BY <3>2, <3>3 DEF WorksFor, Threads
  <2> QED
    BY <2>3, <2>4
<1> QED
  BY <1>1, ServiceInvariants, PTL

(* A part that was given a request runs, until the HTTP server has been    *)
(* stopped (main.cpp:389-411 and 438-448); only MiningStats, which main()  *)
(* does not start, may be without a thread.                                *)
THEOREM WorksWhileServedHolds == ServiceSpec => []WorksWhileServed
<1>1. RunsWhileServed /\ Serving /\ Chains!CInv /\ Held => WorksWhileServed
  <2> SUFFICES ASSUME RunsWhileServed, Serving, Chains!CInv, Held,
                      NEW c \in Conns, NEW s \in Services, WorksFor(s, c)
               PROVE  \/ life[s] = "running" \/ (s = Mining /\ life[s] = "built")
                      \/ /\ life[s] \in {"stopped", "destroyed"}
                         /\ life[Http] \in {"stopped", "destroyed"}
    BY DEF WorksWhileServed
  <2>1. CASE pc[s] = "answer"
    BY <2>1 DEF Serving
  <2>2. CASE inbox[s][c] > 0
    <3>1. s \in Callable /\ calls[c].plain # 0
      BY <2>2 DEF Held, HeldAt
    <3>2. calls[c].plain \in Nat
      BY OneRequest
    <3>3. main \in AfterHttp
      BY <3>1, <3>2 DEF Held, HeldAt
    <3> QED
      BY <3>1, <3>3 DEF RunsWhileServed
  <2> QED
    BY <2>1, <2>2 DEF WorksFor
<1> QED
  BY <1>1, ServiceInvariants, PTL

(* A request that is not answered when the program ends is still with a    *)
(* part that was stopped, with MiningStats or about to be passed on        *)
(* (main.cpp:438-457).                                                     *)
THEOREM UnansweredIsHeldHolds == ServiceSpec => []UnansweredIsHeld
<1>1. /\ RunsWhileServed /\ Serving /\ Chains!CInv /\ Held /\ AllIdle /\ QuietWhenDestroyed
      => UnansweredIsHeld
  <2> SUFFICES ASSUME RunsWhileServed, Serving, Chains!CInv, Held, AllIdle, QuietWhenDestroyed,
                      main \in {"destroy", "return"}, NEW c \in Conns, asked[c] > written[c]
               PROVE  \/ calls[c].chained > 0 \/ WorksFor(Mining, c)
                      \/ \E s \in Services \ {Mining} :
                           inbox[s][c] > 0 /\ life[s] \in {"stopped", "destroyed"}
    BY DEF UnansweredIsHeld
  <2>1. calls[c].plain > 0 \/ calls[c].chained > 0 \/ (at[Mining] = c /\ pc[Mining] = "answer")
    <3>1. \A t \in Threads \ {Mining} : pc[t] = "idle"
      BY DEF AllIdle, QuietWhenDestroyed
    <3>2. pc[Mining] # "call"
      BY DEF Serving, Conn!ServicePCs, Services
    <3> QED
      BY <3>1, <3>2, OneRequest
  <2>2. /\ calls \in [Conns -> [plain : Nat, chained : Nat]]
        /\ calls[c].plain + calls[c].chained <= 1
    BY OneRequest
  <2>3. CASE calls[c].plain > 0
    <3>1. calls[c].plain = 1
      BY <2>2, <2>3
    <3>2. PICK s \in Services : inbox[s][c] = 1
      BY <3>1 DEF Held, HeldAt
    <3>3. CASE s = Mining
      BY <3>2, <3>3 DEF WorksFor
    <3>4. CASE s # Mining
      <4>1. s \in Callable /\ main \in AfterHttp
        BY <3>2 DEF Held, HeldAt, AfterHttp
      <4>2. life[s] # "running"
        BY <3>4 DEF QuietWhenDestroyed, AllIdle
      <4>3. life[s] \in {"stopped", "destroyed"}
        BY <3>4, <4>1, <4>2 DEF RunsWhileServed
      <4> QED
        BY <3>2, <3>4, <4>3
    <3> QED
      BY <3>3, <3>4
  <2> QED
    BY <2>1, <2>3 DEF WorksFor
<1> QED
  BY <1>1, ServiceInvariants, PTL
=============================================================================
