---------------------------- MODULE PoolService ----------------------------
(***************************************************************************)
(* The composition of HttpConnection and PoolLifecycle: connections whose  *)
(* callbacks run on the threads of the HTTP server and of the parts that   *)
(* are called, while these are started, and stopped by a signal.           *)
(*                                                                         *)
(* The threads of HttpConnection are those of PoolLifecycle: an HTTP       *)
(* thread takes events while it is in its loop, and leaves between two     *)
(* callbacks; a service is a part with a thread of its own, which runs     *)
(* callbacks from its start() until its stop() has joined it.  The thread  *)
(* that MiningStats may have runs them until its destructor has joined it. *)
(* A request that a part has not answered when it stops stays with it.     *)
(***************************************************************************)
EXTENDS PoolLifecycle, Integers

CONSTANTS Conns, NoConn, BufSize, MaxArrivals   \* as in HttpConnection

VARIABLES
  conn, refs, Deleted, deletes, shut, reads, writes, calls, oldDataSize, readAt, got,
  arrivals, listener, pc, at, asked, written, notFound, lost,
  inbox    \* part -> connection -> how many of its plain requests are there

StatisticParts == {Backend(c) : c \in Coins} \cup {AlgoServer(c) : c \in Coins}
Services == {Users, Mining} \cup StatisticParts
Threads == HttpThreads \cup Services
Conn == INSTANCE HttpConnection

ASSUME ServiceAssumption == HttpThreads \cap Services = {}
ASSUME ConnectionsAssumption ==
  /\ IsFiniteSet(Conns) /\ NoConn \notin Conns /\ IsFiniteSet(Coins)
  /\ BufSize \in Nat \ {0} /\ MaxArrivals \in Nat

connVars == <<conn, refs, Deleted, deletes, shut, reads, writes, calls, oldDataSize, readAt,
              got, arrivals, listener, pc, at, asked, written, notFound, lost>>
allVars == <<connVars, vars, inbox>>

ServiceTypeOK ==
  /\ Conn!TypeOK /\ TypeOK
  /\ inbox \in [Services -> [Conns -> Nat]]

ServiceInit ==
  /\ Conn!Init /\ Init
  /\ inbox = [s \in Services |-> [c \in Conns |-> 0]]

-----------------------------------------------------------------------------
(* The HTTP threads.                                                       *)

HttpOnly == UNCHANGED <<vars, inbox>>
InLoop(t) == process = "up" /\ t \in HttpThreads /\ httpThread[t] = "loop"

Accept(t, c) == InLoop(t) /\ (Conn!AcceptOk(t, c) \/ Conn!AcceptFails(t)) /\ HttpOnly

Take(t, c) ==
  /\ InLoop(t)
  /\ Conn!ReadOk(t, c) \/ Conn!ReadFailed(t, c) \/ Conn!WriteEnded(t, c)
  /\ HttpOnly

Callback(t) ==
  /\ InLoop(t)
  /\ \/ Conn!Rearm(t) \/ Conn!ParseNeedMore(t) \/ Conn!ParseError(t)
     \/ Conn!ParseNotFound(t) \/ Conn!ParseReply(t) \/ Conn!Close(t)
     \/ Conn!Delete(t) \/ Conn!OnWrite(t) \/ Conn!Leave(t)
  /\ HttpOnly

\* A handler takes a reference and calls a part ...
EnterPart(t, p) ==
  /\ Conn!ParsePin(t) /\ HttpCall(t, p)
  /\ UNCHANGED inbox

\* ... that takes the request; only the user manager makes a second call.
LeavePart(t) == LET c == at[t]  p == calling[t] IN
  /\ Conn!Call(t) /\ HttpReturn(t)
  /\ \/ calls'[c].plain > calls[c].plain
        /\ inbox' = [inbox EXCEPT ![p][c] = @ + 1]
     \/ calls'[c].chained > calls[c].chained /\ p = Users
        /\ UNCHANGED inbox

\* The loop ends between two callbacks.
LeaveLoop(t) == pc[t] = "idle" /\ HttpLeave(t) /\ UNCHANGED <<connVars, inbox>>

-----------------------------------------------------------------------------
(* The threads of the parts.                                               *)

Runs(s) == process = "up" /\ s \in Services /\ life[s] = "running"

\* Mutation: a part's thread takes a request that another part was given.
AnswerOfAnother(s, c) ==
  /\ Runs(s)
  /\ Conn!Answer(s, c)
  /\ inbox' = [inbox EXCEPT ![s][c] = @ - 1]
  /\ UNCHANGED vars

Answer(s, c) ==
  /\ Runs(s) /\ inbox[s][c] > 0
  /\ Conn!Answer(s, c)
  /\ inbox' = [inbox EXCEPT ![s][c] = @ - 1]
  /\ UNCHANGED vars

\* Mutation: the second call of userEnumerateAll is lost.
ForwardToNobody(c, p) ==
  /\ Runs(Users) /\ p \in Callable
  /\ Conn!Forward(Users, c)
  /\ UNCHANGED <<vars, inbox>>

\* userEnumerateAll's second call: the part was looked up by the HTTP thread
\* when it ran, and may have been stopped since.
Forward(c, p) ==
  /\ Runs(Users) /\ p \in Callable
  /\ Conn!Forward(Users, c)
  /\ inbox' = [inbox EXCEPT ![p][c] = @ + 1]
  /\ UNCHANGED vars

Service(s) == Runs(s) /\ (Conn!Reply(s) \/ Conn!Release(s)) /\ HttpOnly

-----------------------------------------------------------------------------
(* main(), the signal thread, the signals, the clients.                    *)

LifeOnly == UNCHANGED <<connVars, inbox>>

Stopping(s) == life[s] = "running" /\ life'[s] # "running"

\* Mutation: stop() asks the thread to end and does not join it.
NotJoined == TRUE

\* Mutation: the first callback of userEnumerateAll waits for the second, so
\* that the user manager's thread cannot be joined before that has run.
JoinedWhenAnswered ==
  \A s \in Services : Stopping(s) =>
    /\ pc[s] = "idle"
    /\ s = Users => \A c \in Conns : calls[c].plain = 0

\* stop(), or for MiningStats its destructor, returns when the part's thread,
\* between two callbacks, has ended.
Joined == \A s \in Services : Stopping(s) => pc[s] = "idle"

Main == MainStep /\ Joined /\ LifeOnly

Watcher == WatcherStep /\ Joined /\ LifeOnly

Signal == SigInt /\ LifeOnly

Outside(c) == process = "up" /\ Conn!Outside(c) /\ HttpOnly

Over == process # "up" /\ UNCHANGED allVars

ServiceNext ==
  \/ Main \/ Watcher \/ Signal \/ Over
  \/ \E t \in HttpThreads :
       \/ Callback(t) \/ LeavePart(t) \/ LeaveLoop(t)
       \/ \E c \in Conns : Accept(t, c) \/ Take(t, c)
       \/ \E p \in Callable : EnterPart(t, p)
  \/ \E s \in Services : Service(s) \/ \E c \in Conns : Answer(s, c)
  \/ \E c \in Conns : Outside(c) \/ \E p \in StatisticParts : Forward(c, p)

ServiceSpec == ServiceInit /\ [][ServiceNext]_allVars

\* The part that was given a request of a connection goes on with it.
PartServes(c) ==
  \/ \E s \in Services : Answer(s, c)
  \/ \E p \in StatisticParts : Forward(c, p)

(* What both components assume: callbacks and calls go on, ready events    *)
(* and requests are not passed over for ever while their thread runs, a    *)
(* loop that was told to quit is left in the end, clients send or leave.   *)
ServiceFairSpec ==
  /\ ServiceSpec
  /\ WF_allVars(Main) /\ WF_allVars(Watcher)
  /\ \A t \in HttpThreads :
       /\ WF_allVars(Callback(t) \/ LeavePart(t) \/ \E p \in Callable : EnterPart(t, p))
       /\ SF_allVars(LeaveLoop(t))
  /\ \A s \in Services : WF_allVars(Service(s))
  /\ \A c \in Conns :
       /\ SF_allVars(\E t \in HttpThreads : Take(t, c))
       /\ SF_allVars(PartServes(c))
       /\ WF_allVars(Outside(c))

-----------------------------------------------------------------------------
(* Properties.                                                             *)

(* A callback of a connection, on whatever thread, runs in a part that     *)
(* runs.  When the destructor of poolContext is to run, MiningStats, which *)
(* main() never stops, is the only part that may still be in a callback or *)
(* begin one (main.cpp:438-457): the other services, which use connections *)
(* and, in userEnumerateAll, another part (http.cpp:783), and the HTTP     *)
(* threads have ended.  No callback is under way when main() returns.      *)
QuietWhenDestroyed ==
  /\ process = "up" =>
       \A t \in Threads : pc[t] # "idle" =>
         life[IF t \in HttpThreads THEN Http ELSE t] = "running"
  /\ main = "destroy" =>
       /\ \A t \in Threads \ {Mining} : pc[t] = "idle"
       /\ \A t \in HttpThreads : httpThread[t] = "left"
       /\ \A s \in Services \ {Mining} : life[s] # "running"
  /\ main = "return" => \A t \in Threads : pc[t] = "idle"

(* A part works for a connection: it was given a request or answers it.    *)
WorksFor(s, c) == inbox[s][c] > 0 \/ (at[s] = c /\ pc[s] = "answer")

(* No two parts work for one connection at a time, and no HTTP thread      *)
(* parses for it or calls a part meanwhile: its context and its buffer     *)
(* have no lock, so the callbacks of two parts must never meet in them,    *)
(* also when the user manager passes a request on (http.cpp:783).          *)
OnePartPerConnection ==
  \A c \in Conns, s \in Services : WorksFor(s, c) =>
    /\ \A p \in Services : p # s => ~WorksFor(p, c)
    /\ \A t \in HttpThreads : at[t] = c => pc[t] \notin {"parse", "call"}

(* A part that was given a request runs, until the HTTP server has been    *)
(* stopped: nobody calls a part before its start() or, while clients are   *)
(* served, after its stop() (main.cpp:389-411 and 438-448).  MiningStats,  *)
(* if its constructor starts no thread, does not: nobody else starts it.   *)
WorksWhileServed ==
  \A c \in Conns, s \in Services : WorksFor(s, c) =>
    \/ life[s] = "running"
    \/ s = Mining /\ life[s] = "built"
    \/ life[s] \in {"stopped", "destroyed"} /\ life[Http] \in {"stopped", "destroyed"}

(* A request that is not answered when the program ends is still with a    *)
(* part that was stopped, with MiningStats or about to be passed on:       *)
(* stopping the threads loses none on its way to a part, between two parts *)
(* or on the way back (main.cpp:438-457).                                  *)
UnansweredIsHeld ==
  main \in {"destroy", "return"} => \A c \in Conns :
    asked[c] > written[c] =>
      \/ calls[c].chained > 0
      \/ WorksFor(Mining, c)
      \/ \E s \in Services \ {Mining} : inbox[s][c] > 0 /\ life[s] \in {"stopped", "destroyed"}

(* Every request is answered unless the program is told to end: no part    *)
(* that main() starts is called before it answers, none stops without a    *)
(* signal, and the second call of userEnumerateAll finds a part that       *)
(* answers.  The only request that may wait for ever is one of             *)
(* complexMiningStatsGetInfo, if the constructor of ComplexMiningStats     *)
(* starts no thread: main() does not (main.cpp:340 and 389-411).           *)
AnsweredOrInterrupted ==
  \A c \in Conns :
    asked[c] > written[c] ~>
      \/ asked[c] = written[c] \/ interrupted = 1 \/ process # "up"
      \/ inbox[Mining][c] > 0 /\ life[Mining] = "built"

(* Connections that are open, requests that are under way, and one that    *)
(* was passed on to a part already stopped, do not keep an interrupted     *)
(* program from ending.                                                    *)
EndsWithClients == interrupted = 1 /\ life[Http] = "running" ~> process = "exited"
=============================================================================
