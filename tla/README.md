# Verification of poolfrontend in TLA+

poolfrontend is a mining pool front end. `main()` (src/src/main.cpp) reads a
configuration, builds the pool from the classes of the library *poolcore* (user
manager, accounting backends, statistic servers, mining instances), and serves
an HTTP API (src/src/http.cpp) whose handlers hand requests to those classes and
send the answers. This directory holds TLA+ modules of what the code of this
repository does, the TLC runs that check them on small instances, and proofs
that TLAPS checks for all values of the constants.

Paths below are relative to src/ (so `src/http.cpp` is src/src/http.cpp).

## 1. Inventory

| Component | State it keeps | Operations | Modelled by |
|---|---|---|---|
| HTTP connection and listener (`src/http.cpp`, `PoolHttpConnection`, `PoolHttpServer::acceptCb`) | socket object and its reference count, `Deleted_`, `buffer`, `oldDataSize`, outstanding reads and writes, requests at services | accept, `run`, `onRead`, `onParse`, `onWrite`, `close`, destructor callback, service callbacks | `HttpConnection`, `ConnectionLifetime` |
| API request handlers (`src/http.cpp`, the 38 `on...` functions) | `Context` (function, request body); sessions, in the user manager | parse JSON, validate arguments, session, coin, columns, intervals; reply or call a service | `ApiHandlers`, `ApiRequests`, `ApiContract` |
| Pool life cycle (`src/main.cpp`, `PoolHttpServer::start/stop`) | `poolContext`, the threads, `interrupted`, `sigusrReceived` | read, build, start, stop, signal handlers, signal thread | `PoolLifecycle`, `PartLife` |
| Configuration loader (`src/config.cpp`, `src/config.h`) | the configuration and the accumulated error | `jsonParse*`, the `load` methods | `ConfigLoad`, `ConfigFields` |
| Request routing and lookup (`onParse` of `src/http.cpp`, `src/http.h`, the vectors `src/main.cpp` builds) | `Context` of a connection; vectors of backends and statistics sorted by name | method, path element, body; sort, link, `backend`, `statisticDb` | `CoinRegistry`, `RequestRouting` |
| Service across start and stop (the three above together) | connections and threads at once | the threads that run callbacks are started, stopped, joined | `PoolService` |
| `noderpc` (`src/noderpc.cpp`) | options, client, coroutine | options, checks, nine methods, the loop that waits | `NodeRpc` |
| `passwordHash` | none that outlives a command | prints a hash | no |
| `msvc/getopt*` | | vendored | no |
| Python tests and API client (`test/`) | | sequential scripts | no; read for what they expect |
| poolcore, asyncio, libp2p, rapidjson | | fetched by the build, not in the repository | external, from their use |

**How they interact.** `main()` builds everything and starts the HTTP server
last. An HTTP thread runs, in `asyncLoop`, the callbacks of every connection.
A handler runs inside `httpRequestParse`, inside `onRead`. It replies itself
(`aioWrite`) or increments the socket's reference count and gives a service a
callback that captures `this`; the service runs it on a thread of its own, and
it replies and decrements the count. The reply's `writeCb` shuts the socket
down and posts a read that finds the end, whose `readCb` closes the connection.
The signal thread stops the HTTP server first and the event loop of the monitor
thread last; `main()` waits for the latter.

**What is hard.**

- Two callbacks of one connection on two threads, and a service's callback on a
  third; nothing but one reference count and one atomic counter (`Deleted_`)
  keeps the object alive and deletes it once.
- Disconnects, parse errors and 404 replies that close a connection while
  writes and requests are outstanding.
- One buffer for the unparsed tail of one read and the data of the next.
- Sessions that end between the check on the HTTP thread and the change made by
  a service.
- 38 handlers that repeat the same steps by hand.
- The order in which parts are started and stopped, errors halfway, signals at
  any moment.
- An error that every function of the loader is handed and some replace: load
  methods that return early while their callers go on.
- A context that outlives a request, filled by a parser in pieces; names looked
  up by binary search in vectors that several loops fill.
- Services that hold requests, or pass them on, when they are stopped.
- `noderpc`: a coroutine that uses `main()`'s stack and returns early from many
  places, and a loop that only it can end.

**What makes each component correct.**

- Connection: nothing outlives its object; it is deleted once and never
  forgotten; the reads do not overlap; each request is answered once; the
  server goes on accepting.
- Handlers: nothing is done without the session it requires; a logout that was
  answered holds; a refusal has the cause it names; the arguments and statuses
  are those of doc/httpApi.md.
- Life cycle: every part is built, started, stopped and destroyed once and in
  this order; what `main()` starts is called only while it runs, and no longer runs
  when the parts are destroyed; an error of the configuration comes before
  anything is started; a signal has its effect. MiningStats, which `main()` does
  not start, is called only between its constructor and its destructor.
- Configuration loader: what is accepted is complete, what is refused has the
  fault that is reported.
- Routing: a request reaches the function and the part it names; what is refused
  is unknown or malformed.
- Service: no callback outlives the part whose thread runs it; one part at most
  works for a connection; a part works only while it runs; a request is answered
  unless the pool is stopped, and then it is still with a part, or unless
  MiningStats has no thread; no client keeps the pool from stopping.
- `noderpc`: a node is asked only what was checked; the tool ends.

PROJECT.json lists the hazards of the code line by line with the properties
that cover each.

## 2. Modules

### HttpConnection (and MCHttpConnection)

`conn`, `refs`, `Deleted`, `deletes` are the object's life, its reference count
and the calls of `close()` and `deleteAioObject`. `reads`, `writes`, `calls`
count the outstanding operations of a connection by stage; an ended operation
waits in `data`, `failed` or `done` until a thread takes its callback.
`oldDataSize`, `readAt`, `got` are the sizes that govern `buffer`. `pc` and `at`
say for every thread the next step and the connection it works for, so that a
callback is several actions wherever another thread may act in between:
`OnWrite` and `ParseReply` post an operation and `Leave` gives up the
callback's reference later; `Close` and `Delete` are the two halves of
`close()`; `ParsePin` and `Call` are the increment and the call of a handler;
`Answer`, `Reply`, `Release` are the callback of a service. `asked`, `written`,
`notFound` and `lost` are history for the properties.

The asynchronous I/O library and the HTTP parser are external. Assumed of the
library: an operation on a live object ends once; `deleteAioObject` cancels what
is outstanding; an operation posted to a deleted object ends as cancelled; a
callback holds its operation's reference. Assumed of the parser: it asks for
more, recognises a request, or fails, and never leaves more than it was given.

`BufferExclusive` is about what the two callbacks of two threads share: at most
one of a posted read and a thread in the parser has the connection's buffer.

`RequestAnswered` says that a reply is handed to `aioWrite`. Whether the bytes
reach the client is the library's; `ReplyNotCutOff` says that the server itself
does not cancel them, and excludes the reply of `reply404`, since the code
closes the connection at once after it.

### ConnectionLifetime

The abstract specification: a connection opens, takes one request at a time,
answers it once and is freed once, when it owes no answer. `HttpConnection`
implements it with `phase <- conn` and `owed <- asked - written`
(`LifetimeSpec`, a property of the run conn_race).

### ApiHandlers, ApiRequests, ApiContract (and MCApiRequests)

`ApiHandlers` is the table of the 38 handlers: required, optional and lenient
arguments, the checks in the order of the code with the status each gives, and
how the handler ends (it replies; it changes something and replies; it asks the
user manager at once; it calls a service that trusts it; it calls a service that
gets the session id and validates it again). An argument is absent, good or
mistyped; a coin, a column, an interval, an address are facts of the request
that hold or do not. `ApiRequests` runs requests of several clients through the
table while the sessions end by logout or expiry. `ApiContract` holds what
doc/httpApi.md says, as properties.

Each check is a step: the session is read by `validateSession` at one moment and
the change is made at a later one.

### PoolLifecycle (and MCPoolLifecycle)

`main` is the next step of `main()`, `watcher` that of the signal thread, `life`
the state of every part from "absent" to "destroyed", `httpThread` and `calling`
what each HTTP thread does, `process` how the process ended. The configuration
(`algorithm`, `links`) is chosen in `Init`: any assignment of algorithms to
coins and of coins to instances, a link to an unknown coin included. Every
`return 1` of the code is the disjunct `Fail` of its action. `EnableSmtp` may
crash (the null result of `gethostbyname` is dereferenced), and so does
`StopHttp` if `start()` had failed.

**MiningStats.** `main()` counts a thread for the "Complex mining stats service"
(`src/main.cpp:158`), constructs it (340) and then neither starts nor stops it;
`complexMiningStatsGetInfo` gives it a callback as other handlers do their parts
(`src/http.cpp:1956-1965`). `ComplexMiningStats` is poolcore's, so the repository
does not say whether its constructor starts that thread. `BuildPool` chooses: the
part is left "running", with a thread that only its destructor ends, or "built",
with none. Two things follow, which the properties say rather than exclude.
With a thread, it is the one part whose callbacks can still run when the
destructor of `poolContext` begins; it is the last member (`src/main.cpp:61`), so
its own destructor is the first, and is taken to end the thread. Without one, a
request of `complexMiningStatsGetInfo` is never answered.

### PartLife

The abstract specification of the life cycle, without signals, threads and the
order of the steps: a part is built, started, stopped and destroyed at most once
and in this order; the part in front is started when all that it calls runs, and
none of that is stopped, and nothing added to it, while it runs. A part that
nobody starts or stops (`Own`) need only be built for that; it may run from its
construction to its destruction. `PoolLifecycle` implements it with
`Front <- Http`, `served <- Callable` and `Own <- {Mining}`
(`PartsLiveInOrder`, a property of the run life_all); the HTTP server and the
monitor are constructed and started in one step (`Direct`).

### ConfigLoad, ConfigFields (and MCConfigLoad)

`ConfigLoad` is the loader as a machine that walks the document once. `part` and
`step` are the call of a load method and the member it looks at next; `error`
and `described` are the error and the text that `setErrorDescription` leaves;
`read` and `defaulted` say which members of the configuration got a value and
from where. `Skip`, `ReadField`, `Default`, `FieldMissing` and `FieldMistyped`
are the branches of the `jsonParse*` functions. The test for an object or an
array that must be there does not look at the error: it replaces it, and ends
`load()` (`DocumentIncomplete`) or only the coin's method (`CoinIncomplete`).
`ShareDiff` is read whatever the error, if the protocol is "stratum", which is a
choice here since texts are left out.

The module takes the order in which members are looked at as a constant;
`ConfigFields` is the table of the code, with as many coins, instances and
elements in each array as its constants say. A document is its faults: which members
are absent or mistyped. The elements of arrays are taken to be objects: the code
calls `HasMember` on them unchecked (a hazard of PROJECT.json).

### CoinRegistry, RequestRouting (and MCRequestRouting)

`CoinRegistry` is who has which name: `main()` makes a backend for each coin and
a server for each algorithm, sorts the backends and looks up the one an instance
is linked with; the server copies and sorts again. `LowerBound` is what
`std::lower_bound` returns on a sorted vector, `Lookup` the code around it. Names
are numbers, since only their order counts; equal names may come in any order.

`RequestRouting` adds the connection's `Context`: the method, each path element
and each piece of a body is an action, as the parser calls `onParse`. A body is a
sequence of tokens, cut anywhere. One function stands for each way to look up a
part; that the others differ is the subject of `ApiHandlers`. `path` and `text`
are history. Nothing clears `Context.Request`, so a second request on a connection
would be parsed with the body of the first in front of it; whether the external
parser gets that far is not decided in the repository, and the properties that
compare a reply with a body say so by `OwnBody`.

### PoolService (and MCPoolService)

The composition of `HttpConnection` and `PoolLifecycle`. Its variables are theirs
and `inbox`, the requests each part holds. An HTTP thread takes events and runs
callbacks while `PoolLifecycle` has it in its loop; `EnterPart` is one step of
both components (the handler pins the socket, the thread is in a call),
`LeavePart` the other. A part's thread runs callbacks from its start to its stop
(`Runs`), and `stop()` returns when the thread is between two callbacks
(`Joined`); a thread of MiningStats runs them until its destructor has joined it
in the same way. `Forward` is userEnumerateAll's second call, to a part that the
handler could have called itself (`Callable`) and that may have been stopped
meanwhile. SIGUSR1 is left to `PoolLifecycle`.

### NodeRpc

`type`, `coin`, `address`, `method`, `addresses` and `keys` are the options,
each read by an action in any order and any number of times; `args` the
arguments behind them, of which one may be bad. `Methods` is the table of the nine
coroutines: how many arguments they take and which they check. `main` and `coro`
are two program counters of one thread: `main()` goes on when the coroutine
suspends.

## 3. Runs

All bounds are constants of the cfg files.

| Run | Instance | What it shows |
|---|---|---|
| conn_race | 1 connection, 3 HTTP threads, 1 service, buffer of 3, 4 arrivals | `RefsAccount`, `NoUseAfterFree`, `DeletedOnce`, `NeverForgotten`, `BufferExclusive`, `WindowExact`, `ReplyNotCutOff`, `ClosedOwesNothing`, refinement of `ConnectionLifetime` |
| conn_live | 2 connections, 2 HTTP threads, 1 service, buffer of 1, 1 arrival | `RequestAnswered`, `ConnectionFreed`, `ListenerRearmed`, under `FairSpec` |
| service | 1 connection, 2 HTTP threads, 1 coin, buffer of 1, 2 arrivals | `QuietWhenDestroyed`, `OnePartPerConnection`, `UnansweredIsHeld`; `AnsweredOrInterrupted`, `EndsWithClients` under `ServiceFairSpec` |
| api_all | 1 client, every function, at most 2 arguments not good | `ValidatedBeforeUse`, `StatusJustified` |
| api_race | 2 clients with one session, a function of each way to use it | `LogoutFences` |
| api_arguments, api_status | 1 client, every function, at most 1 argument not good | counterexamples to doc/httpApi.md |
| life_all | 3 coins, 2 algorithms, 1 instance, 2 HTTP threads | `CallsFindTheirPart`, `SharedStatistic`, `PartsLiveInOrder` (refinement of `PartLife`); `InterruptEnds`, `UsrServed` under `FairSpec` |
| life_port_taken | 2 coins, 1 instance, 1 HTTP thread | counterexample to `InterruptStopsAll` |
| config_all | every member of the code, 1 coin, 1 instance, 1 element in each array | `AcceptedIsComplete`, `RefusedHasCause` |
| routing | 3 names, no coin to 2 coins, 2 requests, paths of 3 and bodies of 2 | `LinkedAsConfigured`, `RoutedAsAsked`, `RefusedForCause` |
| noderpc | every option, lists of at most 2, at most 7 arguments | `AskedWasChecked`, `ContextOutlivesCoroutine`; `MethodEnds` under `FairSpec` |

**Why the bounds are enough.** Connections share threads and the listener and
nothing else, so two are needed only to have a thread busy with the other one. A
connection has at most a read, a write and a request outstanding: three HTTP
threads run everything it can have at once, and conn_race can do with one
connection; conn_live and the proofs have more. A buffer of three holds a tail, new
data and room; four arrivals make partial reads before, and data after, a
complete request. The handlers do not compare arguments with each other, so two
arguments that are not good show every order of two checks; two clients are the
one that logs out and the one that races it. Three coins on two algorithms are
the fewest with a shared and an unshared statistic server. A document of
config_all has any one fault, or any two of which one is in a member that ends a
load method: only those replace an error, and further faults are skipped once an
error is known. In service, two HTTP threads let one be in a call while the other takes
the connection's next event; the user manager, a backend and a statistic server
are three parts that hold requests, and MiningStats is the fourth, with a thread
or without; two arrivals are a request and what comes
after it. In routing, the algorithm of coin 1 has the name of coin 2, and that of
coin 3 its own, so that all the ways two names can coincide are there; two coins
are the fewest that are sorted, equal or not; a path of three is one element more
than the API's, and of bodies of two tokens both the object and its wrong orders
are there. noderpc's longest method takes six arguments. The safety properties
hold without these bounds (section 5).

**Fairness.** `HttpConnection!FairSpec`: a callback that runs goes on (weak);
ready operations and requests are not passed over for ever (strong: the loops
and the services take events in order, but with several threads a given one is
enabled and disabled as they become idle and busy); a posted read ends, which is
the assumption that a client sends or disconnects, because the code sets no
timeout (`src/http.cpp:203`). Nothing is assumed of new connections.
`PoolService!ServiceFairSpec` assumes the same of the composition, of a part's
thread only while the part runs: a part that was given a connection's request
goes on with it (`PartServes`; one part at a time has it, which is
`OnePartPerConnection`). Nothing is assumed of a MiningStats without a
thread. `NodeRpc!FairSpec`: the tool's thread goes on when it can, and the
operation posted to the client ends, as its timeout is the client's.
`PoolLifecycle!FairSpec`: `main()` and the signal thread go on when they can,
calls of HTTP threads return, and a thread that comes back to its loop again
and again after the quit operation leaves it in the end (strong).
Signals are never assumed.

**Deadlock** is checked in every run. `Ended` in `PoolLifecycle` and `NodeRpc` and
`Over` in `PoolService` are the process that is no more, `Wait` in `NodeRpc` the
loop that waits for a node, `Finished` in `RequestRouting` a connection with no
more requests, `Returned` in `ConfigLoad` the loader that has returned; in
`HttpConnection` failing accepts remain possible for ever; in `ApiRequests` an
idle client may always call.

## 4. Mutations

Every property of a passing run has a mutation: a definition written the way a
plausible slip would make it, kept in the module next to the original
(`ReleaseWithoutDecrement`, `CloseAlways`, `JoinHttpAtOnce`, ...). TLC finds the
property violated when the mutation takes the original's place. No specification
refers to a mutation.

## 5. Proofs

Every invariant that a passing run checks is proved, and so are the two
refinements; what is left to TLC is liveness. Some properties are proved and not in
a run, because others that are say more: `NothingRunsWhenDestroyed`,
`NothingStartedOnError` and `OnlyPortTakenCrashes` of the life cycle (the first two
are the order of `PartsLiveInOrder` at the ends of the program) and
`WorksWhileServed` of the composition.

`HttpConnectionProofs` proves, for any finite number of connections, threads and
services and any positive buffer size:

| Theorem | Establishes |
|---|---|
| `TypeCorrect` | `Spec => []TypeOK`; offsets and tails stay within the buffer |
| `RefsAccountHolds` | `Spec => []RefsAccount` |
| `DeletedOnceHolds` | `Spec => []DeletedOnce` |
| `NoUseAfterFreeHolds` | `Spec => []NoUseAfterFree` |
| `NoLeakAfterDelete` | a live object on which `deleteAioObject` was called is held by something still to come |

Assumptions: `ConnsAssumption`, `ThreadsAssumption` and `BoundsAssumption` of
`HttpConnection`; TLC evaluates them in every run.

The inductive invariant is
`IInv == TypeOK /\ Working /\ RefsAccount /\ DeletedOnce /\ AliveWhileHeld`.
`NoUseAfterFree` is not inductive: that dropping a reference is safe follows only
from the exact account of who holds one. `RefsAccount` in turn needs `Working`
(a thread in a callback has a connection), `DeletedOnce` (the base reference is
given up once) and `AliveWhileHeld` (the object is live exactly while the count
is positive). For a step, `OneMoves` says how the size of a set of threads
changes when one thread moves, `ThreadMoves` applies it to the threads that
visit, pin or delete a connection, and `BalancedIsGood` closes every action in
which the count changes by as much as the sum of its holders. `InvStep` has a
step for each action.

`ConnectionLifetimeProofs` builds on it and proves, from the same assumptions:

| Theorem | Establishes |
|---|---|
| `ChainHolds` | `Spec => []CInv`, the inductive invariant |
| `NeverForgottenHolds` | `Spec => []NeverForgotten` |
| `BufferExclusiveHolds` | `Spec => []BufferExclusive` |
| `WindowExactHolds` | `Spec => []WindowExact` |
| `ReplyNotCutOffHolds` | `Spec => []ReplyNotCutOff` |
| `ClosedOwesNothingHolds` | `Spec => []ClosedOwesNothing` |
| `ImplementsLifetime` | `Spec => LifetimeSpec`, the refinement of `ConnectionLifetime` |

None of these is inductive. What is behind all of them is that whatever is under
way on a connection is one chain: an operation posted, or its callback, or a
request at a service, each of which begins the next as its last act.
`CInv == IInv /\ \A c \in Conns : Chain(c)` adds this to the invariant above.
`Alone` says that besides callbacks about to return there is one thing under way
at most (or the reply of a `reply404` and the closing beside it), `Owes` counts
what is owed against what is asked and written, `Driven` says that an open
connection is driven on, and `Closed`, `Cut` and `Window` what holds of a deleted
one, of replies and of the buffer. The chain is kept step by step (`ChainStep`),
and the refinement follows: a request is taken when nothing is owed, and freeing
comes when nothing is left.

`PoolLifecycleProofs` proves, for any configuration and any number of coins,
algorithms, instances and HTTP threads (`HttpThreadsAssumption`,
`NamesAssumption`):

| Theorem | Establishes |
|---|---|
| `LifeTypeCorrect` | `Spec => []TypeOK` |
| `CallsFindTheirPartHolds` | `Spec => []CallsFindTheirPart` |
| `NothingRunsWhenDestroyedHolds` | `Spec => []NothingRunsWhenDestroyed` |
| `NothingStartedOnErrorHolds` | `Spec => NothingStartedOnError` |
| `SharedStatisticHolds` | `Spec => []SharedStatistic` |
| `PartsLiveInOrderHolds` | `Spec => PartsLiveInOrder`, the refinement of `PartLife` |
| `HttpIsServedHolds` | while the HTTP server runs, all that its handlers may call run, but for MiningStats, which is built or runs |
| `OnlyPortTakenCrashesHolds` | `Spec => []OnlyPortTakenCrashes` |

What the HTTP threads call is not decided by the thread that stops the parts, so
neither invariant is inductive. The inductive `IInv` says of each part how far
`main()` and the signal thread are when it runs (`Marked`, one conjunct for each
kind of part), that HTTP threads are in their loop or in a call only while the
server runs, and that nothing is called once the program failed or exited.
`MarkedStep` has a step for each action; `EndsBy` says which steps end the
program. `NothingStartedOnErrorHolds` uses one more invariant, `NotStarted`:
while `main()` builds, every part but MiningStats is absent or built.
`MiningAsMarked` says that MiningStats is absent until it is built and never
stopped. `SharedStatisticHolds` has a strengthening of its own,
`StatisticsAsBuilt`: an algorithm's server is that of one of its coins
(`ServersOfAlgorithms`), and no instance is linked before every coin has a server
(`CoinsServed`, `InstancesLinked`); the type check of the code, that linked coins
agree on their algorithm, is then what makes the instance's server theirs.

For the refinement, `Marked` says too little: it says what runs, not what is
already built and not yet started. `Staged` adds this, part by part: once `main()`
is about to start a part, it is built; from then on it runs until the signal
thread stops it (`StagedStep`). `BuildInOrder`, `StartInOrder`, `StopInOrder` and
`DestroyInOrder` are the four actions of `PartLife`, and `InOrderStep` takes each
action of `PoolLifecycle` to one of them or to a stutter. `HttpIsServedHolds` is
proved of `PartLife` alone and carried over by the refinement.
`OnlyPortTakenCrashesHolds` bounds finding 1: with `EndsAsInterrupted`, which
says what ends come before the signals have their handlers, and `Staged`, which
says that a server not running before its stop is one that `start()` left, no
other crash is possible once the program was interrupted.

`PoolServiceProofs` proves, for any finite number of connections and coins, and
any number of HTTP threads and parts (the assumptions of `PoolLifecycle`;
`ServiceAssumption`: a thread is not both an HTTP thread and that of a part; and
`ConnectionsAssumption`, which is what `HttpConnection` assumes of connections
and buffer):

| Theorem | Establishes |
|---|---|
| `ServiceLivesAsPool` | `ServiceSpec => Spec`: the composition is a behaviour of `PoolLifecycle` |
| `ServiceServesAsHttp` | `ServiceSpec => Conn!Spec`: and of `HttpConnection` |
| `ServiceKeepsConnections` | the invariants of `HttpConnection` hold of the connections of the composition |
| `ServiceImplementsLifetime` | `ServiceSpec => Conn!LifetimeSpec`: so does the refinement of `ConnectionLifetime` |
| `ServiceTypeCorrect` | `ServiceSpec => []ServiceTypeOK` |
| `QuietWhenDestroyedHolds` | `ServiceSpec => []QuietWhenDestroyed` |
| `OnePartPerConnectionHolds` | `ServiceSpec => []OnePartPerConnection` |
| `WorksWhileServedHolds` | `ServiceSpec => []WorksWhileServed` |
| `UnansweredIsHeldHolds` | `ServiceSpec => []UnansweredIsHeld` |

By the first two, what is proved of each component holds of the two together: the
starting and stopping of threads only removes behaviours of the connections.
`QuietWhenDestroyedHolds` takes `IInv`, `NotStarted` and
`NothingRunsWhenDestroyed` from `PoolLifecycleProofs` and needs one invariant
more, `Serving`: an HTTP thread in a callback is in its loop or in a call, a part
whose thread is in one runs; `Joined` keeps it when a part stops. When the
destructors begin, a callback of MiningStats may be under way; `DestroyIsQuiet`
is the step that waits for it, and `AllIdle` what holds from then on.

The theorems about connections are taken over whole: `Chains` instantiates
`ConnectionLifetimeProofs` with the variables of the composition, `SameStep` says
that its next-state relation is the one `PoolService` uses,
`ConnectionsAsAssumed` proves its assumptions, and `ServesAsChains` that the
composition behaves as it says. What the parts hold is tied to this by the
invariant `Held`: a request that `HttpConnection` counts as being at a service is
in the inbox of exactly one part, one that may be called, and none is there
before the HTTP server was started (`HeldAt`). It is not inductive without `CInv`,
by which a connection has one request at a part at most (`OneRequest`);
`GivenIsHeld`, `ForwardedIsHeld` and `AnsweredIsNotHeld` are its three steps.
`RunsWhileServed` of the life cycle says that such a part runs, or is a MiningStats
without a thread; no other part is in a callback when the destructors run, so that
what is not answered then is in an inbox or with MiningStats.

`ApiRequestsProofs` proves, for any number of clients and session ids, any
functions offered and any number of faulty arguments (`OfferedAssumption`,
`IdsAssumption`):

| Theorem | Establishes |
|---|---|
| `RequestsTypeCorrect` | `Spec => []TypeOK` |
| `LogoutFencesHolds` | `Spec => []LogoutFences` |
| `ValidatedBeforeUseHolds` | `Spec => []ValidatedBeforeUse` |
| `StatusJustifiedHolds` | `Spec => []StatusJustified` |

The table is first made into facts: `ChecksAre` lists the checks of each handler,
`SessionIsChecked` and `RightsAreTested` that those which act by their own trust
check the session and the rights, `ChecksHaveCause` that each check is one its
handler can fail for a cause. The invariant `RequestsSound` says of each request
that its checks to come are a tail of its handler's, that those passed were
passed (`Screened`), and what the session was when it was looked at (`Valid`,
`Outdated`, `Fenced`).

`RequestRoutingProofs` proves, for any list of coins, any names and algorithms and
any bounds (`RegistryAssumption`, `RoutingAssumption`):

| Theorem | Establishes |
|---|---|
| `RoutingTypeCorrect` | `Spec => []TypeOK` |
| `LinkedAsConfiguredHolds` | `Spec => []LinkedAsConfigured` |
| `RoutedAsAskedHolds` | `Spec => []RoutedAsAsked` |
| `RefusedForCauseHolds` | `Spec => []RefusedForCause` |

`LowerBoundFinds` and `LookupFinds` say that the lookup in a sorted vector finds a
name if it is there and nothing otherwise, `SortSorts` that the vectors are
sorted. `RInv` says what the vectors hold at each stage, `QInv` what the context
of a request is after each piece of it.

`NodeRpcProofs` proves, for any bounds of the options (`NodeRpcAssumption`):

| Theorem | Establishes |
|---|---|
| `ToolTypeCorrect` | `Spec => []TypeOK` |
| `AskedWasCheckedHolds` | `Spec => []AskedWasChecked` |
| `ContextOutlivesCoroutineHolds` | `Spec => []ContextOutlivesCoroutine` |

The invariant relates the two program counters (`Phases`: where `main()` can be
while the coroutine is where it is) and keeps what each check has shown
(`Checked`).

`ConfigLoadProofs` proves, for any document and any order of the load methods'
steps (`PartsAssumption`, `DocumentsAssumption`), hence for any number of coins,
instances and array elements:

| Theorem | Establishes |
|---|---|
| `ConfigTypeCorrect` | `Spec => []TypeOK` |
| `AcceptedIsCompleteHolds` | `Spec => []AcceptedIsComplete` |
| `RefusedHasCauseHolds` | `Spec => []RefusedHasCause` |
| `CodeIsSteps` | the table of the code (`ConfigFields`) is such an order, whatever its sizes |

The strengthening is `DoneSoFar`: while no error is known, every step before the
next one has filled its place. It is what makes a method that returns early
harmless, since it never returns early without an error. `CodeIsSteps` discharges
`PartsAssumption`, which TLC evaluates for one size of the arrays only: the load
methods put together by `ConfigFields` are sequences of steps for every size
(`SizesAssumption`; one size for the arrays of all coins).

Only model-checked are the liveness properties, since TLAPS 1.4.5 proves none
under fairness: `RequestAnswered`, `ConnectionFreed`, `ListenerRearmed`,
`InterruptEnds`, `UsrServed`, `MethodEnds`, `AnsweredOrInterrupted` and
`EndsWithClients`. No definition that a proof is about is recursive.

## 6. Findings

1. **code**: `main()` ignores that `HttpServer->start()` failed (`src/main.cpp:411`).
   A pool whose port is taken runs without API, and on SIGINT
   `PoolHttpServer::stop` joins threads that were never allocated and crashes
   with everything else running (life_port_taken).
2. **doc**: the arguments are not what doc/httpApi.md marks and announces
   (api_arguments): the `[optional]` `targetLogin` of `userChangeFeePlan` is
   required, which the trace shows; many arguments marked `[required]` have default
   values; and a mistyped `coinSpecificFee` is ignored, where line 43 announces
   `json_format_error`.
3. **doc**: `userUpdateSettings` and `userEnumerateAll` reply statuses that
   their lists lack (api_status).

Not in a run: doc/httpApi.md:929-930 and 1057-1058 give defaults of `timeFrom`
and `timeTo` that the code does not have (it uses the last 24 hours); default
values are not modelled. `noderpc` reports that user and password "must be
specified" only if their pointers are null (`src/noderpc.cpp:372`), which they never
are: a client without credentials is created.

## 7. Not modelled

- The members of replies, default values of arguments and the queries of the
  services: data that no property tells apart.
- The texts of requests: bodies are tokens, paths are elements.
- What the services and the I/O library do inside.
- The widths of intervals: the check of `groupByInterval` (`src/http.cpp:1782`) lets
  negative values pass and the products of minutes (`src/main.cpp:253-257`) wrap
  around, but which values are legal is said nowhere in the repository, and only
  poolcore uses them: there is nothing to check the code against. They are listed
  as hazards.
- Elements of arrays of the configuration that are no objects: what rapidjson makes
  of them depends on how it was built.
- `passwordHash`: one call, one result printed, no state.
- Vendored getopt, the build files and the Python scripts.

## 8. Plan

Done in this order: `HttpConnection`, its abstract specification and proofs; the
API handlers; the life cycle and its proofs; the configuration loader and its
proofs; `noderpc`; the composition of connections and life cycle; registry and
routing; the proofs of these, of the connection's refinement and of the API
requests. Left:

1. Default values of arguments and the members of replies, where doc/httpApi.md
   states them: data beside the control that is modelled.
2. An abstract specification of the session (who may do what, until when) that
   `ApiRequests` implements, of which `LogoutFences` would be a consequence, as
   `HttpIsServedHolds` is one of `PartLife`.
