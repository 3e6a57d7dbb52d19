--------------------------- MODULE HttpConnection ---------------------------
(***************************************************************************)
(* The HTTP server of the pool frontend: src/src/http.cpp and http.h.      *)
(*                                                                         *)
(* A PoolHttpConnection lives exactly as long as the reference count of    *)
(* its socket object is positive; the socket's destructor callback deletes *)
(* it.  The references are the one newSocketIo returns (given up by        *)
(* deleteAioObject), one for every asynchronous operation until its        *)
(* callback has returned, and one that a request handler takes before it   *)
(* gives a callback to a service and the callback gives up at its end.     *)
(* All the threads of the server run callbacks of all the connections, so  *)
(* two callbacks of one connection can run at the same time.               *)
(*                                                                         *)
(* The asynchronous I/O library is not part of the repository.  What it    *)
(* does is modelled from its use here: an operation on a live object ends  *)
(* once, deleteAioObject cancels what is outstanding, an operation posted  *)
(* to a deleted object is cancelled at once, and a callback that runs      *)
(* holds its operation's reference.                                        *)
(***************************************************************************)
EXTENDS Integers, FiniteSets

CONSTANTS
  Conns,        \* the connections ever accepted
  HttpThreads,  \* threads in asyncLoop(Base_)
  Services,     \* threads of the user manager, backends and statistic servers
  NoConn,       \* a thread that runs no callback of a connection
  BufSize,      \* sizeof(buffer)
  MaxArrivals   \* bound: how many reads of one connection return data

ASSUME ConnsAssumption == IsFiniteSet(Conns) /\ NoConn \notin Conns
ASSUME ThreadsAssumption == /\ IsFiniteSet(HttpThreads)
                            /\ IsFiniteSet(Services)
                            /\ HttpThreads \cap Services = {}
ASSUME BoundsAssumption == BufSize \in Nat \ {0} /\ MaxArrivals \in Nat

VARIABLES
  conn,         \* "absent", "live", or "freed" by the destructor callback
  refs,         \* reference count of Socket_
  Deleted,      \* Deleted_, the calls of close()
  deletes,      \* the calls of deleteAioObject
  shut,         \* onWrite has shut the socket down
  reads,        \* aioRead operations: pending, or ended and not yet called back
  writes,       \* aioWrite operations, the same
  calls,        \* requests handed to a service; "chained" ones make a second call
  oldDataSize,  \* length of the unparsed tail at the start of buffer
  readAt,       \* offset in buffer of the last aioRead
  got,          \* bytes returned by the read that ended last
  arrivals,     \* how many reads returned data
  listener,     \* is an accept posted on the listening socket?
  pc, at,       \* per thread: the next step, and the connection it works for
  asked,        \* history: requests recognised by onParse
  written,      \* history: replies given to aioWrite
  notFound,     \* history: replies written by reply404
  lost          \* history: replies cancelled or cut by the server itself

lifeVars  == <<conn, refs, Deleted, deletes>>
opVars    == <<shut, reads, writes, calls>>
dataVars  == <<oldDataSize, readAt, got, arrivals>>
runVars   == <<listener, pc, at>>
watchVars == <<asked, written, notFound, lost>>
vars == <<lifeVars, opVars, dataVars, runVars, watchVars>>

Threads == HttpThreads \cup Services
HttpPCs == {"idle", "rearm", "parse", "call", "close", "delete", "wrote", "leave"}
ServicePCs == {"idle", "answer", "release"}
Readings == [pending : Nat, data : Nat, failed : Nat]
Writings == [pending : Nat, done : Nat]
Requests == [plain : Nat, chained : Nat]

TypeOK ==
  /\ conn \in [Conns -> {"absent", "live", "freed"}]
  /\ refs \in [Conns -> Int]
  /\ Deleted \in [Conns -> Nat]
  /\ deletes \in [Conns -> Nat]
  /\ shut \in [Conns -> BOOLEAN]
  /\ reads \in [Conns -> Readings]
  /\ writes \in [Conns -> Writings]
  /\ calls \in [Conns -> Requests]
  /\ oldDataSize \in [Conns -> 0..BufSize]
  /\ readAt \in [Conns -> 0..BufSize]
  /\ got \in [Conns -> 0..BufSize]
  /\ arrivals \in [Conns -> Nat]
  /\ listener \in {"armed", "busy"}
  /\ pc \in [Threads -> HttpPCs \cup ServicePCs]
  /\ at \in [Threads -> Conns \cup {NoConn}]
  /\ asked \in [Conns -> Nat]
  /\ written \in [Conns -> Nat]
  /\ notFound \in [Conns -> Nat]
  /\ lost \in [Conns -> Nat]

Init ==
  /\ conn = [c \in Conns |-> "absent"]
  /\ refs = [c \in Conns |-> 0]
  /\ Deleted = [c \in Conns |-> 0]
  /\ deletes = [c \in Conns |-> 0]
  /\ shut = [c \in Conns |-> FALSE]
  /\ reads = [c \in Conns |-> [pending |-> 0, data |-> 0, failed |-> 0]]
  /\ writes = [c \in Conns |-> [pending |-> 0, done |-> 0]]
  /\ calls = [c \in Conns |-> [plain |-> 0, chained |-> 0]]
  /\ oldDataSize = [c \in Conns |-> 0]
  /\ readAt = [c \in Conns |-> 0]
  /\ got = [c \in Conns |-> 0]
  /\ arrivals = [c \in Conns |-> 0]
  /\ listener = "armed"
  /\ pc = [t \in Threads |-> "idle"]
  /\ at = [t \in Threads |-> NoConn]
  /\ asked = [c \in Conns |-> 0]
  /\ written = [c \in Conns |-> 0]
  /\ notFound = [c \in Conns |-> 0]
  /\ lost = [c \in Conns |-> 0]

-----------------------------------------------------------------------------
(* Steps of which the actions are made.                                    *)

Goto(t, label) == pc' = [pc EXCEPT ![t] = label] /\ UNCHANGED <<at, listener>>
Visit(t, c, label) == /\ pc' = [pc EXCEPT ![t] = label]
                      /\ at' = [at EXCEPT ![t] = c]
                      /\ UNCHANGED listener

\* An increment of the reference count.
TakeRef(c) == refs' = [refs EXCEPT ![c] = @ + 1] /\ UNCHANGED conn

\* A decrement of it; the last one runs the destructor callback.
DropRef(c) ==
  /\ refs' = [refs EXCEPT ![c] = @ - 1]
  /\ conn' = [conn EXCEPT ![c] = IF refs[c] = 1 THEN "freed" ELSE @]

\* aioRead(Socket_, buffer + offset, ...): cancelled at once on a deleted object.
PostRead(c, offset) ==
  /\ TakeRef(c)
  /\ reads' = IF deletes[c] = 0
                THEN [reads EXCEPT ![c].pending = @ + 1]
                ELSE [reads EXCEPT ![c].failed = @ + 1]
  /\ readAt' = [readAt EXCEPT ![c] = offset]

\* aioWrite(Socket_, ...): the same.
PostWrite(c) ==
  /\ TakeRef(c)
  /\ writes' = IF deletes[c] = 0
                 THEN [writes EXCEPT ![c].pending = @ + 1]
                 ELSE [writes EXCEPT ![c].done = @ + 1]
  /\ written' = [written EXCEPT ![c] = @ + 1]

\* Replies on their way when the server closes or shuts an open socket.
CutOff(c) == lost' = [lost EXCEPT ![c] = IF shut[c] THEN @ ELSE @ + writes[c].pending]

-----------------------------------------------------------------------------
(* Mutations: forms of the actions below that a slip in the code would     *)
(* give them.  No specification uses them; a property that none of them    *)
(* breaks would say nothing about the code.                                *)

\* The callback of a service ends without objectDecrementReference.
ReleaseWithoutDecrement(s) ==
  /\ pc[s] = "release"
  /\ Visit(s, NoConn, "idle")
  /\ UNCHANGED <<lifeVars, opVars, dataVars, watchVars>>

\* A handler calls the service without objectIncrementReference.
ParseWithoutPin(t) ==
  /\ pc[t] = "parse"
  /\ asked' = [asked EXCEPT ![at[t]] = @ + 1]
  /\ Goto(t, "call")
  /\ UNCHANGED <<lifeVars, opVars, dataVars, written, notFound, lost>>

\* A failed validation replies and the handler goes on to call the service.
ParsePinAfterReply(t) == LET c == at[t] IN
  /\ pc[t] = "parse"
  /\ refs' = [refs EXCEPT ![c] = @ + 2]
  /\ writes' = [writes EXCEPT ![c].pending = @ + 1]
  /\ written' = [written EXCEPT ![c] = @ + 1]
  /\ asked' = [asked EXCEPT ![c] = @ + 1]
  /\ Goto(t, "call")
  /\ UNCHANGED <<conn, Deleted, deletes, shut, reads, calls, dataVars, notFound, lost>>

\* close() without the test of Deleted_.
CloseAlways(t) ==
  /\ pc[t] = "close"
  /\ Deleted' = [Deleted EXCEPT ![at[t]] = @ + 1]
  /\ Goto(t, "delete")
  /\ UNCHANGED <<conn, refs, deletes, opVars, dataVars, watchVars>>

\* onWrite without the read that finds the end of the connection.
OnWriteWithoutRead(t) == LET c == at[t] IN
  /\ pc[t] = "wrote"
  /\ shut' = [shut EXCEPT ![c] = TRUE]
  /\ CutOff(c)
  /\ Goto(t, "leave")
  /\ UNCHANGED <<lifeVars, reads, writes, calls, dataVars, asked, written, notFound>>

\* The case of ParserResultOk falls through to the next one.
ParseReplyAndRead(t) == LET c == at[t] IN
  /\ pc[t] = "parse"
  /\ PostWrite(c)
  /\ reads' = [reads EXCEPT ![c].pending = @ + 1]
  /\ asked' = [asked EXCEPT ![c] = @ + 1]
  /\ Goto(t, "leave")
  /\ UNCHANGED <<Deleted, deletes, shut, calls, dataVars, notFound, lost>>

\* A handler that replied makes the parser stop: ParserResultCancelled.
ParseReplyAndClose(t) == LET c == at[t] IN
  /\ pc[t] = "parse"
  /\ PostWrite(c)
  /\ asked' = [asked EXCEPT ![c] = @ + 1]
  /\ Goto(t, "close")
  /\ UNCHANGED <<Deleted, deletes, shut, reads, calls, dataVars, notFound, lost>>

\* The same of a handler that has called a service.
CallAndClose(t) ==
  /\ pc[t] = "call"
  /\ calls' = [calls EXCEPT ![at[t]].plain = @ + 1]
  /\ Goto(t, "close")
  /\ UNCHANGED <<lifeVars, shut, reads, writes, dataVars, watchVars>>

\* The read for more data goes to the start of buffer, over the tail.
ParseNeedMoreAtStart(t) == LET c == at[t] IN
  /\ pc[t] = "parse"
  /\ \E tail \in 0..BufSize : /\ tail <= got[c] + oldDataSize[c]
                              /\ oldDataSize' = [oldDataSize EXCEPT ![c] = tail]
  /\ PostRead(c, 0)
  /\ Goto(t, "leave")
  /\ UNCHANGED <<Deleted, deletes, shut, writes, calls, got, arrivals, watchVars>>

\* The tail is added to oldDataSize instead of replacing it.
ParseNeedMoreAdding(t) == LET c == at[t] IN
  /\ pc[t] = "parse"
  /\ \E tail \in 0..BufSize :
       /\ tail <= got[c] + oldDataSize[c]
       /\ oldDataSize' = [oldDataSize EXCEPT ![c] = @ + tail]
       /\ PostRead(c, tail)
  /\ Goto(t, "leave")
  /\ UNCHANGED <<Deleted, deletes, shut, writes, calls, got, arrivals, watchVars>>

\* The first callback of userEnumerateAll returns without the second call.
ForwardNothing(s, c) ==
  /\ s \in Services /\ pc[s] = "idle" /\ calls[c].chained > 0
  /\ calls' = [calls EXCEPT ![c].chained = @ - 1]
  /\ UNCHANGED <<lifeVars, shut, reads, writes, dataVars, runVars, watchVars>>

\* acceptCb waits for a connection in a loop instead of posting an accept.
RearmInALoop(t) == pc[t] = "rearm" /\ UNCHANGED vars

-----------------------------------------------------------------------------
(* PoolHttpServer::acceptCb.                                               *)

\* status = aosSuccess: newSocketIo, new PoolHttpConnection, run().
AcceptOk(t, c) ==
  /\ listener = "armed" /\ t \in HttpThreads /\ pc[t] = "idle" /\ conn[c] = "absent"
  /\ conn' = [conn EXCEPT ![c] = "live"]
  /\ refs' = [refs EXCEPT ![c] = 2]
  /\ reads' = [reads EXCEPT ![c].pending = 1]
  /\ listener' = "busy"
  /\ pc' = [pc EXCEPT ![t] = "rearm"]
  /\ UNCHANGED <<Deleted, deletes, shut, writes, calls, dataVars, at, watchVars>>

AcceptFails(t) ==
  /\ listener = "armed" /\ t \in HttpThreads /\ pc[t] = "idle"
  /\ listener' = "busy"
  /\ pc' = [pc EXCEPT ![t] = "rearm"]
  /\ UNCHANGED <<lifeVars, opVars, dataVars, at, watchVars>>

\* The aioAccept at the end of the callback.
Rearm(t) ==
  /\ pc[t] = "rearm"
  /\ listener' = "armed"
  /\ pc' = [pc EXCEPT ![t] = "idle"]
  /\ UNCHANGED <<lifeVars, opVars, dataVars, at, watchVars>>

-----------------------------------------------------------------------------
(* readCb / onRead.                                                        *)

\* status = aosSuccess: httpRequestSetBuffer, then httpRequestParse.
ReadOk(t, c) ==
  /\ t \in HttpThreads /\ pc[t] = "idle" /\ reads[c].data > 0
  /\ reads' = [reads EXCEPT ![c].data = @ - 1]
  /\ Visit(t, c, "parse")
  /\ UNCHANGED <<lifeVars, shut, writes, calls, dataVars, watchVars>>

\* status # aosSuccess: close().
ReadFailed(t, c) ==
  /\ t \in HttpThreads /\ pc[t] = "idle" /\ reads[c].failed > 0
  /\ reads' = [reads EXCEPT ![c].failed = @ - 1]
  /\ Visit(t, c, "close")
  /\ UNCHANGED <<lifeVars, shut, writes, calls, dataVars, watchVars>>

\* ParserResultNeedMoreData: the tail moves to the start of buffer and the
\* next read goes behind it.  The parser never leaves more than its buffer.
ParseNeedMore(t) == LET c == at[t] IN
  /\ pc[t] = "parse"
  /\ \E tail \in 0..BufSize :
       /\ tail <= got[c] + oldDataSize[c]
       /\ oldDataSize' = [oldDataSize EXCEPT ![c] = tail]
       /\ PostRead(c, tail)
  /\ Goto(t, "leave")
  /\ UNCHANGED <<Deleted, deletes, shut, writes, calls, got, arrivals, watchVars>>

\* ParserResultError.
ParseError(t) ==
  /\ pc[t] = "parse"
  /\ Goto(t, "close")
  /\ UNCHANGED <<lifeVars, opVars, dataVars, watchVars>>

\* onParse: reply404() and return 0, which is ParserResultCancelled.
ParseNotFound(t) == LET c == at[t] IN
  /\ pc[t] = "parse"
  /\ PostWrite(c)
  /\ asked' = [asked EXCEPT ![c] = @ + 1]
  /\ notFound' = [notFound EXCEPT ![c] = @ + 1]
  /\ Goto(t, "close")
  /\ UNCHANGED <<Deleted, deletes, shut, reads, calls, dataVars, lost>>

\* A complete request whose handler replies itself (invalid_json, a failed
\* validation, a query that needs no service), then ParserResultOk.
ParseReply(t) == LET c == at[t] IN
  /\ pc[t] = "parse"
  /\ PostWrite(c)
  /\ asked' = [asked EXCEPT ![c] = @ + 1]
  /\ Goto(t, "leave")
  /\ UNCHANGED <<Deleted, deletes, shut, reads, calls, dataVars, notFound, lost>>

\* A complete request whose handler calls a service: objectIncrementReference.
ParsePin(t) == LET c == at[t] IN
  /\ pc[t] = "parse"
  /\ TakeRef(c)
  /\ asked' = [asked EXCEPT ![c] = @ + 1]
  /\ Goto(t, "call")
  /\ UNCHANGED <<Deleted, deletes, opVars, dataVars, written, notFound, lost>>

\* ... then the call itself, and ParserResultOk.
Call(t) == LET c == at[t] IN
  /\ pc[t] = "call"
  /\ \/ calls' = [calls EXCEPT ![c].plain = @ + 1]
     \/ calls' = [calls EXCEPT ![c].chained = @ + 1]
  /\ Goto(t, "leave")
  /\ UNCHANGED <<lifeVars, shut, reads, writes, dataVars, watchVars>>

\* close(): the caller that finds Deleted_ zero deletes the object.
Close(t) == LET c == at[t] IN
  /\ pc[t] = "close"
  /\ Deleted' = [Deleted EXCEPT ![c] = @ + 1]
  /\ Goto(t, IF Deleted[c] = 0 THEN "delete" ELSE "leave")
  /\ UNCHANGED <<conn, refs, deletes, opVars, dataVars, watchVars>>

\* deleteAioObject(Socket_): outstanding operations end as cancelled, the
\* reference of newSocketIo is given up.
Delete(t) == LET c == at[t] IN
  /\ pc[t] = "delete"
  /\ deletes' = [deletes EXCEPT ![c] = @ + 1]
  /\ reads' = [reads EXCEPT ![c] = [pending |-> 0, data |-> @.data,
                                    failed |-> @.failed + @.pending]]
  /\ writes' = [writes EXCEPT ![c] = [pending |-> 0, done |-> @.done + @.pending]]
  /\ CutOff(c)
  /\ DropRef(c)
  /\ Goto(t, "leave")
  /\ UNCHANGED <<Deleted, shut, calls, dataVars, asked, written, notFound>>

\* The callback returns and its operation gives up its reference.
Leave(t) ==
  /\ pc[t] = "leave"
  /\ DropRef(at[t])
  /\ Visit(t, NoConn, "idle")
  /\ UNCHANGED <<Deleted, deletes, opVars, dataVars, watchVars>>

-----------------------------------------------------------------------------
(* writeCb / onWrite: the same whatever the status of the write.           *)

WriteEnded(t, c) ==
  /\ t \in HttpThreads /\ pc[t] = "idle" /\ writes[c].done > 0
  /\ writes' = [writes EXCEPT ![c].done = @ - 1]
  /\ Visit(t, c, "wrote")
  /\ UNCHANGED <<lifeVars, shut, reads, calls, dataVars, watchVars>>

\* socketShutdown, and a read from the start of buffer that finds the end.
OnWrite(t) == LET c == at[t] IN
  /\ pc[t] = "wrote"
  /\ shut' = [shut EXCEPT ![c] = TRUE]
  /\ CutOff(c)
  /\ PostRead(c, 0)
  /\ Goto(t, "leave")
  /\ UNCHANGED <<Deleted, deletes, writes, calls, oldDataSize, got, arrivals,
                 asked, written, notFound>>

-----------------------------------------------------------------------------
(* The threads of the services.                                            *)

\* A service has the answer and runs the callback of the handler.
Answer(s, c) ==
  /\ s \in Services /\ pc[s] = "idle" /\ calls[c].plain > 0
  /\ calls' = [calls EXCEPT ![c].plain = @ - 1]
  /\ Visit(s, c, "answer")
  /\ UNCHANGED <<lifeVars, shut, reads, writes, dataVars, watchVars>>

\* userEnumerateAll: the first callback only calls the statistic server.
Forward(s, c) ==
  /\ s \in Services /\ pc[s] = "idle" /\ calls[c].chained > 0
  /\ calls' = [calls EXCEPT ![c] = [plain |-> @.plain + 1, chained |-> @.chained - 1]]
  /\ UNCHANGED <<lifeVars, shut, reads, writes, dataVars, runVars, watchVars>>

\* The callback writes the reply.
Reply(s) == LET c == at[s] IN
  /\ pc[s] = "answer"
  /\ PostWrite(c)
  /\ Goto(s, "release")
  /\ UNCHANGED <<Deleted, deletes, shut, reads, calls, dataVars, asked, notFound, lost>>

\* objectDecrementReference at its end.
Release(s) ==
  /\ pc[s] = "release"
  /\ DropRef(at[s])
  /\ Visit(s, NoConn, "idle")
  /\ UNCHANGED <<Deleted, deletes, opVars, dataVars, watchVars>>

-----------------------------------------------------------------------------
(* The client and the operating system.                                    *)

\* Bytes arrive, before or (data already received) after the shutdown.
ReadArrives(c) ==
  /\ reads[c].pending > 0 /\ arrivals[c] < MaxArrivals
  /\ \E n \in 1..(BufSize - readAt[c]) : got' = [got EXCEPT ![c] = n]
  /\ arrivals' = [arrivals EXCEPT ![c] = @ + 1]
  /\ reads' = [reads EXCEPT ![c].pending = @ - 1, ![c].data = @ + 1]
  /\ UNCHANGED <<lifeVars, shut, writes, calls, oldDataSize, readAt, runVars, watchVars>>

\* The client disconnects, or the socket is shut down, or no room is left.
ReadFails(c) ==
  /\ reads[c].pending > 0
  /\ reads' = [reads EXCEPT ![c].pending = @ - 1, ![c].failed = @ + 1]
  /\ UNCHANGED <<lifeVars, shut, writes, calls, dataVars, runVars, watchVars>>

\* The reply is sent, or the client has gone.
WriteEnds(c) ==
  /\ writes[c].pending > 0
  /\ writes' = [writes EXCEPT ![c] = [pending |-> @.pending - 1, done |-> @.done + 1]]
  /\ UNCHANGED <<lifeVars, shut, reads, calls, dataVars, runVars, watchVars>>

-----------------------------------------------------------------------------
\* A thread goes on with the callback it runs.
Continue(t) ==
  \/ Rearm(t) \/ ParseNeedMore(t) \/ ParseError(t) \/ ParseNotFound(t)
  \/ ParseReply(t) \/ ParsePin(t) \/ Call(t) \/ Close(t) \/ Delete(t)
  \/ Leave(t) \/ OnWrite(t) \/ Reply(t) \/ Release(t)

\* A thread takes an ended operation, or a service a request.
Dispatch(t, c) ==
  \/ ReadOk(t, c) \/ ReadFailed(t, c) \/ WriteEnded(t, c)
  \/ Answer(t, c) \/ Forward(t, c)

Outside(c) == ReadArrives(c) \/ ReadFails(c) \/ WriteEnds(c)

Next ==
  \/ \E t \in Threads : AcceptFails(t) \/ Continue(t)
  \/ \E t \in Threads, c \in Conns : AcceptOk(t, c) \/ Dispatch(t, c)
  \/ \E c \in Conns : Outside(c)

Spec == Init /\ [][Next]_vars

(* A running callback goes on, an event that is ready is not overtaken     *)
(* forever (the loops and the services take their events in order), and a  *)
(* client sends something or disconnects: the code sets no timeout.        *)
FairSpec ==
  /\ Spec
  /\ \A t \in Threads : WF_vars(Continue(t))
  /\ \A c \in Conns :
       /\ SF_vars(\E t \in HttpThreads : ReadOk(t, c) \/ ReadFailed(t, c))
       /\ SF_vars(\E t \in HttpThreads : WriteEnded(t, c))
       /\ SF_vars(\E s \in Services : Answer(s, c) \/ Forward(s, c))
       /\ WF_vars(ReadArrives(c) \/ ReadFails(c))
       /\ WF_vars(WriteEnds(c))
-----------------------------------------------------------------------------
(* Properties.                                                             *)

ReadOps(c) == reads[c].pending + reads[c].data + reads[c].failed
WriteOps(c) == writes[c].pending + writes[c].done
Requested(c) == calls[c].plain + calls[c].chained
Visitors(c) == {t \in Threads : at[t] = c}
Pinning(c) == {t \in Threads : at[t] = c /\ pc[t] = "call"}
Deleting(c) == {t \in Threads : at[t] = c /\ pc[t] = "delete"}
Outstanding(c) ==
  Visitors(c) # {} \/ ReadOps(c) + WriteOps(c) + Requested(c) > 0
BaseRef(c) == IF conn[c] = "absent" THEN 0 ELSE 1 - deletes[c]
Holders(c) == BaseRef(c) + ReadOps(c) + WriteOps(c) + Requested(c)
              + Cardinality(Visitors(c)) + Cardinality(Pinning(c))

(* The reference count is the base reference until deleteAioObject, plus   *)
(* one for every operation posted or being called back, plus one for every *)
(* request a handler has pinned the socket for.  It is what makes the raw  *)
(* `this' captured by every callback of http.cpp safe.                     *)
RefsAccount == \A c \in Conns : refs[c] = Holders(c)

(* Nothing that still uses a connection, be it a running callback, an      *)
(* operation whose callback is to come, or a request whose answer is to    *)
(* come, finds it freed by the destructor callback.                        *)
NoUseAfterFree == \A c \in Conns : Outstanding(c) => conn[c] = "live"

(* However many threads call close(), and they do it at the same time      *)
(* after a 404, exactly one of them deletes the socket object.             *)
DeletedOnce ==
  \A c \in Conns :
    deletes[c] + Cardinality(Deleting(c)) = IF Deleted[c] = 0 THEN 0 ELSE 1

(* A live connection always has something outstanding that will go on with *)
(* it: there is no path on which the server forgets one, with its socket   *)
(* and its 64 KB, for good.                                                *)
NeverForgotten == \A c \in Conns : conn[c] = "live" => Outstanding(c)

(* Nobody fills the one buffer of a connection while somebody else does,   *)
(* or while the parser reads it: run(), onRead and onWrite never have two  *)
(* reads posted, and no thread parses, up to the reply or the call that    *)
(* its handler ends with, beside a posted read or a second such thread.    *)
(* Behind that reply only the return from the parser is left; the read of  *)
(* onWrite may overlap with it.                                            *)
Parsing(c) == {t \in Threads : at[t] = c /\ pc[t] \in {"parse", "call"}}
BufferExclusive == \A c \in Conns : ReadOps(c) + Cardinality(Parsing(c)) <= 1

(* What the parser is given is exactly the tail kept in buffer and the     *)
(* bytes read behind it, until onWrite has shut the socket down: from then *)
(* on onRead adds an oldDataSize that no longer describes the buffer.      *)
WindowExact ==
  \A c \in Conns :
    ReadOps(c) > 0 /\ ~shut[c] =>
      /\ readAt[c] = oldDataSize[c]
      /\ reads[c].data > 0 => got[c] + oldDataSize[c] <= BufSize

(* The server never cancels or cuts a reply it has begun to send on an     *)
(* open socket, except the 404 page, which close() may overtake.           *)
ReplyNotCutOff == \A c \in Conns : lost[c] <= notFound[c]

(* A connection the server closes owes its client nothing: no request is   *)
(* still with a service or about to be handed to one, unless it came on a  *)
(* socket that onWrite had already shut down.                              *)
ClosedOwesNothing ==
  \A c \in Conns : Deleted[c] > 0 /\ ~shut[c] => asked[c] = written[c]

(* Every request the parser recognised is answered, whatever path it takes *)
(* through the handlers, the services and the chained call.                *)
RequestAnswered == \A c \in Conns : asked[c] > written[c] ~> asked[c] = written[c]

(* Every accepted connection is freed in the end.                          *)
ConnectionFreed == \A c \in Conns : conn[c] = "live" ~> conn[c] = "freed"

(* Whether an accept succeeds or fails, the server goes on accepting.      *)
ListenerRearmed == listener = "busy" ~> listener = "armed"

(* The inductive invariant behind the theorems of HttpConnectionProofs.    *)
Working == \A t \in Threads : at[t] = NoConn <=> pc[t] \in {"idle", "rearm"}
AliveWhileHeld ==
  \A c \in Conns :
    /\ conn[c] = "live" => refs[c] > 0
    /\ conn[c] # "live" => refs[c] = 0
    /\ conn[c] = "absent" => deletes[c] = 0 /\ Deleted[c] = 0
IInv == TypeOK /\ Working /\ RefsAccount /\ DeletedOnce /\ AliveWhileHeld

-----------------------------------------------------------------------------
(* What a connection promises, whatever threads and callbacks it has.      *)
Lifetime == INSTANCE ConnectionLifetime
              WITH phase <- conn, owed <- [c \in Conns |-> asked[c] - written[c]]

(* Requests of one connection are answered one at a time and once each,    *)
(* and the connection is freed once, when it owes no answer.               *)
LifetimeSpec == Lifetime!Spec
=============================================================================
