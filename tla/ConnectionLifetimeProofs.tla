---------------------- MODULE ConnectionLifetimeProofs ----------------------
(***************************************************************************)
(* HttpConnection implements ConnectionLifetime, for any number of         *)
(* connections, threads and services and any buffer size: what is under    *)
(* way on a connection is one chain, of a read, the callback that parses   *)
(* it, the request at a service, the callback that answers it, the write,  *)
(* the callback that shuts the socket down, and the read that ends it.     *)
(***************************************************************************)
EXTENDS HttpConnectionProofs

\* The steps of a callback that goes on with the chain.
Busy == {"parse", "call", "answer", "wrote"}
Ops(c) == ReadOps(c) + WriteOps(c) + Requested(c)
Doing(c, steps) == \E t \in Threads : at[t] = c /\ pc[t] \in steps

\* The chain has one link: an operation, a request, or a callback.
Alone(c) ==
  /\ Ops(c) <= 1
  /\ \A t, u \in Threads :
       at[t] = c /\ at[u] = c /\ pc[t] \in Busy /\ pc[u] \in Busy => t = u
  /\ Doing(c, Busy) => Ops(c) = 0

\* An answer is owed while the link is a request or a part of its handling.
Owes(c) ==
  asked[c] - written[c] =
    IF Requested(c) > 0 \/ Doing(c, {"call", "answer"}) THEN 1 ELSE 0

\* The chain is there until close() is called.
Driven(c) ==
  conn[c] = "live" /\ Deleted[c] = 0 => Ops(c) = 1 \/ Doing(c, Busy \cup {"close"})

\* close() is called on an open socket only when the chain has ended, or goes
\* on with the write of a 404 reply.
Closed(c) ==
  (Deleted[c] > 0 \/ Doing(c, {"close"})) /\ ~shut[c] =>
    /\ ReadOps(c) = 0 /\ Requested(c) = 0 /\ ~Doing(c, {"parse", "call", "answer"})
    /\ WriteOps(c) > 0 => notFound[c] > 0
Cut(c) == lost[c] <= notFound[c] /\ (deletes[c] = 0 => lost[c] = 0)

\* A read begins behind the tail that is kept.
Window(c) == ~shut[c] =>
  /\ ReadOps(c) > 0 \/ conn[c] = "absent" => readAt[c] = oldDataSize[c]
  /\ reads[c].data > 0 => got[c] + oldDataSize[c] <= BufSize

Chain(c) == Alone(c) /\ Owes(c) /\ Driven(c) /\ Closed(c) /\ Cut(c) /\ Window(c)
CInv == IInv /\ \A c \in Conns : Chain(c)

-----------------------------------------------------------------------------
(* The numbers in Chain are natural numbers.                               *)
LEMMA ChainTyped ==
  ASSUME TypeOK, NEW c \in Conns
  PROVE  /\ ReadOps(c) \in Nat /\ WriteOps(c) \in Nat /\ Requested(c) \in Nat
         /\ asked[c] \in Nat /\ written[c] \in Nat
         /\ notFound[c] \in Nat /\ lost[c] \in Nat
         /\ Deleted[c] \in Nat /\ deletes[c] \in Nat
         /\ reads[c].pending \in Nat /\ reads[c].data \in Nat /\ reads[c].failed \in Nat
         /\ writes[c].pending \in Nat /\ writes[c].done \in Nat
         /\ calls[c].plain \in Nat /\ calls[c].chained \in Nat
         /\ readAt[c] \in 0..BufSize /\ oldDataSize[c] \in 0..BufSize /\ got[c] \in 0..BufSize
         /\ shut[c] \in BOOLEAN
BY HoldersTyped DEF TypeOK, Readings, Writings, Requests

(* Nothing is under way on a connection that is not live.                  *)
LEMMA GoneIsIdle ==
  ASSUME IInv, NEW c \in Conns, conn[c] # "live"
  PROVE  /\ ReadOps(c) = 0 /\ WriteOps(c) = 0 /\ Requested(c) = 0
         /\ \A t \in Threads : at[t] # c
<1>1. TypeOK /\ Good(c)
  BY GoodEverywhere
<1>2. /\ ReadOps(c) \in Nat /\ WriteOps(c) \in Nat /\ Requested(c) \in Nat
      /\ Cardinality(Visitors(c)) \in Nat /\ Cardinality(Pinning(c)) \in Nat
  BY <1>1, ChainTyped, CountsAreNat
<1>3. /\ ReadOps(c) = 0 /\ WriteOps(c) = 0 /\ Requested(c) = 0
      /\ Cardinality(Visitors(c)) = 0
  <2>1. Holders(c) = 0
    BY <1>1 DEF Good
  <2>2. BaseRef(c) \in Nat
    BY <1>1, HoldersTyped, CountsAreNat DEF Good, BaseRef
  <2> QED
    BY <1>2, <2>1, <2>2 DEF Holders
<1>4. Visitors(c) = {}
  BY <1>3, ThreadsFinite, FS_Subset, FS_EmptySet DEF Visitors
<1> QED
  BY <1>3, <1>4 DEF Visitors

(* A step that is none of the chain of d leaves what is known about it:    *)
(* the connection may only be freed.                                       *)
Untouched(d) ==
  /\ ReadOps(d)' = ReadOps(d) /\ WriteOps(d)' = WriteOps(d) /\ Requested(d)' = Requested(d)
  /\ asked'[d] = asked[d] /\ written'[d] = written[d]
  /\ conn'[d] \in {conn[d], "freed"} /\ Deleted'[d] = Deleted[d] /\ deletes'[d] = deletes[d]
  /\ shut'[d] = shut[d] /\ notFound'[d] = notFound[d] /\ lost'[d] = lost[d]
  /\ readAt'[d] = readAt[d] /\ oldDataSize'[d] = oldDataSize[d]
  /\ reads'[d].data = reads[d].data /\ got'[d] = got[d]

Linked(u, d) == at[u] = d /\ pc[u] \in Busy \cup {"close"}
SameLinks(d) ==
  \A u \in Threads :
    /\ Linked(u, d)' <=> Linked(u, d)
    /\ Linked(u, d) => pc'[u] = pc[u]

(* A thread that is not of the chain, before and after its step, changes   *)
(* none of its threads ...                                                 *)
LEMMA ElsewhereIsSame ==
  ASSUME NEW d, NEW t \in Threads, OnlyMoves(t), ~Linked(t, d), ~Linked(t, d)'
  PROVE  SameLinks(d)
BY DEF SameLinks, OnlyMoves, Linked

(* ... so that the same steps are under way ...                            *)
LEMMA LinksStay ==
  ASSUME NEW d \in Conns, SameLinks(d)
  PROVE  /\ Doing(d, Busy)' <=> Doing(d, Busy)
         /\ Doing(d, {"call", "answer"})' <=> Doing(d, {"call", "answer"})
         /\ Doing(d, Busy \cup {"close"})' <=> Doing(d, Busy \cup {"close"})
         /\ Doing(d, {"close"})' <=> Doing(d, {"close"})
         /\ Doing(d, {"parse", "call", "answer"})' <=> Doing(d, {"parse", "call", "answer"})
<1>1. ASSUME NEW S, S \subseteq Busy \cup {"close"} PROVE Doing(d, S)' <=> Doing(d, S)
  <2>1. ASSUME NEW u \in Threads
        PROVE  (at'[u] = d /\ pc'[u] \in S) <=> (at[u] = d /\ pc[u] \in S)
    BY <1>1 DEF SameLinks, Linked
  <2> QED
    BY <2>1 DEF Doing
<1> QED
  BY <1>1 DEF Busy

(* ... and the only link stays the only one ...                            *)
LEMMA AloneStays ==
  ASSUME NEW d \in Conns, SameLinks(d), Alone(d), Ops(d)' = Ops(d)
  PROVE  Alone(d)'
<1>1. ASSUME NEW u \in Threads, NEW v \in Threads, at'[u] = d, at'[v] = d,
             pc'[u] \in Busy, pc'[v] \in Busy
      PROVE  u = v
  BY <1>1 DEF Alone, SameLinks, Linked
<1> QED
  BY <1>1, LinksStay DEF Alone

(* ... and a step that touches no number of the chain either keeps it.     *)
LEMMA UntouchedKeeps ==
  ASSUME NEW d \in Conns, Chain(d), Untouched(d), SameLinks(d)
  PROVE  Chain(d)'
<1>1. Ops(d)' = Ops(d)
  BY DEF Untouched, Ops
<1>2. Alone(d)'
  BY <1>1, AloneStays DEF Chain
<1>3. Owes(d)'
  BY LinksStay DEF Chain, Owes, Untouched
<1>4. Driven(d)'
  BY <1>1, LinksStay DEF Chain, Driven, Untouched
<1>5. Closed(d)'
  BY LinksStay DEF Chain, Closed, Untouched
<1>6. Cut(d)' /\ Window(d)'
  BY DEF Chain, Cut, Window, Untouched
<1> QED
  BY <1>2, <1>3, <1>4, <1>5, <1>6 DEF Chain

(* The thread that has the link of c, or takes it, is the only one of it.  *)
OnlyLink(t, c) == \A u \in Threads \ {t} : ~(at[u] = c /\ pc[u] \in Busy)

(* What is under way when the only link has moved, or t has become it.     *)
LEMMA LinkMoves ==
  ASSUME NEW c \in Conns, NEW t \in Threads, OnlyMoves(t), OnlyLink(t, c),
         ~(at[t] = c /\ pc[t] = "close"), at'[t] = c
  PROVE  /\ Doing(c, Busy)' <=> pc'[t] \in Busy
         /\ Doing(c, {"call", "answer"})' <=> pc'[t] \in {"call", "answer"}
         /\ Doing(c, {"parse", "call", "answer"})' <=> pc'[t] \in {"parse", "call", "answer"}
         /\ Doing(c, {"close"})' <=> Doing(c, {"close"}) \/ pc'[t] = "close"
         /\ Doing(c, Busy \cup {"close"})' <=>
              Doing(c, {"close"}) \/ pc'[t] \in Busy \cup {"close"}
         /\ \A u, v \in Threads : at'[u] = c /\ at'[v] = c /\ pc'[u] \in Busy /\ pc'[v] \in Busy
              => u = v
BY DEF OnlyMoves, OnlyLink, Doing, Busy

(* A callback of the chain is its only link ...                            *)
LEMMA CallbackIsLink ==
  ASSUME TypeOK, NEW c \in Conns, Chain(c), NEW t \in Threads, at[t] = c, pc[t] \in Busy
  PROVE  /\ OnlyLink(t, c)
         /\ ReadOps(c) = 0 /\ WriteOps(c) = 0 /\ Requested(c) = 0 /\ Ops(c) = 0
         /\ reads[c].data = 0 /\ writes[c].pending = 0
         /\ asked[c] - written[c] = IF pc[t] \in {"call", "answer"} THEN 1 ELSE 0
<1>1. OnlyLink(t, c) /\ Ops(c) = 0
  BY DEF Chain, Alone, OnlyLink, Doing
<1>2. Doing(c, {"call", "answer"}) <=> pc[t] \in {"call", "answer"}
  BY <1>1 DEF Doing, OnlyLink, Busy
<1>3. ReadOps(c) = 0 /\ WriteOps(c) = 0 /\ Requested(c) = 0
  BY <1>1, ChainTyped DEF Ops
<1>4. reads[c].data = 0 /\ writes[c].pending = 0
  <2>1. /\ reads[c].pending \in Nat /\ reads[c].data \in Nat /\ reads[c].failed \in Nat
        /\ writes[c].pending \in Nat /\ writes[c].done \in Nat
    BY ChainTyped
  <2>2. reads[c].pending + reads[c].data + reads[c].failed = 0
    BY <1>3 DEF ReadOps
  <2>3. writes[c].pending + writes[c].done = 0
    BY <1>3 DEF WriteOps
  <2>4. \A i, j, k \in Nat : i + j + k = 0 => i = 0 /\ j = 0 /\ k = 0
    OBVIOUS
  <2>5. \A i, j \in Nat : i + j = 0 => i = 0 /\ j = 0
    OBVIOUS
  <2> QED
    BY <2>1, <2>2, <2>3, <2>4, <2>5
<1> QED
  BY <1>1, <1>2, <1>3, <1>4 DEF Chain, Owes

(* ... and so is an operation or a request.                                *)
LEMMA OperationIsLink ==
  ASSUME TypeOK, NEW c \in Conns, Chain(c), Ops(c) > 0
  PROVE  /\ \A t : OnlyLink(t, c)
         /\ Ops(c) = 1 /\ ~Doing(c, Busy)
         /\ asked[c] - written[c] = IF Requested(c) > 0 THEN 1 ELSE 0
<1>1. Ops(c) = 1 /\ ~Doing(c, Busy)
  BY ChainTyped DEF Ops, Chain, Alone
<1>2. ~Doing(c, {"call", "answer"}) /\ \A t : OnlyLink(t, c)
  BY <1>1 DEF Doing, OnlyLink, Busy
<1> QED
  BY <1>1, <1>2 DEF Chain, Owes
(* When the only link of c goes on to something else that Chain allows.    *)
GoesOn(t, c) ==
  /\ ReadOps(c)' \in Nat /\ WriteOps(c)' \in Nat /\ Requested(c)' \in Nat /\ Ops(c)' <= 1
  /\ pc'[t] \in Busy => Ops(c)' = 0
  /\ asked'[c] - written'[c] =
       IF Requested(c)' > 0 \/ pc'[t] \in {"call", "answer"} THEN 1 ELSE 0
  /\ conn'[c] = "live" => Ops(c)' = 1 \/ pc'[t] \in Busy \cup {"close"}
  /\ Deleted'[c] = Deleted[c]
  /\ ~shut'[c] =>
       /\ ~shut[c]
       /\ Deleted[c] > 0 \/ Doing(c, {"close"}) \/ pc'[t] = "close" =>
            /\ ReadOps(c)' = 0 /\ Requested(c)' = 0
            /\ pc'[t] \notin {"parse", "call", "answer"}
            /\ WriteOps(c)' > 0 => notFound'[c] > 0

(* That keeps the first four parts of Chain.                               *)
LEMMA GoesOnKeeps ==
  ASSUME NEW c \in Conns, NEW t \in Threads, OnlyMoves(t), OnlyLink(t, c),
         ~(at[t] = c /\ pc[t] = "close"), at'[t] = c, GoesOn(t, c)
  PROVE  Alone(c)' /\ Owes(c)' /\ Driven(c)' /\ Closed(c)'
<1>1. /\ Doing(c, Busy)' <=> pc'[t] \in Busy
      /\ Doing(c, {"call", "answer"})' <=> pc'[t] \in {"call", "answer"}
      /\ Doing(c, {"parse", "call", "answer"})' <=> pc'[t] \in {"parse", "call", "answer"}
      /\ Doing(c, {"close"})' <=> Doing(c, {"close"}) \/ pc'[t] = "close"
      /\ Doing(c, Busy \cup {"close"})' <=>
           Doing(c, {"close"}) \/ pc'[t] \in Busy \cup {"close"}
      /\ \A u, v \in Threads : at'[u] = c /\ at'[v] = c /\ pc'[u] \in Busy /\ pc'[v] \in Busy
           => u = v
  BY LinkMoves
<1>2. Alone(c)'
  BY <1>1 DEF Alone, GoesOn
<1>3. Owes(c)'
  BY <1>1 DEF Owes, GoesOn
<1>4. Driven(c)'
  BY <1>1 DEF Driven, GoesOn
<1>5. Closed(c)'
  BY <1>1 DEF Closed, GoesOn
<1> QED
  BY <1>2, <1>3, <1>4, <1>5

(* A thread that parses, calls or answers is not beside one that closes.   *)
LEMMA HandlingIsOpen ==
  ASSUME NEW c \in Conns, Chain(c), NEW t \in Threads, at[t] = c,
         pc[t] \in {"parse", "call", "answer"}, ~shut[c]
  PROVE  ~(Deleted[c] > 0) /\ ~Doing(c, {"close"})
<1>1. Doing(c, {"parse", "call", "answer"})
  BY DEF Doing
<1> QED
  BY <1>1 DEF Chain, Closed

-----------------------------------------------------------------------------
(* Every step keeps the chain a chain: the callbacks of it ...             *)
LEMMA CallbackKeeps ==
  ASSUME CInv, NEW r \in Threads,
         \/ ParseNeedMore(r) \/ ParseError(r) \/ ParseNotFound(r) \/ ParseReply(r)
         \/ ParsePin(r) \/ Call(r) \/ Reply(r) \/ OnWrite(r)
  PROVE  \A d \in Conns : Chain(d)'
<1> TypeOK /\ Working /\ (\A c \in Conns : Good(c)) /\ (\A c \in Conns : Chain(c))
  BY GoodEverywhere DEF CInv
<1>1. ASSUME NEW t \in Threads, ParseNeedMore(t) PROVE \A d \in Conns : Chain(d)'
  <2>1. at[t] \in Conns /\ conn[at[t]] = "live"
    BY <1>1, VisitedIsLive DEF ParseNeedMore
  <2>2. /\ pc[t] = "parse" /\ pc'[t] = "leave" /\ at'[t] = at[t]
        /\ OnlyMoves(t)
    BY <1>1 DEF TypeOK, ParseNeedMore, OnlyMoves, Goto
  <2>3. ASSUME NEW d \in Conns, d # at[t] PROVE Chain(d)'
    <3>1. Untouched(d)
      BY <1>1, <2>1, <2>3 DEF TypeOK, ParseNeedMore, PostRead, TakeRef, Goto, Untouched,
        ReadOps, WriteOps, Requested, lifeVars, opVars, dataVars, runVars, watchVars
    <3> QED
      BY <2>2, <2>3, <3>1, ElsewhereIsSame, UntouchedKeeps DEF Linked
  <2>4. ASSUME NEW c, c = at[t] PROVE Chain(c)'
    <3>1. /\ ReadOps(c)' = ReadOps(c) + 1 /\ WriteOps(c)' = WriteOps(c)
          /\ Requested(c)' = Requested(c)
          /\ asked'[c] = asked[c] /\ written'[c] = written[c]
          /\ notFound'[c] = notFound[c] /\ lost'[c] = lost[c]
          /\ Deleted'[c] = Deleted[c] /\ deletes'[c] = deletes[c]
          /\ conn'[c] = conn[c] /\ shut'[c] = shut[c]
          /\ readAt'[c] = oldDataSize'[c]
          /\ reads'[c].data = reads[c].data /\ got'[c] = got[c]
      <4>1. PICK tail \in 0..BufSize :
              PostRead(c, tail) /\ oldDataSize' = [oldDataSize EXCEPT ![c] = tail]
        BY <1>1, <2>4 DEF ParseNeedMore
      <4>2. UNCHANGED <<Deleted, deletes, shut, writes, calls, got, watchVars>>
        BY <1>1 DEF ParseNeedMore
      <4> QED
        BY <2>1, <2>4, <4>1, <4>2 DEF TypeOK, PostRead, TakeRef, ReadOps, WriteOps, Requested,
          Readings, watchVars
    <3>2. /\ OnlyLink(t, c) /\ Ops(c) = 0
          /\ ReadOps(c) = 0 /\ WriteOps(c) = 0 /\ Requested(c) = 0
          /\ reads[c].data = 0 /\ writes[c].pending = 0
          /\ asked[c] - written[c] = 0
      BY <2>1, <2>2, <2>4, CallbackIsLink DEF Busy
    <3>3. ~shut[c] /\ pc[t] # "wrote" => ~(Deleted[c] > 0) /\ ~Doing(c, {"close"})
      BY <2>1, <2>2, <2>4, HandlingIsOpen
    <3>4. GoesOn(t, c)
      BY <2>1, <2>2, <2>4, <3>1, <3>2, <3>3, ChainTyped DEF GoesOn, Ops, Busy
    <3>5. Cut(c)' /\ Window(c)'
      BY <2>1, <2>2, <2>4, <3>1, <3>2, ChainTyped DEF Chain, Cut, Window
    <3> QED
      BY <2>1, <2>2, <2>4, <3>2, <3>4, <3>5, GoesOnKeeps DEF Chain
  <2> QED
    BY <2>1, <2>3, <2>4
<1>2. ASSUME NEW t \in Threads, ParseError(t) PROVE \A d \in Conns : Chain(d)'
  <2>1. at[t] \in Conns /\ conn[at[t]] = "live"
    BY <1>2, VisitedIsLive DEF ParseError
  <2>2. /\ pc[t] = "parse" /\ pc'[t] = "close" /\ at'[t] = at[t]
        /\ OnlyMoves(t)
    BY <1>2 DEF TypeOK, ParseError, OnlyMoves, Goto
  <2>3. ASSUME NEW d \in Conns, d # at[t] PROVE Chain(d)'
    <3>1. Untouched(d)
      BY <1>2, <2>1, <2>3 DEF TypeOK, ParseError, Goto, Untouched, ReadOps, WriteOps,
        Requested, lifeVars, opVars, dataVars, runVars, watchVars
    <3> QED
      BY <2>2, <2>3, <3>1, ElsewhereIsSame, UntouchedKeeps DEF Linked
  <2>4. ASSUME NEW c, c = at[t] PROVE Chain(c)'
    <3>1. /\ ReadOps(c)' = ReadOps(c) /\ WriteOps(c)' = WriteOps(c)
          /\ Requested(c)' = Requested(c)
          /\ asked'[c] = asked[c] /\ written'[c] = written[c]
          /\ notFound'[c] = notFound[c] /\ lost'[c] = lost[c]
          /\ Deleted'[c] = Deleted[c] /\ deletes'[c] = deletes[c]
          /\ conn'[c] = conn[c] /\ shut'[c] = shut[c]
          /\ readAt'[c] = readAt[c] /\ oldDataSize'[c] = oldDataSize[c]
          /\ reads'[c].data = reads[c].data /\ got'[c] = got[c]
      BY <1>2, <2>1, <2>4, ChainTyped DEF TypeOK, ParseError, Goto, ReadOps, WriteOps,
        Requested, Readings, Writings, Requests, lifeVars, opVars, dataVars, runVars, watchVars
    <3>2. /\ OnlyLink(t, c) /\ Ops(c) = 0
          /\ ReadOps(c) = 0 /\ WriteOps(c) = 0 /\ Requested(c) = 0
          /\ reads[c].data = 0 /\ writes[c].pending = 0
          /\ asked[c] - written[c] = 0
      BY <2>1, <2>2, <2>4, CallbackIsLink DEF Busy
    <3>3. ~shut[c] /\ pc[t] # "wrote" => ~(Deleted[c] > 0) /\ ~Doing(c, {"close"})
      BY <2>1, <2>2, <2>4, HandlingIsOpen
    <3>4. GoesOn(t, c)
      BY <2>1, <2>2, <2>4, <3>1, <3>2, <3>3, ChainTyped DEF GoesOn, Ops, Busy
    <3>5. Cut(c)' /\ Window(c)'
      BY <2>1, <2>2, <2>4, <3>1, <3>2, ChainTyped DEF Chain, Cut, Window
    <3> QED
      BY <2>1, <2>2, <2>4, <3>2, <3>4, <3>5, GoesOnKeeps DEF Chain
  <2> QED
    BY <2>1, <2>3, <2>4
<1>3. ASSUME NEW t \in Threads, ParseNotFound(t) PROVE \A d \in Conns : Chain(d)'
  <2>1. at[t] \in Conns /\ conn[at[t]] = "live"
    BY <1>3, VisitedIsLive DEF ParseNotFound
  <2>2. /\ pc[t] = "parse" /\ pc'[t] = "close" /\ at'[t] = at[t]
        /\ OnlyMoves(t)
    BY <1>3 DEF TypeOK, ParseNotFound, OnlyMoves, Goto
  <2>3. ASSUME NEW d \in Conns, d # at[t] PROVE Chain(d)'
    <3>1. Untouched(d)
      BY <1>3, <2>1, <2>3 DEF TypeOK, ParseNotFound, PostWrite, TakeRef, Goto, Untouched,
        ReadOps, WriteOps, Requested, lifeVars, opVars, dataVars, runVars, watchVars
    <3> QED
      BY <2>2, <2>3, <3>1, ElsewhereIsSame, UntouchedKeeps DEF Linked
  <2>4. ASSUME NEW c, c = at[t] PROVE Chain(c)'
    <3>1. /\ ReadOps(c)' = ReadOps(c) /\ WriteOps(c)' = WriteOps(c) + 1
          /\ Requested(c)' = Requested(c)
          /\ asked'[c] = asked[c] + 1 /\ written'[c] = written[c] + 1
          /\ notFound'[c] = notFound[c] + 1 /\ lost'[c] = lost[c]
          /\ Deleted'[c] = Deleted[c] /\ deletes'[c] = deletes[c]
          /\ conn'[c] = conn[c] /\ shut'[c] = shut[c]
          /\ readAt'[c] = readAt[c] /\ oldDataSize'[c] = oldDataSize[c]
          /\ reads'[c].data = reads[c].data /\ got'[c] = got[c]
      BY <1>3, <2>1, <2>4, ChainTyped DEF TypeOK, ParseNotFound, PostWrite, TakeRef, Goto,
        ReadOps, WriteOps,
        Requested, Readings, Writings, Requests, lifeVars, opVars, dataVars, runVars, watchVars
    <3>2. /\ OnlyLink(t, c) /\ Ops(c) = 0
          /\ ReadOps(c) = 0 /\ WriteOps(c) = 0 /\ Requested(c) = 0
          /\ reads[c].data = 0 /\ writes[c].pending = 0
          /\ asked[c] - written[c] = 0
      BY <2>1, <2>2, <2>4, CallbackIsLink DEF Busy
    <3>3. ~shut[c] /\ pc[t] # "wrote" => ~(Deleted[c] > 0) /\ ~Doing(c, {"close"})
      BY <2>1, <2>2, <2>4, HandlingIsOpen
    <3>4. GoesOn(t, c)
      BY <2>1, <2>2, <2>4, <3>1, <3>2, <3>3, ChainTyped DEF GoesOn, Ops, Busy
    <3>5. Cut(c)' /\ Window(c)'
      BY <2>1, <2>2, <2>4, <3>1, <3>2, ChainTyped DEF Chain, Cut, Window
    <3> QED
      BY <2>1, <2>2, <2>4, <3>2, <3>4, <3>5, GoesOnKeeps DEF Chain
  <2> QED
    BY <2>1, <2>3, <2>4
<1>4. ASSUME NEW t \in Threads, ParseReply(t) PROVE \A d \in Conns : Chain(d)'
  <2>1. at[t] \in Conns /\ conn[at[t]] = "live"
    BY <1>4, VisitedIsLive DEF ParseReply
  <2>2. /\ pc[t] = "parse" /\ pc'[t] = "leave" /\ at'[t] = at[t]
        /\ OnlyMoves(t)
    BY <1>4 DEF TypeOK, ParseReply, OnlyMoves, Goto
  <2>3. ASSUME NEW d \in Conns, d # at[t] PROVE Chain(d)'
    <3>1. Untouched(d)
      BY <1>4, <2>1, <2>3 DEF TypeOK, ParseReply, PostWrite, TakeRef, Goto, Untouched,
        ReadOps, WriteOps, Requested, lifeVars, opVars, dataVars, runVars, watchVars
    <3> QED
      BY <2>2, <2>3, <3>1, ElsewhereIsSame, UntouchedKeeps DEF Linked
  <2>4. ASSUME NEW c, c = at[t] PROVE Chain(c)'
    <3>1. /\ ReadOps(c)' = ReadOps(c) /\ WriteOps(c)' = WriteOps(c) + 1
          /\ Requested(c)' = Requested(c)
          /\ asked'[c] = asked[c] + 1 /\ written'[c] = written[c] + 1
          /\ notFound'[c] = notFound[c] /\ lost'[c] = lost[c]
          /\ Deleted'[c] = Deleted[c] /\ deletes'[c] = deletes[c]
          /\ conn'[c] = conn[c] /\ shut'[c] = shut[c]
          /\ readAt'[c] = readAt[c] /\ oldDataSize'[c] = oldDataSize[c]
          /\ reads'[c].data = reads[c].data /\ got'[c] = got[c]
      BY <1>4, <2>1, <2>4, ChainTyped DEF TypeOK, ParseReply, PostWrite, TakeRef, Goto,
        ReadOps, WriteOps,
        Requested, Readings, Writings, Requests, lifeVars, opVars, dataVars, runVars, watchVars
    <3>2. /\ OnlyLink(t, c) /\ Ops(c) = 0
          /\ ReadOps(c) = 0 /\ WriteOps(c) = 0 /\ Requested(c) = 0
          /\ reads[c].data = 0 /\ writes[c].pending = 0
          /\ asked[c] - written[c] = 0
      BY <2>1, <2>2, <2>4, CallbackIsLink DEF Busy
    <3>3. ~shut[c] /\ pc[t] # "wrote" => ~(Deleted[c] > 0) /\ ~Doing(c, {"close"})
      BY <2>1, <2>2, <2>4, HandlingIsOpen
    <3>4. GoesOn(t, c)
      BY <2>1, <2>2, <2>4, <3>1, <3>2, <3>3, ChainTyped DEF GoesOn, Ops, Busy
    <3>5. Cut(c)' /\ Window(c)'
      BY <2>1, <2>2, <2>4, <3>1, <3>2, ChainTyped DEF Chain, Cut, Window
    <3> QED
      BY <2>1, <2>2, <2>4, <3>2, <3>4, <3>5, GoesOnKeeps DEF Chain
  <2> QED
    BY <2>1, <2>3, <2>4
<1>5. ASSUME NEW t \in Threads, ParsePin(t) PROVE \A d \in Conns : Chain(d)'
  <2>1. at[t] \in Conns /\ conn[at[t]] = "live"
    BY <1>5, VisitedIsLive DEF ParsePin
  <2>2. /\ pc[t] = "parse" /\ pc'[t] = "call" /\ at'[t] = at[t]
        /\ OnlyMoves(t)
    BY <1>5 DEF TypeOK, ParsePin, OnlyMoves, Goto
  <2>3. ASSUME NEW d \in Conns, d # at[t] PROVE Chain(d)'
    <3>1. Untouched(d)
      BY <1>5, <2>1, <2>3 DEF TypeOK, ParsePin, TakeRef, Goto, Untouched, ReadOps, WriteOps,
        Requested, lifeVars, opVars, dataVars, runVars, watchVars
    <3> QED
      BY <2>2, <2>3, <3>1, ElsewhereIsSame, UntouchedKeeps DEF Linked
  <2>4. ASSUME NEW c, c = at[t] PROVE Chain(c)'
    <3>1. /\ ReadOps(c)' = ReadOps(c) /\ WriteOps(c)' = WriteOps(c)
          /\ Requested(c)' = Requested(c)
          /\ asked'[c] = asked[c] + 1 /\ written'[c] = written[c]
          /\ notFound'[c] = notFound[c] /\ lost'[c] = lost[c]
          /\ Deleted'[c] = Deleted[c] /\ deletes'[c] = deletes[c]
          /\ conn'[c] = conn[c] /\ shut'[c] = shut[c]
          /\ readAt'[c] = readAt[c] /\ oldDataSize'[c] = oldDataSize[c]
          /\ reads'[c].data = reads[c].data /\ got'[c] = got[c]
      BY <1>5, <2>1, <2>4, ChainTyped DEF TypeOK, ParsePin, TakeRef, Goto, ReadOps, WriteOps,
        Requested, Readings, Writings, Requests, lifeVars, opVars, dataVars, runVars, watchVars
    <3>2. /\ OnlyLink(t, c) /\ Ops(c) = 0
          /\ ReadOps(c) = 0 /\ WriteOps(c) = 0 /\ Requested(c) = 0
          /\ reads[c].data = 0 /\ writes[c].pending = 0
          /\ asked[c] - written[c] = 0
      BY <2>1, <2>2, <2>4, CallbackIsLink DEF Busy
    <3>3. ~shut[c] /\ pc[t] # "wrote" => ~(Deleted[c] > 0) /\ ~Doing(c, {"close"})
      BY <2>1, <2>2, <2>4, HandlingIsOpen
    <3>4. GoesOn(t, c)
      BY <2>1, <2>2, <2>4, <3>1, <3>2, <3>3, ChainTyped DEF GoesOn, Ops, Busy
    <3>5. Cut(c)' /\ Window(c)'
      BY <2>1, <2>2, <2>4, <3>1, <3>2, ChainTyped DEF Chain, Cut, Window
    <3> QED
      BY <2>1, <2>2, <2>4, <3>2, <3>4, <3>5, GoesOnKeeps DEF Chain
  <2> QED
    BY <2>1, <2>3, <2>4
<1>6. ASSUME NEW t \in Threads, Call(t) PROVE \A d \in Conns : Chain(d)'
  <2>1. at[t] \in Conns /\ conn[at[t]] = "live"
    BY <1>6, VisitedIsLive DEF Call
  <2>2. /\ pc[t] = "call" /\ pc'[t] = "leave" /\ at'[t] = at[t]
        /\ OnlyMoves(t)
    BY <1>6 DEF TypeOK, Call, OnlyMoves, Goto
  <2>3. ASSUME NEW d \in Conns, d # at[t] PROVE Chain(d)'
    <3>1. Untouched(d)
      BY <1>6, <2>1, <2>3 DEF TypeOK, Call, Goto, Untouched, ReadOps, WriteOps, Requested,
        lifeVars, opVars, dataVars, runVars, watchVars
    <3> QED
      BY <2>2, <2>3, <3>1, ElsewhereIsSame, UntouchedKeeps DEF Linked
  <2>4. ASSUME NEW c, c = at[t] PROVE Chain(c)'
    <3>1. /\ ReadOps(c)' = ReadOps(c) /\ WriteOps(c)' = WriteOps(c)
          /\ Requested(c)' = Requested(c) + 1
          /\ asked'[c] = asked[c] /\ written'[c] = written[c]
          /\ notFound'[c] = notFound[c] /\ lost'[c] = lost[c]
          /\ Deleted'[c] = Deleted[c] /\ deletes'[c] = deletes[c]
          /\ conn'[c] = conn[c] /\ shut'[c] = shut[c]
          /\ readAt'[c] = readAt[c] /\ oldDataSize'[c] = oldDataSize[c]
          /\ reads'[c].data = reads[c].data /\ got'[c] = got[c]
      <4>1. Requested(c)' = Requested(c) + 1
        <5>1. /\ calls[c] \in Requests /\ calls \in [Conns -> Requests]
          BY <2>1, <2>4 DEF TypeOK
        <5>2. CASE calls' = [calls EXCEPT ![c].plain = @ + 1]
          BY <2>1, <2>4, <5>1, <5>2 DEF Requested, Requests
        <5>3. CASE calls' = [calls EXCEPT ![c].chained = @ + 1]
          BY <2>1, <2>4, <5>1, <5>3 DEF Requested, Requests
        <5> QED
          BY <1>6, <2>4, <5>2, <5>3 DEF Call
      <4> QED
        BY <1>6, <4>1 DEF Call, ReadOps, WriteOps, lifeVars, dataVars, watchVars
    <3>2. /\ OnlyLink(t, c) /\ Ops(c) = 0
          /\ ReadOps(c) = 0 /\ WriteOps(c) = 0 /\ Requested(c) = 0
          /\ reads[c].data = 0 /\ writes[c].pending = 0
          /\ asked[c] - written[c] = 1
      BY <2>1, <2>2, <2>4, CallbackIsLink DEF Busy
    <3>3. ~shut[c] /\ pc[t] # "wrote" => ~(Deleted[c] > 0) /\ ~Doing(c, {"close"})
      BY <2>1, <2>2, <2>4, HandlingIsOpen
    <3>4. GoesOn(t, c)
      BY <2>1, <2>2, <2>4, <3>1, <3>2, <3>3, ChainTyped DEF GoesOn, Ops, Busy
    <3>5. Cut(c)' /\ Window(c)'
      BY <2>1, <2>2, <2>4, <3>1, <3>2, ChainTyped DEF Chain, Cut, Window
    <3> QED
      BY <2>1, <2>2, <2>4, <3>2, <3>4, <3>5, GoesOnKeeps DEF Chain
  <2> QED
    BY <2>1, <2>3, <2>4
<1>7. ASSUME NEW t \in Threads, Reply(t) PROVE \A d \in Conns : Chain(d)'
  <2>1. at[t] \in Conns /\ conn[at[t]] = "live"
    BY <1>7, VisitedIsLive DEF Reply
  <2>2. /\ pc[t] = "answer" /\ pc'[t] = "release" /\ at'[t] = at[t]
        /\ OnlyMoves(t)
    BY <1>7 DEF TypeOK, Reply, OnlyMoves, Goto
  <2>3. ASSUME NEW d \in Conns, d # at[t] PROVE Chain(d)'
    <3>1. Untouched(d)
      BY <1>7, <2>1, <2>3 DEF TypeOK, Reply, PostWrite, TakeRef, Goto, Untouched, ReadOps,
        WriteOps, Requested, lifeVars, opVars, dataVars, runVars, watchVars
    <3> QED
      BY <2>2, <2>3, <3>1, ElsewhereIsSame, UntouchedKeeps DEF Linked
  <2>4. ASSUME NEW c, c = at[t] PROVE Chain(c)'
    <3>1. /\ ReadOps(c)' = ReadOps(c) /\ WriteOps(c)' = WriteOps(c) + 1
          /\ Requested(c)' = Requested(c)
          /\ asked'[c] = asked[c] /\ written'[c] = written[c] + 1
          /\ notFound'[c] = notFound[c] /\ lost'[c] = lost[c]
          /\ Deleted'[c] = Deleted[c] /\ deletes'[c] = deletes[c]
          /\ conn'[c] = conn[c] /\ shut'[c] = shut[c]
          /\ readAt'[c] = readAt[c] /\ oldDataSize'[c] = oldDataSize[c]
          /\ reads'[c].data = reads[c].data /\ got'[c] = got[c]
      BY <1>7, <2>1, <2>4, ChainTyped DEF TypeOK, Reply, PostWrite, TakeRef, Goto, ReadOps,
        WriteOps,
        Requested, Readings, Writings, Requests, lifeVars, opVars, dataVars, runVars, watchVars
    <3>2. /\ OnlyLink(t, c) /\ Ops(c) = 0
          /\ ReadOps(c) = 0 /\ WriteOps(c) = 0 /\ Requested(c) = 0
          /\ reads[c].data = 0 /\ writes[c].pending = 0
          /\ asked[c] - written[c] = 1
      BY <2>1, <2>2, <2>4, CallbackIsLink DEF Busy
    <3>3. ~shut[c] /\ pc[t] # "wrote" => ~(Deleted[c] > 0) /\ ~Doing(c, {"close"})
      BY <2>1, <2>2, <2>4, HandlingIsOpen
    <3>4. GoesOn(t, c)
      BY <2>1, <2>2, <2>4, <3>1, <3>2, <3>3, ChainTyped DEF GoesOn, Ops, Busy
    <3>5. Cut(c)' /\ Window(c)'
      BY <2>1, <2>2, <2>4, <3>1, <3>2, ChainTyped DEF Chain, Cut, Window
    <3> QED
      BY <2>1, <2>2, <2>4, <3>2, <3>4, <3>5, GoesOnKeeps DEF Chain
  <2> QED
    BY <2>1, <2>3, <2>4
<1>8. ASSUME NEW t \in Threads, OnWrite(t) PROVE \A d \in Conns : Chain(d)'
  <2>1. at[t] \in Conns /\ conn[at[t]] = "live"
    BY <1>8, VisitedIsLive DEF OnWrite
  <2>2. /\ pc[t] = "wrote" /\ pc'[t] = "leave" /\ at'[t] = at[t]
        /\ OnlyMoves(t)
    BY <1>8 DEF TypeOK, OnWrite, OnlyMoves, Goto
  <2>3. ASSUME NEW d \in Conns, d # at[t] PROVE Chain(d)'
    <3>1. Untouched(d)
      BY <1>8, <2>1, <2>3 DEF TypeOK, OnWrite, PostRead, TakeRef, CutOff, Goto, Untouched,
        ReadOps, WriteOps, Requested, lifeVars, opVars, dataVars, runVars, watchVars
    <3> QED
      BY <2>2, <2>3, <3>1, ElsewhereIsSame, UntouchedKeeps DEF Linked
  <2>4. ASSUME NEW c, c = at[t] PROVE Chain(c)'
    <3>1. /\ ReadOps(c)' = ReadOps(c) + 1 /\ WriteOps(c)' = WriteOps(c)
          /\ Requested(c)' = Requested(c)
          /\ asked'[c] = asked[c] /\ written'[c] = written[c]
          /\ notFound'[c] = notFound[c] /\ lost'[c] \in {lost[c], lost[c] + writes[c].pending}
          /\ Deleted'[c] = Deleted[c] /\ deletes'[c] = deletes[c]
          /\ conn'[c] = conn[c] /\ shut'[c] = TRUE
          /\ readAt'[c] \in Nat
          /\ reads'[c].data = reads[c].data /\ got'[c] = got[c]
      BY <1>8, <2>1, <2>4, ChainTyped DEF TypeOK, OnWrite, PostRead, TakeRef, CutOff, Goto,
        ReadOps, WriteOps,
        Requested, Readings, Writings, Requests, lifeVars, opVars, dataVars, runVars, watchVars
    <3>2. /\ OnlyLink(t, c) /\ Ops(c) = 0
          /\ ReadOps(c) = 0 /\ WriteOps(c) = 0 /\ Requested(c) = 0
          /\ reads[c].data = 0 /\ writes[c].pending = 0
          /\ asked[c] - written[c] = 0
      BY <2>1, <2>2, <2>4, CallbackIsLink DEF Busy
    <3>3. ~shut[c] /\ pc[t] # "wrote" => ~(Deleted[c] > 0) /\ ~Doing(c, {"close"})
      BY <2>1, <2>2, <2>4, HandlingIsOpen
    <3>4. GoesOn(t, c)
      BY <2>1, <2>2, <2>4, <3>1, <3>2, <3>3, ChainTyped DEF GoesOn, Ops, Busy
    <3>5. Cut(c)' /\ Window(c)'
      BY <2>1, <2>2, <2>4, <3>1, <3>2, ChainTyped DEF Chain, Cut, Window
    <3> QED
      BY <2>1, <2>2, <2>4, <3>2, <3>4, <3>5, GoesOnKeeps DEF Chain
  <2> QED
    BY <2>1, <2>3, <2>4
<1> QED
  BY <1>1, <1>2, <1>3, <1>4, <1>5, <1>6, <1>7, <1>8

(* ... an event that is taken, and a request that is passed on ...         *)
LEMMA DispatchKeeps ==
  ASSUME CInv, NEW r \in Threads, NEW b \in Conns, Dispatch(r, b)
  PROVE  \A d \in Conns : Chain(d)'
<1> TypeOK /\ Working /\ (\A c \in Conns : Good(c)) /\ (\A c \in Conns : Chain(c))
  BY GoodEverywhere DEF CInv
<1>1. CASE ReadOk(r, b)
  <2>1. /\ pc[r] = "idle" /\ at[r] = NoConn /\ pc'[r] = "parse" /\ at'[r] = b
        /\ OnlyMoves(r)
    BY <1>1 DEF TypeOK, Working, ReadOk, Visit, OnlyMoves
  <2>2. ASSUME NEW d \in Conns, d # b PROVE Chain(d)'
    <3>1. Untouched(d)
      BY <1>1, <2>2 DEF TypeOK, ReadOk, Untouched, ReadOps, WriteOps, Requested, lifeVars,
        opVars, dataVars, runVars, watchVars
    <3> QED
      BY <2>1, <2>2, <3>1, ConnsAssumption, ElsewhereIsSame, UntouchedKeeps DEF Linked
  <2>3. Chain(b)'
    <3>1. /\ ReadOps(b)' = ReadOps(b) - 1 /\ WriteOps(b)' = WriteOps(b)
          /\ Requested(b)' = Requested(b)
          /\ asked'[b] = asked[b] /\ written'[b] = written[b]
          /\ notFound'[b] = notFound[b] /\ lost'[b] = lost[b]
          /\ Deleted'[b] = Deleted[b] /\ deletes'[b] = deletes[b]
          /\ conn'[b] = conn[b] /\ shut'[b] = shut[b]
          /\ readAt'[b] = readAt[b] /\ oldDataSize'[b] = oldDataSize[b] /\ got'[b] = got[b]
      BY <1>1 DEF TypeOK, ReadOk, ReadOps, WriteOps, Requested,
        Readings, Writings, Requests, lifeVars, opVars, dataVars, runVars, watchVars
    <3>2. Ops(b) > 0 /\ ReadOps(b) > 0
      BY <1>1, ChainTyped DEF ReadOk, Ops, ReadOps
    <3>3. /\ OnlyLink(r, b) /\ Ops(b) = 1 /\ ~Doing(b, Busy)
          /\ asked[b] - written[b] = IF Requested(b) > 0 THEN 1 ELSE 0
      BY <3>2, OperationIsLink
    <3>4. (Deleted[b] > 0 \/ Doing(b, {"close"})) /\ ~shut[b] => FALSE
      BY <3>2 DEF Chain, Closed
    <3>5. ReadOps(b)' = 0 /\ WriteOps(b)' = 0 /\ Requested(b)' = 0
      BY <3>1, <3>2, <3>3, ChainTyped DEF Ops
    <3>6. asked[b] - written[b] = 0
      BY <3>2, <3>3, ChainTyped DEF Ops
    <3>7. GoesOn(r, b)
      BY <2>1, <3>1, <3>6, <3>4, <3>5, ChainTyped DEF GoesOn, Ops, Busy
    <3>8. reads'[b].data <= reads[b].data /\ reads[b].data \in Nat /\ reads'[b].data \in Nat
      BY <1>1, ChainTyped DEF TypeOK, ReadOk, Readings
    <3>9. Cut(b)' /\ Window(b)'
      BY <3>1, <3>5, <3>8, ChainTyped DEF Chain, Cut, Window
    <3> QED
      BY <2>1, <3>3, <3>7, <3>9, GoesOnKeeps, ConnsAssumption DEF Chain
  <2> QED
    BY <2>2, <2>3
<1>2. CASE ReadFailed(r, b)
  <2>1. /\ pc[r] = "idle" /\ at[r] = NoConn /\ pc'[r] = "close" /\ at'[r] = b
        /\ OnlyMoves(r)
    BY <1>2 DEF TypeOK, Working, ReadFailed, Visit, OnlyMoves
  <2>2. ASSUME NEW d \in Conns, d # b PROVE Chain(d)'
    <3>1. Untouched(d)
      BY <1>2, <2>2 DEF TypeOK, ReadFailed, Untouched, ReadOps, WriteOps, Requested,
        lifeVars, opVars, dataVars, runVars, watchVars
    <3> QED
      BY <2>1, <2>2, <3>1, ConnsAssumption, ElsewhereIsSame, UntouchedKeeps DEF Linked
  <2>3. Chain(b)'
    <3>1. /\ ReadOps(b)' = ReadOps(b) - 1 /\ WriteOps(b)' = WriteOps(b)
          /\ Requested(b)' = Requested(b)
          /\ asked'[b] = asked[b] /\ written'[b] = written[b]
          /\ notFound'[b] = notFound[b] /\ lost'[b] = lost[b]
          /\ Deleted'[b] = Deleted[b] /\ deletes'[b] = deletes[b]
          /\ conn'[b] = conn[b] /\ shut'[b] = shut[b]
          /\ readAt'[b] = readAt[b] /\ oldDataSize'[b] = oldDataSize[b] /\ got'[b] = got[b]
      BY <1>2 DEF TypeOK, ReadFailed, ReadOps, WriteOps, Requested,
        Readings, Writings, Requests, lifeVars, opVars, dataVars, runVars, watchVars
    <3>2. Ops(b) > 0 /\ ReadOps(b) > 0
      BY <1>2, ChainTyped DEF ReadFailed, Ops, ReadOps
    <3>3. /\ OnlyLink(r, b) /\ Ops(b) = 1 /\ ~Doing(b, Busy)
          /\ asked[b] - written[b] = IF Requested(b) > 0 THEN 1 ELSE 0
      BY <3>2, OperationIsLink
    <3>4. (Deleted[b] > 0 \/ Doing(b,
      {"close"})) /\ ~shut[b] => ReadOps(b) = 0 /\ Requested(b) = 0
      BY <3>2 DEF Chain, Closed
    <3>5. ReadOps(b)' = 0 /\ WriteOps(b)' = 0 /\ Requested(b)' = 0
      BY <3>1, <3>2, <3>3, ChainTyped DEF Ops
    <3>6. asked[b] - written[b] = 0
      BY <3>2, <3>3, ChainTyped DEF Ops
    <3>7. GoesOn(r, b)
      BY <2>1, <3>1, <3>6, <3>4, <3>5, ChainTyped DEF GoesOn, Ops, Busy
    <3>8. reads'[b].data <= reads[b].data /\ reads[b].data \in Nat /\ reads'[b].data \in Nat
      BY <1>2, ChainTyped DEF TypeOK, ReadFailed, Readings
    <3>9. Cut(b)' /\ Window(b)'
      BY <3>1, <3>5, <3>8, ChainTyped DEF Chain, Cut, Window
    <3> QED
      BY <2>1, <3>3, <3>7, <3>9, GoesOnKeeps, ConnsAssumption DEF Chain
  <2> QED
    BY <2>2, <2>3
<1>3. CASE WriteEnded(r, b)
  <2>1. /\ pc[r] = "idle" /\ at[r] = NoConn /\ pc'[r] = "wrote" /\ at'[r] = b
        /\ OnlyMoves(r)
    BY <1>3 DEF TypeOK, Working, WriteEnded, Visit, OnlyMoves
  <2>2. ASSUME NEW d \in Conns, d # b PROVE Chain(d)'
    <3>1. Untouched(d)
      BY <1>3, <2>2 DEF TypeOK, WriteEnded, Untouched, ReadOps, WriteOps, Requested,
        lifeVars, opVars, dataVars, runVars, watchVars
    <3> QED
      BY <2>1, <2>2, <3>1, ConnsAssumption, ElsewhereIsSame, UntouchedKeeps DEF Linked
  <2>3. Chain(b)'
    <3>1. /\ ReadOps(b)' = ReadOps(b) /\ WriteOps(b)' = WriteOps(b) - 1
          /\ Requested(b)' = Requested(b)
          /\ asked'[b] = asked[b] /\ written'[b] = written[b]
          /\ notFound'[b] = notFound[b] /\ lost'[b] = lost[b]
          /\ Deleted'[b] = Deleted[b] /\ deletes'[b] = deletes[b]
          /\ conn'[b] = conn[b] /\ shut'[b] = shut[b]
          /\ readAt'[b] = readAt[b] /\ oldDataSize'[b] = oldDataSize[b] /\ got'[b] = got[b]
      BY <1>3 DEF TypeOK, WriteEnded, ReadOps, WriteOps, Requested,
        Readings, Writings, Requests, lifeVars, opVars, dataVars, runVars, watchVars
    <3>2. Ops(b) > 0 /\ WriteOps(b) > 0
      BY <1>3, ChainTyped DEF WriteEnded, Ops, WriteOps
    <3>3. /\ OnlyLink(r, b) /\ Ops(b) = 1 /\ ~Doing(b, Busy)
          /\ asked[b] - written[b] = IF Requested(b) > 0 THEN 1 ELSE 0
      BY <3>2, OperationIsLink
    <3>4. (Deleted[b] > 0 \/ Doing(b,
      {"close"})) /\ ~shut[b] => ReadOps(b) = 0 /\ Requested(b) = 0
      BY <3>2 DEF Chain, Closed
    <3>5. ReadOps(b)' = 0 /\ WriteOps(b)' = 0 /\ Requested(b)' = 0
      BY <3>1, <3>2, <3>3, ChainTyped DEF Ops
    <3>6. asked[b] - written[b] = 0
      BY <3>2, <3>3, ChainTyped DEF Ops
    <3>7. GoesOn(r, b)
      BY <2>1, <3>1, <3>6, <3>4, <3>5, ChainTyped DEF GoesOn, Ops, Busy
    <3>8. reads'[b].data <= reads[b].data /\ reads[b].data \in Nat /\ reads'[b].data \in Nat
      BY <1>3, ChainTyped DEF TypeOK, WriteEnded, Readings
    <3>9. Cut(b)' /\ Window(b)'
      BY <3>1, <3>5, <3>8, ChainTyped DEF Chain, Cut, Window
    <3> QED
      BY <2>1, <3>3, <3>7, <3>9, GoesOnKeeps, ConnsAssumption DEF Chain
  <2> QED
    BY <2>2, <2>3
<1>4. CASE Answer(r, b)
  <2>1. /\ pc[r] = "idle" /\ at[r] = NoConn /\ pc'[r] = "answer" /\ at'[r] = b
        /\ OnlyMoves(r)
    BY <1>4 DEF TypeOK, Working, Answer, Visit, OnlyMoves
  <2>2. ASSUME NEW d \in Conns, d # b PROVE Chain(d)'
    <3>1. Untouched(d)
      BY <1>4, <2>2 DEF TypeOK, Answer, Untouched, ReadOps, WriteOps, Requested, lifeVars,
        opVars, dataVars, runVars, watchVars
    <3> QED
      BY <2>1, <2>2, <3>1, ConnsAssumption, ElsewhereIsSame, UntouchedKeeps DEF Linked
  <2>3. Chain(b)'
    <3>1. /\ ReadOps(b)' = ReadOps(b) /\ WriteOps(b)' = WriteOps(b)
          /\ Requested(b)' = Requested(b) - 1
          /\ asked'[b] = asked[b] /\ written'[b] = written[b]
          /\ notFound'[b] = notFound[b] /\ lost'[b] = lost[b]
          /\ Deleted'[b] = Deleted[b] /\ deletes'[b] = deletes[b]
          /\ conn'[b] = conn[b] /\ shut'[b] = shut[b]
          /\ readAt'[b] = readAt[b] /\ oldDataSize'[b] = oldDataSize[b] /\ got'[b] = got[b]
      BY <1>4 DEF TypeOK, Answer, ReadOps, WriteOps, Requested,
        Readings, Writings, Requests, lifeVars, opVars, dataVars, runVars, watchVars
    <3>2. Ops(b) > 0 /\ Requested(b) > 0
      BY <1>4, ChainTyped DEF Answer, Ops, Requested
    <3>3. /\ OnlyLink(r, b) /\ Ops(b) = 1 /\ ~Doing(b, Busy)
          /\ asked[b] - written[b] = IF Requested(b) > 0 THEN 1 ELSE 0
      BY <3>2, OperationIsLink
    <3>4. (Deleted[b] > 0 \/ Doing(b, {"close"})) /\ ~shut[b] => FALSE
      BY <3>2 DEF Chain, Closed
    <3>5. ReadOps(b)' = 0 /\ WriteOps(b)' = 0 /\ Requested(b)' = 0
      BY <3>1, <3>2, <3>3, ChainTyped DEF Ops
    <3>6. asked[b] - written[b] = 1
      BY <3>2, <3>3, ChainTyped DEF Ops
    <3>7. GoesOn(r, b)
      BY <2>1, <3>1, <3>6, <3>4, <3>5, ChainTyped DEF GoesOn, Ops, Busy
    <3>8. reads'[b].data <= reads[b].data /\ reads[b].data \in Nat /\ reads'[b].data \in Nat
      BY <1>4, ChainTyped DEF TypeOK, Answer, Readings
    <3>9. Cut(b)' /\ Window(b)'
      BY <3>1, <3>5, <3>8, ChainTyped DEF Chain, Cut, Window
    <3> QED
      BY <2>1, <3>3, <3>7, <3>9, GoesOnKeeps, ConnsAssumption DEF Chain
  <2> QED
    BY <2>2, <2>3
<1>5. CASE Forward(r, b)
  <2> SUFFICES ASSUME NEW d \in Conns PROVE Chain(d)'
    OBVIOUS
  <2>1. Untouched(d)
    BY <1>5 DEF TypeOK, Forward, Requests, Untouched, ReadOps, WriteOps, Requested, lifeVars,
      opVars, dataVars, runVars, watchVars
  <2>2. SameLinks(d)
    BY <1>5 DEF Forward, runVars, SameLinks, Linked
  <2> QED
    BY <2>1, <2>2, UntouchedKeeps
<1> QED
  BY <1>1, <1>2, <1>3, <1>4, <1>5 DEF Dispatch

(* ... the steps that are none of it: callbacks that end, the listener ... *)
LEMMA AsideKeeps ==
  ASSUME CInv, NEW r \in Threads, AcceptFails(r) \/ Rearm(r) \/ Leave(r) \/ Release(r)
  PROVE  \A d \in Conns : Chain(d)'
<1> TypeOK /\ Working /\ (\A c \in Conns : Good(c)) /\ (\A c \in Conns : Chain(c))
  BY GoodEverywhere DEF CInv
<1> SUFFICES ASSUME NEW d \in Conns PROVE Chain(d)'
  OBVIOUS
<1>1. Untouched(d)
  <2>1. CASE AcceptFails(r) \/ Rearm(r)
    BY <2>1 DEF AcceptFails, Rearm, Untouched, ReadOps, WriteOps, Requested, lifeVars,
      opVars, dataVars, watchVars
  <2>2. CASE Leave(r) \/ Release(r)
    BY <2>2 DEF TypeOK, Leave, Release, DropRef, Untouched, ReadOps, WriteOps, Requested,
      opVars, dataVars, watchVars
  <2> QED
    BY <2>1, <2>2
<1>2. /\ pc[r] \in {"idle", "rearm", "leave", "release"}
      /\ pc'[r] \in {"idle", "rearm"}
      /\ OnlyMoves(r)
  BY DEF TypeOK, AcceptFails, Rearm, Leave, Release, Visit, OnlyMoves
<1> QED
  BY <1>1, <1>2, ElsewhereIsSame, UntouchedKeeps DEF Linked, Busy

(* ... a new connection, whose chain begins with the read of run() ...     *)
LEMMA AcceptKeeps ==
  ASSUME CInv, NEW r \in Threads, NEW b \in Conns, AcceptOk(r, b)
  PROVE  \A d \in Conns : Chain(d)'
<1> TypeOK /\ Working /\ (\A c \in Conns : Good(c)) /\ (\A c \in Conns : Chain(c))
  BY GoodEverywhere DEF CInv
<1>1. ASSUME NEW d \in Conns PROVE SameLinks(d)
  <2>1. pc[r] = "idle" /\ pc'[r] = "rearm" /\ OnlyMoves(r)
    BY DEF TypeOK, AcceptOk, OnlyMoves
  <2> QED
    BY <2>1, ElsewhereIsSame DEF Linked, Busy
<1>2. ASSUME NEW d \in Conns, d # b PROVE Chain(d)'
  <2>1. Untouched(d)
    BY <1>2 DEF TypeOK, AcceptOk, Untouched, ReadOps, WriteOps, Requested, Readings,
      dataVars, watchVars
  <2> QED
    BY <1>1, <2>1, UntouchedKeeps
<1>3. Chain(b)'
  <2>1. /\ conn[b] = "absent" /\ conn'[b] = "live"
        /\ Deleted'[b] = Deleted[b] /\ deletes'[b] = deletes[b] /\ shut'[b] = shut[b]
        /\ asked'[b] = asked[b] /\ written'[b] = written[b]
        /\ notFound'[b] = notFound[b] /\ lost'[b] = lost[b]
        /\ readAt'[b] = readAt[b] /\ oldDataSize'[b] = oldDataSize[b] /\ got'[b] = got[b]
        /\ WriteOps(b)' = WriteOps(b) /\ Requested(b)' = Requested(b)
        /\ reads'[b].pending = 1 /\ reads'[b].data = reads[b].data
        /\ reads'[b].failed = reads[b].failed
    BY DEF TypeOK, AcceptOk, WriteOps, Requested, Readings, dataVars, watchVars
  <2>2. /\ ReadOps(b) = 0 /\ WriteOps(b) = 0 /\ Requested(b) = 0
        /\ \A u \in Threads : at[u] # b
    BY <2>1, GoneIsIdle DEF CInv
  <2>3. reads[b].data = 0 /\ reads[b].failed = 0
    <3>1. reads[b].pending + reads[b].data + reads[b].failed = 0
      BY <2>2 DEF ReadOps
    <3>2. \A i, j, k \in Nat : i + j + k = 0 => i = 0 /\ j = 0 /\ k = 0
      OBVIOUS
    <3> QED
      BY <3>1, <3>2, ChainTyped
  <2>4. ReadOps(b)' = 1
    BY <2>1, <2>3 DEF ReadOps
  <2>5. ~Doing(b, Busy) /\ ~Doing(b, {"call", "answer"}) /\ ~Doing(b, {"close"})
        /\ ~Doing(b, {"parse", "call", "answer"})
    BY <2>2 DEF Doing
  <2>6. Deleted[b] = 0
    BY <2>1 DEF Good
  <2>7. \A u, v \in Threads : ~(at'[u] = b /\ pc'[u] \in Busy)
    BY <1>1, <2>2 DEF SameLinks, Linked
  <2>8. Alone(b)' /\ Owes(b)' /\ Driven(b)'
    BY <1>1, <2>1, <2>2, <2>4, <2>5, <2>7, LinksStay DEF Chain, Alone, Owes, Driven, Ops
  <2>9. Closed(b)'
    BY <1>1, <2>1, <2>5, <2>6, LinksStay DEF Closed
  <2>10. Cut(b)' /\ Window(b)'
    BY <2>1, <2>3 DEF Chain, Cut, Window
  <2> QED
    BY <2>8, <2>9, <2>10 DEF Chain
<1> QED
  BY <1>2, <1>3

(* ... close(), which an open socket sees only behind the chain ...        *)
LEMMA CloseKeeps ==
  ASSUME CInv, NEW r \in Threads, Close(r)
  PROVE  \A d \in Conns : Chain(d)'
<1> TypeOK /\ Working /\ (\A c \in Conns : Good(c)) /\ (\A c \in Conns : Chain(c))
  BY GoodEverywhere DEF CInv
<1>1. at[r] \in Conns
  BY VisitedIsLive DEF Close
<1>2. /\ pc[r] = "close" /\ pc'[r] \in {"delete", "leave"} /\ at' = at
      /\ OnlyMoves(r)
  BY DEF TypeOK, Close, OnlyMoves, Goto
<1>3. ASSUME NEW d \in Conns, d # at[r] PROVE Chain(d)'
  <2>1. Untouched(d)
    BY <1>1, <1>3 DEF TypeOK, Close, Untouched, ReadOps, WriteOps, Requested, opVars,
      dataVars, watchVars
  <2> QED
    BY <1>2, <1>3, <2>1, ElsewhereIsSame, UntouchedKeeps DEF Linked
<1>4. ASSUME NEW c \in Conns, c = at[r] PROVE Chain(c)'
  <2>1. /\ ReadOps(c)' = ReadOps(c) /\ WriteOps(c)' = WriteOps(c)
        /\ Requested(c)' = Requested(c) /\ Ops(c)' = Ops(c)
        /\ asked'[c] = asked[c] /\ written'[c] = written[c] /\ conn'[c] = conn[c]
        /\ Deleted'[c] = Deleted[c] + 1 /\ deletes'[c] = deletes[c] /\ shut'[c] = shut[c]
        /\ notFound'[c] = notFound[c] /\ lost'[c] = lost[c]
        /\ readAt'[c] = readAt[c] /\ oldDataSize'[c] = oldDataSize[c]
        /\ reads'[c] = reads[c] /\ got'[c] = got[c]
    BY <1>4 DEF TypeOK, Close, Ops, ReadOps, WriteOps, Requested, opVars, dataVars, watchVars
  <2>2. \A u \in Threads : pc'[u] # pc[u] => u = r
    BY <1>2 DEF OnlyMoves
  <2>3. ASSUME NEW S \in SUBSET Busy PROVE Doing(c, S)' <=> Doing(c, S)
    BY <1>2, <2>2, <2>3 DEF Doing, Busy
  <2>4. /\ Doing(c, Busy)' <=> Doing(c, Busy)
        /\ Doing(c, {"call", "answer"})' <=> Doing(c, {"call", "answer"})
        /\ Doing(c, {"parse", "call", "answer"})' <=> Doing(c, {"parse", "call", "answer"})
    BY <2>3 DEF Busy
  <2>5. Doing(c, {"close"})
    BY <1>2, <1>4 DEF Doing
  <2>6. Alone(c)'
    BY <1>2, <2>1, <2>2, <2>4 DEF Chain, Alone, Busy
  <2>7. Owes(c)'
    BY <2>1, <2>4 DEF Chain, Owes
  <2>8. Driven(c)' /\ Closed(c)'
    BY <2>1, <2>4, <2>5, ChainTyped DEF Chain, Driven, Closed
  <2>9. Cut(c)' /\ Window(c)'
    BY <2>1 DEF Chain, Cut, Window
  <2> QED
    BY <2>6, <2>7, <2>8, <2>9 DEF Chain
<1> QED
  BY <1>3, <1>4

(* ... deleteAioObject, which can cancel no reply but a 404 ...            *)
LEMMA DeleteKeeps ==
  ASSUME CInv, NEW r \in Threads, Delete(r)
  PROVE  \A d \in Conns : Chain(d)'
<1> TypeOK /\ Working /\ (\A c \in Conns : Good(c)) /\ (\A c \in Conns : Chain(c))
  BY GoodEverywhere DEF CInv
<1>1. at[r] \in Conns
  BY VisitedIsLive DEF Delete
<1>2. pc[r] = "delete" /\ pc'[r] = "leave" /\ at'[r] = at[r] /\ OnlyMoves(r)
  BY DEF TypeOK, Delete, OnlyMoves, Goto
<1>3. ASSUME NEW d \in Conns PROVE SameLinks(d)
  BY <1>2, ElsewhereIsSame DEF Linked, Busy
<1>4. ASSUME NEW d \in Conns, d # at[r] PROVE Chain(d)'
  <2>1. Untouched(d)
    BY <1>1, <1>4 DEF TypeOK, Delete, CutOff, DropRef, Goto, Untouched, ReadOps, WriteOps,
      Requested, dataVars
  <2> QED
    BY <1>3, <2>1, UntouchedKeeps
<1>5. ASSUME NEW c \in Conns, c = at[r] PROVE Chain(c)'
  <2>1. /\ ReadOps(c)' = ReadOps(c) /\ WriteOps(c)' = WriteOps(c)
        /\ Requested(c)' = Requested(c)
        /\ asked'[c] = asked[c] /\ written'[c] = written[c] /\ conn'[c] \in {conn[c], "freed"}
        /\ Deleted'[c] = Deleted[c] /\ deletes'[c] = deletes[c] + 1 /\ shut'[c] = shut[c]
        /\ notFound'[c] = notFound[c]
        /\ lost'[c] = IF shut[c] THEN lost[c] ELSE lost[c] + writes[c].pending
        /\ readAt'[c] = readAt[c] /\ oldDataSize'[c] = oldDataSize[c]
        /\ reads'[c].data = reads[c].data /\ got'[c] = got[c]
    BY <1>5, ChainTyped DEF TypeOK, Delete, CutOff, DropRef, ReadOps, WriteOps, Requested,
      Readings, Writings, dataVars
  <2>2. deletes[c] = 0 /\ Deleted[c] > 0
    <3>1. Tally(r, c)
      BY <1>2, ThreadMoves
    <3> QED
      BY <1>2, <1>5, <3>1, ChainTyped DEF Tally, One, Good
  <2>3. Ops(c)' = Ops(c)
    BY <2>1 DEF Ops
  <2>4. Alone(c)'
    BY <1>3, <2>3, AloneStays DEF Chain
  <2>5. Owes(c)' /\ Driven(c)' /\ Closed(c)'
    BY <1>3, <2>1, <2>2, LinksStay, ChainTyped DEF Chain, Owes, Driven, Closed
  <2>6. Cut(c)'
    <3>1. writes[c].pending <= WriteOps(c) /\ WriteOps(c) <= 1
      BY ChainTyped DEF Chain, Alone, Ops, WriteOps
    <3>2. ~shut[c] /\ WriteOps(c) > 0 => notFound[c] > 0
      BY <2>2 DEF Chain, Closed
    <3>3. lost[c] = 0
      BY <2>2 DEF Chain, Cut
    <3> QED
      BY <2>1, <2>2, <3>1, <3>2, <3>3, ChainTyped DEF Cut
  <2>7. Window(c)'
    BY <2>1 DEF Chain, Window
  <2> QED
    BY <2>4, <2>5, <2>6, <2>7 DEF Chain
<1> QED
  BY <1>4, <1>5

(* ... and what the client does.                                           *)
LEMMA OutsideKeeps ==
  ASSUME CInv, NEW b \in Conns, Outside(b)
  PROVE  \A d \in Conns : Chain(d)'
<1> TypeOK /\ Working /\ (\A c \in Conns : Good(c)) /\ (\A c \in Conns : Chain(c))
  BY GoodEverywhere DEF CInv
<1> SUFFICES ASSUME NEW d \in Conns PROVE Chain(d)'
  OBVIOUS
<1>1. SameLinks(d)
  BY DEF Outside, ReadArrives, ReadFails, WriteEnds, runVars, SameLinks, Linked
<1>2. CASE ReadFails(b) \/ WriteEnds(b)
  <2>1. Untouched(d)
    <3>1. CASE ReadFails(b)
      BY <3>1 DEF TypeOK, ReadFails, Untouched, ReadOps, WriteOps, Requested, Readings,
        lifeVars, dataVars, watchVars
    <3>2. CASE WriteEnds(b)
      BY <3>2 DEF TypeOK, WriteEnds, Untouched, ReadOps, WriteOps, Requested, Writings,
        lifeVars, dataVars, watchVars
    <3> QED
      BY <1>2, <3>1, <3>2
  <2> QED
    BY <1>1, <2>1, UntouchedKeeps
<1>3. CASE ReadArrives(b) /\ d # b
  <2>1. Untouched(d)
    BY <1>3 DEF TypeOK, ReadArrives, Untouched, ReadOps, WriteOps, Requested, lifeVars,
      watchVars
  <2> QED
    BY <1>1, <2>1, UntouchedKeeps
<1>4. CASE ReadArrives(b) /\ d = b
  <2>1. PICK n \in 1..(BufSize - readAt[b]) : got' = [got EXCEPT ![b] = n]
    BY <1>4 DEF ReadArrives
  <2>2. /\ ReadOps(d)' = ReadOps(d) /\ WriteOps(d)' = WriteOps(d)
        /\ Requested(d)' = Requested(d) /\ Ops(d)' = Ops(d) /\ reads[d].pending > 0
        /\ asked'[d] = asked[d] /\ written'[d] = written[d]
        /\ conn'[d] = conn[d] /\ Deleted'[d] = Deleted[d] /\ deletes'[d] = deletes[d]
        /\ shut'[d] = shut[d] /\ notFound'[d] = notFound[d] /\ lost'[d] = lost[d]
        /\ readAt'[d] = readAt[d] /\ oldDataSize'[d] = oldDataSize[d]
    BY <1>4, ChainTyped DEF TypeOK, ReadArrives, ReadOps, WriteOps, Requested, Ops, Readings,
      lifeVars, watchVars
  <2>3. got'[d] = n /\ n <= BufSize - readAt[d]
    BY <1>4, <2>1, ChainTyped, BoundsAssumption DEF TypeOK
  <2>4. ReadOps(d) > 0
    BY <2>2, ChainTyped DEF ReadOps
  <2>5. Alone(d)'
    BY <1>1, <2>2, AloneStays DEF Chain
  <2>6. Owes(d)' /\ Driven(d)' /\ Closed(d)' /\ Cut(d)'
    BY <1>1, <2>2, LinksStay DEF Chain, Owes, Driven, Closed, Cut
  <2>7. Window(d)'
    BY <2>2, <2>3, <2>4, ChainTyped, BoundsAssumption DEF Chain, Window
  <2> QED
    BY <2>5, <2>6, <2>7 DEF Chain
<1> QED
  BY <1>2, <1>3, <1>4 DEF Outside

(* Every action of the server keeps every connection's chain.              *)
LEMMA ChainStep == CInv /\ [Next]_vars => CInv'
<1> SUFFICES ASSUME CInv, [Next]_vars PROVE CInv'
  OBVIOUS
<1>1. IInv'
  BY InvStep DEF CInv
<1>2. CASE UNCHANGED vars
  <2>1. ASSUME NEW d \in Conns PROVE Chain(d)'
    <3>1. Untouched(d) /\ SameLinks(d)
      BY <1>2 DEF Untouched, SameLinks, Linked, ReadOps, WriteOps, Requested, vars, lifeVars,
        opVars, dataVars, runVars, watchVars
    <3> QED
      BY <3>1, UntouchedKeeps DEF CInv
  <2> QED
    BY <1>1, <2>1 DEF CInv
<1>3. CASE Next
  <2>1. \A d \in Conns : Chain(d)'
    <3>1. ASSUME NEW r \in Threads,
      AcceptFails(r) \/ Continue(r) PROVE \A d \in Conns : Chain(d)'
      BY <3>1, CallbackKeeps, AsideKeeps, CloseKeeps, DeleteKeeps DEF Continue
    <3>2. ASSUME NEW r \in Threads, NEW b \in Conns, AcceptOk(r, b) \/ Dispatch(r, b)
          PROVE  \A d \in Conns : Chain(d)'
      BY <3>2, AcceptKeeps, DispatchKeeps
    <3>3. ASSUME NEW b \in Conns, Outside(b) PROVE \A d \in Conns : Chain(d)'
      BY <3>3, OutsideKeeps
    <3> QED
      BY <1>3, <3>1, <3>2, <3>3 DEF Next
  <2> QED
    BY <1>1, <2>1 DEF CInv
<1> QED
  BY <1>2, <1>3

(* In every reachable state what is under way on a connection is a chain.  *)
THEOREM ChainHolds == Spec => []CInv
<1>1. Init /\ IInv => CInv
  <2> SUFFICES ASSUME Init, IInv, NEW c \in Conns PROVE Chain(c)
    BY DEF CInv
  <2>1. ReadOps(c) = 0 /\ WriteOps(c) = 0 /\ Requested(c) = 0 /\ Ops(c) = 0
    BY DEF Init, ReadOps, WriteOps, Requested, Ops
  <2>2. \A S : ~Doing(c, S)
    BY ConnsAssumption DEF Init, Doing
  <2>3. Alone(c)
    BY <2>1, <2>2, ConnsAssumption DEF Init, Alone
  <2>4. Owes(c) /\ Driven(c) /\ Closed(c) /\ Cut(c) /\ Window(c)
    BY <2>1, <2>2 DEF Init, Owes, Driven, Closed, Cut, Window
  <2> QED
    BY <2>3, <2>4 DEF Chain
<1> QED
  BY <1>1, ChainStep, InvariantHolds, PTL DEF Spec

-----------------------------------------------------------------------------
(* A live connection always has something outstanding: there is no path on *)
(* which the server forgets one.                                           *)
THEOREM NeverForgottenHolds == Spec => []NeverForgotten
<1>1. CInv => NeverForgotten
  <2> SUFFICES ASSUME CInv, NEW c \in Conns, conn[c] = "live" PROVE Outstanding(c)
    BY DEF NeverForgotten
  <2>1. TypeOK /\ Good(c) /\ Chain(c)
    BY GoodEverywhere DEF CInv
  <2>2. CASE Deleted[c] = 0
    <3>1. Ops(c) = 1 \/ \E t \in Threads : at[t] = c
      BY <2>1, <2>2 DEF Chain, Driven, Doing
    <3> QED
      BY <2>1, <3>1, ChainTyped DEF Outstanding, Visitors, Ops
  <2>3. CASE Deleted[c] # 0 /\ Visitors(c) = {}
    <3>1. Deleting(c) = {} /\ Pinning(c) = {}
      BY <2>3 DEF Visitors, Deleting, Pinning
    <3>2. Cardinality(Visitors(c)) = 0 /\ Cardinality(Pinning(c)) = 0
          /\ Cardinality(Deleting(c)) = 0
      BY <2>3, <3>1, FS_EmptySet
    <3>3. BaseRef(c) = 0 /\ refs[c] > 0
      BY <2>1, <2>3, <3>2, ChainTyped DEF Good, BaseRef
    <3> QED
      BY <2>1, <3>2, <3>3, ChainTyped DEF Good, Holders, Outstanding
  <2> QED
    BY <2>2, <2>3 DEF Outstanding
<1> QED
  BY <1>1, ChainHolds, PTL

(* Two reads, two parsing threads, or one of each never share the buffer.  *)
THEOREM BufferExclusiveHolds == Spec => []BufferExclusive
<1>1. CInv => BufferExclusive
  <2> SUFFICES ASSUME CInv, NEW c \in Conns PROVE ReadOps(c) + Cardinality(Parsing(c)) <= 1
    BY DEF BufferExclusive
  <2>1. TypeOK /\ Chain(c)
    BY GoodEverywhere DEF CInv
  <2>2. CASE Parsing(c) = {}
    BY <2>1, <2>2, FS_EmptySet, ChainTyped DEF Chain, Alone, Ops
  <2>3. ASSUME NEW t \in Parsing(c) PROVE ReadOps(c) + Cardinality(Parsing(c)) <= 1
    <3>1. t \in Threads /\ at[t] = c /\ pc[t] \in Busy
      BY <2>3 DEF Parsing, Busy
    <3>2. Parsing(c) = {t}
      BY <2>1, <2>3, <3>1 DEF Parsing, Chain, Alone, Busy
    <3>3. ReadOps(c) = 0
      BY <2>1, <3>1, CallbackIsLink
    <3> QED
      BY <3>2, <3>3, FS_EmptySet, FS_AddElement
  <2> QED
    BY <2>2, <2>3
<1> QED
  BY <1>1, ChainHolds, PTL

(* On an open socket the parser is given exactly the kept tail and the     *)
(* bytes read behind it.                                                   *)
THEOREM WindowExactHolds == Spec => []WindowExact
<1>1. CInv => WindowExact
  BY DEF CInv, Chain, Window, WindowExact
<1> QED
  BY <1>1, ChainHolds, PTL

(* The server cuts no reply but a 404.                                     *)
THEOREM ReplyNotCutOffHolds == Spec => []ReplyNotCutOff
<1>1. CInv => ReplyNotCutOff
  BY DEF CInv, Chain, Cut, ReplyNotCutOff
<1> QED
  BY <1>1, ChainHolds, PTL

(* A connection closed while its socket is open owes its client nothing.   *)
THEOREM ClosedOwesNothingHolds == Spec => []ClosedOwesNothing
<1>1. CInv => ClosedOwesNothing
  <2> SUFFICES ASSUME CInv, NEW c \in Conns, Deleted[c] > 0,
    ~shut[c] PROVE asked[c] = written[c]
    BY DEF ClosedOwesNothing
  <2>1. TypeOK /\ Chain(c)
    BY GoodEverywhere DEF CInv
  <2>2. Requested(c) = 0 /\ ~Doing(c, {"call", "answer"})
    BY <2>1 DEF Chain, Closed, Doing
  <2> QED
    BY <2>1, <2>2, ChainTyped DEF Chain, Owes
<1> QED
  BY <1>1, ChainHolds, PTL

-----------------------------------------------------------------------------
owed == [c \in Conns |-> asked[c] - written[c]]

(* A connection that is not live owes nothing.                             *)
GoneOwesNothing == \A c \in Conns : conn[c] # "live" => asked[c] = written[c]

(* In every reachable state.                                               *)
LEMMA GoneOwes == CInv => GoneOwesNothing
<1> SUFFICES ASSUME CInv, NEW c \in Conns, conn[c] # "live" PROVE asked[c] = written[c]
  BY DEF GoneOwesNothing
<1>1. Requested(c) = 0 /\ ~Doing(c, {"call", "answer"})
  BY GoneIsIdle DEF CInv, Doing
<1> QED
  BY <1>1, ChainTyped DEF CInv, IInv, Chain, Owes

(* A step that frees a connection frees one that owes nothing.             *)
LEMMA FreesOrStutters ==
  ASSUME CInv, GoneOwesNothing', NEW c \in Conns, DropRef(c), conn[c] = "live",
         UNCHANGED <<asked, written>>
  PROVE  Lifetime!Free(c) \/ UNCHANGED <<conn, owed>>
<1> TypeOK
  BY DEF CInv, IInv
<1>1. owed' = owed
  BY DEF owed
<1>2. conn' = conn \/ conn' = [conn EXCEPT ![c] = "freed"]
  BY DEF TypeOK, DropRef
<1>3. CASE conn' = [conn EXCEPT ![c] = "freed"]
  <2>1. conn'[c] = "freed"
    BY <1>3 DEF TypeOK
  <2>2. asked[c] - written[c] = 0
    BY <2>1, ChainTyped DEF GoneOwesNothing
  <2> QED
    BY <1>1, <1>3, <2>2 DEF Lifetime!Free, owed
<1> QED
  BY <1>1, <1>2, <1>3

(* Every step of the server is one of the abstract connection, or none.    *)
LEMMA StepImplements ==
  CInv /\ GoneOwesNothing' /\ [Next]_vars => [Lifetime!Next]_<<conn, owed>>
<1> SUFFICES ASSUME CInv, GoneOwesNothing',
  [Next]_vars PROVE Lifetime!Next \/ UNCHANGED <<conn, owed>>
  OBVIOUS
<1> TypeOK /\ Working /\ (\A c \in Conns : Good(c)) /\ (\A c \in Conns : Chain(c))
  BY GoodEverywhere DEF CInv
<1>1. ASSUME NEW t \in Threads, NEW c \in Conns, AcceptOk(t, c) PROVE Lifetime!Next
  BY <1>1 DEF AcceptOk, watchVars, Lifetime!Next, Lifetime!Open
<1>2. ASSUME NEW t \in Threads, ParsePin(t) PROVE Lifetime!Next
  <2>1. at[t] \in Conns /\ conn[at[t]] = "live" /\ pc[t] = "parse"
    BY <1>2, VisitedIsLive DEF ParsePin
  <2>2. asked[at[t]] - written[at[t]] = 0
    BY <2>1, CallbackIsLink DEF Busy
  <2>3. /\ conn' = conn /\ written' = written
        /\ asked' = [asked EXCEPT ![at[t]] = @ + 1]
    BY <1>2 DEF ParsePin, TakeRef
  <2>4. owed' = [owed EXCEPT ![at[t]] = 1]
    <3>1. asked \in [Conns -> Nat] /\ written \in [Conns -> Nat]
      BY DEF TypeOK
    <3>2. \A c \in Conns : asked'[c] - written'[c] =
                            IF c = at[t] THEN 1 ELSE asked[c] - written[c]
      BY <2>1, <2>2, <2>3, <3>1
    <3> QED
      BY <2>1, <3>2 DEF owed
  <2> QED
    BY <2>1, <2>2, <2>3, <2>4 DEF Lifetime!Next, Lifetime!Take, owed
<1>3. ASSUME NEW t \in Threads, Reply(t) PROVE Lifetime!Next
  <2>1. at[t] \in Conns /\ conn[at[t]] = "live" /\ pc[t] = "answer"
    BY <1>3, VisitedIsLive DEF Reply
  <2>2. asked[at[t]] - written[at[t]] = 1
    BY <2>1, CallbackIsLink DEF Busy
  <2>3. /\ conn' = conn /\ asked' = asked
        /\ written' = [written EXCEPT ![at[t]] = @ + 1]
    BY <1>3 DEF Reply, PostWrite, TakeRef
  <2>4. owed' = [owed EXCEPT ![at[t]] = 0]
    <3>1. asked \in [Conns -> Nat] /\ written \in [Conns -> Nat]
      BY DEF TypeOK
    <3>2. \A c \in Conns : asked'[c] - written'[c] =
                            IF c = at[t] THEN 0 ELSE asked[c] - written[c]
      BY <2>1, <2>2, <2>3, <3>1
    <3> QED
      BY <2>1, <3>2 DEF owed
  <2> QED
    BY <2>1, <2>2, <2>3, <2>4 DEF Lifetime!Next, Lifetime!Answer, owed
<1>4. ASSUME NEW t \in Threads, Leave(t) \/ Release(t) \/ Delete(t)
      PROVE  Lifetime!Next \/ UNCHANGED <<conn, owed>>
  <2>1. at[t] \in Conns /\ conn[at[t]] = "live"
    BY <1>4, VisitedIsLive DEF Leave, Release, Delete
  <2>2. DropRef(at[t]) /\ UNCHANGED <<asked, written>>
    BY <1>4 DEF Leave, Release, Delete, watchVars
  <2> QED
    BY <2>1, <2>2, FreesOrStutters DEF Lifetime!Next
<1>5. ASSUME NEW t \in Threads, ParseNotFound(t) \/ ParseReply(t)
      PROVE  UNCHANGED <<conn, owed>>
  <2>1. at[t] \in Conns
    BY <1>5, VisitedIsLive DEF ParseNotFound, ParseReply
  <2>2. /\ conn' = conn
        /\ asked' = [asked EXCEPT ![at[t]] = @ + 1]
        /\ written' = [written EXCEPT ![at[t]] = @ + 1]
    BY <1>5 DEF ParseNotFound, ParseReply, PostWrite, TakeRef
  <2>3. \A c \in Conns : asked'[c] - written'[c] = asked[c] - written[c]
    BY <2>1, <2>2, ChainTyped DEF TypeOK
  <2> QED
    BY <2>2, <2>3 DEF owed
<1>6. ASSUME NEW t \in Threads,
             \/ AcceptFails(t) \/ Rearm(t) \/ ParseNeedMore(t) \/ ParseError(t)
             \/ Call(t) \/ Close(t) \/ OnWrite(t)
      PROVE  UNCHANGED <<conn, owed>>
  BY <1>6 DEF AcceptFails, Rearm, ParseNeedMore, ParseError, Call, Close, OnWrite, PostRead,
    TakeRef, lifeVars, watchVars, owed
<1>7. ASSUME NEW t \in Threads, NEW c \in Conns, Dispatch(t, c) PROVE UNCHANGED <<conn, owed>>
  BY <1>7 DEF Dispatch, ReadOk, ReadFailed, WriteEnded, Answer, Forward, lifeVars, watchVars,
    owed
<1>8. ASSUME NEW c \in Conns, Outside(c) PROVE UNCHANGED <<conn, owed>>
  BY <1>8 DEF Outside, ReadArrives, ReadFails, WriteEnds, lifeVars, watchVars, owed
<1>9. CASE UNCHANGED vars
  BY <1>9 DEF vars, lifeVars, watchVars, owed
<1> QED
  BY <1>1, <1>2, <1>3, <1>4, <1>5, <1>6, <1>7, <1>8, <1>9 DEF Next, Continue

(* The server implements the abstract connection: requests are answered    *)
(* one at a time and once each, and a connection is freed once, when it    *)
(* owes no answer.                                                         *)
THEOREM ImplementsLifetime == Spec => LifetimeSpec
<1>1. Init => Lifetime!Init
  BY DEF Init, Lifetime!Init
<1>2. CInv /\ GoneOwesNothing' /\ [Next]_vars => [Lifetime!Next]_Lifetime!vars
  BY StepImplements DEF Lifetime!vars, owed
<1> QED
  BY <1>1, <1>2, ChainHolds, GoneOwes, PTL DEF Spec, LifetimeSpec, Lifetime!Spec
=============================================================================
