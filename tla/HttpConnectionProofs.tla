------------------------ MODULE HttpConnectionProofs ------------------------
(***************************************************************************)
(* Proofs about HttpConnection, for any number of connections, threads and *)
(* services and any buffer size.                                           *)
(***************************************************************************)
EXTENDS HttpConnection, FiniteSetTheorems, TLAPS

(* The threads are finitely many.                                          *)
LEMMA ThreadsFinite == IsFiniteSet(Threads)
  BY ThreadsAssumption, FS_Union DEF Threads

(* Every variable keeps its type, whatever callbacks run on whatever       *)
(* threads: in particular the offset of a read and the kept tail stay      *)
(* within the buffer of the connection.                                    *)
LEMMA TypeStep == TypeOK /\ Working /\ [Next]_vars => TypeOK'
<1> SUFFICES ASSUME TypeOK, Working, [Next]_vars PROVE TypeOK'
  OBVIOUS
<1> USE BoundsAssumption
<1>0. ASSUME NEW t \in Threads, pc[t] \notin {"idle", "rearm"} PROVE at[t] \in Conns
  BY <1>0 DEF Working, TypeOK
<1>1. ASSUME NEW t \in Threads, AcceptFails(t) PROVE TypeOK'
  BY <1>1 DEF TypeOK, AcceptFails, lifeVars, opVars, dataVars, watchVars, HttpPCs
<1>2. ASSUME NEW t \in Threads, NEW c \in Conns, AcceptOk(t, c) PROVE TypeOK'
  BY <1>2, SMTT(60) DEF TypeOK, AcceptOk, dataVars, watchVars, HttpPCs, Readings
<1>3. ASSUME NEW t \in Threads, Rearm(t) PROVE TypeOK'
  BY <1>3 DEF TypeOK, Rearm, lifeVars, opVars, dataVars, watchVars, HttpPCs
<1>4. ASSUME NEW t \in Threads, ParseNeedMore(t) PROVE TypeOK'
  BY <1>4, <1>0, SMTT(60) DEF TypeOK, ParseNeedMore, PostRead, TakeRef, Goto,
    watchVars, HttpPCs, Readings
<1>5. ASSUME NEW t \in Threads, ParseError(t) PROVE TypeOK'
  BY <1>5, <1>0 DEF TypeOK, ParseError, Goto, lifeVars, opVars, dataVars,
    watchVars, HttpPCs
<1>6. ASSUME NEW t \in Threads, ParseNotFound(t) PROVE TypeOK'
  BY <1>6, <1>0, SMTT(60) DEF TypeOK, ParseNotFound, PostWrite, TakeRef, Goto,
    dataVars, HttpPCs, Writings
<1>7. ASSUME NEW t \in Threads, ParseReply(t) PROVE TypeOK'
  BY <1>7, <1>0, SMTT(60) DEF TypeOK, ParseReply, PostWrite, TakeRef, Goto,
    dataVars, HttpPCs, Writings
<1>8. ASSUME NEW t \in Threads, ParsePin(t) PROVE TypeOK'
  BY <1>8, <1>0, SMTT(60) DEF TypeOK, ParsePin, TakeRef, Goto, opVars, dataVars,
    HttpPCs
<1>9. ASSUME NEW t \in Threads, Call(t) PROVE TypeOK'
  <2>1. calls' \in [Conns -> Requests]
    BY <1>9, <1>0, SMTT(60) DEF TypeOK, Call, Goto, Requests
  <2> QED
    BY <1>9, <2>1 DEF TypeOK, Call, Goto, lifeVars, dataVars, watchVars, HttpPCs
<1>10. ASSUME NEW t \in Threads, Close(t) PROVE TypeOK'
  BY <1>10, <1>0, SMTT(60) DEF TypeOK, Close, Goto, opVars, dataVars, watchVars,
    HttpPCs
<1>11. ASSUME NEW t \in Threads, Delete(t) PROVE TypeOK'
  BY <1>11, <1>0, SMTT(60) DEF TypeOK, Delete, CutOff, DropRef, Goto, dataVars,
    HttpPCs, Readings, Writings
<1>12. ASSUME NEW t \in Threads, Leave(t) PROVE TypeOK'
  BY <1>12, <1>0, SMTT(60) DEF TypeOK, Leave, DropRef, Visit, opVars, dataVars,
    watchVars, HttpPCs
<1>13. ASSUME NEW t \in Threads, OnWrite(t) PROVE TypeOK'
  BY <1>13, <1>0, SMTT(60) DEF TypeOK, OnWrite, CutOff, PostRead, TakeRef, Goto,
    HttpPCs, Readings, Writings
<1>14. ASSUME NEW t \in Threads, Reply(t) PROVE TypeOK'
  BY <1>14, <1>0, SMTT(60) DEF TypeOK, Reply, PostWrite, TakeRef, Goto, dataVars,
    ServicePCs, Writings
<1>15. ASSUME NEW t \in Threads, Release(t) PROVE TypeOK'
  BY <1>15, <1>0, SMTT(60) DEF TypeOK, Release, DropRef, Visit, opVars, dataVars,
    watchVars, ServicePCs
<1>16. ASSUME NEW t \in Threads, NEW c \in Conns, Dispatch(t, c) PROVE TypeOK'
  <2>1. CASE ReadOk(t, c)
    BY <2>1 DEF TypeOK, ReadOk, Visit, lifeVars, dataVars, watchVars, HttpPCs,
      Readings
  <2>2. CASE ReadFailed(t, c)
    BY <2>2 DEF TypeOK, ReadFailed, Visit, lifeVars, dataVars, watchVars, HttpPCs,
      Readings
  <2>3. CASE WriteEnded(t, c)
    BY <2>3, SMTT(60) DEF TypeOK, WriteEnded, Visit, lifeVars, dataVars, watchVars,
      HttpPCs, Writings
  <2>4. CASE Answer(t, c)
    BY <2>4, SMTT(60) DEF TypeOK, Answer, Visit, lifeVars, dataVars, watchVars,
      ServicePCs, Requests
  <2>5. CASE Forward(t, c)
    BY <2>5 DEF TypeOK, Forward, lifeVars, dataVars, runVars, watchVars, Requests
  <2> QED
    BY <1>16, <2>1, <2>2, <2>3, <2>4, <2>5 DEF Dispatch
<1>17. ASSUME NEW c \in Conns, Outside(c) PROVE TypeOK'
  <2>1. CASE ReadArrives(c)
    BY <2>1 DEF TypeOK, ReadArrives, lifeVars, runVars, watchVars, Readings
  <2>2. CASE ReadFails(c)
    BY <2>2 DEF TypeOK, ReadFails, lifeVars, dataVars, runVars, watchVars, Readings
  <2>3. CASE WriteEnds(c)
    BY <2>3 DEF TypeOK, WriteEnds, lifeVars, dataVars, runVars, watchVars, Writings
  <2> QED
    BY <1>17, <2>1, <2>2, <2>3 DEF Outside
<1>18. CASE UNCHANGED vars
  BY <1>18 DEF TypeOK, vars, lifeVars, opVars, dataVars, runVars, watchVars
<1> QED
  BY <1>1, <1>2, <1>3, <1>4, <1>5, <1>6, <1>7, <1>8, <1>9, <1>10, <1>11, <1>12,
     <1>13, <1>14, <1>15, <1>16, <1>17, <1>18 DEF Next, Continue

-----------------------------------------------------------------------------
(* Adding or removing one element of a finite set changes its size by one: *)
(* how the sets of threads of RefsAccount change when one thread moves.    *)
LEMMA OneMoves ==
  ASSUME NEW T, IsFiniteSet(T), NEW t \in T, NEW P, P \subseteq T, NEW Q,
  Q \subseteq T,
         \A u \in T \ {t} : u \in P <=> u \in Q
  PROVE  /\ Cardinality(P) \in Nat
         /\ Cardinality(Q) \in Nat
         /\ Cardinality(P) >= (IF t \in P THEN 1 ELSE 0)
         /\ Cardinality(Q) = Cardinality(P) + (IF t \in Q THEN 1 ELSE 0)
                             - (IF t \in P THEN 1 ELSE 0)
<1>1. IsFiniteSet(P) /\ IsFiniteSet(Q)
  BY FS_Subset
<1>2. Cardinality(P) \in Nat /\ Cardinality(Q) \in Nat
  BY <1>1, FS_CardinalityType
<1> DEFINE R == P \ {t}
<1>3. IsFiniteSet(R) /\ Cardinality(R) \in Nat
  BY <1>1, FS_Subset, FS_CardinalityType
<1>4. Cardinality(P) = Cardinality(R) + (IF t \in P THEN 1 ELSE 0)
  <2>1. CASE t \in P
    <3>1. P = R \cup {t} /\ t \notin R
      BY <2>1
    <3> QED
      BY <3>1, <1>3, <2>1, FS_AddElement
  <2>2. CASE t \notin P
    BY <2>2, <1>2
  <2> QED
    BY <2>1, <2>2
<1>5. Cardinality(Q) = Cardinality(R) + (IF t \in Q THEN 1 ELSE 0)
  <2>1. CASE t \in Q
    <3>1. Q = R \cup {t} /\ t \notin R
      BY <2>1
    <3> QED
      BY <3>1, <1>3, <2>1, FS_AddElement
  <2>2. CASE t \notin Q
    <3>1. Q = R
      BY <2>2
    <3> QED
      BY <3>1, <1>3, <2>2
  <2> QED
    BY <2>1, <2>2
<1> QED
  BY <1>2, <1>3, <1>4, <1>5

(* The three sets of threads of a connection are finite.                   *)
LEMMA CountsAreNat ==
  ASSUME NEW c \in Conns
  PROVE  /\ Cardinality(Visitors(c)) \in Nat
         /\ Cardinality(Pinning(c)) \in Nat
         /\ Cardinality(Deleting(c)) \in Nat
<1>1. /\ Visitors(c) \subseteq Threads
      /\ Pinning(c) \subseteq Threads
      /\ Deleting(c) \subseteq Threads
  BY DEF Visitors, Pinning, Deleting
<1> QED
  BY <1>1, ThreadsFinite, FS_Subset, FS_CardinalityType

(* What a step of one thread does to those three counts.                   *)
OnlyMoves(t) == \A u \in Threads \ {t} : pc'[u] = pc[u] /\ at'[u] = at[u]
One(b) == IF b THEN 1 ELSE 0

Tally(t, c) ==
  /\ Cardinality(Visitors(c)) \in Nat
  /\ Cardinality(Pinning(c)) \in Nat
  /\ Cardinality(Deleting(c)) \in Nat
  /\ Cardinality(Visitors(c)) >= One(at[t] = c)
  /\ Cardinality(Pinning(c)) >= One(at[t] = c /\ pc[t] = "call")
  /\ Cardinality(Deleting(c)) >= One(at[t] = c /\ pc[t] = "delete")
  /\ Cardinality(Visitors(c)') =
       Cardinality(Visitors(c)) + One(at'[t] = c) - One(at[t] = c)
  /\ Cardinality(Pinning(c)') =
       Cardinality(Pinning(c)) + One(at'[t] = c /\ pc'[t] = "call")
       - One(at[t] = c /\ pc[t] = "call")
  /\ Cardinality(Deleting(c)') =
       Cardinality(Deleting(c)) + One(at'[t] = c /\ pc'[t] = "delete")
       - One(at[t] = c /\ pc[t] = "delete")

(* A step that moves only t changes the counts of c by what t is in them.  *)
LEMMA ThreadMoves ==
  ASSUME NEW t \in Threads, NEW c \in Conns, OnlyMoves(t)
  PROVE  Tally(t, c)
<1>1. /\ Visitors(c) \subseteq Threads
      /\ Visitors(c)' \subseteq Threads
      /\ t \in Visitors(c) <=> at[t] = c
      /\ t \in Visitors(c)' <=> at'[t] = c
      /\ \A u \in Threads \ {t} : u \in Visitors(c) <=> u \in Visitors(c)'
  BY DEF Visitors, OnlyMoves
<1>2. /\ Pinning(c) \subseteq Threads
      /\ Pinning(c)' \subseteq Threads
      /\ t \in Pinning(c) <=> at[t] = c /\ pc[t] = "call"
      /\ t \in Pinning(c)' <=> at'[t] = c /\ pc'[t] = "call"
      /\ \A u \in Threads \ {t} : u \in Pinning(c) <=> u \in Pinning(c)'
  BY DEF Pinning, OnlyMoves
<1>3. /\ Deleting(c) \subseteq Threads
      /\ Deleting(c)' \subseteq Threads
      /\ t \in Deleting(c) <=> at[t] = c /\ pc[t] = "delete"
      /\ t \in Deleting(c)' <=> at'[t] = c /\ pc'[t] = "delete"
      /\ \A u \in Threads \ {t} : u \in Deleting(c) <=> u \in Deleting(c)'
  BY DEF Deleting, OnlyMoves
<1>4. /\ Cardinality(Visitors(c)) \in Nat
      /\ Cardinality(Visitors(c)) >= One(t \in Visitors(c))
      /\ Cardinality(Visitors(c)') =
           Cardinality(Visitors(c)) + One(t \in Visitors(c)') - One(t \in Visitors(c))
  <2> DEFINE P == Visitors(c)
             Q == Visitors(c)'
  <2>1. P \subseteq Threads /\ Q \subseteq Threads
        /\ (\A u \in Threads \ {t} : u \in P <=> u \in Q)
    BY <1>1
  <2> HIDE DEF P, Q
  <2>2. /\ Cardinality(P) \in Nat
        /\ Cardinality(P) >= One(t \in P)
        /\ Cardinality(Q) = Cardinality(P) + One(t \in Q) - One(t \in P)
    BY <2>1, ThreadsFinite, OneMoves DEF One
  <2> QED
    BY <2>2 DEF P, Q
<1>5. /\ Cardinality(Pinning(c)) \in Nat
      /\ Cardinality(Pinning(c)) >= One(t \in Pinning(c))
      /\ Cardinality(Pinning(c)') =
           Cardinality(Pinning(c)) + One(t \in Pinning(c)') - One(t \in Pinning(c))
  <2> DEFINE P == Pinning(c)
             Q == Pinning(c)'
  <2>1. P \subseteq Threads /\ Q \subseteq Threads
        /\ (\A u \in Threads \ {t} : u \in P <=> u \in Q)
    BY <1>2
  <2> HIDE DEF P, Q
  <2>2. /\ Cardinality(P) \in Nat
        /\ Cardinality(P) >= One(t \in P)
        /\ Cardinality(Q) = Cardinality(P) + One(t \in Q) - One(t \in P)
    BY <2>1, ThreadsFinite, OneMoves DEF One
  <2> QED
    BY <2>2 DEF P, Q
<1>6. /\ Cardinality(Deleting(c)) \in Nat
      /\ Cardinality(Deleting(c)) >= One(t \in Deleting(c))
      /\ Cardinality(Deleting(c)') =
           Cardinality(Deleting(c)) + One(t \in Deleting(c)') - One(t \in Deleting(c))
  <2> DEFINE P == Deleting(c)
             Q == Deleting(c)'
  <2>1. P \subseteq Threads /\ Q \subseteq Threads
        /\ (\A u \in Threads \ {t} : u \in P <=> u \in Q)
    BY <1>3
  <2> HIDE DEF P, Q
  <2>2. /\ Cardinality(P) \in Nat
        /\ Cardinality(P) >= One(t \in P)
        /\ Cardinality(Q) = Cardinality(P) + One(t \in Q) - One(t \in P)
    BY <2>1, ThreadsFinite, OneMoves DEF One
  <2> QED
    BY <2>2 DEF P, Q
<1> QED
  BY <1>1, <1>2, <1>3, <1>4, <1>5, <1>6 DEF One, Tally

-----------------------------------------------------------------------------
(* What IInv says of one connection.                                       *)
Good(c) ==
  /\ refs[c] = Holders(c)
  /\ deletes[c] + Cardinality(Deleting(c)) = IF Deleted[c] = 0 THEN 0 ELSE 1
  /\ conn[c] = "live" => refs[c] > 0
  /\ conn[c] # "live" => refs[c] = 0
  /\ conn[c] = "absent" => deletes[c] = 0 /\ Deleted[c] = 0

(* The inductive invariant, one connection at a time.                      *)
LEMMA GoodEverywhere ==
  IInv <=> TypeOK /\ Working /\ \A c \in Conns : Good(c)
  BY DEF IInv, RefsAccount, DeletedOnce, AliveWhileHeld, Good

(* The numbers that make up a reference count are natural numbers.         *)
LEMMA HoldersTyped ==
  ASSUME TypeOK, NEW c \in Conns
  PROVE  /\ refs[c] \in Int
         /\ deletes[c] \in Nat /\ Deleted[c] \in Nat
         /\ ReadOps(c) \in Nat /\ WriteOps(c) \in Nat /\ Requested(c) \in Nat
  BY DEF TypeOK, ReadOps, WriteOps, Requested, Readings, Writings, Requests

(* A connection that anything refers to is live.                           *)
LEMMA HeldIsLive ==
  ASSUME TypeOK, NEW c \in Conns, Good(c),
         ReadOps(c) + WriteOps(c) + Requested(c) + Cardinality(Visitors(c)) > 0
  PROVE  conn[c] = "live" /\ refs[c] > 0 /\ deletes[c] <= 1
<1>1. BaseRef(c) \in Nat /\ deletes[c] <= 1
  BY HoldersTyped, CountsAreNat DEF Good, BaseRef
<1> QED
  BY <1>1, HoldersTyped, CountsAreNat DEF Good, Holders

(* A thread that works for a connection finds it live.                     *)
LEMMA VisitedIsLive ==
  ASSUME TypeOK, Working, \A c \in Conns : Good(c),
         NEW t \in Threads, pc[t] \notin {"idle", "rearm"}
  PROVE  at[t] \in Conns /\ conn[at[t]] = "live" /\ refs[at[t]] > 0
<1>1. at[t] \in Conns
  BY DEF Working, TypeOK
<1>2. Cardinality(Visitors(at[t])) >= 1
  <2>1. Visitors(at[t]) # {} /\ IsFiniteSet(Visitors(at[t]))
    <3>1. Visitors(at[t]) \subseteq Threads /\ t \in Visitors(at[t])
      BY DEF Visitors
    <3> QED
      BY <3>1, ThreadsFinite, FS_Subset
  <2> QED
    BY <2>1, <1>1, FS_EmptySet, CountsAreNat
<1> QED
  BY <1>1, <1>2, HeldIsLive, HoldersTyped, CountsAreNat

(* A step of one thread that neither closes nor deletes a connection keeps *)
(* its account, if the count moves by as much as its holders do.           *)
Balanced(t, d) ==
  /\ Deleted'[d] = Deleted[d] /\ deletes'[d] = deletes[d]
  /\ ReadOps(d)' \in Int /\ WriteOps(d)' \in Int /\ Requested(d)' \in Int
  /\ refs'[d] = refs[d] + (ReadOps(d)' - ReadOps(d)) + (WriteOps(d)' - WriteOps(d))
                + (Requested(d)' - Requested(d)) + (One(at'[t] = d) - One(at[t] = d))
                + (One(at'[t] = d /\ pc'[t] = "call") - One(at[t] = d /\ pc[t] = "call"))
  /\ conn[d] # "live" => refs'[d] = refs[d]
  /\ conn[d] = "live" => refs'[d] >= 0
  /\ conn'[d] = IF conn[d] = "live" /\ refs'[d] = 0 THEN "freed" ELSE conn[d]

(* What is balanced stays good.                                            *)
LEMMA BalancedIsGood ==
  ASSUME TypeOK, NEW t \in Threads, NEW d \in Conns, Good(d), OnlyMoves(t),
         pc[t] # "delete", pc'[t] # "delete", Balanced(t, d)
  PROVE  Good(d)'
<1>1. Tally(t, d)
  BY ThreadMoves
<1>2. BaseRef(d)' = BaseRef(d) /\ BaseRef(d) \in Int
  BY HoldersTyped DEF BaseRef, Good, Balanced
<1>3. Cardinality(Deleting(d))' = Cardinality(Deleting(d))
  BY <1>1 DEF Tally, One
<1>4. refs'[d] = Holders(d)'
  BY <1>1, <1>2, HoldersTyped DEF Good, Holders, Balanced, Tally, One
<1>5. refs'[d] \in Int
  BY HoldersTyped DEF Balanced, One
<1> QED
  BY <1>3, <1>4, <1>5, HoldersTyped DEF Good, Balanced

(* The reference count balances, the object is deleted at most once, and a *)
(* connection is live exactly while something refers to it: every step     *)
(* that posts or ends an operation, pins or releases the socket, or enters *)
(* or leaves a callback keeps it so.                                       *)
LEMMA InvStep == IInv /\ [Next]_vars => IInv'
<1> SUFFICES ASSUME IInv, [Next]_vars
             PROVE  IInv'
  OBVIOUS
<1> TypeOK /\ Working /\ \A c \in Conns : Good(c)
  BY GoodEverywhere
<1> TypeOK'
  BY TypeStep
<1>1. ASSUME NEW t \in Threads, AcceptFails(t)
      PROVE Working' /\ \A d \in Conns : Good(d)'
  <2>1. /\ pc[t] = "idle" /\ pc'[t] = "rearm" /\ at'[t] = at[t]
        /\ OnlyMoves(t)
    BY <1>1 DEF TypeOK, AcceptFails, OnlyMoves
  <2>2. Working'
    BY <2>1, ConnsAssumption DEF Working, OnlyMoves
  <2>3. ASSUME NEW d \in Conns PROVE Good(d)'
    <3>1. /\ conn'[d] = conn[d] /\ refs'[d] = refs[d]
          /\ Deleted'[d] = Deleted[d] /\ deletes'[d] = deletes[d]
          /\ ReadOps(d)' = ReadOps(d) /\ WriteOps(d)' = WriteOps(d)
          /\ Requested(d)' = Requested(d)
      BY <1>1 DEF TypeOK, AcceptFails, One, lifeVars, opVars, ReadOps, WriteOps,
        Requested, Readings, Writings, Requests
    <3> QED
      BY <2>1, <3>1, HoldersTyped, BalancedIsGood, ConnsAssumption
        DEF Balanced, One, Good
  <2> QED
    BY <2>2, <2>3
<1>2. ASSUME NEW t \in Threads, Rearm(t) PROVE Working' /\ \A d \in Conns : Good(d)'
  <2>1. /\ pc[t] = "rearm" /\ pc'[t] = "idle" /\ at'[t] = at[t]
        /\ OnlyMoves(t)
    BY <1>2 DEF TypeOK, Rearm, OnlyMoves
  <2>2. Working'
    BY <2>1, ConnsAssumption DEF Working, OnlyMoves
  <2>3. ASSUME NEW d \in Conns PROVE Good(d)'
    <3>1. /\ conn'[d] = conn[d] /\ refs'[d] = refs[d]
          /\ Deleted'[d] = Deleted[d] /\ deletes'[d] = deletes[d]
          /\ ReadOps(d)' = ReadOps(d) /\ WriteOps(d)' = WriteOps(d)
          /\ Requested(d)' = Requested(d)
      BY <1>2 DEF TypeOK, Rearm, One, lifeVars, opVars, ReadOps, WriteOps,
        Requested, Readings, Writings, Requests
    <3> QED
      BY <2>1, <3>1, HoldersTyped, BalancedIsGood, ConnsAssumption
        DEF Balanced, One, Good
  <2> QED
    BY <2>2, <2>3
<1>3. ASSUME NEW t \in Threads, ParseNeedMore(t)
      PROVE Working' /\ \A d \in Conns : Good(d)'
  <2>1. at[t] \in Conns /\ conn[at[t]] = "live" /\ refs[at[t]] > 0
    BY <1>3, VisitedIsLive DEF ParseNeedMore
  <2>2. /\ pc[t] = "parse" /\ pc'[t] = "leave" /\ at'[t] = at[t]
        /\ OnlyMoves(t)
    BY <1>3 DEF TypeOK, ParseNeedMore, OnlyMoves, Goto
  <2>3. Working'
    BY <2>2, <2>1, ConnsAssumption DEF Working, OnlyMoves
  <2>4. ASSUME NEW d \in Conns PROVE Good(d)'
    <3>1. /\ conn'[d] = conn[d] /\ refs'[d] = refs[d] + One(d = at[t])
          /\ Deleted'[d] = Deleted[d] /\ deletes'[d] = deletes[d]
          /\ ReadOps(d)' = ReadOps(d) + One(d = at[t]) /\ WriteOps(d)' = WriteOps(d)
          /\ Requested(d)' = Requested(d)
      <4>1. PICK tail \in 0..BufSize : PostRead(at[t], tail)
        BY <1>3 DEF ParseNeedMore
      <4>2. UNCHANGED <<Deleted, deletes, writes, calls>>
        BY <1>3 DEF ParseNeedMore
      <4> QED
        BY <2>1, <4>1, <4>2 DEF TypeOK, PostRead, TakeRef, One, ReadOps, WriteOps,
          Requested,
          Readings, Writings, Requests
    <3> QED
      BY <2>1, <2>2, <3>1, HoldersTyped, BalancedIsGood, ConnsAssumption
        DEF Balanced, One, Good
  <2> QED
    BY <2>3, <2>4
<1>4. ASSUME NEW t \in Threads, ParseError(t)
      PROVE Working' /\ \A d \in Conns : Good(d)'
  <2>1. at[t] \in Conns /\ conn[at[t]] = "live" /\ refs[at[t]] > 0
    BY <1>4, VisitedIsLive DEF ParseError
  <2>2. /\ pc[t] = "parse" /\ pc'[t] = "close" /\ at'[t] = at[t]
        /\ OnlyMoves(t)
    BY <1>4 DEF TypeOK, ParseError, OnlyMoves, Goto
  <2>3. Working'
    BY <2>2, <2>1, ConnsAssumption DEF Working, OnlyMoves
  <2>4. ASSUME NEW d \in Conns PROVE Good(d)'
    <3>1. /\ conn'[d] = conn[d] /\ refs'[d] = refs[d]
          /\ Deleted'[d] = Deleted[d] /\ deletes'[d] = deletes[d]
          /\ ReadOps(d)' = ReadOps(d) /\ WriteOps(d)' = WriteOps(d)
          /\ Requested(d)' = Requested(d)
      BY <1>4, <2>1 DEF TypeOK, ParseError, One, lifeVars, opVars, ReadOps,
        WriteOps, Requested, Readings, Writings, Requests
    <3> QED
      BY <2>1, <2>2, <3>1, HoldersTyped, BalancedIsGood, ConnsAssumption
        DEF Balanced, One, Good
  <2> QED
    BY <2>3, <2>4
<1>5. ASSUME NEW t \in Threads, ParseNotFound(t)
      PROVE Working' /\ \A d \in Conns : Good(d)'
  <2>1. at[t] \in Conns /\ conn[at[t]] = "live" /\ refs[at[t]] > 0
    BY <1>5, VisitedIsLive DEF ParseNotFound
  <2>2. /\ pc[t] = "parse" /\ pc'[t] = "close" /\ at'[t] = at[t]
        /\ OnlyMoves(t)
    BY <1>5 DEF TypeOK, ParseNotFound, OnlyMoves, Goto
  <2>3. Working'
    BY <2>2, <2>1, ConnsAssumption DEF Working, OnlyMoves
  <2>4. ASSUME NEW d \in Conns PROVE Good(d)'
    <3>1. /\ conn'[d] = conn[d] /\ refs'[d] = refs[d] + One(d = at[t])
          /\ Deleted'[d] = Deleted[d] /\ deletes'[d] = deletes[d]
          /\ ReadOps(d)' = ReadOps(d) /\ WriteOps(d)' = WriteOps(d) + One(d = at[t])
          /\ Requested(d)' = Requested(d)
      BY <1>5, <2>1 DEF TypeOK, ParseNotFound, One, PostWrite, TakeRef, ReadOps,
        WriteOps, Requested, Readings, Writings, Requests
    <3> QED
      BY <2>1, <2>2, <3>1, HoldersTyped, BalancedIsGood, ConnsAssumption
        DEF Balanced, One, Good
  <2> QED
    BY <2>3, <2>4
<1>6. ASSUME NEW t \in Threads, ParseReply(t)
      PROVE Working' /\ \A d \in Conns : Good(d)'
  <2>1. at[t] \in Conns /\ conn[at[t]] = "live" /\ refs[at[t]] > 0
    BY <1>6, VisitedIsLive DEF ParseReply
  <2>2. /\ pc[t] = "parse" /\ pc'[t] = "leave" /\ at'[t] = at[t]
        /\ OnlyMoves(t)
    BY <1>6 DEF TypeOK, ParseReply, OnlyMoves, Goto
  <2>3. Working'
    BY <2>2, <2>1, ConnsAssumption DEF Working, OnlyMoves
  <2>4. ASSUME NEW d \in Conns PROVE Good(d)'
    <3>1. /\ conn'[d] = conn[d] /\ refs'[d] = refs[d] + One(d = at[t])
          /\ Deleted'[d] = Deleted[d] /\ deletes'[d] = deletes[d]
          /\ ReadOps(d)' = ReadOps(d) /\ WriteOps(d)' = WriteOps(d) + One(d = at[t])
          /\ Requested(d)' = Requested(d)
      BY <1>6, <2>1 DEF TypeOK, ParseReply, One, PostWrite, TakeRef, ReadOps,
        WriteOps, Requested, Readings, Writings, Requests
    <3> QED
      BY <2>1, <2>2, <3>1, HoldersTyped, BalancedIsGood, ConnsAssumption
        DEF Balanced, One, Good
  <2> QED
    BY <2>3, <2>4
<1>7. ASSUME NEW t \in Threads, ParsePin(t)
      PROVE Working' /\ \A d \in Conns : Good(d)'
  <2>1. at[t] \in Conns /\ conn[at[t]] = "live" /\ refs[at[t]] > 0
    BY <1>7, VisitedIsLive DEF ParsePin
  <2>2. /\ pc[t] = "parse" /\ pc'[t] = "call" /\ at'[t] = at[t]
        /\ OnlyMoves(t)
    BY <1>7 DEF TypeOK, ParsePin, OnlyMoves, Goto
  <2>3. Working'
    BY <2>2, <2>1, ConnsAssumption DEF Working, OnlyMoves
  <2>4. ASSUME NEW d \in Conns PROVE Good(d)'
    <3>1. /\ conn'[d] = conn[d] /\ refs'[d] = refs[d] + One(d = at[t])
          /\ Deleted'[d] = Deleted[d] /\ deletes'[d] = deletes[d]
          /\ ReadOps(d)' = ReadOps(d) /\ WriteOps(d)' = WriteOps(d)
          /\ Requested(d)' = Requested(d)
      BY <1>7, <2>1 DEF TypeOK, ParsePin, One, TakeRef, opVars, ReadOps, WriteOps,
        Requested, Readings, Writings, Requests
    <3> QED
      BY <2>1, <2>2, <3>1, HoldersTyped, BalancedIsGood, ConnsAssumption
        DEF Balanced, One, Good
  <2> QED
    BY <2>3, <2>4
<1>8. ASSUME NEW t \in Threads, Call(t) PROVE Working' /\ \A d \in Conns : Good(d)'
  <2>1. at[t] \in Conns /\ conn[at[t]] = "live" /\ refs[at[t]] > 0
    BY <1>8, VisitedIsLive DEF Call
  <2>2. /\ pc[t] = "call" /\ pc'[t] = "leave" /\ at'[t] = at[t]
        /\ OnlyMoves(t)
    BY <1>8 DEF TypeOK, Call, OnlyMoves, Goto
  <2>3. Working'
    BY <2>2, <2>1, ConnsAssumption DEF Working, OnlyMoves
  <2>4. ASSUME NEW d \in Conns PROVE Good(d)'
    <3>1. /\ conn'[d] = conn[d] /\ refs'[d] = refs[d]
          /\ Deleted'[d] = Deleted[d] /\ deletes'[d] = deletes[d]
          /\ ReadOps(d)' = ReadOps(d) /\ WriteOps(d)' = WriteOps(d)
          /\ Requested(d)' = Requested(d) + One(d = at[t])
      BY <1>8, <2>1 DEF TypeOK, Call, One, lifeVars, ReadOps, WriteOps, Requested,
        Readings, Writings, Requests
    <3>2. One(at'[t] = d) = One(d = at[t]) /\ One(at[t] = d) = One(d = at[t])
      BY <2>1, <2>2, ConnsAssumption DEF One
    <3>3. Balanced(t, d)
      BY <2>1, <2>2, <3>1, <3>2, HoldersTyped DEF Balanced, One, Good
    <3> QED
      BY <2>2, <3>3, BalancedIsGood
  <2> QED
    BY <2>3, <2>4
<1>9. ASSUME NEW t \in Threads, Close(t) PROVE Working' /\ \A d \in Conns : Good(d)'
  <2>1. at[t] \in Conns /\ conn[at[t]] = "live" /\ refs[at[t]] > 0
    BY <1>9, VisitedIsLive DEF Close
  <2>2. /\ pc[t] = "close"
        /\ pc'[t] = IF Deleted[at[t]] = 0 THEN "delete" ELSE "leave"
        /\ at'[t] = at[t]
        /\ OnlyMoves(t)
    BY <1>9 DEF TypeOK, Close, OnlyMoves, Goto
  <2>3. Working'
    BY <2>2, <2>1, ConnsAssumption DEF Working, OnlyMoves
  <2>4. ASSUME NEW d \in Conns PROVE Good(d)'
    <3>1. /\ conn'[d] = conn[d] /\ refs'[d] = refs[d]
          /\ Deleted'[d] = Deleted[d] + One(d = at[t]) /\ deletes'[d] = deletes[d]
          /\ ReadOps(d)' = ReadOps(d) /\ WriteOps(d)' = WriteOps(d)
          /\ Requested(d)' = Requested(d)
      BY <1>9, <2>1 DEF TypeOK, Close, One, opVars, ReadOps, WriteOps, Requested,
        Readings, Writings, Requests
    <3>2. Tally(t, d)
      BY <2>2, ThreadMoves
    <3>3. /\ Cardinality(Visitors(d))' = Cardinality(Visitors(d))
          /\ Cardinality(Pinning(d))' = Cardinality(Pinning(d))
          /\ Cardinality(Deleting(d))' =
               Cardinality(Deleting(d)) + (IF Deleted[d] = 0 THEN One(d = at[t]) ELSE 0)
      BY <2>1, <2>2, <3>2, ConnsAssumption DEF Tally, One
    <3>4. BaseRef(d)' = BaseRef(d) /\ BaseRef(d) \in Int
      BY <2>1, <3>1, HoldersTyped DEF BaseRef, One, Good
    <3>5. refs'[d] = Holders(d)'
      BY <2>1, <2>2, <3>1, <3>2, <3>3, <3>4, HoldersTyped
        DEF Good, Holders, One, Tally
    <3>6. CASE d # at[t]
      <4>1. /\ Deleted'[d] = Deleted[d]
            /\ Cardinality(Deleting(d))' = Cardinality(Deleting(d))
        BY <3>1, <3>3, <3>6, HoldersTyped, CountsAreNat DEF One
      <4> QED
        BY <3>1, <3>5, <4>1 DEF Good
    <3>7. CASE d = at[t] /\ Deleted[d] = 0
      <4>1. /\ Deleted'[d] = 1
            /\ Cardinality(Deleting(d))' = Cardinality(Deleting(d)) + 1
        BY <3>1, <3>3, <3>7, HoldersTyped, CountsAreNat DEF One
      <4>2. deletes[d] + Cardinality(Deleting(d)) = 0
        BY <3>7 DEF Good
      <4>3. deletes'[d] + Cardinality(Deleting(d))' = 1
        BY <3>1, <4>1, <4>2, HoldersTyped, CountsAreNat
      <4> QED
        BY <2>1, <3>1, <3>5, <3>7, <4>1, <4>3 DEF Good
    <3>8. CASE d = at[t] /\ Deleted[d] # 0
      <4>1. /\ Deleted'[d] # 0
            /\ Cardinality(Deleting(d))' = Cardinality(Deleting(d))
        BY <3>1, <3>3, <3>8, HoldersTyped, CountsAreNat DEF One
      <4> QED
        BY <2>1, <3>1, <3>5, <3>8, <4>1, HoldersTyped DEF Good
    <3> QED
      BY <3>6, <3>7, <3>8
  <2> QED
    BY <2>3, <2>4
<1>10. ASSUME NEW t \in Threads, Delete(t)
      PROVE Working' /\ \A d \in Conns : Good(d)'
  <2>1. at[t] \in Conns /\ conn[at[t]] = "live" /\ refs[at[t]] > 0
    BY <1>10, VisitedIsLive DEF Delete
  <2>2. /\ pc[t] = "delete" /\ pc'[t] = "leave" /\ at'[t] = at[t]
        /\ OnlyMoves(t)
    BY <1>10 DEF TypeOK, Delete, OnlyMoves, Goto
  <2>3. Working'
    BY <2>2, <2>1, ConnsAssumption DEF Working, OnlyMoves
  <2>4. ASSUME NEW d \in Conns PROVE Good(d)'
    <3>1. /\ conn'[d] = IF d = at[t] /\ refs[d] = 1 THEN "freed" ELSE conn[d]
          /\ refs'[d] = refs[d] - One(d = at[t])
          /\ Deleted'[d] = Deleted[d] /\ deletes'[d] = deletes[d] + One(d = at[t])
          /\ ReadOps(d)' = ReadOps(d) /\ WriteOps(d)' = WriteOps(d)
          /\ Requested(d)' = Requested(d)
      BY <1>10, <2>1 DEF TypeOK, Delete, One, DropRef, ReadOps, WriteOps,
        Requested, Readings, Writings, Requests
    <3>2. Tally(t, d)
      BY <2>2, ThreadMoves
    <3>3. /\ Cardinality(Visitors(d))' = Cardinality(Visitors(d))
          /\ Cardinality(Pinning(d))' = Cardinality(Pinning(d))
          /\ Cardinality(Deleting(d))' = Cardinality(Deleting(d)) - One(d = at[t])
      BY <2>1, <2>2, <3>2, ConnsAssumption DEF Tally, One
    <3>4. BaseRef(d)' = BaseRef(d) - One(d = at[t]) /\ BaseRef(d) \in Int
      BY <2>1, <3>1, HoldersTyped DEF BaseRef, One, Good
    <3>5. refs'[d] = Holders(d)'
      BY <2>1, <2>2, <3>1, <3>2, <3>3, <3>4, HoldersTyped
        DEF Good, Holders, One, Tally
    <3>6. CASE d = at[t]
      BY <2>1, <2>2, <3>1, <3>2, <3>3, <3>5, <3>6, HoldersTyped DEF Good, One, Tally
    <3>7. CASE d # at[t]
      BY <2>1, <3>1, <3>3, <3>5, <3>7, HoldersTyped, CountsAreNat DEF Good, One
    <3> QED
      BY <3>6, <3>7
  <2> QED
    BY <2>3, <2>4
<1>11. ASSUME NEW t \in Threads, Leave(t)
      PROVE Working' /\ \A d \in Conns : Good(d)'
  <2>1. at[t] \in Conns /\ conn[at[t]] = "live" /\ refs[at[t]] > 0
    BY <1>11, VisitedIsLive DEF Leave
  <2>2. /\ pc[t] = "leave" /\ pc'[t] = "idle" /\ at'[t] = NoConn
        /\ OnlyMoves(t)
    BY <1>11 DEF TypeOK, Leave, OnlyMoves, Visit
  <2>3. Working'
    BY <2>2, <2>1, ConnsAssumption DEF Working, OnlyMoves
  <2>4. ASSUME NEW d \in Conns PROVE Good(d)'
    <3>1. /\ conn'[d] = IF d = at[t] /\ refs[d] = 1 THEN "freed" ELSE conn[d]
          /\ refs'[d] = refs[d] - One(d = at[t])
          /\ Deleted'[d] = Deleted[d] /\ deletes'[d] = deletes[d]
          /\ ReadOps(d)' = ReadOps(d) /\ WriteOps(d)' = WriteOps(d)
          /\ Requested(d)' = Requested(d)
      BY <1>11, <2>1 DEF TypeOK, Leave, One, DropRef, opVars, ReadOps, WriteOps,
        Requested, Readings, Writings, Requests
    <3>2. One(at'[t] = d) = 0 /\ One(at[t] = d) = One(d = at[t])
      BY <2>1, <2>2, ConnsAssumption DEF One
    <3>3. Balanced(t, d)
      BY <2>1, <2>2, <3>1, <3>2, HoldersTyped DEF Balanced, One, Good
    <3> QED
      BY <2>2, <3>3, BalancedIsGood
  <2> QED
    BY <2>3, <2>4
<1>12. ASSUME NEW t \in Threads, OnWrite(t)
      PROVE Working' /\ \A d \in Conns : Good(d)'
  <2>1. at[t] \in Conns /\ conn[at[t]] = "live" /\ refs[at[t]] > 0
    BY <1>12, VisitedIsLive DEF OnWrite
  <2>2. /\ pc[t] = "wrote" /\ pc'[t] = "leave" /\ at'[t] = at[t]
        /\ OnlyMoves(t)
    BY <1>12 DEF TypeOK, OnWrite, OnlyMoves, Goto
  <2>3. Working'
    BY <2>2, <2>1, ConnsAssumption DEF Working, OnlyMoves
  <2>4. ASSUME NEW d \in Conns PROVE Good(d)'
    <3>1. /\ conn'[d] = conn[d] /\ refs'[d] = refs[d] + One(d = at[t])
          /\ Deleted'[d] = Deleted[d] /\ deletes'[d] = deletes[d]
          /\ ReadOps(d)' = ReadOps(d) + One(d = at[t]) /\ WriteOps(d)' = WriteOps(d)
          /\ Requested(d)' = Requested(d)
      BY <1>12, <2>1 DEF TypeOK, OnWrite, One, PostRead, TakeRef, ReadOps,
        WriteOps, Requested, Readings, Writings, Requests
    <3> QED
      BY <2>1, <2>2, <3>1, HoldersTyped, BalancedIsGood, ConnsAssumption
        DEF Balanced, One, Good
  <2> QED
    BY <2>3, <2>4
<1>13. ASSUME NEW t \in Threads, Reply(t)
      PROVE Working' /\ \A d \in Conns : Good(d)'
  <2>1. at[t] \in Conns /\ conn[at[t]] = "live" /\ refs[at[t]] > 0
    BY <1>13, VisitedIsLive DEF Reply
  <2>2. /\ pc[t] = "answer" /\ pc'[t] = "release" /\ at'[t] = at[t]
        /\ OnlyMoves(t)
    BY <1>13 DEF TypeOK, Reply, OnlyMoves, Goto
  <2>3. Working'
    BY <2>2, <2>1, ConnsAssumption DEF Working, OnlyMoves
  <2>4. ASSUME NEW d \in Conns PROVE Good(d)'
    <3>1. /\ conn'[d] = conn[d] /\ refs'[d] = refs[d] + One(d = at[t])
          /\ Deleted'[d] = Deleted[d] /\ deletes'[d] = deletes[d]
          /\ ReadOps(d)' = ReadOps(d) /\ WriteOps(d)' = WriteOps(d) + One(d = at[t])
          /\ Requested(d)' = Requested(d)
      BY <1>13, <2>1 DEF TypeOK, Reply, One, PostWrite, TakeRef, ReadOps, WriteOps,
        Requested, Readings, Writings, Requests
    <3> QED
      BY <2>1, <2>2, <3>1, HoldersTyped, BalancedIsGood, ConnsAssumption
        DEF Balanced, One, Good
  <2> QED
    BY <2>3, <2>4
<1>14. ASSUME NEW t \in Threads, Release(t)
      PROVE Working' /\ \A d \in Conns : Good(d)'
  <2>1. at[t] \in Conns /\ conn[at[t]] = "live" /\ refs[at[t]] > 0
    BY <1>14, VisitedIsLive DEF Release
  <2>2. /\ pc[t] = "release" /\ pc'[t] = "idle" /\ at'[t] = NoConn
        /\ OnlyMoves(t)
    BY <1>14 DEF TypeOK, Release, OnlyMoves, Visit
  <2>3. Working'
    BY <2>2, <2>1, ConnsAssumption DEF Working, OnlyMoves
  <2>4. ASSUME NEW d \in Conns PROVE Good(d)'
    <3>1. /\ conn'[d] = IF d = at[t] /\ refs[d] = 1 THEN "freed" ELSE conn[d]
          /\ refs'[d] = refs[d] - One(d = at[t])
          /\ Deleted'[d] = Deleted[d] /\ deletes'[d] = deletes[d]
          /\ ReadOps(d)' = ReadOps(d) /\ WriteOps(d)' = WriteOps(d)
          /\ Requested(d)' = Requested(d)
      BY <1>14, <2>1 DEF TypeOK, Release, One, DropRef, opVars, ReadOps, WriteOps,
        Requested, Readings, Writings, Requests
    <3>2. One(at'[t] = d) = 0 /\ One(at[t] = d) = One(d = at[t])
      BY <2>1, <2>2, ConnsAssumption DEF One
    <3>3. Balanced(t, d)
      BY <2>1, <2>2, <3>1, <3>2, HoldersTyped DEF Balanced, One, Good
    <3> QED
      BY <2>2, <3>3, BalancedIsGood
  <2> QED
    BY <2>3, <2>4
<1>15. ASSUME NEW t \in Threads, NEW c \in Conns, ReadOk(t, c)
      PROVE Working' /\ \A d \in Conns : Good(d)'
  <2>1. /\ pc[t] = "idle"
        /\ at[t] = NoConn
        /\ pc'[t] = "parse"
        /\ at'[t] = c
        /\ OnlyMoves(t)
    BY <1>15 DEF TypeOK, ReadOk, OnlyMoves, Visit, Working
  <2>2. Working'
    BY <2>1, ConnsAssumption DEF Working, OnlyMoves
  <2>3. ASSUME NEW d \in Conns PROVE Good(d)'
    <3>1. /\ conn'[d] = conn[d] /\ refs'[d] = refs[d]
          /\ Deleted'[d] = Deleted[d] /\ deletes'[d] = deletes[d]
          /\ ReadOps(d)' = ReadOps(d) - One(d = c) /\ WriteOps(d)' = WriteOps(d)
          /\ Requested(d)' = Requested(d)
      BY <1>15 DEF TypeOK, ReadOk, One, lifeVars, ReadOps, WriteOps, Requested,
        Readings, Writings, Requests
    <3> QED
      BY <2>1, <3>1, HoldersTyped, BalancedIsGood, ConnsAssumption
        DEF Balanced, One, Good
  <2> QED
    BY <2>2, <2>3
<1>16. ASSUME NEW t \in Threads, NEW c \in Conns, ReadFailed(t, c)
      PROVE Working' /\ \A d \in Conns : Good(d)'
  <2>1. /\ pc[t] = "idle"
        /\ at[t] = NoConn
        /\ pc'[t] = "close"
        /\ at'[t] = c
        /\ OnlyMoves(t)
    BY <1>16 DEF TypeOK, ReadFailed, OnlyMoves, Visit, Working
  <2>2. Working'
    BY <2>1, ConnsAssumption DEF Working, OnlyMoves
  <2>3. ASSUME NEW d \in Conns PROVE Good(d)'
    <3>1. /\ conn'[d] = conn[d] /\ refs'[d] = refs[d]
          /\ Deleted'[d] = Deleted[d] /\ deletes'[d] = deletes[d]
          /\ ReadOps(d)' = ReadOps(d) - One(d = c) /\ WriteOps(d)' = WriteOps(d)
          /\ Requested(d)' = Requested(d)
      BY <1>16 DEF TypeOK, ReadFailed, One, lifeVars, ReadOps, WriteOps, Requested,
        Readings, Writings, Requests
    <3> QED
      BY <2>1, <3>1, HoldersTyped, BalancedIsGood, ConnsAssumption
        DEF Balanced, One, Good
  <2> QED
    BY <2>2, <2>3
<1>17. ASSUME NEW t \in Threads, NEW c \in Conns, WriteEnded(t, c)
      PROVE Working' /\ \A d \in Conns : Good(d)'
  <2>1. /\ pc[t] = "idle"
        /\ at[t] = NoConn
        /\ pc'[t] = "wrote"
        /\ at'[t] = c
        /\ OnlyMoves(t)
    BY <1>17 DEF TypeOK, WriteEnded, OnlyMoves, Visit, Working
  <2>2. Working'
    BY <2>1, ConnsAssumption DEF Working, OnlyMoves
  <2>3. ASSUME NEW d \in Conns PROVE Good(d)'
    <3>1. /\ conn'[d] = conn[d] /\ refs'[d] = refs[d]
          /\ Deleted'[d] = Deleted[d] /\ deletes'[d] = deletes[d]
          /\ ReadOps(d)' = ReadOps(d) /\ WriteOps(d)' = WriteOps(d) - One(d = c)
          /\ Requested(d)' = Requested(d)
      BY <1>17 DEF TypeOK, WriteEnded, One, lifeVars, ReadOps, WriteOps, Requested,
        Readings, Writings, Requests
    <3> QED
      BY <2>1, <3>1, HoldersTyped, BalancedIsGood, ConnsAssumption
        DEF Balanced, One, Good
  <2> QED
    BY <2>2, <2>3
<1>18. ASSUME NEW t \in Threads, NEW c \in Conns, Answer(t, c)
      PROVE Working' /\ \A d \in Conns : Good(d)'
  <2>1. /\ pc[t] = "idle"
        /\ at[t] = NoConn
        /\ pc'[t] = "answer"
        /\ at'[t] = c
        /\ OnlyMoves(t)
    BY <1>18 DEF TypeOK, Answer, OnlyMoves, Visit, Working
  <2>2. Working'
    BY <2>1, ConnsAssumption DEF Working, OnlyMoves
  <2>3. ASSUME NEW d \in Conns PROVE Good(d)'
    <3>1. /\ conn'[d] = conn[d] /\ refs'[d] = refs[d]
          /\ Deleted'[d] = Deleted[d] /\ deletes'[d] = deletes[d]
          /\ ReadOps(d)' = ReadOps(d) /\ WriteOps(d)' = WriteOps(d)
          /\ Requested(d)' = Requested(d) - One(d = c)
      BY <1>18 DEF TypeOK, Answer, One, lifeVars, ReadOps, WriteOps, Requested,
        Readings, Writings, Requests
    <3> QED
      BY <2>1, <3>1, HoldersTyped, BalancedIsGood, ConnsAssumption
        DEF Balanced, One, Good
  <2> QED
    BY <2>2, <2>3
<1>19. ASSUME NEW t \in Threads, NEW c \in Conns, AcceptOk(t, c)
      PROVE Working' /\ \A d \in Conns : Good(d)'
  <2>1. /\ pc[t] = "idle" /\ pc'[t] = "rearm" /\ at'[t] = at[t]
        /\ OnlyMoves(t)
    BY <1>19 DEF TypeOK, AcceptOk, OnlyMoves
  <2>2. Working'
    BY <2>1, ConnsAssumption DEF Working, OnlyMoves
  <2>3. ASSUME NEW d \in Conns PROVE Good(d)'
    <3>1. /\ conn[d] = "absent" \/ d # c
          /\ conn'[d] = IF d = c THEN "live" ELSE conn[d]
          /\ refs'[d] = IF d = c THEN 2 ELSE refs[d]
          /\ Deleted'[d] = Deleted[d] /\ deletes'[d] = deletes[d]
          /\ ReadOps(d)' =
               IF d = c THEN reads[c].data + reads[c].failed + 1 ELSE ReadOps(d)
          /\ ReadOps(d) >= reads[d].data + reads[d].failed
          /\ reads[d].data \in Nat /\ reads[d].failed \in Nat
          /\ WriteOps(d)' = WriteOps(d)
          /\ Requested(d)' = Requested(d)
      BY <1>19 DEF TypeOK, AcceptOk, One, ReadOps, WriteOps, Requested, Readings,
        Writings, Requests
    <3>2. Tally(t, d)
      BY <2>1, ThreadMoves
    <3>3. /\ Cardinality(Visitors(d))' = Cardinality(Visitors(d))
          /\ Cardinality(Pinning(d))' = Cardinality(Pinning(d))
          /\ Cardinality(Deleting(d))' = Cardinality(Deleting(d))
      BY <2>1, <3>2, ConnsAssumption DEF Tally, One
    <3>4. BaseRef(d)' = BaseRef(d) + One(d = c) /\ BaseRef(d) \in Int
      BY <3>1, HoldersTyped DEF BaseRef, One, Good
    <3>5. refs'[d] = Holders(d)'
      <4>1. CASE d = c
        <5>1. /\ ReadOps(d) = 0 /\ WriteOps(d) = 0 /\ Requested(d) = 0
              /\ Cardinality(Visitors(d)) = 0 /\ Cardinality(Pinning(d)) = 0
              /\ BaseRef(d) = 0
          <6>1. refs[d] = 0 /\ BaseRef(d) = 0
            BY <3>1, <4>1 DEF Good, BaseRef
          <6> QED
            BY <6>1, HoldersTyped, CountsAreNat DEF Good, Holders
        <5> QED
          BY <3>1, <3>3, <3>4, <4>1, <5>1 DEF Holders, One
      <4>2. CASE d # c
        BY <3>1, <3>3, <3>4, <4>2, HoldersTyped, CountsAreNat DEF Good, Holders, One
      <4> QED
        BY <4>1, <4>2
    <3> QED
      BY <3>1, <3>3, <3>5, HoldersTyped, CountsAreNat DEF Good, One
  <2> QED
    BY <2>2, <2>3
<1>20. ASSUME NEW t \in Threads, NEW c \in Conns, Forward(t, c)
      PROVE Working' /\ \A d \in Conns : Good(d)'
  <2>1. pc' = pc /\ at' = at
    BY <1>20 DEF Forward, runVars
  <2>2. ASSUME NEW d \in Conns PROVE Good(d)'
    <3>1. /\ conn'[d] = conn[d] /\ refs'[d] = refs[d]
          /\ Deleted'[d] = Deleted[d] /\ deletes'[d] = deletes[d]
          /\ ReadOps(d)' = ReadOps(d) /\ WriteOps(d)' = WriteOps(d)
          /\ Requested(d)' = Requested(d)
      BY <1>20 DEF TypeOK, Forward, lifeVars, ReadOps, WriteOps, Requested,
        Readings, Writings, Requests
    <3>2. /\ Visitors(d)' = Visitors(d)
          /\ Pinning(d)' = Pinning(d)
          /\ Deleting(d)' = Deleting(d)
      BY <2>1 DEF Visitors, Pinning, Deleting
    <3> QED
      BY <3>1, <3>2 DEF Good, Holders, BaseRef
  <2> QED
    BY <2>1, <2>2 DEF Working
<1>21. ASSUME NEW c \in Conns, ReadArrives(c)
      PROVE Working' /\ \A d \in Conns : Good(d)'
  <2>1. pc' = pc /\ at' = at
    BY <1>21 DEF ReadArrives, runVars
  <2>2. ASSUME NEW d \in Conns PROVE Good(d)'
    <3>1. /\ conn'[d] = conn[d] /\ refs'[d] = refs[d]
          /\ Deleted'[d] = Deleted[d] /\ deletes'[d] = deletes[d]
          /\ ReadOps(d)' = ReadOps(d) /\ WriteOps(d)' = WriteOps(d)
          /\ Requested(d)' = Requested(d)
      BY <1>21 DEF TypeOK, ReadArrives, lifeVars, ReadOps, WriteOps, Requested,
        Readings, Writings, Requests
    <3>2. /\ Visitors(d)' = Visitors(d)
          /\ Pinning(d)' = Pinning(d)
          /\ Deleting(d)' = Deleting(d)
      BY <2>1 DEF Visitors, Pinning, Deleting
    <3> QED
      BY <3>1, <3>2 DEF Good, Holders, BaseRef
  <2> QED
    BY <2>1, <2>2 DEF Working
<1>22. ASSUME NEW c \in Conns, ReadFails(c)
      PROVE Working' /\ \A d \in Conns : Good(d)'
  <2>1. pc' = pc /\ at' = at
    BY <1>22 DEF ReadFails, runVars
  <2>2. ASSUME NEW d \in Conns PROVE Good(d)'
    <3>1. /\ conn'[d] = conn[d] /\ refs'[d] = refs[d]
          /\ Deleted'[d] = Deleted[d] /\ deletes'[d] = deletes[d]
          /\ ReadOps(d)' = ReadOps(d) /\ WriteOps(d)' = WriteOps(d)
          /\ Requested(d)' = Requested(d)
      BY <1>22 DEF TypeOK, ReadFails, lifeVars, ReadOps, WriteOps, Requested,
        Readings, Writings, Requests
    <3>2. /\ Visitors(d)' = Visitors(d)
          /\ Pinning(d)' = Pinning(d)
          /\ Deleting(d)' = Deleting(d)
      BY <2>1 DEF Visitors, Pinning, Deleting
    <3> QED
      BY <3>1, <3>2 DEF Good, Holders, BaseRef
  <2> QED
    BY <2>1, <2>2 DEF Working
<1>23. ASSUME NEW c \in Conns, WriteEnds(c)
      PROVE Working' /\ \A d \in Conns : Good(d)'
  <2>1. pc' = pc /\ at' = at
    BY <1>23 DEF WriteEnds, runVars
  <2>2. ASSUME NEW d \in Conns PROVE Good(d)'
    <3>1. /\ conn'[d] = conn[d] /\ refs'[d] = refs[d]
          /\ Deleted'[d] = Deleted[d] /\ deletes'[d] = deletes[d]
          /\ ReadOps(d)' = ReadOps(d) /\ WriteOps(d)' = WriteOps(d)
          /\ Requested(d)' = Requested(d)
      BY <1>23 DEF TypeOK, WriteEnds, lifeVars, ReadOps, WriteOps, Requested,
        Readings, Writings, Requests
    <3>2. /\ Visitors(d)' = Visitors(d)
          /\ Pinning(d)' = Pinning(d)
          /\ Deleting(d)' = Deleting(d)
      BY <2>1 DEF Visitors, Pinning, Deleting
    <3> QED
      BY <3>1, <3>2 DEF Good, Holders, BaseRef
  <2> QED
    BY <2>1, <2>2 DEF Working
<1>24. ASSUME UNCHANGED vars PROVE Working' /\ \A d \in Conns : Good(d)'
  <2>1. pc' = pc /\ at' = at
    BY <1>24 DEF vars, runVars
  <2>2. ASSUME NEW d \in Conns PROVE Good(d)'
    <3>1. /\ conn'[d] = conn[d] /\ refs'[d] = refs[d]
          /\ Deleted'[d] = Deleted[d] /\ deletes'[d] = deletes[d]
          /\ ReadOps(d)' = ReadOps(d) /\ WriteOps(d)' = WriteOps(d)
          /\ Requested(d)' = Requested(d)
      BY <1>24 DEF TypeOK, vars, lifeVars, opVars, ReadOps, WriteOps, Requested,
        Readings, Writings, Requests
    <3>2. /\ Visitors(d)' = Visitors(d)
          /\ Pinning(d)' = Pinning(d)
          /\ Deleting(d)' = Deleting(d)
      BY <2>1 DEF Visitors, Pinning, Deleting
    <3> QED
      BY <3>1, <3>2 DEF Good, Holders, BaseRef
  <2> QED
    BY <2>1, <2>2 DEF Working
<1>25. Working' /\ \A d \in Conns : Good(d)'
  BY <1>1, <1>2, <1>3, <1>4, <1>5, <1>6, <1>7, <1>8, <1>9, <1>10, <1>11, <1>12,
    <1>13, <1>14, <1>15, <1>16, <1>17, <1>18, <1>19, <1>20, <1>21, <1>22, <1>23,
    <1>24
  DEF Next, Continue, Dispatch, Outside
<1> QED
  BY <1>25 DEF IInv, RefsAccount, DeletedOnce, AliveWhileHeld, Good

(* The inductive invariant holds in every reachable state.                 *)
THEOREM InvariantHolds == Spec => []IInv
<1>1. Init => IInv
  <2> SUFFICES ASSUME Init PROVE IInv
    OBVIOUS
  <2>1. TypeOK
    BY BoundsAssumption
    DEF Init, TypeOK, Readings, Writings, Requests, HttpPCs, ServicePCs
  <2>2. Working
    BY DEF Init, Working
  <2>3. ASSUME NEW c \in Conns PROVE Good(c)
    <3>1. Visitors(c) = {} /\ Pinning(c) = {} /\ Deleting(c) = {}
      BY ConnsAssumption DEF Init, Visitors, Pinning, Deleting
    <3>2. BaseRef(c) = 0 /\ ReadOps(c) = 0 /\ WriteOps(c) = 0 /\ Requested(c) = 0
      BY DEF Init, BaseRef, ReadOps, WriteOps, Requested
    <3>3. refs[c] = 0 /\ deletes[c] = 0 /\ Deleted[c] = 0 /\ conn[c] = "absent"
      BY DEF Init
    <3> QED
      BY <3>1, <3>2, <3>3, FS_EmptySet DEF Good, Holders
  <2> QED
    BY <2>1, <2>2, <2>3, GoodEverywhere
<1> QED
  BY <1>1, InvStep, PTL DEF Spec

(* Every variable has its type: in particular the offset of a read and the *)
(* kept tail stay within the buffer of the connection.                     *)
THEOREM TypeCorrect == Spec => []TypeOK
  BY InvariantHolds, PTL DEF IInv

(* The reference count is exactly what its holders add up to.              *)
THEOREM RefsAccountHolds == Spec => []RefsAccount
  BY InvariantHolds, PTL DEF IInv

(* However many threads close a connection, its object is deleted once.    *)
THEOREM DeletedOnceHolds == Spec => []DeletedOnce
  BY InvariantHolds, PTL DEF IInv

(* No callback, operation or pending answer outlives its connection.       *)
THEOREM NoUseAfterFreeHolds == Spec => []NoUseAfterFree
<1>1. IInv => NoUseAfterFree
  <2> SUFFICES ASSUME IInv, NEW c \in Conns, Outstanding(c)
               PROVE  conn[c] = "live"
    BY DEF NoUseAfterFree
  <2>1. TypeOK /\ Good(c)
    BY GoodEverywhere
  <2>2. Visitors(c) # {} => Cardinality(Visitors(c)) > 0
    <3>1. IsFiniteSet(Visitors(c))
      BY ThreadsFinite, FS_Subset DEF Visitors
    <3> QED
      BY <3>1, FS_EmptySet, CountsAreNat
  <2> QED
    BY <2>1, <2>2, HeldIsLive, HoldersTyped, CountsAreNat DEF Outstanding
<1> QED
  BY <1>1, InvariantHolds, PTL

(* After deleteAioObject a connection is not kept by a count that nobody    *)
(* will decrement: while it is live, something still to come holds it.     *)
THEOREM NoLeakAfterDelete ==
  Spec => [](\A c \in Conns : conn[c] = "live" /\ deletes[c] = 1 => Outstanding(c))
<1>1. IInv => \A c \in Conns : conn[c] = "live" /\ deletes[c] = 1 => Outstanding(c)
  <2> SUFFICES ASSUME IInv, NEW c \in Conns, conn[c] = "live", deletes[c] = 1,
                      Visitors(c) = {}
               PROVE  ReadOps(c) + WriteOps(c) + Requested(c) > 0
    BY DEF Outstanding
  <2>1. TypeOK /\ Good(c)
    BY GoodEverywhere
  <2>2. Cardinality(Visitors(c)) = 0 /\ Cardinality(Pinning(c)) = 0
    <3>1. Pinning(c) = {}
      BY DEF Pinning, Visitors
    <3> QED
      BY <3>1, FS_EmptySet
  <2> QED
    BY <2>1, <2>2, HoldersTyped DEF Good, Holders, BaseRef
<1> QED
  BY <1>1, InvariantHolds, PTL
=============================================================================
