------------------------- MODULE ConnectionLifetime -------------------------
(***************************************************************************)
(* What a connection of the HTTP server promises to its client, without    *)
(* sockets, threads and reference counts: it takes one request at a time,  *)
(* answers it once, and is freed once, when it owes no answer.             *)
(***************************************************************************)
EXTENDS Integers

CONSTANT Conns

VARIABLES phase,  \* "absent", "live" or "freed"
          owed    \* requests taken and not yet answered
vars == <<phase, owed>>

Init == /\ phase = [c \in Conns |-> "absent"]
        /\ owed = [c \in Conns |-> 0]

Open(c) == /\ phase[c] = "absent"
           /\ phase' = [phase EXCEPT ![c] = "live"]
           /\ UNCHANGED owed

Take(c) == /\ phase[c] = "live" /\ owed[c] = 0
           /\ owed' = [owed EXCEPT ![c] = 1]
           /\ UNCHANGED phase

Answer(c) == /\ phase[c] = "live" /\ owed[c] = 1
             /\ owed' = [owed EXCEPT ![c] = 0]
             /\ UNCHANGED phase

Free(c) == /\ phase[c] = "live" /\ owed[c] = 0
           /\ phase' = [phase EXCEPT ![c] = "freed"]
           /\ UNCHANGED owed

Next == \E c \in Conns : Open(c) \/ Take(c) \/ Answer(c) \/ Free(c)

Spec == Init /\ [][Next]_vars
=============================================================================
