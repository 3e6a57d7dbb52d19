------------------------------ MODULE PartLife ------------------------------
(***************************************************************************)
(* What main() promises about the parts of the pool, without the signals,  *)
(* the threads and the order of its steps: a part is built, started,       *)
(* stopped and destroyed at most once and in this order, none is destroyed *)
(* while it runs, and the part in front runs only while those it serves    *)
(* from do.  A part that nobody starts or stops may have a thread of its   *)
(* own, from its construction until its destructor has ended it.           *)
(***************************************************************************)
CONSTANTS Parts,
          Front,   \* the part that takes requests from outside
          Direct,  \* parts that are constructed and started in one step
          Own      \* parts that nobody starts or stops

VARIABLES life,    \* "absent", "built", "running", "stopped" or "destroyed"
          served   \* the parts that the one in front calls
vars == <<life, served>>

TypeOK == /\ life \in [Parts -> {"absent", "built", "running", "stopped", "destroyed"}]
          /\ served \subseteq Parts \ {Front}

Init == life = [p \in Parts |-> "absent"] /\ served \subseteq Parts \ {Front}

Moved == {p \in Parts : life'[p] # life[p]}
Become(state) == life' = [p \in Parts |-> IF p \in Moved THEN state ELSE life[p]]

\* What the part in front calls stands: it runs, or nobody is to start it.
Stands(p) == life[p] = "running" \/ (p \in Own /\ life[p] = "built")

\* What is built may be a further part that the one in front calls, as long
\* as this one is not started.
Build == /\ life' \in [Parts -> {"absent", "built", "running", "stopped", "destroyed"}]
         /\ \A p \in Moved :
              life[p] = "absent" /\ (life'[p] = "built" \/ (p \in Own /\ life'[p] = "running"))
         /\ served \subseteq served' /\ served' \subseteq Parts \ {Front}
         /\ life[Front] = "running" => UNCHANGED served

Start == /\ Become("running")
         /\ \A p \in Moved : life[p] = "built" \/ (p \in Direct /\ life[p] = "absent")
         /\ Moved \cap Own = {}
         /\ Front \in Moved => \A p \in served : Stands(p)
         /\ UNCHANGED served

Stop == /\ Become("stopped")
        /\ \A p \in Moved : life[p] = "running" /\ p \notin Own
        /\ life[Front] = "running" => Moved \cap served = {}
        /\ UNCHANGED served

Destroy == /\ life' = [p \in Parts |-> IF life[p] = "absent" THEN "absent" ELSE "destroyed"]
           /\ \A p \in Parts \ Own : life[p] # "running"
           /\ UNCHANGED served

Next == Build \/ Start \/ Stop \/ Destroy

Spec == Init /\ [][Next]_vars

(* While the part in front runs, all that it calls stand.                  *)
FrontIsServed == life[Front] = "running" => \A p \in served : Stands(p)
=============================================================================
