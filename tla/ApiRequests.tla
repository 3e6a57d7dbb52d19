---------------------------- MODULE ApiRequests ----------------------------
(***************************************************************************)
(* Requests of several clients go through the handlers of src/src/http.cpp *)
(* while their sessions end: an HTTP thread reads the arguments, makes the *)
(* checks one after the other and replies or calls a service; the service  *)
(* answers later.  The connection that carries a request is the subject of *)
(* HttpConnection.                                                         *)
(*                                                                         *)
(* The user manager and the other services are not part of the repository. *)
(* They are modelled from their use here: validateSession reads what the   *)
(* session is now, userLogout ends it, a function that is handed the       *)
(* session id validates it itself, and requests are answered in any order. *)
(***************************************************************************)
EXTENDS ApiHandlers, FiniteSets

CONSTANTS
  Clients,   \* each has one request at a time
  Ids,       \* the session ids
  Offered,   \* the functions the clients call
  MaxOdd     \* bound: how many arguments of a request are absent or mistyped

ASSUME OfferedAssumption == Offered \subseteq Functions /\ MaxOdd \in Nat
ASSUME IdsAssumption == Ids # {}

VARIABLES
  sessions,   \* what each session id is now
  request,    \* the request of each client
  loggedOut   \* history: the ids whose logout was answered with ok

vars == <<sessions, request, loggedOut>>

Stages == {"idle", "parse", "check", "service", "answered"}
Statuses == {"", "ok", "invalid_json", "json_format_error", "unknown_id", "invalid_coin",
             "unknown_column_name", "request_format_error", "invalid_address",
             "invalid_interval", "service_error"}

NoRequest == [stage |-> "idle", function |-> "userLogin", id |-> CHOOSE i \in Ids : TRUE,
              object |-> TRUE, args |-> <<>>, facts |-> {}, next |-> 1, status |-> "",
              seen |-> {}, late |-> FALSE]

ArgLists == {<<>>} \cup UNION {[Args(f) -> ArgStates] : f \in Functions}
Requests == [stage : Stages, function : Functions, id : Ids, object : BOOLEAN, args : ArgLists,
             facts : SUBSET Facts, next : Nat, status : Statuses, seen : SUBSET Sessions,
             late : BOOLEAN]

TypeOK ==
  /\ sessions \in [Ids -> Sessions]
  /\ loggedOut \subseteq Ids
  /\ request \in [Clients -> Requests]
  /\ \A c \in Clients : LET r == request[c] IN
       /\ r.stage # "idle" => r.args \in [Args(r.function) -> ArgStates]
       /\ r.next \in 1..(Len(FunctionNameMap_[r.function].checks) + 1)
       /\ (r.stage = "answered") <=> (r.status # "")

Init ==
  /\ sessions \in [Ids -> Sessions]
  /\ request = [c \in Clients |-> NoRequest]
  /\ loggedOut = {}

-----------------------------------------------------------------------------
handler(c) == FunctionNameMap_[request[c].function]

\* The session argument is id, or sessionId in the two functions of 2fa.
SessionGiven(args) == Given(args, "id") \/ Given(args, "sessionId")

\* What validateSession finds now for the session id of a request.
SessionOf(c) ==
  IF SessionGiven(request[c].args) THEN sessions[request[c].id] ELSE "none"

Answered(c, status) == request' = [request EXCEPT ![c].stage = "answered",
                                                  ![c].status = status]

\* A request of an idle client; at most MaxOdd of its arguments are not good.
Receive(c, f, id, facts, odd, bad, object) ==
  /\ request' = [request EXCEPT ![c] =
       [stage |-> "parse", function |-> f, id |-> id, object |-> object,
        args |-> [a \in Args(f) |-> IF a \in odd THEN bad[a] ELSE "good"],
        facts |-> facts, next |-> 1, status |-> "",
        seen |-> {sessions[id]}, late |-> id \in loggedOut]]
  /\ UNCHANGED <<sessions, loggedOut>>

\* The last data of the request has come: it must be a JSON object.
InvalidJson(c) ==
  /\ request[c].stage = "parse"
  /\ ~request[c].object
  /\ Answered(c, "invalid_json")
  /\ UNCHANGED <<sessions, loggedOut>>

FormatError(c) ==
  /\ request[c].stage = "parse"
  /\ request[c].object
  /\ ~validAcc(request[c].function, request[c].args)
  /\ Answered(c, "json_format_error")
  /\ UNCHANGED <<sessions, loggedOut>>

Parsed(c) ==
  /\ request[c].stage = "parse"
  /\ request[c].object
  /\ validAcc(request[c].function, request[c].args)
  /\ request' = [request EXCEPT ![c].stage = "check"]
  /\ UNCHANGED <<sessions, loggedOut>>

CurrentCheck(c) == handler(c).checks[request[c].next]

CheckPasses(c) ==
  /\ request[c].stage = "check"
  /\ request[c].next <= Len(handler(c).checks)
  /\ Passes(CurrentCheck(c), request[c].args, request[c].facts, SessionOf(c))
  /\ request' = [request EXCEPT ![c].next = @ + 1]
  /\ UNCHANGED <<sessions, loggedOut>>

\* Mutation: the return after replyWithStatus is forgotten.
CheckFailsAndGoesOn(c) ==
  /\ request[c].stage = "check"
  /\ request[c].next <= Len(handler(c).checks)
  /\ ~Passes(CurrentCheck(c), request[c].args, request[c].facts, SessionOf(c))
  /\ request' = [request EXCEPT ![c].next = @ + 1, ![c].status = CurrentCheck(c).status]
  /\ UNCHANGED <<sessions, loggedOut>>

CheckFails(c) ==
  /\ request[c].stage = "check"
  /\ request[c].next <= Len(handler(c).checks)
  /\ ~Passes(CurrentCheck(c), request[c].args, request[c].facts, SessionOf(c))
  /\ Answered(c, CurrentCheck(c).status)
  /\ UNCHANGED <<sessions, loggedOut>>

Checked(c, ends) ==
  /\ request[c].stage = "check"
  /\ request[c].next > Len(handler(c).checks)
  /\ handler(c).end \in ends

\* The handler replies itself, with or without having changed something.
ReplyOk(c) ==
  /\ Checked(c, {"reply", "effect"})
  /\ Answered(c, "ok")
  /\ UNCHANGED <<sessions, loggedOut>>

\* enumerateFeePlan and getFeePlan: the user manager validates the session.
AskManager(c) ==
  /\ Checked(c, {"manager"})
  /\ IF SessionOf(c) = "admin"
     THEN \E status \in {"ok", "service_error"} : Answered(c, status)
     ELSE Answered(c, "unknown_id")
  /\ UNCHANGED <<sessions, loggedOut>>

CallService(c) ==
  /\ Checked(c, {"service", "delegate"})
  /\ request' = [request EXCEPT ![c].stage = "service"]
  /\ UNCHANGED <<sessions, loggedOut>>

\* The reply is on its way and the client may send another request.
Replied(c) ==
  /\ request[c].stage = "answered"
  /\ request' = [request EXCEPT ![c] = NoRequest]
  /\ UNCHANGED <<sessions, loggedOut>>

-----------------------------------------------------------------------------
\* A session ends; the requests under way see it.
EndSession(id) ==
  sessions' = [sessions EXCEPT ![id] = "none"]

Witness(r, id) == IF r.stage \notin {"idle", "answered"} /\ r.id = id
                  THEN [r EXCEPT !.seen = @ \cup {"none"}] ELSE r

\* The service of userLogout.
LogOut(c) ==
  LET id == request[c].id IN
    /\ request[c].stage = "service"
    /\ request[c].function = "userLogout"
    /\ IF sessions[id] = "none"
       THEN Answered(c, "unknown_id") /\ UNCHANGED <<sessions, loggedOut>>
       ELSE /\ EndSession(id)
            /\ loggedOut' = loggedOut \cup {id}
            /\ request' = [d \in Clients |->
                 IF d = c THEN [request[c] EXCEPT !.stage = "answered", !.status = "ok"]
                          ELSE Witness(request[d], id)]

\* The user manager forgets a session that was not used for long.
SessionExpires(id) ==
  /\ sessions[id] # "none"
  /\ EndSession(id)
  /\ request' = [d \in Clients |-> Witness(request[d], id)]
  /\ UNCHANGED loggedOut

\* A function that was handed the session id.
ServeDelegate(c) ==
  /\ request[c].stage = "service"
  /\ handler(c).end = "delegate"
  /\ request[c].function # "userLogout"
  /\ IF SessionOf(c) = "none"
     THEN Answered(c, "unknown_id")
     ELSE \E status \in {"ok", "unknown_id", "service_error"} : Answered(c, status)
  /\ UNCHANGED <<sessions, loggedOut>>

\* A function that was handed a login, or nothing of the user.
Serve(c) ==
  /\ request[c].stage = "service"
  /\ handler(c).end = "service"
  /\ \E status \in {"ok", "service_error"} : Answered(c, status)
  /\ UNCHANGED <<sessions, loggedOut>>

Arrive(c) ==
  /\ request[c].stage = "idle"
  /\ \E f \in Offered, id \in Ids : \E facts \in SUBSET FactsOf(f), odd \in SUBSET Args(f) :
       /\ Cardinality(odd) <= MaxOdd
       /\ \E bad \in [odd -> {"absent", "mistyped"}], object \in BOOLEAN :
            Receive(c, f, id, facts, odd, bad, object)

Next ==
  \/ \E c \in Clients :
       \/ Arrive(c) \/ InvalidJson(c) \/ FormatError(c) \/ Parsed(c)
       \/ CheckPasses(c) \/ CheckFails(c) \/ ReplyOk(c) \/ AskManager(c)
       \/ CallService(c) \/ LogOut(c) \/ ServeDelegate(c) \/ Serve(c) \/ Replied(c)
  \/ \E id \in Ids : SessionExpires(id)

Spec == Init /\ [][Next]_vars

-----------------------------------------------------------------------------
(* Properties.                                                             *)

RequiresSession(f) ==
  FunctionNameMap_[f].required \cap {"id", "sessionId"} # {}

\* Whose sessions may use a function the handler validates the session for.
AdminFunctions == {"backendUpdateProfitSwitchCoeff", "complexMiningStatsGetInfo"}
WriteFunctions == {"userUpdateSettings", "backendManualPayout"}
Entitled(f, args) ==
  {s \in Sessions \ {"none"} :
     /\ f \in AdminFunctions \/ Given(args, "targetLogin") => s = "admin"
     /\ f = "backendQueryProfitSwitchCoeff" => s \in {"admin", "observer"}
     /\ f \in WriteFunctions => s # "readonly"}

\* What is done is done without looking at the session again.
TrustedEnds == {"reply", "effect", "service"}
Trusted(r) == FunctionNameMap_[r.function].end \in TrustedEnds
Acts(r) == r.stage = "service" \/ (r.stage = "answered" /\ r.status = "ok")

(* Nothing that requires a session is done for a request, neither by its   *)
(* handler nor by the service the handler calls, unless the session was at *)
(* some moment since the request came that of a user with the rights for   *)
(* it: the administrator where another login is addressed or the function  *)
(* is his, one who may write where something changes (http.cpp, the calls  *)
(* of validateSession).                                                    *)
ValidatedBeforeUse ==
  \A c \in Clients : LET r == request[c] IN
    Trusted(r) /\ RequiresSession(r.function) /\ Acts(r)
      => r.seen \cap Entitled(r.function, r.args) # {}

(* Once a logout has been answered with ok, no request with that session   *)
(* id that comes later succeeds, on any connection and with any function   *)
(* that requires a session (http.cpp: onUserLogout and the others).        *)
LogoutFences ==
  \A c \in Clients : LET r == request[c] IN
    RequiresSession(r.function) /\ r.late => ~(r.stage = "answered" /\ r.status = "ok")

\* Somewhere between the arrival and the reply the session did not entitle,
\* the coin was unknown, ...
Justified(r) ==
  /\ r.status = "json_format_error" =>
       \/ \E a \in DOMAIN r.args : r.args[a] # "good"
       \/ r.function = "backendPoolLuck" /\ "increasing" \notin r.facts
  /\ r.status = "unknown_id" /\ Trusted(r) =>
       \/ ~SessionGiven(r.args)
       \/ ~(r.seen \subseteq Entitled(r.function, r.args))
       \/ r.function = "userGetCredentials" /\ "credentials" \notin r.facts
  /\ r.status = "invalid_coin" => ~({"coin", "sha256"} \subseteq r.facts) \/ ~Given(r.args, "coin")
  /\ r.status = "unknown_column_name" => "column" \notin r.facts
  /\ r.status = "request_format_error" => "money" \notin r.facts
  /\ r.status = "invalid_address" => "address" \notin r.facts
  /\ r.status = "invalid_interval" => "interval" \notin r.facts

(* A refusal has the cause its status names (http.cpp, replyWithStatus in  *)
(* the handlers).                                                          *)
StatusJustified == \A c \in Clients : Justified(request[c])
=============================================================================
