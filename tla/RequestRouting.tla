--------------------------- MODULE RequestRouting ---------------------------
(***************************************************************************)
(* From the bytes of a request to the handler and the part it is for:      *)
(* PoolHttpConnection::onParse (src/src/http.cpp), called by the parser    *)
(* for one component of a request after the other, and the look up of the  *)
(* coin in the handler it ends in.                                         *)
(*                                                                         *)
(* A body is a sequence of tokens: the name in the member "coin" of an     *)
(* object that begins with it, or End, the object's end.  The parser may   *)
(* cut it anywhere.  Whether the parser goes on to a second request on the *)
(* connection is not to be told from the repository; here it may.          *)
(***************************************************************************)
EXTENDS CoinRegistry

CONSTANTS
  DefaultCoin,  \* the name in the handler of userEnumerateAll
  MaxRequests,  \* bound: requests of the connection
  MaxPath,      \* bound: elements of a path
  MaxTokens     \* bound: tokens of a body

ASSUME RoutingAssumption ==
  /\ DefaultCoin \in Names
  /\ MaxRequests \in Nat /\ MaxPath \in Nat /\ MaxTokens \in Nat

VARIABLES
  phase,     \* "idle", in "uri" or "data", "done", or "closed" by onParse's 0
  number,    \* how many requests have begun
  method, function, Request,   \* Context
  outcome,   \* reply or handler of the request
  path, text \* history: the path and the body of the request
routingVars == <<phase, number, method, function, Request, outcome, path, text>>
vars == <<registryVars, routingVars>>

\* One function for each way to look up a part; all are called by POST.
FunctionNameMap_ ==
  [userLogin |-> "none", backendManualPayout |-> "backend", userEnumerateAll |-> "statistic"]
Functions == DOMAIN FunctionNameMap_
Elements == Functions \cup {"api", "other"}
End == 0
Tokens == CoinNames \cup {Algorithm[n] : n \in CoinNames} \cup {End}

Outcome(status, f, part) == [status |-> status, function |-> f, part |-> part]
Status(status) == Outcome(status, "fnUnknown", Nobody)
Pending == Status("none")

TypeOK ==
  /\ RegistryTypeOK
  /\ phase \in {"idle", "uri", "data", "done", "closed"}
  /\ number \in 0..MaxRequests
  /\ method \in {"hmUnknown", "hmGet", "hmPost"}
  /\ function \in Functions \cup {"fnUnknown", "fnApi"}
  /\ outcome.status \in {"none", "404", "invalid_json", "json_format_error", "invalid_coin",
                         "handled"}
  /\ outcome.function \in Functions \cup {"fnUnknown"}
  /\ outcome.part \in CoinParts \cup ServerParts \cup {Nobody}
  /\ Len(path) <= MaxPath /\ Len(text) <= MaxTokens

Init ==
  /\ RegistryInit
  /\ phase = "idle" /\ number = 0
  /\ method = "hmUnknown" /\ function = "fnUnknown" /\ Request = <<>>
  /\ outcome = Pending /\ path = <<>> /\ text = <<>>

-----------------------------------------------------------------------------
Serving == stage = "serve" /\ UNCHANGED registryVars

\* Mutation: the function of the last request is not reset.
MethodKeepsFunction(m) ==
  /\ Serving /\ phase \in {"idle", "done"} /\ number < MaxRequests
  /\ method' = m
  /\ phase' = "uri" /\ number' = number + 1
  /\ outcome' = Pending /\ path' = <<>> /\ text' = <<>>
  /\ UNCHANGED <<function, Request>>

\* httpRequestDtMethod.
Method(m) ==
  /\ Serving /\ phase \in {"idle", "done"} /\ number < MaxRequests
  /\ method' = m /\ function' = "fnUnknown"
  /\ phase' = "uri" /\ number' = number + 1
  /\ outcome' = Pending /\ path' = <<>> /\ text' = <<>>
  /\ UNCHANGED Request

\* Mutation: a name that is not in the map is taken for a function.
PathElementUnknown(e) ==
  /\ Serving /\ phase = "uri" /\ Len(path) < MaxPath
  /\ path' = Append(path, e)
  /\ function' = IF function = "fnUnknown" THEN "fnApi" ELSE e
  /\ UNCHANGED <<phase, outcome, number, method, Request, text>>

\* httpRequestDtUriPathElement.
PathElement(e) ==
  /\ Serving /\ phase = "uri" /\ Len(path) < MaxPath
  /\ path' = Append(path, e)
  /\ \/ /\ function = "fnUnknown" /\ e = "api"
        /\ function' = "fnApi"
        /\ UNCHANGED <<phase, outcome>>
     \/ /\ function = "fnApi" /\ e \in Functions /\ method = "hmPost"
        /\ function' = e
        /\ UNCHANGED <<phase, outcome>>
     \/ /\ ~(function = "fnUnknown" /\ e = "api")
        /\ ~(function = "fnApi" /\ e \in Functions /\ method = "hmPost")
        /\ phase' = "closed" /\ outcome' = Status("404")
        /\ UNCHANGED function
  /\ UNCHANGED <<number, method, Request, text>>

\* httpRequestDtData.
Data(token) ==
  /\ Serving /\ phase \in {"uri", "data"} /\ Len(text) < MaxTokens
  /\ Request' = Append(Request, token) /\ text' = Append(text, token)
  /\ phase' = "data"
  /\ UNCHANGED <<number, method, function, outcome, path>>

IsObject(tokens) ==
  tokens = <<>> \/ (Len(tokens) = 2 /\ tokens[1] # End /\ tokens[2] = End)

\* What the handler of f makes of the coin in the document.
Found(f, part) == IF part = Nobody THEN Status("invalid_coin") ELSE Outcome("handled", f, part)
Handled(f, tokens) ==
  CASE FunctionNameMap_[f] = "none" -> Outcome("handled", f, Nobody)
    [] FunctionNameMap_[f] = "backend" ->
         IF tokens = <<>> THEN Status("json_format_error") ELSE Found(f, backend(tokens[1]))
    [] OTHER ->
         Found(f, statisticDb(IF tokens = <<>> THEN DefaultCoin ELSE tokens[1]))

\* httpRequestDtDataLast: invalid_json returns 1, the 404 of an unknown
\* function 0.
DataLast(tokens) ==
  /\ Serving /\ phase \in {"uri", "data"} /\ Len(text \o tokens) <= MaxTokens
  /\ Request' = Request \o tokens /\ text' = text \o tokens
  /\ outcome' = IF ~IsObject(Request') THEN Status("invalid_json")
                ELSE IF function \in Functions THEN Handled(function, Request')
                ELSE Status("404")
  /\ phase' = IF outcome'.status = "404" THEN "closed" ELSE "done"
  /\ UNCHANGED <<number, method, function, path>>

Finished ==
  /\ stage = "failed" \/ phase = "closed" \/ (phase = "done" /\ number = MaxRequests)
  /\ UNCHANGED vars

Next ==
  \/ RegistryNext /\ UNCHANGED routingVars
  \/ \E m \in {"hmGet", "hmPost"} : Method(m)
  \/ \E e \in Elements : PathElement(e)
  \/ \E token \in Tokens : Data(token) \/ DataLast(<<token>>)
  \/ DataLast(<<>>)
  \/ Finished

Spec == Init /\ [][Next]_vars

-----------------------------------------------------------------------------
(* Properties.                                                             *)

\* The document is the body of the request itself: always so for the first.
OwnBody == Request = text
AskedCoin == IF text = <<>> THEN DefaultCoin ELSE text[1]
Eligible(f) ==
  IF FunctionNameMap_[f] = "backend" THEN CoinParts ELSE CoinParts \cup ToSet(servers)

(* A request is handled only by the function its path names, by POST, and  *)
(* with the backend or statistic of the coin that its own body names; a    *)
(* request behind another one whose body is not empty gets the body of     *)
(* both, for Context.Request is never cleared (http.cpp:233).              *)
RoutedAsAsked ==
  outcome.status = "handled" => LET f == outcome.function IN
    /\ method = "hmPost" /\ path = <<"api", f>>
    /\ number = 1 => OwnBody
    /\ OwnBody /\ FunctionNameMap_[f] # "none" =>
         outcome.part \in Eligible(f) /\ NameOf(outcome.part) = AskedCoin

(* A request that is refused has the fault the reply names: a path or      *)
(* method that is none of the API's, a body that is no object, a coin that *)
(* nobody has.                                                             *)
RefusedForCause ==
  /\ outcome.status = "404" => method # "hmPost" \/ \A f \in Functions : path # <<"api", f>>
  /\ outcome.status = "invalid_json" /\ OwnBody => ~IsObject(text)
  /\ outcome.status = "json_format_error" /\ OwnBody => text = <<>>
  /\ outcome.status = "invalid_coin" /\ OwnBody =>
       \A p \in Eligible(function) : NameOf(p) # AskedCoin
=============================================================================
