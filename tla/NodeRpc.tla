------------------------------ MODULE NodeRpc ------------------------------
(***************************************************************************)
(* The command line tool noderpc (src/src/noderpc.cpp): it reads options,  *)
(* makes a client of a node, and runs one method of the client in a        *)
(* coroutine that suspends until the node has answered, while main() is in *)
(* asyncLoop.  Coroutine and loop share main()'s thread.                   *)
(*                                                                         *)
(* getopt, the coroutines and the clients are not part of the repository.  *)
(* getopt_long, called with an empty list of short options, returns '?'    *)
(* for a missing argument, too, so that the case ':' is never taken; the   *)
(* pointers user and password are never null, so that their test has no    *)
(* step either.  A posted quit operation ends the loop, also one that was  *)
(* posted before the loop was entered.                                     *)
(***************************************************************************)
EXTENDS Naturals

CONSTANTS
  MaxArgs,  \* bound: arguments behind the options
  MaxList   \* bound: mining addresses, and private keys, of the options

ASSUME NodeRpcAssumption == MaxArgs \in Nat /\ MaxList \in Nat

VARIABLES
  type, coin, address, method,  \* the options, "none" or FALSE when not given
  addresses, keys,              \* how many mining addresses and private keys
  args,                         \* the arguments: their number, the bad ones
  main,                         \* next step of main()
  client,                       \* the client created
  coro,                         \* where the coroutine is
  asked,                        \* history: what the node was asked, "none" if nothing
  quit,                         \* the quit operation is posted
  process       \* "running", or the status it has exited with

options == <<type, coin, address, method, addresses, keys>>
vars == <<options, args, main, client, coro, asked, quit, process>>

-----------------------------------------------------------------------------
(* The coroutines: the numbers of arguments they take, and the arguments   *)
(* that they check before they ask the node.                               *)

AnyNumber == 0..MaxArgs
Coroutine(numbers, checked) == [numbers |-> numbers, checked |-> checked]

\* Mutation: an amount that cannot be parsed is reported, and sent.
buildTransactionUnchecked == Coroutine({3}, {1})

getBalanceCoro           == Coroutine(AnyNumber, {})
buildTransactionCoro     == Coroutine({3}, {1, 3})
sendTransactionCoro      == Coroutine({2}, {})
getTxConfirmationsCoro   == Coroutine({1}, {})
getBlockConfirmationCoro == Coroutine({2}, {})
getBlockExtraInfoCoro    == Coroutine({2}, {})
listUnspentCoro          == Coroutine({0}, {})
zsendManyCoro            == Coroutine({6}, {3, 6})
zgetBalanceCoro          == Coroutine({1}, {})

Methods ==
  [getBalance           |-> getBalanceCoro,
   buildTransaction     |-> buildTransactionCoro,
   sendTransaction      |-> sendTransactionCoro,
   getTxConfirmations   |-> getTxConfirmationsCoro,
   getBlockConfirmation |-> getBlockConfirmationCoro,
   getBlockExtraInfo    |-> getBlockExtraInfoCoro,
   listUnspent          |-> listUnspentCoro,
   zsendMany            |-> zsendManyCoro,
   zgetBalance          |-> zgetBalanceCoro]
Names == DOMAIN Methods

\* Of the arguments at most one is bad: the checks are independent.
ArgumentLists ==
  {[number |-> n, bad |-> b] : n \in 0..MaxArgs, b \in {{}} \cup {{i} : i \in 1..MaxArgs}}

TypeOK ==
  /\ type \in {"none", "bitcoinrpc", "ethereumrpc", "other"}
  /\ coin \in {"none", "known", "unknown"}
  /\ address \in BOOLEAN
  /\ method \in Names \cup {"none", "other"}
  /\ addresses \in 0..MaxList /\ keys \in 0..MaxList
  /\ args \in ArgumentLists
  /\ main \in {"options", "check", "coin", "client", "start", "coroutine", "loop", "ended"}
  /\ client \in {"none", "bitcoinrpc", "ethereumrpc"}
  /\ coro \in {"none", "entered", "waiting", "left", "finished"}
  /\ asked \in Names \cup {"none"}
  /\ quit \in BOOLEAN
  /\ process \in {"running", "0", "1"}

Init ==
  /\ type = "none" /\ coin = "none" /\ address = FALSE /\ method = "none"
  /\ addresses = 0 /\ keys = 0
  /\ args \in {a \in ArgumentLists : a.bad \subseteq 1..a.number}
  /\ main = "options" /\ client = "none" /\ coro = "none" /\ asked = "none"
  /\ quit = FALSE /\ process = "running"

-----------------------------------------------------------------------------
(* main().                                                                 *)

At(step) == main = step /\ process = "running"
GoTo(step) == main' = step /\ UNCHANGED process
Exit(status) == process' = status /\ main' = "ended"
NoCoroutine == UNCHANGED <<client, coro, asked, quit>>
SameOptions == UNCHANGED <<options, args>>

Help == At("options") /\ Exit("0") /\ SameOptions /\ NoCoroutine
BadOption == At("options") /\ Exit("1") /\ SameOptions /\ NoCoroutine

\* The last one of several counts.
Node(t) == /\ At("options") /\ type' = t
           /\ UNCHANGED <<coin, address, method, addresses, keys, args, main, process>>
           /\ NoCoroutine
Coin(c) == /\ At("options") /\ coin' = c
           /\ UNCHANGED <<type, address, method, addresses, keys, args, main, process>>
           /\ NoCoroutine
Address == /\ At("options") /\ address' = TRUE
           /\ UNCHANGED <<type, coin, method, addresses, keys, args, main, process>>
           /\ NoCoroutine
Method(m) == /\ At("options") /\ method' = m
             /\ UNCHANGED <<type, coin, address, addresses, keys, args, main, process>>
             /\ NoCoroutine

\* A list adds to what an earlier option gave, one element at least.
MiningAddresses(n) ==
  /\ At("options") /\ addresses + n <= MaxList
  /\ addresses' = addresses + n
  /\ UNCHANGED <<type, coin, address, method, keys, args, main, process>> /\ NoCoroutine
PrivateKeys(n) ==
  /\ At("options") /\ keys + n <= MaxList
  /\ keys' = keys + n
  /\ UNCHANGED <<type, coin, address, method, addresses, args, main, process>> /\ NoCoroutine

OptionsEnd == At("options") /\ GoTo("check") /\ SameOptions /\ NoCoroutine

\* Mutation: the amounts of keys and addresses are not compared.
CheckRequiredOnly ==
  /\ At("check")
  /\ IF type = "none" \/ coin = "none" \/ ~address \/ method = "none"
     THEN Exit("1") ELSE GoTo("coin")
  /\ SameOptions /\ NoCoroutine

CheckOptions ==
  /\ At("check")
  /\ IF \/ type = "none" \/ coin = "none" \/ ~address \/ method = "none"
        \/ keys > 0 /\ keys # addresses
     THEN Exit("1") ELSE GoTo("coin")
  /\ SameOptions /\ NoCoroutine

FindCoin ==
  /\ At("coin")
  /\ IF coin = "unknown" THEN Exit("1") ELSE GoTo("client")
  /\ SameOptions /\ NoCoroutine

OneAddressMissing ==
  type = "ethereumrpc" /\ method \in {"getBalance", "buildTransaction"} /\ addresses # 1

\* Mutation: an unknown type of node is reported, and main() goes on.
CreateAnyClient ==
  /\ At("client")
  /\ IF OneAddressMissing
     THEN Exit("1") /\ UNCHANGED client
     ELSE GoTo("start") /\ client' = type
  /\ SameOptions /\ UNCHANGED <<coro, asked, quit>>

CreateClient ==
  /\ At("client")
  /\ IF type = "other" \/ OneAddressMissing
     THEN Exit("1") /\ UNCHANGED client
     ELSE GoTo("start") /\ client' = type
  /\ SameOptions /\ UNCHANGED <<coro, asked, quit>>

\* Mutation: the quit operation is posted behind coroutineCall, by main().
StartAndQuit ==
  /\ At("start")
  /\ IF method \in Names
     THEN GoTo("coroutine") /\ coro' = "entered" /\ quit' = TRUE
     ELSE Exit("1") /\ UNCHANGED <<coro, quit>>
  /\ SameOptions /\ UNCHANGED <<client, asked>>

\* coroutineCall: main() goes on when the coroutine suspends or ends.
Start ==
  /\ At("start")
  /\ IF method \in Names
     THEN GoTo("coroutine") /\ coro' = "entered"
     ELSE Exit("1") /\ UNCHANGED coro
  /\ SameOptions /\ UNCHANGED <<client, asked, quit>>

EnterLoop ==
  /\ At("coroutine") /\ coro \in {"waiting", "finished"}
  /\ GoTo("loop")
  /\ SameOptions /\ NoCoroutine

\* The loop waits for the node.
Wait == At("loop") /\ ~quit /\ UNCHANGED vars

LoopEnds ==
  /\ At("loop") /\ quit /\ coro # "left"
  /\ Exit("0")
  /\ SameOptions /\ NoCoroutine

-----------------------------------------------------------------------------
(* The coroutine.                                                          *)

InCoroutine(state) == coro = state /\ SameOptions /\ UNCHANGED <<main, client, process>>
Valid == LET m == Methods[method] IN args.number \in m.numbers /\ args.bad \cap m.checked = {}

\* Mutation: a usage error ends the coroutine for good.
RefuseForGood ==
  /\ InCoroutine("entered") /\ ~Valid
  /\ coro' = "finished"
  /\ UNCHANGED <<asked, quit>>

\* A usage message, an invalid address or amount: return.
Refuse ==
  /\ InCoroutine("entered") /\ ~Valid
  /\ coro' = "left"
  /\ UNCHANGED <<asked, quit>>

\* Client->io...(): the coroutine waits for the node.
Ask ==
  /\ InCoroutine("entered") /\ Valid
  /\ coro' = "waiting" /\ asked' = method
  /\ UNCHANGED quit

\* The operation ends, well or not; a client may know without the node.
Answered ==
  /\ InCoroutine("waiting")
  /\ coro' = "left"
  /\ UNCHANGED <<asked, quit>>

\* Back in the lambda: postQuitOperation.
Finish ==
  /\ InCoroutine("left")
  /\ coro' = "finished" /\ quit' = TRUE
  /\ UNCHANGED asked

Ended == process # "running" /\ UNCHANGED vars

Options ==
  \/ Help \/ BadOption \/ Address \/ OptionsEnd
  \/ \E t \in {"none", "bitcoinrpc", "ethereumrpc", "other"} : Node(t)
  \/ \E c \in {"none", "known", "unknown"} : Coin(c)
  \/ \E m \in Names \cup {"none", "other"} : Method(m)
  \/ \E n \in 1..MaxList : MiningAddresses(n) \/ PrivateKeys(n)

Run == CheckOptions \/ FindCoin \/ CreateClient \/ Start \/ EnterLoop \/ LoopEnds
Coro == Refuse \/ Ask \/ Answered \/ Finish

Next == Options \/ Run \/ Coro \/ Wait \/ Ended

Spec == Init /\ [][Next]_vars

\* The thread goes on when it can, and the operation of the client ends.
FairSpec == Spec /\ WF_vars(Run) /\ WF_vars(Coro)

-----------------------------------------------------------------------------
(* Properties.                                                             *)

(* A node is asked only what was checked on the way, by main() and by the  *)
(* method's coroutine: the coin is known, the client is of the type asked  *)
(* for and has one key for each mining address (privateKeys[i] of line     *)
(* 386) or none, an ethereum node has the one address it needs, and the    *)
(* arguments Argv[i] that the method reads are there and good.             *)
AskedWasChecked ==
  asked # "none" =>
    /\ coin = "known" /\ address /\ client = type
    /\ client = "ethereumrpc" => keys \in {0, addresses}
    /\ client = "ethereumrpc" /\ asked \in {"getBalance", "buildTransaction"} => addresses = 1
    /\ args.number \in Methods[asked].numbers
    /\ args.bad \subseteq IF asked = "buildTransaction" THEN {2}
                          ELSE IF asked = "zsendMany" THEN {1, 2, 4, 5} ELSE 1..MaxArgs

(* The context on main()'s stack, with the client in it, is there as long  *)
(* as the coroutine that was given its address: main() ends before the     *)
(* coroutine was started or after it has finished, never in between.       *)
ContextOutlivesCoroutine == process # "running" => coro \in {"none", "finished"}

(* Whatever way a method takes, an early return for a wrong argument or a  *)
(* failed operation included, the tool ends.                               *)
MethodEnds == main \in {"coroutine", "loop"} ~> process = "0"
=============================================================================
