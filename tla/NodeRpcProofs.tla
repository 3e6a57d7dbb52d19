--------------------------- MODULE NodeRpcProofs ---------------------------
(***************************************************************************)
(* The tool noderpc asks a node only what it has checked, and does not     *)
(* leave main() under a coroutine, for any number of arguments, addresses  *)
(* and keys.                                                               *)
(***************************************************************************)
EXTENDS NodeRpc, TLAPS

\* The arguments there are; a bad one is one of them.
ArgumentsExist == args.bad \subseteq 1..args.number

\* How far main() is, and what the coroutine can be doing.
Entered == {"coroutine", "loop"}
Phases ==
  /\ main = "ended" <=> process # "running"
  /\ main \notin Entered \cup {"ended"} => coro = "none"
  /\ main \in Entered => coro # "none"
  /\ main = "ended" => coro \in {"none", "finished"}
  /\ quit => coro = "finished"
  /\ coro = "none" => asked = "none"

\* What main() has checked when it gets to a step.
Checked ==
  /\ main \in {"coin", "client", "start"} \cup Entered =>
       coin # "none" /\ address /\ keys \in {0, addresses}
  /\ main \in {"client", "start"} \cup Entered => coin = "known"
  /\ main \in {"start"} \cup Entered => client = type /\ ~OneAddressMissing
  /\ main \in Entered => method \in Names

IInv == TypeOK /\ ArgumentsExist /\ Phases /\ Checked /\ AskedWasChecked

-----------------------------------------------------------------------------
(* Every variable keeps its type.                                          *)
LEMMA TypeStep == TypeOK /\ Phases /\ Checked /\ [Next]_vars => TypeOK'
<1> SUFFICES ASSUME TypeOK, Phases, Checked, [Next]_vars PROVE TypeOK'
  OBVIOUS
<1> USE NodeRpcAssumption DEF TypeOK, At, GoTo, Exit, NoCoroutine, SameOptions, options
<1>1. CASE Help \/ BadOption \/ OptionsEnd \/ Address
  BY <1>1 DEF Help, BadOption, OptionsEnd, Address
<1>2. ASSUME NEW t \in {"none", "bitcoinrpc", "ethereumrpc", "other"}, Node(t) PROVE TypeOK'
  BY <1>2 DEF Node
<1>3. ASSUME NEW c \in {"none", "known", "unknown"}, Coin(c) PROVE TypeOK'
  BY <1>3 DEF Coin
<1>4. ASSUME NEW m \in Names \cup {"none", "other"}, Method(m) PROVE TypeOK'
  BY <1>4 DEF Method
<1>5. ASSUME NEW n \in 1..MaxList, MiningAddresses(n) \/ PrivateKeys(n) PROVE TypeOK'
  BY <1>5 DEF MiningAddresses, PrivateKeys
<1>6. CASE Run
  BY <1>6 DEF Run, CheckOptions, FindCoin, CreateClient, Start, EnterLoop, LoopEnds
<1>7. CASE Coro
  <2>1. ASSUME Ask PROVE method \in Names
    BY <2>1 DEF Ask, InCoroutine, Phases, Checked, Entered
  <2> QED
    BY <1>7, <2>1 DEF Coro, InCoroutine, Refuse, Ask, Answered, Finish
<1>8. CASE UNCHANGED vars
  BY <1>8 DEF vars
<1>9. CASE Wait \/ Ended
  BY <1>8, <1>9 DEF Wait, Ended
<1> HIDE NodeRpcAssumption DEF TypeOK, At, GoTo, Exit, NoCoroutine, SameOptions, options
<1> QED
  BY <1>1, <1>2, <1>3, <1>4, <1>5, <1>6, <1>7, <1>8, <1>9 DEF Next, Options

(* The coroutine is entered by Start, left by its own steps, and finished  *)
(* before the loop ends.                                                   *)
LEMMA PhasesStep == TypeOK /\ Phases /\ [Next]_vars => Phases'
<1> SUFFICES ASSUME TypeOK, Phases, [Next]_vars PROVE Phases'
  OBVIOUS
<1> USE DEF TypeOK, Phases, Entered, At, GoTo, Exit, NoCoroutine, SameOptions, InCoroutine
<1>1. CASE Help \/ BadOption \/ OptionsEnd \/ Address
  BY <1>1 DEF Help, BadOption, OptionsEnd, Address
<1>2. ASSUME NEW t, Node(t) \/ Coin(t) \/ Method(t) PROVE Phases'
  BY <1>2 DEF Node, Coin, Method
<1>3. ASSUME NEW n, MiningAddresses(n) \/ PrivateKeys(n) PROVE Phases'
  BY <1>3 DEF MiningAddresses, PrivateKeys
<1>4. CASE CheckOptions \/ FindCoin \/ CreateClient
  BY <1>4 DEF CheckOptions, FindCoin, CreateClient
<1>5. CASE Start \/ EnterLoop
  BY <1>5 DEF Start, EnterLoop
<1>6. CASE LoopEnds
  BY <1>6 DEF LoopEnds
<1>7. CASE Refuse \/ Answered
  BY <1>7 DEF Refuse, Answered
<1>8. CASE Ask
  BY <1>8 DEF Ask
<1>9. CASE Finish
  BY <1>9 DEF Finish
<1>10. CASE UNCHANGED vars
  BY <1>10 DEF vars
<1> HIDE DEF Phases
<1> QED
  BY <1>1, <1>2, <1>3, <1>4, <1>5, <1>6, <1>7, <1>8, <1>9, <1>10
    DEF Next, Options, Run, Coro, Wait, Ended

(* What was checked stays true, since options are read before.             *)
LEMMA CheckedStep == TypeOK /\ Phases /\ Checked /\ [Next]_vars => Checked'
<1> SUFFICES ASSUME TypeOK, Phases, Checked, [Next]_vars PROVE Checked'
  OBVIOUS
<1> USE DEF Checked, Entered, OneAddressMissing, At, GoTo, Exit, NoCoroutine, SameOptions, options
<1>1. CASE Help \/ BadOption \/ OptionsEnd \/ Address
  BY <1>1 DEF Help, BadOption, OptionsEnd, Address
<1>2. ASSUME NEW t, Node(t) \/ Coin(t) \/ Method(t) PROVE Checked'
  BY <1>2 DEF Node, Coin, Method
<1>3. ASSUME NEW n, MiningAddresses(n) \/ PrivateKeys(n) PROVE Checked'
  BY <1>3 DEF MiningAddresses, PrivateKeys
<1>4. CASE CheckOptions
  <2>1. keys \in Nat
    BY NodeRpcAssumption DEF TypeOK
  <2> QED
    BY <1>4, <2>1 DEF CheckOptions
<1>5. CASE FindCoin
  <2>1. coin \in {"none", "known", "unknown"}
    BY DEF TypeOK
  <2> QED
    BY <1>5, <2>1 DEF FindCoin
<1>6. CASE CreateClient
  BY <1>6 DEF CreateClient
<1>7. CASE Start
  BY <1>7 DEF Start
<1>8. CASE EnterLoop \/ LoopEnds
  BY <1>8 DEF EnterLoop, LoopEnds
<1>9. CASE Coro
  BY <1>9 DEF Coro, Refuse, Ask, Answered, Finish, InCoroutine
<1>10. CASE UNCHANGED vars
  BY <1>10 DEF vars
<1> HIDE DEF Checked
<1> QED
  BY <1>1, <1>2, <1>3, <1>4, <1>5, <1>6, <1>7, <1>8, <1>9, <1>10
    DEF Next, Options, Run, Wait, Ended

(* Ask is the only step that asks: what it needs was checked before, and   *)
(* nothing of it changes afterwards.                                       *)
LEMMA AskedStep ==
  ASSUME TypeOK, ArgumentsExist, Phases, Checked, AskedWasChecked, [Next]_vars
  PROVE  ArgumentsExist' /\ AskedWasChecked'
<1>1. UNCHANGED args
  BY DEF Next, Options, Run, Coro, Wait, Ended, vars, Help, BadOption, OptionsEnd, Address,
    Node, Coin, Method, MiningAddresses, PrivateKeys, CheckOptions, FindCoin, CreateClient,
    Start, EnterLoop, LoopEnds, Refuse, Ask, Answered, Finish, InCoroutine, SameOptions
<1>2. ArgumentsExist'
  BY <1>1 DEF ArgumentsExist
<1>3. CASE Ask
  <2>1. /\ main \in Entered /\ method \in Names /\ asked' = method
        /\ UNCHANGED <<options, args, client>>
    BY <1>3 DEF Ask, InCoroutine, SameOptions, Phases, Entered, Checked
  <2>2. coin = "known" /\ address /\ client = type
    BY <2>1 DEF Checked
  <2>3. keys \in {0, addresses} /\ ~OneAddressMissing
    BY <2>1 DEF Checked
  <2>4. args.number \in Methods[method].numbers /\ args.bad \cap Methods[method].checked = {}
    BY <1>3 DEF Ask, Valid
  <2>5. args.bad \subseteq 1..MaxArgs
    BY DEF TypeOK, ArgumentLists
  <2>6. method = "buildTransaction" => args.bad \subseteq {2}
    <3>1. ASSUME method = "buildTransaction" PROVE args.number = 3 /\ 1 \notin args.bad /\ 3 \notin args.bad
      BY <2>4, <3>1 DEF Methods, buildTransactionCoro, Coroutine
    <3> QED
      BY <3>1 DEF ArgumentsExist
  <2>7. method = "zsendMany" => args.bad \subseteq {1, 2, 4, 5}
    <3>1. ASSUME method = "zsendMany" PROVE args.number = 6 /\ 3 \notin args.bad /\ 6 \notin args.bad
      BY <2>4, <3>1 DEF Methods, zsendManyCoro, Coroutine
    <3> QED
      BY <3>1 DEF ArgumentsExist
  <2>8. client' = client /\ coin' = coin /\ address' = address /\ type' = type /\ keys' = keys
        /\ addresses' = addresses /\ args' = args
    BY <2>1 DEF options
  <2>9. type = "ethereumrpc" /\ method \in {"getBalance", "buildTransaction"} => addresses = 1
    BY <2>3 DEF OneAddressMissing
  <2>10. args.bad \subseteq IF method = "buildTransaction" THEN {2}
                          ELSE IF method = "zsendMany" THEN {1, 2, 4, 5} ELSE 1..MaxArgs
    BY <2>5, <2>6, <2>7
  <2>11. SUFFICES
           /\ coin = "known" /\ address /\ client = type
           /\ client = "ethereumrpc" => keys \in {0, addresses}
           /\ client = "ethereumrpc" /\ method \in {"getBalance", "buildTransaction"} =>
                addresses = 1
           /\ args.number \in Methods[method].numbers
           /\ args.bad \subseteq IF method = "buildTransaction" THEN {2}
                                 ELSE IF method = "zsendMany" THEN {1, 2, 4, 5} ELSE 1..MaxArgs
    BY <1>2, <2>1, <2>8 DEF AskedWasChecked
  <2> QED
    BY <2>2, <2>3, <2>4, <2>9, <2>10
<1>4. CASE ~Ask
  <2>1. UNCHANGED asked
    BY <1>4 DEF Next, Options, Run, Coro, Wait, Ended, vars, Help, BadOption, OptionsEnd,
      Address, Node, Coin, Method, MiningAddresses, PrivateKeys, CheckOptions, FindCoin,
      CreateClient, Start, EnterLoop, LoopEnds, Refuse, Answered, Finish, NoCoroutine
  <2>2. ASSUME asked # "none" PROVE main \notin {"options", "client"}
    BY <2>2 DEF Phases, Entered
  <2>3. asked # "none" => UNCHANGED <<options, client>>
    BY <1>4, <2>2 DEF Next, Options, Run, Coro, Wait, Ended, vars, Help, BadOption, OptionsEnd,
      Address, Node, Coin, Method, MiningAddresses, PrivateKeys, CheckOptions, FindCoin,
      CreateClient, Start, EnterLoop, LoopEnds, Refuse, Answered, Finish, At, NoCoroutine,
      SameOptions, InCoroutine
  <2>4. asked # "none" => /\ client' = client /\ coin' = coin /\ address' = address
                          /\ type' = type /\ keys' = keys /\ addresses' = addresses
    BY <2>3 DEF options
  <2> QED
    BY <1>1, <1>2, <2>1, <2>4 DEF AskedWasChecked
<1> QED
  BY <1>2, <1>3, <1>4

(* The invariant holds at the start and is kept.                           *)
LEMMA InvHolds == Spec => []IInv
<1>1. Init => IInv
  <2> SUFFICES ASSUME Init PROVE IInv
    OBVIOUS
  <2>1. args \in ArgumentLists /\ ArgumentsExist
    BY DEF Init, ArgumentsExist
  <2>2. 0 \in 0..MaxList
    BY NodeRpcAssumption
  <2>3. TypeOK
    BY <2>1, <2>2, Zenon DEF Init, TypeOK
  <2>4. Phases /\ Checked /\ AskedWasChecked
    BY DEF Init, Phases, Entered, Checked, AskedWasChecked
  <2> QED
    BY <2>1, <2>3, <2>4 DEF IInv
<1>2. IInv /\ [Next]_vars => IInv'
  BY TypeStep, PhasesStep, CheckedStep, AskedStep DEF IInv
<1> QED
  BY <1>1, <1>2, PTL DEF Spec

(* Every variable of noderpc has its type, for any bounds of the options.  *)
THEOREM ToolTypeCorrect == Spec => []TypeOK
BY InvHolds, PTL DEF IInv

(* A node is asked only what main() and the coroutine of the method have   *)
(* checked: credentials of the mining addresses, the coin, the arguments.  *)
THEOREM AskedWasCheckedHolds == Spec => []AskedWasChecked
BY InvHolds, PTL DEF IInv

(* main() never leaves its stack under a coroutine that uses it.           *)
THEOREM ContextOutlivesCoroutineHolds == Spec => []ContextOutlivesCoroutine
<1>1. IInv => ContextOutlivesCoroutine
  BY DEF IInv, Phases, ContextOutlivesCoroutine
<1> QED
  BY <1>1, InvHolds, PTL
=============================================================================
