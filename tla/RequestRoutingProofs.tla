------------------------ MODULE RequestRoutingProofs ------------------------
(***************************************************************************)
(* A request is handled by the function and with the part it asks for, and *)
(* refused for a cause, for any configuration of coins and any requests.   *)
(***************************************************************************)
EXTENDS RequestRouting, FiniteSetTheorems, SequenceTheorems, WellFoundedInduction, TLAPS

(* A nonempty set of natural numbers has a least element.                  *)
LEMMA LeastNumber ==
  ASSUME NEW T, T \subseteq Nat, T # {}
  PROVE  \E x \in T : \A y \in T : x <= y
<1>1. PICK x \in T : \A y \in T : ~ (<<y, x>> \in OpToRel(<, Nat))
  BY NatLessThanWellFounded, WFMin, Zenon
<1>2. ASSUME NEW y \in T, y < x PROVE FALSE
  <2>1. <<y, x>> \in {ss \in Nat \X Nat : ss[1] < ss[2]}
    BY <1>2
  <2>2. {ss \in Nat \X Nat : ss[1] < ss[2]} = OpToRel(<, Nat)
    BY Zenon DEF OpToRel
  <2> QED
    BY <1>1, <2>1, <2>2, Zenon
<1> QED
  BY <1>2

(* Every order of a finite set has all of its elements.                    *)
LEMMA OrderIsComplete ==
  ASSUME NEW S, IsFiniteSet(S), NEW s \in SetToSeqs(S)
  PROVE  s \in Seq(S) /\ ToSet(s) = S
<1> DEFINE n == Cardinality(S)
<1>1. n \in Nat
  BY FS_CardinalityType
<1>2. s \in [1..n -> S] /\ \A i, j \in 1..n : i # j => s[i] # s[j]
  BY DEF SetToSeqs
<1>3. s \in Injection(1..n, S)
  BY <1>2 DEF Injection, IsInjective
<1>4. s \in Seq(S)
  BY <1>1, <1>2, SeqDef
<1>5. Cardinality(1..n) = n
  BY <1>1, FS_Interval
<1>6. s \in Surjection(1..n, S)
  BY <1>3, <1>5, FS_Injection
<1> QED
  BY <1>2, <1>4, <1>6 DEF Surjection, ToSet

-----------------------------------------------------------------------------
(* The registry.                                                           *)

Parts == CoinParts \cup ServerParts
Sorted(parts) ==
  \A i, j \in 1..Len(parts) : i < j => NameOf(parts[i]) <= NameOf(parts[j])

(* Names are numbers.                                                      *)
LEMMA NamesAreNumbers ==
  ASSUME coins \in Seq(CoinNames), NEW p \in Parts
  PROVE  NameOf(p) \in Names /\ NameOf(p) \in Nat /\ p # Nobody
<1>1. CASE p \in CoinParts
  <2>1. PICK k \in 1..Len(coins) : p = <<"coin", k>>
    BY <1>1 DEF CoinParts, OfCoin
  <2>2. coins[k] \in CoinNames
    BY <2>1
  <2> QED
    BY <2>1, <2>2, RegistryAssumption DEF NameOf, Nobody
<1>2. CASE p \in ServerParts
  <2>1. PICK a \in Names : p = <<"algorithm", a>>
    BY <1>2 DEF ServerParts, OfAlgorithm
  <2> QED
    BY <2>1, RegistryAssumption DEF NameOf, Nobody
<1> QED
  BY <1>1, <1>2 DEF Parts

(* Lower bound finds the first part whose name is not less.                *)
LEMMA LowerBoundFinds ==
  ASSUME coins \in Seq(CoinNames), NEW parts \in Seq(Parts), NEW name \in Names
  PROVE  LET i == LowerBound(parts, name)
         IN  /\ i \in 1..(Len(parts) + 1)
             /\ \A j \in 1..(i - 1) : NameOf(parts[j]) < name
             /\ i <= Len(parts) => NameOf(parts[i]) >= name
<1> DEFINE n == Len(parts)
           T == {j \in 1..n : NameOf(parts[j]) >= name} \cup {n + 1}
<1>0. n \in Nat /\ name \in Nat
  BY RegistryAssumption
<1>1. \A j \in 1..n : NameOf(parts[j]) \in Nat
  BY NamesAreNumbers
<1>2. PICK i \in T : \A j \in T : i <= j
  <2>1. T \subseteq Nat /\ T # {}
    BY <1>0
  <2> HIDE DEF T
  <2> QED
    BY <2>1, LeastNumber
<1>3. i \in 1..(n + 1) /\ (i <= n => NameOf(parts[i]) >= name)
  BY <1>0, <1>2
<1>4. \A j \in 1..(i - 1) : NameOf(parts[j]) < name
  BY <1>0, <1>1, <1>2, <1>3
<1> HIDE DEF n
<1> QED
  BY <1>3, <1>4 DEF LowerBound, n

(* In a sorted sequence Lookup finds a part of the name exactly if there   *)
(* is one.                                                                 *)
LEMMA LookupFinds ==
  ASSUME coins \in Seq(CoinNames), NEW parts \in Seq(Parts), Sorted(parts), NEW name \in Names
  PROVE  LET part == Lookup(parts, name)
         IN  /\ part = Nobody => \A p \in ToSet(parts) : NameOf(p) # name
             /\ part # Nobody => part \in ToSet(parts) /\ NameOf(part) = name
<1> DEFINE i == LowerBound(parts, name)
<1>1. /\ i \in 1..(Len(parts) + 1)
      /\ \A j \in 1..(i - 1) : NameOf(parts[j]) < name
      /\ i <= Len(parts) => NameOf(parts[i]) >= name
  BY LowerBoundFinds
<1>2. \A j \in 1..Len(parts) : NameOf(parts[j]) \in Nat /\ parts[j] # Nobody
  BY NamesAreNumbers
<1>3. name \in Nat
  BY RegistryAssumption
<1> HIDE DEF i
<1>4. ASSUME i > Len(parts) \/ NameOf(parts[i]) # name,
             NEW j \in 1..Len(parts), NameOf(parts[j]) = name
      PROVE  FALSE
  <2>1. i <= j
    BY <1>1, <1>2, <1>3, <1>4
  <2>2. NameOf(parts[i]) > name
    BY <1>1, <1>2, <1>3, <1>4, <2>1
  <2>3. NameOf(parts[i]) <= NameOf(parts[j])
    BY <1>1, <1>4, <2>1 DEF Sorted
  <2> QED
    BY <1>1, <1>2, <1>3, <1>4, <2>1, <2>2, <2>3
<1> QED
  BY <1>1, <1>2, <1>4 DEF Lookup, ToSet, i

(* std::sort keeps the parts and sorts them.                               *)
LEMMA SortSorts ==
  ASSUME NEW S, IsFiniteSet(S), NEW s \in SortedOrders(S)
  PROVE  s \in Seq(S) /\ ToSet(s) = S /\ Sorted(s)
<1>1. s \in SetToSeqs(S) /\ Sorted(s)
  BY DEF SortedOrders, Sorted
<1> QED
  BY <1>1, OrderIsComplete

-----------------------------------------------------------------------------
(* The invariant of the registry: main() has made the parts of the first   *)
(* coins, then of all, and what is searched is sorted and complete.        *)
RInv ==
  /\ coins \in Seq(CoinNames)
  /\ linkName \in Names \cup {NoName}
  /\ stage \in Stages
  /\ servers \in Seq(ServerParts)
  /\ backends \in Seq(CoinParts)
  /\ ToSet(backends) =
       IF stage = "build" THEN {OfCoin(k) : k \in 1..Len(backends)} ELSE CoinParts
  /\ stage = "build" => Len(backends) <= Len(coins) /\ linked = Nobody
  /\ stage # "build" => Sorted(backends)
  /\ linked \in CoinParts \cup {Nobody}
  /\ Backends_ \in Seq(CoinParts) /\ Statistic_ \in Seq(Parts)
  /\ stage = "serve" =>
       /\ Sorted(Backends_) /\ ToSet(Backends_) = CoinParts
       /\ Sorted(Statistic_) /\ ToSet(Statistic_) = CoinParts \cup ToSet(servers)
  /\ LinkedAsConfigured

(* What a sequence holds after Append.                                     *)
LEMMA SetOfAppend ==
  ASSUME NEW S, NEW s \in Seq(S), NEW e \in S
  PROVE  ToSet(Append(s, e)) = ToSet(s) \cup {e}
<1> DEFINE t == Append(s, e)
<1>1. t \in Seq(S) /\ Len(t) = Len(s) + 1 /\ t[Len(s) + 1] = e /\ Len(s) \in Nat
  OBVIOUS
<1>2. \A i \in 1..Len(s) : t[i] = s[i]
  OBVIOUS
<1>3. DOMAIN t = 1..(Len(s) + 1) /\ DOMAIN s = 1..Len(s)
  BY <1>1
<1> HIDE DEF t
<1>4. ToSet(t) = ToSet(s) \cup {e}
  BY <1>1, <1>2, <1>3 DEF ToSet
<1> QED
  BY <1>4 DEF t

(* The set of a sequence is finite.                                        *)
LEMMA SetOfSeqIsFinite ==
  ASSUME NEW S, NEW s \in Seq(S)
  PROVE  IsFiniteSet(ToSet(s))
<1>1. s \in Surjection(1..Len(s), ToSet(s))
  BY DEF Surjection, ToSet
<1> QED
  BY <1>1, FS_Interval, FS_Surjection

(* Every step of main() and of the constructor keeps it.                   *)
LEMMA RegistryStep == RInv /\ RegistryNext => RInv'
<1> SUFFICES ASSUME RInv, RegistryNext PROVE RInv'
  OBVIOUS
<1>0. UNCHANGED <<coins, linkName>> /\ CoinParts' = CoinParts /\ ServerParts' = ServerParts
  BY DEF RegistryNext, BuildBackend, SortBackends, LinkInstance, BuildServer, CoinParts,
    ServerParts
<1>1. CASE BuildBackend
  <2> DEFINE k == Len(backends) + 1
  <2>1. k \in 1..Len(coins) /\ backends' = Append(backends, OfCoin(k)) /\ stage = "build"
    BY <1>1 DEF BuildBackend, RInv
  <2>2. OfCoin(k) \in CoinParts
    BY <2>1 DEF CoinParts
  <2>3. backends' \in Seq(CoinParts) /\ Len(backends') = k
    BY <2>1, <2>2 DEF RInv
  <2>4. ToSet(backends') = {OfCoin(j) : j \in 1..k}
    <3>1. ToSet(backends') = {OfCoin(j) : j \in 1..Len(backends)} \cup {OfCoin(k)}
      BY <2>1, <2>2, SetOfAppend DEF RInv
    <3>2. Len(backends) \in Nat
      BY DEF RInv
    <3>3. 1..k = 1..Len(backends) \cup {k}
      BY <3>2
    <3> HIDE DEF k
    <3> QED
      BY <3>1, <3>3
  <2>5. OfAlgorithm(Algorithm[coins[k]]) \in ServerParts
    <3>1. coins \in Seq(CoinNames)
      BY DEF RInv
    <3>2. coins[k] \in CoinNames
      BY <2>1, <3>1
    <3> QED
      BY <3>2, RegistryAssumption DEF ServerParts
  <2>6. servers' \in Seq(ServerParts)
    BY <1>1, <2>5 DEF BuildBackend, RInv
  <2> HIDE DEF k
  <2> QED
    BY <1>0, <1>1, <2>1, <2>3, <2>4, <2>6
      DEF BuildBackend, RInv, LinkedAsConfigured, NameOf, Parts, Stages
<1>2. CASE SortBackends
  <2>1. stage = "build" /\ Len(backends) = Len(coins) /\ ToSet(backends) = CoinParts
    BY <1>2 DEF SortBackends, RInv, CoinParts
  <2>2. IsFiniteSet(CoinParts)
    BY <2>1, SetOfSeqIsFinite DEF RInv
  <2>3. backends' \in Seq(CoinParts) /\ ToSet(backends') = CoinParts /\ Sorted(backends')
    BY <1>2, <2>1, <2>2, SortSorts DEF SortBackends
  <2> QED
    BY <1>0, <1>2, <2>1, <2>3
      DEF SortBackends, RInv, LinkedAsConfigured, NameOf, Parts, Stages, Sorted
<1>3. CASE LinkInstance
  <2>1. linkName = NoName => linked' = Nobody
    BY <1>3 DEF LinkInstance
  <2>2. /\ linked' = Nobody /\ linkName # NoName => \A p \in CoinParts : NameOf(p) # linkName
        /\ linked' # Nobody => linked' \in CoinParts /\ NameOf(linked') = linkName
    <3>1. backends \in Seq(Parts)
      BY DEF RInv, Parts
    <3> QED
      BY <1>3, <2>1, <3>1, LookupFinds DEF LinkInstance, RInv
  <2> QED
    BY <1>0, <1>3, <2>1, <2>2
      DEF LinkInstance, RInv, LinkedAsConfigured, NameOf, Parts, Stages, Sorted
<1>4. CASE BuildServer
  <2>1. stage = "http" /\ ToSet(backends) = CoinParts
    BY <1>4 DEF BuildServer, RInv
  <2>2. IsFiniteSet(CoinParts) /\ IsFiniteSet(ToSet(servers))
    BY <2>1, SetOfSeqIsFinite DEF RInv
  <2>3. IsFiniteSet(CoinParts \cup ToSet(servers))
    BY <2>2, FS_Union
  <2>4. CoinParts \cup ToSet(servers) \subseteq Parts
    BY DEF RInv, Parts, ToSet
  <2>5. Backends_' \in Seq(CoinParts) /\ ToSet(Backends_') = CoinParts /\ Sorted(Backends_')
    BY <1>4, <2>1, <2>2, SortSorts DEF BuildServer
  <2>6. /\ Statistic_' \in Seq(CoinParts \cup ToSet(servers))
        /\ ToSet(Statistic_') = CoinParts \cup ToSet(servers) /\ Sorted(Statistic_')
    BY <1>4, <2>1, <2>3, SortSorts DEF BuildServer
  <2>7. Statistic_' \in Seq(Parts)
    BY <2>4, <2>6
  <2> QED
    BY <1>0, <1>4, <2>1, <2>5, <2>6, <2>7
      DEF BuildServer, RInv, LinkedAsConfigured, NameOf, Parts, Stages, Sorted
<1> QED
  BY <1>1, <1>2, <1>3, <1>4 DEF RegistryNext

-----------------------------------------------------------------------------
(* The requests.                                                           *)

(* The three functions and how each looks up its part.                     *)
LEMMA FunctionsAre ==
  /\ Functions = {"userLogin", "backendManualPayout", "userEnumerateAll"}
  /\ FunctionNameMap_["userLogin"] = "none"
  /\ FunctionNameMap_["backendManualPayout"] = "backend"
  /\ FunctionNameMap_["userEnumerateAll"] = "statistic"
BY DEF Functions, FunctionNameMap_

Asked(tokens) == IF tokens = <<>> THEN DefaultCoin ELSE tokens[1]

(* The coin that an object names is a name.                                *)
LEMMA AskedIsName ==
  ASSUME NEW tokens \in Seq(Tokens), IsObject(tokens)
  PROVE  Asked(tokens) \in Names
<1>1. CASE tokens = <<>>
  BY <1>1, RoutingAssumption DEF Asked
<1>2. CASE tokens # <<>>
  <2>1. tokens[1] \in Tokens /\ tokens[1] # End
    BY <1>2 DEF IsObject
  <2> QED
    BY <1>2, <2>1, RegistryAssumption DEF Asked, Tokens
<1> QED
  BY <1>1, <1>2

(* A handler takes the part of the coin asked for, or says there is none.  *)
LEMMA HandledIs ==
  ASSUME RInv, stage = "serve", NEW f \in Functions,
         NEW tokens \in Seq(Tokens), IsObject(tokens)
  PROVE  LET o == Handled(f, tokens)
         IN  \/ /\ o = Outcome("handled", f, Nobody) /\ FunctionNameMap_[f] = "none"
             \/ /\ o = Outcome("handled", f, o.part) /\ FunctionNameMap_[f] # "none"
                /\ o.part \in Eligible(f) /\ NameOf(o.part) = Asked(tokens)
             \/ /\ o = Status("json_format_error") /\ tokens = <<>>
                /\ FunctionNameMap_[f] = "backend"
             \/ /\ o = Status("invalid_coin") /\ FunctionNameMap_[f] # "none"
                /\ \A p \in Eligible(f) : NameOf(p) # Asked(tokens)
<1> DEFINE name == Asked(tokens)
<1>1. name \in Names
  BY AskedIsName
<1>2. CASE f = "userLogin"
  BY <1>2, FunctionsAre DEF Handled
<1>3. CASE f = "backendManualPayout" /\ tokens = <<>>
  BY <1>3, FunctionsAre DEF Handled
<1>4. CASE f = "backendManualPayout" /\ tokens # <<>>
  <2> DEFINE part == backend(name)
  <2>1. Handled(f, tokens) = Found(f, part) /\ Eligible(f) = CoinParts
    BY <1>4, FunctionsAre DEF Handled, Eligible, Asked
  <2>2. /\ part = Nobody => \A p \in CoinParts : NameOf(p) # name
        /\ part # Nobody => part \in CoinParts /\ NameOf(part) = name
    <3>1. Backends_ \in Seq(Parts)
      BY DEF RInv, Parts
    <3> QED
      BY <1>1, <3>1, LookupFinds DEF RInv, backend
  <2> HIDE DEF part, name
  <2>3. CASE part = Nobody
    BY <1>4, <2>1, <2>2, <2>3, FunctionsAre DEF Found, name
  <2>4. CASE part # Nobody
    BY <1>4, <2>1, <2>2, <2>4, FunctionsAre DEF Found, Outcome, name
  <2> QED
    BY <2>3, <2>4
<1>5. CASE f = "userEnumerateAll"
  <2> DEFINE part == statisticDb(name)
  <2>1. Handled(f, tokens) = Found(f, part) /\ Eligible(f) = CoinParts \cup ToSet(servers)
    BY <1>5, FunctionsAre DEF Handled, Eligible, Asked
  <2>2. /\ part = Nobody => \A p \in CoinParts \cup ToSet(servers) : NameOf(p) # name
        /\ part # Nobody => part \in CoinParts \cup ToSet(servers) /\ NameOf(part) = name
    BY <1>1, LookupFinds DEF RInv, statisticDb
  <2> HIDE DEF part, name
  <2>3. CASE part = Nobody
    BY <1>5, <2>1, <2>2, <2>3, FunctionsAre DEF Found, name
  <2>4. CASE part # Nobody
    BY <1>5, <2>1, <2>2, <2>4, FunctionsAre DEF Found, Outcome, name
  <2> QED
    BY <2>3, <2>4
<1> QED
  BY <1>2, <1>3, <1>4, <1>5, FunctionsAre

-----------------------------------------------------------------------------
(* The types of a request, and what function stands for in each phase.     *)
RequestTyped ==
  /\ phase \in {"idle", "uri", "data", "done", "closed"}
  /\ number \in 0..MaxRequests
  /\ method \in {"hmUnknown", "hmGet", "hmPost"}
  /\ function \in Functions \cup {"fnUnknown", "fnApi"}
  /\ Request \in Seq(Tokens) /\ text \in Seq(Tokens) /\ path \in Seq(Elements)
  /\ Len(path) <= MaxPath /\ Len(text) <= MaxTokens

\* Between requests nothing of a body is there before the first.
Bodies ==
  /\ phase = "idle" <=> number = 0
  /\ number = 0 => text = <<>>
  /\ number \in {0, 1} => Request = text

\* function is what the path, as far as it was read, stands for.
PathRead ==
  phase # "closed" =>
    /\ function = "fnUnknown" => path = <<>>
    /\ function = "fnApi" => path = <<"api">>
    /\ function \in Functions => path = <<"api", function>> /\ method = "hmPost"

\* The outcomes a request can have.
Outcomes ==
  \/ outcome = Pending /\ phase \in {"idle", "uri", "data"}
  \/ outcome = Status("404") /\ phase = "closed"
  \/ /\ phase = "done"
     /\ \/ outcome = Status("invalid_json")
        \/ outcome = Status("json_format_error")
        \/ outcome = Status("invalid_coin") /\ function \in Functions
        \/ /\ function \in Functions
           /\ \E part \in Parts \cup {Nobody} :
                /\ part \in CoinParts \cup ToSet(servers) \cup {Nobody}
                /\ outcome = Outcome("handled", function, part)

QInv ==
  /\ RInv /\ RequestTyped /\ Bodies /\ PathRead /\ Outcomes
  /\ stage # "serve" => phase = "idle"
  /\ RoutedAsAsked /\ RefusedForCause

(* Before the server runs there is no request that main() could disturb.   *)
LEMMA RegistryKeeps == QInv /\ RegistryNext /\ UNCHANGED routingVars => QInv'
<1> SUFFICES ASSUME QInv, RegistryNext, UNCHANGED routingVars PROVE QInv'
  OBVIOUS
<1>1. RInv'
  BY RegistryStep DEF QInv
<1>2. stage # "serve" /\ phase = "idle" /\ outcome = Pending
  BY DEF QInv, RegistryNext, BuildBackend, SortBackends, LinkInstance, BuildServer, Outcomes
<1>3. /\ phase' = phase /\ number' = number /\ method' = method /\ function' = function
      /\ Request' = Request /\ outcome' = outcome /\ path' = path /\ text' = text
  BY DEF routingVars
<1>4. RequestTyped' /\ Bodies' /\ PathRead' /\ Outcomes'
  BY <1>2, <1>3 DEF QInv, RequestTyped, Bodies, PathRead, Outcomes, Pending
<1>5. RoutedAsAsked' /\ RefusedForCause'
  BY <1>2, <1>3 DEF RoutedAsAsked, RefusedForCause, Pending, Status, Outcome
<1> QED
  BY <1>1, <1>2, <1>3, <1>4, <1>5 DEF QInv

(* What does not concern the registry leaves its invariant alone.          *)
LEMMA ServingKeeps ==
  ASSUME RInv, Serving
  PROVE  /\ RInv' /\ stage' = "serve" /\ CoinParts' = CoinParts /\ servers' = servers
         /\ \A p : NameOf(p)' = NameOf(p)
         /\ \A f : Eligible(f)' = Eligible(f)
<1>1. /\ coins' = coins /\ linkName' = linkName /\ stage' = stage /\ servers' = servers
      /\ backends' = backends /\ linked' = linked
      /\ Backends_' = Backends_ /\ Statistic_' = Statistic_ /\ stage = "serve"
  BY DEF Serving, registryVars
<1> QED
  BY <1>1 DEF RInv, CoinParts, Sorted, NameOf, Parts, LinkedAsConfigured, Eligible

(* A new request has no path, no function and no outcome ...               *)
LEMMA MethodKeeps ==
  ASSUME QInv, NEW m \in {"hmGet", "hmPost"}, Method(m) PROVE QInv'
<1>1. /\ phase \in {"idle", "done"} /\ number < MaxRequests
      /\ method' = m /\ function' = "fnUnknown" /\ phase' = "uri" /\ number' = number + 1
      /\ outcome' = Pending /\ path' = <<>> /\ text' = <<>> /\ Request' = Request
  BY DEF Method
<1>2. RInv' /\ stage' = "serve"
  BY ServingKeeps DEF Method, QInv
<1>3. RequestTyped'
  BY <1>1, RoutingAssumption DEF QInv, RequestTyped
<1>4. Bodies' /\ PathRead'
  BY <1>1, FunctionsAre DEF QInv, RequestTyped, Bodies, PathRead
<1>5. Outcomes'
  BY <1>1 DEF Outcomes, Pending
<1>6. RoutedAsAsked' /\ RefusedForCause'
  BY <1>1 DEF RoutedAsAsked, RefusedForCause, Pending, Status, Outcome
<1> QED
  BY <1>2, <1>3, <1>4, <1>5, <1>6 DEF QInv

(* A path grows by an element.                                             *)
LEMMA PathGrows ==
  ASSUME NEW a, NEW b, NEW c
  PROVE  Append(<<a>>, b) = <<a, b>> /\ Append(<<a, b>>, c) = <<a, b, c>>
<1> DEFINE S == {a, b, c}
<1>1. <<a>> \in Seq(S) /\ <<a, b>> \in Seq(S) /\ <<a, b, c>> \in Seq(S)
  OBVIOUS
<1>2. Append(<<a>>, b) = <<a, b>>
  <2>1. Append(<<a>>, b) \in Seq(S)
    BY <1>1
  <2>2. Len(Append(<<a>>, b)) = 2 /\ \A i \in 1..2 : Append(<<a>>, b)[i] = <<a, b>>[i]
    BY <1>1
  <2> QED
    BY <1>1, <2>1, <2>2, SeqEqual
<1>3. Append(<<a, b>>, c) = <<a, b, c>>
  <2>1. Append(<<a, b>>, c) \in Seq(S)
    BY <1>1
  <2>2. /\ Len(Append(<<a, b>>, c)) = 3
        /\ \A i \in 1..3 : Append(<<a, b>>, c)[i] = <<a, b, c>>[i]
    BY <1>1
  <2> QED
    BY <1>1, <2>1, <2>2, SeqEqual
<1> QED
  BY <1>2, <1>3

(* ... its path leads to a function only by api and the function's name ...*)
LEMMA PathElementKeeps ==
  ASSUME QInv, NEW e \in Elements, PathElement(e) PROVE QInv'
<1>1. /\ phase = "uri" /\ path' = Append(path, e) /\ Len(path) < MaxPath
      /\ number' = number /\ method' = method /\ Request' = Request /\ text' = text
  BY DEF PathElement
<1>2. RInv' /\ stage' = "serve"
  BY ServingKeeps DEF PathElement, QInv
<1>3. path' \in Seq(Elements) /\ Len(path') <= MaxPath
  BY <1>1, RoutingAssumption DEF QInv, RequestTyped
<1>4. outcome = Pending
  BY <1>1, FunctionsAre DEF QInv, Outcomes
<1>5. CASE function = "fnUnknown" /\ e = "api" /\ function' = "fnApi" /\ UNCHANGED <<phase, outcome>>
  <2>1. path' = <<"api">>
    BY <1>1, <1>5, FunctionsAre DEF QInv, PathRead
  <2>2. RequestTyped' /\ Bodies' /\ PathRead'
    BY <1>1, <1>3, <1>5, <2>1, FunctionsAre DEF QInv, RequestTyped, Bodies, PathRead
  <2>3. Outcomes' /\ RoutedAsAsked' /\ RefusedForCause'
    BY <1>1, <1>4, <1>5 DEF Outcomes, RoutedAsAsked, RefusedForCause, Pending, Status, Outcome
  <2> QED
    BY <1>2, <2>2, <2>3 DEF QInv
<1>6. CASE function = "fnApi" /\ e \in Functions /\ method = "hmPost" /\ function' = e
           /\ UNCHANGED <<phase, outcome>>
  <2>1. path' = <<"api", e>>
    <3>1. path = <<"api">>
      BY <1>1, <1>6 DEF QInv, PathRead
    <3> QED
      BY <1>1, <3>1, PathGrows, Zenon
  <2>2. RequestTyped' /\ Bodies' /\ PathRead'
    BY <1>1, <1>3, <1>6, <2>1, FunctionsAre DEF QInv, RequestTyped, Bodies, PathRead
  <2>3. Outcomes' /\ RoutedAsAsked' /\ RefusedForCause'
    BY <1>1, <1>4, <1>6 DEF Outcomes, RoutedAsAsked, RefusedForCause, Pending, Status, Outcome
  <2> QED
    BY <1>2, <2>2, <2>3 DEF QInv
<1>7. CASE /\ ~(function = "fnUnknown" /\ e = "api")
           /\ ~(function = "fnApi" /\ e \in Functions /\ method = "hmPost")
           /\ phase' = "closed" /\ outcome' = Status("404") /\ function' = function
  <2>1. method = "hmPost" => \A f \in Functions : path' # <<"api", f>>
    <3>1. CASE function = "fnUnknown"
      <4>1. path' = <<e>>
        BY <1>1, <3>1, FunctionsAre DEF QInv, PathRead
      <4> QED
        BY <4>1
    <3>2. CASE function = "fnApi"
      <4>1. path = <<"api">>
        BY <1>1, <3>2 DEF QInv, PathRead
      <4>2. path' = <<"api", e>>
        BY <1>1, <4>1, PathGrows, Zenon
      <4> QED
        BY <1>7, <3>2, <4>2
    <3>3. CASE function \in Functions
      <4>1. path = <<"api", function>>
        BY <1>1, <3>3 DEF QInv, PathRead
      <4>2. path' = <<"api", function, e>>
        BY <1>1, <4>1, PathGrows, Zenon
      <4> QED
        BY <4>2
    <3> QED
      BY <3>1, <3>2, <3>3 DEF QInv, RequestTyped
  <2>2. RequestTyped' /\ Bodies' /\ PathRead' /\ Outcomes'
    BY <1>1, <1>3, <1>7 DEF QInv, RequestTyped, Bodies, PathRead, Outcomes
  <2>3. RoutedAsAsked' /\ RefusedForCause'
    BY <1>1, <1>7, <2>1 DEF RoutedAsAsked, RefusedForCause, Status, Outcome
  <2> QED
    BY <1>2, <2>2, <2>3 DEF QInv
<1> QED
  BY <1>5, <1>6, <1>7 DEF PathElement

(* ... its body grows behind what an earlier request left ...              *)
LEMMA DataKeeps ==
  ASSUME QInv, NEW token \in Tokens, Data(token) PROVE QInv'
<1>1. /\ phase \in {"uri", "data"} /\ phase' = "data" /\ Len(text) < MaxTokens
      /\ Request' = Append(Request, token) /\ text' = Append(text, token)
      /\ number' = number /\ method' = method /\ function' = function
      /\ outcome' = outcome /\ path' = path
  BY DEF Data
<1>2. RInv' /\ stage' = "serve"
  BY ServingKeeps DEF Data, QInv
<1>3. RequestTyped'
  BY <1>1, RoutingAssumption DEF QInv, RequestTyped
<1>4. Bodies' /\ PathRead'
  BY <1>1 DEF QInv, Bodies, PathRead
<1>5. outcome = Pending
  BY <1>1 DEF QInv, Outcomes
<1>6. Outcomes' /\ RoutedAsAsked' /\ RefusedForCause'
  BY <1>1, <1>5 DEF Outcomes, RoutedAsAsked, RefusedForCause, Pending, Status, Outcome
<1> QED
  BY <1>2, <1>3, <1>4, <1>6 DEF QInv

(* ... and its end decides on what has come.                               *)
LEMMA DataLastKeeps ==
  ASSUME QInv, NEW tokens \in Seq(Tokens), DataLast(tokens) PROVE QInv'
<1>1. /\ phase \in {"uri", "data"} /\ Len(text \o tokens) <= MaxTokens
      /\ Request' = Request \o tokens /\ text' = text \o tokens
      /\ number' = number /\ method' = method /\ function' = function /\ path' = path
      /\ stage = "serve"
  BY DEF DataLast, Serving
<1>2. RInv' /\ stage' = "serve"
  BY ServingKeeps DEF DataLast, QInv
<1>3. /\ CoinParts' = CoinParts /\ servers' = servers
      /\ \A p : NameOf(p)' = NameOf(p)
      /\ \A f : Eligible(f)' = Eligible(f)
  BY ServingKeeps DEF DataLast, QInv
<1>4. Request' \in Seq(Tokens) /\ text' \in Seq(Tokens)
  BY <1>1 DEF QInv, RequestTyped
<1>5. number \in 1..MaxRequests /\ (number = 1 => Request' = text')
  <2>1. number \in 1..MaxRequests /\ (number = 1 => Request = text)
    BY <1>1, RoutingAssumption DEF QInv, RequestTyped, Bodies
  <2> QED
    BY <1>1, <2>1
<1>6. /\ function = "fnUnknown" => path = <<>>
      /\ function = "fnApi" => path = <<"api">>
      /\ function \in Functions => path = <<"api", function>> /\ method = "hmPost"
  BY <1>1 DEF QInv, PathRead
<1>7. RequestTyped' /\ Bodies' /\ PathRead'
  <2>1. phase' \in {"done", "closed"}
    BY DEF DataLast
  <2> QED
    BY <1>1, <1>4, <1>5, <1>6, <2>1 DEF QInv, RequestTyped, Bodies, PathRead
<1>8. CASE ~IsObject(Request')
  <2>1. outcome' = Status("invalid_json") /\ phase' = "done"
    BY <1>8 DEF DataLast, Status, Outcome
  <2>2. Outcomes'
    BY <2>1 DEF Outcomes
  <2>3. RoutedAsAsked' /\ RefusedForCause'
    BY <1>8, <2>1 DEF RoutedAsAsked, RefusedForCause, Status, Outcome, OwnBody
  <2> QED
    BY <1>2, <1>7, <2>2, <2>3 DEF QInv
<1>9. CASE IsObject(Request') /\ function \notin Functions
  <2>1. outcome' = Status("404") /\ phase' = "closed"
    BY <1>9 DEF DataLast, Status, Outcome
  <2>2. \A f \in Functions : path # <<"api", f>>
    <3>1. path = <<>> \/ path = <<"api">>
      BY <1>6, <1>9 DEF QInv, RequestTyped
    <3> QED
      BY <3>1
  <2>3. Outcomes'
    BY <2>1 DEF Outcomes
  <2>4. RoutedAsAsked' /\ RefusedForCause'
    BY <1>1, <2>1, <2>2 DEF RoutedAsAsked, RefusedForCause, Status, Outcome
  <2> QED
    BY <1>2, <1>7, <2>3, <2>4 DEF QInv
<1>10. CASE IsObject(Request') /\ function \in Functions
  <2>1. PICK f \in Functions : f = function /\ f = function'
    BY <1>1, <1>10
  <2>2. PICK o : o = Handled(f, Request')
    OBVIOUS
  <2>3. PICK part : part = o.part
    OBVIOUS
  <2>4. /\ Request' = text' => Asked(Request') = AskedCoin'
        /\ path' = <<"api", f>> /\ method' = "hmPost"
    BY <1>1, <1>6, <1>10, <2>1 DEF Asked, AskedCoin
  <2>5. \/ o = Outcome("handled", f, Nobody) /\ FunctionNameMap_[f] = "none"
        \/ /\ o = Outcome("handled", f, part) /\ FunctionNameMap_[f] # "none"
           /\ part \in Eligible(f) /\ NameOf(part) = Asked(Request')
        \/ /\ o = Status("json_format_error") /\ Request' = <<>>
           /\ FunctionNameMap_[f] = "backend"
        \/ /\ o = Status("invalid_coin") /\ FunctionNameMap_[f] # "none"
           /\ \A p \in Eligible(f) : NameOf(p) # Asked(Request')
    BY <1>1, <1>4, <1>10, <2>2, <2>3, HandledIs DEF QInv
  <2>6. outcome' = o /\ phase' = "done"
    <3>1. outcome' = o /\ (phase' = IF o.status = "404" THEN "closed" ELSE "done")
      BY <1>10, <2>1, <2>2 DEF DataLast
    <3> QED
      BY <2>5, <3>1 DEF Status, Outcome
  <2>7. CASE o = Outcome("handled", f, Nobody) /\ FunctionNameMap_[f] = "none"
    <3>1. Outcomes'
      BY <2>1, <2>6, <2>7 DEF Outcomes
    <3>2. RoutedAsAsked' /\ RefusedForCause'
      BY <1>1, <1>5, <2>4, <2>6, <2>7 DEF RoutedAsAsked, RefusedForCause, OwnBody, Outcome
    <3> QED
      BY <1>2, <1>7, <3>1, <3>2 DEF QInv
  <2>8. CASE /\ o = Outcome("handled", f, part) /\ FunctionNameMap_[f] # "none"
             /\ part \in Eligible(f) /\ NameOf(part) = Asked(Request')
    <3>1. part \in CoinParts \cup ToSet(servers)
      BY <2>8 DEF Eligible
    <3>2. part \in Parts
      BY <3>1 DEF Parts, ToSet, QInv, RInv
    <3>3. part \in Eligible(f)' /\ NameOf(part)' = Asked(Request')
      BY <1>3, <2>8
    <3>4. Outcomes'
      BY <1>3, <2>1, <2>6, <2>8, <3>1, <3>2 DEF Outcomes, Parts, ServerParts
    <3>5. RoutedAsAsked' /\ RefusedForCause'
      BY <1>1, <1>5, <2>4, <2>6, <2>8, <3>3
        DEF RoutedAsAsked, RefusedForCause, OwnBody, Outcome
    <3> QED
      BY <1>2, <1>7, <3>4, <3>5 DEF QInv
  <2>9. CASE o = Status("json_format_error") /\ Request' = <<>>
    <3>1. Outcomes'
      BY <2>6, <2>9 DEF Outcomes
    <3>2. RoutedAsAsked' /\ RefusedForCause'
      BY <2>6, <2>9 DEF RoutedAsAsked, RefusedForCause, OwnBody, Status, Outcome
    <3> QED
      BY <1>2, <1>7, <3>1, <3>2 DEF QInv
  <2>10. CASE /\ o = Status("invalid_coin") /\ FunctionNameMap_[f] # "none"
              /\ \A p \in Eligible(f) : NameOf(p) # Asked(Request')
    <3>1. Outcomes'
      BY <2>1, <2>6, <2>10 DEF Outcomes
    <3>2. \A p : p \in Eligible(f)' => NameOf(p)' # Asked(Request')
      BY <1>3, <2>10
    <3>3. RoutedAsAsked'
      BY <2>6, <2>10 DEF RoutedAsAsked, Status, Outcome
    <3>4. RefusedForCause'
      BY <2>1, <2>4, <2>6, <2>10, <3>2 DEF RefusedForCause, OwnBody, Status, Outcome
    <3> QED
      BY <1>2, <1>7, <3>1, <3>3, <3>4 DEF QInv
  <2> QED
    BY <2>5, <2>7, <2>8, <2>9, <2>10
<1> QED
  BY <1>8, <1>9, <1>10

(* The invariant holds at the start and is kept.                           *)
LEMMA RoutingInvHolds == Spec => []QInv
<1>1. Init => QInv
  <2> SUFFICES ASSUME Init PROVE QInv
    OBVIOUS
  <2>1. coins \in Seq(CoinNames)
    BY SeqDef, RegistryAssumption DEF Init, RegistryInit
  <2>2. RInv
    BY <2>1 DEF Init, RegistryInit, RInv, Stages, ToSet, LinkedAsConfigured
  <2>3. RequestTyped /\ Bodies /\ PathRead /\ Outcomes
    BY FunctionsAre, RoutingAssumption
      DEF Init, RequestTyped, Bodies, PathRead, Outcomes
  <2>4. RoutedAsAsked /\ RefusedForCause
    BY DEF Init, RoutedAsAsked, RefusedForCause, Pending, Status, Outcome
  <2> QED
    BY <2>2, <2>3, <2>4 DEF QInv, Init
<1>2. QInv /\ [Next]_vars => QInv'
  <2> SUFFICES ASSUME QInv, [Next]_vars PROVE QInv'
    OBVIOUS
  <2>1. CASE UNCHANGED vars
    <3>1. /\ coins' = coins /\ linkName' = linkName /\ stage' = stage /\ servers' = servers
          /\ backends' = backends /\ linked' = linked
          /\ Backends_' = Backends_ /\ Statistic_' = Statistic_
          /\ phase' = phase /\ number' = number /\ method' = method /\ function' = function
          /\ Request' = Request /\ outcome' = outcome /\ path' = path /\ text' = text
      BY <2>1 DEF vars, registryVars, routingVars
    <3>2. RInv'
      <4>1. LinkedAsConfigured'
        BY <3>1 DEF QInv, RInv, CoinParts, NameOf, LinkedAsConfigured
      <4> QED
        BY <3>1, <4>1 DEF QInv, RInv, CoinParts, Sorted, NameOf, Parts
    <3>3. RequestTyped' /\ Bodies' /\ PathRead' /\ Outcomes'
      BY <3>1 DEF QInv, RequestTyped, Bodies, PathRead, Outcomes, Parts, CoinParts
    <3>4. RoutedAsAsked' /\ RefusedForCause'
      BY <3>1 DEF QInv, RoutedAsAsked, RefusedForCause, CoinParts, NameOf, Eligible, OwnBody,
        AskedCoin
    <3> QED
      BY <3>1, <3>2, <3>3, <3>4 DEF QInv
  <2>2. ASSUME NEW token \in Tokens, DataLast(<<token>>) PROVE QInv'
    <3>1. <<token>> \in Seq(Tokens)
      OBVIOUS
    <3> QED
      BY <2>2, <3>1, DataLastKeeps
  <2>3. ASSUME DataLast(<<>>) PROVE QInv'
    <3>1. <<>> \in Seq(Tokens)
      OBVIOUS
    <3> QED
      BY <2>3, <3>1, DataLastKeeps
  <2> QED
    BY <2>1, <2>2, <2>3, RegistryKeeps, MethodKeeps, PathElementKeeps, DataKeeps
      DEF Next, Finished
<1> QED
  BY <1>1, <1>2, PTL DEF Spec

(* The configuration does not change.                                      *)
CoinsBounded == coins \in UNION {[1..k -> CoinNames] : k \in 0..MaxCoins}

(* The configuration does not change.                                      *)
LEMMA CoinsStay == Spec => []CoinsBounded
<1>1. Init => CoinsBounded
  BY DEF Init, RegistryInit, CoinsBounded
<1>2. [Next]_vars => UNCHANGED coins
  BY DEF Next, vars, registryVars, RegistryNext, BuildBackend, SortBackends, LinkInstance,
    BuildServer, Method, PathElement, Data, DataLast, Serving, Finished
<1>3. CoinsBounded /\ UNCHANGED coins => CoinsBounded'
  BY DEF CoinsBounded
<1> QED
  BY <1>1, <1>2, <1>3, PTL DEF Spec

(* Every variable has its type; bodies and paths stay within their bounds. *)
THEOREM RoutingTypeCorrect == Spec => []TypeOK
<1>1. QInv /\ CoinsBounded => TypeOK
  <2> SUFFICES ASSUME QInv, CoinsBounded PROVE TypeOK
    OBVIOUS
  <2>1. RegistryTypeOK
    BY DEF QInv, RInv, RegistryTypeOK, CoinsBounded, ToSet, Parts
  <2>2. /\ outcome.status \in {"none", "404", "invalid_json", "json_format_error",
                               "invalid_coin", "handled"}
        /\ outcome.function \in Functions \cup {"fnUnknown"}
        /\ outcome.part \in CoinParts \cup ServerParts \cup {Nobody}
    BY DEF QInv, Outcomes, Pending, Status, Outcome, Parts
  <2> QED
    BY <2>1, <2>2 DEF TypeOK, QInv, RequestTyped
<1> QED
  BY <1>1, CoinsStay, RoutingInvHolds, PTL

(* An instance that names a coin is linked with a backend of that coin     *)
(* before the HTTP server is built, or the program ends because there is   *)
(* none, whatever coins are configured, duplicates included.               *)
THEOREM LinkedAsConfiguredHolds == Spec => []LinkedAsConfigured
BY RoutingInvHolds, PTL DEF QInv, RInv

(* A request is handled by the function its path names and with the part   *)
(* whose name its body has.                                                *)
THEOREM RoutedAsAskedHolds == Spec => []RoutedAsAsked
BY RoutingInvHolds, PTL DEF QInv

(* What is refused is unknown or malformed.                                *)
THEOREM RefusedForCauseHolds == Spec => []RefusedForCause
BY RoutingInvHolds, PTL DEF QInv
=============================================================================
