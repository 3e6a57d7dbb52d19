---------------------------- MODULE CoinRegistry ----------------------------
(***************************************************************************)
(* Who has which name: main() (src/src/main.cpp) makes a backend for every *)
(* coin and a statistic server for every algorithm, sorts the backends by  *)
(* name and looks up those an instance is linked with; the constructor of  *)
(* PoolHttpServer copies both and sorts the copies, in which the handlers  *)
(* look up the part for a request (src/src/http.h).                        *)
(*                                                                         *)
(* Names are numbers, of which only the order counts.  Nothing refuses a   *)
(* coin that is configured twice, or a coin with the name of an algorithm. *)
(* std::sort may leave equal names in any order.                           *)
(***************************************************************************)
EXTENDS Integers, Sequences, SequencesExt

CONSTANTS
  Names,      \* the names of coins and algorithms
  CoinNames,  \* those a coin can have
  Algorithm,  \* coin name -> name of its algorithm
  MaxCoins    \* bound: coins of a configuration

ASSUME RegistryAssumption ==
  /\ Names \subseteq Nat /\ CoinNames \subseteq Names
  /\ Algorithm \in [CoinNames -> Names]
  /\ MaxCoins \in Nat \ {0}

VARIABLES
  coins,       \* configuration: the names of the coins
  linkName,    \* configuration: a name in the backends of an instance, or NoName
  stage,       \* next step of main(), "serve" at the end, or "failed"
  servers,     \* AlgoMetaStatistic, in the order of creation
  backends,    \* Backends of main()
  linked,      \* the backend the instance is linked with
  Backends_,   \* those of PoolHttpServer
  Statistic_
registryVars == <<coins, linkName, stage, servers, backends, linked, Backends_, Statistic_>>

OfCoin(k) == <<"coin", k>>
OfAlgorithm(a) == <<"algorithm", a>>
Nobody == <<"nobody", 0>>
NoName == -1
NameOf(part) == IF part[1] = "coin" THEN coins[part[2]] ELSE part[2]

CoinParts == {OfCoin(k) : k \in 1..Len(coins)}
ServerParts == {OfAlgorithm(a) : a \in Names}
Stages == {"build", "link", "http", "serve", "failed"}

RegistryTypeOK ==
  /\ coins \in UNION {[1..k -> CoinNames] : k \in 0..MaxCoins}
  /\ linkName \in Names \cup {NoName}
  /\ stage \in Stages
  /\ ToSet(servers) \subseteq ServerParts
  /\ ToSet(backends) \subseteq CoinParts
  /\ linked \in CoinParts \cup {Nobody}
  /\ ToSet(Backends_) \subseteq CoinParts
  /\ ToSet(Statistic_) \subseteq CoinParts \cup ServerParts

RegistryInit ==
  /\ coins \in UNION {[1..k -> CoinNames] : k \in 0..MaxCoins}
  /\ linkName \in Names \cup {NoName}
  /\ stage = "build" /\ servers = <<>> /\ backends = <<>> /\ linked = Nobody
  /\ Backends_ = <<>> /\ Statistic_ = <<>>

-----------------------------------------------------------------------------
\* std::sort by name: any order of equal names.
SortedOrders(parts) ==
  {s \in SetToSeqs(parts) :
     \A i, j \in 1..Len(s) : i < j => NameOf(s[i]) <= NameOf(s[j])}

\* std::lower_bound: the first element whose name is not less.
LowerBound(parts, name) ==
  CHOOSE i \in 1..(Len(parts) + 1) :
    /\ \A j \in 1..(i - 1) : NameOf(parts[j]) < name
    /\ i <= Len(parts) => NameOf(parts[i]) >= name

\* Mutation: the name of the element found is not compared.
NearestName(parts, name) ==
  LET i == LowerBound(parts, name) IN IF i > Len(parts) THEN Nobody ELSE parts[i]

Lookup(parts, name) ==
  LET i == LowerBound(parts, name)
  IN IF i > Len(parts) THEN Nobody
     ELSE IF NameOf(parts[i]) # name THEN Nobody ELSE parts[i]

-----------------------------------------------------------------------------
BuildBackend ==
  /\ stage = "build" /\ Len(backends) < Len(coins)
  /\ LET k == Len(backends) + 1
         server == OfAlgorithm(Algorithm[coins[k]])
     IN /\ backends' = Append(backends, OfCoin(k))
        /\ servers' = IF server \in ToSet(servers) THEN servers ELSE Append(servers, server)
  /\ UNCHANGED <<coins, linkName, stage, linked, Backends_, Statistic_>>

\* Mutation: the backends stay in the order of the configuration.
KeepOrder ==
  /\ stage = "build" /\ Len(backends) = Len(coins)
  /\ stage' = "link"
  /\ UNCHANGED <<coins, linkName, servers, backends, linked, Backends_, Statistic_>>

SortBackends ==
  /\ stage = "build" /\ Len(backends) = Len(coins)
  /\ backends' \in SortedOrders(ToSet(backends))
  /\ stage' = "link"
  /\ UNCHANGED <<coins, linkName, servers, linked, Backends_, Statistic_>>

\* An instance without backends, or no instance, looks nothing up.
LinkInstance ==
  /\ stage = "link"
  /\ linked' = IF linkName = NoName THEN Nobody ELSE Lookup(backends, linkName)
  /\ stage' = IF linkName # NoName /\ linked' = Nobody THEN "failed" ELSE "http"
  /\ UNCHANGED <<coins, linkName, servers, backends, Backends_, Statistic_>>

\* Mutation: only the backends are sorted again, which are sorted anyway.
BuildServerUnsorted ==
  /\ stage = "http"
  /\ Backends_' \in SortedOrders(ToSet(backends))
  /\ Statistic_' = backends \o servers
  /\ stage' = "serve"
  /\ UNCHANGED <<coins, linkName, servers, backends, linked>>

BuildServer ==
  /\ stage = "http"
  /\ Backends_' \in SortedOrders(ToSet(backends))
  /\ Statistic_' \in SortedOrders(ToSet(backends) \cup ToSet(servers))
  /\ stage' = "serve"
  /\ UNCHANGED <<coins, linkName, servers, backends, linked>>

RegistryNext == BuildBackend \/ SortBackends \/ LinkInstance \/ BuildServer

-----------------------------------------------------------------------------
backend(name) == Lookup(Backends_, name)
statisticDb(name) == Lookup(Statistic_, name)

(* An instance that names a coin is linked with a backend of that coin     *)
(* before the HTTP server is built, and with no other; the program ends    *)
(* only if there is none (main.cpp:337-359).                               *)
LinkedAsConfigured ==
  /\ stage = "failed" => linkName # NoName /\ \A p \in CoinParts : NameOf(p) # linkName
  /\ stage \in {"http", "serve"} /\ linkName # NoName => linked # Nobody
  /\ linked # Nobody => NameOf(linked) = linkName
=============================================================================
