---------------------------- MODULE ConfigFields ----------------------------
(***************************************************************************)
(* What the load methods of src/src/config.cpp look at, in their order.    *)
(***************************************************************************)
EXTENDS Naturals, Sequences, Functions

CONSTANTS CoinsNum, InstancesNum, ItemsNum   \* bounds: sizes of the arrays

ASSUME SizesAssumption == CoinsNum \in Nat /\ InstancesNum \in Nat /\ ItemsNum \in Nat

(* A place: the object, the coin or instance and the element it is in, and *)
(* the name of the member.                                                 *)
SiblingOf(place, name) == [place EXCEPT ![4] = name]

One(object, i, j, kind, name) == <<[place |-> <<object, i, j, name>>, kind |-> kind]>>
Several(object, i, j, kind, names) ==
  [n \in 1..Len(names) |-> One(object, i, j, kind, names[n])[1]]

\* The elements of an array, one after the other, each with the same members.
Items(list, i, members) ==
  [n \in 1..(ItemsNum * Len(members)) |->
    LET j == ((n - 1) \div Len(members)) + 1
        member == members[((n - 1) % Len(members)) + 1]
    IN One(list, i, j, member.kind, member.name)[1]]
Required(name) == [kind |-> "required", name |-> name]
Optional(name) == [kind |-> "optional", name |-> name]

Frontend ==
  LET required(names) == Several("poolfrontend", 0, 0, "required", names)
      optional(names) == Several("poolfrontend", 0, 0, "optional", names)
  IN One("document", 0, 0, "document", "poolfrontend")
       \o required(<<"isMaster", "httpPort">>)
       \o optional(<<"workerThreadsNum", "httpThreadsNum", "adminPasswordHash",
                     "observerPasswordHash">>)
       \o required(<<"dbPath", "poolName", "poolHostProtocol", "poolHostAddress",
                     "poolActivateLinkPrefix", "poolChangePasswordLinkPrefix",
                     "poolActivate2faLinkPrefix", "poolDeactivate2faLinkPrefix",
                     "smtpEnabled", "smtpServer", "smtpLogin", "smtpPassword",
                     "smtpSenderAddress">>)
       \o optional(<<"smtpUseSmtps", "smtpUseStartTLS">>)

Node == <<Required("type"), Required("address"), Optional("login"), Optional("password"),
          Optional("wallet"), Optional("longPollEnabled")>>
Fee == <<Required("address"), Required("percentage")>>
MiningAddress == <<Required("address"), Optional("privateKey"), Required("weight")>>

Coin(i) ==
  LET required(names) == Several("coins", i, 0, "required", names)
      optional(names) == Several("coins", i, 0, "optional", names)
      array(name) == One("coins", i, 0, "array", name)
  IN required(<<"name">>) \o array("getWorkNodes") \o array("RPCNodes")
       \o Items("getWorkNodes", i, Node) \o Items("RPCNodes", i, Node)
       \o array("fees") \o Items("fees", i, Fee)
       \o required(<<"requiredConfirmations", "defaultPayoutThreshold",
                     "minimalAllowedPayout", "keepRoundTime", "keepStatsTime",
                     "confirmationsCheckInterval", "payoutInterval", "balanceCheckInterval",
                     "statisticCheckInterval", "shareTarget">>)
       \o optional(<<"stratumWorkLifeTime">>)
       \o One("coins", i, 0, "addresses", "miningAddresses")
       \o Items("miningAddresses", i, MiningAddress)
       \o optional(<<"coinbaseMsg", "profitSwitchCoeff", "pool_zaddr", "pool_taddr">>)

Instance(i) ==
  Several("instances", i, 0, "required", <<"name", "type", "protocol", "backends">>)
    \o One("instances", i, 0, "optional", "port")
    \o One("instances", i, 0, "shareDiff", "shareDiff")

LoadParts ==
  <<Frontend, One("document", 0, 0, "document", "coins")>>
    \o [i \in 1..CoinsNum |-> Coin(i)]
    \o <<One("document", 0, 0, "document", "instances")>>
    \o [i \in 1..InstancesNum |-> Instance(i)]

LoadSteps == UNION {Range(LoadParts[p]) : p \in 1..Len(LoadParts)}
LoadPlaces == {s.place : s \in LoadSteps}

(* The documents with at most one fault, and those with two of which one   *)
(* is in a member that ends a load method.                                 *)
Decisive == {s.place : s \in {t \in LoadSteps : t.kind \in {"document", "array", "addresses"}}}
LoadDocuments ==
  UNION ({[odd -> {"absent", "mistyped"}] : odd \in {{}} \cup {{x} : x \in LoadPlaces}}
           \cup {[{x, y} -> {"absent", "mistyped"}] : x \in LoadPlaces, y \in Decisive})
=============================================================================
