-------------------------- MODULE ConfigLoadProofs --------------------------
(***************************************************************************)
(* load() accepts a configuration exactly when nothing is wrong with it,   *)
(* for any document and any sequence of steps of the load methods; and the *)
(* load methods of the code are such a sequence.                           *)
(***************************************************************************)
EXTENDS ConfigLoad, ConfigFields, SequenceTheorems, TLAPS

(* The next step is one of Parts and has a place.                          *)
LEMMA HereIsPlace ==
  ASSUME TypeOK, InPart, step <= Len(Parts[part])
  PROVE  /\ part \in 1..Len(Parts) /\ step \in 1..Len(Parts[part])
         /\ Parts[part][step] \in Step
         /\ Here \in Place
<1>1. part \in 1..Len(Parts)
  BY PartsAssumption DEF TypeOK, InPart
<1>2. Parts[part] \in Seq(Step)
  BY <1>1, PartsAssumption
<1>3. step \in 1..Len(Parts[part])
  BY <1>2 DEF TypeOK
<1>4. Parts[part][step] \in Step
  BY <1>2, <1>3
<1> QED
  BY <1>1, <1>3, <1>4 DEF Here, Step

(* Every variable keeps its type.                                          *)
LEMMA TypeStep == TypeOK /\ [Next]_vars => TypeOK'
<1> SUFFICES ASSUME TypeOK, [Next]_vars PROVE TypeOK'
  OBVIOUS
<1>0. Len(Parts) \in Nat
  BY PartsAssumption
<1>1. ASSUME NEW kinds, At(kinds) PROVE Here \in Place /\ part + 1 \in 1..(Len(Parts) + 1)
  BY <1>0, <1>1, HereIsPlace DEF At
<1>2. CASE Skip
  BY <1>2 DEF TypeOK, Skip, GoOn, NoError
<1>3. CASE ReadField
  BY <1>1, <1>3 DEF TypeOK, ReadField, Read, GoOn, NoError
<1>4. CASE Default
  BY <1>1, <1>4 DEF TypeOK, Default, SetDefault, GoOn, NoError
<1>5. CASE FieldMissing
  BY <1>1, <1>5 DEF TypeOK, FieldMissing, setErrorDescription, GoOn
<1>6. CASE FieldMistyped
  BY <1>1, <1>6 DEF TypeOK, FieldMistyped, setErrorDescription, GoOn
<1>7. CASE ShareDiff
  BY <1>1, <1>7 DEF TypeOK, ShareDiff, Read, SetDefault, GoOn, NoError
<1>8. CASE EnterContainer
  BY <1>1, <1>8 DEF TypeOK, EnterContainer, Read, GoOn, NoError
<1>9. CASE DocumentIncomplete
  BY <1>1, <1>9 DEF TypeOK, DocumentIncomplete, setErrorDescription, ContainerError
<1>10. CASE CoinIncomplete
  BY <1>1, <1>10 DEF TypeOK, CoinIncomplete, setErrorDescription, ContainerError
<1>11. CASE NextPart
  BY <1>0, <1>11 DEF TypeOK, NextPart, InPart
<1>12. CASE Return
  BY <1>12 DEF TypeOK, Return
<1>13. CASE UNCHANGED vars
  BY <1>13 DEF TypeOK, vars
<1> QED
  BY <1>2, <1>3, <1>4, <1>5, <1>6, <1>7, <1>8, <1>9, <1>10, <1>11, <1>12, <1>13
    DEF Next, Returned

(* A place once filled stays filled: nothing is ever unset.                *)
LEMMA FilledStays ==
  ASSUME [Next]_vars, NEW s, Filled(s) PROVE Filled(s)'
<1>1. doc' = doc /\ read \subseteq read' /\ defaulted \subseteq defaulted'
  BY DEF Next, vars, Skip, ReadField, Default, FieldMissing, FieldMistyped, ShareDiff,
    EnterContainer, DocumentIncomplete, CoinIncomplete, NextPart, Return, Returned,
    Read, SetDefault, GoOn
<1> QED
  BY <1>1 DEF Filled, Content

(* A step that goes on without an error has filled its place, so that what *)
(* was done before the next step is done.                                  *)
LEMMA DoneStep == TypeOK /\ DoneSoFar /\ [Next]_vars => DoneSoFar'
<1> SUFFICES ASSUME TypeOK, DoneSoFar, [Next]_vars, error' = "EOk", result' # "false",
                    NEW p \in 1..Len(Parts), NEW s \in 1..Len(Parts[p]), Before(p, s)'
             PROVE  Filled(Parts[p][s])'
  BY DEF DoneSoFar
<1>0. p \in Nat /\ s \in Nat /\ part \in Nat /\ step \in Nat
  <2>1. Parts[p] \in Seq(Step)
    BY PartsAssumption
  <2> QED
    BY <2>1, PartsAssumption DEF TypeOK
<1>1. error = "EOk" /\ result # "false"
  BY DEF Next, vars, Skip, ReadField, Default, FieldMissing, FieldMistyped, ShareDiff,
    EnterContainer, DocumentIncomplete, CoinIncomplete, NextPart, Return, Returned,
    NoError, GoOn, setErrorDescription, ContainerError
<1>2. CASE Before(p, s)
  BY <1>1, <1>2, FilledStays DEF DoneSoFar
<1>3. CASE ~Before(p, s) /\ step' = step + 1 /\ part' = part /\ InPart
  <2>1. p = part /\ s = step
    BY <1>0, <1>3 DEF Before
  <2>2. Parts[part][step].place = Here
    BY DEF Here
  <2>3. doc' = doc
    BY <1>3 DEF Next, vars, Skip, ReadField, Default, FieldMissing, FieldMistyped,
      ShareDiff, EnterContainer, DocumentIncomplete, CoinIncomplete, NextPart, Return,
      Returned, GoOn
  <2>4. CASE ReadField \/ EnterContainer
    BY <2>1, <2>2, <2>3, <2>4 DEF ReadField, EnterContainer, Read, Filled, Content
  <2>5. CASE Default
    BY <2>1, <2>2, <2>3, <2>5 DEF Default, At, SetDefault, Filled, Content
  <2>6. CASE ShareDiff
    BY <2>1, <2>6 DEF ShareDiff, At, Filled
  <2> QED
    BY <1>0, <1>1, <1>3, <2>4, <2>5, <2>6
      DEF Next, vars, Skip, FieldMissing, FieldMistyped, DocumentIncomplete,
      CoinIncomplete, NextPart, Return, Returned, setErrorDescription, ContainerError
<1>4. CASE NextPart
  BY <1>0, <1>1, <1>4, FilledStays DEF NextPart, Before, DoneSoFar
<1>5. \/ step' = step /\ part' = part
      \/ NextPart
      \/ step' = step + 1 /\ part' = part /\ InPart
  BY <1>1 DEF Next, vars, Skip, ReadField, Default, FieldMissing, FieldMistyped,
    ShareDiff, EnterContainer, DocumentIncomplete, CoinIncomplete, Return, Returned,
    GoOn, At, setErrorDescription, ContainerError
<1> QED
  BY <1>2, <1>3, <1>4, <1>5 DEF Before

(* load() returns true only behind the last step.                          *)
LEMMA EndingStep == TypeOK /\ Ending /\ [Next]_vars => Ending'
  BY DEF Ending, Next, vars, Skip, ReadField, Default, FieldMissing, FieldMistyped,
    ShareDiff, EnterContainer, DocumentIncomplete, CoinIncomplete, NextPart, Return,
    Returned, NoError, GoOn, At, InPart, setErrorDescription, ContainerError

(* Whoever sets the error names the place it looks at, and what it finds   *)
(* there is a fault.                                                       *)
LEMMA CauseStep == TypeOK /\ RefusedHasCause /\ [Next]_vars => RefusedHasCause'
<1> SUFFICES ASSUME TypeOK, RefusedHasCause, [Next]_vars PROVE RefusedHasCause'
  OBVIOUS
<1>1. doc' = doc
  BY DEF Next, vars, Skip, ReadField, Default, FieldMissing, FieldMistyped, ShareDiff,
    EnterContainer, DocumentIncomplete, CoinIncomplete, NextPart, Return, Returned, GoOn
<1>2. \A s : Faulty(s)' <=> Faulty(s)
  BY <1>1 DEF Faulty, Content
<1>3. CASE UNCHANGED <<error, described>>
  <2>1. result' = "false" => error' # "EOk"
    BY <1>3 DEF RefusedHasCause, Next, vars, Skip, ReadField, Default, FieldMissing,
      FieldMistyped, ShareDiff, EnterContainer, DocumentIncomplete, CoinIncomplete,
      NextPart, Return, Returned, GoOn, setErrorDescription, ContainerError
  <2> QED
    BY <1>3, <1>2, <2>1 DEF RefusedHasCause
<1>4. CASE FieldMissing \/ FieldMistyped \/ DocumentIncomplete \/ CoinIncomplete
  <2>1. /\ part \in 1..Len(Parts) /\ step \in 1..Len(Parts[part])
        /\ Parts[part][step] \in Step /\ Here \in Place
    BY <1>4, HereIsPlace DEF FieldMissing, FieldMistyped, DocumentIncomplete,
      CoinIncomplete, At
  <2>2. described' = Here /\ error' # "EOk"
    BY <1>4 DEF FieldMissing, FieldMistyped, DocumentIncomplete, CoinIncomplete,
      setErrorDescription, ContainerError
  <2>3. Content(Here) \in Faults \cup {"good"}
    BY <2>1 DEF TypeOK, Content
  <2>4. Faulty(Parts[part][step])
    BY <1>4, <2>3 DEF FieldMissing, FieldMistyped, DocumentIncomplete, CoinIncomplete,
      At, Faulty, Fields, Faults, Here
  <2>5. PICK p \in 1..Len(Parts) : \E s \in 1..Len(Parts[p]) :
          Parts[p][s].place = described' /\ Faulty(Parts[p][s])
    BY <2>1, <2>2, <2>4 DEF Here
  <2>6. PICK s \in 1..Len(Parts[p]) :
          Parts[p][s].place = described' /\ Faulty(Parts[p][s])
    BY <2>5
  <2> QED
    BY <1>2, <2>2, <2>6 DEF RefusedHasCause
<1>5. UNCHANGED <<error, described>>
        \/ FieldMissing \/ FieldMistyped \/ DocumentIncomplete \/ CoinIncomplete
  BY DEF Next, vars, Skip, ReadField, Default, ShareDiff, EnterContainer, NextPart,
    Return, Returned, NoError
<1> QED
  BY <1>3, <1>4, <1>5

(* The inductive invariant.                                                *)
LEMMA ConfigInvariant == Spec => []IInv
<1>1. Init => IInv
  <2> SUFFICES ASSUME Init PROVE IInv
    OBVIOUS
  <2>1. TypeOK
    BY PartsAssumption, DocumentsAssumption DEF Init, TypeOK
  <2>2. DoneSoFar
    <3> SUFFICES ASSUME NEW p \in 1..Len(Parts), NEW s \in 1..Len(Parts[p])
                 PROVE  ~Before(p, s)
      BY DEF DoneSoFar
    <3>1. Parts[p] \in Seq(Step)
      BY PartsAssumption
    <3> QED
      BY <3>1, PartsAssumption DEF Init, Before
  <2> QED
    BY <2>1, <2>2 DEF Init, IInv, Ending, RefusedHasCause
<1>2. IInv /\ [Next]_vars => IInv'
  BY TypeStep, DoneStep, EndingStep, CauseStep DEF IInv
<1> QED
  BY <1>1, <1>2, PTL DEF Spec

(* Every variable has its type.                                            *)
THEOREM ConfigTypeCorrect == Spec => []TypeOK
  BY ConfigInvariant, PTL DEF IInv

(* What load() accepts is complete.                                        *)
THEOREM AcceptedIsCompleteHolds == Spec => []AcceptedIsComplete
<1>1. IInv => AcceptedIsComplete
  <2> SUFFICES ASSUME IInv, result = "true",
                      NEW p \in 1..Len(Parts), NEW s \in 1..Len(Parts[p])
               PROVE  Filled(Parts[p][s])
    BY DEF AcceptedIsComplete
  <2>1. part > Len(Parts) /\ error = "EOk"
    BY DEF IInv, Ending
  <2>2. Before(p, s)
    BY <2>1, PartsAssumption DEF IInv, TypeOK, Before
  <2> QED
    BY <2>1, <2>2 DEF IInv, DoneSoFar
<1> QED
  BY <1>1, ConfigInvariant, PTL

(* What load() refuses has the fault it reports.                           *)
THEOREM RefusedHasCauseHolds == Spec => []RefusedHasCause
  BY ConfigInvariant, PTL DEF IInv

-----------------------------------------------------------------------------
\* The table of the code is one that the theorems above are about, however
\* many coins, instances and elements of arrays the document has.
IsSteps(s) == \E places : s \in Seq([place : places, kind : Kinds])

LEMMA Joined ==
  ASSUME NEW s, NEW t, IsSteps(s), IsSteps(t)
  PROVE  IsSteps(s \o t)
<1>1. PICK here : s \in Seq([place : here, kind : Kinds])
  BY DEF IsSteps
<1>2. PICK there : t \in Seq([place : there, kind : Kinds])
  BY DEF IsSteps
<1> DEFINE Either == [place : here \cup there, kind : Kinds]
<1>3. /\ [place : here, kind : Kinds] \subseteq Either
      /\ [place : there, kind : Kinds] \subseteq Either
  OBVIOUS
<1> HIDE DEF Either
<1>4. s \in Seq(Either) /\ t \in Seq(Either)
  BY <1>1, <1>2, <1>3, SeqMonotonic
<1>5. s \o t \in Seq(Either)
  BY <1>4
<1> QED
  BY <1>5 DEF IsSteps, Either

LEMMA OneIsSteps ==
  ASSUME NEW object, NEW i, NEW j, NEW kind \in Kinds, NEW name
  PROVE  IsSteps(One(object, i, j, kind, name))
<1>1. One(object, i, j, kind, name) \in Seq([place : {<<object, i, j, name>>}, kind : Kinds])
  BY DEF One
<1> QED
  BY <1>1 DEF IsSteps

LEMMA TableIsSteps ==
  ASSUME NEW size \in Nat, NEW s, s = [n \in 1..size |-> s[n]],
         \A n \in 1..size : s[n] = [place |-> s[n].place, kind |-> s[n].kind] /\ s[n].kind \in Kinds
  PROVE  IsSteps(s)
<1> DEFINE S == [place : {s[n].place : n \in 1..size}, kind : Kinds]
<1>1. \A n \in 1..size : s[n] \in S
  OBVIOUS
<1> HIDE DEF S
<1>2. s \in Seq(S)
  BY <1>1, IsASeq
<1> QED
  BY <1>2 DEF IsSteps, S

LEMMA SeveralIsSteps ==
  ASSUME NEW object, NEW i, NEW j, NEW kind \in Kinds, NEW names, Len(names) \in Nat
  PROVE  IsSteps(Several(object, i, j, kind, names))
<1> DEFINE s == Several(object, i, j, kind, names)
<1>1. s = [n \in 1..Len(names) |-> [place |-> <<object, i, j, names[n]>>, kind |-> kind]]
  BY DEF Several, One
<1>2. /\ s = [n \in 1..Len(names) |-> s[n]]
      /\ \A n \in 1..Len(names) : s[n] = [place |-> <<object, i, j, names[n]>>, kind |-> kind]
  BY <1>1
<1> HIDE DEF s
<1>3. IsSteps(s)
  BY <1>2, TableIsSteps
<1> QED
  BY <1>3 DEF s

LEMMA ItemsAreSteps ==
  ASSUME NEW list, NEW i, NEW members, Len(members) \in Nat,
         \A m \in 1..Len(members) : members[m].kind \in Kinds
  PROVE  IsSteps(Items(list, i, members))
<1> DEFINE size == Len(members)
           number == ItemsNum * size
           item(n) == ((n - 1) \div size) + 1
           member(n) == members[((n - 1) % size) + 1]
           s == Items(list, i, members)
<1>1. number \in Nat
  BY SizesAssumption
<1>2. ASSUME NEW n \in 1..number PROVE member(n).kind \in Kinds
  <2>1. size # 0
    BY SizesAssumption
  <2>2. size \in Nat \ {0}
    BY <2>1
  <2> HIDE DEF size, number
  <2>3. n - 1 \in Nat
    BY <1>1
  <2>4. \A a \in Nat, b \in Nat \ {0} : (a % b) + 1 \in 1..b
    OBVIOUS
  <2>5. ((n - 1) % size) + 1 \in 1..size
    BY <2>2, <2>3, <2>4
  <2> QED
    BY <2>5 DEF size
<1>3. s = [n \in 1..number |->
            [place |-> <<list, i, item(n), member(n).name>>, kind |-> member(n).kind]]
  BY DEF Items, One
<1> HIDE DEF number, item, member, s
<1>4. s = [n \in 1..number |-> s[n]]
  BY <1>3
<1>5. \A n \in 1..number : s[n] = [place |-> s[n].place, kind |-> s[n].kind] /\ s[n].kind \in Kinds
  BY <1>2, <1>3
<1>6. IsSteps(s)
  BY <1>1, <1>4, <1>5, TableIsSteps
<1> QED
  BY <1>6 DEF s

LEMMA MembersHaveKinds ==
  \A members \in {Node, Fee, MiningAddress} :
    Len(members) \in Nat /\ \A m \in 1..Len(members) : members[m].kind \in Kinds
<1>1. \A name : Required(name).kind \in Kinds /\ Optional(name).kind \in Kinds
  BY DEF Required, Optional, Kinds
<1> HIDE DEF Required, Optional
<1>2. Len(Node) \in Nat /\ \A m \in 1..Len(Node) : Node[m].kind \in Kinds
  BY <1>1 DEF Node
<1>3. Len(Fee) \in Nat /\ \A m \in 1..Len(Fee) : Fee[m].kind \in Kinds
  BY <1>1 DEF Fee
<1>4. /\ Len(MiningAddress) \in Nat
      /\ \A m \in 1..Len(MiningAddress) : MiningAddress[m].kind \in Kinds
  BY <1>1 DEF MiningAddress
<1> QED
  BY <1>2, <1>3, <1>4

\* What the steps of one object look like, for a kind of members.
LEMMA ObjectIsSteps ==
  ASSUME NEW object, NEW i
  PROVE  \A kind \in Kinds :
           /\ \A name : IsSteps(One(object, i, 0, kind, name))
           /\ \A names : Len(names) \in Nat => IsSteps(Several(object, i, 0, kind, names))
  BY OneIsSteps, SeveralIsSteps

LEMMA KindsAre ==
  /\ "required" \in Kinds /\ "optional" \in Kinds /\ "shareDiff" \in Kinds
  /\ "document" \in Kinds /\ "array" \in Kinds /\ "addresses" \in Kinds
  BY DEF Kinds

LEMMA FrontendIsSteps == IsSteps(Frontend)
<1> DEFINE required(names) == Several("poolfrontend", 0, 0, "required", names)
           optional(names) == Several("poolfrontend", 0, 0, "optional", names)
           object == One("document", 0, 0, "document", "poolfrontend")
<1>1. IsSteps(object)
  BY ObjectIsSteps, KindsAre, Zenon
<1>2. \A names : Len(names) \in Nat => IsSteps(required(names)) /\ IsSteps(optional(names))
  BY ObjectIsSteps, KindsAre, Zenon
<1>3. Frontend = object
        \o required(<<"isMaster", "httpPort">>)
        \o optional(<<"workerThreadsNum", "httpThreadsNum", "adminPasswordHash",
                      "observerPasswordHash">>)
        \o required(<<"dbPath", "poolName", "poolHostProtocol", "poolHostAddress",
                      "poolActivateLinkPrefix", "poolChangePasswordLinkPrefix",
                      "poolActivate2faLinkPrefix", "poolDeactivate2faLinkPrefix",
                      "smtpEnabled", "smtpServer", "smtpLogin", "smtpPassword",
                      "smtpSenderAddress">>)
        \o optional(<<"smtpUseSmtps", "smtpUseStartTLS">>)
  BY DEF Frontend
<1> HIDE DEF required, optional, object
<1> QED
  BY <1>1, <1>2, <1>3, Joined

LEMMA CoinIsSteps == ASSUME NEW i PROVE IsSteps(Coin(i))
<1> DEFINE required(names) == Several("coins", i, 0, "required", names)
           optional(names) == Several("coins", i, 0, "optional", names)
           array(name) == One("coins", i, 0, "array", name)
           addresses == One("coins", i, 0, "addresses", "miningAddresses")
<1>1. \A names : Len(names) \in Nat => IsSteps(required(names)) /\ IsSteps(optional(names))
  BY ObjectIsSteps, KindsAre, Zenon
<1>2. IsSteps(addresses) /\ \A name : IsSteps(array(name))
  BY ObjectIsSteps, KindsAre, Zenon
<1>3. \A list : /\ IsSteps(Items(list, i, Node)) /\ IsSteps(Items(list, i, Fee))
               /\ IsSteps(Items(list, i, MiningAddress))
  BY MembersHaveKinds, ItemsAreSteps, Zenon
<1>4. Coin(i) = required(<<"name">>) \o array("getWorkNodes") \o array("RPCNodes")
        \o Items("getWorkNodes", i, Node) \o Items("RPCNodes", i, Node)
        \o array("fees") \o Items("fees", i, Fee)
        \o required(<<"requiredConfirmations", "defaultPayoutThreshold",
                      "minimalAllowedPayout", "keepRoundTime", "keepStatsTime",
                      "confirmationsCheckInterval", "payoutInterval", "balanceCheckInterval",
                      "statisticCheckInterval", "shareTarget">>)
        \o optional(<<"stratumWorkLifeTime">>)
        \o addresses \o Items("miningAddresses", i, MiningAddress)
        \o optional(<<"coinbaseMsg", "profitSwitchCoeff", "pool_zaddr", "pool_taddr">>)
  BY DEF Coin
<1> HIDE DEF required, optional, array, addresses
<1> QED
  BY <1>1, <1>2, <1>3, <1>4, Joined

LEMMA InstanceIsSteps == ASSUME NEW i PROVE IsSteps(Instance(i))
<1> DEFINE required(names) == Several("instances", i, 0, "required", names)
           one(kind, name) == One("instances", i, 0, kind, name)
<1>1. /\ \A names : Len(names) \in Nat => IsSteps(required(names))
      /\ IsSteps(one("optional", "port")) /\ IsSteps(one("shareDiff", "shareDiff"))
  BY ObjectIsSteps, KindsAre, Zenon
<1>2. Instance(i) = required(<<"name", "type", "protocol", "backends">>)
                      \o one("optional", "port") \o one("shareDiff", "shareDiff")
  BY DEF Instance
<1> HIDE DEF required, one
<1> QED
  BY <1>1, <1>2, Joined

(* However many coins and instances a document has, and elements in each   *)
(* of their arrays, the load methods of the code are sequences of steps    *)
(* that ConfigLoad takes (config.cpp:150-356): PartsAssumption holds of    *)
(* the code, and with it the theorems above.                               *)
THEOREM CodeIsSteps == Place = LoadPlaces => LoadParts \in Seq(Seq(Step))
<1> DEFINE coins == One("document", 0, 0, "document", "coins")
           instances == One("document", 0, 0, "document", "instances")
           eachCoin == [i \in 1..CoinsNum |-> Coin(i)]
           eachInstance == [i \in 1..InstancesNum |-> Instance(i)]
           methods == {Frontend, coins, instances} \cup {Coin(i) : i \in 1..CoinsNum}
                        \cup {Instance(i) : i \in 1..InstancesNum}
<1>1. LoadParts = <<Frontend, coins>> \o eachCoin \o <<instances>> \o eachInstance
  BY DEF LoadParts
<1>2. IsSteps(coins) /\ IsSteps(instances)
  BY ObjectIsSteps, KindsAre, Zenon
<1>3. \A s \in methods : IsSteps(s)
  <2> HIDE DEF coins, instances
  <2> QED
    BY <1>2, FrontendIsSteps, CoinIsSteps, InstanceIsSteps
<1>4. /\ <<Frontend, coins>> \in Seq(methods) /\ <<instances>> \in Seq(methods)
      /\ eachCoin \in Seq(methods) /\ eachInstance \in Seq(methods)
  <2> HIDE DEF coins, instances
  <2> QED
    BY SizesAssumption
<1> HIDE DEF coins, instances, eachCoin, eachInstance, methods
<1>5. LoadParts \in Seq(methods)
  BY <1>1, <1>4
<1> SUFFICES ASSUME Place = LoadPlaces, NEW p \in 1..Len(LoadParts)
             PROVE  LoadParts[p] \in Seq(Step)
  BY <1>5
<1>6. PICK places : LoadParts[p] \in Seq([place : places, kind : Kinds])
  <2>1. LoadParts[p] \in methods
    BY <1>5
  <2>2. IsSteps(LoadParts[p])
    BY <1>3, <2>1
  <2> QED
    BY <2>2, Zenon DEF IsSteps
<1>7. ASSUME NEW n \in 1..Len(LoadParts[p]) PROVE LoadParts[p][n] \in Step
  <2>1. LoadParts[p][n] \in [place : places, kind : Kinds]
    BY <1>6, ElementOfSeq, Zenon
  <2>2. LoadParts[p][n] \in LoadSteps
    BY <1>6 DEF LoadSteps, Range
  <2>3. LoadParts[p][n].place \in LoadPlaces
    BY <2>2 DEF LoadPlaces
  <2> QED
    BY <2>1, <2>3 DEF Step
<1> QED
  BY <1>6, <1>7
=============================================================================
