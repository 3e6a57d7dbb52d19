-------------------------- MODULE ApiRequestsProofs --------------------------
(***************************************************************************)
(* Proofs about ApiRequests, for any number of clients and session ids,    *)
(* any functions they call and any number of faulty arguments.             *)
(***************************************************************************)
EXTENDS ApiRequests, TLAPS

(* The functions of the API.                                               *)
LEMMA FunctionsAre == Functions = {"userAction", "userCreate", "userResendEmail", "userLogin",
  "userLogout", "userQueryMonitoringSession", "userChangeEmail", "userChangePasswordForce",
  "userChangePasswordInitiate", "userGetCredentials", "userGetSettings",
  "userUpdateCredentials", "userUpdateSettings", "userEnumerateAll", "userEnumerateFeePlan",
  "userGetFeePlan", "userUpdateFeePlan", "userChangeFeePlan", "userActivate2faInitiate",
  "userDeactivate2faInitiate", "backendManualPayout", "backendQueryCoins",
  "backendQueryFoundBlocks", "backendQueryPayouts", "backendQueryPoolBalance",
  "backendQueryPoolStats", "backendQueryPoolStatsHistory", "backendQueryProfitSwitchCoeff",
  "backendQueryUserBalance", "backendQueryUserStats", "backendQueryUserStatsHistory",
  "backendQueryWorkerStatsHistory", "backendQueryPPLNSPayouts", "backendQueryPPLNSAcc",
  "backendUpdateProfitSwitchCoeff", "backendPoolLuck", "instanceEnumerateAll",
  "complexMiningStatsGetInfo"}
  BY DEF Functions, FunctionNameMap_

(* The table, row by row.                                                  *)
LEMMA TableIs ==
  /\ FunctionNameMap_["userAction"] = onUserAction
  /\ FunctionNameMap_["userCreate"] = onUserCreate
  /\ FunctionNameMap_["userResendEmail"] = onUserResendEmail
  /\ FunctionNameMap_["userLogin"] = onUserLogin
  /\ FunctionNameMap_["userLogout"] = onUserLogout
  /\ FunctionNameMap_["userQueryMonitoringSession"] = onUserQueryMonitoringSession
  /\ FunctionNameMap_["userChangeEmail"] = onUserChangeEmail
  /\ FunctionNameMap_["userChangePasswordForce"] = onUserChangePasswordForce
  /\ FunctionNameMap_["userChangePasswordInitiate"] = onUserChangePasswordInitiate
  /\ FunctionNameMap_["userGetCredentials"] = onUserGetCredentials
  /\ FunctionNameMap_["userGetSettings"] = onUserGetSettings
  /\ FunctionNameMap_["userUpdateCredentials"] = onUserUpdateCredentials
  /\ FunctionNameMap_["userUpdateSettings"] = onUserUpdateSettings
  /\ FunctionNameMap_["userEnumerateAll"] = onUserEnumerateAll
  /\ FunctionNameMap_["userEnumerateFeePlan"] = onUserEnumerateFeePlan
  /\ FunctionNameMap_["userGetFeePlan"] = onUserGetFeePlan
  /\ FunctionNameMap_["userUpdateFeePlan"] = onUserUpdateFeePlan
  /\ FunctionNameMap_["userChangeFeePlan"] = onUserChangeFeePlan
  /\ FunctionNameMap_["userActivate2faInitiate"] = onUserActivate2faInitiate
  /\ FunctionNameMap_["userDeactivate2faInitiate"] = onUserDeactivate2faInitiate
  /\ FunctionNameMap_["backendManualPayout"] = onBackendManualPayout
  /\ FunctionNameMap_["backendQueryCoins"] = onBackendQueryCoins
  /\ FunctionNameMap_["backendQueryFoundBlocks"] = onBackendQueryFoundBlocks
  /\ FunctionNameMap_["backendQueryPayouts"] = onBackendQueryPayouts
  /\ FunctionNameMap_["backendQueryPoolBalance"] = onBackendQueryPoolBalance
  /\ FunctionNameMap_["backendQueryPoolStats"] = onBackendQueryPoolStats
  /\ FunctionNameMap_["backendQueryPoolStatsHistory"] = onBackendQueryPoolStatsHistory
  /\ FunctionNameMap_["backendQueryProfitSwitchCoeff"] = onBackendQueryProfitSwitchCoeff
  /\ FunctionNameMap_["backendQueryUserBalance"] = onBackendQueryUserBalance
  /\ FunctionNameMap_["backendQueryUserStats"] = onBackendQueryUserStats
  /\ FunctionNameMap_["backendQueryUserStatsHistory"] = onBackendQueryUserStatsHistory
  /\ FunctionNameMap_["backendQueryWorkerStatsHistory"] = onBackendQueryWorkerStatsHistory
  /\ FunctionNameMap_["backendQueryPPLNSPayouts"] = onBackendQueryPPLNSPayouts
  /\ FunctionNameMap_["backendQueryPPLNSAcc"] = onBackendQueryPPLNSAcc
  /\ FunctionNameMap_["backendUpdateProfitSwitchCoeff"] = onBackendUpdateProfitSwitchCoeff
  /\ FunctionNameMap_["backendPoolLuck"] = onBackendPoolLuck
  /\ FunctionNameMap_["instanceEnumerateAll"] = onInstanceEnumerateAll
  /\ FunctionNameMap_["complexMiningStatsGetInfo"] = onComplexMiningStatsGetInfo
  BY DEF FunctionNameMap_

(* The functions whose handlers check nothing.                             *)
Unchecked == {"userAction", "userResendEmail", "userLogin", "userLogout",
  "userQueryMonitoringSession", "userChangeEmail", "userChangePasswordForce",
  "userChangePasswordInitiate", "userUpdateCredentials", "userEnumerateFeePlan",
  "userGetFeePlan", "userChangeFeePlan", "userActivate2faInitiate",
  "userDeactivate2faInitiate", "backendQueryCoins", "backendQueryPoolBalance",
  "instanceEnumerateAll"}

(* The checks of the others.                                               *)
LEMMA ChecksAre ==
  /\ \A f \in Unchecked : FunctionNameMap_[f].checks = <<>>
  /\ FunctionNameMap_["userCreate"].checks = <<OwnSession>>
  /\ FunctionNameMap_["userGetCredentials"].checks =
       <<Session, Check("credentials", "unknown_id")>>
  /\ FunctionNameMap_["userGetSettings"].checks = <<Session>>
  /\ FunctionNameMap_["userUpdateSettings"].checks =
       <<Check("payoutCoin", "invalid_coin"), Check("money", "request_format_error"),
         Check("address", "invalid_address"), Writer>>
  /\ FunctionNameMap_["userEnumerateAll"].checks = <<Column, Sha256Statistic>>
  /\ FunctionNameMap_["userUpdateFeePlan"].checks = <<Check("feeCoins", "invalid_coin")>>
  /\ FunctionNameMap_["backendManualPayout"].checks = <<Writer, Backend>>
  /\ FunctionNameMap_["backendQueryFoundBlocks"].checks = <<Backend>>
  /\ FunctionNameMap_["backendQueryPayouts"].checks = <<Session, Backend>>
  /\ FunctionNameMap_["backendQueryPoolStats"].checks = <<AnyStatistic>>
  /\ FunctionNameMap_["backendQueryPoolStatsHistory"].checks = <<Statistic>>
  /\ FunctionNameMap_["backendQueryProfitSwitchCoeff"].checks = <<Observer>>
  /\ FunctionNameMap_["backendQueryUserBalance"].checks = <<Session, AnyBackend>>
  /\ FunctionNameMap_["backendQueryUserStats"].checks = <<Column, Session, Statistic>>
  /\ FunctionNameMap_["backendQueryUserStatsHistory"].checks = <<Session, Statistic>>
  /\ FunctionNameMap_["backendQueryWorkerStatsHistory"].checks = <<Session, Statistic>>
  /\ FunctionNameMap_["backendQueryPPLNSPayouts"].checks = <<Session, Backend>>
  /\ FunctionNameMap_["backendQueryPPLNSAcc"].checks =
       <<Session, Backend, Check("interval", "invalid_interval")>>
  /\ FunctionNameMap_["backendUpdateProfitSwitchCoeff"].checks = <<Admin, Backend>>
  /\ FunctionNameMap_["backendPoolLuck"].checks =
       <<Backend, Check("increasing", "json_format_error")>>
  /\ FunctionNameMap_["complexMiningStatsGetInfo"].checks = <<Admin>>
  BY TableIs DEF Unchecked, Handler, onUserAction, onUserCreate, onUserResendEmail, onUserLogin,
    onUserLogout, onUserQueryMonitoringSession, onUserChangeEmail, onUserChangePasswordForce,
    onUserChangePasswordInitiate, onUserGetCredentials, onUserGetSettings,
    onUserUpdateCredentials, onUserUpdateSettings, onUserEnumerateAll, onUserEnumerateFeePlan,
    onUserGetFeePlan, onUserUpdateFeePlan, onUserChangeFeePlan, onUserActivate2faInitiate,
    onUserDeactivate2faInitiate, onBackendManualPayout, onBackendQueryCoins,
    onBackendQueryFoundBlocks, onBackendQueryPayouts, onBackendQueryPoolBalance,
    onBackendQueryPoolStats, onBackendQueryPoolStatsHistory, onBackendQueryProfitSwitchCoeff,
    onBackendQueryUserBalance, onBackendQueryUserStats, onBackendQueryUserStatsHistory,
    onBackendQueryWorkerStatsHistory, onBackendQueryPPLNSPayouts, onBackendQueryPPLNSAcc,
    onBackendUpdateProfitSwitchCoeff, onBackendPoolLuck, onInstanceEnumerateAll,
    onComplexMiningStatsGetInfo

(* Every check of the code: a test, and the status of a failure.           *)
RightTests == {"session", "sessionIfGiven", "writer", "observer", "admin"}
OtherChecks ==
  {Backend, AnyBackend, Statistic, AnyStatistic, Sha256Statistic, Column,
   Check("credentials", "unknown_id"), Check("payoutCoin", "invalid_coin"),
   Check("money", "request_format_error"), Check("address", "invalid_address"),
   Check("feeCoins", "invalid_coin"), Check("interval", "invalid_interval"),
   Check("increasing", "json_format_error")}
SessionChecks == {Session, OwnSession, Writer, Observer, Admin}
ChecksOf(f) == FunctionNameMap_[f].checks

(* A check of a handler is one of these.                                   *)
LEMMA ChecksTyped ==
  ASSUME NEW f \in Functions
  PROVE  ChecksOf(f) \in Seq(SessionChecks \cup OtherChecks)
<1> DEFINE K == SessionChecks \cup OtherChecks
<1>1. /\ {Backend, AnyBackend, Statistic, AnyStatistic, Sha256Statistic, Column,
          Check("credentials", "unknown_id"), Check("payoutCoin", "invalid_coin"),
          Check("money", "request_format_error"), Check("address", "invalid_address"),
          Check("feeCoins", "invalid_coin"), Check("interval", "invalid_interval"),
          Check("increasing", "json_format_error")} \subseteq K
      /\ {Session, OwnSession, Writer, Observer, Admin} \subseteq K
  BY DEF SessionChecks, OtherChecks
<1>2. <<>> \in Seq(K)
  OBVIOUS
<1> HIDE DEF K
<1>3. /\ ChecksOf("userCreate") \in Seq(K)
      /\ ChecksOf("userGetCredentials") \in Seq(K)
      /\ ChecksOf("userGetSettings") \in Seq(K)
      /\ ChecksOf("userUpdateSettings") \in Seq(K)
      /\ ChecksOf("userEnumerateAll") \in Seq(K)
      /\ ChecksOf("userUpdateFeePlan") \in Seq(K)
      /\ ChecksOf("backendManualPayout") \in Seq(K)
      /\ ChecksOf("backendQueryFoundBlocks") \in Seq(K)
      /\ ChecksOf("backendQueryPayouts") \in Seq(K)
      /\ ChecksOf("backendQueryPoolStats") \in Seq(K)
      /\ ChecksOf("backendQueryPoolStatsHistory") \in Seq(K)
      /\ ChecksOf("backendQueryProfitSwitchCoeff") \in Seq(K)
      /\ ChecksOf("backendQueryUserBalance") \in Seq(K)
      /\ ChecksOf("backendQueryUserStats") \in Seq(K)
      /\ ChecksOf("backendQueryUserStatsHistory") \in Seq(K)
      /\ ChecksOf("backendQueryWorkerStatsHistory") \in Seq(K)
      /\ ChecksOf("backendQueryPPLNSPayouts") \in Seq(K)
      /\ ChecksOf("backendQueryPPLNSAcc") \in Seq(K)
      /\ ChecksOf("backendUpdateProfitSwitchCoeff") \in Seq(K)
      /\ ChecksOf("backendPoolLuck") \in Seq(K)
      /\ ChecksOf("complexMiningStatsGetInfo") \in Seq(K)
  BY <1>1, ChecksAre DEF ChecksOf
<1>4. ASSUME f \in Unchecked PROVE ChecksOf(f) = <<>>
  BY <1>4, ChecksAre DEF ChecksOf
<1>5. ChecksOf(f) \in Seq(K)
  BY <1>2, <1>3, <1>4, FunctionsAre DEF Unchecked
<1> QED
  BY <1>5 DEF K

(* A check fails with a status, never with ok.                             *)
LEMMA ChecksRefuse ==
  ASSUME NEW k \in SessionChecks \cup OtherChecks
  PROVE  k.status \in Statuses \ {"", "ok"}
<1>1. \A t, s : Check(t, s).status = s
  BY DEF Check
<1>2. CASE k \in SessionChecks
  <2>1. k.status = "unknown_id"
    BY <1>1, <1>2 DEF SessionChecks, Session, OwnSession, Writer, Observer, Admin
  <2> QED
    BY <2>1 DEF Statuses
<1>3. CASE k \in OtherChecks
  <2>1. k.status \in {"unknown_id", "invalid_coin", "unknown_column_name", "request_format_error",
                      "invalid_address", "invalid_interval", "json_format_error"}
    BY <1>1, <1>3 DEF OtherChecks, Backend, AnyBackend, Statistic, AnyStatistic,
      Sha256Statistic, Column
  <2> QED
    BY <2>1 DEF Statuses
<1> QED
  BY <1>2, <1>3

(* Whose rights a check of the session asks for, by the function it is in. *)
LEMMA RightsOf ==
  ASSUME NEW f \in Functions, NEW i \in 1..Len(ChecksOf(f)), ChecksOf(f)[i] \in SessionChecks
  PROVE  \/ ChecksOf(f)[i] = Session /\ f \notin AdminFunctions \cup WriteFunctions
              /\ f \notin {"backendQueryProfitSwitchCoeff", "userCreate"}
         \/ ChecksOf(f)[i] = OwnSession /\ f = "userCreate"
         \/ ChecksOf(f)[i] = Writer /\ f \in WriteFunctions
         \/ ChecksOf(f)[i] = Observer /\ f = "backendQueryProfitSwitchCoeff"
         \/ ChecksOf(f)[i] = Admin /\ f \in AdminFunctions
<1>1. \A k \in SessionChecks, m \in OtherChecks : k # m
  BY DEF SessionChecks, OtherChecks, Check, Session, OwnSession, Writer, Observer,
    Admin, Backend, AnyBackend, Statistic, AnyStatistic, Sha256Statistic, Column
<1>2. /\ Session # OwnSession /\ Session # Writer /\ Session # Observer /\ Session # Admin
      /\ OwnSession # Writer /\ OwnSession # Observer /\ OwnSession # Admin
      /\ Writer # Observer /\ Writer # Admin /\ Observer # Admin
  BY DEF Check, Session, OwnSession, Writer, Observer, Admin
<1>3. CASE f \in {"userCreate", "userUpdateSettings", "backendManualPayout",
                  "backendQueryProfitSwitchCoeff", "backendUpdateProfitSwitchCoeff",
                  "complexMiningStatsGetInfo"}
  BY <1>1, <1>2, <1>3, ChecksAre
    DEF ChecksOf, SessionChecks, OtherChecks, AdminFunctions, WriteFunctions
<1>4. CASE f \notin {"userCreate", "userUpdateSettings", "backendManualPayout",
                     "backendQueryProfitSwitchCoeff", "backendUpdateProfitSwitchCoeff",
                     "complexMiningStatsGetInfo"}
  <2>1. {Backend, AnyBackend, Statistic, AnyStatistic, Sha256Statistic, Column,
         Check("credentials", "unknown_id"), Check("feeCoins", "invalid_coin"),
         Check("interval", "invalid_interval"), Check("increasing", "json_format_error")}
           \subseteq OtherChecks
    BY DEF OtherChecks
  <2> DEFINE K == OtherChecks \cup {Session}
  <2>2. /\ ChecksOf("userGetCredentials") \in Seq(K)
        /\ ChecksOf("userGetSettings") \in Seq(K)
        /\ ChecksOf("userEnumerateAll") \in Seq(K)
        /\ ChecksOf("userUpdateFeePlan") \in Seq(K)
        /\ ChecksOf("backendQueryFoundBlocks") \in Seq(K)
        /\ ChecksOf("backendQueryPayouts") \in Seq(K)
        /\ ChecksOf("backendQueryPoolStats") \in Seq(K)
        /\ ChecksOf("backendQueryPoolStatsHistory") \in Seq(K)
        /\ ChecksOf("backendQueryUserBalance") \in Seq(K)
        /\ ChecksOf("backendQueryUserStats") \in Seq(K)
        /\ ChecksOf("backendQueryUserStatsHistory") \in Seq(K)
        /\ ChecksOf("backendQueryWorkerStatsHistory") \in Seq(K)
        /\ ChecksOf("backendQueryPPLNSPayouts") \in Seq(K)
        /\ ChecksOf("backendQueryPPLNSAcc") \in Seq(K)
        /\ ChecksOf("backendPoolLuck") \in Seq(K)
    BY <2>1, ChecksAre DEF ChecksOf
  <2>3. ASSUME f \notin Unchecked PROVE ChecksOf(f) \in Seq(K)
    BY <1>4, <2>2, <2>3, FunctionsAre DEF Unchecked
  <2>4. ASSUME f \in Unchecked PROVE FALSE
    BY <2>4, ChecksAre DEF ChecksOf
  <2>5. ChecksOf(f)[i] \in K
    BY <2>3, <2>4
  <2> QED
    BY <1>1, <1>4, <2>5 DEF AdminFunctions, WriteFunctions
<1> QED
  BY <1>3, <1>4

(* The arguments of the functions whose rights do not depend on the login. *)
LEMMA NoTarget ==
  \A f \in {"userCreate", "backendQueryProfitSwitchCoeff"} : "targetLogin" \notin Args(f)
  BY TableIs DEF Args, Handler, onUserCreate, onBackendQueryProfitSwitchCoeff

(* A check of the session passes for those who are entitled, and for no    *)
(* one else.                                                               *)
LEMMA RightsAreTested ==
  ASSUME NEW f \in Functions, NEW i \in 1..Len(ChecksOf(f)), ChecksOf(f)[i] \in SessionChecks,
         NEW args \in [Args(f) -> ArgStates], NEW facts, NEW session \in Sessions,
         f = "userCreate" => Given(args, "id")
  PROVE  Passes(ChecksOf(f)[i], args, facts, session) <=> session \in Entitled(f, args)
<1>1. CASE ChecksOf(f)[i] = Session /\ f \notin AdminFunctions \cup WriteFunctions
             /\ f \notin {"backendQueryProfitSwitchCoeff", "userCreate"}
  BY <1>1 DEF Session, Check, Passes, validateSession, Entitled, Sessions
<1>2. CASE ChecksOf(f)[i] = OwnSession /\ f = "userCreate"
  <2>1. ~Given(args, "targetLogin") /\ f \notin AdminFunctions \cup WriteFunctions
    BY <1>2, NoTarget DEF Given, AdminFunctions, WriteFunctions
  <2> QED
    BY <1>2, <2>1 DEF OwnSession, Check, Passes, validateSession, Entitled, Sessions
<1>3. CASE ChecksOf(f)[i] = Writer /\ f \in WriteFunctions
  <2>1. f \notin AdminFunctions /\ f # "backendQueryProfitSwitchCoeff"
    BY <1>3 DEF AdminFunctions, WriteFunctions
  <2> QED
    BY <1>3, <2>1 DEF Writer, Check, Passes, validateSession, Entitled, Given
<1>4. CASE ChecksOf(f)[i] = Observer /\ f = "backendQueryProfitSwitchCoeff"
  <2>1. ~Given(args, "targetLogin") /\ f \notin AdminFunctions \cup WriteFunctions
    BY <1>4, NoTarget DEF Given, AdminFunctions, WriteFunctions
  <2> QED
    BY <1>4, <2>1 DEF Observer, Check, Passes, validateSession, Entitled, Sessions
<1>5. CASE ChecksOf(f)[i] = Admin /\ f \in AdminFunctions
  <2>1. session \in Entitled(f, args) <=> session = "admin"
    BY <1>5 DEF Entitled, Given, AdminFunctions, WriteFunctions
  <2>2. Passes(Admin, args, facts, session)
          <=> validateSession(session, FALSE, FALSE) /\ session = "admin"
    BY DEF Admin, Check, Passes
  <2> QED
    BY <1>5, <2>1, <2>2 DEF validateSession
<1> QED
  BY <1>1, <1>2, <1>3, <1>4, <1>5, RightsOf

(* A handler that acts itself, or calls a service that trusts it, checks   *)
(* the session that its function requires.                                 *)
LEMMA SessionIsChecked ==
  ASSUME NEW f \in Functions, RequiresSession(f), FunctionNameMap_[f].end \in TrustedEnds
  PROVE  \E i \in 1..Len(ChecksOf(f)) : ChecksOf(f)[i] \in SessionChecks
<1> DEFINE NoId == {"userAction", "userCreate", "userResendEmail", "userLogin",
                  "userChangeEmail", "userChangePasswordInitiate", "backendQueryCoins",
                  "backendQueryFoundBlocks", "backendQueryPoolBalance", "backendQueryPoolStats",
                  "backendQueryPoolStatsHistory", "backendPoolLuck", "instanceEnumerateAll"}
           Delegated == {"userLogout", "userQueryMonitoringSession", "userChangePasswordForce",
                   "userUpdateCredentials", "userEnumerateAll", "userEnumerateFeePlan",
                   "userGetFeePlan", "userUpdateFeePlan", "userChangeFeePlan",
                   "userActivate2faInitiate", "userDeactivate2faInitiate"}
<1>1. \A g \in NoId : ~RequiresSession(g)
  BY TableIs DEF RequiresSession, Handler, onUserAction, onUserCreate, onUserResendEmail,
    onUserLogin, onUserChangeEmail, onUserChangePasswordInitiate, onBackendQueryCoins,
    onBackendQueryFoundBlocks, onBackendQueryPoolBalance, onBackendQueryPoolStats,
    onBackendQueryPoolStatsHistory, onBackendPoolLuck, onInstanceEnumerateAll
<1>2. \A g \in Delegated : FunctionNameMap_[g].end \notin TrustedEnds
  BY TableIs DEF TrustedEnds, Handler, onUserLogout, onUserQueryMonitoringSession,
    onUserChangePasswordForce, onUserUpdateCredentials, onUserEnumerateAll,
    onUserEnumerateFeePlan, onUserGetFeePlan, onUserUpdateFeePlan, onUserChangeFeePlan,
    onUserActivate2faInitiate, onUserDeactivate2faInitiate
<1>3. f \in Functions \ (NoId \cup Delegated)
  BY <1>1, <1>2
<1>4. CASE f = "userUpdateSettings"
  BY <1>4, ChecksAre DEF ChecksOf, SessionChecks
<1>5. CASE f = "backendQueryUserStats"
  BY <1>5, ChecksAre DEF ChecksOf, SessionChecks
<1>6. CASE f \notin {"userUpdateSettings", "backendQueryUserStats"}
  <2> DEFINE First(g) == 1 \in 1..Len(ChecksOf(g)) /\ ChecksOf(g)[1] \in SessionChecks
  <2>1. {Session, Writer, Observer, Admin} \subseteq SessionChecks
    BY DEF SessionChecks
  <2>2. /\ First("userGetCredentials")
        /\ First("userGetSettings")
        /\ First("backendManualPayout")
        /\ First("backendQueryPayouts")
        /\ First("backendQueryProfitSwitchCoeff")
        /\ First("backendQueryUserBalance")
        /\ First("backendQueryUserStatsHistory")
        /\ First("backendQueryWorkerStatsHistory")
        /\ First("backendQueryPPLNSPayouts")
        /\ First("backendQueryPPLNSAcc")
        /\ First("backendUpdateProfitSwitchCoeff")
        /\ First("complexMiningStatsGetInfo")
    BY <2>1, ChecksAre DEF ChecksOf
  <2> HIDE DEF First
  <2>3. First(f)
    BY <1>3, <1>6, <2>2, FunctionsAre
  <2> QED
    BY <2>3 DEF First
<1> QED
  BY <1>4, <1>5, <1>6

(* The cause that a failed check reports.                                  *)
LEMMA ChecksHaveCause ==
  ASSUME NEW k \in OtherChecks, NEW args, NEW facts, NEW session,
         ~Passes(k, args, facts, session)
  PROVE  /\ k.status = "json_format_error" => "increasing" \notin facts
         /\ k.status = "unknown_id" =>
              k = Check("credentials", "unknown_id") /\ "credentials" \notin facts
         /\ k.status = "invalid_coin" =>
              ~({"coin", "sha256"} \subseteq facts) \/ ~Given(args, "coin")
         /\ k.status = "unknown_column_name" => "column" \notin facts
         /\ k.status = "request_format_error" => "money" \notin facts
         /\ k.status = "invalid_address" => "address" \notin facts
         /\ k.status = "invalid_interval" => "interval" \notin facts
<1> USE DEF Check, Passes
<1>1. CASE k = Backend
  BY <1>1 DEF Backend
<1>2. CASE k = AnyBackend
  BY <1>2 DEF AnyBackend
<1>3. CASE k = Statistic
  BY <1>3 DEF Statistic
<1>4. CASE k = AnyStatistic
  BY <1>4 DEF AnyStatistic
<1>5. CASE k = Sha256Statistic
  BY <1>5 DEF Sha256Statistic
<1>6. CASE k = Column
  BY <1>6 DEF Column
<1>7. CASE k = Check("credentials", "unknown_id")
  BY <1>7
<1>8. CASE k = Check("payoutCoin", "invalid_coin")
  BY <1>8
<1>9. CASE k = Check("money", "request_format_error")
  BY <1>9
<1>10. CASE k = Check("address", "invalid_address")
  BY <1>10
<1>11. CASE k = Check("feeCoins", "invalid_coin")
  BY <1>11
<1>12. CASE k = Check("interval", "invalid_interval")
  BY <1>12
<1>13. CASE k = Check("increasing", "json_format_error")
  BY <1>13
<1> HIDE DEF Check, Passes
<1> QED
  BY <1>1, <1>2, <1>3, <1>4, <1>5, <1>6, <1>7, <1>8, <1>9, <1>10, <1>11, <1>12, <1>13
    DEF OtherChecks

(* Only two handlers check what is theirs alone.                           *)
LEMMA OwnChecks ==
  ASSUME NEW f \in Functions, NEW i \in 1..Len(ChecksOf(f))
  PROVE  /\ ChecksOf(f)[i].status = "json_format_error" => f = "backendPoolLuck"
         /\ ChecksOf(f)[i] = Check("credentials", "unknown_id") => f = "userGetCredentials"
<1>1. \A t, u : Check(t, u).status = u /\ Check(t, u).test = t
  BY DEF Check
<1> DEFINE Common == {Session, OwnSession, Writer, Observer, Admin, Backend, AnyBackend,
  Statistic, AnyStatistic, Sha256Statistic, Column, Check("payoutCoin", "invalid_coin"),
  Check("money", "request_format_error"), Check("address", "invalid_address"),
  Check("feeCoins", "invalid_coin"), Check("interval", "invalid_interval")}
<1>2. \A k \in Common : k.status # "json_format_error" /\ k.test # "credentials"
  BY <1>1 DEF Session, OwnSession, Writer, Observer, Admin, Backend, AnyBackend, Statistic,
    AnyStatistic, Sha256Statistic, Column
<1>3. CASE f \in Unchecked
  BY <1>3, ChecksAre DEF ChecksOf
<1>4. CASE f \notin Unchecked /\ f \notin {"userGetCredentials", "backendPoolLuck"}
  <2>1. {Session, OwnSession, Writer, Observer, Admin, Backend, AnyBackend, Statistic,
         AnyStatistic, Sha256Statistic, Column, Check("payoutCoin", "invalid_coin"),
         Check("money", "request_format_error"), Check("address", "invalid_address"),
         Check("feeCoins", "invalid_coin"), Check("interval", "invalid_interval")}
           \subseteq Common
    OBVIOUS
  <2> HIDE DEF Common
  <2>2. /\ ChecksOf("userCreate") \in Seq(Common)
        /\ ChecksOf("userGetSettings") \in Seq(Common)
        /\ ChecksOf("userUpdateSettings") \in Seq(Common)
        /\ ChecksOf("userEnumerateAll") \in Seq(Common)
        /\ ChecksOf("userUpdateFeePlan") \in Seq(Common)
        /\ ChecksOf("backendManualPayout") \in Seq(Common)
        /\ ChecksOf("backendQueryFoundBlocks") \in Seq(Common)
        /\ ChecksOf("backendQueryPayouts") \in Seq(Common)
        /\ ChecksOf("backendQueryPoolStats") \in Seq(Common)
        /\ ChecksOf("backendQueryPoolStatsHistory") \in Seq(Common)
        /\ ChecksOf("backendQueryProfitSwitchCoeff") \in Seq(Common)
        /\ ChecksOf("backendQueryUserBalance") \in Seq(Common)
        /\ ChecksOf("backendQueryUserStats") \in Seq(Common)
        /\ ChecksOf("backendQueryUserStatsHistory") \in Seq(Common)
        /\ ChecksOf("backendQueryWorkerStatsHistory") \in Seq(Common)
        /\ ChecksOf("backendQueryPPLNSPayouts") \in Seq(Common)
        /\ ChecksOf("backendQueryPPLNSAcc") \in Seq(Common)
        /\ ChecksOf("backendUpdateProfitSwitchCoeff") \in Seq(Common)
        /\ ChecksOf("complexMiningStatsGetInfo") \in Seq(Common)
    BY <2>1, ChecksAre DEF ChecksOf
  <2>3. ChecksOf(f) \in Seq(Common)
    BY <1>4, <2>2, FunctionsAre DEF Unchecked
  <2>4. ChecksOf(f)[i] \in Common
    BY <2>3
  <2> QED
    BY <1>1, <1>2, <2>4
<1>5. CASE f \in {"userGetCredentials", "backendPoolLuck"}
  BY <1>1, <1>2, <1>5, ChecksAre DEF ChecksOf
<1> QED
  BY <1>3, <1>4, <1>5

(* The facts a request comes with are facts.                               *)
LEMMA FactsTyped ==
  ASSUME NEW f \in Functions
  PROVE  SUBSET FactsOf(f) \subseteq SUBSET Facts
<1>1. \A k : Uses(k) \subseteq Facts
  BY DEF Uses, Facts
<1> QED
  BY <1>1 DEF FactsOf

(* The state of an idle client.                                            *)
LEMMA NothingAsked ==
  /\ NoRequest \in Requests /\ NoRequest.stage = "idle" /\ NoRequest.status = ""
  /\ ~NoRequest.late
  /\ NoRequest.next \in 1..(Len(FunctionNameMap_[NoRequest.function].checks) + 1)
<1>1. (CHOOSE i \in Ids : TRUE) \in Ids
  BY IdsAssumption
<1>2. "userLogin" \in Functions /\ Len(FunctionNameMap_["userLogin"].checks) = 0
  BY FunctionsAre, ChecksAre DEF Unchecked
<1> QED
  BY <1>1, <1>2 DEF NoRequest, Requests, Stages, Statuses, ArgLists

(* Every check of the session refuses with one status.                     *)
LEMMA SessionsUnknown == \A k \in SessionChecks : k.status = "unknown_id"
<1>1. \A t, s : Check(t, s).status = s
  BY DEF Check
<1> QED
  BY <1>1 DEF SessionChecks, Session, OwnSession, Writer, Observer, Admin

(* userCreate has its optional session in one argument.                    *)
LEMMA NoSessionId == "sessionId" \notin Args("userCreate")
  BY TableIs DEF Args, Handler, onUserCreate

-----------------------------------------------------------------------------
(* What a step does to the requests.                                       *)

(* The step from one check to the next.                                    *)
LEMMA Counting ==
  ASSUME NEW n \in Nat
  PROVE  1 \in 1..(n + 1) /\ \A i \in 1..n : i + 1 \in 1..(n + 1) /\ i + 1 \in Nat
  OBVIOUS

(* The parts of a request.                                                 *)
LEMMA RequestIs ==
  ASSUME TypeOK, NEW c \in Clients
  PROVE  /\ request[c] \in Requests
         /\ request[c].function \in Functions /\ request[c].id \in Ids
         /\ request[c].next \in Nat /\ request[c].seen \subseteq Sessions
         /\ Len(ChecksOf(request[c].function)) \in Nat
         /\ request[c].next \in 1..(Len(ChecksOf(request[c].function)) + 1)
         /\ sessions[request[c].id] \in Sessions
<1>1. request[c] \in Requests
  BY DEF TypeOK
<1>2. /\ request[c].function \in Functions /\ request[c].id \in Ids
      /\ request[c].next \in Nat /\ request[c].seen \subseteq Sessions
  BY <1>1 DEF Requests
<1>3. Len(ChecksOf(request[c].function)) \in Nat
  BY <1>2, ChecksTyped
<1> QED
  BY <1>1, <1>2, <1>3 DEF TypeOK, ChecksOf

(* The check a request is at is one of its function's.                     *)
LEMMA CheckAt ==
  ASSUME TypeOK, NEW c \in Clients, request[c].next <= Len(handler(c).checks)
  PROVE  /\ request[c].next \in 1..Len(ChecksOf(request[c].function))
         /\ CurrentCheck(c) = ChecksOf(request[c].function)[request[c].next]
         /\ CurrentCheck(c) \in SessionChecks \cup OtherChecks
         /\ CurrentCheck(c).status \in Statuses \ {"", "ok"}
<1> DEFINE f == request[c].function
           i == request[c].next
<1>1. i \in 1..Len(ChecksOf(f)) /\ CurrentCheck(c) = ChecksOf(f)[i]
  BY RequestIs DEF handler, CurrentCheck, ChecksOf
<1>2. ChecksOf(f) \in Seq(SessionChecks \cup OtherChecks)
  BY RequestIs, ChecksTyped
<1> HIDE DEF f, i
<1>3. ChecksOf(f)[i] \in SessionChecks \cup OtherChecks
  BY <1>1, <1>2
<1>4. ChecksOf(f)[i].status \in Statuses \ {"", "ok"}
  BY <1>3, ChecksRefuse
<1> QED
  BY <1>1, <1>3, <1>4 DEF f, i

(* A request moves on: its stage, its status or its next check changes.    *)
Moved(c, stage, status, next) ==
  request' = [request EXCEPT ![c] =
                [request[c] EXCEPT !.stage = stage, !.status = status, !.next = next]]

(* A request that moves on keeps the rest.                                 *)
LEMMA MovedIs ==
  ASSUME TypeOK, NEW c \in Clients, NEW stage \in Stages, NEW status \in Statuses,
         NEW next \in Nat, Moved(c, stage, status, next)
  PROVE  /\ request' \in [Clients -> Requests]
         /\ request'[c].stage = stage /\ request'[c].status = status
         /\ request'[c].next = next /\ request'[c].function = request[c].function
         /\ request'[c].args = request[c].args /\ request'[c].facts = request[c].facts
         /\ request'[c].id = request[c].id /\ request'[c].seen = request[c].seen
         /\ request'[c].late = request[c].late
         /\ \A d \in Clients \ {c} : request'[d] = request[d]
<1> DEFINE r == [request[c] EXCEPT !.stage = stage, !.status = status, !.next = next]
<1>1. /\ r \in Requests
      /\ r.stage = stage /\ r.status = status /\ r.next = next
      /\ r.function = request[c].function /\ r.args = request[c].args
      /\ r.facts = request[c].facts /\ r.id = request[c].id /\ r.seen = request[c].seen
      /\ r.late = request[c].late
  BY RequestIs DEF Requests
<1>2. request' = [request EXCEPT ![c] = r]
  BY DEF Moved
<1> HIDE DEF r
<1> QED
  BY <1>1, <1>2 DEF TypeOK

(* What moves a request on, and how.                                       *)
LEMMA MovesBy ==
  ASSUME TypeOK, NEW c \in Clients
  PROVE  /\ Parsed(c) => Moved(c, "check", request[c].status, request[c].next)
         /\ CallService(c) => Moved(c, "service", request[c].status, request[c].next)
         /\ CheckPasses(c) =>
              Moved(c, request[c].stage, request[c].status, request[c].next + 1)
         /\ \A status \in Statuses :
              Answered(c, status) => Moved(c, "answered", status, request[c].next)
  BY RequestIs DEF Parsed, CallService, CheckPasses, Answered, Moved, Requests

(* The steps that answer a request and end no session.                     *)
Answers(c) ==
  InvalidJson(c) \/ FormatError(c) \/ CheckFails(c) \/ ReplyOk(c) \/ AskManager(c)
    \/ ServeDelegate(c) \/ Serve(c)

(* They answer it with a status.                                           *)
LEMMA AnswersIs ==
  ASSUME TypeOK, NEW c \in Clients, Answers(c)
  PROVE  /\ \E status \in Statuses \ {""} : Answered(c, status)
         /\ request[c].stage \notin {"idle", "answered"}
         /\ UNCHANGED <<sessions, loggedOut>>
  BY CheckAt DEF Answers, InvalidJson, FormatError, CheckFails, ReplyOk, AskManager,
    ServeDelegate, Serve, Checked, Statuses

(* A request that moves on to a stage with a status of that stage.         *)
LEMMA MovedTyped ==
  ASSUME TypeOK, NEW c \in Clients, NEW stage \in Stages, NEW status \in Statuses,
         NEW next \in Nat, next \in 1..(Len(ChecksOf(request[c].function)) + 1),
         request[c].stage # "idle", stage # "idle", stage = "answered" <=> status # "",
         Moved(c, stage, status, next),
         sessions' \in [Ids -> Sessions], loggedOut' \subseteq Ids
  PROVE  TypeOK'
<1> DEFINE r == [request[c] EXCEPT !.stage = stage, !.status = status, !.next = next]
<1>1. /\ r \in Requests
      /\ r.stage = stage /\ r.status = status /\ r.next = next
      /\ r.function = request[c].function /\ r.args = request[c].args
  BY RequestIs DEF Requests
<1>2. request' = [request EXCEPT ![c] = r]
  BY DEF Moved
<1> HIDE DEF r
<1> QED
  BY <1>1, <1>2 DEF TypeOK, ChecksOf

(* What a request is made of.                                              *)
LEMMA RequestOf ==
  ASSUME NEW f \in Functions, NEW id \in Ids, NEW object \in BOOLEAN, NEW args \in ArgLists,
         NEW facts \in SUBSET Facts, NEW seen \in SUBSET Sessions, NEW late \in BOOLEAN
  PROVE  [stage |-> "parse", function |-> f, id |-> id, object |-> object, args |-> args,
          facts |-> facts, next |-> 1, status |-> "", seen |-> seen, late |-> late] \in Requests
<1>1. "parse" \in Stages /\ "" \in Statuses
  BY DEF Stages, Statuses
<1> QED
  BY <1>1 DEF Requests

(* A request arrives.                                                      *)
Arrived(c, r) ==
  /\ r.function \in Functions /\ r.args \in [Args(r.function) -> ArgStates]
  /\ r \in Requests /\ r.stage = "parse" /\ r.next = 1 /\ r.status = ""
  /\ r.seen = {sessions[r.id]} /\ r.late = (r.id \in loggedOut)
  /\ request' = [request EXCEPT ![c] = r] /\ UNCHANGED <<sessions, loggedOut>>

(* What arrives is a request.                                              *)
LEMMA ArriveIs ==
  ASSUME TypeOK, NEW c \in Clients, Arrive(c)
  PROVE  \E r : Arrived(c, r)
<1>1. PICK f \in Offered, id \in Ids :
        \E facts \in SUBSET FactsOf(f), odd \in SUBSET Args(f) :
          /\ Cardinality(odd) <= MaxOdd
          /\ \E bad \in [odd -> {"absent", "mistyped"}], object \in BOOLEAN :
               Receive(c, f, id, facts, odd, bad, object)
  BY DEF Arrive
<1>2. PICK facts \in SUBSET FactsOf(f), odd \in SUBSET Args(f) :
        \E bad \in [odd -> {"absent", "mistyped"}], object \in BOOLEAN :
          Receive(c, f, id, facts, odd, bad, object)
  BY <1>1
<1>3. PICK bad \in [odd -> {"absent", "mistyped"}], object \in BOOLEAN :
        Receive(c, f, id, facts, odd, bad, object)
  BY <1>2
<1> DEFINE args == [a \in Args(f) |-> IF a \in odd THEN bad[a] ELSE "good"]
           r == [stage |-> "parse", function |-> f, id |-> id, object |-> object,
                 args |-> args, facts |-> facts, next |-> 1, status |-> "",
                 seen |-> {sessions[id]}, late |-> id \in loggedOut]
<1>4. f \in Functions /\ args \in [Args(f) -> ArgStates]
  BY OfferedAssumption DEF ArgStates
<1>5. args \in ArgLists
  BY <1>4 DEF ArgLists
<1>6. facts \in SUBSET Facts
  BY <1>4, FactsTyped
<1>7. {sessions[id]} \in SUBSET Sessions
  BY DEF TypeOK
<1>8. request' = [request EXCEPT ![c] = r] /\ UNCHANGED <<sessions, loggedOut>>
  BY <1>3 DEF Receive
<1> HIDE DEF args
<1>9. r \in Requests
  BY <1>4, <1>5, <1>6, <1>7, (id \in loggedOut) \in BOOLEAN, RequestOf
<1> QED
  BY <1>4, <1>8, <1>9 DEF Arrived

(* A request that sees the end of a session keeps what its type is about.  *)
Typed(r) ==
  /\ r.stage # "idle" => r.args \in [Args(r.function) -> ArgStates]
  /\ r.next \in 1..(Len(FunctionNameMap_[r.function].checks) + 1)
  /\ (r.stage = "answered") <=> (r.status # "")

(* It is a request as before.                                              *)
LEMMA WitnessIs ==
  ASSUME NEW r \in Requests, NEW id
  PROVE  Witness(r, id) \in Requests /\ (Typed(r) => Typed(Witness(r, id)))
<1>1. CASE Witness(r, id) = r
  BY <1>1
<1>2. CASE Witness(r, id) = [r EXCEPT !.seen = @ \cup {"none"}]
  BY <1>2 DEF Requests, Sessions, Typed
<1> QED
  BY <1>1, <1>2 DEF Witness

(* Every variable keeps its type.                                          *)
LEMMA TypeStep == TypeOK /\ [Next]_vars => TypeOK'
<1> SUFFICES ASSUME TypeOK, [Next]_vars PROVE TypeOK'
  OBVIOUS
<1>1. CASE UNCHANGED vars
  BY <1>1 DEF TypeOK, vars
<1>2. ASSUME NEW c \in Clients, Arrive(c) PROVE TypeOK'
  <2>1. PICK r : Arrived(c, r)
    BY <1>2, ArriveIs
  <2>2. 1 \in 1..(Len(FunctionNameMap_[r.function].checks) + 1)
    <3>1. r.function \in Functions
      BY <2>1 DEF Arrived
    <3>2. Len(ChecksOf(r.function)) \in Nat
      BY <3>1, ChecksTyped
    <3> QED
      BY <3>2, Counting DEF ChecksOf
  <2> QED
    BY <2>1, <2>2 DEF TypeOK, Arrived
<1>3. ASSUME NEW c \in Clients, Answers(c) PROVE TypeOK'
  <2>1. PICK status \in Statuses \ {""} : Answered(c, status)
    BY <1>3, AnswersIs
  <2>2. Moved(c, "answered", status, request[c].next)
    BY <2>1, MovesBy
  <2>3. sessions' \in [Ids -> Sessions] /\ loggedOut' \subseteq Ids
    BY <1>3, AnswersIs DEF TypeOK
  <2> QED
    BY <1>3, <2>2, <2>3, AnswersIs, MovedTyped, RequestIs DEF Stages
<1>4. ASSUME NEW c \in Clients, Parsed(c) \/ CallService(c) PROVE TypeOK'
  <2>1. /\ request[c].stage \in {"parse", "check"} /\ request[c].status \in Statuses
        /\ request[c].status = "" /\ UNCHANGED <<sessions, loggedOut>>
    BY <1>4, RequestIs DEF Parsed, CallService, Checked, TypeOK, Requests
  <2>2. PICK stage \in {"check", "service"} :
          Moved(c, stage, request[c].status, request[c].next)
    BY <1>4, MovesBy
  <2>3. stage \in Stages /\ sessions' \in [Ids -> Sessions] /\ loggedOut' \subseteq Ids
    BY <2>1 DEF TypeOK, Stages
  <2> QED
    BY <2>1, <2>2, <2>3, MovedTyped, RequestIs
<1>5. ASSUME NEW c \in Clients, CheckPasses(c) PROVE TypeOK'
  <2>1. /\ request[c].next + 1 \in 1..(Len(ChecksOf(request[c].function)) + 1)
        /\ request[c].next + 1 \in Nat
    <3>1. request[c].next \in 1..Len(ChecksOf(request[c].function))
      BY <1>5, CheckAt DEF CheckPasses
    <3>2. Len(ChecksOf(request[c].function)) \in Nat
      BY RequestIs
    <3> QED
      BY <3>1, <3>2, Counting
  <2>2. /\ request[c].stage = "check" /\ request[c].status \in Statuses
        /\ request[c].status = "" /\ UNCHANGED <<sessions, loggedOut>>
    BY <1>5, RequestIs DEF CheckPasses, TypeOK, Requests
  <2>3. Moved(c, request[c].stage, request[c].status, request[c].next + 1)
    BY <1>5, MovesBy
  <2>4. "check" \in Stages /\ sessions' \in [Ids -> Sessions] /\ loggedOut' \subseteq Ids
    BY <2>2 DEF TypeOK, Stages
  <2> QED
    BY <2>1, <2>2, <2>3, <2>4, MovedTyped
<1>6. ASSUME NEW c \in Clients, Replied(c) PROVE TypeOK'
  BY <1>6, NothingAsked DEF TypeOK, Replied
<1>7. ASSUME NEW c \in Clients, LogOut(c), sessions[request[c].id] = "none" PROVE TypeOK'
  <2>1. Answered(c, "unknown_id") /\ UNCHANGED <<sessions, loggedOut>>
    BY <1>7 DEF LogOut
  <2>2. Moved(c, "answered", "unknown_id", request[c].next)
    BY <2>1, MovesBy DEF Statuses
  <2>3. request[c].stage # "idle" /\ sessions' \in [Ids -> Sessions] /\ loggedOut' \subseteq Ids
    BY <1>7, <2>1 DEF LogOut, TypeOK
  <2> QED
    BY <2>2, <2>3, MovedTyped, RequestIs DEF Stages, Statuses
<1>8. ASSUME NEW c \in Clients, LogOut(c), sessions[request[c].id] # "none" PROVE TypeOK'
  <2> DEFINE id == request[c].id
             q == [request[c] EXCEPT !.stage = "answered", !.status = "ok"]
  <2>1. /\ \A d \in Clients \ {c} : request'[d] = Witness(request[d], id)
        /\ request'[c] = q /\ request' \in [Clients -> Requests]
        /\ sessions' \in [Ids -> Sessions] /\ loggedOut' \subseteq Ids
    <3>1. q \in Requests /\ id \in Ids
      BY RequestIs DEF Requests, Stages, Statuses
    <3>2. \A d \in Clients : Witness(request[d], id) \in Requests
      BY RequestIs, WitnessIs
    <3> QED
      BY <1>8, <3>1, <3>2 DEF LogOut, EndSession, TypeOK, Sessions
  <2>2. /\ q.function = request[c].function /\ q.args = request[c].args
        /\ q.next = request[c].next /\ q.stage = "answered" /\ q.status = "ok"
        /\ request[c].stage # "idle"
    BY <1>8, RequestIs DEF Requests, LogOut
  <2> HIDE DEF q
  <2>3. \A d \in Clients : Typed(request[d])
    BY DEF TypeOK, Typed
  <2>4. Typed(q)
    BY <2>2, <2>3 DEF Typed
  <2>5. \A d \in Clients : Typed(request'[d])
    BY <2>1, <2>3, <2>4, RequestIs, WitnessIs
  <2> QED
    BY <2>1, <2>5 DEF TypeOK, Typed
<1>9. ASSUME NEW id \in Ids, SessionExpires(id) PROVE TypeOK'
  <2>1. \A d \in Clients : Witness(request[d], id) \in Requests
    BY RequestIs, WitnessIs
  <2>2. /\ \A d \in Clients : request'[d] = Witness(request[d], id)
        /\ request' \in [Clients -> Requests]
        /\ sessions' \in [Ids -> Sessions] /\ loggedOut' \subseteq Ids
    BY <1>9, <2>1 DEF SessionExpires, EndSession, TypeOK, Sessions
  <2>3. \A d \in Clients : Typed(request[d])
    BY DEF TypeOK, Typed
  <2>4. \A d \in Clients : Typed(request'[d])
    BY <2>2, <2>3, RequestIs, WitnessIs
  <2> QED
    BY <2>2, <2>4 DEF TypeOK, Typed
<1> QED
  BY <1>1, <1>2, <1>3, <1>4, <1>5, <1>6, <1>7, <1>8, <1>9 DEF Next, Answers

-----------------------------------------------------------------------------
(* The invariant.  Of a request r with what its session is now, s.         *)

Ok(r) == r.stage = "answered" /\ r.status = "ok"
Going(r) == r.stage \in {"check", "service"} \/ Ok(r)
EntitledOnce(r) == r.seen \cap Entitled(r.function, r.args) # {}

\* What the session is now has been seen.
Fresh(r, s) == r.stage \in {"parse", "check", "service"} => s \in r.seen
Valid(r) == Going(r) => validAcc(r.function, r.args)
\* The checks of the session that are behind it were passed by one entitled.
Screened(r) ==
  Going(r) /\ RequiresSession(r.function) =>
    \A i \in 1..(r.next - 1) : ChecksOf(r.function)[i] \in SessionChecks => EntitledOnce(r)
\* No check is made twice or left out.
Complete(r) ==
  /\ r.stage = "parse" => r.next = 1
  /\ r.stage = "service" \/ Ok(r) => r.next = Len(ChecksOf(r.function)) + 1
\* A request with an id that was logged out has never seen a session.
Outdated(r, s) == r.late => s = "none" /\ r.seen \subseteq {"none"}
Fenced(r) == RequiresSession(r.function) /\ r.late => ~Ok(r)

Sound(r, s) ==
  Fresh(r, s) /\ Valid(r) /\ Screened(r) /\ Complete(r) /\ Outdated(r, s) /\ Fenced(r)

IInv ==
  /\ TypeOK
  /\ \A id \in loggedOut : sessions[id] = "none"
  /\ \A c \in Clients : Sound(request[c], sessions[request[c].id])

(* A session that is required is given once the arguments are valid, and   *)
(* what validateSession looks at is that session.                          *)
LEMMA SessionLookedAt ==
  ASSUME TypeOK, NEW c \in Clients, request[c].stage # "idle", RequiresSession(request[c].function),
         validAcc(request[c].function, request[c].args)
  PROVE  /\ SessionOf(c) = sessions[request[c].id]
         /\ request[c].function # "userCreate"
<1> DEFINE f == request[c].function
           args == request[c].args
<1>1. f \in Functions /\ args \in [Args(f) -> ArgStates]
  BY RequestIs DEF TypeOK
<1>2. PICK a \in {"id", "sessionId"} : a \in FunctionNameMap_[f].required
  BY DEF RequiresSession
<1>3. a \in DOMAIN args /\ args[a] = "good"
  BY <1>1, <1>2 DEF Args, validAcc, ParsedRequired
<1>4. SessionGiven(args)
  BY <1>2, <1>3 DEF SessionGiven, Given
<1>5. ~RequiresSession("userCreate")
  BY TableIs DEF RequiresSession, Handler, onUserCreate
<1> QED
  BY <1>4, <1>5 DEF SessionOf

(* Passing a check of the session shows that it is entitled.               *)
LEMMA PassedIsEntitled ==
  ASSUME TypeOK, NEW c \in Clients, request[c].stage = "check",
         request[c].next <= Len(handler(c).checks),
         validAcc(request[c].function, request[c].args), RequiresSession(request[c].function),
         ChecksOf(request[c].function)[request[c].next] \in SessionChecks,
         Passes(CurrentCheck(c), request[c].args, request[c].facts, SessionOf(c))
  PROVE  sessions[request[c].id] \in Entitled(request[c].function, request[c].args)
<1>1. request[c].args \in [Args(request[c].function) -> ArgStates]
  BY DEF TypeOK
<1>2. /\ SessionOf(c) = sessions[request[c].id]
      /\ request[c].function # "userCreate"
  BY SessionLookedAt
<1>3. /\ request[c].next \in 1..Len(ChecksOf(request[c].function))
      /\ CurrentCheck(c) = ChecksOf(request[c].function)[request[c].next]
  BY CheckAt
<1>4. request[c].function \in Functions /\ sessions[request[c].id] \in Sessions
  BY RequestIs
<1> DEFINE f == request[c].function
           i == request[c].next
           args == request[c].args
           session == sessions[request[c].id]
<1>5. /\ f \in Functions /\ i \in 1..Len(ChecksOf(f)) /\ ChecksOf(f)[i] \in SessionChecks
      /\ args \in [Args(f) -> ArgStates] /\ session \in Sessions /\ f # "userCreate"
      /\ Passes(ChecksOf(f)[i], args, request[c].facts, session)
  BY <1>1, <1>2, <1>3, <1>4
<1> HIDE DEF f, i, args, session
<1>6. session \in Entitled(f, args)
  BY <1>5, RightsAreTested
<1> QED
  BY <1>6 DEF f, args, session

(* A request that is refused is no longer of interest.                     *)
LEMMA RefusedIsSound ==
  ASSUME NEW r, NEW q, NEW s, Sound(r, s), q.stage = "answered", q.status # "ok",
         q.late = r.late, q.seen = r.seen
  PROVE  Sound(q, s)
  BY DEF Sound, Fresh, Valid, Screened, Complete, Outdated, Fenced, Going, Ok

(* A request that was trusted and screened is not an outdated one.         *)
LEMMA ScreenedIsNotLate ==
  ASSUME NEW r \in Requests, NEW s, Sound(r, s), Going(r), RequiresSession(r.function),
         r.next = Len(ChecksOf(r.function)) + 1,
         FunctionNameMap_[r.function].end \in TrustedEnds
  PROVE  EntitledOnce(r) /\ ~r.late
<1>1. r.function \in Functions
  BY DEF Requests
<1>2. PICK i \in 1..Len(ChecksOf(r.function)) : ChecksOf(r.function)[i] \in SessionChecks
  BY <1>1, SessionIsChecked
<1>3. Len(ChecksOf(r.function)) \in Nat
  BY <1>1, ChecksTyped
<1>4. i \in 1..(r.next - 1)
  BY <1>2, <1>3
<1>5. EntitledOnce(r)
  BY <1>2, <1>4 DEF Sound, Screened
<1>6. "none" \notin Entitled(r.function, r.args)
  BY DEF Entitled
<1> QED
  BY <1>5, <1>6 DEF EntitledOnce, Sound, Outdated

(* What a step makes of the requests that it is not about: nothing, or it  *)
(* adds to what they have seen.                                            *)
LEMMA OthersAreSound ==
  ASSUME IInv, NEW c \in Clients, UNCHANGED <<sessions, loggedOut>>,
         \A d \in Clients \ {c} : request'[d] = request[d],
         TypeOK', Sound(request'[c], sessions'[request'[c].id])
  PROVE  IInv'
  BY DEF IInv

(* The end of a session adds what is seen now.                             *)
LEMMA WitnessIsSound ==
  ASSUME NEW r \in Requests, NEW id \in Ids, NEW s, NEW t, Sound(r, s),
         t = IF r.id = id THEN "none" ELSE s
  PROVE  /\ Sound(Witness(r, id), t) /\ Witness(r, id) \in Requests
         /\ Witness(r, id).id = r.id /\ Witness(r, id).stage = r.stage
         /\ Witness(r, id).status = r.status /\ Witness(r, id).next = r.next
         /\ Witness(r, id).function = r.function /\ Witness(r, id).args = r.args
<1> DEFINE q == Witness(r, id)
<1>1. /\ q \in Requests /\ q.id = r.id /\ q.stage = r.stage /\ q.status = r.status
      /\ q.next = r.next /\ q.function = r.function /\ q.args = r.args /\ q.late = r.late
  BY DEF Witness, Requests, Sessions
<1>2. q.seen = IF r.stage \notin {"idle", "answered"} /\ r.id = id
               THEN r.seen \cup {"none"} ELSE r.seen
  BY DEF Witness, Requests
<1> HIDE DEF q
<1>3. Fresh(q, t)
  BY <1>1, <1>2 DEF Sound, Fresh
<1>4. Valid(q) /\ Complete(q) /\ Fenced(q)
  BY <1>1 DEF Sound, Valid, Complete, Fenced, Going, Ok
<1>5. Screened(q)
  <2>1. EntitledOnce(r) => EntitledOnce(q)
    BY <1>1, <1>2 DEF EntitledOnce
  <2> QED
    BY <1>1, <2>1 DEF Sound, Screened, Going, Ok
<1>6. Outdated(q, t)
  BY <1>1, <1>2 DEF Sound, Outdated
<1> QED
  BY <1>1, <1>3, <1>4, <1>5, <1>6 DEF Sound, q

(* Nothing changes but the stage, the status and the next check.           *)
Alike(r, q) ==
  /\ q.function = r.function /\ q.args = r.args /\ q.id = r.id
  /\ q.seen = r.seen /\ q.late = r.late /\ q.facts = r.facts

(* An answer changes the stage and the status.                             *)
LEMMA AnsweredIs ==
  ASSUME TypeOK, NEW c \in Clients, NEW status \in Statuses, Answered(c, status)
  PROVE  /\ Alike(request[c], request'[c]) /\ request'[c].stage = "answered"
         /\ request'[c].status = status /\ request'[c].next = request[c].next
         /\ \A d \in Clients \ {c} : request'[d] = request[d]
<1> DEFINE q == [request[c] EXCEPT !.stage = "answered", !.status = status]
<1>1. /\ Alike(request[c], q) /\ q.stage = "answered" /\ q.status = status
      /\ q.next = request[c].next
  BY RequestIs DEF Requests, Alike
<1>2. request' = [request EXCEPT ![c] = q]
  BY RequestIs DEF Answered, Requests
<1> HIDE DEF q
<1> QED
  BY <1>1, <1>2 DEF TypeOK

(* A handler that ends has made all its checks.                            *)
LEMMA CheckedAll ==
  ASSUME TypeOK, NEW c \in Clients, NEW ends, Checked(c, ends)
  PROVE  request[c].next = Len(ChecksOf(request[c].function)) + 1
  BY RequestIs DEF Checked, handler, ChecksOf

(* What it takes to answer with ok.                                        *)
LEMMA AnswersOk ==
  ASSUME TypeOK, NEW c \in Clients, Answers(c), request'[c].status = "ok",
         Sound(request[c], sessions[request[c].id])
  PROVE  /\ request[c].stage \in {"check", "service"}
         /\ request[c].next = Len(ChecksOf(request[c].function)) + 1
         /\ \/ FunctionNameMap_[request[c].function].end \in TrustedEnds
            \/ SessionOf(c) # "none"
<1>1. ASSUME NEW status \in Statuses, Answered(c, status) PROVE status = "ok"
  BY <1>1, MovesBy, MovedIs, RequestIs DEF Stages
<1>2. ~InvalidJson(c) /\ ~FormatError(c)
  BY <1>1 DEF InvalidJson, FormatError, Statuses
<1>3. ~CheckFails(c)
  BY <1>1, CheckAt DEF CheckFails
<1>4. CASE ReplyOk(c)
  BY <1>4, CheckedAll DEF ReplyOk, Checked, handler, TrustedEnds
<1>5. CASE AskManager(c)
  BY <1>1, <1>5, CheckedAll DEF AskManager, Checked, Statuses
<1>6. CASE ServeDelegate(c)
  BY <1>1, <1>6 DEF ServeDelegate, Sound, Complete, Statuses
<1>7. CASE Serve(c)
  BY <1>7 DEF Serve, Sound, Complete, handler, TrustedEnds
<1> QED
  BY <1>2, <1>3, <1>4, <1>5, <1>6, <1>7 DEF Answers

(* Every step keeps the invariant.                                         *)
LEMMA InvStep == IInv /\ [Next]_vars => IInv'
<1> SUFFICES ASSUME IInv, [Next]_vars PROVE IInv'
  OBVIOUS
<1>0. TypeOK /\ TypeOK' /\ \A c \in Clients : Sound(request[c], sessions[request[c].id])
  BY TypeStep DEF IInv
<1>1. CASE UNCHANGED vars
  BY <1>0, <1>1 DEF IInv, vars
<1>2. ASSUME NEW c \in Clients, Arrive(c) PROVE IInv'
  <2>1. PICK r : Arrived(c, r)
    BY <1>0, <1>2, ArriveIs
  <2>2. r.id \in Ids
    BY <2>1 DEF Arrived, Requests
  <2>3. Sound(r, sessions[r.id])
    BY <2>1, <2>2 DEF IInv, Arrived, Sound, Fresh, Valid, Screened, Complete, Outdated, Fenced,
      Going, Ok
  <2>4. request'[c] = r /\ \A d \in Clients \ {c} : request'[d] = request[d]
    BY <1>0, <2>1 DEF Arrived, TypeOK
  <2> QED
    BY <1>0, <2>1, <2>3, <2>4, OthersAreSound DEF Arrived
<1>3. ASSUME NEW c \in Clients, Parsed(c) PROVE IInv'
  <2>1. Moved(c, "check", request[c].status, request[c].next)
    BY <1>0, <1>3, MovesBy
  <2>2. /\ Alike(request[c], request'[c]) /\ request'[c].stage = "check"
        /\ request'[c].next = request[c].next
        /\ \A d \in Clients \ {c} : request'[d] = request[d]
    BY <1>0, <2>1, RequestIs, MovedIs DEF Requests, Stages, Alike
  <2>3. /\ request[c].stage = "parse" /\ validAcc(request[c].function, request[c].args)
        /\ UNCHANGED <<sessions, loggedOut>>
    BY <1>3 DEF Parsed
  <2>4. Sound(request'[c], sessions[request[c].id])
    BY <1>0, <2>2, <2>3 DEF Alike, Sound, Fresh, Valid, Screened, Complete, Outdated, Fenced,
      Going, Ok
  <2> QED
    BY <1>0, <2>2, <2>3, <2>4, OthersAreSound DEF Alike
<1>4. ASSUME NEW c \in Clients, CallService(c) PROVE IInv'
  <2>1. Moved(c, "service", request[c].status, request[c].next)
    BY <1>0, <1>4, MovesBy
  <2>2. /\ Alike(request[c], request'[c]) /\ request'[c].stage = "service"
        /\ request'[c].next = request[c].next
        /\ \A d \in Clients \ {c} : request'[d] = request[d]
    BY <1>0, <2>1, RequestIs, MovedIs DEF Requests, Stages, Alike
  <2>3. request[c].stage = "check" /\ UNCHANGED <<sessions, loggedOut>>
    BY <1>4 DEF CallService, Checked
  <2>4. request[c].next = Len(ChecksOf(request[c].function)) + 1
    BY <1>0, <1>4, CheckedAll DEF CallService
  <2>5. Sound(request'[c], sessions[request[c].id])
    <3>1. Screened(request'[c])
      BY <1>0, <2>2, <2>3 DEF Alike, Sound, Screened, Going, EntitledOnce
    <3> QED
      BY <1>0, <2>2, <2>3, <2>4, <3>1 DEF Alike, Sound, Fresh, Valid, Complete, Outdated,
        Fenced, Going, Ok
  <2> QED
    BY <1>0, <2>2, <2>3, <2>5, OthersAreSound DEF Alike
<1>5. ASSUME NEW c \in Clients, CheckPasses(c) PROVE IInv'
  <2> DEFINE f == request[c].function
  <2>1. Moved(c, request[c].stage, request[c].status, request[c].next + 1)
    BY <1>0, <1>5, MovesBy
  <2>2. /\ Alike(request[c], request'[c]) /\ request'[c].stage = request[c].stage
        /\ request'[c].next = request[c].next + 1
        /\ \A d \in Clients \ {c} : request'[d] = request[d]
    BY <1>0, <2>1, RequestIs, MovedIs DEF Requests, Alike
  <2>3. request[c].stage = "check" /\ UNCHANGED <<sessions, loggedOut>>
    BY <1>5 DEF CheckPasses
  <2>4. Fresh(request'[c], sessions[request[c].id]) /\ Valid(request'[c])
          /\ Complete(request'[c]) /\ Outdated(request'[c], sessions[request[c].id])
          /\ Fenced(request'[c])
    BY <1>0, <2>2, <2>3 DEF Alike, Sound, Fresh, Valid, Complete, Outdated, Fenced, Going, Ok
  <2>5. ASSUME RequiresSession(f), ChecksOf(f)[request[c].next] \in SessionChecks
        PROVE  EntitledOnce(request[c])
    <3>1. validAcc(f, request[c].args) /\ sessions[request[c].id] \in request[c].seen
      BY <1>0, <2>3 DEF Sound, Valid, Fresh, Going
    <3>2. sessions[request[c].id] \in Entitled(f, request[c].args)
      BY <1>0, <1>5, <2>5, <3>1, PassedIsEntitled DEF CheckPasses
    <3> QED
      BY <3>1, <3>2 DEF EntitledOnce
  <2>6. Screened(request'[c])
    <3>1. request[c].next \in Nat
      BY <1>0, RequestIs
    <3>2. SUFFICES ASSUME RequiresSession(f), NEW i \in 1..request[c].next,
                          ChecksOf(f)[i] \in SessionChecks
                   PROVE  EntitledOnce(request[c])
      BY <2>2, <3>1 DEF Screened, Alike, EntitledOnce
    <3>3. CASE i = request[c].next
      BY <2>5, <3>2, <3>3
    <3>4. CASE i \in 1..(request[c].next - 1)
      BY <1>0, <2>3, <3>2, <3>4 DEF Sound, Screened, Going
    <3> QED
      BY <3>1, <3>3, <3>4
  <2> QED
    BY <1>0, <2>2, <2>3, <2>4, <2>6, OthersAreSound DEF Alike, Sound
<1>6. ASSUME NEW c \in Clients, Answers(c) PROVE IInv'
  <2>1. PICK status \in Statuses \ {""} : Answered(c, status)
    BY <1>0, <1>6, AnswersIs
  <2>3. /\ Alike(request[c], request'[c]) /\ request'[c].stage = "answered"
        /\ request'[c].status = status /\ request'[c].next = request[c].next
        /\ \A d \in Clients \ {c} : request'[d] = request[d]
    BY <1>0, <2>1, AnsweredIs
  <2>4. UNCHANGED <<sessions, loggedOut>>
    BY <1>0, <1>6, AnswersIs
  <2>5. ASSUME status = "ok" PROVE Sound(request'[c], sessions[request[c].id])
    <3>1. /\ request[c].stage \in {"check", "service"}
          /\ request[c].next = Len(ChecksOf(request[c].function)) + 1
          /\ \/ FunctionNameMap_[request[c].function].end \in TrustedEnds
             \/ SessionOf(c) # "none"
      BY <1>0, <1>6, <2>3, <2>5, AnswersOk
    <3>2. RequiresSession(request[c].function) => ~request[c].late
      <4>1. SUFFICES ASSUME RequiresSession(request[c].function), request[c].late PROVE FALSE
        OBVIOUS
      <4>2. Going(request[c]) /\ validAcc(request[c].function, request[c].args)
        BY <1>0, <3>1 DEF Sound, Valid, Going
      <4>3. SessionOf(c) = "none"
        BY <1>0, <3>1, <4>1, <4>2, SessionLookedAt DEF Sound, Outdated
      <4> QED
        BY <1>0, <3>1, <4>1, <4>2, <4>3, RequestIs, ScreenedIsNotLate
    <3> QED
      BY <1>0, <2>3, <3>1, <3>2 DEF Alike, Sound, Fresh, Valid, Screened, Complete, Outdated,
        Fenced, Going, Ok, EntitledOnce
  <2>6. ASSUME status # "ok" PROVE Sound(request'[c], sessions[request[c].id])
    BY <1>0, <2>3, <2>6, RefusedIsSound DEF Alike
  <2> QED
    BY <1>0, <2>3, <2>4, <2>5, <2>6, OthersAreSound DEF Alike
<1>7. ASSUME NEW c \in Clients, Replied(c) PROVE IInv'
  <2>1. /\ request'[c] = NoRequest /\ \A d \in Clients \ {c} : request'[d] = request[d]
        /\ UNCHANGED <<sessions, loggedOut>>
    BY <1>0, <1>7 DEF Replied, TypeOK
  <2>2. Sound(NoRequest, sessions[NoRequest.id])
    BY NothingAsked DEF Sound, Fresh, Valid, Screened, Complete, Outdated, Fenced, Going, Ok
  <2> QED
    BY <1>0, <2>1, <2>2, OthersAreSound
<1>8. ASSUME NEW c \in Clients, LogOut(c), sessions[request[c].id] = "none" PROVE IInv'
  <2>1. Answered(c, "unknown_id") /\ UNCHANGED <<sessions, loggedOut>>
    BY <1>8 DEF LogOut
  <2>2. "unknown_id" \in Statuses
    BY DEF Statuses
  <2>3. /\ Alike(request[c], request'[c]) /\ request'[c].stage = "answered"
        /\ request'[c].status = "unknown_id"
        /\ \A d \in Clients \ {c} : request'[d] = request[d]
    BY <1>0, <2>1, <2>2, AnsweredIs
  <2>4. Sound(request'[c], sessions[request[c].id])
    BY <1>0, <2>3, RefusedIsSound DEF Alike
  <2> QED
    BY <1>0, <2>1, <2>3, <2>4, OthersAreSound DEF Alike
<1>10. ASSUME NEW c \in Clients, LogOut(c), sessions[request[c].id] # "none" PROVE IInv'
  <2> DEFINE id == request[c].id
             q == [request[c] EXCEPT !.stage = "answered", !.status = "ok"]
  <2>0. id \in Ids
    BY <1>0, RequestIs
  <2>1. /\ \A d \in Clients \ {c} : request'[d] = Witness(request[d], id)
        /\ request'[c] = q
        /\ \A e \in Ids : sessions'[e] = IF e = id THEN "none" ELSE sessions[e]
        /\ loggedOut' = loggedOut \cup {id} /\ loggedOut \subseteq Ids
    BY <1>0, <1>10 DEF LogOut, EndSession, TypeOK
  <2>2. ASSUME NEW d \in Clients \ {c} PROVE Sound(request'[d], sessions'[request'[d].id])
    BY <1>0, <2>0, <2>1, RequestIs, WitnessIsSound
  <2>3. /\ Alike(request[c], q) /\ q.stage = "answered" /\ q.next = request[c].next
    BY <1>0, RequestIs DEF Requests, Alike
  <2>4. request[c].stage = "service" /\ ~request[c].late
    BY <1>0, <1>10 DEF LogOut, Sound, Outdated
  <2> HIDE DEF q
  <2>5. Sound(q, sessions'[q.id])
    BY <1>0, <2>3, <2>4 DEF Alike, Sound, Fresh, Valid, Screened, Complete, Outdated,
      Fenced, Going, Ok, EntitledOnce
  <2> QED
    BY <1>0, <2>0, <2>1, <2>2, <2>5 DEF IInv
<1>9. ASSUME NEW id \in Ids, SessionExpires(id) PROVE IInv'
  <2>1. /\ \A d \in Clients : request'[d] = Witness(request[d], id)
        /\ \A e \in Ids : sessions'[e] = IF e = id THEN "none" ELSE sessions[e]
        /\ loggedOut' = loggedOut /\ loggedOut \subseteq Ids
    BY <1>0, <1>9 DEF SessionExpires, EndSession, TypeOK
  <2>2. ASSUME NEW d \in Clients PROVE Sound(request'[d], sessions'[request'[d].id])
    BY <1>0, <2>1, RequestIs, WitnessIsSound
  <2> QED
    BY <1>0, <2>1, <2>2 DEF IInv
<1> QED
  BY <1>1, <1>2, <1>3, <1>4, <1>5, <1>6, <1>7, <1>8, <1>9, <1>10 DEF Next, Answers

(* Initially no client has asked anything.                                 *)
LEMMA InitInv == Init => IInv
<1> SUFFICES ASSUME Init PROVE IInv
  OBVIOUS
<1>1. TypeOK
  BY NothingAsked DEF Init, TypeOK
<1>2. ASSUME NEW c \in Clients PROVE Sound(request[c], sessions[request[c].id])
  BY NothingAsked DEF Init, Sound, Fresh, Valid, Screened, Complete, Outdated, Fenced, Going, Ok
<1> QED
  BY <1>1, <1>2 DEF IInv, Init

(* The invariant holds throughout.                                         *)
THEOREM RequestsSound == Spec => []IInv
  BY InitInv, InvStep, PTL DEF Spec

(* Every variable keeps its type, whatever the clients call.               *)
THEOREM RequestsTypeCorrect == Spec => []TypeOK
<1>1. IInv => TypeOK
  BY DEF IInv
<1> QED
  BY <1>1, RequestsSound, PTL

(* Once a logout has been answered with ok, no later request with that     *)
(* session id succeeds in a function that requires a session               *)
(* (http.cpp: onUserLogout and the others).                                *)
THEOREM LogoutFencesHolds == Spec => []LogoutFences
<1>1. IInv => LogoutFences
  BY DEF IInv, LogoutFences, Sound, Fenced, Ok
<1> QED
  BY <1>1, RequestsSound, PTL

(* Nothing that requires a session is done for a request by code that      *)
(* trusts the handler, unless the session was at some moment since the     *)
(* request came that of a user with the rights for it (http.cpp, the calls *)
(* of validateSession).                                                    *)
THEOREM ValidatedBeforeUseHolds == Spec => []ValidatedBeforeUse
<1>1. IInv => ValidatedBeforeUse
  <2> SUFFICES ASSUME IInv, NEW c \in Clients, Trusted(request[c]), Acts(request[c]),
                      RequiresSession(request[c].function)
               PROVE  request[c].seen \cap Entitled(request[c].function, request[c].args) # {}
    BY DEF ValidatedBeforeUse
  <2>1. Sound(request[c], sessions[request[c].id]) /\ request[c] \in Requests
    BY RequestIs DEF IInv
  <2>2. Going(request[c])
    BY DEF Acts, Going, Ok
  <2>3. request[c].next = Len(ChecksOf(request[c].function)) + 1
    BY <2>1 DEF Acts, Sound, Complete, Ok
  <2>4. FunctionNameMap_[request[c].function].end \in TrustedEnds
    BY DEF Trusted
  <2> QED
    BY <2>1, <2>2, <2>3, <2>4, ScreenedIsNotLate DEF EntitledOnce
<1> QED
  BY <1>1, RequestsSound, PTL

-----------------------------------------------------------------------------
(* Causes of refusals.                                                     *)

(* An answer is left alone, or it is the step's.                           *)
LEMMA AnsweredBy ==
  ASSUME TypeOK, [Next]_vars, NEW c \in Clients, request'[c].stage = "answered"
  PROVE  request'[c] = request[c] \/ Answers(c) \/ LogOut(c)
<1>1. CASE UNCHANGED vars
  BY <1>1 DEF vars
<1>2. ASSUME NEW d \in Clients, Arrive(d) PROVE request'[c] = request[c]
  <2>1. PICK r : Arrived(d, r)
    BY <1>2, ArriveIs
  <2> QED
    BY <2>1 DEF Arrived, TypeOK
<1>3. ASSUME NEW d \in Clients, Parsed(d) \/ CallService(d) PROVE request'[c] = request[c]
  BY <1>3 DEF Parsed, CallService, TypeOK, Requests
<1>4. ASSUME NEW d \in Clients, CheckPasses(d) PROVE request'[c] = request[c]
  BY <1>4 DEF CheckPasses, TypeOK, Requests
<1>5. ASSUME NEW d \in Clients, Answers(d), d # c PROVE request'[c] = request[c]
  BY <1>5, AnswersIs, AnsweredIs
<1>6. ASSUME NEW d \in Clients, Replied(d) PROVE request'[c] = request[c]
  BY <1>6, NothingAsked DEF Replied, TypeOK
<1>7. ASSUME NEW id \in Ids, request'[c] = Witness(request[c], id)
      PROVE  request'[c] = request[c]
  BY <1>7, RequestIs DEF Witness, Requests
<1>8. ASSUME NEW d \in Clients, LogOut(d), d # c PROVE request'[c] = request[c]
  <2>1. CASE sessions[request[d].id] = "none"
    BY <1>8, <2>1, AnsweredIs DEF LogOut, Statuses
  <2>2. CASE sessions[request[d].id] # "none"
    BY <1>7, <1>8, <2>2, RequestIs DEF LogOut
  <2> QED
    BY <2>1, <2>2
<1>9. ASSUME NEW id \in Ids, SessionExpires(id) PROVE request'[c] = request[c]
  BY <1>7, <1>9 DEF SessionExpires
<1> QED
  BY <1>1, <1>2, <1>3, <1>4, <1>5, <1>6, <1>8, <1>9 DEF Next, Answers

(* A failed check has the cause that it reports.                           *)
LEMMA FailureJustified ==
  ASSUME IInv, NEW c \in Clients, CheckFails(c)
  PROVE  Justified(request'[c])
<1> DEFINE k == CurrentCheck(c)
           r == request[c]
<1>1. /\ TypeOK /\ r.stage = "check" /\ r.next <= Len(handler(c).checks)
      /\ ~Passes(k, r.args, r.facts, SessionOf(c)) /\ Answered(c, k.status)
  BY DEF CheckFails, IInv
<1>2. /\ r.next \in 1..Len(ChecksOf(r.function)) /\ r.function \in Functions
      /\ k = ChecksOf(r.function)[r.next] /\ k \in SessionChecks \cup OtherChecks
      /\ k.status \in Statuses
  BY <1>1, CheckAt, RequestIs
<1>3. Alike(r, request'[c]) /\ request'[c].status = k.status
  BY <1>1, <1>2, AnsweredIs
<1>4. CASE k \in OtherChecks
  <2>1. /\ k.status = "json_format_error" =>
             r.function = "backendPoolLuck" /\ "increasing" \notin r.facts
        /\ k.status = "unknown_id" =>
             r.function = "userGetCredentials" /\ "credentials" \notin r.facts
        /\ k.status = "invalid_coin" =>
             ~({"coin", "sha256"} \subseteq r.facts) \/ ~Given(r.args, "coin")
        /\ k.status = "unknown_column_name" => "column" \notin r.facts
        /\ k.status = "request_format_error" => "money" \notin r.facts
        /\ k.status = "invalid_address" => "address" \notin r.facts
        /\ k.status = "invalid_interval" => "interval" \notin r.facts
    BY <1>1, <1>2, <1>4, ChecksHaveCause, OwnChecks
  <2> QED
    BY <1>3, <2>1 DEF Justified, Alike
<1>5. CASE k \in SessionChecks
  <2>1. k.status = "unknown_id"
    BY <1>5, SessionsUnknown
  <2>2. SUFFICES ASSUME SessionGiven(r.args) PROVE ~(r.seen \subseteq Entitled(r.function, r.args))
    BY <1>3, <2>1 DEF Justified, Alike
  <2>3. SessionOf(c) = sessions[r.id] /\ sessions[r.id] \in r.seen /\ sessions[r.id] \in Sessions
    BY <1>1, <2>2, RequestIs DEF SessionOf, IInv, Sound, Fresh
  <2>4. /\ r.args \in [Args(r.function) -> ArgStates]
        /\ r.function = "userCreate" => Given(r.args, "id")
    BY <1>1, <2>2, NoSessionId DEF TypeOK, SessionGiven, Given
  <2>5. sessions[r.id] \notin Entitled(r.function, r.args)
    <3> DEFINE f == r.function
               i == r.next
               args == r.args
               session == sessions[r.id]
    <3>1. /\ f \in Functions /\ i \in 1..Len(ChecksOf(f)) /\ ChecksOf(f)[i] \in SessionChecks
          /\ args \in [Args(f) -> ArgStates] /\ session \in Sessions
          /\ f = "userCreate" => Given(args, "id")
          /\ ~Passes(ChecksOf(f)[i], args, r.facts, session)
      BY <1>1, <1>2, <1>5, <2>3, <2>4
    <3> HIDE DEF f, i, args, session
    <3>2. session \notin Entitled(f, args)
      BY <3>1, RightsAreTested
    <3> QED
      BY <3>2 DEF f, args, session
  <2> QED
    BY <2>3, <2>5
<1> QED
  BY <1>2, <1>4, <1>5

(* The format of the arguments is refused because of one of them.          *)
LEMMA FormatJustified ==
  ASSUME TypeOK, NEW c \in Clients, FormatError(c)
  PROVE  Justified(request'[c])
<1> DEFINE f == request[c].function
           args == request[c].args
<1>1. args \in [Args(f) -> ArgStates] /\ ~validAcc(f, args) /\ Answered(c, "json_format_error")
  BY DEF FormatError, TypeOK
<1>2. \E a \in DOMAIN args : args[a] # "good"
  BY <1>1 DEF validAcc, ParsedRequired, ParsedOptional, Args
<1>3. Alike(request[c], request'[c]) /\ request'[c].status = "json_format_error"
  BY <1>1, AnsweredIs DEF Statuses
<1> QED
  BY <1>2, <1>3 DEF Justified, Alike

(* Every refusal has its cause when it is sent.                            *)
LEMMA JustifiedStep == IInv /\ StatusJustified /\ [Next]_vars => StatusJustified'
<1> SUFFICES ASSUME IInv, StatusJustified, [Next]_vars, NEW c \in Clients
             PROVE  Justified(request'[c])
  BY DEF StatusJustified
<1>0. TypeOK /\ TypeOK'
  BY TypeStep DEF IInv
<1>1. CASE request'[c].stage # "answered"
  BY <1>0, <1>1 DEF TypeOK, Justified
<1>2. CASE request'[c] = request[c]
  BY <1>2 DEF StatusJustified
<1>3. ASSUME NEW status \in {"invalid_json", "ok", "service_error"}, Answered(c, status)
      PROVE  Justified(request'[c])
  BY <1>0, <1>3, AnsweredIs DEF Justified, Statuses
<1>4. ASSUME Answered(c, "unknown_id"), ~Trusted(request[c]) PROVE Justified(request'[c])
  BY <1>0, <1>4, AnsweredIs DEF Justified, Statuses, Trusted, Alike
<1>5. CASE InvalidJson(c) \/ ReplyOk(c) \/ Serve(c)
  BY <1>3, <1>5 DEF InvalidJson, ReplyOk, Serve
<1>6. CASE FormatError(c)
  BY <1>0, <1>6, FormatJustified
<1>7. CASE CheckFails(c)
  BY <1>7, FailureJustified
<1>8. CASE AskManager(c) \/ ServeDelegate(c)
  BY <1>3, <1>4, <1>8 DEF AskManager, ServeDelegate, Checked, handler, Trusted, TrustedEnds
<1>9. CASE LogOut(c)
  <2>1. ~Trusted(request[c])
    BY <1>9, TableIs DEF LogOut, Trusted, TrustedEnds, Handler, onUserLogout
  <2>2. CASE sessions[request[c].id] = "none"
    BY <1>4, <1>9, <2>1, <2>2 DEF LogOut
  <2>3. CASE sessions[request[c].id] # "none"
    <3>1. request'[c].status = "ok"
      BY <1>0, <1>9, <2>3, RequestIs DEF LogOut, Requests
    <3> QED
      BY <3>1 DEF Justified
  <2> QED
    BY <2>2, <2>3
<1> QED
  BY <1>0, <1>1, <1>2, <1>5, <1>6, <1>7, <1>8, <1>9, AnsweredBy DEF Answers

(* A refusal has the cause its status names (http.cpp, replyWithStatus in  *)
(* the handlers).                                                          *)
THEOREM StatusJustifiedHolds == Spec => []StatusJustified
<1>1. Init => StatusJustified
  BY NothingAsked DEF Init, StatusJustified, Justified
<1> QED
  BY <1>1, JustifiedStep, RequestsSound, PTL DEF Spec
=============================================================================
