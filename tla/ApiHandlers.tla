---------------------------- MODULE ApiHandlers ----------------------------
(***************************************************************************)
(* The request handlers of src/src/http.cpp as data: what each reads from  *)
(* the JSON document, what it checks, in which order and with which status *)
(* it gives up, and how it ends.  The members of a reply are left out.     *)
(***************************************************************************)
EXTENDS Integers, Sequences

(* An argument is absent, of the right type, or mistyped.  "credentials"   *)
(* stands for the optional members that parseUserCredentials reads, and    *)
(* "items" for the elements of an array argument.                          *)
ArgStates == {"absent", "good", "mistyped"}

(* What the session named by the argument id (or sessionId) is: none, of a *)
(* read-only user, of a user, of "observer" or of "admin".                 *)
Sessions == {"none", "readonly", "user", "observer", "admin"}

(* validateSession: the id is known, has write access if that is needed,   *)
(* and is the administrator's if another login is addressed.               *)
validateSession(session, target, write) ==
  /\ session # "none"
  /\ write => session # "readonly"
  /\ target => session = "admin"

-----------------------------------------------------------------------------
(* jsonParseString, jsonParseInt64, ... with and without a default value.  *)
ParsedRequired(arg) == arg = "good"
ParsedOptional(arg) == arg \in {"absent", "good"}

(* A handler: its required, optional and lenient arguments (a lenient one  *)
(* is ignored when it is mistyped), its checks in order, and its end:      *)
(*   "reply"    it replies itself,                                         *)
(*   "effect"   it changes something, then replies ok,                     *)
(*   "manager"  it replies with what a call of the user manager returned,  *)
(*   "service"  it pins the socket and calls a service,                    *)
(*   "delegate" the same, with the session id for the service to check.    *)
Handler(required, optional, checks, end) ==
  [required |-> required, optional |-> optional, lenient |-> {},
   checks |-> checks, end |-> end]

Check(test, status) == [test |-> test, status |-> status]
Session    == Check("session", "unknown_id")
OwnSession == Check("sessionIfGiven", "unknown_id")
Writer     == Check("writer", "unknown_id")
Observer   == Check("observer", "unknown_id")
Admin      == Check("admin", "unknown_id")
Backend    == Check("backend", "invalid_coin")
AnyBackend == Check("backendIfGiven", "invalid_coin")
Statistic  == Check("statistic", "invalid_coin")
AnyStatistic == Check("statisticIfGiven", "invalid_coin")
Sha256Statistic == Check("statisticOrSha256", "invalid_coin")
Column     == Check("column", "unknown_column_name")

\* Mutations of handlers: checks that are forgotten or too strict.
onUserGetSettingsForWriters == Handler({"id"}, {"targetLogin"}, <<Writer>>, "reply")
onBackendManualPayoutByReaders ==
  Handler({"id"}, {"targetLogin", "coin"}, <<Session, Backend>>, "service")
onBackendQueryUserBalanceOfAnyone ==
  Handler({"id"}, {"targetLogin", "coin"}, <<AnyBackend>>, "service")

\* The user manager.
onUserAction == Handler({"actionId"}, {"newPassword", "totp"}, <<>>, "service")
onUserCreate == Handler({}, {"id", "credentials"}, <<OwnSession>>, "service")
onUserResendEmail == Handler({}, {"credentials"}, <<>>, "service")
onUserLogin == Handler({}, {"credentials"}, <<>>, "service")
onUserLogout == Handler({"id"}, {}, <<>>, "delegate")
onUserQueryMonitoringSession == Handler({"id"}, {"targetLogin"}, <<>>, "delegate")
onUserChangeEmail == Handler({}, {}, <<>>, "reply")
onUserChangePasswordInitiate == Handler({"login"}, {}, <<>>, "service")
onUserChangePasswordForce ==
  Handler({"id", "login", "newPassword"}, {}, <<>>, "delegate")
onUserGetCredentials ==
  Handler({"id"}, {"targetLogin"}, <<Session, Check("credentials", "unknown_id")>>, "reply")
onUserGetSettings == Handler({"id"}, {"targetLogin"}, <<Session>>, "reply")
onUserUpdateCredentials ==
  Handler({"id"}, {"targetLogin", "credentials"}, <<>>, "delegate")
onUserUpdateSettings ==
  Handler({"id", "coin", "address", "payoutThreshold", "autoPayoutEnabled"},
          {"targetLogin", "totp"},
          <<Check("payoutCoin", "invalid_coin"), Check("money", "request_format_error"),
            Check("address", "invalid_address"), Writer>>, "service")
onUserEnumerateAll ==
  Handler({"id"}, {"coin", "offset", "size", "sortBy", "sortDescending"},
          <<Column, Sha256Statistic>>, "delegate")
onUserUpdateFeePlan ==
  [Handler({"id", "feePlanId", "default"}, {"items"},
           <<Check("feeCoins", "invalid_coin")>>, "delegate")
   EXCEPT !.lenient = {"coinSpecificFee"}]
onUserEnumerateFeePlan == Handler({"id"}, {}, <<>>, "manager")
onUserGetFeePlan == Handler({"id", "feePlanId"}, {}, <<>>, "manager")
onUserChangeFeePlan == Handler({"id", "targetLogin", "feePlanId"}, {}, <<>>, "delegate")
onUserActivate2faInitiate == Handler({"sessionId"}, {"targetLogin"}, <<>>, "delegate")
onUserDeactivate2faInitiate == Handler({"sessionId"}, {"targetLogin"}, <<>>, "delegate")

\* The backends and the statistic servers.
onBackendManualPayout ==
  Handler({"id"}, {"targetLogin", "coin"}, <<Writer, Backend>>, "service")
onBackendQueryUserBalance ==
  Handler({"id"}, {"targetLogin", "coin"}, <<Session, AnyBackend>>, "service")
onBackendQueryUserStats ==
  Handler({"id"}, {"targetLogin", "coin", "offset", "size", "sortBy", "sortDescending"},
          <<Column, Session, Statistic>>, "service")
onBackendQueryUserStatsHistory ==
  Handler({"id"}, {"targetLogin", "coin", "timeFrom", "timeTo", "groupByInterval"},
          <<Session, Statistic>>, "reply")
onBackendQueryWorkerStatsHistory ==
  Handler({"id", "coin", "workerId"}, {"targetLogin", "timeFrom", "timeTo", "groupByInterval"},
          <<Session, Statistic>>, "reply")
onBackendQueryCoins == Handler({}, {}, <<>>, "reply")
onBackendQueryFoundBlocks ==
  Handler({"coin"}, {"heightFrom", "hashFrom", "count"}, <<Backend>>, "service")
onBackendQueryPayouts ==
  Handler({"id"}, {"targetLogin", "coin", "timeFrom", "count"}, <<Session, Backend>>, "reply")
onBackendQueryPoolBalance == Handler({}, {}, <<>>, "reply")
onBackendQueryPoolStats == Handler({}, {"coin"}, <<AnyStatistic>>, "service")
onBackendQueryPoolStatsHistory ==
  Handler({}, {"coin", "timeFrom", "timeTo", "groupByInterval"}, <<Statistic>>, "reply")
onBackendQueryProfitSwitchCoeff == Handler({"id"}, {}, <<Observer>>, "reply")
onBackendQueryPPLNSPayouts ==
  Handler({"id", "coin"}, {"targetLogin", "timeFrom", "hashFrom", "count"},
          <<Session, Backend>>, "service")
onBackendQueryPPLNSAcc ==
  Handler({"id", "coin", "timeFrom", "timeTo", "groupByInterval"}, {"targetLogin"},
          <<Session, Backend, Check("interval", "invalid_interval")>>, "service")
onBackendUpdateProfitSwitchCoeff ==
  Handler({"id", "profitSwitchCoeff"}, {"coin"}, <<Admin, Backend>>, "effect")
onBackendPoolLuck ==
  Handler({"coin", "intervals"}, {},
          <<Backend, Check("increasing", "json_format_error")>>, "service")

\* The others.
onInstanceEnumerateAll == Handler({}, {}, <<>>, "reply")
onComplexMiningStatsGetInfo == Handler({"id"}, {}, <<Admin>>, "service")

-----------------------------------------------------------------------------
(* FunctionNameMap_ and the switch of onParse.                             *)
FunctionNameMap_ ==
  [userAction |-> onUserAction,
   userCreate |-> onUserCreate,
   userResendEmail |-> onUserResendEmail,
   userLogin |-> onUserLogin,
   userLogout |-> onUserLogout,
   userQueryMonitoringSession |-> onUserQueryMonitoringSession,
   userChangeEmail |-> onUserChangeEmail,
   userChangePasswordForce |-> onUserChangePasswordForce,
   userChangePasswordInitiate |-> onUserChangePasswordInitiate,
   userGetCredentials |-> onUserGetCredentials,
   userGetSettings |-> onUserGetSettings,
   userUpdateCredentials |-> onUserUpdateCredentials,
   userUpdateSettings |-> onUserUpdateSettings,
   userEnumerateAll |-> onUserEnumerateAll,
   userEnumerateFeePlan |-> onUserEnumerateFeePlan,
   userGetFeePlan |-> onUserGetFeePlan,
   userUpdateFeePlan |-> onUserUpdateFeePlan,
   userChangeFeePlan |-> onUserChangeFeePlan,
   userActivate2faInitiate |-> onUserActivate2faInitiate,
   userDeactivate2faInitiate |-> onUserDeactivate2faInitiate,
   backendManualPayout |-> onBackendManualPayout,
   backendQueryCoins |-> onBackendQueryCoins,
   backendQueryFoundBlocks |-> onBackendQueryFoundBlocks,
   backendQueryPayouts |-> onBackendQueryPayouts,
   backendQueryPoolBalance |-> onBackendQueryPoolBalance,
   backendQueryPoolStats |-> onBackendQueryPoolStats,
   backendQueryPoolStatsHistory |-> onBackendQueryPoolStatsHistory,
   backendQueryProfitSwitchCoeff |-> onBackendQueryProfitSwitchCoeff,
   backendQueryUserBalance |-> onBackendQueryUserBalance,
   backendQueryUserStats |-> onBackendQueryUserStats,
   backendQueryUserStatsHistory |-> onBackendQueryUserStatsHistory,
   backendQueryWorkerStatsHistory |-> onBackendQueryWorkerStatsHistory,
   backendQueryPPLNSPayouts |-> onBackendQueryPPLNSPayouts,
   backendQueryPPLNSAcc |-> onBackendQueryPPLNSAcc,
   backendUpdateProfitSwitchCoeff |-> onBackendUpdateProfitSwitchCoeff,
   backendPoolLuck |-> onBackendPoolLuck,
   instanceEnumerateAll |-> onInstanceEnumerateAll,
   complexMiningStatsGetInfo |-> onComplexMiningStatsGetInfo]

Functions == DOMAIN FunctionNameMap_
Args(f) == LET h == FunctionNameMap_[f] IN h.required \cup h.optional \cup h.lenient

(* validAcc at the end of the parsing of the document.                     *)
validAcc(f, args) ==
  LET h == FunctionNameMap_[f] IN
    /\ \A a \in h.required : ParsedRequired(args[a])
    /\ \A a \in h.optional : ParsedOptional(args[a])

(* A check of a handler.  `facts' are the tests of values that hold: the   *)
(* coin named is a backend, the column is known, ...  An absent coin is "",*)
(* which is the name of none, except where the default is "sha256".        *)
Given(args, a) == a \in DOMAIN args /\ args[a] = "good"

Passes(check, args, facts, session) ==
  LET target == Given(args, "targetLogin") IN
  CASE check.test = "session" -> validateSession(session, target, FALSE)
    [] check.test = "writer" -> validateSession(session, target, TRUE)
    [] check.test = "sessionIfGiven" ->
         Given(args, "id") => validateSession(session, FALSE, FALSE)
    [] check.test = "observer" ->
         validateSession(session, FALSE, FALSE) /\ session \in {"admin", "observer"}
    [] check.test = "admin" -> validateSession(session, FALSE, FALSE) /\ session = "admin"
    [] check.test \in {"backend", "statistic"} -> Given(args, "coin") /\ "coin" \in facts
    [] check.test \in {"backendIfGiven", "statisticIfGiven"} ->
         Given(args, "coin") => "coin" \in facts
    [] check.test = "statisticOrSha256" ->
         IF Given(args, "coin") THEN "coin" \in facts ELSE "sha256" \in facts
    [] check.test = "column" -> Given(args, "sortBy") => "column" \in facts
    [] check.test = "feeCoins" -> Given(args, "coinSpecificFee") => "coin" \in facts
    [] check.test = "payoutCoin" -> "coin" \in facts
    [] OTHER -> check.test \in facts

Facts == {"coin", "sha256", "column", "credentials", "money", "address", "interval", "increasing"}

(* The facts a check looks at.                                             *)
Uses(check) ==
  CASE check.test \in {"backend", "statistic", "backendIfGiven", "statisticIfGiven",
                       "feeCoins", "payoutCoin"} -> {"coin"}
    [] check.test = "statisticOrSha256" -> {"coin", "sha256"}
    [] OTHER -> {check.test} \cap Facts

FactsOf(f) == LET h == FunctionNameMap_[f] IN
  UNION {Uses(h.checks[i]) : i \in 1..Len(h.checks)}
=============================================================================
