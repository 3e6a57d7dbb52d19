---------------------------- MODULE ApiContract ----------------------------
(***************************************************************************)
(* What src/doc/httpApi.md says of the arguments and of the status values, *)
(* as properties of ApiRequests.  The rows name only what the properties   *)
(* need; "credentials" stands for the members that parseUserCredentials    *)
(* reads, of which userCreate documents three as required.                 *)
(***************************************************************************)
EXTENDS ApiRequests

\* [required] arguments.  A function without a row documents none.
DocRequired ==
  [userChangePasswordForce |-> {"id", "login", "newPassword"},
   userCreate |-> {"credentials"},
   userAction |-> {"actionId"},
   userGetCredentials |-> {"id"},
   userUpdateCredentials |-> {"id", "credentials"},
   userGetSettings |-> {"id"},
   userUpdateSettings |-> {"id", "coin", "address", "payoutThreshold", "autoPayoutEnabled"},
   userEnumerateAll |-> {"id", "coin"},
   userEnumerateFeePlan |-> {"id"},
   userGetFeePlan |-> {"id", "feePlanId"},
   userUpdateFeePlan |-> {"id", "feePlanId", "default"},
   userChangeFeePlan |-> {"id", "feePlanId"},
   userActivate2faInitiate |-> {"sessionId"},
   userDeactivate2faInitiate |-> {"sessionId"},
   backendManualPayout |-> {"id", "coin"},
   backendQueryUserBalance |-> {"id"},
   backendQueryPayouts |-> {"id", "coin"},
   backendQueryPoolStatsHistory |-> {"coin"},
   backendQueryUserStats |-> {"id", "coin"},
   backendQueryUserStatsHistory |-> {"id", "coin"},
   backendQueryWorkerStatsHistory |-> {"id", "coin", "workerId"},
   backendQueryProfitSwitchCoeff |-> {"id"},
   backendUpdateProfitSwitchCoeff |-> {"id", "coin", "profitSwitchCoeff"}]

\* "Common status values suitable for all operations".
DocCommonStatuses == {"ok", "invalid_json", "json_format_error", "request_format_error"}

\* The ones documented besides them, where the list is of what a handler
\* itself can reply; "service_error" stands for those of the service.
DocStatuses ==
  [userUpdateSettings |-> {"unknown_id", "service_error"},
   userEnumerateAll |-> {"unknown_id", "unknown_column_name", "service_error"},
   userUpdateFeePlan |-> {"unknown_id", "invalid_coin", "service_error"}]

Refused(c, status) == request[c].stage = "answered" /\ request[c].status = status

Readable(c) == request[c].stage = "answered" /\ request[c].object

(* "json_format_error: missed argument or argument type mismatch"          *)
(* (httpApi.md:43), with the marks "[required] coin:string" of             *)
(* userEnumerateAll (httpApi.md:370), "[optional] targetLogin:string" of   *)
(* userChangeFeePlan (httpApi.md:568) and the like: a request is refused   *)
(* for its format if, and only if, it leaves out an argument that is       *)
(* marked as required or one of its arguments has the wrong type.          *)
ArgumentsAsDocumented ==
  \A c \in Clients : LET f == request[c].function
                        args == request[c].args IN
    Readable(c) /\ f \in DOMAIN DocRequired
      => (Refused(c, "json_format_error")
            <=> \/ \E a \in DOMAIN args : args[a] = "mistyped"
                \/ \E a \in DocRequired[f] : args[a] = "absent")

(* "status:string - can be one of common status values or: unknown_id"     *)
(* (httpApi.md:353-354) of userUpdateSettings and the like: no other       *)
(* status is replied.                                                      *)
StatusIsDocumented ==
  \A c \in Clients : LET r == request[c] IN
    r.stage = "answered" /\ r.function \in DOMAIN DocStatuses
      => r.status \in DocCommonStatuses \cup DocStatuses[r.function]
=============================================================================
