--------------------------- MODULE MCApiRequests ---------------------------
(* Instances of ApiRequests for TLC.                                       *)
EXTENDS ApiContract

CONSTANTS a, b, i1

OneClient == {a}
TwoClients == {a, b}
OneId == {i1}

\* A logout and one function of each way to use a session.
Racing == {"userLogout", "userGetSettings", "userUpdateSettings", "backendManualPayout",
           "backendQueryUserBalance", "userUpdateCredentials", "userGetFeePlan",
           "backendUpdateProfitSwitchCoeff"}
=============================================================================
