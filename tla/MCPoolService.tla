--------------------------- MODULE MCPoolService ---------------------------
(* An instance of PoolService for TLC.                                     *)
EXTENDS PoolService

CONSTANTS c1, h1, h2, btc, sha256

OneConn == {c1}
TwoThreads == {h1, h2}
OneCoin == {btc}
OneAlgorithm == {sha256}
NoInstance == {}
=============================================================================
