-------------------------- MODULE MCPoolLifecycle --------------------------
(* Instances of PoolLifecycle for TLC.                                     *)
EXTENDS PoolLifecycle

CONSTANTS btc, bch, ltc, sha256, scrypt, i1, h1, h2

TwoCoins == {btc, ltc}
ThreeCoins == {btc, bch, ltc}
TwoAlgorithms == {sha256, scrypt}
OneInstance == {i1}
OneThread == {h1}
TwoThreads == {h1, h2}
=============================================================================
