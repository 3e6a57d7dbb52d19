-------------------------- MODULE MCRequestRouting --------------------------
(* An instance of RequestRouting for TLC.  The algorithm of coin 1 has the *)
(* name of coin 2, that of coin 3 the name of the coin itself.             *)
EXTENDS RequestRouting

ThreeNames == 1..3
ThreeCoins == 1..3
Algorithms == <<2, 3, 3>>
=============================================================================
