-------------------------- MODULE MCHttpConnection --------------------------
(* Instances of HttpConnection for TLC.                                    *)
EXTENDS HttpConnection

CONSTANTS c1, c2, h1, h2, h3, s1

OneConn == {c1}
TwoConns == {c1, c2}
TwoThreads == {h1, h2}
ThreeThreads == {h1, h2, h3}
OneService == {s1}
=============================================================================
