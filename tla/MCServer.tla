------------------------------ MODULE MCServer ------------------------------
(* Instances of Server for TLC.                                            *)
EXTENDS Server, TLC

CONSTANTS c1, c2, c3, c4

\* Three clients of the whitelist compete for two places, with a fourth that is
\* not on it.
MCConn == {c1, c2, c3, c4}
MCAllowed == {c1, c2, c3}
=============================================================================
