--------------------------- MODULE MCIdleTracker ---------------------------
(* Instances of IdleTracker for TLC.                                       *)
EXTENDS IdleTracker

CONSTANTS c1, c2, c3

\* Two clients race in every way the two calls can interleave; the third is
\* there while they do.
MCClient == {c1, c2, c3}
=============================================================================
