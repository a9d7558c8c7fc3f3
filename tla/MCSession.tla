----------------------------- MODULE MCSession -----------------------------
(* Instances of Session for TLC.                                           *)
EXTENDS Session, TLC

CONSTANTS i1, i2, i3, i4, f1, d1

\* Three slots and the handle an OpenDir holds beside them before it closes
\* the old one: with four every handler can succeed, with three some opens fail.
MCIds == {i1, i2, i3, i4}
MCFewIds == {i1, i2, i3}
MCTwoIds == {i1, i2}
MCIdSymmetry == Permutations(MCIds)

\* An image with 2048-byte sectors and a directory (which OPEN_FILE opens too,
\* as a file without sectors).
MCFiles == {f1}
MCDirs == {d1}
MCSectorOf == [n \in MCFiles \cup MCDirs |-> IF n = f1 THEN 2048 ELSE 0]
MCEntriesOf == [d \in MCDirs |-> 1]

\* Bytes of a payload that decode as commands with and without effect.
MCPayloadOps == {"Unknown", "Stat", "Mkdir", "CloseFile"}
=============================================================================
