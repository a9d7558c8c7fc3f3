------------------------------ MODULE MCImages ------------------------------
(* The instances of Images that TLC checks. *)
EXTENDS Images, Sequences, SequencesExt, TLC
-----------------------------------------------------------------------------
(* Trees of up to two levels, in which names differ only in case, a name   *)
(* is so long that records fill sectors and Joliet's do not fit their      *)
(* length's byte, and files are larger than what one extent may hold.      *)

File(size) == [dir |-> FALSE, size |-> size]
Dir == [dir |-> TRUE, size |-> 0]
Absent == [dir |-> FALSE, size |-> -1]
Item(path, item) == IF item = Absent THEN <<>> ELSE path :> item

Folder(path, a, l) == (path :> Dir) @@ Item(Append(path, "a"), a) @@ Item(Append(path, "l"), l)

ShortNamed(x) ==
  {<<>>, (<<x>> :> File(0)), (<<x>> :> File(1025))}
    \cup {Folder(<<x>>, a, l) : a \in {Absent, Dir}, l \in {Absent, File(1024)}}

LongNamed == {<<>>, (<<"l">> :> File(1023)), (<<"l">> :> Dir)}

MCNameOrder == <<"A", "a", "l">>
MCUpper == [A |-> "A", a |-> "A", l |-> "L"]
MCNameLen == [A |-> 1, a |-> 1, l |-> 194, L |-> 194]

MCTrees ==
  {((<<>>) :> File(0))}
    \cup {((<<>>) :> Dir) @@ x @@ y @@ z : x \in ShortNamed("A"), y \in ShortNamed("a"), z \in LongNamed}

(* CHD images of every version that differs, whole and with hunks missing, *)
(* and CD images with one and more tracks, of one and of several sizes,    *)
(* tags, and numbers of frames that fit the hunks or do not.               *)

Track(size, frames) == [size |-> size, frames |-> frames]
Hunks(version, logical, hunks) ==
  [valid |-> TRUE, version |-> version, codecs |-> "plain", logical |-> logical, hunks |-> hunks, 
   tracks |-> <<<<>>, <<>>, <<>>>>]
Cd(logical, tracks_) ==
  [valid |-> TRUE, version |-> 5, codecs |-> "cd", logical |-> logical, hunks |-> (logical + 5) \div 6,
   tracks |-> tracks_]

MCChds ==
  {[Hunks(5, 6, 1) EXCEPT !.valid = FALSE], [Hunks(5, 6, 1) EXCEPT !.codecs = "mixed"],
   Hunks(5, 13, 3), Hunks(5, 12, 2), Hunks(4, 12, 1), Hunks(2, 12, 2),
   Cd(15, <<<<>>, <<Track(2, 5)>>, <<>>>>), Cd(12, <<<<>>, <<Track(2, 1), Track(2, 2)>>, <<>>>>),
   Cd(12, <<<<>>, <<Track(2, 1)>>, <<Track(2, 2)>>>>), Cd(12, <<<<>>, <<Track(2, 1), Track(3, 2)>>, <<>>>>),
   Cd(12, <<<<>>, <<Track(2, 5)>>, <<>>>>), Cd(12, <<<<>>, <<>>, <<>>>>), Cd(13, <<<<>>, <<>>, <<Track(2, 2)>>>>)}

(* One file, that is what its name says or not, and one that has a name of *)
(* an image next to what looks like the image under its listed name.       *)

Content(f, mark, hasMap) == [form |-> f, mark |-> mark, map |-> hasMap]
Contents(f) == {Content(f, mark, hasMap) : mark \in {"none", "enc", "dec"}, hasMap \in BOOLEAN}
Folder0 == Content("dir", "none", FALSE)
Plain0 == Content("data", "none", FALSE)
Alone(name_, contents) == {(name_ :> c) : c \in contents}

MCNames == {<<"iso">>, <<"bin">>, <<"cso">>, <<"cso", "iso">>, <<"zst", "iso">>, <<"chd">>}

MCDisks ==
  Alone(<<"iso">>, Contents("data") \cup {Folder0}) \cup Alone(<<"bin">>, Contents("data") \cup {Folder0})
    \cup Alone(<<"cso">>, Contents("cso") \cup {Plain0, Folder0, Content("stub", "none", FALSE)})
    \cup Alone(<<"zst">>, Contents("zst") \cup {Plain0, Folder0})
    \cup Alone(<<"chd">>, Contents("chd") \cup {Plain0, Folder0})
    \cup Alone(<<"cso", "iso">>, Contents("data"))
    \cup {(<<"cso">> :> c) @@ (<<"cso", "iso">> :> Plain0) : c \in Contents("cso")}

(* Region maps of two and more regions, adjacent ones among them, and maps *)
(* that are refused; the 3k3y area goes over the end of a sector.          *)

Region(s, e) == [start |-> s, end |-> e]
MCMaps ==
  {<<Region(0, 1), Region(2, 4), Region(5, 6)>>, <<Region(0, 2), Region(4, 5)>>, <<Region(0, 2), Region(2, 5)>>,
   <<Region(0, 2)>>, <<Region(1, 2), Region(3, 4)>>, <<Region(0, 0), Region(1, 2)>>,
   <<Region(0, 1), Region(4, 5), Region(2, 3), Region(5, 6)>>}
=============================================================================
