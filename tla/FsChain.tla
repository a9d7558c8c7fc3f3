------------------------------ MODULE FsChain ------------------------------
(***************************************************************************)
(* Opening and announcing what a root holds: FS.Open and FS.Stat           *)
(* (pkg/fs/fs.go) with the openers of virtual, CHD, compressed and         *)
(* seekable zstd images and the wrappers that decrypt and mask, in the     *)
(* order cmd/ps3netsrv-go/server.go lists them.                            *)
(*                                                                         *)
(* A name is the sequence of its extensions, since nothing else of it      *)
(* decides anything; FS.Open is a step for each opener and each wrapper,   *)
(* any of which may fail, and the file is seen as its layers from the      *)
(* inside out.  What is read through them is in the modules of the images. *)
(*                                                                         *)
(* A session waits for each call, so one runs at a time.                   *)
(***************************************************************************)
EXTENDS Integers, Sequences, SequencesExt

CONSTANTS
  Names,        \* names that are asked for
  Disks         \* served directories: from names to what is there

(* What is there: [form, mark, map].  form is "dir", "stub" (shorter than  *)
(* the header of an image), "data" or the image that its content really is *)
(* ("cso", "zst", "chd"); mark is what a read of the 3k3y area finds       *)
(* ("none", "enc" with a key, "dec"); map says that it begins with a       *)
(* region map NewEncryptedISO accepts.                                     *)

DisksAssumption == \A d \in Disks : \A n \in DOMAIN d : d[n].mark \in {"none", "enc", "dec"}

VARIABLES
  disk,
  redumpKey,    \* the key file found for the name of an open file: "none", "good", "bad"
  chdEnabled,   \* libchdr was found
  virtual,      \* the path asked for begins with ***DVD*** or ***PS3***
  name,         \* the rest of it
  announced,    \* the opener that answered FS.Stat for it, "native", "error", or "unasked"
  pc,           \* "idle", "viso" ... "native", "stat", "times", "key", "redump", "mask",
                \* "open", "failed", "closed"
  held,         \* the handle of a system file that this Open has
  from,         \* the name of that file
  layers,       \* the file, from the inside out
  lost,         \* where a handle was given up without a Close
  fault         \* history: a failure of the system was met

request == <<disk, redumpKey, chdEnabled, virtual, name>>
vars == <<request, announced, pc, held, from, layers, lost, fault>>

Ext(n) == IF n = <<>> THEN "" ELSE Last(n)

\* canProceed of the openers of .cso and .zst: image.ext and image.ext.iso.
IsImage(n, exts) ==
  \/ Ext(n) \in exts
  \/ Ext(n) = "iso" /\ Ext(Front(n)) \in exts

\* What they open: an image is asked for by the name it is listed under.
Plain(n) == IF Ext(n) = "iso" THEN Front(n) ELSE n

Cso == {"cso", "zso"}
Zst == {"zst"}
Has(n) == n \in DOMAIN disk
Form(n) == IF Has(n) THEN disk[n].form ELSE "nothing"
-----------------------------------------------------------------------------
Init ==
  /\ disk \in Disks /\ redumpKey \in {"none", "good", "bad"}
  /\ chdEnabled \in BOOLEAN /\ virtual \in BOOLEAN /\ name \in Names
  /\ announced = "unasked" /\ pc = "idle" /\ held = FALSE /\ from = <<>>
  /\ layers = <<>> /\ lost = {} /\ fault = FALSE

\* Opener.Stat: the image answers, or leaves it to the next opener, whatever fails.
\* That of compressed images takes any header for one, that of zstd opens the image
\* as Open does; libchdr does not take part in CHD's.
StatAnswer ==
  IF virtual THEN "error"
  ELSE IF chdEnabled /\ Ext(name) = "chd" /\ Form(name) = "chd" THEN "chd"
  ELSE IF IsImage(name, Cso) /\ Form(Plain(name)) \notin {"nothing", "dir", "stub"} THEN "cso"
  ELSE IF IsImage(name, Zst) /\ Form(Plain(name)) = "zst" THEN "zst"
  ELSE IF Has(name) THEN "native"
  ELSE "error"

\* An image of zstd that its reader refuses is left open, and perhaps one it accepts
\* (what its Close closes is not in this repository).
StatLoses ==
  IF ~virtual /\ IsImage(name, Zst) /\ Has(Plain(name))
  THEN IF Form(Plain(name)) = "zst" THEN {{}, {"zstClose"}} ELSE {{"zst"}}
  ELSE {{}}

\* FS.Stat, which is also what dirWrapper shows of an item when it is listed.
Stat ==
  /\ pc = "idle" /\ announced = "unasked"
  /\ announced' = StatAnswer
  /\ \E l \in StatLoses : lost' = lost \cup l
  /\ UNCHANGED <<request, pc, held, from, layers, fault>>

\* A failure of the system on the way: the file itself answers, or nothing.
StatFails ==
  /\ pc = "idle" /\ announced = "unasked"
  /\ announced' \in {"error"} \cup (IF ~virtual /\ Has(name) THEN {"native"} ELSE {})
  /\ fault' = TRUE
  /\ \E l \in StatLoses \cup {{}} \cup (IF StatLoses = {{}} THEN {} ELSE {{"zst"}}) :
       lost' = lost \cup l
  /\ UNCHANGED <<request, pc, held, from, layers>>

Begin ==
  /\ pc = "idle" /\ pc' = "viso"
  /\ UNCHANGED <<request, announced, held, from, layers, lost, fault>>
-----------------------------------------------------------------------------
(* The openers.                                                            *)

Fail ==
  /\ pc' = "failed" /\ layers' = <<>> /\ held' = FALSE
  /\ UNCHANGED <<request, announced, from>>

\* A handle that is held is closed, or is lost where the code leaves it.
FailLosing(where) == Fail /\ lost' = IF held THEN lost \cup {where} ELSE lost

Skip(to) ==
  /\ pc' = to /\ UNCHANGED <<request, announced, held, from, layers, lost, fault>>

Opened(n, ls) ==
  /\ pc' = "stat" /\ held' = TRUE /\ from' = n /\ layers' = ls
  /\ UNCHANGED <<request, announced, lost, fault>>

\* viso: a virtual image opens its files later.
OpenViso ==
  /\ pc = "viso" /\ virtual
  /\ pc' = "stat" /\ from' = name /\ layers' = <<"viso">>
  /\ UNCHANGED <<request, announced, held, lost, fault>>

\* NewVirtualISO does not find a directory, or cannot lay it out.
VisoFails ==
  /\ pc = "viso" /\ virtual
  /\ Fail /\ UNCHANGED <<lost, fault>>

\* Mutant: that libchdr was not found is not looked at.
BlindChd == ~virtual /\ Ext(name) = "chd"

\* canProceed of the opener of .chd.  NewFile has no error that would let the next
\* opener try.
Chd == ~virtual /\ chdEnabled /\ Ext(name) = "chd"

OpenChd == pc = "chd" /\ Chd /\ Form(name) = "chd" /\ Opened(name, <<"native", "chd">>)

\* Mutant: what libchdr refuses is not closed.
LeakyChdFails ==
  /\ pc = "chd" /\ Chd /\ Fail
  /\ \/ fault' = TRUE /\ lost' = lost \cup {"chd"}
     \/ Form(name) # "chd" /\ UNCHANGED <<lost, fault>>

\* Where libchdr refuses the file it is closed.
ChdFails ==
  /\ pc = "chd" /\ Chd /\ Fail /\ UNCHANGED lost
  /\ \/ fault' = TRUE
     \/ Form(name) # "chd" /\ UNCHANGED fault

\* An opener of compressed images, of form f: what it opens, and how it fails: no
\* such file, one that it cannot open, or one that it can open but not read as f.
OpenAs(f, exts) ==
  LET n == Plain(name)
  IN /\ pc = f /\ IsImage(name, exts) /\ Form(n) = f
     /\ Opened(n, <<"native", f>>)

FailsAs(f, exts) ==
  LET n == Plain(name)
  IN /\ pc = f /\ IsImage(name, exts) /\ Fail
     /\ \/ ~Has(n) /\ UNCHANGED <<lost, fault>>
        \/ Has(n) /\ fault' = TRUE /\ lost' \in {lost, lost \cup {f}}
        \/ Has(n) /\ Form(n) # f /\ lost' = lost \cup {f} /\ UNCHANGED fault

OpenCso == OpenAs("cso", Cso)
CsoFails == FailsAs("cso", Cso)
OpenZst == OpenAs("zst", Zst)
ZstFails == FailsAs("zst", Zst)

\* ErrTryNext.
NextOpener ==
  \/ pc = "viso" /\ ~virtual /\ Skip("chd")
  \/ pc = "chd" /\ ~Chd /\ Skip("cso")
  \/ pc = "cso" /\ ~IsImage(name, Cso) /\ Skip("zst")
  \/ pc = "zst" /\ ~IsImage(name, Zst) /\ Skip("native")

OpenNative == pc = "native" /\ Has(name) /\ Opened(name, <<"native">>)

NativeFails ==
  /\ pc = "native" /\ Fail /\ UNCHANGED lost
  /\ \/ ~Has(name) /\ UNCHANGED fault
     \/ fault' = TRUE
-----------------------------------------------------------------------------
(* FS.Open with a file: its Stat, the wrapper of directories, and the      *)
(* wrappers that server.go lists.                                          *)

IsLayer(l) == Contains(layers, l)
IsDir == ~IsLayer("viso") /\ Form(from) = "dir"

\* The extension of File.Name: that of the file, and .iso of a compressed image.
NameIsIso == IsLayer("cso") \/ IsLayer("zst") \/ Ext(from) = "iso"

Wrap(ls, to) ==
  /\ pc' = to /\ layers' = layers \o ls
  /\ UNCHANGED <<request, announced, held, from, lost, fault>>

StatOpened == pc = "stat" /\ Wrap(IF IsDir THEN <<"dir">> ELSE <<>>, "times")

StatOpenedFails == pc = "stat" /\ ~IsLayer("viso") /\ FailLosing("stat") /\ fault' = TRUE

\* FileTimesWrapper.
WrapTimes == pc = "times" /\ Wrap(<<"times">>, "key")

\* Test3k3yImage of a file that is no directory; a virtual image has no mark.
Mark == IF IsDir \/ IsLayer("viso") THEN "none" ELSE disk[from].mark

\* KeyExtractionFileWrapper, for .iso.
ExtractKey ==
  /\ pc = "key"
  /\ Wrap(IF ~NameIsIso THEN <<>>
          ELSE IF Mark = "enc" THEN <<"keyed">>
          ELSE IF Mark = "dec" THEN <<"masked">>
          ELSE <<>>, "redump")

ExtractKeyFails == pc = "key" /\ NameIsIso /\ ~IsDir /\ held /\ FailLosing("wrapper") /\ fault' = TRUE

\* Mutant: a key file is looked for whatever the name.
AnyKey == IF IsLayer("keyed") THEN "good" ELSE redumpKey

\* FileWrapper of encryptediso: a file with a key, or one that is not .iso and has
\* a key file, is decrypted, if it begins with a region map.
Key == IF IsLayer("keyed") THEN "good" ELSE IF NameIsIso THEN "none" ELSE redumpKey
HasMap == ~IsDir /\ ~IsLayer("viso") /\ disk[from].map

Decrypt ==
  /\ pc = "redump"
  /\ \/ Key = "none" /\ Wrap(<<>>, "mask")
     \/ Key = "good" /\ HasMap /\ Wrap(<<"decrypted">>, "mask")

DecryptFails ==
  /\ pc = "redump" /\ Key # "none" /\ FailLosing("wrapper")
  /\ \/ fault' = TRUE
     \/ (Key = "bad" \/ ~HasMap) /\ UNCHANGED fault

\* Mutant: an image that is masked already is not recognised.
RepeatedMask ==
  /\ pc = "mask"
  /\ Wrap(IF Mark # "none" THEN <<"masked">> ELSE <<>>, "open")

\* FileWrapper of iso3k3y, for what is not .iso.
Mask ==
  /\ pc = "mask"
  /\ Wrap(IF IsLayer("masked") \/ NameIsIso \/ Mark = "none" THEN <<>> ELSE <<"masked">>, "open")

MaskFails ==
  /\ pc = "mask" /\ ~IsLayer("masked") /\ ~NameIsIso /\ ~IsDir /\ held
  /\ FailLosing("wrapper") /\ fault' = TRUE

\* The outermost layer passes Close on, down to the file; that of zstd to its
\* reader.  A session closes a file once.
Close ==
  /\ pc = "open" /\ pc' = "closed" /\ held' = FALSE /\ layers' = <<>>
  /\ lost' \in {lost} \cup (IF IsLayer("zst") THEN {lost \cup {"zstClose"}} ELSE {})
  /\ UNCHANGED <<request, announced, from, fault>>

Next == \/ Stat \/ StatFails \/ Begin
        \/ OpenViso \/ VisoFails \/ OpenChd \/ ChdFails \/ OpenCso \/ CsoFails \/ OpenZst \/ ZstFails
        \/ NextOpener \/ OpenNative \/ NativeFails
        \/ StatOpened \/ StatOpenedFails \/ WrapTimes
        \/ ExtractKey \/ ExtractKeyFails \/ Decrypt \/ DecryptFails \/ Mask \/ MaskFails
        \/ Close

Spec == Init /\ [][Next]_vars
-----------------------------------------------------------------------------
TypeOK ==
  /\ disk \in Disks /\ name \in Names /\ from \in Names \cup {Plain(n) : n \in Names} \cup {<<>>}
  /\ announced \in {"unasked", "chd", "cso", "zst", "native", "error"}
  /\ pc \in {"idle", "viso", "chd", "cso", "zst", "native", "stat", "times", "key", "redump", "mask",
             "open", "failed", "closed"}
  /\ held \in BOOLEAN /\ fault \in BOOLEAN
  /\ layers \in Seq({"viso", "native", "chd", "cso", "zst", "dir", "times", "keyed", "masked", "decrypted"})

OpenedAs == IF IsLayer("chd") THEN "chd" ELSE IF IsLayer("cso") THEN "cso"
            ELSE IF IsLayer("zst") THEN "zst" ELSE "native"

\* A name that says image though what is there, as it is or without .iso, is none.
FalseImage ==
  \/ Chd /\ Has(name) /\ Form(name) # "chd"
  \/ IsImage(name, Cso) /\ Form(Plain(name)) # "cso"
  \/ IsImage(name, Zst) /\ Form(Plain(name)) # "zst"

\* Something that gets a key without a region map, a directory among others.
FalseKey ==
  \E n \in {name, Plain(name)} :
    /\ Has(n)
    /\ \/ redumpKey = "bad"
       \/ (redumpKey = "good" \/ disk[n].mark = "enc") /\ (~disk[n].map \/ disk[n].form = "dir")

\* Where the system does not fail, what FS.Stat and a listing announce under a name
\* is what opening that name gives; it cannot be opened only where its name says
\* image and it is none, or a key does not fit it.
OpensAsAnnounced ==
  /\ pc = "open" /\ ~virtual /\ ~fault /\ announced # "unasked" => announced = OpenedAs
  /\ pc = "failed" /\ ~virtual /\ ~fault /\ announced \notin {"unasked", "error"} => FalseImage \/ FalseKey

\* A handle is given up open only by openers of compressed images that cannot read
\* what they have opened, by FS.Open when Stat or a wrapper fails, and by an image
\* of zstd; without any of these an Open that fails holds nothing.
NothingElseLost ==
  /\ lost \subseteq {"cso", "zst", "zstClose", "stat", "wrapper"}
  /\ lost \cap {"cso", "zst"} # {} => fault \/ FalseImage
  /\ "stat" \in lost => fault
  /\ "wrapper" \in lost => fault \/ FalseKey

\* A 3k3y mark does not reach the client, whichever wrapper finds it, and is looked
\* for no more once it is masked: but for an encrypted .iso, which is decrypted and
\* keeps it, since the wrapper that should mask it passes .iso by.
MarkMaskedOnce ==
  pc = "open" =>
    /\ IsLayer("masked") <=> Mark # "none" /\ ~(Mark = "enc" /\ NameIsIso)
    /\ \A i, j \in DOMAIN layers : layers[i] = "masked" /\ layers[j] = "masked" => i = j
    /\ Mark = "enc" /\ NameIsIso => IsLayer("decrypted")

\* A file is decrypted only with a key, the one in it or one beside it, and only if
\* it has a region map; and an .iso whose mark says that it already was is not, while
\* the mark of another file is looked for only when it has been decrypted.
DecryptedByItsKey ==
  pc = "open" /\ IsLayer("decrypted") =>
    /\ HasMap
    /\ IF IsLayer("keyed") THEN Mark = "enc" ELSE redumpKey = "good"
    /\ NameIsIso => Mark # "dec"

\* README.md:30: an image that is .iso, in PS3ISO, is decrypted with the key file
\* that goes with it; of a Redump image, without a 3k3y mark, that is the only key.
RedumpIsoDecrypted ==
  pc = "open" /\ Ext(from) = "iso" /\ redumpKey = "good" /\ HasMap /\ Mark = "none"
    => IsLayer("decrypted")
=============================================================================
