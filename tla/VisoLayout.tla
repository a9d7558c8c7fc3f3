----------------------------- MODULE VisoLayout -----------------------------
(***************************************************************************)
(* Building a virtual image: NewVirtualISO (virtual_iso.go) with the lists *)
(* it works on (virtual_iso_items.go) and the sizes of the records they    *)
(* are encoded to (internal/iso9660).  The tree below the root is scanned, *)
(* every directory gets its entries, once for ISO 9660 and once for        *)
(* Joliet, then come the path tables, the places of everything, the volume *)
(* descriptors, and the encoding of it all into fsBuf.                     *)
(*                                                                         *)
(* A record is its identifier, its kind and the extent it points to.  Of   *)
(* what is encoded the sectors are kept where each part begins.  No        *)
(* directory has a name that ends as the version of a file does.  A record *)
(* of more than 255 bytes is kept whole: the byte for its length, which    *)
(* the code cuts (SetByteAt in iso9660.go:207 and 237), is not modelled.   *)
(* The model ends where the encoding panics.                               *)
(***************************************************************************)
EXTENDS Iso9660, Sequences, SequencesExt

CONSTANTS
  Trees,        \* the served trees: from a path, a sequence of names, to an item
  NameOrder,    \* the names, sorted
  Upper,        \* strings.ToUpper of a name
  NameLen,      \* bytes of a name
  MaxPart, PartSize,    \* maxPartSize and multiExtentPartSize
  BasePad,      \* basePadSectors (32)
  ItemsLimit,   \* iso9660.PathTableItemsLimit
  NumberLimit,  \* 2^16, of the number of a directory
  ByteLimit,    \* 2^8, of the length of an identifier
  IdWidth,      \* bytes of an identifier in a volume descriptor (32)
  VolumeNames,  \* lengths of the last name of the root's path
  GameCodes     \* lengths of the TITLE_ID of a game

Names == ToSet(NameOrder)
Table == {"iso", "joliet"}

\* Names are sorted, none is that of a directory's own entries, and a part of a file
\* is a whole number of sectors.
SizesAssumption ==
  /\ SectorSize \in Nat \ {0} /\ PartSize \in Nat \ {0} /\ PartSize % SectorSize = 0
  /\ MaxPart \in Nat /\ PartSize <= MaxPart /\ BasePad \in Nat \ {0} /\ ByteLimit \in Nat \ {0}
  /\ ItemsLimit \in Nat /\ NumberLimit \in Nat /\ ItemsLimit <= NumberLimit
  /\ NameOrder \in Seq(Names) /\ IsInjective(NameOrder)
  /\ \A n \in Names : \A m \in {n, Upper[n]} : m \notin {"dot", "dotdot"} /\ NameLen[m] \in Nat
  /\ \A served \in Trees : \A path \in DOMAIN served : served[path].size \in Nat

VARIABLES
  tree,         \* path -> [dir, size]
  ps3Mode,
  volumeName, gameCode, \* their lengths
  pc,           \* the next step; at the end "built", "failed", or how it panicked
  queue,        \* directories still to scan
  rootDir,      \* the directories scanned: path and files
  entries,      \* of each table: dirEntry, or dirEntryJoliet, of each of them
  filesSizeSectors,
  current,      \* the directory whose entries are made next
  pathTable,    \* of each table
  lba,          \* where the directories of each table and the files begin
  padAreaStart, totalSize,      \* in bytes
  descriptors,  \* of each table
  written,      \* of each table: where it and its directories were encoded
  fsSize        \* of fsBuf

input == <<tree, ps3Mode, volumeName, gameCode>>
scanned == <<queue, filesSizeSectors>>
placed == <<lba, padAreaStart, totalSize, descriptors>>
encoded == <<written, fsSize>>
vars == <<input, pc, scanned, rootDir, entries, current, pathTable, placed, encoded>>
-----------------------------------------------------------------------------
(* Sequences.                                                              *)

\* What op makes of base and the first elements of s, for each number of them.
Folded(op(_, _), base, s) ==
  LET acc[i \in 0..Len(s)] == IF i = 0 THEN base ELSE op(acc[i - 1], s[i]) IN acc

Plus(a, b) == a + b
Sums(s) == Folded(Plus, 0, s)
Sum(s) == Sums(s)[Len(s)]

\* The elements of s that are in S, in their order.
Selections(s, S) ==
  LET Select(chosen, x) == IF x \in S THEN Append(chosen, x) ELSE chosen IN Folded(Select, <<>>, s)
Selected(s, S) == Selections(s, S)[Len(s)]
-----------------------------------------------------------------------------
(* Records and their sizes.                                                *)

\* makeIdentifier; the identifier of a file has a version.
Ident(name, isFile, t) == [name |-> IF t = "iso" THEN Upper[name] ELSE name, file |-> isFile]
Dot == [name |-> "dot", file |-> FALSE]
DotDot == [name |-> "dotdot", file |-> FALSE]

\* Joliet takes two bytes for a character.
IdLen(id, t) ==
  IF id \in {Dot, DotDot} THEN 1
  ELSE (NameLen[id.name] + (IF id.file THEN 2 ELSE 0)) * (IF t = "joliet" THEN 2 ELSE 1)

\* DirectoryEntry.Size, with the six bytes of dirEntryPad.
EntrySize(e, t) == 33 + IdLen(e.id, t) + ((IdLen(e.id, t) + 1) % 2) + 6

\* Mutant: a record that is larger than what is left of a sector runs over its end.
DenseAddSize(to, size) == to + size

\* An entry begins a new sector unless it leaves room in this one.
AddSize(to, size) ==
  to + (IF AlignToSectors(to) - to <= size THEN AlignToSectors(to) - to ELSE 0) + size

Sizes(es, t) == [i \in DOMAIN es |-> EntrySize(es[i], t)]

\* Where entries of these sizes end, the first beginning at `to`, and where their
\* directory does.
Ends(to, sizes) == Folded(AddSize, to, sizes)
AddDirectory(to, sizes) == AlignToSectors(Ends(to, sizes)[Len(sizes)])

EntriesSize(es, t) == AddDirectory(0, Sizes(es, t))

DirectoryEnds(sizes) == Folded(AddDirectory, 0, sizes)

\* The sizes of the entries of each directory.
DirectorySizes(t) == [k \in DOMAIN entries[t] |-> Sizes(entries[t][k], t)]

\* dirItemList.size, of the first k directories.
DirsSize(k, t) == DirectoryEnds(DirectorySizes(t))[k]

\* PathTableEntry.Size, and pathTable.size.
PathEntrySize(e, t) == LET l == IdLen(e.id, t) % ByteLimit IN 8 + l + (l % 2)
PathTableSize(t) == Sum([k \in DOMAIN pathTable[t] |-> PathEntrySize(pathTable[t][k], t)])
PathTableSectors(t) == Sectors(PathTableSize(t))

\* dirItemList.parentIdx, of the kth directory; 0 for the root.
ParentIdx(k) ==
  IF rootDir[k].path = <<>> THEN 0
  ELSE CHOOSE j \in DOMAIN rootDir : rootDir[j].path = Front(rootDir[k].path)

Children(k) == {j \in DOMAIN rootDir : ParentIdx(j) = k}
-----------------------------------------------------------------------------
Init ==
  /\ tree \in Trees /\ ps3Mode \in BOOLEAN /\ volumeName \in VolumeNames /\ gameCode = 0
  /\ pc = "stat" /\ queue = <<(<<>>)>> /\ rootDir = <<>> /\ filesSizeSectors = 0
  /\ entries = [t \in Table |-> <<>>]
  /\ current = 1 /\ pathTable = [t \in Table |-> <<>>]
  /\ lba = [iso |-> 0, joliet |-> 0, files |-> 0]
  /\ padAreaStart = 0 /\ totalSize = 0 /\ descriptors = [t \in Table |-> <<>>]
  /\ written = [t \in Table |-> <<>>] /\ fsSize = 0

\* NewVirtualISO and init: the root has to be a directory.
StatRoot ==
  /\ pc = "stat"
  /\ pc' = IF ~tree[<<>>].dir THEN "failed" ELSE IF ps3Mode THEN "title" ELSE "scan"
  /\ UNCHANGED <<input, scanned, rootDir, entries, current, pathTable, placed, encoded>>

\* getTitleID: the TITLE_ID of PARAM.SFO, of any length; the volume has a name of
\* its own then (PS3VOLUME).
GetTitleID ==
  /\ pc = "title" /\ pc' = "scan"
  /\ gameCode' \in GameCodes /\ volumeName' = 9
  /\ UNCHANGED <<tree, ps3Mode, scanned, rootDir, entries, current, pathTable, placed, encoded>>

\* The root, the PARAM.SFO, or a directory or an item of one cannot be opened or read.
ScanFails ==
  /\ pc \in {"stat", "title", "scan"} /\ pc' = "failed"
  /\ UNCHANGED <<input, scanned, rootDir, entries, current, pathTable, placed, encoded>>

\* processDirectory: the items of a directory in the order of their names; each
\* file gets its place behind those before it.
ScanDirectory ==
  /\ pc = "scan" /\ queue # <<>>
  /\ LET path == Head(queue)
         item(n) == tree[Append(path, n)]
         items(isDir) == {n \in Names : Append(path, n) \in DOMAIN tree /\ item(n).dir = isDir}
         dirs == Selected(NameOrder, items(TRUE))
         names == Selected(NameOrder, items(FALSE))
         sectors == [i \in DOMAIN names |-> Sectors(item(names[i]).size)]
         files == [i \in DOMAIN names |->
                     [name |-> names[i], size |-> item(names[i]).size,
                      rLBA |-> filesSizeSectors + Sums(sectors)[i - 1]]]
     IN /\ queue' = Tail(queue) \o [i \in DOMAIN dirs |-> Append(path, dirs[i])]
        /\ rootDir' = Append(rootDir, [path |-> path, files |-> files])
        /\ entries' = [t \in Table |-> Append(entries[t], <<>>)]
        /\ filesSizeSectors' = filesSizeSectors + Sum(sectors)
        /\ pc' = IF queue' = <<>> THEN "iso" ELSE "scan"
  /\ UNCHANGED <<input, current, pathTable, placed, encoded>>

\* The entries of a file: one for each part, all but the last marked.
FileEntries(f, t) ==
  LET parts == IF f.size > MaxPart
               THEN (f.size \div PartSize) + (IF f.size % PartSize > 0 THEN 1 ELSE 0)
               ELSE 1
  IN [i \in 1..parts |->
       [id |-> Ident(f.name, TRUE, t), dir |-> FALSE, more |-> i < parts,
        loc |-> f.rLBA + (i - 1) * Sectors(PartSize),
        len |-> IF i < parts THEN PartSize ELSE f.size - (i - 1) * PartSize]]

DirEntry(id, loc, len) == [id |-> id, dir |-> TRUE, more |-> FALSE, loc |-> loc, len |-> len]

\* Mutant: the place of a directory does not count those made before it.
UncountedPlaceOf(k, t) == Sectors(DirsSize(0, t))

\* Where the kth directory will begin, from the sizes of those made before it.
PlaceOf(k, t) == Sectors(DirsSize(k - 1, t))

\* The entries the kth directory is made with; its own and its parent's are filled
\* in at once, those of its directories when these are made.
Listing(k, t) ==
  LET kids == Selected([j \in DOMAIN rootDir |-> j], Children(k))
  IN <<DirEntry(Dot, 0, 0), DirEntry(DotDot, 0, 0)>>
       \o FlattenSeq([i \in DOMAIN rootDir[k].files |-> FileEntries(rootDir[k].files[i], t)])
       \o [i \in DOMAIN kids |-> DirEntry(Ident(Last(rootDir[kids[i]].path), FALSE, t), 0, 0)]

\* findDirEntry: the first entry of a directory that has this identifier.
FindDirEntry(es, id) == Min({i \in DOMAIN es : es[i].id = id})

\* makeDirEntries, for the kth directory.
MakeDirEntries(k, t) ==
  LET p == ParentIdx(k)
      loc == PlaceOf(k, t)
      len == EntriesSize(Listing(k, t), t)
      up == IF p = 0 THEN [loc |-> loc, len |-> len] ELSE entries[t][p][1]
      made == [Listing(k, t) EXCEPT ![1] = DirEntry(Dot, loc, len),
                                    ![2] = DirEntry(DotDot, up.loc, up.len)]
      i == FindDirEntry(entries[t][p], Ident(Last(rootDir[k].path), FALSE, t))
  IN entries' = IF p = 0 THEN [entries EXCEPT ![t][k] = made]
                ELSE [entries EXCEPT ![t][k] = made, ![t][p][i].loc = loc, ![t][p][i].len = len]

MakeIsoEntries ==
  /\ pc = "iso" /\ MakeDirEntries(current, "iso")
  /\ IF current = Len(rootDir) THEN pc' = "joliet" /\ current' = 1
     ELSE current' = current + 1 /\ UNCHANGED pc
  /\ UNCHANGED <<input, scanned, rootDir, pathTable, placed, encoded>>

MakeJolietEntries ==
  /\ pc = "joliet" /\ MakeDirEntries(current, "joliet")
  /\ IF current = Len(rootDir) THEN pc' = "tables" /\ current' = 1
     ELSE current' = current + 1 /\ UNCHANGED pc
  /\ UNCHANGED <<input, scanned, rootDir, pathTable, placed, encoded>>

\* Mutant: the number of a directory is kept in a signed field.
SignedNumber(n) == ((n + NumberLimit \div 2) % NumberLimit) - NumberLimit \div 2

\* An int16 in the entry, encoded as a uint16.
Number(n) == n % NumberLimit

\* makePathTable.
PathTableOf(t) ==
  [k \in 1..Smaller(Len(rootDir), ItemsLimit) |->
    [id |-> IF k = 1 THEN Dot ELSE Ident(Last(rootDir[k].path), FALSE, t),
     loc |-> entries[t][k][1].loc,
     parent |-> IF k = 1 THEN 1 ELSE Number(ParentIdx(k))]]

MakePathTables ==
  /\ pc = "tables" /\ pc' = "place"
  /\ pathTable' = [t \in Table |-> PathTableOf(t)]
  /\ UNCHANGED <<input, scanned, rootDir, entries, current, placed, encoded>>

\* The first sector behind the system area, the descriptors and an empty sector.
TablesLBA == 16 + 3 + 1

\* makeVolumeDescriptors: where the little-endian path table of t is, the other one
\* comes after it.
Descriptor(t, volume) ==
  LET L == TablesLBA + (IF t = "iso" THEN 0 ELSE 2 * PathTableSectors("iso"))
  IN [size |-> volume,
      tableSize |-> PathTableSize(t), typeL |-> L, typeM |-> L + PathTableSectors(t)]

\* fixLBA: what was counted from the start of its area is moved to where it is.
FileMoved(f, files) == [f EXCEPT !.rLBA = @ + files]
Fixed(e, dirs, files) == [e EXCEPT !.loc = @ + (IF e.dir THEN dirs ELSE files)]

\* The rest of buildFSStructures: the places, calculateSizes and fixLBA.
Place ==
  LET isoLBA == TablesLBA + 2 * PathTableSectors("iso") + 2 * PathTableSectors("joliet")
      jolietLBA == isoLBA + Sectors(DirsSize(Len(rootDir), "iso"))
      filesLBA == jolietLBA + Sectors(DirsSize(Len(rootDir), "joliet"))
      files == filesLBA + filesSizeSectors
      extra == files % BasePad
      volume == files + BasePad + (IF extra > 0 THEN BasePad - extra ELSE 0)
  IN /\ pc = "place" /\ pc' = "head"
     /\ lba' = [iso |-> isoLBA, joliet |-> jolietLBA, files |-> filesLBA]
     /\ padAreaStart' = Bytes(files) /\ totalSize' = Bytes(volume)
     /\ descriptors' = [t \in Table |-> Descriptor(t, volume)]
     /\ rootDir' = [k \in DOMAIN rootDir |->
          [path |-> rootDir[k].path,
           files |-> [i \in DOMAIN rootDir[k].files |-> FileMoved(rootDir[k].files[i], filesLBA)]]]
     /\ entries' = [t \in Table |-> [k \in DOMAIN entries[t] |-> [i \in DOMAIN entries[t][k] |->
          Fixed(entries[t][k][i], lba'[t], filesLBA)]]]
     /\ pathTable' = [t \in Table |->
          [k \in DOMAIN pathTable[t] |-> [pathTable[t][k] EXCEPT !.loc = @ + lba'[t]]]]
     /\ UNCHANGED <<input, scanned, current, encoded>>

\* A TITLE_ID is cut after its fourth byte and joined again with a dash; the
\* volume's name takes two bytes for a character in Joliet.
ShortGameCode == ps3Mode /\ gameCode < 4
TooLarge == (ps3Mode /\ gameCode + 1 > IdWidth) \/ 2 * volumeName > IdWidth

\* The system area, which begins with two sectors of a game's own, the descriptors
\* and the empty sector.
WriteHead ==
  /\ pc = "head"
  /\ IF ShortGameCode \/ TooLarge
     THEN pc' = (IF ShortGameCode THEN "outOfRange" ELSE "tooLarge") /\ UNCHANGED fsSize
     ELSE /\ pc' = "pathTables"
          /\ fsSize' = (IF ps3Mode THEN Bytes(2) + Bytes(16 - 2) ELSE Bytes(16)) + Bytes(3) + Bytes(1)
  /\ UNCHANGED <<input, scanned, rootDir, entries, current, pathTable, placed, written>>

\* PathTableEntry.EncodeOrdered: what an entry takes in the buffer.
EncodedPathEntry(e, t) == 8 + IdLen(e.id, t) + (IdLen(e.id, t) % 2)

\* Size is checked against what was appended.
WritePathTables ==
  LET end(from, t) ==
        AlignToSectors(from + Sum([k \in DOMAIN pathTable[t] |-> EncodedPathEntry(pathTable[t][k], t)]))
      isoM == end(fsSize, "iso")
      jolietL == end(isoM, "iso")
      jolietM == end(jolietL, "joliet")
  IN /\ pc = "pathTables"
     /\ IF \A t \in Table : \A k \in DOMAIN pathTable[t] :
             EncodedPathEntry(pathTable[t][k], t) = PathEntrySize(pathTable[t][k], t)
        THEN /\ pc' = "dirs" /\ fsSize' = end(jolietM, "joliet")
             /\ written' = [iso |-> [typeL |-> FloorSectors(fsSize), typeM |-> FloorSectors(isoM), dirs |-> <<>>],
                            joliet |-> [typeL |-> FloorSectors(jolietL), typeM |-> FloorSectors(jolietM),
                                        dirs |-> <<>>]]
        ELSE pc' = "mismatch" /\ UNCHANGED encoded
     /\ UNCHANGED <<input, scanned, rootDir, entries, current, pathTable, placed>>

\* DirectoryEntry.Encode: where the buffer ends when an entry has been added.
Encoded(end, size) ==
  (IF size >= AlignToSectors(end) - end THEN AlignToSectors(end) ELSE end) + size

EncodedEnds(end, sizes) == Folded(Encoded, end, sizes)
EncodedDirectory(end, sizes) == AlignToSectors(EncodedEnds(end, sizes)[Len(sizes)])

\* Where the directories of a table end that are encoded from byte `from` on, one
\* after the other.
EncodedDirs(from, t) == Folded(EncodedDirectory, from, DirectorySizes(t))

WriteDirectories ==
  LET begins(from, t) == [k \in DOMAIN rootDir |-> FloorSectors(EncodedDirs(from, t)[k - 1])]
      end(from, t) == EncodedDirs(from, t)[Len(rootDir)]
      jolietStart == end(fsSize, "iso")
  IN /\ pc = "dirs" /\ pc' = "built"
     /\ written' = [written EXCEPT !.iso.dirs = begins(fsSize, "iso"),
                                   !.joliet.dirs = begins(jolietStart, "joliet")]
     /\ fsSize' = end(jolietStart, "joliet")
     /\ UNCHANGED <<input, scanned, rootDir, entries, current, pathTable, placed>>

Next == \/ StatRoot \/ GetTitleID \/ ScanDirectory \/ ScanFails
        \/ MakeIsoEntries \/ MakeJolietEntries \/ MakePathTables \/ Place
        \/ WriteHead \/ WritePathTables \/ WriteDirectories

Spec == Init /\ [][Next]_vars
-----------------------------------------------------------------------------
TypeOK ==
  /\ pc \in {"stat", "title", "scan", "iso", "joliet", "tables", "place", "head",
             "pathTables", "dirs", "built", "failed", "outOfRange", "tooLarge", "mismatch"}
  /\ \A k \in DOMAIN rootDir : rootDir[k].path = <<>> \/ tree[rootDir[k].path].dir
  /\ current \in 1..(Len(rootDir) + 1)
  /\ filesSizeSectors \in Nat /\ padAreaStart \in Nat /\ totalSize \in Nat /\ fsSize \in Nat

\* Another directory beside the kth has the same identifier.
Clashes(k, t) ==
  \E j \in Children(ParentIdx(k)) \ {k} :
    Ident(Last(rootDir[j].path), FALSE, t) = Ident(Last(rootDir[k].path), FALSE, t)

\* In an image that was built, the records of every directory of the tree, its own,
\* the one for its parent and the one in its parent, point to where the directory
\* was encoded and have the size it takes there, in both tables; but in the ISO
\* table not the one of a directory whose name differs from that of another beside
\* it only in case.
DirectoriesFound ==
  pc = "built" =>
    \A t \in Table, k \in DOMAIN rootDir :
      LET self == entries[t][k][1]
          up == entries[t][k][2]
          p == IF k = 1 THEN 1 ELSE ParentIdx(k)
      IN /\ self.loc = written[t].dirs[k] /\ self.len = EntriesSize(entries[t][k], t)
         /\ up.loc = written[t].dirs[p] /\ up.len = entries[t][p][1].len
         /\ k > 1 /\ ~Clashes(k, t) =>
              \E i \in DOMAIN entries[t][p] :
                entries[t][p][i] = [self EXCEPT !.id = Ident(Last(rootDir[k].path), FALSE, t)]

\* All files in the order of their directories, and the sectors they take.
AllFiles == FlattenSeq([k \in DOMAIN rootDir |-> rootDir[k].files])
FileSectors == [i \in DOMAIN AllFiles |-> Sectors(AllFiles[i].size)]

\* The entries of the kth directory whose extents begin inside the file f.
Extents(f, k, t) ==
  {e \in DOMAIN entries[t][k] :
     LET entry == entries[t][k][e]
     IN ~entry.dir /\ entry.len > 0 /\ entry.loc \in f.rLBA..(f.rLBA + Sectors(f.size) - 1)}

\* The extents of each file of the tree follow each other in whole sectors, cover
\* the file and are marked up to the last; the files follow each other behind the
\* structures, which end where the first begins, and the zeros behind the last.
FilesFound ==
  pc = "built" =>
    /\ fsSize = Bytes(lba.files)
    /\ \A i \in DOMAIN AllFiles : AllFiles[i].rLBA = lba.files + Sums(FileSectors)[i - 1]
    /\ padAreaStart = Bytes(lba.files + Sum(FileSectors))
    /\ totalSize > padAreaStart /\ totalSize % Bytes(BasePad) = 0
    /\ \A t \in Table, k \in DOMAIN rootDir : \A i \in DOMAIN rootDir[k].files :
         LET f == rootDir[k].files[i]
             es == entries[t][k]
         IN f.size > 0 =>
              \E first, last \in Extents(f, k, t) :
                /\ Extents(f, k, t) = first..last
                /\ es[first].loc = f.rLBA
                /\ Bytes(es[last].loc - f.rLBA) + es[last].len = f.size
                /\ \A e \in first..last :
                     /\ es[e].id = Ident(f.name, TRUE, t) /\ es[e].len <= MaxPart
                     /\ es[e].more = (e < last)
                     /\ e < last => /\ es[e + 1].loc = es[e].loc + Sectors(es[e].len)
                                    /\ es[e].len = Bytes(Sectors(es[e].len))

\* Every entry of a path table points to where its directory was encoded and to
\* its parent, which comes before it, for as many directories as a table may have;
\* and the descriptors say where the tables were encoded and how long they are.
PathTablesLead ==
  pc = "built" =>
    \A t \in Table :
      /\ descriptors[t].typeL = written[t].typeL /\ descriptors[t].typeM = written[t].typeM
      /\ written[t].typeM - written[t].typeL = Sectors(descriptors[t].tableSize)
      /\ descriptors[t].size = FloorSectors(totalSize)
      /\ \A k \in DOMAIN pathTable[t] :
           /\ pathTable[t][k].loc = written[t].dirs[k]
           /\ k > 1 => /\ pathTable[t][k].parent \in 1..(k - 1)
                       /\ rootDir[pathTable[t][k].parent].path = Front(rootDir[k].path)

\* The encoders check what they append to the buffer, that it fits its field
\* (iso9660_encoder.go:83) and that "size method works correctly" (iso9660.go:281):
\* no served tree fails these checks.
EncoderAssertionsHold == pc \notin {"tooLarge", "mismatch"}
=============================================================================
