-------------------------- MODULE VisoLayoutProofs --------------------------
(***************************************************************************)
(* What VisoLayout promises, for every tree of directories and files,      *)
(* every size of sectors, parts and pads, and every length of names: each  *)
(* directory and each file of an image is where the records, path tables   *)
(* and descriptors of both tables say.  None of it is inductive.  Records  *)
(* are made before anything has a place, and move when the directories and *)
(* files do; so Inv says of the directories that have theirs (Made) that   *)
(* they are those of Listing, which reads them off the tree, but for where *)
(* the ones of directories point: behind the sizes of the directories that *)
(* come before, which depend on identifiers alone.  A directory points to  *)
(* its parent and is pointed to from there: for that a parent comes first, *)
(* and no two directories have one path.  Sizes and places are sums over   *)
(* sequences; what holds of one is proved from each prefix to the next     *)
(* (UpTo), by what is added for one element.                               *)
(***************************************************************************)
EXTENDS VisoLayout, TLAPS, WellFoundedInduction
-----------------------------------------------------------------------------
IdType == {Dot, DotDot} \cup [name : Names \cup {Upper[n] : n \in Names}, file : BOOLEAN]
EntryType == [id : IdType, dir : BOOLEAN, more : BOOLEAN, loc : Nat, len : Nat]
FileType == [name : Names, size : Nat, rLBA : Nat]

N == Len(rootDir)

RootType ==
  /\ rootDir \in Seq([path : Seq(Names), files : Seq(FileType)]) /\ queue \in Seq(Seq(Names))
  /\ filesSizeSectors \in Nat /\ tree \in Trees /\ lba \in [iso : Nat, joliet : Nat, files : Nat]

\* The directories known: those scanned, then those still to scan.
Known == N + Len(queue)
PathOf(i) == IF i <= N THEN rootDir[i].path ELSE queue[i - N]

FileLists(k, t) == [i \in DOMAIN rootDir[k].files |-> FileEntries(rootDir[k].files[i], t)]
FilePart(k, t) == FlattenSeq(FileLists(k, t))
Kids(k) == Selected([j \in DOMAIN rootDir |-> j], Children(k))

PathsKnown ==
  /\ Known > 0 /\ PathOf(1) = <<>>
  /\ \A i, j \in 1..Known : PathOf(i) = PathOf(j) => i = j
  /\ \A i \in 2..Known :
       /\ tree[PathOf(i)].dir
       /\ \E j \in 1..N : j < i /\ \E n \in Names : PathOf(i) = Append(rootDir[j].path, n)

InOrder(fs) == \A i, j \in 1..Len(fs) : i < j => fs[i].rLBA + Sectors(fs[i].size) <= fs[j].rLBA

FilesPlaced ==
  /\ \A i \in 1..Len(AllFiles) : AllFiles[i].rLBA = lba.files + Sums(FileSectors)[i - 1]
  /\ filesSizeSectors = Sum(FileSectors)
  /\ \A k \in 1..N : InOrder(rootDir[k].files)

ScanInv == RootType /\ PathsKnown /\ FilesPlaced

\* Where the kth directory begins behind the first.
AllSizes(t) == [k \in 1..N |-> Sizes(Listing(k, t), t)]
Behind(k, t) == Sectors(DirectoryEnds(AllSizes(t))[k - 1])

Up(k) == IF k = 1 THEN 1 ELSE ParentIdx(k)

Self(id, k, t) == DirEntry(id, lba[t] + Behind(k, t), EntriesSize(Listing(k, t), t))

\* The entries es of the kth directory are made, and the one among its parent's, us.
MadeBy(es, us, k, t) ==
  LET ls == Listing(k, t)
  IN /\ es \in Seq(EntryType) /\ Len(es) = Len(ls)
     /\ \A e \in 1..Len(ls) :
          /\ es[e].id = ls[e].id /\ es[e].dir = ls[e].dir /\ es[e].more = ls[e].more
          /\ ~ls[e].dir => es[e] = ls[e]
     /\ es[1] = Self(Dot, k, t)
     /\ es[2] = Self(DotDot, Up(k), t)
     /\ k > 1 /\ ~Clashes(k, t) =>
          \E e \in 1..Len(us) : us[e] = Self(Ident(Last(rootDir[k].path), FALSE, t), k, t)

Made(k, t) == MadeBy(entries[t][k], entries[t][Up(k)], k, t)

\* A scan that failed ends where it is.
Scanning == pc \in {"stat", "title", "scan", "failed"}

\* How many directories have their entries in a table.
Done(t) ==
  IF Scanning THEN 0
  ELSE IF pc = "iso" THEN (IF t = "iso" THEN current - 1 ELSE 0)
  ELSE IF pc = "joliet" /\ t = "joliet" THEN current - 1 ELSE N

EntriesMade ==
  /\ entries \in [Table -> Seq(Seq(EntryType))]
  /\ \A t \in Table :
       /\ Len(entries[t]) = N
       /\ \A k \in 1..N : IF k <= Done(t) THEN Made(k, t) ELSE entries[t][k] = <<>>

Late == pc \in {"head", "pathTables", "dirs", "built", "outOfRange", "tooLarge", "mismatch"}

Stage ==
  /\ Scanning \/ pc \in {"iso", "joliet", "tables", "place"}
       => lba = [iso |-> 0, joliet |-> 0, files |-> 0]
  /\ Scanning => queue # <<>>
  /\ pc \in {"stat", "title"} => N = 0
  /\ IF pc \in {"iso", "joliet"} THEN current \in 1..N ELSE current = 1
  /\ ~Scanning => N > 0 /\ queue = <<>>

Tables == pc = "place" \/ Late => pathTable = [t \in Table |-> PathTableOf(t)]

Placed ==
  Late =>
    LET files == lba.files + filesSizeSectors
        volume == files + BasePad + (IF files % BasePad > 0 THEN BasePad - (files % BasePad) ELSE 0)
    IN /\ lba.iso = TablesLBA + 2 * PathTableSectors("iso") + 2 * PathTableSectors("joliet")
       /\ lba.joliet = lba.iso + Sectors(DirsSize(N, "iso"))
       /\ lba.files = lba.joliet + Sectors(DirsSize(N, "joliet"))
       /\ padAreaStart = Bytes(files) /\ totalSize = Bytes(volume)
       /\ descriptors = [t \in Table |-> Descriptor(t, volume)]

TablesWritten ==
  \A t \in Table : written[t].typeL = descriptors[t].typeL /\ written[t].typeM = descriptors[t].typeM

EncodedSoFar ==
  /\ pc = "pathTables" => fsSize = Bytes(TablesLBA)
  /\ pc = "dirs" =>
       /\ fsSize = Bytes(lba.iso)
       /\ written = [t \in Table |-> [typeL |-> descriptors[t].typeL,
          typeM |-> descriptors[t].typeM, dirs |-> <<>>]]
  /\ pc = "built" =>
       /\ fsSize = Bytes(lba.files) /\ TablesWritten
       /\ \A t \in Table : written[t].dirs = [k \in 1..N |-> lba[t] + Behind(k, t)]

Counted ==
  /\ Scanning \/ Late \/ pc \in {"iso", "joliet", "tables", "place"}
  /\ padAreaStart \in Nat /\ totalSize \in Nat /\ fsSize \in Nat

Inv == ScanInv /\ Counted /\ EntriesMade /\ Stage /\ Tables /\ Placed /\ EncodedSoFar
-----------------------------------------------------------------------------
(* What is folded over a sequence.                                         *)

LEMMA LeastOf ==
  ASSUME NEW S \in SUBSET Nat, S # {}
  PROVE  \E m \in S : \A k \in S : m <= k
<1>1. PICK m \in S : \A k \in S : ~(<<k, m>> \in OpToRel(<, Nat))
  BY NatLessThanWellFounded, WFMin, Zenon
<1>2. \A k \in S : ~(k < m)
  BY <1>1 DEF OpToRel
<1>3. QED BY <1>2

\* What holds at 0 and from each number to the next holds up to m.
LEMMA UpTo ==
  ASSUME NEW m \in Nat, NEW S, 0 \in S, \A i \in 1..m : i - 1 \in S => i \in S
  PROVE  \A i \in 0..m : i \in S
<1>. DEFINE Missing == {i \in 0..m : i \notin S}
<1>1. SUFFICES ASSUME Missing # {} PROVE FALSE
  OBVIOUS
<1>2. PICK i \in Missing : \A j \in Missing : i <= j
  <2>1. Missing \in SUBSET Nat
    OBVIOUS
  <2>. HIDE DEF Missing
  <2>2. QED BY <1>1, <2>1, LeastOf
<1>3. i \in 0..m /\ i # 0
  OBVIOUS
<1>4. i \in 1..m /\ i - 1 \in 0..m /\ ~(i <= i - 1)
  BY <1>3
<1>5. i - 1 \in S
  BY <1>2, <1>4
<1>6. QED BY <1>4, <1>5

\* A function into V that is given at 0, and at each number up to m by what it is one
\* before.
Iterates(g, V, base, m, step) ==
  /\ g \in [0..m -> V] /\ g[0] = base
  /\ \A i \in 1..m : g[i] = step[i][g[i - 1]]

LEMMA Iterated ==
  ASSUME NEW V, NEW base \in V, NEW m \in Nat, NEW step \in [1..m -> [V -> V]]
  PROVE  \E g : Iterates(g, V, base, m, step)
<1>. DEFINE Reaches(g, i) == Iterates(g, V, base, i, step)
            S == {i \in 0..m : \E g : Reaches(g, i)}
<1>1. 0 \in S
  <2>1. Reaches([i \in 0..0 |-> base], 0)
    BY DEF Iterates
  <2>2. 0 \in 0..m
    OBVIOUS
  <2>. HIDE DEF Reaches
  <2>3. \E g : Reaches(g, 0)
    BY <2>1
  <2>4. QED BY <2>2, <2>3
<1>2. ASSUME NEW i \in 1..m, i - 1 \in S PROVE i \in S
  <2>1. PICK g : Reaches(g, i - 1)
    BY <1>2
  <2>. DEFINE h == [j \in 0..i |-> IF j = i THEN step[i][g[i - 1]] ELSE g[j]]
  <2>2. /\ g[i - 1] \in V /\ step[i] \in [V -> V] /\ g \in [0..(i - 1) -> V] /\ g[0] = base
        /\ \A j \in 1..(i - 1) : g[j] = step[j][g[j - 1]]
    BY <2>1 DEF Iterates
  <2>3. h \in [0..i -> V] /\ h[0] = base
    <3>1. step[i][g[i - 1]] \in V
      BY <2>2
    <3>2. QED BY <2>2, <3>1
  <2>4. ASSUME NEW j \in 1..i PROVE h[j] = step[j][h[j - 1]]
    <3>1. j - 1 \in 0..i /\ j - 1 # i /\ h[j - 1] = g[j - 1]
      OBVIOUS
    <3>2. CASE j = i
      BY <3>1, <3>2
    <3>3. CASE j # i
      <4>1. j \in 1..(i - 1) /\ h[j] = g[j]
        BY <3>3
      <4>2. QED BY <2>2, <3>1, <4>1
    <3>4. QED BY <3>2, <3>3
  <2>5. Reaches(h, i)
    BY <2>3, <2>4 DEF Iterates
  <2>. HIDE DEF Reaches, h
  <2>6. \E f : Reaches(f, i)
    BY <2>5
  <2>7. QED BY <2>6
<1>3. m \in S
  <2>. HIDE DEF S
  <2>1. \A i \in 0..m : i \in S
    BY <1>1, <1>2, UpTo
  <2>2. QED BY <2>1
<1>4. QED BY <1>3

LEMMA IteratesToo ==
  ASSUME NEW V, NEW base \in V, NEW m \in Nat, NEW step \in [1..m -> [V -> V]], NEW f,
         f = [i \in 0..m |-> f[i]], f[0] = base,
         \A i \in 1..m : f[i - 1] \in V => f[i] = step[i][f[i - 1]]
  PROVE  Iterates(f, V, base, m, step)
<1>. DEFINE S == {i \in 0..m : f[i] \in V}
<1>1. 0 \in S
  OBVIOUS
<1>2. ASSUME NEW i \in 1..m, i - 1 \in S PROVE i \in S
  <2>1. f[i - 1] \in V /\ step[i] \in [V -> V] /\ i \in 0..m
    BY <1>2
  <2>2. QED BY <2>1
<1>3. \A i \in 0..m : i \in S
  <2>. HIDE DEF S
  <2>1. QED BY <1>1, <1>2, UpTo
<1>4. ASSUME NEW i \in 1..m PROVE f[i] = step[i][f[i - 1]]
  <2>1. i - 1 \in 0..m
    OBVIOUS
  <2>2. QED BY <1>3, <2>1
<1>5. f \in [0..m -> V]
  BY <1>3
<1>6. QED BY <1>4, <1>5 DEF Iterates

LEMMA SumsFollow ==
  ASSUME NEW s \in Seq(Nat)
  PROVE  /\ Sums(s) \in [0..Len(s) -> Nat] /\ Sums(s)[0] = 0
         /\ \A i \in 1..Len(s) : Sums(s)[i] = Sums(s)[i - 1] + s[i]
<1>. DEFINE f == Sums(s)
            step == [i \in 1..Len(s) |-> [v \in Nat |-> v + s[i]]]
<1>1. /\ Len(s) \in Nat /\ 0 \in Nat
      /\ \A i \in 1..Len(s), v \in Nat : v + s[i] \in Nat
  OBVIOUS
<1>2. step \in [1..Len(s) -> [Nat -> Nat]]
  BY <1>1
<1>3. \A i \in 1..Len(s), v \in Nat : step[i][v] = v + s[i]
  OBVIOUS
<1>. HIDE DEF step
<1>4. ASSUME NEW g, Iterates(g, Nat, 0, Len(s), step)
      PROVE  /\ g \in [0..Len(s) -> Nat] /\ g[0] = 0
             /\ \A i \in 1..Len(s) : g[i] = g[i - 1] + s[i]
  <2>1. g \in [0..Len(s) -> Nat] /\ g[0] = 0 /\ \A i \in 1..Len(s) : g[i] = step[i][g[i - 1]]
    BY <1>4 DEF Iterates
  <2>2. ASSUME NEW i \in 1..Len(s) PROVE g[i] = g[i - 1] + s[i]
    <3>1. i - 1 \in 0..Len(s)
      BY <1>1
    <3>2. g[i - 1] \in Nat
      BY <2>1, <3>1
    <3>3. QED BY <1>3, <2>1, <3>2
  <2>3. QED BY <2>1, <2>2
<1>5. f = [i \in 0..Len(s) |-> IF i = 0 THEN 0 ELSE f[i - 1] + s[i]]
  <2>. DEFINE acc[i \in 0..Len(s)] == IF i = 0 THEN 0 ELSE acc[i - 1] + s[i]
  <2>1. PICK g : Iterates(g, Nat, 0, Len(s), step)
    BY <1>1, <1>2, Iterated, Zenon
  <2>2. g = [i \in 0..Len(s) |-> IF i = 0 THEN 0 ELSE g[i - 1] + s[i]]
    <3>1. g = [i \in 0..Len(s) |-> g[i]] /\ g[0] = 0 /\ \A i \in 1..Len(s) : g[i] = g[i - 1] + s[i]
      BY <1>4, <2>1
    <3>2. \A i \in 0..Len(s) : i = 0 \/ i \in 1..Len(s)
      BY <1>1
    <3>3. \A i \in 1..Len(s) : i # 0
      OBVIOUS
    <3>4. QED BY <3>1, <3>2, <3>3, Zenon
  <2>3. acc = [i \in 0..Len(s) |-> IF i = 0 THEN 0 ELSE acc[i - 1] + s[i]]
    BY <2>2
  <2>4. f = acc
    BY DEF Sums, Folded, Plus
  <2>5. QED BY <2>3, <2>4
<1>. HIDE DEF f
<1>6. f = [i \in 0..Len(s) |-> f[i]] /\ f[0] = 0 /\ \A i \in 1..Len(s) : f[i] = f[i - 1] + s[i]
  <2>1. 0 \in 0..Len(s) /\ \A i \in 1..Len(s) : i \in 0..Len(s) /\ i # 0
    BY <1>1
  <2>2. QED BY <1>5, <2>1
<1>7. \A i \in 1..Len(s) : f[i - 1] \in Nat => f[i] = step[i][f[i - 1]]
  BY <1>3, <1>6
<1>8. Iterates(f, Nat, 0, Len(s), step)
  BY <1>1, <1>2, <1>6, <1>7, IteratesToo, Zenon
<1>9. QED BY <1>4, <1>8 DEF f
-----------------------------------------------------------------------------
(* Sectors.                                                                *)

LEMMA SectorsOf ==
  ASSUME SizesAssumption, NEW b \in Nat
  PROVE  /\ FloorSectors(b) \in Nat /\ Sectors(b) \in Nat /\ AlignToSectors(b) \in Nat
         /\ AlignToSectors(b) = Bytes(Sectors(b)) /\ b <= AlignToSectors(b)
         /\ b > 0 => AlignToSectors(b) > 0 /\ Sectors(b) > 0
<1>1. SectorSize \in Nat \ {0}
  BY SizesAssumption DEF SizesAssumption
<1>2. PICK q \in Nat, r \in 0..(SectorSize - 1) :
        q = b \div SectorSize /\ r = b % SectorSize /\ b = SectorSize * q + r
  BY <1>1
<1>3. Sectors(b) = q + (IF r > 0 THEN 1 ELSE 0) /\ FloorSectors(b) = q
  BY <1>2 DEF Sectors, FloorSectors
<1>4. SectorSize * (q + 1) = SectorSize * q + SectorSize /\ SectorSize * q \in Nat
      /\ SectorSize * (q + 0) = SectorSize * q
  BY <1>1
<1>5. Bytes(Sectors(b)) = IF r > 0 THEN SectorSize * q + SectorSize ELSE SectorSize * q
  BY <1>1, <1>3, <1>4 DEF Bytes
<1>6. Bytes(Sectors(b)) \in Nat /\ b <= Bytes(Sectors(b))
  BY <1>1, <1>2, <1>4, <1>5
<1>7. q = 0 /\ r = 0 => b = 0
  BY <1>1, <1>2
<1>8. QED BY <1>3, <1>6, <1>7 DEF AlignToSectors

LEMMA BytesOf ==
  ASSUME SizesAssumption, NEW s \in Nat
  PROVE  /\ Bytes(s) \in Nat /\ FloorSectors(Bytes(s)) = s /\ Sectors(Bytes(s)) = s
         /\ AlignToSectors(Bytes(s)) = Bytes(s)
         /\ \A t \in Nat : Bytes(s + t) = Bytes(s) + Bytes(t)
<1>1. SectorSize \in Nat \ {0}
  BY SizesAssumption DEF SizesAssumption
<1>2. Bytes(s) \in Nat /\ FloorSectors(Bytes(s)) = s /\ Bytes(s) % SectorSize = 0
  BY <1>1 DEF Bytes, FloorSectors
<1>3. Sectors(Bytes(s)) = s
  BY <1>2 DEF Sectors
<1>4. \A t \in Nat : Bytes(s + t) = Bytes(s) + Bytes(t)
  BY <1>1 DEF Bytes
<1>5. QED BY <1>2, <1>3, <1>4 DEF AlignToSectors

\* Behind whole sectors, the same number of bytes takes the same sectors.
LEMMA BehindSectors ==
  ASSUME SizesAssumption, NEW s \in Nat, NEW b \in Nat
  PROVE  /\ Bytes(s) + b \in Nat /\ Sectors(Bytes(s) + b) = s + Sectors(b)
         /\ AlignToSectors(Bytes(s) + b) = Bytes(s) + AlignToSectors(b)
<1>1. SectorSize \in Nat \ {0}
  BY SizesAssumption DEF SizesAssumption
<1>2. PICK q \in Nat, r \in 0..(SectorSize - 1) :
        q = b \div SectorSize /\ r = b % SectorSize /\ b = SectorSize * q + r
  BY <1>1
<1>3. Bytes(s) + b = SectorSize * (s + q) + r /\ s + q \in Nat
  BY <1>1, <1>2 DEF Bytes
<1>4. (Bytes(s) + b) \div SectorSize = s + q /\ (Bytes(s) + b) % SectorSize = r
  BY <1>1, <1>3
<1>5. Sectors(Bytes(s) + b) = (s + q) + (IF r > 0 THEN 1 ELSE 0)
      /\ Sectors(b) = q + (IF r > 0 THEN 1 ELSE 0)
  BY <1>2, <1>4 DEF Sectors, FloorSectors
<1>6. Sectors(Bytes(s) + b) = s + Sectors(b) /\ Sectors(b) \in Nat
  BY <1>1, <1>5
<1>7. Bytes(s) \in Nat /\ Bytes(s + Sectors(b)) = Bytes(s) + Bytes(Sectors(b))
  BY <1>6, BytesOf
<1>8. QED BY <1>6, <1>7 DEF AlignToSectors

\* Sectors are in the order of bytes.
LEMMA SectorsOrder ==
  ASSUME SizesAssumption, NEW s \in Nat, NEW b \in Nat, Bytes(s) < b
  PROVE  s < Sectors(b)
<1>1. SectorSize \in Nat \ {0}
  BY SizesAssumption DEF SizesAssumption
<1>2. PICK k \in Nat : k = Sectors(b)
  BY SectorsOf
<1>3. b <= SectorSize * k
  BY <1>2, SectorsOf DEF Bytes
<1>4. ASSUME k <= s PROVE FALSE
  <2>1. PICK d \in Nat : s = k + d
    BY <1>4
  <2>2. SectorSize * s = SectorSize * k + SectorSize * d /\ SectorSize * d \in Nat
        /\ SectorSize * k \in Nat
    BY <1>1, <2>1
  <2>3. QED BY <1>3, <2>2 DEF Bytes
<1>5. QED BY <1>2, <1>4
-----------------------------------------------------------------------------
(* Where entries end.                                                      *)

LEMMA AddSizeType ==
  ASSUME SizesAssumption, NEW to \in Nat, NEW size \in Nat
  PROVE  AddSize(to, size) \in Nat /\ Encoded(to, size) = AddSize(to, size)
<1>1. PICK a \in Nat : a = AlignToSectors(to) /\ to <= a
  BY SectorsOf
<1>2. AddSize(to, size) = to + (IF a - to <= size THEN a - to ELSE 0) + size
  BY <1>1 DEF AddSize
<1>3. Encoded(to, size) = (IF size >= a - to THEN a ELSE to) + size
  BY <1>1 DEF Encoded
<1>4. QED BY <1>1, <1>2, <1>3

LEMMA EndsFollow ==
  ASSUME SizesAssumption, NEW to \in Nat, NEW sizes \in Seq(Nat)
  PROVE  /\ Ends(to, sizes) \in [0..Len(sizes) -> Nat] /\ Ends(to, sizes)[0] = to
         /\ \A i \in 1..Len(sizes) : Ends(to, sizes)[i] = AddSize(Ends(to, sizes)[i - 1], sizes[i])
<1>. DEFINE f == Ends(to, sizes)
            step == [i \in 1..Len(sizes) |-> [v \in Nat |-> AddSize(v, sizes[i])]]
<1>1. /\ Len(sizes) \in Nat /\ to \in Nat
      /\ \A i \in 1..Len(sizes), v \in Nat : AddSize(v, sizes[i]) \in Nat
  <2>1. \A i \in 1..Len(sizes) : sizes[i] \in Nat
    OBVIOUS
  <2>2. \A i \in 1..Len(sizes), v \in Nat : AddSize(v, sizes[i]) \in Nat
    BY <2>1, AddSizeType, Zenon
  <2>3. QED BY <2>2
<1>2. step \in [1..Len(sizes) -> [Nat -> Nat]]
  BY <1>1
<1>3. \A i \in 1..Len(sizes), v \in Nat : step[i][v] = AddSize(v, sizes[i])
  OBVIOUS
<1>. HIDE DEF step
<1>4. ASSUME NEW g, Iterates(g, Nat, to, Len(sizes), step)
      PROVE  /\ g \in [0..Len(sizes) -> Nat] /\ g[0] = to
             /\ \A i \in 1..Len(sizes) : g[i] = AddSize(g[i - 1], sizes[i])
  <2>1. g \in [0..Len(sizes) -> Nat] /\ g[0] = to /\ \A i \in 1..Len(sizes) : g[i] = step[i][g[i - 1]]
    BY <1>4 DEF Iterates
  <2>2. ASSUME NEW i \in 1..Len(sizes) PROVE g[i] = AddSize(g[i - 1], sizes[i])
    <3>1. i - 1 \in 0..Len(sizes)
      BY <1>1
    <3>2. g[i - 1] \in Nat
      BY <2>1, <3>1
    <3>3. QED BY <1>3, <2>1, <3>2
  <2>3. QED BY <2>1, <2>2
<1>5. f = [i \in 0..Len(sizes) |-> IF i = 0 THEN to ELSE AddSize(f[i - 1], sizes[i])]
  <2>. DEFINE acc[i \in 0..Len(sizes)] == IF i = 0 THEN to ELSE AddSize(acc[i - 1], sizes[i])
  <2>1. PICK g : Iterates(g, Nat, to, Len(sizes), step)
    BY <1>1, <1>2, Iterated, Zenon
  <2>2. g = [i \in 0..Len(sizes) |-> IF i = 0 THEN to ELSE AddSize(g[i - 1], sizes[i])]
    <3>1. g = [i \in 0..Len(sizes) |-> g[i]] /\ g[0] = to
          /\ \A i \in 1..Len(sizes) : g[i] = AddSize(g[i - 1], sizes[i])
      BY <1>4, <2>1
    <3>2. \A i \in 0..Len(sizes) : i = 0 \/ i \in 1..Len(sizes)
      BY <1>1
    <3>3. \A i \in 1..Len(sizes) : i # 0
      OBVIOUS
    <3>4. QED BY <3>1, <3>2, <3>3, Zenon
  <2>3. acc = [i \in 0..Len(sizes) |-> IF i = 0 THEN to ELSE AddSize(acc[i - 1], sizes[i])]
    BY <2>2
  <2>4. f = acc
    BY DEF Ends, Folded
  <2>5. QED BY <2>3, <2>4
<1>. HIDE DEF f
<1>6. f = [i \in 0..Len(sizes) |-> f[i]] /\ f[0] = to
      /\ \A i \in 1..Len(sizes) : f[i] = AddSize(f[i - 1], sizes[i])
  <2>1. 0 \in 0..Len(sizes) /\ \A i \in 1..Len(sizes) : i \in 0..Len(sizes) /\ i # 0
    BY <1>1
  <2>2. QED BY <1>5, <2>1
<1>7. \A i \in 1..Len(sizes) : f[i - 1] \in Nat => f[i] = step[i][f[i - 1]]
  BY <1>3, <1>6
<1>8. Iterates(f, Nat, to, Len(sizes), step)
  BY <1>1, <1>2, <1>6, <1>7, IteratesToo, Zenon
<1>9. QED BY <1>4, <1>8 DEF f

LEMMA AddDirectoryType ==
  ASSUME SizesAssumption, NEW to \in Nat, NEW sizes \in Seq(Nat)
  PROVE  /\ AddDirectory(to, sizes) \in Nat
         /\ \E s \in Nat : AddDirectory(to, sizes) = Bytes(s)
<1>1. Ends(to, sizes)[Len(sizes)] \in Nat
  BY EndsFollow
<1>2. QED BY <1>1, SectorsOf DEF AddDirectory

LEMMA DirectoryEndsFollow ==
  ASSUME SizesAssumption, NEW sizes \in Seq(Seq(Nat))
  PROVE  /\ DirectoryEnds(sizes) \in [0..Len(sizes) -> Nat] /\ DirectoryEnds(sizes)[0] = 0
         /\ \A i \in 1..Len(sizes) : DirectoryEnds(sizes)[i]
              = AddDirectory(DirectoryEnds(sizes)[i - 1], sizes[i])
<1>. DEFINE f == DirectoryEnds(sizes)
            step == [i \in 1..Len(sizes) |-> [v \in Nat |-> AddDirectory(v, sizes[i])]]
<1>1. /\ Len(sizes) \in Nat /\ 0 \in Nat
      /\ \A i \in 1..Len(sizes), v \in Nat : AddDirectory(v, sizes[i]) \in Nat
  <2>1. \A i \in 1..Len(sizes) : sizes[i] \in Seq(Nat)
    OBVIOUS
  <2>2. \A i \in 1..Len(sizes), v \in Nat : AddDirectory(v, sizes[i]) \in Nat
    BY <2>1, AddDirectoryType, Zenon
  <2>3. QED BY <2>2
<1>2. step \in [1..Len(sizes) -> [Nat -> Nat]]
  BY <1>1
<1>3. \A i \in 1..Len(sizes), v \in Nat : step[i][v] = AddDirectory(v, sizes[i])
  OBVIOUS
<1>. HIDE DEF step
<1>4. ASSUME NEW g, Iterates(g, Nat, 0, Len(sizes), step)
      PROVE  /\ g \in [0..Len(sizes) -> Nat] /\ g[0] = 0
             /\ \A i \in 1..Len(sizes) : g[i] = AddDirectory(g[i - 1], sizes[i])
  <2>1. g \in [0..Len(sizes) -> Nat] /\ g[0] = 0 /\ \A i \in 1..Len(sizes) : g[i] = step[i][g[i - 1]]
    BY <1>4 DEF Iterates
  <2>2. ASSUME NEW i \in 1..Len(sizes) PROVE g[i] = AddDirectory(g[i - 1], sizes[i])
    <3>1. i - 1 \in 0..Len(sizes)
      BY <1>1
    <3>2. g[i - 1] \in Nat
      BY <2>1, <3>1
    <3>3. QED BY <1>3, <2>1, <3>2
  <2>3. QED BY <2>1, <2>2
<1>5. f = [i \in 0..Len(sizes) |-> IF i = 0 THEN 0 ELSE AddDirectory(f[i - 1], sizes[i])]
  <2>. DEFINE acc[i \in 0..Len(sizes)] == IF i = 0 THEN 0 ELSE AddDirectory(acc[i - 1], sizes[i])
  <2>1. PICK g : Iterates(g, Nat, 0, Len(sizes), step)
    BY <1>1, <1>2, Iterated, Zenon
  <2>2. g = [i \in 0..Len(sizes) |-> IF i = 0 THEN 0 ELSE AddDirectory(g[i - 1], sizes[i])]
    <3>1. g = [i \in 0..Len(sizes) |-> g[i]] /\ g[0] = 0
          /\ \A i \in 1..Len(sizes) : g[i] = AddDirectory(g[i - 1], sizes[i])
      BY <1>4, <2>1
    <3>2. \A i \in 0..Len(sizes) : i = 0 \/ i \in 1..Len(sizes)
      BY <1>1
    <3>3. \A i \in 1..Len(sizes) : i # 0
      OBVIOUS
    <3>4. QED BY <3>1, <3>2, <3>3, Zenon
  <2>3. acc = [i \in 0..Len(sizes) |-> IF i = 0 THEN 0 ELSE AddDirectory(acc[i - 1], sizes[i])]
    BY <2>2
  <2>4. f = acc
    BY DEF DirectoryEnds, Folded
  <2>5. QED BY <2>3, <2>4
<1>. HIDE DEF f
<1>6. f = [i \in 0..Len(sizes) |-> f[i]] /\ f[0] = 0
      /\ \A i \in 1..Len(sizes) : f[i] = AddDirectory(f[i - 1], sizes[i])
  <2>1. 0 \in 0..Len(sizes) /\ \A i \in 1..Len(sizes) : i \in 0..Len(sizes) /\ i # 0
    BY <1>1
  <2>2. QED BY <1>5, <2>1
<1>7. \A i \in 1..Len(sizes) : f[i - 1] \in Nat => f[i] = step[i][f[i - 1]]
  BY <1>3, <1>6
<1>8. Iterates(f, Nat, 0, Len(sizes), step)
  BY <1>1, <1>2, <1>6, <1>7, IteratesToo, Zenon
<1>9. QED BY <1>4, <1>8 DEF f

LEMMA EncodedType ==
  ASSUME SizesAssumption, NEW end \in Nat, NEW size \in Nat
  PROVE  Encoded(end, size) \in Nat
BY AddSizeType

LEMMA EncodedEndsFollow ==
  ASSUME SizesAssumption, NEW to \in Nat, NEW sizes \in Seq(Nat)
  PROVE  /\ EncodedEnds(to, sizes) \in [0..Len(sizes) -> Nat] /\ EncodedEnds(to, sizes)[0] = to
         /\ \A i \in 1..Len(sizes) : EncodedEnds(to, sizes)[i]
              = Encoded(EncodedEnds(to, sizes)[i - 1], sizes[i])
<1>. DEFINE f == EncodedEnds(to, sizes)
            step == [i \in 1..Len(sizes) |-> [v \in Nat |-> Encoded(v, sizes[i])]]
<1>1. /\ Len(sizes) \in Nat /\ to \in Nat
      /\ \A i \in 1..Len(sizes), v \in Nat : Encoded(v, sizes[i]) \in Nat
  <2>1. \A i \in 1..Len(sizes) : sizes[i] \in Nat
    OBVIOUS
  <2>2. \A i \in 1..Len(sizes), v \in Nat : Encoded(v, sizes[i]) \in Nat
    BY <2>1, EncodedType, Zenon
  <2>3. QED BY <2>2
<1>2. step \in [1..Len(sizes) -> [Nat -> Nat]]
  BY <1>1
<1>3. \A i \in 1..Len(sizes), v \in Nat : step[i][v] = Encoded(v, sizes[i])
  OBVIOUS
<1>. HIDE DEF step
<1>4. ASSUME NEW g, Iterates(g, Nat, to, Len(sizes), step)
      PROVE  /\ g \in [0..Len(sizes) -> Nat] /\ g[0] = to
             /\ \A i \in 1..Len(sizes) : g[i] = Encoded(g[i - 1], sizes[i])
  <2>1. g \in [0..Len(sizes) -> Nat] /\ g[0] = to /\ \A i \in 1..Len(sizes) : g[i] = step[i][g[i - 1]]
    BY <1>4 DEF Iterates
  <2>2. ASSUME NEW i \in 1..Len(sizes) PROVE g[i] = Encoded(g[i - 1], sizes[i])
    <3>1. i - 1 \in 0..Len(sizes)
      BY <1>1
    <3>2. g[i - 1] \in Nat
      BY <2>1, <3>1
    <3>3. QED BY <1>3, <2>1, <3>2
  <2>3. QED BY <2>1, <2>2
<1>5. f = [i \in 0..Len(sizes) |-> IF i = 0 THEN to ELSE Encoded(f[i - 1], sizes[i])]
  <2>. DEFINE acc[i \in 0..Len(sizes)] == IF i = 0 THEN to ELSE Encoded(acc[i - 1], sizes[i])
  <2>1. PICK g : Iterates(g, Nat, to, Len(sizes), step)
    BY <1>1, <1>2, Iterated, Zenon
  <2>2. g = [i \in 0..Len(sizes) |-> IF i = 0 THEN to ELSE Encoded(g[i - 1], sizes[i])]
    <3>1. g = [i \in 0..Len(sizes) |-> g[i]] /\ g[0] = to
          /\ \A i \in 1..Len(sizes) : g[i] = Encoded(g[i - 1], sizes[i])
      BY <1>4, <2>1
    <3>2. \A i \in 0..Len(sizes) : i = 0 \/ i \in 1..Len(sizes)
      BY <1>1
    <3>3. \A i \in 1..Len(sizes) : i # 0
      OBVIOUS
    <3>4. QED BY <3>1, <3>2, <3>3, Zenon
  <2>3. acc = [i \in 0..Len(sizes) |-> IF i = 0 THEN to ELSE Encoded(acc[i - 1], sizes[i])]
    BY <2>2
  <2>4. f = acc
    BY DEF EncodedEnds, Folded
  <2>5. QED BY <2>3, <2>4
<1>. HIDE DEF f
<1>6. f = [i \in 0..Len(sizes) |-> f[i]] /\ f[0] = to
      /\ \A i \in 1..Len(sizes) : f[i] = Encoded(f[i - 1], sizes[i])
  <2>1. 0 \in 0..Len(sizes) /\ \A i \in 1..Len(sizes) : i \in 0..Len(sizes) /\ i # 0
    BY <1>1
  <2>2. QED BY <1>5, <2>1
<1>7. \A i \in 1..Len(sizes) : f[i - 1] \in Nat => f[i] = step[i][f[i - 1]]
  BY <1>3, <1>6
<1>8. Iterates(f, Nat, to, Len(sizes), step)
  BY <1>1, <1>2, <1>6, <1>7, IteratesToo, Zenon
<1>9. QED BY <1>4, <1>8 DEF f
-----------------------------------------------------------------------------
(* Sequences.                                                              *)

LEMMA Joined ==
  ASSUME NEW X, NEW a \in Seq(X), NEW b \in Seq(X)
  PROVE  /\ a \o b \in Seq(X) /\ Len(a \o b) = Len(a) + Len(b) /\ Len(a) \in Nat /\ Len(b) \in Nat
         /\ \A i \in 1..Len(a) : (a \o b)[i] = a[i]
         /\ \A i \in 1..Len(b) : (a \o b)[Len(a) + i] = b[i]
         /\ \A i \in 1..Len(a \o b) : i \in 1..Len(a)
            \/ (i - Len(a) \in 1..Len(b) /\ (a \o b)[i] = b[i - Len(a)])
<1>1. a \o b \in Seq(X) /\ Len(a \o b) = Len(a) + Len(b) /\ Len(a) \in Nat /\ Len(b) \in Nat
  OBVIOUS
<1>2. ASSUME NEW i \in 1..Len(a) PROVE (a \o b)[i] = a[i]
  BY <1>1
<1>3. ASSUME NEW i \in 1..Len(b) PROVE (a \o b)[Len(a) + i] = b[i]
  <2>1. Len(a) + i \in 1..(Len(a) + Len(b)) /\ Len(a) + i > Len(a)
    BY <1>1
  <2>2. QED BY <1>1, <2>1
<1>4. ASSUME NEW i \in 1..Len(a \o b), i \notin 1..Len(a)
      PROVE  i - Len(a) \in 1..Len(b) /\ (a \o b)[i] = b[i - Len(a)]
  <2>1. i - Len(a) \in 1..Len(b) /\ Len(a) + (i - Len(a)) = i
    BY <1>1, <1>4
  <2>2. QED BY <1>3, <2>1
<1>5. QED BY <1>1, <1>2, <1>3, <1>4

LEMMA Appended ==
  ASSUME NEW X, NEW s \in Seq(X), NEW x \in X
  PROVE  /\ Append(s, x) \in Seq(X) /\ Len(s) \in Nat /\ Len(Append(s, x)) = Len(s) + 1
         /\ Append(s, x)[Len(s) + 1] = x
         /\ \A i \in 1..Len(s) : Append(s, x)[i] = s[i]
         /\ Front(Append(s, x)) = s /\ Last(Append(s, x)) = x /\ Append(s, x) # <<>>
<1>1. /\ Append(s, x) \in Seq(X) /\ Len(s) \in Nat /\ Len(Append(s, x)) = Len(s) + 1
      /\ Append(s, x)[Len(s) + 1] = x
  OBVIOUS
<1>2. \A i \in 1..Len(s) : Append(s, x)[i] = s[i]
  OBVIOUS
<1>3. Front(Append(s, x)) = s
  <2>1. Front(Append(s, x)) = SubSeq(Append(s, x), 1, Len(s))
    BY <1>1 DEF Front
  <2>2. SubSeq(Append(s, x), 1, Len(s)) = s
    BY <1>1, <1>2
  <2>3. QED BY <2>1, <2>2
<1>4. Last(Append(s, x)) = x
  BY <1>1 DEF Last
<1>5. Append(s, x) # <<>>
  BY <1>1
<1>6. QED BY <1>1, <1>2, <1>3, <1>4, <1>5

LEMMA SumsType ==
  ASSUME NEW s \in Seq(Nat)
  PROVE  /\ Len(s) \in Nat /\ Sum(s) \in Nat /\ \A i \in 0..Len(s) : Sums(s)[i] \in Nat
         /\ \A i \in 1..Len(s) : Sums(s)[i - 1] \in Nat /\ s[i] \in Nat
<1>1. Len(s) \in Nat /\ \A i \in 1..Len(s) : s[i] \in Nat
  OBVIOUS
<1>2. \A i \in 0..Len(s) : Sums(s)[i] \in Nat
  BY SumsFollow
<1>3. Len(s) \in 0..Len(s) /\ \A i \in 1..Len(s) : i - 1 \in 0..Len(s)
  BY <1>1
<1>4. QED BY <1>1, <1>2, <1>3 DEF Sum

\* Sequences that begin alike have the same sums at first, and so for the rest.
LEMMA SumsOfPrefix ==
  ASSUME NEW a \in Seq(Nat), NEW b \in Seq(Nat), NEW m \in 0..Len(a), m <= Len(b),
         \A i \in 1..m : a[i] = b[i]
  PROVE  \A i \in 0..m : Sums(a)[i] = Sums(b)[i]
<1>. DEFINE S == {i \in 0..m : Sums(a)[i] = Sums(b)[i]}
<1>1. 0 \in S
  BY SumsFollow
<1>2. ASSUME NEW i \in 1..m, i - 1 \in S PROVE i \in S
  <2>1. i \in 1..Len(a) /\ i \in 1..Len(b) /\ i \in 0..m
    OBVIOUS
  <2>2. Sums(a)[i] = Sums(a)[i - 1] + a[i] /\ Sums(b)[i] = Sums(b)[i - 1] + b[i]
    BY <2>1, SumsFollow
  <2>3. QED BY <1>2, <2>1, <2>2
<1>3. \A i \in 0..m : i \in S
  <2>1. m \in Nat
    OBVIOUS
  <2>. HIDE DEF S
  <2>2. QED BY <1>1, <1>2, <2>1, UpTo
<1>4. QED BY <1>3

LEMMA SumsOfJoined ==
  ASSUME NEW a \in Seq(Nat), NEW b \in Seq(Nat)
  PROVE  /\ \A i \in 0..Len(a) : Sums(a \o b)[i] = Sums(a)[i]
         /\ \A i \in 0..Len(b) : Sums(a \o b)[Len(a) + i] = Sum(a) + Sums(b)[i]
<1>. DEFINE c == a \o b
            S == {i \in 0..Len(b) : Sums(c)[Len(a) + i] = Sum(a) + Sums(b)[i]}
<1>1. /\ c \in Seq(Nat) /\ Len(c) = Len(a) + Len(b) /\ Len(a) \in Nat /\ Len(b) \in Nat
      /\ \A i \in 1..Len(a) : c[i] = a[i]
      /\ \A i \in 1..Len(b) : c[Len(a) + i] = b[i]
  BY Joined
<1>. HIDE DEF c
<1>2. \A i \in 0..Len(a) : Sums(c)[i] = Sums(a)[i]
  <2>1. Len(a) \in 0..Len(c) /\ Len(a) <= Len(a)
    BY <1>1
  <2>2. QED BY <1>1, <2>1, SumsOfPrefix
<1>3. 0 \in S
  <2>1. Sums(b)[0] = 0 /\ Sums(c)[Len(a)] = Sum(a) /\ Sum(a) \in Nat
    BY <1>1, <1>2, SumsFollow, SumsType DEF Sum
  <2>2. QED BY <1>1, <2>1
<1>4. ASSUME NEW i \in 1..Len(b), i - 1 \in S PROVE i \in S
  <2>1. Len(a) + i \in 1..Len(c) /\ (Len(a) + i) - 1 = Len(a) + (i - 1) /\ i \in 0..Len(b)
        /\ i - 1 \in 0..Len(b)
    BY <1>1
  <2>2. Sums(c)[Len(a) + i] = Sums(c)[Len(a) + (i - 1)] + c[Len(a) + i]
    BY <1>1, <2>1, SumsFollow
  <2>3. Sums(b)[i] = Sums(b)[i - 1] + b[i] /\ Sums(b)[i - 1] \in Nat /\ b[i] \in Nat
    BY SumsFollow, SumsType
  <2>4. Sum(a) \in Nat
    BY SumsType
  <2>5. Sums(c)[Len(a) + (i - 1)] = Sum(a) + Sums(b)[i - 1] /\ c[Len(a) + i] = b[i]
    BY <1>1, <1>4
  <2>6. QED BY <2>1, <2>2, <2>3, <2>4, <2>5, SMTT(30)
<1>5. \A i \in 0..Len(b) : i \in S
  <2>. HIDE DEF S
  <2>1. QED BY <1>1, <1>3, <1>4, UpTo
<1>6. QED BY <1>2, <1>5 DEF c

\* Sums do not decrease.
LEMMA SumsOrder ==
  ASSUME NEW s \in Seq(Nat), NEW i \in 1..Len(s)
  PROVE  \A j \in i..Len(s) : Sums(s)[i - 1] + s[i] <= Sums(s)[j] /\ Sums(s)[j] \in Nat
<1>. DEFINE S == {k \in 0..(Len(s) - i) : Sums(s)[i] <= Sums(s)[i + k]}
<1>1. Len(s) \in Nat /\ i \in 0..Len(s) /\ Sums(s)[i] \in Nat /\ Len(s) - i \in Nat
  BY SumsFollow
<1>2. 0 \in S
  BY <1>1
<1>3. ASSUME NEW k \in 1..(Len(s) - i), k - 1 \in S PROVE k \in S
  <2>1. i + k \in 1..Len(s) /\ (i + k) - 1 = i + (k - 1) /\ i + (k - 1) \in 0..Len(s)
    BY <1>1
  <2>2. Sums(s)[i + k] = Sums(s)[i + (k - 1)] + s[i + k] /\ s[i + k] \in Nat
        /\ Sums(s)[i + (k - 1)] \in Nat
    BY <2>1, SumsFollow, SumsType
  <2>3. Sums(s)[i] <= Sums(s)[i + (k - 1)]
    BY <1>3
  <2>4. QED BY <1>1, <2>2, <2>3
<1>4. \A k \in 0..(Len(s) - i) : k \in S
  <2>. HIDE DEF S
  <2>1. QED BY <1>1, <1>2, <1>3, UpTo
<1>5. ASSUME NEW j \in i..Len(s) PROVE Sums(s)[i - 1] + s[i] <= Sums(s)[j] /\ Sums(s)[j] \in Nat
  <2>1. j - i \in 0..(Len(s) - i) /\ i + (j - i) = j /\ j \in 0..Len(s)
    BY <1>1
  <2>2. Sums(s)[i] <= Sums(s)[j]
    BY <1>4, <2>1
  <2>3. Sums(s)[i] = Sums(s)[i - 1] + s[i] /\ Sums(s)[j] \in Nat
    BY <2>1, SumsFollow
  <2>4. QED BY <2>2, <2>3
<1>6. QED BY <1>5

LEMMA SelectionsFollow ==
  ASSUME NEW X, NEW S, NEW s \in Seq(X)
  PROVE  /\ Selections(s, S) \in [0..Len(s) -> Seq(X)] /\ Selections(s, S)[0] = <<>>
         /\ \A i \in 1..Len(s) : Selections(s, S)[i]
              = (IF s[i] \in S THEN Append(Selections(s, S)[i - 1], s[i])
              ELSE Selections(s, S)[i - 1])
<1>. DEFINE f == Selections(s, S)
            step == [i \in 1..Len(s) |-> [v \in Seq(X) |-> (IF s[i] \in S THEN Append(v, s[i]) ELSE v)]]
<1>1. /\ Len(s) \in Nat /\ <<>> \in Seq(X)
      /\ \A i \in 1..Len(s), v \in Seq(X) : (IF s[i] \in S THEN Append(v, s[i]) ELSE v) \in Seq(X)
  <2>1. \A i \in 1..Len(s) : s[i] \in X
    OBVIOUS
  <2>2. QED BY <2>1
<1>2. step \in [1..Len(s) -> [Seq(X) -> Seq(X)]]
  BY <1>1
<1>3. \A i \in 1..Len(s), v \in Seq(X) : step[i][v] = (IF s[i] \in S THEN Append(v, s[i]) ELSE v)
  OBVIOUS
<1>. HIDE DEF step
<1>4. ASSUME NEW g, Iterates(g, Seq(X), <<>>, Len(s), step)
      PROVE  /\ g \in [0..Len(s) -> Seq(X)] /\ g[0] = <<>>
             /\ \A i \in 1..Len(s) : g[i] = (IF s[i] \in S THEN Append(g[i - 1], s[i]) ELSE g[i - 1])
  <2>1. g \in [0..Len(s) -> Seq(X)] /\ g[0] = <<>> /\ \A i \in 1..Len(s) : g[i] = step[i][g[i - 1]]
    BY <1>4 DEF Iterates
  <2>2. ASSUME NEW i \in 1..Len(s) PROVE g[i]
                 = (IF s[i] \in S THEN Append(g[i - 1], s[i]) ELSE g[i - 1])
    <3>1. i - 1 \in 0..Len(s)
      BY <1>1
    <3>2. g[i - 1] \in Seq(X)
      BY <2>1, <3>1
    <3>3. QED BY <1>3, <2>1, <3>2
  <2>3. QED BY <2>1, <2>2
<1>5. f = [i \in 0..Len(s) |-> IF i = 0 THEN <<>>
        ELSE (IF s[i] \in S THEN Append(f[i - 1], s[i]) ELSE f[i - 1])]
  <2>. DEFINE acc[i \in 0..Len(s)] == IF i = 0 THEN <<>>
         ELSE (IF s[i] \in S THEN Append(acc[i - 1], s[i]) ELSE acc[i - 1])
  <2>1. PICK g : Iterates(g, Seq(X), <<>>, Len(s), step)
    BY <1>1, <1>2, Iterated, Zenon
  <2>2. g = [i \in 0..Len(s) |-> IF i = 0 THEN <<>>
          ELSE (IF s[i] \in S THEN Append(g[i - 1], s[i]) ELSE g[i - 1])]
    <3>1. g = [i \in 0..Len(s) |-> g[i]] /\ g[0] = <<>> /\ \A i \in 1..Len(s) : g[i]
            = (IF s[i] \in S THEN Append(g[i - 1], s[i]) ELSE g[i - 1])
      BY <1>4, <2>1
    <3>2. \A i \in 0..Len(s) : i = 0 \/ i \in 1..Len(s)
      BY <1>1
    <3>3. \A i \in 1..Len(s) : i # 0
      OBVIOUS
    <3>4. QED BY <3>1, <3>2, <3>3, Zenon
  <2>3. acc = [i \in 0..Len(s) |-> IF i = 0 THEN <<>>
          ELSE (IF s[i] \in S THEN Append(acc[i - 1], s[i]) ELSE acc[i - 1])]
    BY <2>2
  <2>4. f = acc
    BY DEF Selections, Folded
  <2>5. QED BY <2>3, <2>4
<1>. HIDE DEF f
<1>6. f = [i \in 0..Len(s) |-> f[i]] /\ f[0] = <<>> /\ \A i \in 1..Len(s) : f[i]
        = (IF s[i] \in S THEN Append(f[i - 1], s[i]) ELSE f[i - 1])
  <2>1. 0 \in 0..Len(s) /\ \A i \in 1..Len(s) : i \in 0..Len(s) /\ i # 0
    BY <1>1
  <2>2. QED BY <1>5, <2>1
<1>7. \A i \in 1..Len(s) : f[i - 1] \in Seq(X) => f[i] = step[i][f[i - 1]]
  BY <1>3, <1>6
<1>8. Iterates(f, Seq(X), <<>>, Len(s), step)
  BY <1>1, <1>2, <1>6, <1>7, IteratesToo, Zenon
<1>9. QED BY <1>4, <1>8 DEF f

LEMMA SelectedOf ==
  ASSUME NEW X, NEW S, NEW s \in Seq(X)
  PROVE  /\ Selected(s, S) \in Seq(X) /\ Len(Selected(s, S)) \in Nat
         /\ \A e \in 1..Len(Selected(s, S)) : Selected(s, S)[e] \in S
            /\ \E j \in 1..Len(s) : Selected(s, S)[e] = s[j]
         /\ \A j \in 1..Len(s) : s[j] \in S
              => \E e \in 1..Len(Selected(s, S)) : Selected(s, S)[e] = s[j]
         /\ (\A i, j \in 1..Len(s) : s[i] = s[j] => i = j)
              => \A d, e \in 1..Len(Selected(s, S)) : Selected(s, S)[d] = Selected(s, S)[e] => d = e
<1>. DEFINE f == Selections(s, S)
            From(i) == \A e \in 1..Len(f[i]) : f[i][e] \in S /\ \E j \in 1..i : f[i][e] = s[j]
            All(i) == \A j \in 1..i : s[j] \in S => \E e \in 1..Len(f[i]) : f[i][e] = s[j]
            Once == \A i, j \in 1..Len(s) : s[i] = s[j] => i = j
            Apart(i) == Once => \A d, e \in 1..Len(f[i]) : f[i][d] = f[i][e] => d = e
            P == {i \in 0..Len(s) : From(i) /\ All(i) /\ Apart(i)}
<1>1. /\ Len(s) \in Nat /\ \A i \in 1..Len(s) : s[i] \in X
      /\ f \in [0..Len(s) -> Seq(X)] /\ f[0] = <<>>
      /\ \A i \in 1..Len(s) : f[i] = IF s[i] \in S THEN Append(f[i - 1], s[i]) ELSE f[i - 1]
  BY SelectionsFollow
<1>. HIDE DEF f
<1>2. 0 \in P
  BY <1>1
<1>3. ASSUME NEW i \in 1..Len(s), i - 1 \in P PROVE i \in P
  <2>1. i \in 0..Len(s) /\ i - 1 \in 0..Len(s) /\ f[i - 1] \in Seq(X) /\ s[i] \in X
    <3>1. i \in 0..Len(s) /\ i - 1 \in 0..Len(s)
      BY <1>1
    <3>2. QED BY <1>1, <3>1
  <2>2. From(i - 1) /\ All(i - 1) /\ Apart(i - 1)
    BY <1>3
  <2>3. CASE s[i] \notin S
    <3>1. f[i] = f[i - 1]
      BY <1>1, <2>3
    <3>2. From(i)
      BY <2>2, <3>1
    <3>3. All(i)
      <4>1. ASSUME NEW j \in 1..i, s[j] \in S PROVE j \in 1..(i - 1)
        BY <2>3, <4>1
      <4>2. QED BY <2>2, <3>1, <4>1
    <3>4. Apart(i)
      BY <2>2, <3>1
    <3>5. QED BY <2>1, <3>2, <3>3, <3>4
  <2>4. CASE s[i] \in S
    <3>. DEFINE g == f[i - 1]
    <3>1. f[i] = Append(g, s[i]) /\ g \in Seq(X)
      BY <1>1, <2>1, <2>4
    <3>2. From(i - 1) /\ All(i - 1) /\ Apart(i - 1)
      BY <2>2
    <3>. HIDE DEF g
    <3>3. /\ Len(g) \in Nat /\ Len(f[i]) = Len(g) + 1 /\ f[i][Len(g) + 1] = s[i]
          /\ \A e \in 1..Len(g) : f[i][e] = g[e]
      BY <2>1, <3>1, Appended
    <3>4. \A e \in 1..Len(f[i]) : e \in 1..Len(g) \/ e = Len(g) + 1
      BY <3>3
    <3>5. From(i)
      <4>1. \A e \in 1..Len(g) : g[e] \in S /\ \E j \in 1..(i - 1) : g[e] = s[j]
        BY <3>2 DEF g
      <4>2. QED BY <2>4, <3>3, <3>4, <4>1
    <3>6. All(i)
      <4>1. \A j \in 1..(i - 1) : s[j] \in S => \E e \in 1..Len(g) : g[e] = s[j]
        BY <3>2 DEF g
      <4>2. \A e \in 1..Len(g) : e \in 1..Len(f[i])
        BY <3>3
      <4>3. Len(g) + 1 \in 1..Len(f[i])
        BY <3>3
      <4>4. \A j \in 1..i : j \in 1..(i - 1) \/ j = i
        OBVIOUS
      <4>5. QED BY <3>3, <4>1, <4>2, <4>3, <4>4
    <3>7. Apart(i)
      <4>1. SUFFICES ASSUME Once, NEW d \in 1..Len(f[i]), NEW e \in 1..Len(f[i]), f[i][d] = f[i][e]
                     PROVE  d = e
        OBVIOUS
      <4>2. \A a, b \in 1..Len(g) : g[a] = g[b] => a = b
        BY <3>2, <4>1 DEF g
      <4>3. \A a \in 1..Len(g) : g[a] # s[i]
        <5>1. SUFFICES ASSUME NEW a \in 1..Len(g), g[a] = s[i] PROVE FALSE
          OBVIOUS
        <5>2. PICK j \in 1..(i - 1) : g[a] = s[j]
          BY <3>2 DEF g
        <5>3. j \in 1..Len(s) /\ j # i
          BY <1>1
        <5>4. QED BY <4>1, <5>1, <5>2, <5>3
      <4>4. QED BY <3>3, <3>4, <4>1, <4>2, <4>3
    <3>8. QED BY <2>1, <3>5, <3>6, <3>7
  <2>5. QED BY <2>3, <2>4
<1>4. Len(s) \in P
  <2>. HIDE DEF P
  <2>1. \A i \in 0..Len(s) : i \in P
    BY <1>1, <1>2, <1>3, UpTo
  <2>2. QED BY <1>1, <2>1
<1>5. From(Len(s)) /\ All(Len(s)) /\ Apart(Len(s))
  BY <1>4
<1>6. f[Len(s)] \in Seq(X) /\ Len(f[Len(s)]) \in Nat
  BY <1>1
<1>7. QED BY <1>5, <1>6 DEF Selected, f

\* What FlattenSeq makes of the sequences of ss, one after the other.
Joins(g, X, ss) ==
  /\ g \in [0..Len(ss) -> Seq(X)] /\ g[0] = <<>>
  /\ \A k \in 1..Len(ss) : g[k] = g[k - 1] \o ss[k]

LEMMA FlattenFollows ==
  ASSUME NEW X, NEW ss \in Seq(Seq(X))
  PROVE  \E g : Joins(g, X, ss) /\ FlattenSeq(ss) = g[Len(ss)]
<1>. DEFINE step == [k \in 1..Len(ss) |-> [v \in Seq(X) |-> v \o ss[k]]]
            flatten[k \in 1..Len(ss)] == IF k = 1 THEN ss[k] ELSE flatten[k - 1] \o ss[k]
<1>1. Len(ss) \in Nat /\ <<>> \in Seq(X) /\ \A k \in 1..Len(ss) : ss[k] \in Seq(X)
  OBVIOUS
<1>2. \A k \in 1..Len(ss), v \in Seq(X) : v \o ss[k] \in Seq(X)
  BY <1>1
<1>3. step \in [1..Len(ss) -> [Seq(X) -> Seq(X)]]
  BY <1>2
<1>4. \A k \in 1..Len(ss), v \in Seq(X) : step[k][v] = v \o ss[k]
  OBVIOUS
<1>. HIDE DEF step
<1>5. ASSUME NEW g, Iterates(g, Seq(X), <<>>, Len(ss), step) PROVE Joins(g, X, ss)
  <2>1. /\ g \in [0..Len(ss) -> Seq(X)] /\ g[0] = <<>>
        /\ \A k \in 1..Len(ss) : g[k] = step[k][g[k - 1]]
    BY <1>5 DEF Iterates
  <2>2. ASSUME NEW k \in 1..Len(ss) PROVE g[k] = g[k - 1] \o ss[k]
    <3>1. k - 1 \in 0..Len(ss)
      BY <1>1
    <3>2. g[k - 1] \in Seq(X)
      BY <2>1, <3>1
    <3>3. QED BY <1>4, <2>1, <3>2
  <2>3. QED BY <2>1, <2>2 DEF Joins
<1>6. PICK g : Iterates(g, Seq(X), <<>>, Len(ss), step)
  BY <1>1, <1>3, Iterated, Zenon
<1>7. /\ g \in [0..Len(ss) -> Seq(X)] /\ g[0] = <<>>
      /\ \A k \in 1..Len(ss) : g[k] = g[k - 1] \o ss[k]
  BY <1>5, <1>6 DEF Joins
<1>8. CASE Len(ss) = 0
  <2>1. ss = <<>> /\ g[Len(ss)] = <<>>
    BY <1>7, <1>8
  <2>2. FlattenSeq(ss) = ss
    BY <1>8 DEF FlattenSeq
  <2>3. QED BY <1>5, <1>6, <2>1, <2>2
<1>9. CASE Len(ss) # 0
  <2>. DEFINE r == [k \in 1..Len(ss) |-> g[k]]
  <2>1. ASSUME NEW k \in 1..Len(ss) PROVE r[k] = IF k = 1 THEN ss[k] ELSE r[k - 1] \o ss[k]
    <3>1. CASE k = 1
      <4>1. ss[k] \in Seq(X) /\ k - 1 = 0 /\ g[k] = g[k - 1] \o ss[k]
        <5>1. k - 1 = 0
          BY <3>1
        <5>2. QED BY <1>1, <1>7, <5>1, Zenon
      <4>2. g[k] = <<>> \o ss[k]
        BY <1>7, <4>1
      <4>3. <<>> \o ss[k] = ss[k]
        BY <4>1
      <4>4. QED BY <3>1, <4>2, <4>3
    <3>2. CASE k # 1
      <4>1. k - 1 \in 1..Len(ss)
        BY <1>1, <3>2
      <4>2. QED BY <1>7, <3>2, <4>1
    <3>3. QED BY <3>1, <3>2
  <2>2. r = [k \in 1..Len(ss) |-> IF k = 1 THEN ss[k] ELSE r[k - 1] \o ss[k]]
    BY <2>1
  <2>. HIDE DEF r
  <2>3. flatten = [k \in 1..Len(ss) |-> IF k = 1 THEN ss[k] ELSE flatten[k - 1] \o ss[k]]
    BY <2>2
  <2>4. FlattenSeq(ss) = flatten[Len(ss)]
    BY <1>9 DEF FlattenSeq
  <2>. HIDE DEF flatten
  <2>. DEFINE h == [k \in 0..Len(ss) |-> IF k = 0 THEN <<>> ELSE flatten[k]]
  <2>5. h = [k \in 0..Len(ss) |-> h[k]] /\ h[0] = <<>>
    BY <1>1
  <2>6. ASSUME NEW k \in 1..Len(ss), h[k - 1] \in Seq(X) PROVE h[k] = step[k][h[k - 1]]
    <3>1. h[k] = flatten[k] /\ k \in 0..Len(ss) /\ k - 1 \in 0..Len(ss)
      BY <1>1
    <3>2. CASE k = 1
      <4>1. h[k - 1] = <<>> /\ flatten[k] = ss[k]
        BY <2>3, <3>2
      <4>2. step[k][h[k - 1]] = <<>> \o ss[k] /\ ss[k] \in Seq(X)
        BY <1>1, <1>4, <4>1
      <4>3. QED BY <3>1, <4>1, <4>2
    <3>3. CASE k # 1
      <4>1. k - 1 # 0 /\ h[k - 1] = flatten[k - 1]
        BY <3>1, <3>3
      <4>2. flatten[k] = flatten[k - 1] \o ss[k]
        BY <2>3, <3>3
      <4>3. step[k][h[k - 1]] = h[k - 1] \o ss[k]
        BY <1>4, <2>6
      <4>4. QED BY <3>1, <4>1, <4>2, <4>3
    <3>4. QED BY <3>2, <3>3
  <2>7. h[Len(ss)] = flatten[Len(ss)]
    BY <1>1, <1>9
  <2>. HIDE DEF h
  <2>8. Iterates(h, Seq(X), <<>>, Len(ss), step)
    BY <1>1, <1>3, <2>5, <2>6, IteratesToo, Zenon
  <2>9. QED BY <1>5, <2>4, <2>7, <2>8
<1>10. QED BY <1>8, <1>9

Lens(ss) == [k \in 1..Len(ss) |-> Len(ss[k])]

\* Where each element of the sequences of ss comes in all of them together.
LEMMA FlattenParts ==
  ASSUME NEW X, NEW ss \in Seq(Seq(X))
  PROVE  /\ Lens(ss) \in Seq(Nat) /\ Len(Lens(ss)) = Len(ss)
         /\ \A k \in 1..Len(ss) : Lens(ss)[k] = Len(ss[k])
         /\ FlattenSeq(ss) \in Seq(X) /\ Len(FlattenSeq(ss)) = Sum(Lens(ss))
         /\ \A k \in 1..Len(ss) : \A j \in 1..Len(ss[k]) :
              /\ Sums(Lens(ss))[k - 1] + j \in 1..Len(FlattenSeq(ss))
              /\ FlattenSeq(ss)[Sums(Lens(ss))[k - 1] + j] = ss[k][j]
         /\ \A i \in 1..Len(FlattenSeq(ss)) :
              \E k \in 1..Len(ss) : \E j \in 1..Len(ss[k]) : i = Sums(Lens(ss))[k - 1] + j
<1>. DEFINE L == Sums(Lens(ss))
<1>0. Len(ss) \in Nat /\ \A k \in 1..Len(ss) : ss[k] \in Seq(X) /\ Len(ss[k]) \in Nat
  OBVIOUS
<1>1. Lens(ss) \in Seq(Nat) /\ Len(Lens(ss)) = Len(ss) /\ \A k \in 1..Len(ss) : Lens(ss)[k] = Len(ss[k])
  BY <1>0 DEF Lens
<1>2. /\ L[0] = 0 /\ (\A k \in 0..Len(ss) : L[k] \in Nat)
      /\ \A k \in 1..Len(ss) : L[k] = L[k - 1] + Len(ss[k]) /\ L[k - 1] \in Nat
  BY <1>1, SumsFollow, SumsType
<1>3. PICK g : Joins(g, X, ss) /\ FlattenSeq(ss) = g[Len(ss)]
  BY FlattenFollows
<1>4. /\ g \in [0..Len(ss) -> Seq(X)] /\ g[0] = <<>>
      /\ \A k \in 1..Len(ss) : g[k] = g[k - 1] \o ss[k]
  BY <1>3 DEF Joins
<1>. HIDE DEF L
<1>. DEFINE Forth(m) == \A k \in 1..m : \A j \in 1..Len(ss[k]) :
                          L[k - 1] + j \in 1..Len(g[m]) /\ g[m][L[k - 1] + j] = ss[k][j]
            Back(m) == \A i \in 1..Len(g[m]) : \E k \in 1..m : \E j \in 1..Len(ss[k]) : i = L[k - 1] + j
            P == {m \in 0..Len(ss) : Len(g[m]) = L[m] /\ Forth(m) /\ Back(m)}
<1>5. 0 \in P
  BY <1>0, <1>2, <1>4
<1>6. ASSUME NEW m \in 1..Len(ss), m - 1 \in P PROVE m \in P
  <2>1. m \in 0..Len(ss) /\ m - 1 \in 0..Len(ss)
    BY <1>0
  <2>2. g[m - 1] \in Seq(X) /\ ss[m] \in Seq(X) /\ g[m] = g[m - 1] \o ss[m]
    BY <1>0, <1>4, <2>1
  <2>3. Len(g[m - 1]) = L[m - 1] /\ Forth(m - 1) /\ Back(m - 1)
    BY <1>6
  <2>4. /\ Len(g[m]) = L[m - 1] + Len(ss[m]) /\ L[m - 1] \in Nat /\ Len(ss[m]) \in Nat
        /\ \A i \in 1..L[m - 1] : g[m][i] = g[m - 1][i]
        /\ \A i \in 1..Len(ss[m]) : g[m][L[m - 1] + i] = ss[m][i]
    <3>. DEFINE a == g[m - 1]
                b == ss[m]
    <3>1. a \in Seq(X) /\ b \in Seq(X) /\ Len(a) = L[m - 1] /\ g[m] = a \o b
      BY <2>2, <2>3
    <3>. HIDE DEF a, b
    <3>2. /\ Len(g[m]) = L[m - 1] + Len(b) /\ L[m - 1] \in Nat /\ Len(b) \in Nat
          /\ \A i \in 1..L[m - 1] : g[m][i] = a[i]
          /\ \A i \in 1..Len(b) : g[m][L[m - 1] + i] = b[i]
      <4>1. /\ Len(a \o b) = Len(a) + Len(b) /\ Len(a) \in Nat /\ Len(b) \in Nat
            /\ \A i \in 1..Len(a) : (a \o b)[i] = a[i]
            /\ \A i \in 1..Len(b) : (a \o b)[Len(a) + i] = b[i]
        <5>1. a \in Seq(X) /\ b \in Seq(X)
          BY <3>1
        <5>2. Len(a \o b) = Len(a) + Len(b) /\ Len(a) \in Nat /\ Len(b) \in Nat
          BY <5>1, Joined
        <5>3. \A i \in 1..Len(a) : (a \o b)[i] = a[i]
          BY <5>1, Joined
        <5>4. \A i \in 1..Len(b) : (a \o b)[Len(a) + i] = b[i]
          BY <5>1, Joined
        <5>5. QED BY <5>2, <5>3, <5>4
      <4>2. QED BY <3>1, <4>1, Zenon
    <3>3. QED BY <3>2 DEF a, b
  <2>5. Len(g[m]) = L[m]
    BY <1>2, <2>4
  <2>6. ASSUME NEW k \in 1..m, NEW j \in 1..Len(ss[k])
        PROVE  L[k - 1] + j \in 1..Len(g[m]) /\ g[m][L[k - 1] + j] = ss[k][j]
    <3>1. CASE k = m
      <4>1. L[m - 1] + j \in 1..Len(g[m])
        BY <2>4, <3>1
      <4>2. QED BY <2>4, <3>1, <4>1
    <3>2. CASE k # m
      <4>1. k \in 1..(m - 1)
        BY <3>2
      <4>2. L[k - 1] + j \in 1..Len(g[m - 1]) /\ g[m - 1][L[k - 1] + j] = ss[k][j]
        BY <2>3, <4>1, Zenon
      <4>3. L[k - 1] + j \in 1..L[m - 1]
        BY <2>3, <4>2
      <4>4. L[k - 1] + j \in 1..Len(g[m])
        BY <2>4, <4>3
      <4>5. QED BY <2>4, <4>2, <4>3, <4>4
    <3>3. QED BY <3>1, <3>2
  <2>7. ASSUME NEW i \in 1..Len(g[m]) PROVE \E k \in 1..m : \E j \in 1..Len(ss[k]) : i = L[k - 1] + j
    <3>1. CASE i <= L[m - 1]
      <4>1. i \in 1..Len(g[m - 1])
        BY <2>3, <2>4, <3>1
      <4>2. PICK k \in 1..(m - 1) : \E j \in 1..Len(ss[k]) : i = L[k - 1] + j
        BY <2>3, <4>1, Zenon
      <4>3. k \in 1..m
        OBVIOUS
      <4>4. QED BY <4>2, <4>3, Zenon
    <3>2. CASE ~(i <= L[m - 1])
      <4>. DEFINE j == i - L[m - 1]
      <4>1. j \in 1..Len(ss[m]) /\ i = L[m - 1] + j /\ m \in 1..m
        BY <2>4, <3>2
      <4>. HIDE DEF j
      <4>2. QED BY <4>1, Zenon
    <3>3. QED BY <3>1, <3>2
  <2>8. QED BY <2>1, <2>5, <2>6, <2>7
<1>7. Len(ss) \in P
  <2>. HIDE DEF P
  <2>1. \A m \in 0..Len(ss) : m \in P
    BY <1>0, <1>5, <1>6, UpTo
  <2>2. QED BY <1>0, <2>1
<1>8. Len(g[Len(ss)]) = L[Len(ss)] /\ Forth(Len(ss)) /\ Back(Len(ss))
  BY <1>7
<1>9. g[Len(ss)] \in Seq(X)
  BY <1>0, <1>4
<1>10. QED BY <1>1, <1>3, <1>8, <1>9 DEF L, Sum

LEMMA FlattenAppend ==
  ASSUME NEW X, NEW ss \in Seq(Seq(X)), NEW x \in Seq(X)
  PROVE  FlattenSeq(Append(ss, x)) = FlattenSeq(ss) \o x
<1>. DEFINE m == Len(ss)
            more == Append(ss, x)
<1>1. /\ m \in Nat /\ more \in Seq(Seq(X)) /\ Len(more) = m + 1 /\ more[m + 1] = x
      /\ \A k \in 1..m : more[k] = ss[k]
  BY Appended
<1>. HIDE DEF more
<1>2. PICK g : Joins(g, X, ss) /\ FlattenSeq(ss) = g[Len(ss)]
  BY FlattenFollows
<1>3. PICK h : Joins(h, X, more) /\ FlattenSeq(more) = h[Len(more)]
  BY <1>1, FlattenFollows
<1>4. g[0] = <<>> /\ \A k \in 1..m : g[k] = g[k - 1] \o ss[k]
  BY <1>2 DEF Joins
<1>5. h[0] = <<>> /\ \A k \in 1..(m + 1) : h[k] = h[k - 1] \o more[k]
  BY <1>1, <1>3 DEF Joins
<1>6. m + 1 \in 1..(m + 1) /\ (m + 1) - 1 = m /\ \A k \in 1..m : k \in 1..(m + 1)
  BY <1>1
<1>7. m \in Nat
  BY <1>1
<1>. HIDE DEF m
<1>. DEFINE S == {k \in 0..m : g[k] = h[k]}
<1>8. 0 \in S
  BY <1>4, <1>5, <1>7
<1>9. ASSUME NEW k \in 1..m, k - 1 \in S PROVE k \in S
  <2>1. g[k] = h[k]
    BY <1>1, <1>4, <1>5, <1>6, <1>9
  <2>2. QED BY <2>1
<1>10. \A k \in 0..m : k \in S
  <2>. HIDE DEF S
  <2>1. QED BY <1>7, <1>8, <1>9, UpTo
<1>11. g[m] = h[m]
  BY <1>7, <1>10
<1>12. h[m + 1] = h[m] \o x
  BY <1>1, <1>5, <1>6
<1>13. QED BY <1>1, <1>2, <1>3, <1>11, <1>12 DEF m, more
-----------------------------------------------------------------------------
(* Directories.                                                            *)

LEMMA DirectoryEndsType ==
  ASSUME SizesAssumption, NEW sizes \in Seq(Seq(Nat)), NEW k \in 0..Len(sizes)
  PROVE  \E s \in Nat : DirectoryEnds(sizes)[k] = Bytes(s)
<1>1. CASE k = 0
  <2>1. Bytes(0) = 0
    BY SizesAssumption DEF SizesAssumption, Bytes
  <2>2. QED BY <1>1, <2>1, DirectoryEndsFollow
<1>2. CASE k # 0
  <2>1. k \in 1..Len(sizes) /\ k - 1 \in 0..Len(sizes) /\ sizes[k] \in Seq(Nat)
    BY <1>2
  <2>2. DirectoryEnds(sizes)[k - 1] \in Nat
    BY <2>1, DirectoryEndsFollow
  <2>3. DirectoryEnds(sizes)[k] = AddDirectory(DirectoryEnds(sizes)[k - 1], sizes[k])
    BY <2>1, DirectoryEndsFollow
  <2>4. PICK x \in Nat : x = DirectoryEnds(sizes)[k - 1]
    BY <2>2
  <2>5. \E s \in Nat : AddDirectory(x, sizes[k]) = Bytes(s)
    <3>1. sizes[k] \in Seq(Nat)
      BY <2>1
    <3>2. QED BY <3>1, AddDirectoryType, Zenon
  <2>6. QED BY <2>3, <2>4, <2>5
<1>3. QED BY <1>1, <1>2

\* Where directories end depends on those that come before.
LEMMA DirectoryEndsOfPrefix ==
  ASSUME SizesAssumption, NEW a \in Seq(Seq(Nat)), NEW b \in Seq(Seq(Nat)), NEW m \in 0..Len(a),
         m <= Len(b),
         \A i \in 1..m : a[i] = b[i]
  PROVE  \A i \in 0..m : DirectoryEnds(a)[i] = DirectoryEnds(b)[i]
<1>. DEFINE S == {i \in 0..m : DirectoryEnds(a)[i] = DirectoryEnds(b)[i]}
<1>1. 0 \in S
  BY DirectoryEndsFollow
<1>2. ASSUME NEW i \in 1..m, i - 1 \in S PROVE i \in S
  <2>1. i \in 1..Len(a) /\ i \in 1..Len(b) /\ i \in 0..m
    OBVIOUS
  <2>2. /\ DirectoryEnds(a)[i] = AddDirectory(DirectoryEnds(a)[i - 1], a[i])
        /\ DirectoryEnds(b)[i] = AddDirectory(DirectoryEnds(b)[i - 1], b[i])
    BY <2>1, DirectoryEndsFollow
  <2>3. QED BY <1>2, <2>1, <2>2
<1>3. \A i \in 0..m : i \in S
  <2>1. m \in Nat
    OBVIOUS
  <2>. HIDE DEF S
  <2>2. QED BY <1>1, <1>2, <2>1, UpTo
<1>4. QED BY <1>3

\* The encoder ends entries, and directories, where the sizes say, from whole
\* sectors on.
LEMMA EncodedEndsAre ==
  ASSUME SizesAssumption, NEW s \in Nat, NEW b \in Nat, NEW sizes \in Seq(Nat)
  PROVE  EncodedDirectory(Bytes(s) + b, sizes) = Bytes(s) + AddDirectory(b, sizes)
<1>. DEFINE e == EncodedEnds(Bytes(s) + b, sizes)
            f == Ends(b, sizes)
            S == {i \in 0..Len(sizes) : e[i] = Bytes(s) + f[i]}
<1>1. Bytes(s) \in Nat /\ Bytes(s) + b \in Nat /\ Len(sizes) \in Nat
  <2>1. Bytes(s) \in Nat
    BY BytesOf
  <2>2. QED BY <2>1
<1>2. e[0] = Bytes(s) + b /\ \A i \in 1..Len(sizes) : e[i] = Encoded(e[i - 1], sizes[i])
  <2>. DEFINE to == Bytes(s) + b
  <2>1. to \in Nat
    BY <1>1
  <2>. HIDE DEF to
  <2>2. EncodedEnds(to, sizes)[0] = to
        /\ \A i \in 1..Len(sizes) : EncodedEnds(to, sizes)[i]
             = Encoded(EncodedEnds(to, sizes)[i - 1], sizes[i])
    BY <2>1, EncodedEndsFollow, Zenon
  <2>3. QED BY <2>2 DEF to
<1>3. /\ f \in [0..Len(sizes) -> Nat] /\ f[0] = b
      /\ \A i \in 1..Len(sizes) : f[i] = AddSize(f[i - 1], sizes[i])
  BY EndsFollow
<1>. HIDE DEF e, f
<1>4. 0 \in S
  BY <1>1, <1>2, <1>3
<1>5. ASSUME NEW i \in 1..Len(sizes), i - 1 \in S PROVE i \in S
  <2>1. i \in 0..Len(sizes) /\ i - 1 \in 0..Len(sizes) /\ sizes[i] \in Nat
    BY <1>1
  <2>2. PICK x \in Nat : x = f[i - 1]
    BY <1>3, <2>1
  <2>3. e[i - 1] = Bytes(s) + x /\ Bytes(s) + x \in Nat
    BY <1>1, <1>5, <2>2, SMTT(30)
  <2>4. e[i] = AddSize(Bytes(s) + x, sizes[i])
    <3>1. e[i] = Encoded(Bytes(s) + x, sizes[i])
      BY <1>2, <2>3
    <3>2. QED BY <2>1, <2>3, <3>1, AddSizeType
  <2>5. AddSize(Bytes(s) + x, sizes[i]) = Bytes(s) + AddSize(x, sizes[i])
    <3>1. PICK a \in Nat : a = AlignToSectors(x)
      BY SectorsOf
    <3>2. AlignToSectors(Bytes(s) + x) = Bytes(s) + a
      BY <3>1, BehindSectors
    <3>3. (Bytes(s) + a) - (Bytes(s) + x) = a - x
      BY <1>1
    <3>4. AddSize(Bytes(s) + x, sizes[i])
            = (Bytes(s) + x) + (IF a - x <= sizes[i] THEN a - x ELSE 0) + sizes[i]
      BY <3>2, <3>3 DEF AddSize
    <3>5. AddSize(x, sizes[i]) = x + (IF a - x <= sizes[i] THEN a - x ELSE 0) + sizes[i]
      BY <3>1 DEF AddSize
    <3>. DEFINE c == IF a - x <= sizes[i] THEN a - x ELSE 0
    <3>6. c \in Int /\ sizes[i] \in Int /\ Bytes(s) \in Int
      BY <1>1, <2>1, <3>1
    <3>7. /\ AddSize(Bytes(s) + x, sizes[i]) = (Bytes(s) + x) + c + sizes[i]
          /\ AddSize(x, sizes[i]) = x + c + sizes[i]
      BY <3>4, <3>5, Zenon
    <3>. HIDE DEF c
    <3>8. QED BY <3>6, <3>7
  <2>6. f[i] = AddSize(x, sizes[i])
    BY <1>3, <2>2
  <2>7. QED BY <2>1, <2>4, <2>5, <2>6
<1>6. Len(sizes) \in S
  <2>. HIDE DEF S
  <2>1. \A i \in 0..Len(sizes) : i \in S
    BY <1>1, <1>4, <1>5, UpTo
  <2>2. QED BY <1>1, <2>1
<1>7. PICK x \in Nat : x = f[Len(sizes)] /\ e[Len(sizes)] = Bytes(s) + x
  BY <1>1, <1>3, <1>6
<1>8. AlignToSectors(e[Len(sizes)]) = Bytes(s) + AlignToSectors(x)
  <2>1. AlignToSectors(Bytes(s) + x) = Bytes(s) + AlignToSectors(x)
    BY <1>7, BehindSectors
  <2>2. QED BY <1>7, <2>1
<1>9. QED BY <1>7, <1>8 DEF EncodedDirectory, AddDirectory, e, f

LEMMA EncodedDirectoryType ==
  ASSUME SizesAssumption, NEW end \in Nat, NEW sizes \in Seq(Nat)
  PROVE  EncodedDirectory(end, sizes) \in Nat
<1>1. EncodedEnds(end, sizes)[Len(sizes)] \in Nat
  BY EncodedEndsFollow
<1>2. QED BY <1>1, SectorsOf DEF EncodedDirectory

LEMMA EncodedDirsFollow ==
  ASSUME SizesAssumption, NEW t, NEW from \in Nat, DirectorySizes(t) \in Seq(Seq(Nat))
  PROVE  /\ EncodedDirs(from, t) \in [0..Len(DirectorySizes(t)) -> Nat]
            /\ EncodedDirs(from, t)[0] = from
         /\ \A i \in 1..Len(DirectorySizes(t)) :
              EncodedDirs(from, t)[i] = EncodedDirectory(EncodedDirs(from, t)[i - 1],
            DirectorySizes(t)[i])
<1>. DEFINE f == EncodedDirs(from, t)
            step == [i \in 1..Len(DirectorySizes(t)) |-> [v \in Nat |-> EncodedDirectory(v,
            DirectorySizes(t)[i])]]
<1>1. /\ Len(DirectorySizes(t)) \in Nat /\ from \in Nat
      /\ \A i \in 1..Len(DirectorySizes(t)), v \in Nat :
           EncodedDirectory(v, DirectorySizes(t)[i]) \in Nat
  <2>1. \A i \in 1..Len(DirectorySizes(t)) : DirectorySizes(t)[i] \in Seq(Nat)
    OBVIOUS
  <2>2. \A i \in 1..Len(DirectorySizes(t)), v \in Nat :
          EncodedDirectory(v, DirectorySizes(t)[i]) \in Nat
    BY <2>1, EncodedDirectoryType, Zenon
  <2>3. QED BY <2>2
<1>2. step \in [1..Len(DirectorySizes(t)) -> [Nat -> Nat]]
  BY <1>1
<1>3. \A i \in 1..Len(DirectorySizes(t)), v \in Nat :
        step[i][v] = EncodedDirectory(v, DirectorySizes(t)[i])
  OBVIOUS
<1>. HIDE DEF step
<1>4. ASSUME NEW g, Iterates(g, Nat, from, Len(DirectorySizes(t)), step)
      PROVE  /\ g \in [0..Len(DirectorySizes(t)) -> Nat] /\ g[0] = from
             /\ \A i \in 1..Len(DirectorySizes(t)) :
                  g[i] = EncodedDirectory(g[i - 1], DirectorySizes(t)[i])
  <2>1. g \in [0..Len(DirectorySizes(t)) -> Nat] /\ g[0] = from
        /\ \A i \in 1..Len(DirectorySizes(t)) : g[i] = step[i][g[i - 1]]
    BY <1>4 DEF Iterates
  <2>2. ASSUME NEW i \in 1..Len(DirectorySizes(t))
                 PROVE g[i] = EncodedDirectory(g[i - 1], DirectorySizes(t)[i])
    <3>1. i - 1 \in 0..Len(DirectorySizes(t))
      BY <1>1
    <3>2. g[i - 1] \in Nat
      BY <2>1, <3>1
    <3>3. QED BY <1>3, <2>1, <3>2
  <2>3. QED BY <2>1, <2>2
<1>5. f = [i \in 0..Len(DirectorySizes(t)) |-> IF i = 0 THEN from
        ELSE EncodedDirectory(f[i - 1], DirectorySizes(t)[i])]
  <2>. DEFINE acc[i \in 0..Len(DirectorySizes(t))] == IF i = 0 THEN from
         ELSE EncodedDirectory(acc[i - 1], DirectorySizes(t)[i])
  <2>1. PICK g : Iterates(g, Nat, from, Len(DirectorySizes(t)), step)
    BY <1>1, <1>2, Iterated, Zenon
  <2>2. g = [i \in 0..Len(DirectorySizes(t)) |-> IF i = 0 THEN from
          ELSE EncodedDirectory(g[i - 1], DirectorySizes(t)[i])]
    <3>1. g = [i \in 0..Len(DirectorySizes(t)) |-> g[i]] /\ g[0] = from
          /\ \A i \in 1..Len(DirectorySizes(t)) :
            g[i] = EncodedDirectory(g[i - 1], DirectorySizes(t)[i])
      BY <1>4, <2>1
    <3>2. \A i \in 0..Len(DirectorySizes(t)) : i = 0 \/ i \in 1..Len(DirectorySizes(t))
      BY <1>1
    <3>3. \A i \in 1..Len(DirectorySizes(t)) : i # 0
      OBVIOUS
    <3>4. QED BY <3>1, <3>2, <3>3, Zenon
  <2>3. acc = [i \in 0..Len(DirectorySizes(t)) |-> IF i = 0 THEN from
          ELSE EncodedDirectory(acc[i - 1], DirectorySizes(t)[i])]
    BY <2>2
  <2>4. f = acc
    BY DEF EncodedDirs, Folded
  <2>5. QED BY <2>3, <2>4
<1>. HIDE DEF f
<1>6. f = [i \in 0..Len(DirectorySizes(t)) |-> f[i]] /\ f[0] = from
      /\ \A i \in 1..Len(DirectorySizes(t)) :
        f[i] = EncodedDirectory(f[i - 1], DirectorySizes(t)[i])
  <2>1. 0 \in 0..Len(DirectorySizes(t))
        /\ \A i \in 1..Len(DirectorySizes(t)) : i \in 0..Len(DirectorySizes(t)) /\ i # 0
    BY <1>1
  <2>2. QED BY <1>5, <2>1
<1>7. \A i \in 1..Len(DirectorySizes(t)) : f[i - 1] \in Nat => f[i] = step[i][f[i - 1]]
  BY <1>3, <1>6
<1>8. Iterates(f, Nat, from, Len(DirectorySizes(t)), step)
  BY <1>1, <1>2, <1>6, <1>7, IteratesToo, Zenon
<1>9. QED BY <1>4, <1>8 DEF f

LEMMA EncodedDirsAre ==
  ASSUME SizesAssumption, NEW t, DirectorySizes(t) \in Seq(Seq(Nat)), NEW s \in Nat
  PROVE  \A k \in 0..Len(DirectorySizes(t)) :
           EncodedDirs(Bytes(s), t)[k] = Bytes(s) + DirectoryEnds(DirectorySizes(t))[k]
<1>. DEFINE d == DirectorySizes(t)
            from == Bytes(s)
            e == EncodedDirs(from, t)
            f == DirectoryEnds(d)
            S == {k \in 0..Len(d) : e[k] = Bytes(s) + f[k]}
<1>1. from \in Nat /\ d \in Seq(Seq(Nat)) /\ Len(d) \in Nat
  <2>1. from \in Nat
    BY BytesOf
  <2>2. d \in Seq(Seq(Nat))
    OBVIOUS
  <2>. HIDE DEF d, from
  <2>3. QED BY <2>1, <2>2
<1>. HIDE DEF from
<1>2. e[0] = from /\ \A k \in 1..Len(d) : e[k] = EncodedDirectory(e[k - 1], d[k])
  BY <1>1, EncodedDirsFollow, Zenon
<1>. HIDE DEF e, d
<1>3. f \in [0..Len(d) -> Nat] /\ f[0] = 0 /\ \A k \in 1..Len(d) : f[k] = AddDirectory(f[k - 1], d[k])
  BY <1>1, DirectoryEndsFollow
<1>. HIDE DEF f
<1>4. 0 \in S
  BY <1>1, <1>2, <1>3 DEF from
<1>5. ASSUME NEW k \in 1..Len(d), k - 1 \in S PROVE k \in S
  <2>1. k \in 0..Len(d) /\ k - 1 \in 0..Len(d) /\ d[k] \in Seq(Nat)
    BY <1>1
  <2>2. PICK x \in Nat : x = f[k - 1]
    BY <1>3, <2>1
  <2>3. e[k] = EncodedDirectory(Bytes(s) + x, d[k])
    BY <1>2, <1>5, <2>2
  <2>4. e[k] = Bytes(s) + AddDirectory(x, d[k])
    BY <2>1, <2>3, EncodedEndsAre
  <2>5. QED BY <1>3, <2>1, <2>2, <2>4
<1>6. \A k \in 0..Len(d) : k \in S
  <2>. HIDE DEF S
  <2>1. QED BY <1>1, <1>4, <1>5, UpTo
<1>7. QED BY <1>6 DEF e, f, d, from
-----------------------------------------------------------------------------
(* Records.                                                                *)

LEMMA IdentType ==
  ASSUME SizesAssumption, NEW n \in Names, NEW isFile \in BOOLEAN, NEW t
  PROVE  Ident(n, isFile, t) \in IdType /\ Ident(n, isFile, t) \notin {Dot, DotDot}
         /\ Ident(n, isFile, t).file = isFile
<1>1. \A m \in {n, Upper[n]} : m \notin {"dot", "dotdot"} /\ m \in Names \cup {Upper[c] : c \in Names}
  BY SizesAssumption DEF SizesAssumption
<1>2. PICK m : /\ Ident(n, isFile, t) = [name |-> m, file |-> isFile] /\ m \notin {"dot", "dotdot"}
               /\ m \in Names \cup {Upper[c] : c \in Names}
  BY <1>1 DEF Ident
<1>3. Ident(n, isFile, t) \in [name : Names \cup {Upper[c] : c \in Names}, file : BOOLEAN]
  BY <1>2
<1>4. Ident(n, isFile, t).name = m /\ Dot.name = "dot" /\ DotDot.name = "dotdot"
  BY <1>2 DEF Dot, DotDot
<1>5. QED BY <1>2, <1>3, <1>4 DEF IdType

LEMMA IdLenType ==
  ASSUME SizesAssumption, NEW id \in IdType, NEW t
  PROVE  IdLen(id, t) \in Nat
<1>1. CASE id \in {Dot, DotDot}
  BY <1>1 DEF IdLen
<1>2. CASE id \notin {Dot, DotDot}
  <2>1. NameLen[id.name] \in Nat
    BY <1>2, SizesAssumption DEF SizesAssumption, IdType
  <2>2. PICK len \in Nat : len = NameLen[id.name]
    BY <2>1
  <2>3. IdLen(id, t) = (len + (IF id.file THEN 2 ELSE 0)) * (IF t = "joliet" THEN 2 ELSE 1)
    BY <1>2, <2>2 DEF IdLen
  <2>4. PICK more \in {0, 2}, times \in {1, 2} : IdLen(id, t) = (len + more) * times
    BY <2>3
  <2>5. QED BY <2>4
<1>3. QED BY <1>1, <1>2

LEMMA EntrySizeType ==
  ASSUME SizesAssumption, NEW e, e.id \in IdType, NEW t
  PROVE  /\ EntrySize(e, t) \in Nat /\ PathEntrySize(e, t) \in Nat /\ EncodedPathEntry(e, t) \in Nat
         /\ EntrySize(e, t) > 0
<1>1. PICK len \in Nat : len = IdLen(e.id, t)
  BY IdLenType
<1>2. ByteLimit \in Nat \ {0}
  BY SizesAssumption DEF SizesAssumption
<1>3. EntrySize(e, t) = 33 + len + ((len + 1) % 2) + 6 /\ (len + 1) % 2 \in Nat
  BY <1>1 DEF EntrySize
<1>4. PICK l \in Nat : l = len % ByteLimit
  BY <1>2
<1>5. PathEntrySize(e, t) = 8 + l + (l % 2) /\ l % 2 \in Nat
  BY <1>1, <1>4 DEF PathEntrySize
<1>6. EncodedPathEntry(e, t) = 8 + len + (len % 2) /\ len % 2 \in Nat
  BY <1>1 DEF EncodedPathEntry
<1>7. QED BY <1>3, <1>5, <1>6

\* The sizes of entries depend on their identifiers.
LEMMA SizesType ==
  ASSUME SizesAssumption, NEW es \in Seq(EntryType), NEW t
  PROVE  /\ Sizes(es, t) \in Seq(Nat) /\ Len(Sizes(es, t)) = Len(es)
         /\ \A ls \in Seq(EntryType) :
              Len(ls) = Len(es) /\ (\A e \in 1..Len(ls) : es[e].id = ls[e].id)
                => Sizes(es, t) = Sizes(ls, t)
<1>1. \A e \in 1..Len(es) : es[e].id \in IdType
  <2>1. \A e \in 1..Len(es) : es[e] \in EntryType
    OBVIOUS
  <2>2. QED BY <2>1 DEF EntryType
<1>2. \A e \in 1..Len(es) : EntrySize(es[e], t) \in Nat
  BY <1>1, EntrySizeType
<1>3. Sizes(es, t) \in Seq(Nat) /\ Len(Sizes(es, t)) = Len(es)
  BY <1>2 DEF Sizes
<1>4. ASSUME NEW ls \in Seq(EntryType), Len(ls) = Len(es), \A e \in 1..Len(ls) : es[e].id = ls[e].id
      PROVE  Sizes(es, t) = Sizes(ls, t)
  <2>1. \A e \in 1..Len(es) : EntrySize(es[e], t) = EntrySize(ls[e], t)
    BY <1>4 DEF EntrySize
  <2>2. DOMAIN es = 1..Len(es) /\ DOMAIN ls = 1..Len(es)
    BY <1>4
  <2>3. QED BY <2>1, <2>2 DEF Sizes
<1>5. QED BY <1>3, <1>4
-----------------------------------------------------------------------------
(* The parts of a file.                                                    *)

LEMMA PartsOf ==
  ASSUME SizesAssumption, NEW size \in Nat, size > MaxPart
  PROVE  LET parts == (size \div PartSize) + (IF size % PartSize > 0 THEN 1 ELSE 0)
         IN /\ parts \in Nat \ {0}
            /\ \A i \in 1..parts : (i - 1) * PartSize \in Nat /\ (i - 1) * PartSize < size
            /\ size - (parts - 1) * PartSize <= PartSize
<1>1. PartSize \in Nat \ {0} /\ MaxPart \in Nat /\ PartSize <= MaxPart
  BY SizesAssumption DEF SizesAssumption
<1>2. PICK q \in Nat, r \in 0..(PartSize - 1) : q = size \div PartSize /\ r = size % PartSize
           /\ size = PartSize * q + r
  BY <1>1
<1>. DEFINE parts == (size \div PartSize) + (IF size % PartSize > 0 THEN 1 ELSE 0)
<1>3. parts = q + (IF r > 0 THEN 1 ELSE 0)
  BY <1>2
<1>. HIDE DEF parts
<1>4. q # 0
  BY <1>1, <1>2
<1>5. parts \in Nat \ {0}
  BY <1>3, <1>4
<1>6. ASSUME NEW i \in 1..parts PROVE (i - 1) * PartSize \in Nat /\ (i - 1) * PartSize < size
  <2>1. PICK d \in Nat : d = i - 1
    BY <1>5
  <2>2. d * PartSize \in Nat
    BY <1>1
  <2>3. d < q \/ (d = q /\ r > 0)
    BY <1>3, <1>5, <2>1
  <2>4. CASE d = q /\ r > 0
    <3>1. d * PartSize = PartSize * q
      BY <1>1, <2>4
    <3>2. QED BY <1>2, <2>1, <2>2, <2>4, <3>1
  <2>5. CASE d < q
    <3>1. PICK x \in Nat : q = d + 1 + x
      BY <2>5
    <3>2. PartSize * q = d * PartSize + PartSize + PartSize * x /\ PartSize * x \in Nat
      BY <1>1, <3>1
    <3>3. QED BY <1>1, <1>2, <2>1, <2>2, <3>2
  <2>6. QED BY <2>3, <2>4, <2>5
<1>7. size - (parts - 1) * PartSize <= PartSize
  <2>1. CASE r > 0
    <3>1. parts - 1 = q /\ q * PartSize = PartSize * q
      BY <1>1, <1>3, <2>1
    <3>2. (parts - 1) * PartSize = PartSize * q /\ PartSize * q \in Nat
      BY <1>1, <3>1
    <3>3. QED BY <1>1, <1>2, <3>2
  <2>2. CASE ~(r > 0)
    <3>1. PICK x \in Nat : q = x + 1
      BY <1>4
    <3>2. parts - 1 = x /\ PartSize * q = x * PartSize + PartSize /\ x * PartSize \in Nat
      BY <1>1, <1>3, <2>2, <3>1
    <3>3. size = x * PartSize + PartSize
      <4>1. r = 0
        BY <1>1, <2>2
      <4>2. PartSize * q \in Nat
        BY <1>1
      <4>3. size = PartSize * q
        BY <1>2, <4>1, <4>2
      <4>4. QED BY <3>2, <4>3
    <3>4. QED BY <1>1, <3>2, <3>3
  <2>3. QED BY <2>1, <2>2
<1>8. QED BY <1>5, <1>6, <1>7 DEF parts

\* The entries of a file follow each other and cover it.
LEMMA FileEntriesAre ==
  ASSUME SizesAssumption, NEW f \in FileType, NEW t
  PROVE  LET fe == FileEntries(f, t)
             m == Len(fe)
         IN /\ fe \in Seq(EntryType) /\ m \in Nat \ {0}
            /\ \A i \in 1..m :
                 /\ ~fe[i].dir /\ fe[i].id = Ident(f.name, TRUE, t) /\ fe[i].more = (i < m)
                 /\ fe[i].len <= MaxPart
                 /\ f.size > 0 => fe[i].len > 0 /\ fe[i].loc \in f.rLBA..(f.rLBA + Sectors(f.size) - 1)
                 /\ f.size = 0 => fe[i].len = 0
                 /\ i < m => fe[i + 1].loc = fe[i].loc + Sectors(fe[i].len)
                    /\ fe[i].len = Bytes(Sectors(fe[i].len))
            /\ fe[1].loc = f.rLBA /\ Bytes(fe[m].loc - f.rLBA) + fe[m].len = f.size
<1>. DEFINE fe == FileEntries(f, t)
            size == f.size
            parts == IF size > MaxPart
              THEN (size \div PartSize) + (IF size % PartSize > 0 THEN 1 ELSE 0) ELSE 1
            w == Sectors(PartSize)
            id == Ident(f.name, TRUE, t)
<1>1. /\ PartSize \in Nat \ {0} /\ MaxPart \in Nat /\ PartSize <= MaxPart /\ SectorSize \in Nat \ {0}
      /\ PartSize % SectorSize = 0
  BY SizesAssumption DEF SizesAssumption
<1>2. size \in Nat /\ f.rLBA \in Nat /\ f.name \in Names /\ id \in IdType
  BY IdentType DEF FileType
<1>3. w \in Nat /\ PartSize = SectorSize * w
  BY <1>1 DEF Sectors, FloorSectors
<1>4. /\ parts \in Nat \ {0}
      /\ \A i \in 1..parts : (i - 1) * PartSize \in Nat /\ (i - 1) * PartSize <= size
                             /\ (size > 0 => (i - 1) * PartSize < size)
      /\ size - (parts - 1) * PartSize <= MaxPart
  <2>1. CASE size > MaxPart
    <3>1. /\ parts \in Nat \ {0}
          /\ \A i \in 1..parts : (i - 1) * PartSize \in Nat /\ (i - 1) * PartSize < size
          /\ size - (parts - 1) * PartSize <= PartSize
      BY <1>2, <2>1, PartsOf
    <3>. HIDE DEF parts, size
    <3>2. (parts - 1) * PartSize \in Nat
      BY <1>1, <3>1
    <3>3. QED BY <1>1, <1>2, <3>1, <3>2
  <2>2. CASE ~(size > MaxPart)
    <3>1. parts = 1
      BY <2>2
    <3>2. \A i \in 1..1 : (i - 1) * PartSize = 0
      BY <1>1
    <3>3. (1 - 1) * PartSize = 0
      BY <1>1
    <3>4. size <= MaxPart
      BY <1>1, <1>2, <2>2
    <3>. HIDE DEF parts, size
    <3>5. QED BY <1>1, <1>2, <3>1, <3>2, <3>3, <3>4
  <2>3. QED BY <2>1, <2>2
<1>5. parts > 1 => size > 0
  BY <1>1, <1>2
<1>6. fe = [i \in 1..parts |-> [id |-> id, dir |-> FALSE, more |-> i < parts,
      loc |-> f.rLBA + (i - 1) * w,
                                len |-> IF i < parts THEN PartSize ELSE size - (i - 1) * PartSize]]
  BY DEF FileEntries
<1>. HIDE DEF fe, size, parts, w, id
<1>7. \A i \in 1..parts : (i - 1) * w \in Nat /\ (i - 1) * PartSize = SectorSize * ((i - 1) * w)
  BY <1>1, <1>3, <1>4
<1>8. \A i \in 1..parts :
        /\ fe[i].id = id /\ fe[i].dir = FALSE /\ fe[i].more = (i < parts)
        /\ fe[i].loc = f.rLBA + (i - 1) * w
        /\ fe[i].len = IF i < parts THEN PartSize ELSE size - (i - 1) * PartSize
  BY <1>6
<1>9. \A i \in 1..parts : i < parts \/ i = parts
  BY <1>4
<1>10. ASSUME NEW i \in 1..parts
       PROVE  /\ fe[i].len \in Nat /\ fe[i].len <= MaxPart /\ fe[i].loc \in Nat
              /\ size > 0 => fe[i].len > 0 /\ fe[i].loc \in f.rLBA..(f.rLBA + Sectors(size) - 1)
              /\ size = 0 => fe[i].len = 0
  <2>. DEFINE x == (i - 1) * PartSize
              y == (i - 1) * w
  <2>1. x \in Nat /\ x <= size /\ (size > 0 => x < size) /\ (i = parts => size - x <= MaxPart)
    BY <1>4
  <2>2. y \in Nat /\ x = SectorSize * y /\ fe[i].loc = f.rLBA + y /\ fe[i].len = IF i < parts
          THEN PartSize ELSE size - x
    BY <1>7, <1>8
  <2>3. i < parts \/ i = parts
    BY <1>9
  <2>4. i < parts => size > 0
    BY <1>4, <1>5
  <2>. HIDE DEF x, y
  <2>5. fe[i].len \in Nat /\ fe[i].len <= MaxPart /\ (size > 0 => fe[i].len > 0)
        /\ (size = 0 => fe[i].len = 0)
    BY <1>1, <1>2, <2>1, <2>2, <2>3, <2>4
  <2>6. fe[i].loc \in Nat
    BY <1>2, <2>2
  <2>7. ASSUME size > 0 PROVE y < Sectors(size)
    <3>1. Bytes(y) < size
      BY <2>1, <2>2, <2>7 DEF Bytes
    <3>2. QED BY <1>2, <2>2, <3>1, SectorsOrder
  <2>8. size > 0 => fe[i].loc \in f.rLBA..(f.rLBA + Sectors(size) - 1)
    <3>1. Sectors(size) \in Nat
      BY <1>2, SectorsOf
    <3>2. QED BY <1>2, <2>2, <2>7, <3>1
  <2>9. QED BY <2>5, <2>6, <2>8
<1>11. ASSUME NEW i \in 1..parts, i < parts
       PROVE  fe[i + 1].loc = fe[i].loc + Sectors(fe[i].len) /\ fe[i].len = Bytes(Sectors(fe[i].len))
  <2>1. i + 1 \in 1..parts /\ (i + 1) - 1 = (i - 1) + 1 /\ i - 1 \in Nat
    BY <1>4, <1>11
  <2>2. fe[i].len = PartSize /\ Sectors(fe[i].len) = w /\ PartSize = Bytes(w)
    BY <1>3, <1>8, <1>11 DEF w, Bytes
  <2>3. ((i - 1) + 1) * w = (i - 1) * w + w /\ (i - 1) * w \in Nat
    BY <1>3, <2>1
  <2>4. fe[i + 1].loc = f.rLBA + ((i - 1) * w + w)
    BY <1>8, <2>1, <2>3
  <2>5. fe[i].loc = f.rLBA + (i - 1) * w
    BY <1>8
  <2>6. fe[i + 1].loc = fe[i].loc + w
    <3>. DEFINE y == (i - 1) * w
    <3>1. y \in Nat /\ fe[i + 1].loc = f.rLBA + (y + w) /\ fe[i].loc = f.rLBA + y
      BY <2>3, <2>4, <2>5
    <3>. HIDE DEF y
    <3>2. QED BY <1>2, <1>3, <3>1
  <2>7. QED BY <2>2, <2>6
<1>12. Len(fe) = parts /\ parts \in 1..parts /\ 1 \in 1..parts
  BY <1>4, <1>6
<1>13. fe[1].loc = f.rLBA
  <2>1. (1 - 1) * w = 0
    BY <1>3
  <2>2. QED BY <1>2, <1>8, <1>12, <2>1
<1>14. Bytes(fe[parts].loc - f.rLBA) + fe[parts].len = size
  <2>. DEFINE y == (parts - 1) * w
              x == (parts - 1) * PartSize
  <2>1. y \in Nat /\ x = SectorSize * y /\ fe[parts].loc = f.rLBA + y
    BY <1>7, <1>8, <1>12
  <2>2. fe[parts].len = size - x /\ x \in Nat
    <3>1. ~(parts < parts)
      BY <1>4
    <3>2. QED BY <1>4, <1>8, <1>12, <3>1
  <2>. HIDE DEF x, y
  <2>3. fe[parts].loc - f.rLBA = y
    BY <1>2, <2>1
  <2>4. QED BY <1>2, <2>1, <2>2, <2>3 DEF Bytes
<1>15. fe \in Seq(EntryType)
  <2>1. \A i \in 1..parts : [id |-> id, dir |-> FALSE, more |-> i < parts, loc |-> f.rLBA + (i - 1) * w,
                             len |-> IF i < parts THEN PartSize
                               ELSE size - (i - 1) * PartSize] \in EntryType
    <3>1. ASSUME NEW i \in 1..parts
          PROVE  /\ f.rLBA + (i - 1) * w \in Nat
                 /\ (IF i < parts THEN PartSize ELSE size - (i - 1) * PartSize) \in Nat
      BY <1>8, <1>10
    <3>2. QED BY <1>2, <3>1 DEF EntryType
  <2>2. QED BY <1>4, <1>6, <2>1
<1>16. \A i \in 1..parts :
         /\ ~fe[i].dir /\ fe[i].id = id /\ fe[i].more = (i < parts)
         /\ fe[i].len <= MaxPart
         /\ size > 0 => fe[i].len > 0 /\ fe[i].loc \in f.rLBA..(f.rLBA + Sectors(size) - 1)
         /\ size = 0 => fe[i].len = 0
         /\ i < parts => fe[i + 1].loc = fe[i].loc + Sectors(fe[i].len)
            /\ fe[i].len = Bytes(Sectors(fe[i].len))
  BY <1>8, <1>10, <1>11, Zenon
<1>17. QED BY <1>4, <1>12, <1>13, <1>14, <1>15, <1>16, Zenon DEF fe, size, id
-----------------------------------------------------------------------------
(* The directories of the tree.                                            *)

ParentsAre ==
  \A k \in 1..N :
    /\ rootDir[k].path \in Seq(Names) /\ rootDir[k].files \in Seq(FileType)
    /\ Up(k) \in 1..k /\ Up(k) \in 1..N
    /\ k = 1 => ParentIdx(k) = 0 /\ rootDir[k].path = <<>>
    /\ k > 1 => /\ ParentIdx(k) \in 1..(k - 1) /\ Up(k) = ParentIdx(k) /\ rootDir[k].path # <<>>
                /\ rootDir[ParentIdx(k)].path = Front(rootDir[k].path)
                   /\ Last(rootDir[k].path) \in Names
                /\ tree[rootDir[k].path].dir
    /\ \A j \in 1..N : k > 1 /\ rootDir[j].path = Front(rootDir[k].path) => j = ParentIdx(k)

LEMMA ParentsOf == RootType /\ PathsKnown => ParentsAre
<1>. SUFFICES ASSUME RootType, PathsKnown, NEW k \in 1..N
              PROVE  /\ rootDir[k].path \in Seq(Names) /\ rootDir[k].files \in Seq(FileType)
                     /\ Up(k) \in 1..k /\ Up(k) \in 1..N
                     /\ k = 1 => ParentIdx(k) = 0 /\ rootDir[k].path = <<>>
                     /\ k > 1 => /\ ParentIdx(k) \in 1..(k - 1) /\ Up(k) = ParentIdx(k)
                        /\ rootDir[k].path # <<>>
                                 /\ rootDir[ParentIdx(k)].path = Front(rootDir[k].path)
                                    /\ Last(rootDir[k].path) \in Names
                                 /\ tree[rootDir[k].path].dir
                     /\ \A j \in 1..N : k > 1 /\ rootDir[j].path = Front(rootDir[k].path)
                          => j = ParentIdx(k)
  BY DEF ParentsAre
<1>1. N \in Nat /\ Len(queue) \in Nat /\ DOMAIN rootDir = 1..N
  BY DEF RootType, N
<1>2. \A i \in 1..N : rootDir[i].path \in Seq(Names) /\ rootDir[i].files \in Seq(FileType)
  <2>. DEFINE X == [path : Seq(Names), files : Seq(FileType)]
  <2>1. rootDir \in Seq(X)
    BY DEF RootType
  <2>. HIDE DEF X
  <2>2. \A i \in 1..N : rootDir[i] \in X
    BY <2>1 DEF N
  <2>3. \A i \in 1..N : rootDir[i] \in [path : Seq(Names), files : Seq(FileType)]
    BY <2>2 DEF X
  <2>4. QED BY <2>3
<1>3. \A i \in 1..N : i \in 1..Known /\ PathOf(i) = rootDir[i].path
  BY <1>1 DEF Known, PathOf
<1>4. \A i, j \in 1..N : rootDir[i].path = rootDir[j].path => i = j
  BY <1>3 DEF PathsKnown
<1>5. CASE k = 1
  <2>1. rootDir[k].path = <<>>
    BY <1>3, <1>5 DEF PathsKnown
  <2>2. ParentIdx(k) = 0
    BY <2>1 DEF ParentIdx
  <2>3. Up(k) = 1 /\ 1 \in 1..N
    BY <1>1, <1>5 DEF Up
  <2>4. QED BY <1>2, <1>5, <2>1, <2>2, <2>3
<1>6. CASE k # 1
  <2>1. k \in 2..Known /\ PathOf(k) = rootDir[k].path
    BY <1>1, <1>3, <1>6 DEF Known
  <2>2. PICK j \in 1..N : j < k /\ \E n \in Names : rootDir[k].path = Append(rootDir[j].path, n)
    BY <2>1 DEF PathsKnown
  <2>3. PICK n \in Names : rootDir[k].path = Append(rootDir[j].path, n)
    BY <2>2
  <2>4. Front(rootDir[k].path) = rootDir[j].path /\ Last(rootDir[k].path) = n /\ rootDir[k].path # <<>>
    BY <1>2, <2>3, Appended
  <2>5. ParentIdx(k) = CHOOSE i \in DOMAIN rootDir : rootDir[i].path = Front(rootDir[k].path)
    BY <2>4 DEF ParentIdx
  <2>6. ParentIdx(k) \in 1..N /\ rootDir[ParentIdx(k)].path = Front(rootDir[k].path)
    BY <1>1, <2>4, <2>5
  <2>7. ParentIdx(k) = j
    BY <1>4, <2>4, <2>6
  <2>8. tree[rootDir[k].path].dir
    BY <2>1 DEF PathsKnown
  <2>9. \A i \in 1..N : rootDir[i].path = Front(rootDir[k].path) => i = ParentIdx(k)
    BY <1>4, <2>4, <2>7
  <2>10. ParentIdx(k) \in 1..(k - 1)
    BY <2>2, <2>7
  <2>11. Up(k) = ParentIdx(k) /\ Up(k) \in 1..k /\ Up(k) \in 1..N
    BY <1>6, <2>6, <2>10 DEF Up
  <2>12. Last(rootDir[k].path) \in Names
    BY <2>4
  <2>13. QED BY <1>2, <1>6, <2>4, <2>6, <2>8, <2>9, <2>10, <2>11, <2>12
<1>7. QED BY <1>5, <1>6

KidsAre ==
  \A k \in 1..N :
    /\ Kids(k) \in Seq(1..N) /\ Len(Kids(k)) \in Nat
    /\ \A c \in 1..Len(Kids(k)) : Kids(k)[c] \in 2..N /\ ParentIdx(Kids(k)[c]) = k
    /\ \A j \in 1..N : ParentIdx(j) = k => \E c \in 1..Len(Kids(k)) : Kids(k)[c] = j

LEMMA KidsOf == RootType /\ PathsKnown => KidsAre
<1>. SUFFICES ASSUME RootType, PathsKnown, NEW k \in 1..N
              PROVE  /\ Kids(k) \in Seq(1..N) /\ Len(Kids(k)) \in Nat
                     /\ \A c \in 1..Len(Kids(k)) : Kids(k)[c] \in 2..N /\ ParentIdx(Kids(k)[c]) = k
                     /\ \A j \in 1..N : ParentIdx(j) = k => \E c \in 1..Len(Kids(k)) : Kids(k)[c] = j
  BY DEF KidsAre
<1>. DEFINE ks == [j \in DOMAIN rootDir |-> j]
<1>1. N \in Nat /\ DOMAIN rootDir = 1..N
  BY DEF RootType, N
<1>2. ks \in Seq(1..N) /\ Len(ks) = N /\ \A j \in 1..N : ks[j] = j
  BY <1>1
<1>3. \A j \in 1..N : j \in Children(k) <=> ParentIdx(j) = k
  BY <1>1 DEF Children
<1>4. Kids(k) = Selected(ks, Children(k))
  BY DEF Kids
<1>. HIDE DEF ks
<1>5. /\ Kids(k) \in Seq(1..N) /\ Len(Kids(k)) \in Nat
      /\ \A c \in 1..Len(Kids(k)) : Kids(k)[c] \in Children(k) /\ \E j \in 1..N : Kids(k)[c] = ks[j]
      /\ \A j \in 1..N : ks[j] \in Children(k) => \E c \in 1..Len(Kids(k)) : Kids(k)[c] = ks[j]
  <2>1. /\ Selected(ks, Children(k)) \in Seq(1..N) /\ Len(Selected(ks, Children(k))) \in Nat
        /\ \A c \in 1..Len(Selected(ks, Children(k))) :
             /\ Selected(ks, Children(k))[c] \in Children(k)
             /\ \E j \in 1..Len(ks) : Selected(ks, Children(k))[c] = ks[j]
        /\ \A j \in 1..Len(ks) : ks[j] \in Children(k) =>
             \E c \in 1..Len(Selected(ks, Children(k))) : Selected(ks, Children(k))[c] = ks[j]
    <3>1. ks \in Seq(1..N)
      BY <1>2
    <3>2. Selected(ks, Children(k)) \in Seq(1..N) /\ Len(Selected(ks, Children(k))) \in Nat
      BY <3>1, SelectedOf
    <3>3. \A c \in 1..Len(Selected(ks, Children(k))) :
            /\ Selected(ks, Children(k))[c] \in Children(k)
            /\ \E j \in 1..Len(ks) : Selected(ks, Children(k))[c] = ks[j]
      BY <3>1, SelectedOf
    <3>4. \A j \in 1..Len(ks) : ks[j] \in Children(k) =>
            \E c \in 1..Len(Selected(ks, Children(k))) : Selected(ks, Children(k))[c] = ks[j]
      BY <3>1, SelectedOf
    <3>5. QED BY <3>2, <3>3, <3>4, Zenon
  <2>2. QED BY <1>2, <1>4, <2>1, Zenon
<1>6. ASSUME NEW c \in 1..Len(Kids(k)) PROVE Kids(k)[c] \in 2..N /\ ParentIdx(Kids(k)[c]) = k
  <2>1. PICK j \in 1..N : Kids(k)[c] = j
    BY <1>2, <1>5
  <2>2. ParentIdx(j) = k
    BY <1>3, <1>5, <2>1
  <2>3. j # 1
    BY <2>2, ParentsOf DEF ParentsAre
  <2>4. QED BY <2>1, <2>2, <2>3
<1>7. ASSUME NEW j \in 1..N, ParentIdx(j) = k PROVE \E c \in 1..Len(Kids(k)) : Kids(k)[c] = j
  BY <1>2, <1>3, <1>5, <1>7
<1>8. QED BY <1>5, <1>6, <1>7

KidName(k, c) == Last(rootDir[Kids(k)[c]].path)

FileListsAre ==
  \A t \in Table, k \in 1..N :
    /\ FileLists(k, t) \in Seq(Seq(EntryType)) /\ Len(FileLists(k, t)) = Len(rootDir[k].files)
    /\ \A i \in 1..Len(rootDir[k].files) : FileLists(k, t)[i] = FileEntries(rootDir[k].files[i], t)

ListingsAre ==
  \A t \in Table, k \in 1..N :
    /\ FilePart(k, t) \in Seq(EntryType) /\ Len(FilePart(k, t)) \in Nat
    /\ \A e \in 1..Len(FilePart(k, t)) : ~FilePart(k, t)[e].dir /\ FilePart(k, t)[e].id.file = TRUE
    /\ Listing(k, t) \in Seq(EntryType) /\ Len(Listing(k, t)) = 2 + Len(FilePart(k, t)) + Len(Kids(k))
    /\ Listing(k, t)[1] = DirEntry(Dot, 0, 0) /\ Listing(k, t)[2] = DirEntry(DotDot, 0, 0)
    /\ \A e \in 1..Len(FilePart(k, t)) : Listing(k, t)[2 + e] = FilePart(k, t)[e]
    /\ \A c \in 1..Len(Kids(k)) :
         /\ KidName(k, c) \in Names
         /\ Listing(k, t)[2 + Len(FilePart(k, t)) + c] = DirEntry(Ident(KidName(k, c), FALSE, t), 0, 0)

LEMMA DirEntryType ==
  ASSUME NEW id \in IdType, NEW loc \in Nat, NEW len \in Nat
  PROVE  /\ DirEntry(id, loc, len) \in EntryType
         /\ DirEntry(id, loc, len).id = id /\ DirEntry(id, loc, len).dir = TRUE
            /\ DirEntry(id, loc, len).more = FALSE
         /\ DirEntry(id, loc, len).loc = loc /\ DirEntry(id, loc, len).len = len
BY DEF DirEntry, EntryType

LEMMA ListingOf ==
  ASSUME SizesAssumption, RootType, PathsKnown, NEW t \in Table, NEW k \in 1..N
  PROVE  /\ FileLists(k, t) \in Seq(Seq(EntryType))
            /\ Len(FileLists(k, t)) = Len(rootDir[k].files)
         /\ \A i \in 1..Len(rootDir[k].files) :
              FileLists(k, t)[i] = FileEntries(rootDir[k].files[i], t)
         /\ FilePart(k, t) \in Seq(EntryType) /\ Len(FilePart(k, t)) \in Nat
         /\ \A e \in 1..Len(FilePart(k, t)) : ~FilePart(k, t)[e].dir
            /\ FilePart(k, t)[e].id.file = TRUE
         /\ Listing(k, t) \in Seq(EntryType)
            /\ Len(Listing(k, t)) = 2 + Len(FilePart(k, t)) + Len(Kids(k))
         /\ Listing(k, t)[1] = DirEntry(Dot, 0, 0)
            /\ Listing(k, t)[2] = DirEntry(DotDot, 0, 0)
         /\ \A e \in 1..Len(FilePart(k, t)) : Listing(k, t)[2 + e] = FilePart(k, t)[e]
         /\ \A c \in 1..Len(Kids(k)) :
              /\ KidName(k, c) \in Names
              /\ Listing(k, t)[2 + Len(FilePart(k, t)) + c]
                   = DirEntry(Ident(KidName(k, c), FALSE, t), 0, 0)
<1>. DEFINE fs == rootDir[k].files
            fl == FileLists(k, t)
            fp == FilePart(k, t)
            kids == Kids(k)
            entry(c) == DirEntry(Ident(KidName(k, c), FALSE, t), 0, 0)
            ks == [c \in DOMAIN kids |-> entry(c)]
            head == <<DirEntry(Dot, 0, 0), DirEntry(DotDot, 0, 0)>>
<1>1. fs \in Seq(FileType) /\ Len(fs) \in Nat /\ \A i \in 1..Len(fs) : fs[i] \in FileType
  BY ParentsOf DEF ParentsAre
<1>2. \A i \in 1..Len(fs) : FileEntries(fs[i], t) \in Seq(EntryType)
  BY <1>1, FileEntriesAre
<1>3. fl \in Seq(Seq(EntryType)) /\ Len(fl) = Len(fs)
      /\ \A i \in 1..Len(fs) : fl[i] = FileEntries(fs[i], t)
  BY <1>1, <1>2 DEF FileLists
<1>4. fp = FlattenSeq(fl)
  BY DEF FilePart
<1>5. kids \in Seq(1..N) /\ Len(kids) \in Nat /\ \A c \in 1..Len(kids) : kids[c] \in 2..N
  BY KidsOf DEF KidsAre
<1>6. \A c \in 1..Len(kids) : KidName(k, c) \in Names
  <2>1. \A c \in 1..Len(kids) : kids[c] \in 1..N /\ kids[c] > 1
    BY <1>5
  <2>2. QED BY <2>1, ParentsOf DEF ParentsAre, KidName
<1>7. Listing(k, t) = head \o fp \o ks
  BY DEF Listing, FilePart, FileLists, Kids, KidName
<1>. HIDE DEF fs, fl, fp, kids
<1>8. fp \in Seq(EntryType) /\ Len(fp) \in Nat
  BY <1>3, <1>4, FlattenParts
<1>9. ASSUME NEW e \in 1..Len(fp) PROVE ~fp[e].dir /\ fp[e].id.file = TRUE
  <2>1. PICK i \in 1..Len(fl) : \E j \in 1..Len(fl[i]) : e = Sums(Lens(fl))[i - 1] + j
    BY <1>3, <1>4, FlattenParts
  <2>2. PICK j \in 1..Len(fl[i]) : e = Sums(Lens(fl))[i - 1] + j
    BY <2>1
  <2>3. fp[e] = fl[i][j]
    BY <1>3, <1>4, <2>2, FlattenParts
  <2>4. fs[i] \in FileType /\ fl[i] = FileEntries(fs[i], t)
    BY <1>1, <1>3
  <2>5. ~fl[i][j].dir /\ fl[i][j].id = Ident(fs[i].name, TRUE, t)
    <3>1. \A m \in 1..Len(FileEntries(fs[i], t)) :
            ~FileEntries(fs[i], t)[m].dir /\ FileEntries(fs[i], t)[m].id = Ident(fs[i].name, TRUE, t)
      BY <2>4, FileEntriesAre, Zenon
    <3>2. QED BY <2>2, <2>4, <3>1, Zenon
  <2>6. Ident(fs[i].name, TRUE, t).file = TRUE
    <3>1. fs[i].name \in Names
      BY <2>4 DEF FileType
    <3>2. QED BY <3>1, IdentType
  <2>7. QED BY <2>3, <2>5, <2>6
<1>10. \A c \in 1..Len(kids) : entry(c) \in EntryType
  <2>1. \A c \in 1..Len(kids) : Ident(KidName(k, c), FALSE, t) \in IdType
    BY <1>6, IdentType
  <2>2. QED BY <2>1, DirEntryType
<1>11. ks \in Seq(EntryType) /\ Len(ks) = Len(kids) /\ \A c \in 1..Len(kids) : ks[c] = entry(c)
  <2>. HIDE DEF entry
  <2>1. DOMAIN kids = 1..Len(kids)
    BY <1>5
  <2>2. QED BY <1>5, <1>10, <2>1
<1>12. head \in Seq(EntryType) /\ Len(head) = 2 /\ head[1] = DirEntry(Dot, 0, 0)
       /\ head[2] = DirEntry(DotDot, 0, 0)
  <2>1. DirEntry(Dot, 0, 0) \in EntryType /\ DirEntry(DotDot, 0, 0) \in EntryType
    <3>1. Dot \in IdType /\ DotDot \in IdType /\ 0 \in Nat
      BY DEF IdType
    <3>2. QED BY <3>1, DirEntryType, Zenon
  <2>2. QED BY <2>1
<1>. HIDE DEF ks, head, entry
<1>13. /\ head \o fp \in Seq(EntryType) /\ Len(head \o fp) = 2 + Len(fp)
       /\ (head \o fp)[1] = head[1] /\ (head \o fp)[2] = head[2]
       /\ \A e \in 1..Len(fp) : (head \o fp)[2 + e] = fp[e]
  <2>1. /\ head \o fp \in Seq(EntryType) /\ Len(head \o fp) = Len(head) + Len(fp)
        /\ \A e \in 1..Len(head) : (head \o fp)[e] = head[e]
        /\ \A e \in 1..Len(fp) : (head \o fp)[Len(head) + e] = fp[e]
    <3>1. head \in Seq(EntryType) /\ fp \in Seq(EntryType)
      BY <1>8, <1>12
    <3>2. head \o fp \in Seq(EntryType) /\ Len(head \o fp) = Len(head) + Len(fp)
      BY <3>1, Joined, Zenon
    <3>3. \A e \in 1..Len(head) : (head \o fp)[e] = head[e]
      BY <3>1, Joined, Zenon
    <3>4. \A e \in 1..Len(fp) : (head \o fp)[Len(head) + e] = fp[e]
      <4>1. \A g, h \in Seq(EntryType) : \A e \in 1..Len(h) : (g \o h)[Len(g) + e] = h[e]
        BY Joined
      <4>2. QED BY <3>1, <4>1, Zenon
    <3>5. QED BY <3>2, <3>3, <3>4
  <2>2. QED BY <1>12, <2>1
<1>. DEFINE b == head \o fp
<1>14. /\ Listing(k, t) \in Seq(EntryType) /\ Len(Listing(k, t)) = Len(b) + Len(ks)
       /\ \A e \in 1..Len(b) : Listing(k, t)[e] = b[e]
       /\ \A c \in 1..Len(ks) : Listing(k, t)[Len(b) + c] = ks[c]
  <2>1. b \in Seq(EntryType) /\ ks \in Seq(EntryType) /\ Listing(k, t) = b \o ks
    BY <1>7, <1>11, <1>13
  <2>. HIDE DEF b
  <2>2. QED BY <2>1, Joined
<1>15. /\ Len(b) = 2 + Len(fp) /\ b[1] = head[1] /\ b[2] = head[2]
          /\ \A e \in 1..Len(fp) : b[2 + e] = fp[e]
  BY <1>13
<1>. HIDE DEF b
<1>16. \A e \in 1..Len(fp) : 2 + e \in 1..Len(b) /\ Listing(k, t)[2 + e] = fp[e]
  <2>1. ASSUME NEW e \in 1..Len(fp) PROVE 2 + e \in 1..Len(b)
    <3>1. Len(fp) \in Nat /\ Len(b) = 2 + Len(fp)
      BY <1>8, <1>15
    <3>2. QED BY <3>1
  <2>2. ASSUME NEW e \in 1..Len(fp) PROVE Listing(k, t)[2 + e] = fp[e]
    <3>1. Listing(k, t)[2 + e] = b[2 + e]
      BY <1>14, <2>1
    <3>2. QED BY <1>15, <3>1
  <2>3. QED BY <2>1, <2>2
<1>17. \A c \in 1..Len(kids) : Listing(k, t)[2 + Len(fp) + c] = entry(c)
  BY <1>11, <1>14, <1>15
<1>18. Listing(k, t)[1] = DirEntry(Dot, 0, 0) /\ Listing(k, t)[2] = DirEntry(DotDot, 0, 0)
  BY <1>8, <1>12, <1>14, <1>15
<1>19. Listing(k, t) \in Seq(EntryType) /\ Len(Listing(k, t)) = 2 + Len(fp) + Len(kids)
  BY <1>11, <1>14, <1>15
<1>20. QED BY <1>3, <1>6, <1>8, <1>9, <1>16, <1>17, <1>18, <1>19, Zenon DEF fs, fl, fp, kids, entry

LEMMA ListingsOf ==
  ASSUME SizesAssumption
  PROVE  RootType /\ PathsKnown => FileListsAre /\ ListingsAre
<1>1. RootType /\ PathsKnown => FileListsAre
  BY ListingOf, Zenon DEF FileListsAre
<1>2. RootType /\ PathsKnown => ListingsAre
  BY ListingOf, ZenonT(60) DEF ListingsAre
<1>3. QED BY <1>1, <1>2
-----------------------------------------------------------------------------
(* The entry of a directory in its parent.                                 *)

LEMMA FindDirEntryOf ==
  ASSUME NEW es \in Seq(EntryType), NEW id, \E i \in 1..Len(es) : es[i].id = id
  PROVE  FindDirEntry(es, id) \in 1..Len(es) /\ es[FindDirEntry(es, id)].id = id
<1>. DEFINE S == {i \in DOMAIN es : es[i].id = id}
<1>1. S \in SUBSET Nat /\ S # {} /\ \A i \in S : i \in 1..Len(es) /\ es[i].id = id
  <2>1. DOMAIN es = 1..Len(es)
    OBVIOUS
  <2>2. QED BY <2>1
<1>2. FindDirEntry(es, id) = Min(S)
  BY DEF FindDirEntry
<1>. HIDE DEF S
<1>3. PICK m \in S : \A i \in S : m <= i
  BY <1>1, LeastOf
<1>4. Min(S) \in S
  BY <1>3 DEF Min
<1>5. QED BY <1>1, <1>2, <1>4

LEMMA KidEntry ==
  ASSUME SizesAssumption, RootType, PathsKnown, NEW t \in Table, NEW k \in 2..N,
         NEW es \in Seq(EntryType),
         Len(es) = Len(Listing(ParentIdx(k), t)),
         \A e \in 1..Len(es) : es[e].id = Listing(ParentIdx(k), t)[e].id
  PROVE  LET i == FindDirEntry(es, Ident(Last(rootDir[k].path), FALSE, t))
         IN /\ i \in 3..Len(es) /\ es[i].id = Ident(Last(rootDir[k].path), FALSE, t)
            /\ Listing(ParentIdx(k), t)[i].dir = TRUE /\ Listing(ParentIdx(k), t)[i].more = FALSE
<1>. DEFINE p == ParentIdx(k)
            ls == Listing(p, t)
            fp == FilePart(p, t)
            kids == Kids(p)
            id == Ident(Last(rootDir[k].path), FALSE, t)
            i == FindDirEntry(es, id)
<1>1. N \in Nat /\ k \in 1..N /\ k > 1
  BY DEF RootType, N
<1>2. p \in 1..N /\ Last(rootDir[k].path) \in Names
  BY <1>1, ParentsOf DEF ParentsAre
<1>3. PICK c \in 1..Len(kids) : kids[c] = k
  <2>1. \A j \in 1..N : ParentIdx(j) = p => \E c \in 1..Len(Kids(p)) : Kids(p)[c] = j
    BY <1>2, KidsOf DEF KidsAre
  <2>2. QED BY <1>1, <2>1
<1>4. id \in IdType /\ id \notin {Dot, DotDot} /\ id.file = FALSE
  <2>1. FALSE \in BOOLEAN
    OBVIOUS
  <2>2. QED BY <1>2, <2>1, IdentType, Zenon
<1>5. /\ Len(fp) \in Nat /\ Len(kids) \in Nat /\ Len(ls) = 2 + Len(fp) + Len(kids)
      /\ ls[1] = DirEntry(Dot, 0, 0) /\ ls[2] = DirEntry(DotDot, 0, 0)
  BY <1>2, ListingsOf, KidsOf DEF ListingsAre, KidsAre
<1>6. \A e \in 1..Len(fp) : ls[2 + e] = fp[e] /\ fp[e].id.file = TRUE
  BY <1>2, ListingsOf DEF ListingsAre
<1>7. \A b \in 1..Len(kids) : ls[2 + Len(fp) + b] = DirEntry(Ident(KidName(p, b), FALSE, t), 0, 0)
  BY <1>2, ListingsOf DEF ListingsAre
<1>8. \A m, loc, len : DirEntry(m, loc, len).id = m /\ DirEntry(m, loc, len).dir = TRUE
      /\ DirEntry(m, loc, len).more = FALSE
  BY DEF DirEntry
<1>9. ls[2 + Len(fp) + c].id = id
  <2>1. ls[2 + Len(fp) + c] = DirEntry(Ident(KidName(p, c), FALSE, t), 0, 0)
    BY <1>7
  <2>2. KidName(p, c) = Last(rootDir[k].path)
    BY <1>3 DEF KidName
  <2>3. ls[2 + Len(fp) + c] = DirEntry(id, 0, 0)
    BY <2>1, <2>2
  <2>. HIDE DEF ls, fp, id
  <2>4. QED BY <1>8, <2>3
<1>. HIDE DEF ls, fp, kids, id
<1>10. \E e \in 1..Len(es) : es[e].id = id
  <2>1. 2 + Len(fp) + c \in 1..Len(es)
    BY <1>5 DEF ls
  <2>2. QED BY <1>9, <2>1 DEF ls
<1>11. i \in 1..Len(es) /\ es[i].id = id
  BY <1>10, FindDirEntryOf
<1>12. ls[i].id = id
  BY <1>11 DEF ls
<1>. HIDE DEF i
<1>13. i # 1 /\ i # 2
  BY <1>4, <1>5, <1>8, <1>12
<1>14. ASSUME i \in 3..(2 + Len(fp)) PROVE FALSE
  <2>1. i - 2 \in 1..Len(fp) /\ 2 + (i - 2) = i
    BY <1>5, <1>14
  <2>2. ls[i].id.file = TRUE
    BY <1>6, <2>1
  <2>3. QED BY <1>4, <1>12, <2>2
<1>15. i - 2 - Len(fp) \in 1..Len(kids) /\ 2 + Len(fp) + (i - 2 - Len(fp)) = i /\ i \in 3..Len(es)
  BY <1>5, <1>11, <1>13, <1>14 DEF ls
<1>16. ls[i].dir = TRUE /\ ls[i].more = FALSE
  <2>1. \E b \in 1..Len(kids) : i = 2 + Len(fp) + b
    BY <1>15
  <2>2. \E m : ls[i] = DirEntry(m, 0, 0)
    BY <1>7, <2>1
  <2>3. QED BY <1>8, <2>2
<1>17. QED BY <1>11, <1>15, <1>16 DEF i, ls, id
-----------------------------------------------------------------------------
(* Moving the files by d sectors moves their entries and nothing else.     *)

Moved(e, d) == [e EXCEPT !.loc = @ + d]

LEMMA SameEntry ==
  ASSUME NEW e \in EntryType, NEW f \in EntryType,
         e.id = f.id, e.dir = f.dir, e.more = f.more, e.loc = f.loc, e.len = f.len
  PROVE  e = f
BY DEF EntryType

LEMMA MovedEntry ==
  ASSUME NEW e \in EntryType, NEW d \in Nat
  PROVE  /\ Moved(e, d) \in EntryType
         /\ Moved(e, d).id = e.id /\ Moved(e, d).dir = e.dir /\ Moved(e, d).more = e.more
         /\ Moved(e, d).loc = e.loc + d /\ Moved(e, d).len = e.len
         /\ e.id \in IdType /\ e.loc \in Nat /\ e.len \in Nat
BY DEF EntryType, Moved

LEMMA FileEntriesShift ==
  ASSUME SizesAssumption, NEW f \in FileType, NEW t, NEW d \in Nat
  PROVE  LET g == [f EXCEPT !.rLBA = @ + d]
         IN /\ g \in FileType /\ Len(FileEntries(g, t)) = Len(FileEntries(f, t))
            /\ \A i \in 1..Len(FileEntries(f, t)) :
                 FileEntries(g, t)[i] = Moved(FileEntries(f, t)[i], d)
<1>. DEFINE g == [f EXCEPT !.rLBA = @ + d]
            parts == IF f.size > MaxPart
                     THEN (f.size \div PartSize) + (IF f.size % PartSize > 0 THEN 1 ELSE 0)
                     ELSE 1
            q == Sectors(PartSize)
            entry(i, loc) ==
              [id |-> Ident(f.name, TRUE, t), dir |-> FALSE, more |-> i < parts, loc |-> loc,
               len |-> IF i < parts THEN PartSize ELSE f.size - (i - 1) * PartSize]
<1>1. g \in FileType /\ g.size = f.size /\ g.name = f.name /\ g.rLBA = f.rLBA + d /\ f.rLBA \in Nat
      /\ f.size \in Nat
  BY DEF FileType
<1>2. /\ FileEntries(f, t) = [i \in 1..parts |-> entry(i, f.rLBA + (i - 1) * q)]
      /\ FileEntries(g, t) = [i \in 1..parts |-> entry(i, g.rLBA + (i - 1) * q)]
  BY <1>1 DEF FileEntries
<1>3. parts \in Nat
  <2>1. f.size > MaxPart => parts \in Nat
    BY <1>1, PartsOf
  <2>2. QED BY <2>1
<1>4. q \in Nat
  BY SizesAssumption, SectorsOf DEF SizesAssumption
<1>5. ASSUME NEW i \in 1..parts, NEW loc \in Nat PROVE entry(i, loc + d) = Moved(entry(i, loc), d)
  <2>. DEFINE id == Ident(f.name, TRUE, t)
              dir == FALSE
              more == i < parts
              len == IF i < parts THEN PartSize ELSE f.size - (i - 1) * PartSize
  <2>. HIDE DEF id, dir, more, len
  <2>1. [id |-> id, dir |-> dir, more |-> more, loc |-> loc + d, len |-> len]
          = [[id |-> id, dir |-> dir, more |-> more, loc |-> loc, len |-> len] EXCEPT !.loc = @ + d]
    OBVIOUS
  <2>2. QED BY <2>1 DEF id, dir, more, len, Moved
<1>. HIDE DEF g, parts, entry, q
<1>8. \A i \in 1..parts : f.rLBA + (i - 1) * q \in Nat
      /\ g.rLBA + (i - 1) * q = (f.rLBA + (i - 1) * q) + d
  <2>. SUFFICES ASSUME NEW i \in 1..parts
                PROVE  f.rLBA + (i - 1) * q \in Nat /\ g.rLBA + (i - 1) * q = (f.rLBA + (i - 1) * q) + d
    OBVIOUS
  <2>. DEFINE x == (i - 1) * q
  <2>1. x \in Nat
    <3>1. i - 1 \in Nat
      BY <1>3
    <3>2. QED BY <1>4, <3>1
  <2>. HIDE DEF x
  <2>2. f.rLBA + x \in Nat /\ g.rLBA + x = (f.rLBA + x) + d
    BY <1>1, <2>1
  <2>3. QED BY <2>2 DEF x
<1>6. Len(FileEntries(f, t)) = parts /\ Len(FileEntries(g, t)) = parts
  BY <1>2, <1>3
<1>7. \A i \in 1..parts : FileEntries(g, t)[i] = Moved(FileEntries(f, t)[i], d)
  BY <1>2, <1>5, <1>8
<1>9. QED BY <1>1, <1>6, <1>7 DEF g

LEMMA FlattenAt ==
  ASSUME NEW X, NEW ss \in Seq(Seq(X)), NEW k \in 1..Len(ss), NEW j \in 1..Len(ss[k])
  PROVE  FlattenSeq(ss)[Sums(Lens(ss))[k - 1] + j] = ss[k][j]
<1>1. \A c \in 1..Len(ss) : \A b \in 1..Len(ss[c]) :
        FlattenSeq(ss)[Sums(Lens(ss))[c - 1] + b] = ss[c][b]
  BY FlattenParts, SMTT(30)
<1>2. QED BY <1>1

LEMMA FlattenShift ==
  ASSUME NEW ss \in Seq(Seq(EntryType)), NEW rr \in Seq(Seq(EntryType)), Len(rr) = Len(ss),
         NEW d \in Nat,
         \A k \in 1..Len(ss) : /\ Len(rr[k]) = Len(ss[k])
                               /\ \A j \in 1..Len(ss[k]) : rr[k][j] = Moved(ss[k][j], d)
  PROVE  /\ Len(FlattenSeq(rr)) = Len(FlattenSeq(ss))
         /\ \A e \in 1..Len(FlattenSeq(ss)) : FlattenSeq(rr)[e] = Moved(FlattenSeq(ss)[e], d)
<1>1. Lens(rr) = Lens(ss)
  BY DEF Lens
<1>2. Len(FlattenSeq(rr)) = Len(FlattenSeq(ss))
  BY <1>1, FlattenParts
<1>3. \A k \in 1..Len(ss) : \A j \in 1..Len(ss[k]) :
        FlattenSeq(ss)[Sums(Lens(ss))[k - 1] + j] = ss[k][j]
  BY FlattenAt
<1>4. \A k \in 1..Len(rr) : \A j \in 1..Len(rr[k]) :
        FlattenSeq(rr)[Sums(Lens(rr))[k - 1] + j] = rr[k][j]
  BY FlattenAt
<1>5. ASSUME NEW e \in 1..Len(FlattenSeq(ss)) PROVE FlattenSeq(rr)[e] = Moved(FlattenSeq(ss)[e], d)
  <2>1. PICK k \in 1..Len(ss) : \E j \in 1..Len(ss[k]) : e = Sums(Lens(ss))[k - 1] + j
    BY FlattenParts
  <2>2. PICK j \in 1..Len(ss[k]) : e = Sums(Lens(ss))[k - 1] + j
    BY <2>1
  <2>3. FlattenSeq(ss)[e] = ss[k][j]
    BY <1>3, <2>2
  <2>4. k \in 1..Len(rr) /\ j \in 1..Len(rr[k]) /\ e = Sums(Lens(rr))[k - 1] + j
    BY <1>1, <2>2
  <2>5. FlattenSeq(rr)[e] = rr[k][j]
    BY <1>4, <2>4
  <2>6. QED BY <2>3, <2>5
<1>6. QED BY <1>2, <1>5
-----------------------------------------------------------------------------
(* What stays when the files move by d sectors, or not at all.             *)

Listed == RootType /\ ParentsAre /\ KidsAre /\ FileListsAre /\ ListingsAre

LEMMA ListedOf ==
  ASSUME SizesAssumption
  PROVE  RootType /\ PathsKnown => Listed
BY ParentsOf, KidsOf, ListingsOf DEF Listed

Shifted(d) ==
  /\ N' = N
  /\ \A k \in 1..N :
       /\ rootDir'[k].path = rootDir[k].path /\ Len(rootDir'[k].files) = Len(rootDir[k].files)
       /\ \A i \in 1..Len(rootDir[k].files) :
            rootDir'[k].files[i] = [rootDir[k].files[i] EXCEPT !.rLBA = @ + d]

LEMMA FamilyStays ==
  ASSUME Listed, Listed', NEW d \in Nat, Shifted(d)
  PROVE  /\ N \in Nat /\ N' = N /\ DOMAIN rootDir = 1..N /\ DOMAIN rootDir' = 1..N
         /\ \A k \in 1..N :
              /\ ParentIdx(k)' = ParentIdx(k) /\ Up(k)' = Up(k) /\ Up(k) \in 1..N /\ Kids(k)' = Kids(k)
              /\ \A t \in Table : k > 1 => Clashes(k, t)' = Clashes(k, t)
<1>1. N \in Nat /\ N' = N /\ DOMAIN rootDir = 1..N /\ DOMAIN rootDir' = 1..N'
  BY DEF Listed, RootType, N, Shifted
<1>2. \A k \in 1..N : rootDir'[k].path = rootDir[k].path
  BY DEF Shifted
<1>3. \A k \in 1..N : ParentIdx(k)' = ParentIdx(k)
  <2>. SUFFICES ASSUME NEW k \in 1..N PROVE ParentIdx(k)' = ParentIdx(k)
    OBVIOUS
  <2>1. CASE k = 1
    <3>1. ParentIdx(k) = 0
      BY <2>1 DEF Listed, ParentsAre
    <3>2. ParentIdx(k)' = 0
      BY <1>1, <2>1 DEF Listed, ParentsAre
    <3>3. QED BY <3>1, <3>2
  <2>2. CASE k # 1
    <3>1. k > 1 /\ k \in 1..N'
      BY <1>1, <2>2
    <3>2. ParentIdx(k)' \in 1..(k - 1) /\ rootDir'[ParentIdx(k)'].path = Front(rootDir'[k].path)
      BY <3>1 DEF Listed, ParentsAre
    <3>3. ParentIdx(k)' \in 1..N /\ rootDir[ParentIdx(k)'].path = Front(rootDir[k].path)
      BY <1>1, <1>2, <3>2
    <3>4. \A j \in 1..N : rootDir[j].path = Front(rootDir[k].path) => j = ParentIdx(k)
      BY <3>1 DEF Listed, ParentsAre
    <3>5. QED BY <3>3, <3>4
  <2>3. QED BY <2>1, <2>2
<1>4. \A k \in 1..N : Up(k)' = Up(k) /\ Up(k) \in 1..N
  BY <1>3 DEF Up, Listed, ParentsAre
<1>5. \A k : Children(k)' = Children(k)
  BY <1>1, <1>3 DEF Children
<1>6. \A k \in 1..N : Kids(k)' = Kids(k)
  <2>1. [j \in DOMAIN rootDir' |-> j] = [j \in DOMAIN rootDir |-> j]
    BY <1>1
  <2>2. QED BY <1>5, <2>1 DEF Kids
<1>7. ASSUME NEW k \in 1..N, NEW t \in Table, k > 1 PROVE Clashes(k, t)' = Clashes(k, t)
  <2>1. \A j \in Children(ParentIdx(k)) : rootDir'[j].path = rootDir[j].path
    BY <1>1, <1>2 DEF Children
  <2>2. Children(ParentIdx(k))' = Children(ParentIdx(k))
    BY <1>3, <1>1, <1>5 DEF Children
  <2>3. QED BY <1>2, <2>1, <2>2 DEF Clashes
<1>8. QED BY <1>1, <1>3, <1>4, <1>6, <1>7

LEMMA FixedIs ==
  ASSUME NEW e, NEW dirs, NEW files
  PROVE  Fixed(e, dirs, files) = Moved(e, IF e.dir THEN dirs ELSE files)
BY DEF Fixed, Moved

LEMMA FixedEntry ==
  ASSUME NEW e \in EntryType, NEW dirs \in Nat, NEW files \in Nat
  PROVE  /\ Fixed(e, dirs, files) \in EntryType
         /\ Fixed(e, dirs, files).id = e.id /\ Fixed(e, dirs, files).dir = e.dir
         /\ Fixed(e, dirs, files).more = e.more /\ Fixed(e, dirs, files).len = e.len
<1>. DEFINE d == IF e.dir THEN dirs ELSE files
<1>1. d \in Nat
  OBVIOUS
<1>2. Fixed(e, dirs, files) = Moved(e, d)
  BY FixedIs, Zenon
<1>. HIDE DEF d
<1>3. /\ Moved(e, d) \in EntryType
      /\ Moved(e, d).id = e.id /\ Moved(e, d).dir = e.dir /\ Moved(e, d).more = e.more
         /\ Moved(e, d).len = e.len
  BY <1>1, MovedEntry
<1>4. QED BY <1>2, <1>3, Zenon

LEMMA FixedDir ==
  ASSUME NEW e \in EntryType, e.dir = TRUE, NEW dirs \in Nat, NEW files \in Nat
  PROVE  Fixed(e, dirs, files) = Moved(e, dirs) /\ Fixed(e, dirs, files).loc = e.loc + dirs
<1>1. Fixed(e, dirs, files) = Moved(e, dirs)
  BY FixedIs, Zenon
<1>2. Moved(e, dirs).loc = e.loc + dirs
  BY MovedEntry
<1>3. QED BY <1>1, <1>2, Zenon

LEMMA FixedFile ==
  ASSUME NEW e \in EntryType, ~e.dir, NEW dirs \in Nat, NEW files \in Nat
  PROVE  Fixed(e, dirs, files) = Moved(e, files)
BY FixedIs, Zenon

LEMMA FixedInPlace ==
  ASSUME NEW e \in EntryType
  PROVE  Fixed(e, 0, 0) = e
<1>1. Fixed(e, 0, 0) \in EntryType /\ e.loc \in Nat
  BY FixedEntry DEF EntryType
<1>2. Fixed(e, 0, 0).loc = e.loc
  <2>1. Fixed(e, 0, 0) = Moved(e, 0)
    <3>1. (IF e.dir THEN 0 ELSE 0) = 0
      OBVIOUS
    <3>2. QED BY <3>1, FixedIs, Zenon
  <2>2. 0 \in Nat /\ Moved(e, 0).loc = e.loc + 0
    BY MovedEntry
  <2>3. QED BY <1>1, <2>1, <2>2
<1>3. /\ Fixed(e, 0, 0).id = e.id /\ Fixed(e, 0, 0).dir = e.dir
      /\ Fixed(e, 0, 0).more = e.more /\ Fixed(e, 0, 0).len = e.len
  BY FixedEntry
<1>4. QED BY <1>1, <1>2, <1>3, SameEntry

ListingMoved(d) ==
  \A t \in Table, k \in 1..N :
    /\ Len(Listing(k, t)') = Len(Listing(k, t)) /\ Len(Listing(k, t)) \in Nat
    /\ \A e \in 1..Len(Listing(k, t)) : Listing(k, t)'[e] = Fixed(Listing(k, t)[e], 0, d)
    /\ Sizes(Listing(k, t)', t) = Sizes(Listing(k, t), t)
    /\ Behind(k, t)' = Behind(k, t)
    /\ EntriesSize(Listing(k, t), t)' = EntriesSize(Listing(k, t), t)

LEMMA ListingStays ==
  ASSUME SizesAssumption, Listed, Listed', NEW d \in Nat, Shifted(d)
  PROVE  ListingMoved(d)
<1>1. N \in Nat /\ N' = N /\ DOMAIN rootDir = 1..N /\ DOMAIN rootDir' = 1..N
  BY FamilyStays
<1>2. ASSUME NEW t \in Table, NEW k \in 1..N
      PROVE  /\ Len(Listing(k, t)') = Len(Listing(k, t)) /\ Len(Listing(k, t)) \in Nat
             /\ \A e \in 1..Len(Listing(k, t)) : Listing(k, t)'[e] = Fixed(Listing(k, t)[e], 0, d)
  <2>. DEFINE fs == rootDir[k].files
              gs == rootDir'[k].files
              fl == FileLists(k, t)
              gl == FileLists(k, t)'
              fp == FilePart(k, t)
              gp == FilePart(k, t)'
              kids == Kids(k)
              ls == Listing(k, t)
              rs == Listing(k, t)'
  <2>1. /\ fs \in Seq(FileType) /\ Len(gs) = Len(fs) /\ k \in 1..N'
        /\ \A i \in 1..Len(fs) : gs[i] = [fs[i] EXCEPT !.rLBA = @ + d]
    BY <1>1 DEF Listed, ParentsAre, Shifted
  <2>2. /\ fl \in Seq(Seq(EntryType)) /\ Len(fl) = Len(fs)
        /\ \A i \in 1..Len(fs) : fl[i] = FileEntries(fs[i], t)
    BY Zenon DEF Listed, FileListsAre
  <2>3. /\ gl \in Seq(Seq(EntryType)) /\ Len(gl) = Len(fs)
        /\ \A i \in 1..Len(fs) : gl[i] = FileEntries(gs[i], t)
    BY <2>1, Zenon DEF Listed, FileListsAre
  <2>4. ASSUME NEW i \in 1..Len(fl)
        PROVE  Len(gl[i]) = Len(fl[i]) /\ \A j \in 1..Len(fl[i]) : gl[i][j] = Moved(fl[i][j], d)
    <3>1. fs[i] \in FileType /\ fl[i] = FileEntries(fs[i], t)
          /\ gl[i] = FileEntries([fs[i] EXCEPT !.rLBA = @ + d], t)
      <4>. HIDE DEF fs, gs, fl, gl
      <4>1. i \in 1..Len(fs) /\ fs[i] \in FileType
        BY <2>1, <2>2
      <4>2. gs[i] = [fs[i] EXCEPT !.rLBA = @ + d]
        BY <2>1, <4>1, Zenon
      <4>3. QED BY <2>2, <2>3, <4>1, <4>2, Zenon
    <3>2. QED BY <3>1, FileEntriesShift
  <2>5. fp = FlattenSeq(fl) /\ gp = FlattenSeq(gl)
    BY DEF FilePart
  <2>6. Kids(k)' = kids /\ kids \in Seq(1..N) /\ Len(kids) \in Nat
        /\ \A c \in 1..Len(kids) : kids[c] \in 1..N
    <3>1. Kids(k)' = kids
      BY FamilyStays
    <3>2. kids \in Seq(1..N) /\ Len(kids) \in Nat
      BY DEF Listed, KidsAre
    <3>. HIDE DEF kids
    <3>3. \A c \in 1..Len(kids) : kids[c] \in 1..N
      <4>. DEFINE S == 1..N
      <4>1. kids \in Seq(S)
        BY <3>2
      <4>. HIDE DEF S
      <4>2. \A c \in 1..Len(kids) : kids[c] \in S
        BY <4>1
      <4>3. QED BY <4>2 DEF S
    <3>4. QED BY <3>1, <3>2, <3>3
  <2>7. /\ ls \in Seq(EntryType) /\ Len(ls) = 2 + Len(fp) + Len(kids) /\ Len(fp) \in Nat
        /\ ls[1] = DirEntry(Dot, 0, 0) /\ ls[2] = DirEntry(DotDot, 0, 0)
        /\ \A e \in 1..Len(fp) : ls[2 + e] = fp[e] /\ ~fp[e].dir /\ fp[e] \in EntryType
    <3>1. fp \in Seq(EntryType)
      BY DEF Listed, ListingsAre
    <3>2. \A e \in 1..Len(fp) : fp[e] \in EntryType
      BY <3>1
    <3>3. QED BY <3>2 DEF Listed, ListingsAre
  <2>8. \A c \in 1..Len(kids) : ls[2 + Len(fp) + c] = DirEntry(Ident(KidName(k, c), FALSE, t), 0, 0)
    BY DEF Listed, ListingsAre
  <2>9. /\ Len(rs) = 2 + Len(gp) + Len(kids)
        /\ rs[1] = DirEntry(Dot, 0, 0) /\ rs[2] = DirEntry(DotDot, 0, 0)
        /\ \A e \in 1..Len(gp) : rs[2 + e] = gp[e]
    <3>1. Len(rs) = 2 + Len(gp) + Len(Kids(k)') /\ rs[1] = DirEntry(Dot, 0, 0)
          /\ rs[2] = DirEntry(DotDot, 0, 0)
      BY <2>1, Zenon DEF Listed, ListingsAre
    <3>2. \A e \in 1..Len(gp) : rs[2 + e] = gp[e]
      BY <2>1, Zenon DEF Listed, ListingsAre
    <3>3. QED BY <2>6, <3>1, <3>2, Zenon
  <2>10. \A c \in 1..Len(kids) : rs[2 + Len(gp) + c] = DirEntry(Ident(KidName(k, c)', FALSE, t), 0, 0)
    <3>1. \A c \in 1..Len(Kids(k)') :
            rs[2 + Len(gp) + c] = DirEntry(Ident(KidName(k, c)', FALSE, t), 0, 0)
      BY <2>1, Zenon DEF Listed, ListingsAre
    <3>2. QED BY <2>6, <3>1, Zenon
  <2>11. \A c \in 1..Len(kids) : KidName(k, c)' = KidName(k, c)
    BY <1>1, <2>6 DEF KidName, Shifted
  <2>12. \A c \in 1..Len(kids) : KidName(k, c) \in Names
    BY DEF Listed, ListingsAre
  <2>. HIDE DEF fs, gs, fl, gl, kids
  <2>13. Len(gp) = Len(fp) /\ \A e \in 1..Len(fp) : gp[e] = Moved(fp[e], d)
    <3>1. Len(gl) = Len(fl) /\ fl \in Seq(Seq(EntryType)) /\ gl \in Seq(Seq(EntryType))
      BY <2>2, <2>3
    <3>2. \A i \in 1..Len(fl) : Len(gl[i]) = Len(fl[i])
          /\ \A j \in 1..Len(fl[i]) : gl[i][j] = Moved(fl[i][j], d)
      BY <2>4
    <3>3. Len(FlattenSeq(gl)) = Len(FlattenSeq(fl))
      BY <3>1, <3>2, FlattenShift, Zenon
    <3>4. \A e \in 1..Len(FlattenSeq(fl)) : FlattenSeq(gl)[e] = Moved(FlattenSeq(fl)[e], d)
      BY <3>1, <3>2, FlattenShift, Zenon
    <3>5. QED BY <2>5, <3>3, <3>4, Zenon
  <2>. HIDE DEF fp, gp, ls, rs
  <2>14. Len(rs) = Len(ls) /\ Len(ls) \in Nat
    BY <2>6, <2>7, <2>9, <2>13
  <2>15. \A id \in IdType : DirEntry(id, 0, 0) \in EntryType
         /\ Fixed(DirEntry(id, 0, 0), 0, d) = DirEntry(id, 0, 0)
    <3>. SUFFICES ASSUME NEW id \in IdType
                  PROVE  DirEntry(id, 0, 0) \in EntryType
                         /\ Fixed(DirEntry(id, 0, 0), 0, d) = DirEntry(id, 0, 0)
      OBVIOUS
    <3>. DEFINE e == DirEntry(id, 0, 0)
    <3>1. e \in EntryType /\ e.dir = TRUE
      BY DirEntryType
    <3>. HIDE DEF e
    <3>2. Fixed(e, 0, d) = Moved(e, 0) /\ Fixed(e, 0, 0) = Moved(e, 0)
      BY <3>1, FixedDir
    <3>3. Fixed(e, 0, 0) = e
      BY <3>1, FixedInPlace
    <3>4. QED BY <3>1, <3>2, <3>3 DEF e
  <2>16. ASSUME NEW e \in 1..Len(ls) PROVE rs[e] = Fixed(ls[e], 0, d)
    <3>1. CASE e = 1 \/ e = 2
      <4>1. Dot \in IdType /\ DotDot \in IdType
        BY DEF IdType
      <4>2. QED BY <2>7, <2>9, <2>15, <3>1, <4>1
    <3>2. CASE e \in 3..(2 + Len(fp))
      <4>1. e - 2 \in 1..Len(fp) /\ 2 + (e - 2) = e
        BY <2>7, <3>2
      <4>2. ls[e] = fp[e - 2] /\ ~fp[e - 2].dir /\ fp[e - 2] \in EntryType
            /\ rs[e] = Moved(fp[e - 2], d)
        BY <2>7, <2>9, <2>13, <4>1
      <4>3. QED BY <4>2, FixedFile
    <3>3. CASE e > 2 + Len(fp)
      <4>1. \E c \in 1..Len(kids) : e = 2 + Len(fp) + c
        <5>1. e - 2 - Len(fp) \in 1..Len(kids) /\ 2 + Len(fp) + (e - 2 - Len(fp)) = e
          BY <2>6, <2>7, <3>3
        <5>2. QED BY <5>1
      <4>2. PICK c \in 1..Len(kids) : e = 2 + Len(fp) + c
        BY <4>1
      <4>3. /\ ls[e] = DirEntry(Ident(KidName(k, c), FALSE, t), 0, 0)
            /\ rs[e] = DirEntry(Ident(KidName(k, c), FALSE, t), 0, 0)
        BY <2>8, <2>10, <2>11, <2>13, <4>2
      <4>4. Ident(KidName(k, c), FALSE, t) \in IdType
        BY <2>12, IdentType
      <4>5. QED BY <2>15, <4>3, <4>4
    <3>4. e = 1 \/ e = 2 \/ e \in 3..(2 + Len(fp)) \/ e > 2 + Len(fp)
      BY <2>7, <2>14
    <3>5. QED BY <3>1, <3>2, <3>3, <3>4
  <2>17. QED BY <2>14, <2>16 DEF ls, rs
<1>3. ASSUME NEW t \in Table, NEW k \in 1..N
      PROVE  Sizes(Listing(k, t)', t) = Sizes(Listing(k, t), t)
  <2>. DEFINE ls == Listing(k, t)
              rs == Listing(k, t)'
  <2>1. ls \in Seq(EntryType) /\ rs \in Seq(EntryType)
    BY <1>1 DEF Listed, ListingsAre
  <2>2. Len(rs) = Len(ls) /\ \A e \in 1..Len(ls) : rs[e] = Fixed(ls[e], 0, d)
    BY <1>2
  <2>. HIDE DEF ls, rs
  <2>3. \A e \in 1..Len(ls) : rs[e].id = ls[e].id
    <3>1. \A e \in 1..Len(ls) : ls[e] \in EntryType
      BY <2>1
    <3>2. \A e \in 1..Len(ls) : Fixed(ls[e], 0, d).id = ls[e].id
      <4>1. 0 \in Nat
        OBVIOUS
      <4>2. \A e \in EntryType : Fixed(e, 0, d).id = e.id
        BY <4>1, FixedEntry
      <4>3. QED BY <3>1, <4>2
    <3>3. QED BY <2>2, <3>2, Zenon
  <2>4. Sizes(rs, t) = Sizes(ls, t)
    BY <2>1, <2>2, <2>3, SizesType
  <2>5. QED BY <2>4 DEF ls, rs
<1>4. \A t \in Table, k \in 1..N : EntriesSize(Listing(k, t), t)' = EntriesSize(Listing(k, t), t)
  BY <1>3 DEF EntriesSize
<1>5. \A t \in Table : AllSizes(t)' = AllSizes(t)
  BY <1>1, <1>3 DEF AllSizes
<1>6. \A t \in Table, k \in 1..N : Behind(k, t)' = Behind(k, t)
  BY <1>5 DEF Behind
<1>7. QED BY <1>2, <1>3, <1>4, <1>6 DEF ListingMoved

LEMMA SameTree ==
  ASSUME RootType, rootDir' = rootDir
  PROVE  Shifted(0)
<1>1. \A k \in 1..N : rootDir[k].files \in Seq(FileType)
  <2>. DEFINE X == [path : Seq(Names), files : Seq(FileType)]
  <2>1. rootDir \in Seq(X)
    BY DEF RootType
  <2>. HIDE DEF X
  <2>2. \A i \in 1..N : rootDir[i] \in X
    BY <2>1 DEF N
  <2>3. QED BY <2>2 DEF X
<1>2. ASSUME NEW f \in FileType PROVE [f EXCEPT !.rLBA = @ + 0] = f
  BY DEF FileType
<1>3. N' = N
  BY DEF N
<1>4. ASSUME NEW k \in 1..N, NEW i \in 1..Len(rootDir[k].files)
      PROVE  rootDir'[k].files[i] = [rootDir[k].files[i] EXCEPT !.rLBA = @ + 0]
  <2>1. rootDir[k].files[i] \in FileType
    BY <1>1
  <2>2. QED BY <1>2, <2>1
<1>5. QED BY <1>3, <1>4 DEF Shifted

LEMMA Lengths ==
  ASSUME SizesAssumption, Listed, NEW t \in Table
  PROVE  /\ N \in Nat /\ AllSizes(t) \in Seq(Seq(Nat)) /\ Len(AllSizes(t)) = N
         /\ \A k \in 1..N : AllSizes(t)[k] = Sizes(Listing(k, t), t)
         /\ \A k \in 1..N : Behind(k, t) \in Nat /\ EntriesSize(Listing(k, t), t) \in Nat
         /\ \A k \in 0..N : \E s \in Nat : DirectoryEnds(AllSizes(t))[k] = Bytes(s)
<1>1. N \in Nat
  BY DEF Listed, RootType, N
<1>2. \A k \in 1..N : Sizes(Listing(k, t), t) \in Seq(Nat)
  <2>1. \A k \in 1..N : Listing(k, t) \in Seq(EntryType)
    BY DEF Listed, ListingsAre
  <2>2. QED BY <2>1, SizesType
<1>3. AllSizes(t) \in Seq(Seq(Nat)) /\ Len(AllSizes(t)) = N
      /\ \A k \in 1..N : AllSizes(t)[k] = Sizes(Listing(k, t), t)
  BY <1>1, <1>2 DEF AllSizes
<1>4. \A k \in 0..N : \E s \in Nat : DirectoryEnds(AllSizes(t))[k] = Bytes(s)
  BY <1>3, DirectoryEndsType
<1>5. ASSUME NEW k \in 1..N PROVE Behind(k, t) \in Nat /\ EntriesSize(Listing(k, t), t) \in Nat
  <2>1. k - 1 \in 0..N
    BY <1>1
  <2>2. PICK s \in Nat : DirectoryEnds(AllSizes(t))[k - 1] = Bytes(s)
    BY <1>4, <2>1
  <2>3. Behind(k, t) \in Nat
    BY <2>2, BytesOf DEF Behind
  <2>4. 0 \in Nat /\ Sizes(Listing(k, t), t) \in Seq(Nat)
    BY <1>2
  <2>5. EntriesSize(Listing(k, t), t) \in Nat
    BY <2>4, AddDirectoryType DEF EntriesSize
  <2>6. QED BY <2>3, <2>5
<1>6. QED BY <1>1, <1>3, <1>4, <1>5

LEMMA SelfType ==
  ASSUME SizesAssumption, Listed, NEW t \in Table, NEW k \in 1..N, NEW id \in IdType, lba[t] \in Nat
  PROVE  /\ Self(id, k, t) \in EntryType /\ Self(id, k, t).id = id /\ Self(id, k, t).dir = TRUE
            /\ Self(id, k, t).more = FALSE
         /\ Self(id, k, t).loc = lba[t] + Behind(k, t)
            /\ Self(id, k, t).len = EntriesSize(Listing(k, t), t)
<1>1. Behind(k, t) \in Nat /\ EntriesSize(Listing(k, t), t) \in Nat
  BY Lengths
<1>2. lba[t] + Behind(k, t) \in Nat
  BY <1>1
<1>. DEFINE loc == lba[t] + Behind(k, t)
            len == EntriesSize(Listing(k, t), t)
<1>3. Self(id, k, t) = DirEntry(id, loc, len)
  BY DEF Self
<1>4. loc \in Nat /\ len \in Nat
  BY <1>1, <1>2
<1>. HIDE DEF loc, len
<1>5. /\ DirEntry(id, loc, len) \in EntryType
      /\ DirEntry(id, loc, len).id = id /\ DirEntry(id, loc, len).dir = TRUE
         /\ DirEntry(id, loc, len).more = FALSE
      /\ DirEntry(id, loc, len).loc = loc /\ DirEntry(id, loc, len).len = len
  BY <1>4 DEF DirEntry, EntryType
<1>6. QED BY <1>3, <1>5, Zenon DEF loc, len

LEMMA SelfMoves ==
  ASSUME SizesAssumption, Listed, Listed', NEW files \in Nat, NEW dirs \in Nat, Shifted(files),
         NEW t \in Table,
         lba[t] \in Nat, lba'[t] = lba[t] + dirs, NEW k \in 1..N, NEW id \in IdType
  PROVE  Self(id, k, t)' = Fixed(Self(id, k, t), dirs, files)
<1>. DEFINE a == Self(id, k, t)
            b == Self(id, k, t)'
<1>1. a \in EntryType /\ a.id = id /\ a.dir = TRUE /\ a.more = FALSE
      /\ a.loc = lba[t] + Behind(k, t) /\ a.len = EntriesSize(Listing(k, t), t)
  BY SelfType
<1>2. /\ Behind(k, t)' = Behind(k, t) /\ Behind(k, t) \in Nat
      /\ EntriesSize(Listing(k, t), t)' = EntriesSize(Listing(k, t), t)
         /\ EntriesSize(Listing(k, t), t) \in Nat
  BY ListingStays, Lengths DEF ListingMoved
<1>. DEFINE loc == (lba[t] + Behind(k, t)) + dirs
            len == EntriesSize(Listing(k, t), t)
<1>3. loc \in Nat /\ len \in Nat
  BY <1>2
<1>4. b = DirEntry(id, loc, len)
  <2>1. lba'[t] + Behind(k, t) = loc
    BY <1>2
  <2>2. b = DirEntry(id, lba'[t] + Behind(k, t)', EntriesSize(Listing(k, t), t)')
    BY DEF Self
  <2>3. QED BY <1>2, <2>1, <2>2
<1>. HIDE DEF b
<1>5. b \in EntryType /\ b.id = id /\ b.dir = TRUE /\ b.more = FALSE /\ b.loc = loc /\ b.len = len
  <2>. HIDE DEF loc, len
  <2>1. /\ DirEntry(id, loc, len) \in EntryType
        /\ DirEntry(id, loc, len).id = id /\ DirEntry(id, loc, len).dir = TRUE
           /\ DirEntry(id, loc, len).more = FALSE
        /\ DirEntry(id, loc, len).loc = loc /\ DirEntry(id, loc, len).len = len
    BY <1>3 DEF DirEntry, EntryType
  <2>2. QED BY <1>4, <2>1, Zenon
<1>. HIDE DEF a
<1>6. Fixed(a, dirs, files) = Moved(a, dirs) /\ Fixed(a, dirs, files).loc = a.loc + dirs
  BY <1>1, FixedDir
<1>7. /\ Fixed(a, dirs, files) \in EntryType
      /\ Fixed(a, dirs, files).id = a.id /\ Fixed(a, dirs, files).dir = a.dir
      /\ Fixed(a, dirs, files).more = a.more /\ Fixed(a, dirs, files).len = a.len
  BY <1>1, FixedEntry
<1>8. b = Fixed(a, dirs, files)
  <2>1. Fixed(a, dirs, files).loc = b.loc
    BY <1>1, <1>5, <1>6
  <2>. DEFINE c == Fixed(a, dirs, files)
  <2>2. c \in EntryType /\ c.id = b.id /\ c.dir = b.dir /\ c.more = b.more /\ c.len = b.len
        /\ c.loc = b.loc
    BY <1>1, <1>5, <1>7, <2>1, Zenon
  <2>. HIDE DEF c
  <2>3. b = c
    BY <1>5, <2>2, SameEntry
  <2>4. QED BY <2>3 DEF c
<1>9. QED BY <1>8 DEF a, b

EntriesFixed(t, dirs, files) ==
  \A k \in 1..N : entries'[t][k] = [e \in DOMAIN entries[t][k] |-> Fixed(entries[t][k][e], dirs, files)]

LEMMA MadeStays ==
  ASSUME SizesAssumption, Listed, Listed', NEW files \in Nat, NEW dirs \in Nat, Shifted(files),
         NEW t \in Table,
         lba[t] \in Nat, lba'[t] = lba[t] + dirs, EntriesFixed(t, dirs, files),
         NEW k \in 1..N, Made(k, t), Made(Up(k), t)
  PROVE  Made(k, t)'
<1>. DEFINE es == entries[t][k]
            ds == entries'[t][k]
            ls == Listing(k, t)
            rs == Listing(k, t)'
            us == entries[t][Up(k)]
            id == Ident(Last(rootDir[k].path), FALSE, t)
<1>1. es \in Seq(EntryType) /\ Len(es) = Len(ls) /\ Len(ls) \in Nat /\ us \in Seq(EntryType)
  BY Lengths DEF Made, MadeBy, Listed, ListingsAre
<1>2. Len(rs) = Len(ls) /\ \A e \in 1..Len(ls) : rs[e] = Fixed(ls[e], 0, files)
  BY ListingStays DEF ListingMoved
<1>3. /\ N' = N /\ Up(k)' = Up(k) /\ Up(k) \in 1..N /\ (k > 1 => Clashes(k, t)' = Clashes(k, t))
      /\ rootDir'[k].path = rootDir[k].path
  BY FamilyStays DEF Shifted
<1>4. ds = [e \in DOMAIN es |-> Fixed(es[e], dirs, files)]
      /\ entries'[t][Up(k)] = [e \in DOMAIN us |-> Fixed(us[e], dirs, files)]
  BY <1>3 DEF EntriesFixed
<1>5. \A e \in 1..Len(ls) :
        /\ es[e].id = ls[e].id /\ es[e].dir = ls[e].dir /\ es[e].more = ls[e].more
        /\ ~ls[e].dir => es[e] = ls[e]
  BY Zenon DEF Made, MadeBy
<1>6. ls \in Seq(EntryType) /\ Len(ls) >= 2
  <2>1. ls \in Seq(EntryType) /\ Len(ls) = 2 + Len(FilePart(k, t)) + Len(Kids(k))
        /\ Len(FilePart(k, t)) \in Nat
    BY Zenon DEF Listed, ListingsAre
  <2>2. Len(Kids(k)) \in Nat
    BY Zenon DEF Listed, KidsAre
  <2>3. QED BY <2>1, <2>2
<1>7. es[1] = Self(Dot, k, t) /\ es[2] = Self(DotDot, Up(k), t)
  BY Zenon DEF Made, MadeBy
<1>8. k > 1 /\ ~Clashes(k, t) => \E e \in 1..Len(us) : us[e] = Self(id, k, t)
  BY Zenon DEF Made, MadeBy
<1>9. \A e \in EntryType : Fixed(e, dirs, files) \in EntryType /\ Fixed(e, dirs, files).id = e.id
        /\ Fixed(e, dirs, files).dir = e.dir /\ Fixed(e, dirs, files).more = e.more
  BY FixedEntry
<1>10. 0 \in Nat /\ \A e \in EntryType : Fixed(e, 0, files).id = e.id
       /\ Fixed(e, 0, files).dir = e.dir /\ Fixed(e, 0, files).more = e.more
  <2>1. 0 \in Nat
    OBVIOUS
  <2>2. QED BY <2>1, FixedEntry
<1>. HIDE DEF es, ds, ls, rs, us
<1>11. ds \in Seq(EntryType) /\ Len(ds) = Len(rs)
       /\ \A e \in 1..Len(ls) : ds[e] = Fixed(es[e], dirs, files)
  <2>1. DOMAIN es = 1..Len(es) /\ \A e \in 1..Len(es) : es[e] \in EntryType
    BY <1>1
  <2>2. QED BY <1>1, <1>2, <1>4, <1>9, <2>1
<1>12. DOMAIN us = 1..Len(us) /\ Len(entries'[t][Up(k)]) = Len(us)
  BY <1>1, <1>4
<1>13. ASSUME NEW e \in 1..Len(rs)
       PROVE  /\ ds[e].id = rs[e].id /\ ds[e].dir = rs[e].dir /\ ds[e].more = rs[e].more
              /\ ~rs[e].dir => ds[e] = rs[e]
  <2>1. e \in 1..Len(ls) /\ ls[e] \in EntryType /\ es[e] \in EntryType
    BY <1>1, <1>2, <1>6
  <2>2. ds[e] = Fixed(es[e], dirs, files) /\ rs[e] = Fixed(ls[e], 0, files)
    BY <1>2, <1>11, <2>1
  <2>3. ds[e].id = rs[e].id /\ ds[e].dir = rs[e].dir /\ ds[e].more = rs[e].more /\ rs[e].dir = ls[e].dir
    <3>1. es[e].id = ls[e].id /\ es[e].dir = ls[e].dir /\ es[e].more = ls[e].more
      BY <1>5, <2>1, Zenon
    <3>2. ds[e].id = es[e].id /\ ds[e].dir = es[e].dir /\ ds[e].more = es[e].more
      BY <1>9, <2>1, <2>2, Zenon
    <3>3. rs[e].id = ls[e].id /\ rs[e].dir = ls[e].dir /\ rs[e].more = ls[e].more
      BY <1>10, <2>1, <2>2, Zenon
    <3>4. QED BY <3>1, <3>2, <3>3, Zenon
  <2>4. ASSUME ~rs[e].dir PROVE ds[e] = rs[e]
    <3>1. ~ls[e].dir /\ es[e] = ls[e]
      BY <1>5, <2>1, <2>3, <2>4, Zenon
    <3>2. Fixed(ls[e], dirs, files) = Moved(ls[e], files)
          /\ Fixed(ls[e], 0, files) = Moved(ls[e], files)
      BY <1>10, <2>1, <3>1, FixedFile, Zenon
    <3>3. QED BY <2>2, <3>1, <3>2, Zenon
  <2>5. QED BY <2>3, <2>4
<1>14. ds[1] = Self(Dot, k, t)' /\ ds[2] = Self(DotDot, Up(k), t)'
  <2>1. Dot \in IdType /\ DotDot \in IdType
    BY DEF IdType
  <2>2. Self(Dot, k, t)' = Fixed(Self(Dot, k, t), dirs, files)
    BY <2>1, SelfMoves
  <2>3. Self(DotDot, Up(k), t)' = Fixed(Self(DotDot, Up(k), t), dirs, files)
    <3>1. \A j \in 1..N : Self(DotDot, j, t)' = Fixed(Self(DotDot, j, t), dirs, files)
      BY <2>1, SelfMoves
    <3>2. Self(DotDot, Up(k), t)' = DirEntry(DotDot, lba'[t] + Behind(Up(k), t)',
          EntriesSize(Listing(Up(k), t), t)')
      BY DEF Self
    <3>3. PICK j \in 1..N : j = Up(k)
      BY <1>3
    <3>4. QED BY <1>3, <3>1, <3>3
  <2>4. 1 \in 1..Len(ls) /\ 2 \in 1..Len(ls)
    BY <1>1, <1>6
  <2>5. QED BY <1>7, <1>11, <2>2, <2>3, <2>4, Zenon
<1>15. ASSUME k > 1, ~Clashes(k, t)'
       PROVE  \E e \in 1..Len(entries'[t][Up(k)']) :
                entries'[t][Up(k)'][e] = Self(Ident(Last(rootDir[k].path), FALSE, t), k, t)'
  <2>1. PICK e \in 1..Len(us) : us[e] = Self(id, k, t)
    BY <1>3, <1>8, <1>15
  <2>2. id \in IdType
    <3>1. Last(rootDir[k].path) \in Names
      BY <1>15 DEF Listed, ParentsAre
    <3>2. QED BY <3>1, IdentType
  <2>3. PICK x \in IdType : x = id
    BY <2>2
  <2>4. Self(x, k, t)' = Fixed(Self(x, k, t), dirs, files)
    BY SelfMoves
  <2>5. Self(id, k, t) = Self(x, k, t)
    BY <2>3
  <2>6. Self(Ident(Last(rootDir[k].path), FALSE, t), k, t)' = Self(x, k, t)'
    <3>1. Ident(Last(rootDir'[k].path), FALSE, t) = x
      BY <1>3, <2>3
    <3>2. QED BY <3>1 DEF Self
  <2>7. entries'[t][Up(k)][e] = Fixed(us[e], dirs, files) /\ e \in 1..Len(entries'[t][Up(k)])
    BY <1>4, <1>12, <2>1
  <2>8. QED BY <1>3, <2>1, <2>4, <2>5, <2>6, <2>7, Zenon
<1>16. ds \in Seq(EntryType) /\ Len(ds) = Len(rs)
  BY <1>11
<1>17. QED BY <1>13, <1>14, <1>15, <1>16, <1>3, Zenon DEF Made, MadeBy, ds, rs
-----------------------------------------------------------------------------
(* Steps that leave the tree that was scanned as it is.                    *)

LEMMA ListingSame ==
  ASSUME SizesAssumption, Listed, Listed', rootDir' = rootDir, NEW t \in Table, NEW k \in 1..N
  PROVE  /\ Listing(k, t)' = Listing(k, t) /\ Up(k)' = Up(k) /\ Up(k) \in 1..N /\ N' = N
         /\ k > 1 => Clashes(k, t)' = Clashes(k, t)
         /\ Behind(k, t)' = Behind(k, t)
<1>1. 0 \in Nat /\ Shifted(0)
  BY SameTree DEF Listed
<1>2. N' = N /\ Up(k)' = Up(k) /\ Up(k) \in 1..N /\ (k > 1 => Clashes(k, t)' = Clashes(k, t))
  BY <1>1, FamilyStays
<1>3. /\ Len(Listing(k, t)') = Len(Listing(k, t)) /\ Behind(k, t)' = Behind(k, t)
      /\ \A e \in 1..Len(Listing(k, t)) : Listing(k, t)'[e] = Fixed(Listing(k, t)[e], 0, 0)
  BY <1>1, ListingStays DEF ListingMoved
<1>. DEFINE ls == Listing(k, t)
            rs == Listing(k, t)'
<1>4. ls \in Seq(EntryType) /\ rs \in Seq(EntryType)
  BY <1>2 DEF Listed, ListingsAre
<1>. HIDE DEF ls, rs
<1>5. \A e \in 1..Len(ls) : rs[e] = ls[e]
  <2>1. \A e \in 1..Len(ls) : ls[e] \in EntryType
    BY <1>4
  <2>2. QED BY <1>3, <2>1, FixedInPlace DEF ls, rs
<1>6. rs = ls
  BY <1>3, <1>4, <1>5 DEF ls, rs
<1>7. QED BY <1>2, <1>3, <1>6 DEF ls, rs

LEMMA SelfSame ==
  ASSUME SizesAssumption, Listed, Listed', rootDir' = rootDir, lba' = lba, NEW t \in Table,
         NEW k \in 1..N, NEW id
  PROVE  Self(id, k, t)' = Self(id, k, t)
<1>1. Listing(k, t)' = Listing(k, t) /\ Behind(k, t)' = Behind(k, t)
  BY ListingSame
<1>2. QED BY <1>1 DEF Self

LEMMA MadeSame ==
  ASSUME SizesAssumption, Listed, Listed', rootDir' = rootDir, lba' = lba, NEW t \in Table,
         NEW k \in 1..N
  PROVE  Made(k, t)' <=> MadeBy(entries'[t][k], entries'[t][Up(k)], k, t)
<1>1. /\ Listing(k, t)' = Listing(k, t) /\ Up(k)' = Up(k) /\ Up(k) \in 1..N
      /\ k > 1 => Clashes(k, t)' = Clashes(k, t)
  BY ListingSame
<1>2. Self(Dot, k, t)' = Self(Dot, k, t)
  BY SelfSame
<1>3. Self(DotDot, Up(k), t)' = Self(DotDot, Up(k), t)
  <2>1. PICK j \in 1..N : j = Up(k)
    BY <1>1
  <2>2. Self(DotDot, j, t)' = Self(DotDot, j, t)
    BY SelfSame
  <2>3. QED BY <1>1, <2>1, <2>2
<1>4. Self(Ident(Last(rootDir[k].path), FALSE, t), k, t)'
        = Self(Ident(Last(rootDir[k].path), FALSE, t), k, t)
  <2>1. PICK x : x = Ident(Last(rootDir[k].path), FALSE, t)
    OBVIOUS
  <2>2. Self(x, k, t)' = Self(x, k, t)
    BY SelfSame
  <2>3. Ident(Last(rootDir'[k].path), FALSE, t) = x
    BY <2>1
  <2>4. QED BY <2>1, <2>2, <2>3 DEF Self
<1>. DEFINE ls == Listing(k, t)
            a == Self(Dot, k, t)
            b == Self(DotDot, Up(k), t)
            c == Self(Ident(Last(rootDir[k].path), FALSE, t), k, t)
<1>5. QED BY <1>1, <1>2, <1>3, <1>4, Zenon DEF Made, MadeBy

FileListsOf == [k \in DOMAIN rootDir |-> rootDir[k].files]

FilesTyped ==
  /\ FileListsOf \in Seq(Seq(FileType)) /\ Len(FileListsOf) = N
  /\ AllFiles \in Seq(FileType) /\ AllFiles = FlattenSeq(FileListsOf)
  /\ FileSectors \in Seq(Nat) /\ Len(FileSectors) = Len(AllFiles) /\ Len(AllFiles) \in Nat
  /\ \A i \in 1..Len(AllFiles) : AllFiles[i] \in FileType /\ FileSectors[i] = Sectors(AllFiles[i].size)

LEMMA FilesTypedOf ==
  ASSUME SizesAssumption
  PROVE  RootType => FilesTyped
<1>. SUFFICES ASSUME RootType PROVE FilesTyped
  OBVIOUS
<1>1. FileListsOf \in Seq(Seq(FileType)) /\ Len(FileListsOf) = N
  <2>. DEFINE X == [path : Seq(Names), files : Seq(FileType)]
  <2>1. rootDir \in Seq(X)
    BY DEF RootType
  <2>. HIDE DEF X
  <2>2. DOMAIN rootDir = 1..N /\ N \in Nat /\ \A i \in 1..N : rootDir[i] \in X
    BY <2>1 DEF N
  <2>3. \A i \in 1..N : rootDir[i].files \in Seq(FileType)
    BY <2>2 DEF X
  <2>4. QED BY <2>2, <2>3 DEF FileListsOf
<1>2. AllFiles = FlattenSeq(FileListsOf)
  BY DEF AllFiles, FileListsOf
<1>3. AllFiles \in Seq(FileType)
  BY <1>1, <1>2, FlattenParts
<1>4. Len(AllFiles) \in Nat /\ \A i \in 1..Len(AllFiles) : AllFiles[i] \in FileType
  BY <1>3
<1>5. \A i \in 1..Len(AllFiles) : Sectors(AllFiles[i].size) \in Nat
  <2>1. \A i \in 1..Len(AllFiles) : AllFiles[i].size \in Nat
    BY <1>4 DEF FileType
  <2>2. QED BY <2>1, SectorsOf
<1>6. DOMAIN AllFiles = 1..Len(AllFiles)
  BY <1>3
<1>7. /\ FileSectors \in Seq(Nat) /\ Len(FileSectors) = Len(AllFiles)
      /\ \A i \in 1..Len(AllFiles) : FileSectors[i] = Sectors(AllFiles[i].size)
  BY <1>4, <1>5, <1>6 DEF FileSectors
<1>8. QED BY <1>1, <1>2, <1>3, <1>4, <1>7 DEF FilesTyped

LEMMA Starts ==
  ASSUME SizesAssumption
  PROVE  Init => Inv
<1>. SUFFICES ASSUME Init PROVE Inv
  OBVIOUS
<1>1. N = 0 /\ rootDir = <<>> /\ queue = <<(<<>>)>> /\ Len(queue) = 1 /\ Scanning /\ pc = "stat"
  BY DEF Init, N, Scanning
<1>2. RootType
  <2>1. <<>> \in Seq(Names) /\ queue \in Seq(Seq(Names))
    BY <1>1
  <2>2. QED BY <1>1, <2>1 DEF Init, RootType
<1>3. PathsKnown
  BY <1>1 DEF PathsKnown, Known, PathOf
<1>4. FilesPlaced
  <2>1. FilesTyped
    BY <1>2, FilesTypedOf
  <2>2. Len(AllFiles) = 0
    <3>1. Len(Lens(FileListsOf)) = 0 /\ Lens(FileListsOf) \in Seq(Nat)
      BY <1>1, <2>1, FlattenParts DEF FilesTyped
    <3>2. Len(AllFiles) = Sum(Lens(FileListsOf))
      BY <2>1, FlattenParts DEF FilesTyped
    <3>3. QED BY <3>1, <3>2, SumsFollow DEF Sum
  <2>3. Sum(FileSectors) = 0
    BY <2>1, <2>2, SumsFollow DEF Sum, FilesTyped
  <2>4. QED BY <1>1, <2>2, <2>3 DEF FilesPlaced, Init
<1>5. Counted
  BY <1>1 DEF Counted, Init
<1>6. EntriesMade
  BY <1>1 DEF EntriesMade, Init
<1>7. Stage
  BY <1>1 DEF Stage, Init
<1>8. Tables /\ Placed /\ EncodedSoFar
  BY <1>1 DEF Tables, Placed, EncodedSoFar, Late
<1>9. QED BY <1>2, <1>3, <1>4, <1>5, <1>6, <1>7, <1>8 DEF Inv, ScanInv

\* The part of the invariant about what was scanned.
LEMMA ScanKept ==
  ASSUME ScanInv, UNCHANGED <<tree, scanned, rootDir, lba>>
  PROVE  ScanInv'
<1>1. UNCHANGED <<tree, queue, filesSizeSectors, rootDir, lba>>
  BY DEF scanned
<1>2. RootType'
  BY <1>1 DEF ScanInv, RootType
<1>3. PathsKnown'
  <2>1. N' = N /\ Known' = Known /\ \A i : PathOf(i)' = PathOf(i)
    BY <1>1 DEF Known, PathOf, N
  <2>2. PathsKnown
    BY DEF ScanInv
  <2>3. QED BY <1>1, <2>1, <2>2 DEF PathsKnown
<1>4. AllFiles' = AllFiles
  BY <1>1 DEF AllFiles
<1>5. FileSectors' = FileSectors
  BY <1>4 DEF FileSectors
<1>6. FilesPlaced'
  BY <1>1, <1>4, <1>5 DEF ScanInv, FilesPlaced, N
<1>7. QED BY <1>2, <1>3, <1>6 DEF ScanInv

LEMMA ScanSteps ==
  ASSUME Inv, StatRoot \/ GetTitleID \/ ScanFails
  PROVE  Inv'
<1>1. /\ UNCHANGED <<tree, scanned, rootDir, entries, current, pathTable, placed, encoded>>
      /\ pc \in {"stat", "title", "scan"} /\ pc' \in {"title", "scan", "failed"}
         /\ (pc' = "title" => pc = "stat")
  BY DEF StatRoot, GetTitleID, ScanFails, input
<1>2. UNCHANGED <<lba, padAreaStart, totalSize, descriptors, written, fsSize, queue, filesSizeSectors>>
  BY <1>1 DEF placed, encoded, scanned
<1>3. ScanInv'
  BY <1>1, <1>2, ScanKept DEF Inv
<1>4. Scanning /\ Scanning' /\ N' = N /\ ~Late' /\ pc' \notin {"iso", "joliet", "tables", "place"}
  BY <1>1 DEF Scanning, N, Late
<1>5. Counted'
  BY <1>2, <1>4 DEF Inv, Counted
<1>6. EntriesMade'
  <2>1. \A t \in Table : Done(t) = 0 /\ Done(t)' = 0
    BY <1>4 DEF Done
  <2>2. \A t \in Table : Len(entries'[t]) = N' /\ \A k \in 1..N' : entries'[t][k] = <<>>
    <3>1. \A t \in Table : \A k \in 1..N : ~(k <= 0)
      OBVIOUS
    <3>2. QED BY <1>1, <1>4, <2>1, <3>1 DEF Inv, EntriesMade
  <2>3. \A k \in 1..N' : ~(k <= 0)
    OBVIOUS
  <2>4. entries' \in [Table -> Seq(Seq(EntryType))]
    BY <1>1 DEF Inv, EntriesMade
  <2>5. QED BY <2>1, <2>2, <2>3, <2>4 DEF EntriesMade
<1>7. Stage'
  BY <1>1, <1>2, <1>4 DEF Inv, Stage
<1>8. Tables' /\ Placed' /\ EncodedSoFar'
  BY <1>1, <1>4 DEF Tables, Placed, EncodedSoFar
<1>9. QED BY <1>3, <1>5, <1>6, <1>7, <1>8 DEF Inv
-----------------------------------------------------------------------------
(* The entries that were made and the tables from them.                    *)

LEMMA EntriesKept ==
  ASSUME SizesAssumption, Listed, Listed', UNCHANGED <<rootDir, lba, entries>>, EntriesMade,
         \A t \in Table : Done(t)' = Done(t)
  PROVE  EntriesMade'
<1>1. entries' \in [Table -> Seq(Seq(EntryType))] /\ N' = N
  BY DEF EntriesMade, N
<1>2. ASSUME NEW t \in Table, NEW k \in 1..N
      PROVE  IF k <= Done(t)' THEN Made(k, t)' ELSE entries'[t][k] = <<>>
  <2>1. IF k <= Done(t) THEN Made(k, t) ELSE entries[t][k] = <<>>
    BY DEF EntriesMade
  <2>2. Made(k, t)' <=> MadeBy(entries[t][k], entries[t][Up(k)], k, t)
    BY MadeSame
  <2>3. QED BY <2>1, <2>2 DEF Made
<1>3. QED BY <1>1, <1>2 DEF EntriesMade

LEMMA DirectorySizesAre ==
  ASSUME SizesAssumption, Listed, EntriesMade, NEW t \in Table, NEW m \in 0..N, \A k \in 1..m :
           Made(k, t)
  PROVE  /\ DirectorySizes(t) \in Seq(Seq(Nat)) /\ Len(DirectorySizes(t)) = N
         /\ \A k \in 1..m : DirectorySizes(t)[k] = AllSizes(t)[k]
         /\ \A k \in 0..m : DirsSize(k, t) = DirectoryEnds(AllSizes(t))[k]
<1>1. N \in Nat /\ AllSizes(t) \in Seq(Seq(Nat)) /\ Len(AllSizes(t)) = N
      /\ \A k \in 1..N : AllSizes(t)[k] = Sizes(Listing(k, t), t)
  BY Lengths
<1>2. entries[t] \in Seq(Seq(EntryType)) /\ Len(entries[t]) = N
  BY DEF EntriesMade
<1>3. DOMAIN entries[t] = 1..N /\ \A k \in 1..N : entries[t][k] \in Seq(EntryType)
  BY <1>2
<1>4. \A k \in 1..N : Sizes(entries[t][k], t) \in Seq(Nat)
  BY <1>3, SizesType
<1>5. DirectorySizes(t) \in Seq(Seq(Nat)) /\ Len(DirectorySizes(t)) = N
      /\ \A k \in 1..N : DirectorySizes(t)[k] = Sizes(entries[t][k], t)
  BY <1>1, <1>3, <1>4 DEF DirectorySizes
<1>6. ASSUME NEW k \in 1..m PROVE DirectorySizes(t)[k] = AllSizes(t)[k]
  <2>. DEFINE es == entries[t][k]
              ls == Listing(k, t)
  <2>1. k \in 1..N
    BY <1>1
  <2>2. ls \in Seq(EntryType) /\ es \in Seq(EntryType)
    BY <1>3, <2>1 DEF Listed, ListingsAre
  <2>3. Len(ls) = Len(es) /\ \A e \in 1..Len(ls) : es[e].id = ls[e].id
    BY Zenon DEF Made, MadeBy
  <2>. HIDE DEF es, ls
  <2>4. Sizes(es, t) = Sizes(ls, t)
    BY <2>2, <2>3, SizesType
  <2>5. QED BY <1>1, <1>5, <2>1, <2>4 DEF es, ls
<1>7. \A k \in 0..m : DirectoryEnds(DirectorySizes(t))[k] = DirectoryEnds(AllSizes(t))[k]
  <2>1. m \in 0..Len(DirectorySizes(t)) /\ m <= Len(AllSizes(t))
    BY <1>1, <1>5
  <2>2. QED BY <1>1, <1>5, <1>6, <2>1, DirectoryEndsOfPrefix
<1>8. QED BY <1>5, <1>6, <1>7 DEF DirsSize

\* The table of t, whose entries are typed.
PathTableTyped(t) ==
  /\ DOMAIN pathTable[t] = 1..Smaller(N, ItemsLimit) /\ Smaller(N, ItemsLimit) \in 0..N
  /\ \A k \in DOMAIN pathTable[t] : pathTable[t][k].id \in IdType
  /\ [k \in DOMAIN pathTable[t] |-> PathEntrySize(pathTable[t][k], t)] \in Seq(Nat)
  /\ PathTableSize(t) \in Nat /\ PathTableSectors(t) \in Nat

LEMMA PathTableType ==
  ASSUME SizesAssumption, Listed, NEW t \in Table, pathTable = [s \in Table |-> PathTableOf(s)]
  PROVE  PathTableTyped(t)
<1>. DEFINE m == Smaller(N, ItemsLimit)
            pt == PathTableOf(t)
            sizes == [k \in 1..m |-> PathEntrySize(pt[k], t)]
<1>1. N \in Nat /\ m \in 0..N
  BY SizesAssumption DEF Listed, RootType, N, Smaller, SizesAssumption
<1>2. pathTable[t] = pt
  OBVIOUS
<1>3. DOMAIN pt = 1..m /\ \A k \in 1..m : pt[k].id = IF k = 1 THEN Dot
        ELSE Ident(Last(rootDir[k].path), FALSE, t)
  BY DEF PathTableOf, N
<1>4. \A k \in 1..m : pt[k].id \in IdType
  <2>. SUFFICES ASSUME NEW k \in 1..m PROVE pt[k].id \in IdType
    OBVIOUS
  <2>1. CASE k = 1
    BY <1>3, <2>1 DEF IdType
  <2>2. CASE k # 1
    <3>1. k \in 1..N /\ k > 1
      BY <1>1, <2>2
    <3>2. Last(rootDir[k].path) \in Names
      BY <3>1 DEF Listed, ParentsAre
    <3>3. Ident(Last(rootDir[k].path), FALSE, t) \in IdType
      BY <3>2, IdentType
    <3>4. QED BY <1>3, <2>2, <3>3
  <2>3. QED BY <2>1, <2>2
<1>. HIDE DEF pt, m
<1>5. \A k \in 1..m : PathEntrySize(pt[k], t) \in Nat
  BY <1>4, EntrySizeType
<1>6. sizes \in Seq(Nat)
  BY <1>1, <1>5
<1>7. sizes = [k \in DOMAIN pathTable[t] |-> PathEntrySize(pathTable[t][k], t)]
  BY <1>2, <1>3
<1>. HIDE DEF sizes
<1>8. PathTableSize(t) \in Nat
  BY <1>6, <1>7, SumsType DEF PathTableSize
<1>9. PathTableSectors(t) \in Nat
  BY <1>8, SectorsOf DEF PathTableSectors
<1>10. QED BY <1>1, <1>2, <1>3, <1>4, <1>6, <1>7, <1>8, <1>9 DEF PathTableTyped, m

LEMMA PathTableSame ==
  ASSUME SizesAssumption, Listed, Listed', rootDir' = rootDir, entries' = entries
  PROVE  \A t \in Table : PathTableOf(t)' = PathTableOf(t)
<1>1. 0 \in Nat /\ Shifted(0)
  BY SameTree DEF Listed
<1>2. \A k \in 1..N : ParentIdx(k)' = ParentIdx(k)
  BY <1>1, FamilyStays
<1>3. N \in Nat /\ Smaller(N, ItemsLimit) \in 0..N
  BY SizesAssumption DEF Listed, RootType, N, Smaller, SizesAssumption
<1>4. \A k \in 1..Smaller(N, ItemsLimit) : ParentIdx(k)' = ParentIdx(k)
  BY <1>2, <1>3
<1>5. QED BY <1>4 DEF PathTableOf, N

LEMMA LateKept ==
  ASSUME SizesAssumption, Listed, Listed',
         UNCHANGED <<rootDir, entries, pathTable, scanned, placed>>, Late, Late', Tables, Placed
  PROVE  Tables' /\ Placed'
<1>1. UNCHANGED <<lba, padAreaStart, totalSize, descriptors, filesSizeSectors>>
  BY DEF scanned, placed
<1>2. Tables'
  BY PathTableSame DEF Tables
<1>3. \A t : PathTableSize(t)' = PathTableSize(t) /\ PathTableSectors(t)' = PathTableSectors(t)
  BY DEF PathTableSize, PathTableSectors
<1>4. \A t, v : Descriptor(t, v)' = Descriptor(t, v)
  BY <1>3 DEF Descriptor
<1>5. N' = N /\ \A k, t : DirsSize(k, t)' = DirsSize(k, t)
  BY DEF DirsSize, DirectorySizes, N
<1>6. Placed'
  BY <1>1, <1>3, <1>4, <1>5 DEF Placed
<1>7. QED BY <1>2, <1>6

LEMMA ListedNow ==
  ASSUME SizesAssumption
  PROVE  ScanInv => Listed
BY ListedOf DEF ScanInv

LEMMA Stutters ==
  ASSUME SizesAssumption, Inv, UNCHANGED vars
  PROVE  Inv'
<1>1. UNCHANGED <<tree, pc, queue, rootDir, entries, filesSizeSectors, current, pathTable,
                  lba, padAreaStart, totalSize, descriptors, written, fsSize>>
  BY DEF vars, input, scanned, placed, encoded
<1>2. UNCHANGED <<tree, scanned, rootDir, lba>>
      /\ UNCHANGED <<rootDir, entries, pathTable, scanned, placed>>
  BY <1>1 DEF scanned, placed
<1>3. ScanInv'
  BY <1>2, ScanKept DEF Inv
<1>4. Listed /\ Listed'
  <2>1. Listed
    BY ListedNow DEF Inv
  <2>2. ScanInv' => Listed'
    BY ListedNow, PTL
  <2>3. QED BY <1>3, <2>1, <2>2
<1>5. Scanning' = Scanning /\ Late' = Late /\ N' = N
  BY <1>1 DEF Scanning, Late, N
<1>6. Counted'
  BY <1>1, <1>5 DEF Counted, Inv
<1>7. EntriesMade'
  <2>1. \A t \in Table : Done(t)' = Done(t)
    BY <1>1, <1>5 DEF Done
  <2>2. QED BY <1>1, <1>4, <2>1, EntriesKept DEF Inv
<1>8. Stage'
  BY <1>1, <1>5 DEF Inv, Stage
<1>9. \A t \in Table : PathTableOf(t)' = PathTableOf(t)
  BY <1>1, <1>4, PathTableSame
<1>10. Tables'
  BY <1>1, <1>5, <1>9 DEF Inv, Tables
<1>11. Placed'
  <2>1. CASE Late
    BY <1>2, <1>4, <1>5, <2>1, LateKept DEF Inv
  <2>2. CASE ~Late
    BY <1>5, <2>2 DEF Placed
  <2>3. QED BY <2>1, <2>2
<1>12. EncodedSoFar'
  <2>1. \A t \in Table, k \in 1..N : Behind(k, t)' = Behind(k, t)
    BY <1>1, <1>4, ListingSame
  <2>2. TablesWritten' = TablesWritten
    BY <1>1 DEF TablesWritten
  <2>3. QED BY <1>1, <1>5, <2>1, <2>2 DEF Inv, EncodedSoFar
<1>13. QED BY <1>3, <1>6, <1>7, <1>8, <1>10, <1>11, <1>12 DEF Inv

\* What the steps after the entries are made leave alone.
LEMMA AfterEntries ==
  ASSUME SizesAssumption, Inv, UNCHANGED <<tree, scanned, rootDir, entries, current, lba>>,
         pc \notin {"iso", "joliet"}, ~Scanning, pc' \notin {"iso", "joliet"}, ~Scanning',
         pc' = "place" \/ Late'
  PROVE  /\ ScanInv' /\ Listed /\ Listed' /\ EntriesMade' /\ N' = N /\ N \in Nat
         /\ \A t \in Table, k \in 1..N : Made(k, t) /\ Behind(k, t)' = Behind(k, t) /\ lba[t] \in Nat
         /\ Late /\ Late' => Stage'
<1>1. ScanInv' /\ UNCHANGED <<rootDir, entries, lba, queue>>
  BY ScanKept DEF Inv, scanned
<1>2. Listed /\ Listed'
  <2>1. Listed
    BY ListedNow DEF Inv
  <2>2. ScanInv' => Listed'
    BY ListedNow, PTL
  <2>3. QED BY <1>1, <2>1, <2>2
<1>3. N' = N /\ N \in Nat
  BY <1>1, <1>2 DEF N, Listed, RootType
<1>4. \A t \in Table : Done(t) = N /\ Done(t)' = N
  BY <1>3 DEF Done
<1>5. EntriesMade'
  BY <1>1, <1>2, <1>4, EntriesKept DEF Inv
<1>6. \A t \in Table, k \in 1..N : Made(k, t)
  <2>1. \A k \in 1..N : k <= N
    BY <1>3
  <2>2. QED BY <1>4, <2>1 DEF Inv, EntriesMade
<1>7. \A t \in Table, k \in 1..N : Behind(k, t)' = Behind(k, t)
  BY <1>1, <1>2, ListingSame
<1>8. \A t \in Table : lba[t] \in Nat
  BY DEF Inv, ScanInv, RootType, Table
<1>9. Late /\ Late' => Stage'
  BY <1>1, <1>3 DEF Inv, Stage, Late, Scanning
<1>10. QED BY <1>1, <1>2, <1>3, <1>5, <1>6, <1>7, <1>8, <1>9

LEMMA MakePathTablesKeeps ==
  ASSUME SizesAssumption, Inv, MakePathTables
  PROVE  Inv'
<1>1. /\ pc = "tables" /\ pc' = "place"
         /\ UNCHANGED <<rootDir, entries, lba, queue, padAreaStart, totalSize, fsSize, current>>
      /\ UNCHANGED <<tree, scanned, rootDir, entries, current, lba>>
         /\ pathTable' = [t \in Table |-> PathTableOf(t)]
  BY DEF MakePathTables, input, scanned, placed, encoded
<1>2. ~Scanning /\ ~Scanning' /\ ~Late /\ ~Late'
  BY <1>1 DEF Scanning, Late
<1>3. ScanInv' /\ Listed /\ Listed' /\ EntriesMade' /\ N' = N
  BY <1>1, <1>2, AfterEntries
<1>4. Counted'
  BY <1>1 DEF Inv, Counted
<1>5. Stage'
  BY <1>1, <1>2, <1>3 DEF Inv, Stage
<1>6. Tables'
  BY <1>1, <1>3, PathTableSame DEF Tables
<1>7. Placed' /\ EncodedSoFar'
  BY <1>1, <1>2 DEF Placed, EncodedSoFar
<1>8. QED BY <1>3, <1>4, <1>5, <1>6, <1>7 DEF Inv

LEMMA WriteHeadKeeps ==
  ASSUME SizesAssumption, Inv, WriteHead
  PROVE  Inv'
<1>1. /\ pc = "head" /\ pc' \in {"outOfRange", "tooLarge", "pathTables"}
      /\ UNCHANGED <<tree, scanned, rootDir, entries, current, pathTable, placed, written>>
      /\ pc' # "pathTables" => fsSize' = fsSize
      /\ pc' = "pathTables" => fsSize'
           = (IF ps3Mode THEN Bytes(2) + Bytes(16 - 2) ELSE Bytes(16)) + Bytes(3) + Bytes(1)
  BY DEF WriteHead, input
<1>2. UNCHANGED <<tree, scanned, rootDir, entries, current, lba>>
      /\ UNCHANGED <<padAreaStart, totalSize>>
  BY <1>1 DEF placed
<1>3. ~Scanning /\ ~Scanning' /\ Late /\ Late' /\ pc' \notin {"iso", "joliet", "dirs", "built"}
  BY <1>1 DEF Scanning, Late
<1>4. ScanInv' /\ Listed /\ Listed' /\ EntriesMade' /\ N' = N /\ Stage'
  BY <1>1, <1>2, <1>3, AfterEntries
<1>5. pc' = "pathTables" => fsSize' = Bytes(TablesLBA)
  BY <1>1, SizesAssumption DEF Bytes, TablesLBA, SizesAssumption
<1>6. Bytes(TablesLBA) \in Nat
  BY SizesAssumption DEF Bytes, TablesLBA, SizesAssumption
<1>7. Counted'
  BY <1>1, <1>2, <1>3, <1>5, <1>6 DEF Inv, Counted
<1>8. Tables' /\ Placed'
  BY <1>1, <1>3, <1>4, LateKept DEF Inv
<1>9. EncodedSoFar'
  BY <1>3, <1>5 DEF EncodedSoFar
<1>10. QED BY <1>4, <1>7, <1>8, <1>9 DEF Inv

\* Where an area that begins with a sector ends.
LEMMA AreaEnds ==
  ASSUME SizesAssumption, NEW s \in Nat, NEW b \in Nat
  PROVE  AlignToSectors(Bytes(s) + b) = Bytes(s + Sectors(b)) /\ s + Sectors(b) \in Nat
<1>1. Sectors(b) \in Nat /\ AlignToSectors(b) = Bytes(Sectors(b))
  BY SectorsOf
<1>2. Bytes(s + Sectors(b)) = Bytes(s) + Bytes(Sectors(b))
  BY <1>1, BytesOf
<1>3. AlignToSectors(Bytes(s) + b) = Bytes(s) + AlignToSectors(b)
  BY BehindSectors
<1>4. QED BY <1>1, <1>2, <1>3

LEMMA WritePathTablesKeeps ==
  ASSUME SizesAssumption, Inv, WritePathTables
  PROVE  Inv'
<1>. DEFINE fits == \A t \in Table : \A k \in DOMAIN pathTable[t] :
                      EncodedPathEntry(pathTable[t][k], t) = PathEntrySize(pathTable[t][k], t)
            encodedSum(t) == Sum([k \in DOMAIN pathTable[t] |-> EncodedPathEntry(pathTable[t][k], t)])
            end(from, t) == AlignToSectors(from + encodedSum(t))
            isoM == end(fsSize, "iso")
            jolietL == end(isoM, "iso")
            jolietM == end(jolietL, "joliet")
            L == TablesLBA
            a == PathTableSectors("iso")
            b == PathTableSectors("joliet")
<1>1. /\ pc = "pathTables" /\ pc' \in {"dirs", "mismatch"}
      /\ UNCHANGED <<tree, scanned, rootDir, entries, current, pathTable, placed>>
      /\ pc' = "mismatch" => fsSize' = fsSize
      /\ pc' = "dirs" =>
           /\ fits /\ fsSize' = end(jolietM, "joliet")
           /\ written' = [iso |-> [typeL |-> FloorSectors(fsSize), typeM |-> FloorSectors(isoM),
              dirs |-> <<>>],
                          joliet |-> [typeL |-> FloorSectors(jolietL),
                          typeM |-> FloorSectors(jolietM), dirs |-> <<>>]]
  BY DEF WritePathTables, input, encoded
<1>2. /\ UNCHANGED <<tree, scanned, rootDir, entries, current, lba>>
      /\ UNCHANGED <<padAreaStart, totalSize, lba, descriptors>>
  BY <1>1 DEF placed
<1>3. ~Scanning /\ ~Scanning' /\ Late /\ Late' /\ pc' \notin {"iso", "joliet", "pathTables", "built"}
  BY <1>1 DEF Scanning, Late
<1>4. ScanInv' /\ Listed /\ Listed' /\ EntriesMade' /\ N' = N /\ Stage'
  BY <1>1, <1>2, <1>3, AfterEntries
<1>5. Tables' /\ Placed'
  BY <1>1, <1>3, <1>4, LateKept DEF Inv
<1>6. PathTableTyped("iso") /\ PathTableTyped("joliet")
  <2>1. pathTable = [t \in Table |-> PathTableOf(t)]
    BY <1>3 DEF Inv, Tables
  <2>2. "iso" \in Table /\ "joliet" \in Table
    BY DEF Table
  <2>3. QED BY <1>4, <2>1, <2>2, PathTableType, Zenon
<1>7. a \in Nat /\ b \in Nat /\ PathTableSize("iso") \in Nat /\ PathTableSize("joliet") \in Nat
      /\ L \in Nat
  BY <1>6 DEF PathTableTyped, TablesLBA
<1>8. fsSize = Bytes(L)
  BY <1>1 DEF Inv, EncodedSoFar
<1>9. ASSUME pc' = "dirs"
      PROVE  /\ fsSize' = Bytes(lba.iso)
             /\ written' = [t \in Table |-> [typeL |-> descriptors[t].typeL,
                typeM |-> descriptors[t].typeM, dirs |-> <<>>]]
  <2>1. fits
    BY <1>1, <1>9
  <2>2. encodedSum("iso") = PathTableSize("iso") /\ encodedSum("joliet") = PathTableSize("joliet")
    <3>1. \A t \in Table : [k \in DOMAIN pathTable[t] |-> EncodedPathEntry(pathTable[t][k], t)]
                             = [k \in DOMAIN pathTable[t] |-> PathEntrySize(pathTable[t][k], t)]
      BY <2>1
    <3>2. QED BY <3>1 DEF PathTableSize, Table
  <2>. HIDE DEF fits, encodedSum
  <2>3. isoM = Bytes(L + a) /\ L + a \in Nat
    BY <1>7, <1>8, <2>2, AreaEnds DEF PathTableSectors
  <2>. HIDE DEF isoM
  <2>4. jolietL = Bytes(L + a + a) /\ L + a + a \in Nat
    BY <1>7, <2>2, <2>3, AreaEnds DEF PathTableSectors
  <2>. HIDE DEF jolietL
  <2>5. jolietM = Bytes(L + a + a + b) /\ L + a + a + b \in Nat
    BY <1>7, <2>2, <2>4, AreaEnds DEF PathTableSectors
  <2>. HIDE DEF jolietM
  <2>6. end(jolietM, "joliet") = Bytes(L + a + a + b + b) /\ L + a + a + b + b \in Nat
    BY <1>7, <2>2, <2>5, AreaEnds DEF PathTableSectors
  <2>7. lba.iso = L + a + a + b + b
    <3>1. lba.iso = L + 2 * a + 2 * b
      BY <1>3 DEF Inv, Placed
    <3>2. QED BY <1>7, <3>1
  <2>8. fsSize' = Bytes(lba.iso)
    BY <1>1, <1>9, <2>6, <2>7
  <2>9. /\ FloorSectors(fsSize) = L /\ FloorSectors(isoM) = L + a
        /\ FloorSectors(jolietL) = L + a + a /\ FloorSectors(jolietM) = L + a + a + b
    BY <1>7, <1>8, <2>3, <2>4, <2>5, BytesOf
  <2>10. \E v : descriptors = [t \in Table |-> Descriptor(t, v)]
    BY <1>3 DEF Inv, Placed
  <2>11. PICK v : descriptors = [t \in Table |-> Descriptor(t, v)]
    BY <2>10
  <2>12. /\ descriptors["iso"].typeL = L /\ descriptors["iso"].typeM = L + a
         /\ descriptors["joliet"].typeL = L + a + a /\ descriptors["joliet"].typeM = L + a + a + b
    BY <1>7, <2>11 DEF Descriptor, Table
  <2>13. written' = [t \in Table |-> [typeL |-> descriptors[t].typeL,
         typeM |-> descriptors[t].typeM, dirs |-> <<>>]]
    <3>1. written' = [iso |-> [typeL |-> descriptors["iso"].typeL,
          typeM |-> descriptors["iso"].typeM, dirs |-> <<>>],
                      joliet |-> [typeL |-> descriptors["joliet"].typeL,
                      typeM |-> descriptors["joliet"].typeM, dirs |-> <<>>]]
      BY <1>1, <1>9, <2>9, <2>12
    <3>2. QED BY <3>1 DEF Table
  <2>14. QED BY <2>8, <2>13
<1>10. Counted'
  <2>1. \A s \in Nat : Bytes(s) \in Nat
    BY BytesOf
  <2>2. lba.iso \in Nat
    BY DEF Inv, ScanInv, RootType
  <2>3. fsSize' \in Nat
    BY <1>1, <1>7, <1>8, <1>9, <2>1, <2>2
  <2>4. QED BY <1>2, <1>3, <2>3 DEF Inv, Counted
<1>11. EncodedSoFar'
  BY <1>2, <1>3, <1>9 DEF EncodedSoFar
<1>12. QED BY <1>4, <1>5, <1>10, <1>11 DEF Inv

LEMMA WriteDirectoriesKeeps ==
  ASSUME SizesAssumption, Inv, WriteDirectories
  PROVE  Inv'
<1>. DEFINE begins(from, t) == [k \in DOMAIN rootDir |-> FloorSectors(EncodedDirs(from, t)[k - 1])]
            end(from, t) == EncodedDirs(from, t)[N]
            jolietStart == end(fsSize, "iso")
<1>1. /\ pc = "dirs" /\ pc' = "built"
      /\ UNCHANGED <<tree, scanned, rootDir, entries, current, pathTable, placed>>
      /\ written' = [written EXCEPT !.iso.dirs = begins(fsSize, "iso"),
         !.joliet.dirs = begins(jolietStart, "joliet")]
      /\ fsSize' = end(jolietStart, "joliet")
  BY DEF WriteDirectories, input, N
<1>2. /\ UNCHANGED <<tree, scanned, rootDir, entries, current, lba>>
      /\ UNCHANGED <<padAreaStart, totalSize, lba, descriptors>>
  BY <1>1 DEF placed
<1>3. ~Scanning /\ ~Scanning' /\ Late /\ Late' /\ pc' \notin {"iso", "joliet", "pathTables", "dirs"}
      /\ pc \notin {"iso", "joliet"}
  BY <1>1 DEF Scanning, Late
<1>4. /\ ScanInv' /\ Listed /\ Listed' /\ EntriesMade' /\ N' = N /\ N \in Nat /\ Stage'
      /\ \A t \in Table, k \in 1..N : Made(k, t) /\ Behind(k, t)' = Behind(k, t) /\ lba[t] \in Nat
  BY <1>1, <1>2, <1>3, AfterEntries
<1>5. Tables' /\ Placed'
  BY <1>1, <1>3, <1>4, LateKept DEF Inv
<1>6. DOMAIN rootDir = 1..N /\ "iso" \in Table /\ "joliet" \in Table /\ lba.iso \in Nat
      /\ lba.joliet \in Nat /\ lba.files \in Nat
  BY <1>4 DEF Listed, RootType, N, Table
<1>7. ASSUME NEW t \in Table, NEW s \in Nat
      PROVE  /\ \A k \in 1..N : FloorSectors(EncodedDirs(Bytes(s), t)[k - 1]) = s + Behind(k, t)
             /\ EncodedDirs(Bytes(s), t)[N] = Bytes(s + Sectors(DirsSize(N, t)))
                /\ s + Sectors(DirsSize(N, t)) \in Nat
  <2>1. /\ DirectorySizes(t) \in Seq(Seq(Nat)) /\ Len(DirectorySizes(t)) = N
        /\ \A k \in 0..N : DirectoryEnds(DirectorySizes(t))[k] = DirectoryEnds(AllSizes(t))[k]
    <3>1. N \in 0..N
      BY <1>4
    <3>2. QED BY <1>4, <3>1, DirectorySizesAre DEF Inv, DirsSize
  <2>2. \A k \in 0..N : EncodedDirs(Bytes(s), t)[k] = Bytes(s) + DirectoryEnds(AllSizes(t))[k]
    BY <2>1, EncodedDirsAre
  <2>3. \A k \in 0..N : \E d \in Nat : DirectoryEnds(AllSizes(t))[k] = Bytes(d)
    BY <1>4, Lengths
  <2>4. ASSUME NEW k \in 0..N
        PROVE  /\ EncodedDirs(Bytes(s), t)[k] = Bytes(s + Sectors(DirectoryEnds(AllSizes(t))[k]))
               /\ s + Sectors(DirectoryEnds(AllSizes(t))[k]) \in Nat
    <3>1. PICK d \in Nat : DirectoryEnds(AllSizes(t))[k] = Bytes(d)
      BY <2>3
    <3>2. Sectors(DirectoryEnds(AllSizes(t))[k]) = d
      BY <3>1, BytesOf
    <3>3. EncodedDirs(Bytes(s), t)[k] = Bytes(s) + Bytes(d)
      BY <2>2, <3>1
    <3>4. Bytes(s + d) = Bytes(s) + Bytes(d)
      BY BytesOf
    <3>5. QED BY <3>2, <3>3, <3>4
  <2>5. ASSUME NEW k \in 1..N PROVE FloorSectors(EncodedDirs(Bytes(s), t)[k - 1]) = s + Behind(k, t)
    <3>1. k - 1 \in 0..N
      BY <1>4
    <3>2. QED BY <2>4, <3>1, BytesOf DEF Behind
  <2>6. N \in 0..N /\ DirsSize(N, t) = DirectoryEnds(AllSizes(t))[N]
    BY <1>4, <2>1 DEF DirsSize
  <2>7. QED BY <2>4, <2>5, <2>6
<1>8. fsSize = Bytes(lba.iso)
  BY <1>1 DEF Inv, EncodedSoFar
<1>9. jolietStart = Bytes(lba.joliet)
  <2>1. lba.joliet = lba.iso + Sectors(DirsSize(N, "iso"))
    BY <1>3 DEF Inv, Placed
  <2>2. QED BY <1>6, <1>7, <1>8, <2>1
<1>10. fsSize' = Bytes(lba.files)
  <2>1. lba.files = lba.joliet + Sectors(DirsSize(N, "joliet"))
    BY <1>3 DEF Inv, Placed
  <2>. HIDE DEF jolietStart
  <2>2. QED BY <1>1, <1>6, <1>7, <1>9, <2>1
<1>11. /\ begins(fsSize, "iso") = [k \in 1..N |-> lba["iso"] + Behind(k, "iso")]
       /\ begins(jolietStart, "joliet") = [k \in 1..N |-> lba["joliet"] + Behind(k, "joliet")]
  <2>. HIDE DEF jolietStart
  <2>1. QED BY <1>6, <1>7, <1>8, <1>9
<1>. HIDE DEF begins, end, jolietStart
<1>12. \A t \in Table : written'[t] = [typeL |-> descriptors[t].typeL, typeM |-> descriptors[t].typeM,
                                       dirs |-> [k \in 1..N |-> lba[t] + Behind(k, t)]]
  <2>1. written = [t \in Table |-> [typeL |-> descriptors[t].typeL, typeM |-> descriptors[t].typeM,
        dirs |-> <<>>]]
    BY <1>1 DEF Inv, EncodedSoFar
  <2>2. /\ written'["iso"] = [typeL |-> descriptors["iso"].typeL,
           typeM |-> descriptors["iso"].typeM, dirs |-> begins(fsSize, "iso")]
        /\ written'["joliet"] = [typeL |-> descriptors["joliet"].typeL,
           typeM |-> descriptors["joliet"].typeM,
                                 dirs |-> begins(jolietStart, "joliet")]
    BY <1>1, <2>1 DEF Table
  <2>3. QED BY <1>11, <2>2 DEF Table
<1>13. Counted'
  <2>1. fsSize' \in Nat
    BY <1>6, <1>10, BytesOf
  <2>2. QED BY <1>2, <1>3, <2>1 DEF Inv, Counted
<1>14. EncodedSoFar'
  <2>1. TablesWritten'
    <3>1. ASSUME NEW t \in Table PROVE written'[t].typeL = descriptors[t].typeL
                 /\ written'[t].typeM = descriptors[t].typeM
      <4>. DEFINE dirs == [k \in 1..N |-> lba[t] + Behind(k, t)]
      <4>1. written'[t] = [typeL |-> descriptors[t].typeL, typeM |-> descriptors[t].typeM,
            dirs |-> dirs]
        BY <1>12
      <4>. HIDE DEF dirs
      <4>2. QED BY <4>1
    <3>2. QED BY <1>2, <3>1 DEF TablesWritten
  <2>2. ASSUME NEW t \in Table PROVE written'[t].dirs = [k \in 1..N' |-> lba'[t] + Behind(k, t)']
    <3>1. [k \in 1..N' |-> lba'[t] + Behind(k, t)'] = [k \in 1..N |-> lba[t] + Behind(k, t)]
      <4>1. \A k \in 1..N : lba'[t] + Behind(k, t)' = lba[t] + Behind(k, t)
        BY <1>2, <1>4
      <4>2. QED BY <1>4, <4>1, Zenon
    <3>. DEFINE dirs == [k \in 1..N |-> lba[t] + Behind(k, t)]
    <3>2. written'[t] = [typeL |-> descriptors[t].typeL, typeM |-> descriptors[t].typeM, dirs |-> dirs]
      BY <1>12
    <3>3. written'[t].dirs = dirs
      <4>. HIDE DEF dirs
      <4>1. QED BY <3>2
    <3>4. QED BY <3>1, <3>3
  <2>3. fsSize' = Bytes(lba'.files)
    BY <1>2, <1>10
  <2>4. QED BY <1>1, <2>1, <2>2, <2>3 DEF EncodedSoFar
<1>15. QED BY <1>4, <1>5, <1>13, <1>14 DEF Inv
-----------------------------------------------------------------------------
(* Place moves everything to where it will be.                             *)

LEMMA FileMovedType ==
  ASSUME NEW f \in FileType, NEW d \in Nat
  PROVE  /\ FileMoved(f, d) \in FileType /\ FileMoved(f, d).size = f.size
            /\ FileMoved(f, d).name = f.name
         /\ FileMoved(f, d).rLBA = f.rLBA + d /\ f.rLBA \in Nat /\ f.size \in Nat
BY DEF FileMoved, FileType

LEMMA FilesShift ==
  ASSUME NEW ss \in Seq(Seq(FileType)), NEW rr \in Seq(Seq(FileType)), Len(rr) = Len(ss), NEW d \in Nat,
         \A k \in 1..Len(ss) : /\ Len(rr[k]) = Len(ss[k])
                               /\ \A j \in 1..Len(ss[k]) : rr[k][j] = FileMoved(ss[k][j], d)
  PROVE  /\ Len(FlattenSeq(rr)) = Len(FlattenSeq(ss))
         /\ \A e \in 1..Len(FlattenSeq(ss)) : FlattenSeq(rr)[e] = FileMoved(FlattenSeq(ss)[e], d)
<1>1. Lens(rr) = Lens(ss)
  BY DEF Lens
<1>2. Len(FlattenSeq(rr)) = Len(FlattenSeq(ss))
  BY <1>1, FlattenParts
<1>3. \A k \in 1..Len(ss) : \A j \in 1..Len(ss[k]) :
        FlattenSeq(ss)[Sums(Lens(ss))[k - 1] + j] = ss[k][j]
  BY FlattenAt
<1>4. \A k \in 1..Len(rr) : \A j \in 1..Len(rr[k]) :
        FlattenSeq(rr)[Sums(Lens(rr))[k - 1] + j] = rr[k][j]
  BY FlattenAt
<1>5. ASSUME NEW e \in 1..Len(FlattenSeq(ss)) PROVE FlattenSeq(rr)[e] = FileMoved(FlattenSeq(ss)[e], d)
  <2>1. PICK k \in 1..Len(ss) : \E j \in 1..Len(ss[k]) : e = Sums(Lens(ss))[k - 1] + j
    BY FlattenParts
  <2>2. PICK j \in 1..Len(ss[k]) : e = Sums(Lens(ss))[k - 1] + j
    BY <2>1
  <2>3. FlattenSeq(ss)[e] = ss[k][j]
    BY <1>3, <2>2
  <2>4. k \in 1..Len(rr) /\ j \in 1..Len(rr[k]) /\ e = Sums(Lens(rr))[k - 1] + j
    BY <1>1, <2>2
  <2>5. FlattenSeq(rr)[e] = rr[k][j]
    BY <1>4, <2>4
  <2>6. QED BY <2>3, <2>5
<1>6. QED BY <1>2, <1>5

LEMMA PlacesType ==
  ASSUME SizesAssumption, Inv, Place
  PROVE  /\ lba' \in [iso : Nat, joliet : Nat, files : Nat] /\ lba'.files + filesSizeSectors \in Nat
         /\ lba = [iso |-> 0, joliet |-> 0, files |-> 0]
         /\ \A t \in Table : PathTableTyped(t) /\ lba'[t] \in Nat /\ \A k \in 1..N : Made(k, t)
         /\ Listed /\ N \in Nat
<1>1. pc = "place" /\ ~Scanning
  BY DEF Place, Scanning
<1>2. Listed /\ N \in Nat /\ RootType
  BY ListedNow DEF Inv, Listed, RootType, N
<1>3. \A t \in Table : PathTableTyped(t)
  <2>1. pathTable = [t \in Table |-> PathTableOf(t)]
    BY <1>1 DEF Inv, Tables
  <2>2. QED BY <1>2, <2>1, PathTableType
<1>4. \A t \in Table, k \in 1..N : Made(k, t)
  <2>1. \A t \in Table : Done(t) = N
    BY <1>1 DEF Done
  <2>2. \A k \in 1..N : k <= N
    BY <1>2
  <2>3. QED BY <2>1, <2>2 DEF Inv, EntriesMade
<1>5. \A t \in Table : Sectors(DirsSize(N, t)) \in Nat
  <2>. SUFFICES ASSUME NEW t \in Table PROVE Sectors(DirsSize(N, t)) \in Nat
    OBVIOUS
  <2>1. N \in 0..N
    BY <1>2
  <2>2. DirsSize(N, t) = DirectoryEnds(AllSizes(t))[N]
    BY <1>2, <1>4, <2>1, DirectorySizesAre DEF Inv
  <2>3. PICK s \in Nat : DirectoryEnds(AllSizes(t))[N] = Bytes(s)
    BY <1>2, <2>1, Lengths
  <2>4. QED BY <2>2, <2>3, BytesOf
<1>6. lba = [iso |-> 0, joliet |-> 0, files |-> 0]
  BY <1>1 DEF Inv, Stage
<1>7. filesSizeSectors \in Nat
  BY <1>2 DEF RootType
<1>. DEFINE a == PathTableSectors("iso")
            b == PathTableSectors("joliet")
            c == Sectors(DirsSize(N, "iso"))
            d == Sectors(DirsSize(N, "joliet"))
<1>8. a \in Nat /\ b \in Nat /\ c \in Nat /\ d \in Nat
  BY <1>3, <1>5 DEF PathTableTyped, Table
<1>9. lba' = [iso |-> TablesLBA + 2 * a + 2 * b, joliet |-> TablesLBA + 2 * a + 2 * b + c,
      files |-> TablesLBA + 2 * a + 2 * b + c + d]
  BY DEF Place, N
<1>. HIDE DEF a, b, c, d
<1>10. lba' \in [iso : Nat, joliet : Nat, files : Nat]
  BY <1>8, <1>9 DEF TablesLBA
<1>11. lba'.files + filesSizeSectors \in Nat /\ \A t \in Table : lba'[t] \in Nat
  BY <1>7, <1>10 DEF Table
<1>12. QED BY <1>2, <1>3, <1>4, <1>6, <1>10, <1>11

LEMMA PlaceTree ==
  ASSUME SizesAssumption, Inv, Place
  PROVE  RootType' /\ PathsKnown' /\ Listed' /\ N' = N /\ Shifted(lba'.files)
<1>. DEFINE d == lba'.files
            moved(k) == [i \in DOMAIN rootDir[k].files |-> FileMoved(rootDir[k].files[i], d)]
            X == [path : Seq(Names), files : Seq(FileType)]
<1>1. /\ rootDir' = [k \in DOMAIN rootDir |-> [path |-> rootDir[k].path, files |-> moved(k)]]
      /\ UNCHANGED <<tree, queue, filesSizeSectors>>
  <2>1. /\ lba'.files = TablesLBA + 2 * PathTableSectors("iso") + 2 * PathTableSectors("joliet")
                          + Sectors(DirsSize(Len(rootDir), "iso")) + Sectors(DirsSize(Len(rootDir),
                          "joliet"))
        /\ UNCHANGED <<tree, queue, filesSizeSectors>>
    BY DEF Place, input, scanned
  <2>2. QED BY <2>1 DEF Place
<1>2. rootDir \in Seq(X) /\ d \in Nat /\ lba' \in [iso : Nat, joliet : Nat, files : Nat] /\ RootType
      /\ PathsKnown
  BY PlacesType DEF Inv, ScanInv, RootType
<1>3. DOMAIN rootDir = 1..N /\ N \in Nat
  BY <1>2 DEF N
<1>4. \A k \in 1..N : rootDir[k] \in X
  <2>. HIDE DEF X
  <2>1. QED BY <1>2, <1>3
<1>. HIDE DEF d
<1>5. ASSUME NEW k \in 1..N
      PROVE  /\ rootDir'[k] \in X /\ rootDir'[k].path = rootDir[k].path
             /\ Len(rootDir'[k].files) = Len(rootDir[k].files)
             /\ \A i \in 1..Len(rootDir[k].files) :
                  rootDir'[k].files[i] = FileMoved(rootDir[k].files[i], d)
  <2>1. rootDir[k].files \in Seq(FileType) /\ rootDir[k].path \in Seq(Names)
        /\ rootDir[k] = [path |-> rootDir[k].path, files |-> rootDir[k].files]
    BY <1>4
  <2>2. \A i \in 1..Len(rootDir[k].files) : FileMoved(rootDir[k].files[i], d) \in FileType
    <3>1. \A f \in FileType : FileMoved(f, d) \in FileType
      BY <1>2, FileMovedType
    <3>2. QED BY <2>1, <3>1
  <2>3. /\ moved(k) \in Seq(FileType) /\ Len(moved(k)) = Len(rootDir[k].files)
        /\ \A i \in 1..Len(rootDir[k].files) : moved(k)[i] = FileMoved(rootDir[k].files[i], d)
    <3>1. DOMAIN rootDir[k].files = 1..Len(rootDir[k].files) /\ Len(rootDir[k].files) \in Nat
      BY <2>1
    <3>2. QED BY <2>2, <3>1
  <2>. HIDE DEF moved
  <2>4. rootDir'[k] = [path |-> rootDir[k].path, files |-> moved(k)]
    BY <1>1, <1>3, <2>1
  <2>5. QED BY <2>1, <2>3, <2>4
<1>6. rootDir' \in Seq(X) /\ N' = N
  <2>1. DOMAIN rootDir' = 1..N
    BY <1>1, <1>3
  <2>2. rootDir' = [k \in 1..N |-> rootDir'[k]]
    BY <1>1, <1>3
  <2>. HIDE DEF X
  <2>3. QED BY <1>3, <1>5, <2>2 DEF N
<1>7. RootType'
  BY <1>1, <1>2, <1>6 DEF RootType
<1>8. PathsKnown'
  <2>1. Known' = Known /\ \A i : i \in 1..N => rootDir'[i].path = rootDir[i].path
    BY <1>1, <1>5, <1>6 DEF Known
  <2>2. Known \in Nat /\ N <= Known
    BY <1>2, <1>3 DEF RootType, Known
  <2>3. \A i \in 1..Known : PathOf(i)' = PathOf(i)
    <3>. SUFFICES ASSUME NEW i \in 1..Known PROVE PathOf(i)' = PathOf(i)
      OBVIOUS
    <3>1. CASE i <= N
      <4>1. i \in 1..N
        BY <1>3, <2>2, <3>1
      <4>2. PathOf(i) = rootDir[i].path /\ PathOf(i)' = rootDir'[i].path
        BY <1>6, <3>1 DEF PathOf
      <4>3. QED BY <2>1, <4>1, <4>2
    <3>2. CASE ~(i <= N)
      BY <1>1, <1>6, <3>2 DEF PathOf
    <3>3. QED BY <3>1, <3>2
  <2>4. Known > 0 /\ PathOf(1)' = PathOf(1) /\ PathOf(1) = <<>>
    BY <1>2, <2>2, <2>3 DEF PathsKnown
  <2>5. \A i, j \in 1..Known : PathOf(i)' = PathOf(j)' => i = j
    BY <1>2, <2>3 DEF PathsKnown
  <2>6. ASSUME NEW i \in 2..Known
        PROVE  /\ tree[PathOf(i)'].dir
               /\ \E j \in 1..N : j < i /\ \E n \in Names : PathOf(i)' = Append(rootDir'[j].path, n)
    <3>1. i \in 1..Known
      BY <2>2
    <3>2. PathOf(i)' = PathOf(i)
      BY <2>3, <3>1
    <3>3. tree[PathOf(i)].dir /\ \E j \in 1..N : j < i
          /\ \E n \in Names : PathOf(i) = Append(rootDir[j].path, n)
      BY <1>2 DEF PathsKnown
    <3>4. QED BY <2>1, <3>2, <3>3
  <2>7. QED BY <1>1, <1>6, <2>1, <2>4, <2>5, <2>6 DEF PathsKnown
<1>9. Listed'
  <2>1. RootType' /\ PathsKnown' => Listed'
    BY ListedOf, PTL
  <2>2. QED BY <1>7, <1>8, <2>1
<1>10. Shifted(d)
  BY <1>5, <1>6 DEF Shifted, FileMoved
<1>11. QED BY <1>6, <1>7, <1>8, <1>9, <1>10 DEF d

LEMMA PlaceEntries ==
  ASSUME SizesAssumption, Inv, Place
  PROVE  /\ entries' \in [Table -> Seq(Seq(EntryType))]
         /\ \A t \in Table : /\ Len(entries'[t]) = N /\ DirectorySizes(t)' = DirectorySizes(t)
                             /\ \A k \in 1..N : /\ Made(k, t)'
                                /\ entries'[t][k][1].loc = entries[t][k][1].loc + lba'[t]
<1>1. /\ entries' = [t \in Table |-> [k \in DOMAIN entries[t] |-> [i \in DOMAIN entries[t][k] |->
                       Fixed(entries[t][k][i], lba'[t], lba'.files)]]]
  BY DEF Place
<1>2. /\ lba' \in [iso : Nat, joliet : Nat, files : Nat] /\ lba = [iso |-> 0, joliet |-> 0, files |-> 0]
      /\ \A t \in Table : lba'[t] \in Nat /\ \A k \in 1..N : Made(k, t)
      /\ Listed /\ N \in Nat /\ Listed' /\ Shifted(lba'.files) /\ N' = N
  BY PlacesType, PlaceTree
<1>3. PICK d \in Nat : d = lba'.files
  BY <1>2
<1>4. ASSUME NEW t \in Table, NEW x \in Nat, x = lba'[t]
      PROVE  /\ entries'[t] \in Seq(Seq(EntryType)) /\ Len(entries'[t]) = N
                /\ DirectorySizes(t)' = DirectorySizes(t)
             /\ \A k \in 1..N : /\ Made(k, t)' /\ entries'[t][k][1].loc = entries[t][k][1].loc + x
  <2>1. /\ entries[t] \in Seq(Seq(EntryType)) /\ Len(entries[t]) = N
        /\ lba[t] = 0 /\ 0 \in Nat
    BY <1>2 DEF Inv, EntriesMade, Table
  <2>2. DOMAIN entries[t] = 1..N /\ \A k \in 1..N : entries[t][k] \in Seq(EntryType)
    BY <2>1
  <2>3. entries'[t] = [k \in 1..N |-> [i \in DOMAIN entries[t][k] |-> Fixed(entries[t][k][i], x, d)]]
    BY <1>1, <1>3, <1>4, <2>2
  <2>4. ASSUME NEW k \in 1..N
        PROVE  /\ entries'[t][k] = [i \in DOMAIN entries[t][k] |-> Fixed(entries[t][k][i], x, d)]
               /\ entries'[t][k] \in Seq(EntryType) /\ Len(entries'[t][k]) = Len(entries[t][k])
               /\ Sizes(entries'[t][k], t) = Sizes(entries[t][k], t)
    <3>. DEFINE es == entries[t][k]
                ds == entries'[t][k]
    <3>1. ds = [i \in DOMAIN es |-> Fixed(es[i], x, d)]
      BY <2>3
    <3>2. es \in Seq(EntryType) /\ DOMAIN es = 1..Len(es) /\ Len(es) \in Nat
      BY <2>2
    <3>. HIDE DEF es, ds
    <3>3. \A i \in 1..Len(es) : Fixed(es[i], x, d) \in EntryType /\ Fixed(es[i], x, d).id = es[i].id
      <4>1. \A e \in EntryType : Fixed(e, x, d) \in EntryType /\ Fixed(e, x, d).id = e.id
        BY FixedEntry
      <4>2. \A i \in 1..Len(es) : es[i] \in EntryType
        BY <3>2
      <4>3. QED BY <4>1, <4>2
    <3>4. ds \in Seq(EntryType) /\ Len(ds) = Len(es) /\ \A i \in 1..Len(es) : ds[i].id = es[i].id
      BY <3>1, <3>2, <3>3
    <3>5. Sizes(ds, t) = Sizes(es, t)
      BY <3>2, <3>4, SizesType
    <3>6. QED BY <3>1, <3>4, <3>5 DEF es, ds
  <2>5. entries'[t] \in Seq(Seq(EntryType)) /\ Len(entries'[t]) = N /\ DOMAIN entries'[t] = 1..N
    <3>1. entries'[t] = [k \in 1..N |-> entries'[t][k]]
      BY <2>3
    <3>2. \A k \in 1..N : entries'[t][k] \in Seq(EntryType)
      BY <2>4
    <3>. DEFINE s == entries'[t]
    <3>3. N \in Nat /\ s = [k \in 1..N |-> s[k]] /\ \A k \in 1..N : s[k] \in Seq(EntryType)
      BY <1>2, <3>1, <3>2
    <3>. HIDE DEF s
    <3>4. s \in Seq(Seq(EntryType)) /\ Len(s) = N /\ DOMAIN s = 1..N
      BY <3>3
    <3>5. QED BY <3>4 DEF s
  <2>6. DirectorySizes(t)' = DirectorySizes(t)
    BY <2>2, <2>4, <2>5 DEF DirectorySizes
  <2>7. EntriesFixed(t, x, d)
    BY <2>4 DEF EntriesFixed
  <2>8. \A k \in 1..N : Up(k) \in 1..N
    BY <1>2 DEF Listed, ParentsAre
  <2>9. lba'[t] = lba[t] + x
    BY <1>4, <2>1
  <2>10. \A k \in 1..N : Made(k, t)'
    <3>1. Shifted(d) /\ lba[t] \in Nat
      BY <1>2, <1>3, <2>1
    <3>2. \A k \in 1..N : Made(k, t) /\ Made(Up(k), t)
      BY <1>2, <2>8
    <3>3. QED BY <1>2, <2>7, <2>9, <3>1, <3>2, MadeStays
  <2>11. ASSUME NEW k \in 1..N PROVE entries'[t][k][1].loc = entries[t][k][1].loc + x
    <3>1. entries[t][k] \in Seq(EntryType) /\ entries[t][k][1] = Self(Dot, k, t)
          /\ Len(entries[t][k]) = Len(Listing(k, t))
      BY <1>2, Zenon DEF Made, MadeBy
    <3>2. Len(Listing(k, t)) = 2 + Len(FilePart(k, t)) + Len(Kids(k)) /\ Len(FilePart(k, t)) \in Nat
      BY <1>2, Zenon DEF Listed, ListingsAre
    <3>3. Len(Kids(k)) \in Nat
      BY <1>2, Zenon DEF Listed, KidsAre
    <3>4. 1 \in DOMAIN entries[t][k] /\ entries[t][k][1] \in EntryType
      BY <3>1, <3>2, <3>3
    <3>5. Dot \in IdType
      BY DEF IdType
    <3>6. Self(Dot, k, t).dir = TRUE
      BY <1>2, <2>1, <3>5, SelfType
    <3>7. entries'[t][k][1] = Fixed(entries[t][k][1], x, d)
      BY <2>4, <3>4
    <3>8. entries[t][k][1].dir = TRUE
      BY <3>1, <3>6, Zenon
    <3>. DEFINE e == entries[t][k][1]
    <3>9. e \in EntryType /\ e.dir = TRUE /\ entries'[t][k][1] = Fixed(e, x, d)
      BY <3>4, <3>7, <3>8
    <3>. HIDE DEF e
    <3>10. Fixed(e, x, d).loc = e.loc + x
      BY <3>9, FixedDir
    <3>11. QED BY <3>9, <3>10 DEF e
  <2>12. QED BY <2>5, <2>6, <2>10, <2>11
<1>5. ASSUME NEW t \in Table
      PROVE  /\ entries'[t] \in Seq(Seq(EntryType)) /\ Len(entries'[t]) = N
                /\ DirectorySizes(t)' = DirectorySizes(t)
             /\ \A k \in 1..N : /\ Made(k, t)' /\ entries'[t][k][1].loc = entries[t][k][1].loc + lba'[t]
  <2>1. PICK x \in Nat : x = lba'[t]
    BY <1>2
  <2>2. QED BY <1>4, <2>1
<1>6. entries' \in [Table -> Seq(Seq(EntryType))]
  <2>1. entries' = [t \in Table |-> entries'[t]]
    BY <1>1
  <2>2. QED BY <1>5, <2>1
<1>7. QED BY <1>5, <1>6

LEMMA PlaceFiles ==
  ASSUME SizesAssumption, Inv, Place
  PROVE  FilesPlaced'
<1>1. /\ RootType /\ RootType' /\ N' = N /\ N \in Nat /\ Shifted(lba'.files) /\ lba'.files \in Nat
      /\ lba.files = 0 /\ filesSizeSectors' = filesSizeSectors
  BY PlaceTree, PlacesType DEF Inv, ScanInv, Listed, RootType, Place, scanned
<1>2. FilesTyped
  BY <1>1, FilesTypedOf
<1>3. FilesTyped'
  <2>1. RootType' => FilesTyped'
    BY FilesTypedOf, PTL
  <2>2. QED BY <1>1, <2>1
<1>4. PICK d \in Nat : d = lba'.files
  BY <1>1
<1>. DEFINE ss == FileListsOf
            rr == FileListsOf'
            fs == AllFiles
            gs == AllFiles'
<1>5. /\ ss \in Seq(Seq(FileType)) /\ rr \in Seq(Seq(FileType)) /\ Len(rr) = Len(ss) /\ Len(ss) = N
      /\ fs = FlattenSeq(ss) /\ gs = FlattenSeq(rr)
  BY <1>1, <1>2, <1>3 DEF FilesTyped
<1>6. ASSUME NEW k \in 1..Len(ss)
      PROVE  Len(rr[k]) = Len(ss[k]) /\ \A j \in 1..Len(ss[k]) : rr[k][j] = FileMoved(ss[k][j], d)
  <2>1. k \in 1..N /\ DOMAIN rootDir = 1..N /\ DOMAIN rootDir' = 1..N
    BY <1>1, <1>5 DEF RootType, N
  <2>2. ss[k] = rootDir[k].files /\ rr[k] = rootDir'[k].files
    BY <2>1 DEF FileListsOf
  <2>3. QED BY <1>1, <1>4, <2>1, <2>2 DEF Shifted, FileMoved
<1>. HIDE DEF ss, rr, fs, gs
<1>7. Len(gs) = Len(fs) /\ \A e \in 1..Len(fs) : gs[e] = FileMoved(fs[e], d)
  <2>1. Len(FlattenSeq(rr)) = Len(FlattenSeq(ss))
    BY <1>5, <1>6, FilesShift
  <2>2. \A e \in 1..Len(FlattenSeq(ss)) : FlattenSeq(rr)[e] = FileMoved(FlattenSeq(ss)[e], d)
    BY <1>5, <1>6, FilesShift
  <2>3. QED BY <1>5, <2>1, <2>2
<1>8. \A f \in FileType : FileMoved(f, d).size = f.size /\ FileMoved(f, d).rLBA = f.rLBA + d
      /\ f.rLBA \in Nat /\ f.size \in Nat
  BY FileMovedType
<1>9. /\ Len(fs) \in Nat /\ \A i \in 1..Len(fs) : fs[i] \in FileType
      /\ FileSectors \in Seq(Nat) /\ FileSectors' \in Seq(Nat) /\ Len(FileSectors) = Len(fs)
         /\ Len(FileSectors') = Len(gs)
      /\ \A i \in 1..Len(fs) : FileSectors[i] = Sectors(fs[i].size)
      /\ \A i \in 1..Len(gs) : FileSectors'[i] = Sectors(gs[i].size)
  BY <1>2, <1>3 DEF FilesTyped, fs, gs
<1>10. FileSectors' = FileSectors
  <2>1. \A i \in 1..Len(fs) : FileSectors'[i] = FileSectors[i]
    <3>. SUFFICES ASSUME NEW i \in 1..Len(fs) PROVE FileSectors'[i] = FileSectors[i]
      OBVIOUS
    <3>1. i \in 1..Len(gs) /\ fs[i] \in FileType /\ gs[i] = FileMoved(fs[i], d)
      BY <1>7, <1>9
    <3>2. gs[i].size = fs[i].size
      BY <1>8, <3>1
    <3>3. FileSectors'[i] = Sectors(gs[i].size) /\ FileSectors[i] = Sectors(fs[i].size)
      BY <1>9, <3>1
    <3>4. QED BY <3>2, <3>3
  <2>. DEFINE a == FileSectors
              b == FileSectors'
  <2>2. a \in Seq(Nat) /\ b \in Seq(Nat) /\ Len(a) = Len(b) /\ \A i \in 1..Len(a) : b[i] = a[i]
    BY <1>7, <1>9, <2>1
  <2>. HIDE DEF a, b
  <2>3. a = b
    <3>1. a = [i \in 1..Len(a) |-> a[i]] /\ b = [i \in 1..Len(b) |-> b[i]]
      BY <2>2
    <3>2. [i \in 1..Len(b) |-> b[i]] = [i \in 1..Len(a) |-> a[i]]
      BY <2>2, Zenon
    <3>3. QED BY <3>1, <3>2, Zenon
  <2>4. QED BY <2>3 DEF a, b
<1>11. FilesPlaced
  BY DEF Inv, ScanInv
<1>12. \A i \in 1..Len(gs) : gs[i].rLBA = d + Sums(FileSectors)[i - 1]
  <2>. SUFFICES ASSUME NEW i \in 1..Len(gs) PROVE gs[i].rLBA = d + Sums(FileSectors)[i - 1]
    OBVIOUS
  <2>1. i \in 1..Len(fs) /\ fs[i] \in FileType
    BY <1>7, <1>9
  <2>2. gs[i].rLBA = fs[i].rLBA + d /\ fs[i].rLBA \in Nat
    BY <1>7, <1>8, <2>1
  <2>3. fs[i].rLBA = 0 + Sums(FileSectors)[i - 1]
    BY <1>1, <1>11, <2>1 DEF FilesPlaced, fs
  <2>4. Sums(FileSectors)[i - 1] \in Nat
    BY <1>9, <2>1, SumsType
  <2>5. QED BY <2>2, <2>3, <2>4
<1>13. ASSUME NEW k \in 1..N PROVE InOrder(rootDir'[k].files)
  <2>1. k \in 1..Len(ss) /\ DOMAIN rootDir = 1..N /\ DOMAIN rootDir' = 1..N
    BY <1>1, <1>5 DEF RootType, N
  <2>2. ss[k] = rootDir[k].files /\ rr[k] = rootDir'[k].files
    BY <2>1 DEF FileListsOf, ss, rr
  <2>. DEFINE a == ss[k]
              b == rr[k]
  <2>3. InOrder(a) /\ a \in Seq(FileType)
    BY <1>5, <1>11, <2>1, <2>2 DEF FilesPlaced
  <2>4. Len(b) = Len(a) /\ \A j \in 1..Len(a) : b[j] = FileMoved(a[j], d) /\ a[j] \in FileType
    BY <1>6, <2>1, <2>3
  <2>. HIDE DEF a, b
  <2>5. \A j \in 1..Len(a) : b[j].size = a[j].size /\ b[j].rLBA = a[j].rLBA + d /\ a[j].rLBA \in Nat
        /\ Sectors(a[j].size) \in Nat
    BY <1>8, <2>4, SectorsOf
  <2>6. ASSUME NEW i \in 1..Len(b), NEW j \in 1..Len(b), i < j
                 PROVE b[i].rLBA + Sectors(b[i].size) <= b[j].rLBA
    <3>1. a[i].rLBA + Sectors(a[i].size) <= a[j].rLBA
      BY <2>3, <2>4, <2>6 DEF InOrder
    <3>2. QED BY <2>4, <2>5, <3>1
  <2>7. InOrder(b)
    BY <2>6 DEF InOrder
  <2>8. QED BY <2>2, <2>7 DEF b
<1>14. QED BY <1>1, <1>4, <1>10, <1>11, <1>12, <1>13 DEF FilesPlaced, gs

LEMMA VolumeType ==
  ASSUME SizesAssumption, NEW files \in Nat
  PROVE  LET volume == files + BasePad + (IF files % BasePad > 0 THEN BasePad - (files % BasePad)
           ELSE 0)
         IN /\ volume \in Nat /\ volume > files /\ \E m \in Nat : volume = BasePad * m
<1>. DEFINE q == files \div BasePad
            r == files % BasePad
            volume == files + BasePad + (IF r > 0 THEN BasePad - r ELSE 0)
<1>1. BasePad \in Nat \ {0}
  BY SizesAssumption DEF SizesAssumption
<1>2. q \in Nat /\ r \in 0..(BasePad - 1) /\ files = BasePad * q + r
  BY <1>1
<1>3. BasePad * (q + 1) = BasePad * q + BasePad
      /\ BasePad * (q + 2) = BasePad * q + BasePad + BasePad /\ BasePad * q \in Nat
  BY <1>1, <1>2
<1>. DEFINE p == BasePad * q
<1>4. p \in Nat /\ files = p + r /\ BasePad * (q + 1) = p + BasePad
      /\ BasePad * (q + 2) = p + BasePad + BasePad
  BY <1>2, <1>3
<1>. HIDE DEF p, q, r
<1>5. CASE r > 0
  <2>1. volume = p + BasePad + BasePad /\ volume \in Nat /\ volume > files
    BY <1>1, <1>2, <1>4, <1>5
  <2>2. volume = BasePad * (q + 2) /\ q + 2 \in Nat
    BY <1>2, <1>4, <2>1
  <2>3. QED BY <2>1, <2>2 DEF r
<1>6. CASE ~(r > 0)
  <2>1. volume = p + BasePad /\ volume \in Nat /\ volume > files
    BY <1>1, <1>2, <1>4, <1>6
  <2>2. volume = BasePad * (q + 1) /\ q + 1 \in Nat
    BY <1>2, <1>4, <2>1
  <2>3. QED BY <2>1, <2>2 DEF r
<1>7. QED BY <1>5, <1>6

LEMMA PlaceTables ==
  ASSUME SizesAssumption, Inv, Place
  PROVE  /\ pathTable' = [t \in Table |-> PathTableOf(t)']
         /\ \A t \in Table : PathTableSize(t)' = PathTableSize(t)
<1>1. pc = "place" /\ pathTable' = [t \in Table |->
                         [k \in DOMAIN pathTable[t] |-> [pathTable[t][k] EXCEPT !.loc = @ + lba'[t]]]]
  BY DEF Place
<1>2. pathTable = [t \in Table |-> PathTableOf(t)]
  BY <1>1 DEF Inv, Tables
<1>3. /\ Listed /\ Listed' /\ N' = N /\ N \in Nat /\ Shifted(lba'.files) /\ lba'.files \in Nat
      /\ \A t \in Table : PathTableTyped(t)
  BY PlacesType, PlaceTree
<1>4. PICK d \in Nat : d = lba'.files
  BY <1>3
<1>5. \A k \in 1..N : ParentIdx(k)' = ParentIdx(k) /\ rootDir'[k].path = rootDir[k].path
  <2>1. Shifted(d)
    BY <1>3, <1>4
  <2>2. QED BY <1>3, <2>1, FamilyStays DEF Shifted
<1>6. ASSUME NEW t \in Table
      PROVE  pathTable'[t] = PathTableOf(t)' /\ PathTableSize(t)' = PathTableSize(t)
  <2>. DEFINE m == Smaller(N, ItemsLimit)
              old(k) == PathTableOf(t)[k]
  <2>1. m \in 0..N /\ DOMAIN pathTable[t] = 1..m /\ pathTable[t] = PathTableOf(t)
    BY <1>2, <1>3 DEF PathTableTyped
  <2>2. /\ PathTableOf(t) = [k \in 1..m |->
             [id |-> IF k = 1 THEN Dot ELSE Ident(Last(rootDir[k].path), FALSE, t),
              loc |-> entries[t][k][1].loc, parent |-> IF k = 1 THEN 1 ELSE Number(ParentIdx(k))]]
        /\ PathTableOf(t)' = [k \in 1..m |->
             [id |-> IF k = 1 THEN Dot ELSE Ident(Last(rootDir'[k].path), FALSE, t),
              loc |-> entries'[t][k][1].loc, parent |-> IF k = 1 THEN 1 ELSE Number(ParentIdx(k)')]]
    BY <1>3 DEF PathTableOf, N
  <2>3. \A k \in 1..m : k \in 1..N
    BY <1>3, <2>1
  <2>4. ASSUME NEW k \in 1..m
        PROVE  PathTableOf(t)'[k] = [PathTableOf(t)[k] EXCEPT !.loc = @ + lba'[t]]
               /\ PathTableOf(t)'[k].id = PathTableOf(t)[k].id
    <3>. DEFINE id == IF k = 1 THEN Dot ELSE Ident(Last(rootDir[k].path), FALSE, t)
                parent == IF k = 1 THEN 1 ELSE Number(ParentIdx(k))
                loc == entries[t][k][1].loc
    <3>1. PathTableOf(t)[k] = [id |-> id, loc |-> loc, parent |-> parent]
      BY <2>2
    <3>2. PathTableOf(t)'[k] = [id |-> id, loc |-> entries'[t][k][1].loc, parent |-> parent]
      <4>1. rootDir'[k].path = rootDir[k].path /\ ParentIdx(k)' = ParentIdx(k)
        BY <1>5, <2>3
      <4>2. QED BY <2>2, <4>1
    <3>3. entries'[t][k][1].loc = loc + lba'[t]
      BY <2>3, PlaceEntries
    <3>. HIDE DEF id, parent, loc
    <3>4. QED BY <3>1, <3>2, <3>3
  <2>5. pathTable'[t] = [k \in 1..m |-> [PathTableOf(t)[k] EXCEPT !.loc = @ + lba'[t]]]
    BY <1>1, <2>1
  <2>6. PathTableOf(t)' = [k \in 1..m |-> PathTableOf(t)'[k]]
    BY <2>2
  <2>7. pathTable'[t] = PathTableOf(t)'
    BY <2>4, <2>5, <2>6
  <2>8. [k \in 1..m |-> PathEntrySize(PathTableOf(t)'[k], t)]
          = [k \in 1..m |-> PathEntrySize(PathTableOf(t)[k], t)]
    BY <2>4 DEF PathEntrySize
  <2>9. PathTableSize(t) = Sum([k \in 1..m |-> PathEntrySize(PathTableOf(t)[k], t)])
    BY <2>1 DEF PathTableSize
  <2>10. DOMAIN pathTable'[t] = 1..m
    BY <2>5
  <2>11. PathTableSize(t)' = Sum([k \in 1..m |-> PathEntrySize(PathTableOf(t)'[k], t)])
    BY <2>7, <2>10 DEF PathTableSize
  <2>12. QED BY <2>7, <2>8, <2>9, <2>11
<1>7. pathTable' = [t \in Table |-> pathTable'[t]]
  BY <1>1
<1>8. QED BY <1>6, <1>7

LEMMA PlaceKeeps ==
  ASSUME SizesAssumption, Inv, Place
  PROVE  Inv'
<1>1. pc = "place" /\ pc' = "head" /\ UNCHANGED <<queue, current, filesSizeSectors, fsSize>>
  BY DEF Place, scanned, encoded
<1>2. ~Scanning /\ ~Scanning' /\ ~Late /\ Late'
  BY <1>1 DEF Scanning, Late
<1>3. /\ N' = N /\ N \in Nat /\ RootType' /\ PathsKnown'
      /\ lba' \in [iso : Nat, joliet : Nat, files : Nat] /\ lba'.files + filesSizeSectors \in Nat
  BY PlacesType, PlaceTree
<1>4. ScanInv'
  BY <1>3, PlaceFiles DEF ScanInv
<1>5. EntriesMade'
  <2>1. \A t \in Table : Done(t)' = N
    BY <1>1, <1>2, <1>3 DEF Done
  <2>2. \A k \in 1..N : k <= N
    BY <1>3
  <2>3. QED BY <1>3, <2>1, <2>2, PlaceEntries DEF EntriesMade
<1>6. Stage'
  BY <1>1, <1>2, <1>3 DEF Inv, Stage
<1>7. Tables'
  BY PlaceTables DEF Tables
<1>. DEFINE a == PathTableSectors("iso")
            b == PathTableSectors("joliet")
            c == Sectors(DirsSize(N, "iso"))
            d == Sectors(DirsSize(N, "joliet"))
            files == lba'.files + filesSizeSectors
            volume == files + BasePad + (IF files % BasePad > 0 THEN BasePad - (files % BasePad) ELSE 0)
<1>8. /\ lba' = [iso |-> TablesLBA + 2 * a + 2 * b, joliet |-> TablesLBA + 2 * a + 2 * b + c,
         files |-> TablesLBA + 2 * a + 2 * b + c + d]
      /\ padAreaStart' = Bytes(files) /\ totalSize' = Bytes(volume)
      /\ descriptors' = [t \in Table |-> Descriptor(t, volume)]
  <2>1. lba' = [iso |-> TablesLBA + 2 * a + 2 * b, joliet |-> TablesLBA + 2 * a + 2 * b + c,
        files |-> TablesLBA + 2 * a + 2 * b + c + d]
    BY DEF Place, N
  <2>2. lba'.files = TablesLBA + 2 * a + 2 * b + c + d
    BY <2>1
  <2>3. /\ padAreaStart' = Bytes(files) /\ totalSize' = Bytes(volume)
        /\ descriptors' = [t \in Table |-> Descriptor(t, volume)]
    BY <2>2 DEF Place, N
  <2>4. QED BY <2>1, <2>3
<1>9. \A t \in Table : PathTableSize(t)' = PathTableSize(t)
      /\ PathTableSectors(t)' = PathTableSectors(t)
  BY PlaceTables DEF PathTableSectors
<1>10. a' = a /\ b' = b /\ c' = c /\ d' = d
  <2>1. "iso" \in Table /\ "joliet" \in Table
    BY DEF Table
  <2>2. \A t \in Table : DirsSize(N, t)' = DirsSize(N, t)
    BY <1>3, PlaceEntries DEF DirsSize
  <2>3. QED BY <1>3, <1>9, <2>1, <2>2
<1>11. \A t \in Table : \A v : Descriptor(t, v)' = Descriptor(t, v)
  <2>1. PathTableSectors("iso")' = PathTableSectors("iso")
    BY <1>10
  <2>2. QED BY <1>9, <2>1 DEF Descriptor
<1>12. volume \in Nat
  <2>. HIDE DEF files
  <2>1. files \in Nat
    BY <1>3 DEF files
  <2>2. QED BY <2>1, VolumeType
<1>13. Counted'
  <2>1. padAreaStart' \in Nat /\ totalSize' \in Nat
    BY <1>3, <1>8, <1>12, BytesOf
  <2>2. QED BY <1>1, <1>2, <2>1 DEF Inv, Counted
<1>14. Placed'
  <2>1. /\ lba'.iso = TablesLBA + 2 * a + 2 * b /\ lba'.joliet = lba'.iso + c
           /\ lba'.files = lba'.joliet + d
    <3>1. TablesLBA + 2 * a + 2 * b + c = (TablesLBA + 2 * a + 2 * b) + c
      OBVIOUS
    <3>2. QED BY <1>8, <3>1
  <2>2. /\ PathTableSectors("iso")' = a /\ PathTableSectors("joliet")' = b
        /\ Sectors(DirsSize(N, "iso"))' = c /\ Sectors(DirsSize(N, "joliet"))' = d
    BY <1>10
  <2>3. descriptors' = [t \in Table |->
          [size |-> volume, tableSize |-> PathTableSize(t)',
           typeL |-> TablesLBA + (IF t = "iso" THEN 0 ELSE 2 * PathTableSectors("iso")'),
           typeM |-> TablesLBA + (IF t = "iso" THEN 0
             ELSE 2 * PathTableSectors("iso")') + PathTableSectors(t)']]
    <3>. HIDE DEF volume
    <3>1. \A t \in Table : Descriptor(t, volume) =
          [size |-> volume, tableSize |-> PathTableSize(t)',
           typeL |-> TablesLBA + (IF t = "iso" THEN 0 ELSE 2 * PathTableSectors("iso")'),
           typeM |-> TablesLBA + (IF t = "iso" THEN 0
             ELSE 2 * PathTableSectors("iso")') + PathTableSectors(t)']
      BY <1>9, <2>2 DEF Descriptor
    <3>2. QED BY <1>8, <3>1
  <2>4. filesSizeSectors' = filesSizeSectors
    BY <1>1
  <2>5. /\ lba'.iso = TablesLBA + 2 * PathTableSectors("iso")' + 2 * PathTableSectors("joliet")'
        /\ lba'.joliet = lba'.iso + Sectors(DirsSize(N, "iso"))'
           /\ lba'.files = lba'.joliet + Sectors(DirsSize(N, "joliet"))'
    BY <2>1, <2>2
  <2>6. padAreaStart' = Bytes(lba'.files + filesSizeSectors')
    BY <1>8, <2>4
  <2>7. QED BY <1>8, <2>3, <2>4, <2>5, <2>6 DEF Placed, Descriptor
<1>15. EncodedSoFar'
  BY <1>1 DEF EncodedSoFar
<1>16. QED BY <1>4, <1>5, <1>6, <1>7, <1>13, <1>14, <1>15 DEF Inv
-----------------------------------------------------------------------------
(* Making the entries of a directory.                                      *)

\* The two halves of MadeBy: the entries of the kth directory, and the one of it
\* among its parent's.
OwnMade(es, k, t) ==
  /\ es \in Seq(EntryType) /\ Len(es) = Len(Listing(k, t))
  /\ \A e \in 1..Len(Listing(k, t)) :
       /\ es[e].id = Listing(k, t)[e].id /\ es[e].dir = Listing(k, t)[e].dir
          /\ es[e].more = Listing(k, t)[e].more
       /\ ~Listing(k, t)[e].dir => es[e] = Listing(k, t)[e]
  /\ es[1] = Self(Dot, k, t)
  /\ es[2] = Self(DotDot, Up(k), t)

HeldBy(us, k, t) ==
  k > 1 /\ ~Clashes(k, t) => \E e \in 1..Len(us) :
    us[e] = Self(Ident(Last(rootDir[k].path), FALSE, t), k, t)

LEMMA MadeHalves ==
  ASSUME NEW es, NEW us, NEW k, NEW t
  PROVE  MadeBy(es, us, k, t) <=> OwnMade(es, k, t) /\ HeldBy(us, k, t)
BY Zenon DEF MadeBy, OwnMade, HeldBy

\* The entries a directory is made with.
Fresh(k, t) == [Listing(k, t) EXCEPT ![1] = Self(Dot, k, t), ![2] = Self(DotDot, Up(k), t)]

LEMMA FreshMade ==
  ASSUME SizesAssumption, Listed, NEW t \in Table, NEW k \in 1..N, lba[t] \in Nat
  PROVE  OwnMade(Fresh(k, t), k, t)
<1>. DEFINE ls == Listing(k, t)
            a == Self(Dot, k, t)
            b == Self(DotDot, Up(k), t)
            es == Fresh(k, t)
<1>1. Up(k) \in 1..N /\ Dot \in IdType /\ DotDot \in IdType
  BY DEF Listed, ParentsAre, IdType
<1>2. a \in EntryType /\ a.id = Dot /\ a.dir = TRUE /\ a.more = FALSE
  BY <1>1, SelfType
<1>3. b \in EntryType /\ b.id = DotDot /\ b.dir = TRUE /\ b.more = FALSE
  BY <1>1, SelfType
<1>4. ls \in Seq(EntryType) /\ 1 \in 1..Len(ls) /\ 2 \in 1..Len(ls) /\ Len(ls) \in Nat
  <2>1. ls \in Seq(EntryType)
    BY DEF Listed, ListingsAre
  <2>2. Len(ls) = 2 + Len(FilePart(k, t)) + Len(Kids(k)) /\ Len(FilePart(k, t)) \in Nat
        /\ Len(Kids(k)) \in Nat
    BY DEF Listed, ListingsAre, KidsAre
  <2>. HIDE DEF ls
  <2>3. QED BY <2>1, <2>2
<1>5. /\ ls[1].id = Dot /\ ls[1].dir = TRUE /\ ls[1].more = FALSE
      /\ ls[2].id = DotDot /\ ls[2].dir = TRUE /\ ls[2].more = FALSE
  <2>1. ls[1] = DirEntry(Dot, 0, 0) /\ ls[2] = DirEntry(DotDot, 0, 0)
    BY DEF Listed, ListingsAre
  <2>2. ls[1].id = Dot /\ ls[1].dir = TRUE /\ ls[1].more = FALSE
    <3>1. DirEntry(Dot, 0, 0).id = Dot /\ DirEntry(Dot, 0, 0).dir = TRUE
          /\ DirEntry(Dot, 0, 0).more = FALSE
      BY DEF DirEntry
    <3>2. QED BY <2>1, <3>1, Zenon
  <2>3. ls[2].id = DotDot /\ ls[2].dir = TRUE /\ ls[2].more = FALSE
    <3>1. DirEntry(DotDot, 0, 0).id = DotDot /\ DirEntry(DotDot, 0, 0).dir = TRUE
          /\ DirEntry(DotDot, 0, 0).more = FALSE
      BY DEF DirEntry
    <3>2. QED BY <2>1, <3>1, Zenon
  <2>4. QED BY <2>2, <2>3, Zenon
<1>6. es = [ls EXCEPT ![1] = a, ![2] = b]
  BY DEF Fresh
<1>. HIDE DEF ls, a, b, es
<1>7. es \in Seq(EntryType) /\ Len(es) = Len(ls)
  BY <1>2, <1>3, <1>4, <1>6
<1>8. es[1] = a /\ es[2] = b /\ \A e \in 1..Len(ls) : e \notin {1, 2} => es[e] = ls[e]
  BY <1>4, <1>6
<1>9. ASSUME NEW e \in 1..Len(ls)
      PROVE  /\ es[e].id = ls[e].id /\ es[e].dir = ls[e].dir /\ es[e].more = ls[e].more
             /\ ~ls[e].dir => es[e] = ls[e]
  <2>1. CASE e = 1
    BY <1>2, <1>5, <1>8, <2>1, Zenon
  <2>2. CASE e = 2
    BY <1>3, <1>5, <1>8, <2>2, Zenon
  <2>3. CASE e \notin {1, 2}
    BY <1>8, <2>3, Zenon
  <2>4. QED BY <2>1, <2>2, <2>3
<1>10. QED BY <1>7, <1>8, <1>9, Zenon DEF ls, a, b, es, OwnMade

LEMMA PutBehind ==
  ASSUME NEW X, NEW s \in Seq(X), NEW i \in 3..Len(s), NEW x \in X
  PROVE  /\ Len(s) \in Nat /\ i \in 1..Len(s) /\ i # 1 /\ i # 2 /\ 1 \in 1..Len(s)
            /\ 2 \in 1..Len(s) /\ s[i] \in X
         /\ [s EXCEPT ![i] = x] \in Seq(X) /\ Len([s EXCEPT ![i] = x]) = Len(s)
            /\ [s EXCEPT ![i] = x][i] = x
         /\ \A e \in 1..Len(s) : e # i => [s EXCEPT ![i] = x][e] = s[e]
<1>1. Len(s) \in Nat
  OBVIOUS
<1>2. i \in 1..Len(s) /\ i # 1 /\ i # 2
  BY <1>1
<1>3. 1 \in 1..Len(s) /\ 2 \in 1..Len(s)
  BY <1>1
<1>4. s[i] \in X
  BY <1>2
<1>5. QED BY <1>1, <1>2, <1>3, <1>4

\* The record of the kth directory among its parent's, us.
Held(us, i, self) == [us EXCEPT ![i].loc = self.loc, ![i].len = self.len]

HeldAt(us, vs, i, id, self) ==
  /\ i \in 1..Len(us) /\ us[i].id = id /\ Len(vs) = Len(us) /\ vs[i] = self
  /\ \A e \in 1..Len(us) : e # i => vs[e] = us[e]

LEMMA HolderMade ==
  ASSUME SizesAssumption, Listed, RootType, PathsKnown, NEW t \in Table, NEW k \in 2..N, lba[t] \in Nat,
         NEW us, OwnMade(us, ParentIdx(k), t), NEW i,
         i = FindDirEntry(us, Ident(Last(rootDir[k].path), FALSE, t)),
         NEW self, self = Self(Ident(Last(rootDir[k].path), FALSE, t), k, t)
  PROVE  /\ OwnMade(Held(us, i, self), ParentIdx(k), t)
         /\ HeldAt(us, Held(us, i, self), i, Ident(Last(rootDir[k].path), FALSE, t), self)
<1>. DEFINE p == ParentIdx(k)
            ls == Listing(p, t)
            id == Ident(Last(rootDir[k].path), FALSE, t)
            vs == Held(us, i, self)
<1>1. p \in 1..N /\ k \in 1..N /\ id \in IdType /\ N \in Nat
  <2>1. N \in Nat
    BY DEF RootType, N
  <2>2. k \in 1..N /\ k > 1
    BY <2>1
  <2>3. p \in 1..(k - 1) /\ Last(rootDir[k].path) \in Names
    BY <2>2 DEF Listed, ParentsAre
  <2>4. FALSE \in BOOLEAN
    OBVIOUS
  <2>5. id \in IdType
    BY <2>3, <2>4, IdentType
  <2>6. p \in 1..N
    BY <2>1, <2>2, <2>3
  <2>7. QED BY <2>1, <2>2, <2>5, <2>6
<1>2. /\ us \in Seq(EntryType) /\ Len(us) = Len(ls) /\ us[1] = Self(Dot, p, t)
         /\ us[2] = Self(DotDot, Up(p), t)
      /\ \A e \in 1..Len(ls) : /\ us[e].id = ls[e].id /\ us[e].dir = ls[e].dir /\ us[e].more = ls[e].more
                               /\ ~ls[e].dir => us[e] = ls[e]
  BY Zenon DEF OwnMade
<1>3. i \in 3..Len(us) /\ us[i].id = id /\ ls[i].dir = TRUE /\ ls[i].more = FALSE
  <2>1. \A e \in 1..Len(us) : us[e].id = ls[e].id
    BY <1>2
  <2>2. QED BY <1>2, <2>1, KidEntry
<1>4. self \in EntryType /\ self.id = id /\ self.dir = TRUE /\ self.more = FALSE
  BY <1>1, SelfType
<1>. HIDE DEF ls, id
<1>5. i \in 1..Len(us) /\ i # 1 /\ i # 2 /\ Len(us) \in Nat /\ 1 \in 1..Len(us) /\ 2 \in 1..Len(us)
      /\ us[i] \in EntryType
  <2>1. us \in Seq(EntryType) /\ i \in 3..Len(us) /\ self \in EntryType
    BY <1>2, <1>3, <1>4
  <2>2. QED BY ONLY <2>1, PutBehind
<1>6. us[i] \in EntryType /\ us[i].dir = TRUE /\ us[i].more = FALSE
  <2>1. us \in Seq(EntryType)
    BY <1>2
  <2>2. us[i].dir = ls[i].dir /\ us[i].more = ls[i].more
    BY <1>2, <1>5, Zenon
  <2>3. QED BY <1>3, <1>5, <2>2, Zenon
<1>7. vs = [us EXCEPT ![i] = [[us[i] EXCEPT !.loc = self.loc] EXCEPT !.len = self.len]]
  BY <1>2, <1>5, <1>6 DEF EntryType, Held
<1>8. [[us[i] EXCEPT !.loc = self.loc] EXCEPT !.len = self.len] = self
  <2>. DEFINE x == us[i]
              y == [[x EXCEPT !.loc = self.loc] EXCEPT !.len = self.len]
  <2>1. x \in EntryType /\ x.id = self.id /\ x.dir = self.dir /\ x.more = self.more
    BY <1>3, <1>4, <1>6, Zenon
  <2>. HIDE DEF x
  <2>2. y \in EntryType /\ y.id = x.id /\ y.dir = x.dir /\ y.more = x.more /\ y.loc = self.loc
        /\ y.len = self.len
    BY <1>4, <2>1 DEF EntryType
  <2>. HIDE DEF y
  <2>3. y = self
    BY <1>4, <2>1, <2>2, SameEntry
  <2>4. QED BY <2>3 DEF x, y
<1>9. vs = [us EXCEPT ![i] = self]
  BY <1>7, <1>8
<1>10. vs \in Seq(EntryType) /\ Len(vs) = Len(us) /\ vs[i] = self /\ \A e \in 1..Len(us) : e # i
         => vs[e] = us[e]
  <2>. DEFINE ws == [us EXCEPT ![i] = self]
  <2>1. us \in Seq(EntryType) /\ i \in 3..Len(us) /\ self \in EntryType
    BY <1>2, <1>3, <1>4
  <2>2. ws \in Seq(EntryType) /\ Len(ws) = Len(us) /\ ws[i] = self /\ \A e \in 1..Len(us) : e # i
          => ws[e] = us[e]
    BY ONLY <2>1, PutBehind
  <2>3. QED BY <1>9, <2>2
<1>. HIDE DEF vs, p
<1>11. ASSUME NEW e \in 1..Len(ls)
       PROVE  /\ vs[e].id = ls[e].id /\ vs[e].dir = ls[e].dir /\ vs[e].more = ls[e].more
              /\ ~ls[e].dir => vs[e] = ls[e]
  <2>1. CASE e = i
    <3>1. vs[e].id = ls[e].id
      BY <1>2, <1>3, <1>4, <1>10, <2>1, Zenon
    <3>2. vs[e].dir = ls[e].dir /\ vs[e].more = ls[e].more
      BY <1>3, <1>4, <1>10, <2>1, Zenon
    <3>3. QED BY <1>3, <2>1, <3>1, <3>2, Zenon
  <2>2. CASE e # i
    BY <1>2, <1>10, <2>2, Zenon
  <2>3. QED BY <2>1, <2>2
<1>12. vs[1] = us[1] /\ vs[2] = us[2]
  BY <1>5, <1>10
<1>13. OwnMade(vs, p, t)
  BY <1>2, <1>10, <1>11, <1>12, Zenon DEF OwnMade, ls
<1>14. QED BY <1>3, <1>5, <1>10, <1>13 DEF vs, p, id, HeldAt
-----------------------------------------------------------------------------
(* MakeIsoEntries and MakeJolietEntries.                                   *)

\* What a step finds: the entries of the directories before the current one.
LEMMA StepBegins ==
  ASSUME SizesAssumption, Inv, NEW t \in Table, pc = t, NEW k, k = current
  PROVE  /\ Listed /\ RootType /\ PathsKnown /\ N \in Nat /\ k \in 1..N /\ lba[t] = 0
         /\ entries \in [Table -> Seq(Seq(EntryType))] /\ entries[t] \in Seq(Seq(EntryType))
            /\ Len(entries[t]) = N
         /\ \A j \in 1..N : j < k => Made(j, t)
         /\ \A j \in 1..N : j >= k => entries[t][j] = <<>>
         /\ \A id : Self(id, k, t) = DirEntry(id, PlaceOf(k, t), EntriesSize(Listing(k, t), t))
<1>1. pc \in {"iso", "joliet"} /\ ~Scanning
  BY DEF Scanning, Table
<1>2. Listed /\ RootType /\ PathsKnown /\ EntriesMade /\ N \in Nat
  BY ListedNow DEF Inv, ScanInv, RootType, N
<1>3. k \in 1..N /\ lba = [iso |-> 0, joliet |-> 0, files |-> 0]
  BY <1>1 DEF Inv, Stage
<1>4. lba[t] = 0
  BY <1>3 DEF Table
<1>5. Done(t) = k - 1
  BY <1>1 DEF Done, Scanning, Table
<1>6. \A j \in 1..N : (j < k => Made(j, t)) /\ (j >= k => entries[t][j] = <<>>)
  <2>1. \A j \in 1..N : IF j <= k - 1 THEN Made(j, t) ELSE entries[t][j] = <<>>
    BY <1>2, <1>5 DEF EntriesMade
  <2>2. \A j \in 1..N : (j < k <=> j <= k - 1) /\ (j >= k <=> ~(j <= k - 1))
    BY <1>2, <1>3
  <2>3. QED BY <2>1, <2>2
<1>7. PlaceOf(k, t) = Behind(k, t)
  <2>1. k - 1 \in 0..N /\ \A j \in 1..(k - 1) : j \in 1..N /\ j < k
    BY <1>2, <1>3
  <2>2. k - 1 \in 0..(k - 1)
    BY <1>2, <1>3
  <2>3. PICK m \in 0..N : m = k - 1
    BY <2>1
  <2>4. \A j \in 1..m : Made(j, t)
    BY <1>6, <2>1, <2>3
  <2>5. \A j \in 0..m : DirsSize(j, t) = DirectoryEnds(AllSizes(t))[j]
    BY <1>2, <2>4, DirectorySizesAre
  <2>6. DirsSize(k - 1, t) = DirectoryEnds(AllSizes(t))[k - 1]
    BY <2>2, <2>3, <2>5
  <2>7. QED BY <2>6 DEF PlaceOf, Behind
<1>8. Behind(k, t) \in Nat
  BY <1>2, <1>3, Lengths
<1>9. \A id : Self(id, k, t) = DirEntry(id, PlaceOf(k, t), EntriesSize(Listing(k, t), t))
  <2>1. lba[t] + Behind(k, t) = PlaceOf(k, t)
    BY <1>4, <1>7, <1>8
  <2>2. QED BY <2>1 DEF Self
<1>10. entries \in [Table -> Seq(Seq(EntryType))] /\ entries[t] \in Seq(Seq(EntryType))
       /\ Len(entries[t]) = N
  BY <1>2 DEF EntriesMade
<1>11. QED BY <1>2, <1>3, <1>4, <1>6, <1>9, <1>10

\* The root.
LEMMA RootEntries ==
  ASSUME SizesAssumption, Inv, NEW t \in Table, pc = t, current = 1, MakeDirEntries(1, t)
  PROVE  entries' = [entries EXCEPT ![t] = [@ EXCEPT ![1] = Fresh(1, t)]]
<1>1. Listed /\ 1 \in 1..N /\ \A id :
        Self(id, 1, t) = DirEntry(id, PlaceOf(1, t), EntriesSize(Listing(1, t), t))
  BY StepBegins
<1>2. ParentIdx(1) = 0 /\ Up(1) = 1
  BY <1>1 DEF Listed, ParentsAre, Up
<1>3. entries' = [entries EXCEPT ![t][1] =
        [Listing(1, t) EXCEPT ![1] = DirEntry(Dot, PlaceOf(1, t), EntriesSize(Listing(1, t), t)),
                              ![2] = DirEntry(DotDot, PlaceOf(1, t), EntriesSize(Listing(1, t), t))]]
  BY <1>2 DEF MakeDirEntries
<1>4. QED BY <1>1, <1>2, <1>3 DEF Fresh

\* The update of MakeDirEntries, and the same sequence by sequence.
Put(es, t, k, p, i, new, loc, len) == [es EXCEPT ![t][k] = new, ![t][p][i].loc = loc,
![t][p][i].len = len]
PutOut(es, t, k, p, i, new,
self) == [es EXCEPT ![t] = [es[t] EXCEPT ![k] = new, ![p] = Held(es[t][p], i, self)]]

LEMMA PutBoth ==
  ASSUME NEW T, NEW es, es = [s \in T |-> es[s]], NEW t \in T, NEW k \in DOMAIN es[t],
         NEW p \in DOMAIN es[t], k # p,
         NEW i, NEW new, NEW self
  PROVE  Put(es, t, k, p, i, new, self.loc, self.len) = PutOut(es, t, k, p, i, new, self)
<1>. DEFINE loc == self.loc
            len == self.len
<1>. DEFINE e1 == [es EXCEPT ![t][k] = new]
            u1 == [es[t] EXCEPT ![k] = new]
            us == es[t][p]
            v1 == [us EXCEPT ![i].loc = loc]
            v2 == [v1 EXCEPT ![i].len = len]
            e2 == [e1 EXCEPT ![t][p][i].loc = loc]
            e3 == [e2 EXCEPT ![t][p][i].len = len]
<1>1. e1 = [s \in T |-> IF s = t THEN u1 ELSE es[s]] /\ u1[p] = us /\ DOMAIN u1 = DOMAIN es[t]
  OBVIOUS
<1>2. e2 = [e1 EXCEPT ![t] = [e1[t] EXCEPT ![p] = [e1[t][p] EXCEPT ![i].loc = loc]]]
  OBVIOUS
<1>3. e1[t] = u1
  BY <1>1
<1>. HIDE DEF e1, u1, us
<1>4. e2 = [s \in T |-> IF s = t THEN [u1 EXCEPT ![p] = v1] ELSE es[s]]
  BY <1>1, <1>2, <1>3
<1>5. e3 = [e2 EXCEPT ![t] = [e2[t] EXCEPT ![p] = [e2[t][p] EXCEPT ![i].len = len]]]
  OBVIOUS
<1>6. p \in DOMAIN u1
  BY <1>1
<1>. HIDE DEF e2, v1
<1>7. e3 = [s \in T |-> IF s = t THEN [u1 EXCEPT ![p] = v2] ELSE es[s]]
  BY <1>4, <1>5, <1>6
<1>8. Put(es, t, k, p, i, new, loc, len) = e3
  BY DEF e1, e2, Put
<1>. HIDE DEF v2, e3
<1>9. [es EXCEPT ![t] = [es[t] EXCEPT ![k] = new, ![p] = v2]]
        = [s \in T |-> IF s = t THEN [u1 EXCEPT ![p] = v2] ELSE es[s]]
  BY DEF u1
<1>10. QED BY <1>7, <1>8, <1>9 DEF v2, v1, us, PutOut, Held

\* Another directory: its parent holds its record.
LEMMA OtherEntries ==
  ASSUME SizesAssumption, Inv, NEW t \in Table, pc = t, NEW k, k = current, k > 1, MakeDirEntries(k, t)
  PROVE  LET p == ParentIdx(k)
             us == entries[t][p]
             self == Self(Ident(Last(rootDir[k].path), FALSE, t), k, t)
             i == FindDirEntry(us, Ident(Last(rootDir[k].path), FALSE, t))
         IN entries' = [entries EXCEPT ![t]
              = [entries[t] EXCEPT ![k] = Fresh(k, t), ![p] = Held(us, i, self)]]
<1>. DEFINE p == ParentIdx(k)
            us == entries[t][p]
            self == Self(Ident(Last(rootDir[k].path), FALSE, t), k, t)
            i == FindDirEntry(us, Ident(Last(rootDir[k].path), FALSE, t))
            loc == PlaceOf(k, t)
            len == EntriesSize(Listing(k, t), t)
<1>1. /\ Listed /\ k \in 1..N /\ N \in Nat /\ \A id : Self(id, k, t) = DirEntry(id, loc, len)
      /\ entries \in [Table -> Seq(Seq(EntryType))] /\ entries[t] \in Seq(Seq(EntryType))
         /\ Len(entries[t]) = N
      /\ \A j \in 1..N : j < k => Made(j, t)
  BY StepBegins
<1>2. p \in 1..(k - 1) /\ p # 0 /\ Up(k) = p /\ p \in 1..N /\ p < k /\ p # k
  <2>1. p \in 1..(k - 1) /\ Up(k) = p
    BY <1>1 DEF Listed, ParentsAre
  <2>2. QED BY <1>1, <2>1
<1>3. us[1] = Self(Dot, p, t)
  <2>1. Made(p, t)
    BY <1>1, <1>2
  <2>2. QED BY <2>1, Zenon DEF Made, MadeBy
<1>4. Self(DotDot, p, t) = DirEntry(DotDot, us[1].loc, us[1].len)
  BY <1>3 DEF Self, DirEntry
<1>5. self.loc = loc /\ self.len = len
  <2>. HIDE DEF loc, len
  <2>1. self = DirEntry(Ident(Last(rootDir[k].path), FALSE, t), loc, len)
    BY <1>1
  <2>. HIDE DEF self
  <2>2. QED BY <2>1 DEF DirEntry
<1>6. entries' = [entries EXCEPT ![t][k] = [Listing(k, t) EXCEPT ![1] = DirEntry(Dot, loc, len),
                                                                ![2] = DirEntry(DotDot, us[1].loc,
                                                                us[1].len)],
                                 ![t][p][i].loc = loc, ![t][p][i].len = len]
  BY <1>2 DEF MakeDirEntries
<1>7. [Listing(k, t) EXCEPT ![1] = DirEntry(Dot, loc, len),
      ![2] = DirEntry(DotDot, us[1].loc, us[1].len)] = Fresh(k, t)
  BY <1>1, <1>2, <1>4 DEF Fresh
<1>. HIDE DEF p, i, loc, len, self
<1>8. entries' = [entries EXCEPT ![t][k] = Fresh(k, t), ![t][p][i].loc = self.loc,
      ![t][p][i].len = self.len]
  BY <1>5, <1>6, <1>7
<1>9. DOMAIN entries = Table /\ entries = [s \in Table |-> entries[s]] /\ k \in DOMAIN entries[t]
      /\ p \in DOMAIN entries[t]
  BY <1>1, <1>2
<1>. DEFINE new == Fresh(k, t)
<1>10. entries' = Put(entries, t, k, p, i, new, self.loc, self.len)
  BY <1>8 DEF Put
<1>11. entries' = PutOut(entries, t, k, p, i, new, self)
  <2>1. k # p
    BY <1>2
  <2>. HIDE DEF new
  <2>2. QED BY <1>9, <1>10, <2>1, PutBoth
<1>12. QED BY <1>11 DEF p, i, self, PutOut

\* The entries of the table t when those of the first k directories are made.
MadeUpTo(k, t, new) ==
  /\ new \in [Table -> Seq(Seq(EntryType))]
  /\ \A s \in Table \ {t} : new[s] = entries[s]
  /\ Len(new[t]) = N
  /\ \A j \in 1..N : IF j <= k THEN MadeBy(new[t][j], new[t][Up(j)], j, t) ELSE new[t][j] = <<>>

LEMMA RootMade ==
  ASSUME SizesAssumption, Inv, NEW t \in Table, pc = t, current = 1, MakeDirEntries(1, t)
  PROVE  MadeUpTo(1, t, entries')
<1>. DEFINE new == Fresh(1, t)
<1>1. /\ Listed /\ N \in Nat /\ 1 \in 1..N /\ lba[t] = 0
      /\ entries \in [Table -> Seq(Seq(EntryType))] /\ entries[t] \in Seq(Seq(EntryType))
         /\ Len(entries[t]) = N
      /\ \A j \in 1..N : j >= 1 => entries[t][j] = <<>>
  BY StepBegins
<1>2. OwnMade(new, 1, t)
  <2>1. lba[t] \in Nat
    BY <1>1
  <2>2. QED BY <1>1, <2>1, FreshMade
<1>3. new \in Seq(EntryType)
  BY <1>2 DEF OwnMade
<1>4. MadeBy(new, new, 1, t)
  <2>1. HeldBy(new, 1, t)
    BY DEF HeldBy
  <2>. HIDE DEF new
  <2>2. QED BY <1>2, <2>1, MadeHalves
<1>5. entries' = [entries EXCEPT ![t] = [entries[t] EXCEPT ![1] = new]]
  BY RootEntries
<1>6. Up(1) = 1
  BY DEF Up
<1>. DEFINE es == entries[t]
            ns == [es EXCEPT ![1] = new]
<1>. HIDE DEF new, es
<1>7. es \in Seq(Seq(EntryType)) /\ Len(es) = N
  BY <1>1 DEF es
<1>8. ns \in Seq(Seq(EntryType)) /\ Len(ns) = N /\ ns[1] = new /\ \A j \in 1..N : j # 1 => ns[j] = es[j]
  BY <1>1, <1>3, <1>7
<1>9. entries' = [entries EXCEPT ![t] = ns]
  BY <1>5 DEF es
<1>. HIDE DEF ns
<1>10. entries' \in [Table -> Seq(Seq(EntryType))] /\ entries'[t] = ns
       /\ \A s \in Table \ {t} : entries'[s] = entries[s]
  BY <1>1, <1>8, <1>9
<1>11. ASSUME NEW j \in 1..N
       PROVE  IF j <= 1 THEN MadeBy(entries'[t][j], entries'[t][Up(j)], j, t) ELSE entries'[t][j] = <<>>
  <2>1. CASE j = 1
    BY <1>4, <1>6, <1>8, <1>10, <2>1
  <2>2. CASE j # 1
    <3>1. j >= 1 /\ ~(j <= 1)
      BY <1>1, <2>2
    <3>2. entries[t][j] = <<>>
      BY <1>1, <3>1
    <3>3. QED BY <1>8, <1>10, <2>2, <3>1, <3>2 DEF es
  <2>3. QED BY <2>1, <2>2
<1>12. QED BY <1>8, <1>10, <1>11 DEF MadeUpTo

LEMMA PutTwo ==
  ASSUME NEW X, NEW s \in Seq(X), NEW m, Len(s) = m, NEW k \in 1..m, NEW p \in 1..m, p # k,
         NEW a \in X, NEW b \in X
  PROVE  LET r == [s EXCEPT ![k] = a, ![p] = b]
         IN /\ r \in Seq(X) /\ Len(r) = m /\ r[k] = a /\ r[p] = b
            /\ \A j \in 1..m : j # k /\ j # p => r[j] = s[j]
<1>. DEFINE q == [s EXCEPT ![k] = a]
<1>1. q \in Seq(X) /\ Len(q) = m /\ q[k] = a /\ \A j \in 1..m : j # k => q[j] = s[j]
  OBVIOUS
<1>. HIDE DEF q
<1>2. LET r == [q EXCEPT ![p] = b]
      IN r \in Seq(X) /\ Len(r) = m /\ r[p] = b /\ \A j \in 1..m : j # p => r[j] = q[j]
  BY <1>1
<1>3. QED BY <1>1, <1>2 DEF q

LEMMA OtherMade ==
  ASSUME SizesAssumption, Inv, NEW t \in Table, pc = t, NEW k, k = current, k > 1, MakeDirEntries(k, t)
  PROVE  MadeUpTo(k, t, entries')
<1>. DEFINE p == ParentIdx(k)
            us == entries[t][p]
            id == Ident(Last(rootDir[k].path), FALSE, t)
            self == Self(id, k, t)
            i == FindDirEntry(us, id)
            vs == Held(us, i, self)
            new == Fresh(k, t)
            es == entries[t]
            ns == [es EXCEPT ![k] = new, ![p] = vs]
<1>1. /\ Listed /\ RootType /\ PathsKnown /\ N \in Nat /\ k \in 1..N /\ lba[t] = 0
      /\ entries \in [Table -> Seq(Seq(EntryType))] /\ entries[t] \in Seq(Seq(EntryType))
         /\ Len(entries[t]) = N
      /\ \A j \in 1..N : j < k => Made(j, t)
      /\ \A j \in 1..N : j >= k => entries[t][j] = <<>>
  BY StepBegins
<1>2. k \in 2..N /\ lba[t] \in Nat /\ k \in Nat
  BY <1>1
<1>3. p \in 1..N /\ p < k /\ p # k /\ Up(k) = p
  <2>1. p \in 1..(k - 1) /\ Up(k) = p
    BY <1>1 DEF Listed, ParentsAre
  <2>2. QED BY <1>1, <2>1
<1>4. OwnMade(new, k, t)
  BY <1>1, <1>2, FreshMade
<1>5. ASSUME NEW j \in 1..N, j < k
      PROVE  OwnMade(es[j], j, t) /\ HeldBy(es[Up(j)], j, t)
  BY <1>1, <1>5, MadeHalves DEF Made
<1>6. OwnMade(us, p, t)
  BY <1>3, <1>5
<1>7. /\ OwnMade(vs, p, t) /\ i \in 1..Len(us) /\ us[i].id = id /\ Len(vs) = Len(us) /\ vs[i] = self
      /\ \A e \in 1..Len(us) : e # i => vs[e] = us[e]
  <2>1. Listed /\ RootType /\ PathsKnown /\ k \in 2..N /\ lba[t] \in Nat
    BY <1>1, <1>2
  <2>2. i = FindDirEntry(us, Ident(Last(rootDir[k].path), FALSE, t))
        /\ self = Self(Ident(Last(rootDir[k].path), FALSE, t), k, t)
    OBVIOUS
  <2>. HIDE DEF us, i, self
  <2>3. OwnMade(us, ParentIdx(k), t)
    BY <1>6
  <2>4. OwnMade(Held(us, i, self), ParentIdx(k), t)
    BY <2>1, <2>2, <2>3, HolderMade
  <2>5. HeldAt(us, Held(us, i, self), i, Ident(Last(rootDir[k].path), FALSE, t), self)
    BY <2>1, <2>2, <2>3, HolderMade
  <2>6. QED BY <2>4, <2>5 DEF HeldAt
<1>8. entries' = [entries EXCEPT ![t] = ns]
  BY OtherEntries, Zenon
<1>9. es \in Seq(Seq(EntryType)) /\ Len(es) = N /\ new \in Seq(EntryType) /\ vs \in Seq(EntryType)
  BY <1>1, <1>4, <1>7 DEF OwnMade
<1>10. \A j \in 1..N : j < k => Up(j) \in 1..N /\ Up(j) < k
  <2>1. \A j \in 1..N : Up(j) \in 1..j /\ Up(j) \in 1..N
    BY <1>1 DEF Listed, ParentsAre
  <2>2. QED BY <1>1, <2>1, SMTT(30)
<1>11. ASSUME NEW j \in 1..N, j < k, Up(j) = p
       PROVE  HeldBy(vs, j, t)
  <2>. SUFFICES ASSUME j > 1, ~Clashes(j, t)
                PROVE  \E e \in 1..Len(vs) : vs[e] = Self(Ident(Last(rootDir[j].path), FALSE, t), j, t)
    BY DEF HeldBy
  <2>. DEFINE jd == Ident(Last(rootDir[j].path), FALSE, t)
  <2>1. HeldBy(us, j, t)
    BY <1>5, <1>11
  <2>2. PICK e \in 1..Len(us) : us[e] = Self(jd, j, t)
    BY <2>1 DEF HeldBy
  <2>3. us[e].id = jd
    BY <2>2 DEF Self, DirEntry
  <2>4. jd # id
    <3>1. ParentIdx(j) = p /\ ParentIdx(k) = p
      BY <1>1, <1>11 DEF Up
    <3>2. k \in DOMAIN rootDir /\ k # j
      BY <1>1, <1>2, <1>11 DEF N, RootType
    <3>3. k \in Children(ParentIdx(j)) \ {j}
      BY <3>1, <3>2 DEF Children
    <3>4. QED BY <3>3 DEF Clashes
  <2>5. e # i
    BY <1>7, <2>3, <2>4
  <2>6. vs[e] = us[e] /\ e \in 1..Len(vs)
    BY <1>7, <2>5
  <2>7. QED BY <2>2, <2>6
<1>12. HeldBy(vs, k, t)
  <2>1. i \in 1..Len(vs) /\ vs[i] = Self(Ident(Last(rootDir[k].path), FALSE, t), k, t)
    BY <1>7
  <2>2. QED BY <2>1 DEF HeldBy
<1>. HIDE DEF vs, new, es, p, us, i, id, self
<1>13. /\ ns \in Seq(Seq(EntryType)) /\ Len(ns) = N /\ ns[k] = new /\ ns[p] = vs
       /\ \A j \in 1..N : j # k /\ j # p => ns[j] = es[j]
  <2>1. k \in 1..N /\ p \in 1..N /\ p # k
    BY <1>1, <1>3
  <2>2. es \in Seq(Seq(EntryType)) /\ Len(es) = N /\ new \in Seq(EntryType) /\ vs \in Seq(EntryType)
    BY <1>9
  <2>3. ns \in Seq(Seq(EntryType)) /\ Len(ns) = N
    BY <2>1, <2>2, PutTwo
  <2>4. ns[k] = new /\ ns[p] = vs
    BY <2>1, <2>2, PutTwo
  <2>5. \A j \in 1..N : j # k /\ j # p => ns[j] = es[j]
    <3>. SUFFICES ASSUME NEW j \in 1..N, j # k, j # p PROVE ns[j] = es[j]
      OBVIOUS
    <3>1. j \in DOMAIN es
      BY <2>2
    <3>2. QED BY <3>1
  <2>6. QED BY <2>3, <2>4, <2>5
<1>. HIDE DEF ns
<1>14. entries' \in [Table -> Seq(Seq(EntryType))] /\ entries'[t] = ns
       /\ \A s \in Table \ {t} : entries'[s] = entries[s]
  BY <1>1, <1>8, <1>13
<1>15. ASSUME NEW j \in 1..N, j <= k
       PROVE  MadeBy(ns[j], ns[Up(j)], j, t)
  <2>1. CASE j = k
    <3>1. OwnMade(ns[j], j, t) /\ HeldBy(ns[Up(j)], j, t)
      BY <1>3, <1>4, <1>12, <1>13, <2>1
    <3>2. QED BY <3>1, MadeHalves
  <2>2. CASE j # k
    <3>1. j < k /\ Up(j) \in 1..N /\ Up(j) # k
      <4>1. j < k
        BY <1>1, <1>15, <2>2
      <4>2. Up(j) \in 1..N /\ Up(j) < k
        BY <1>10, <4>1
      <4>3. QED BY <1>2, <4>1, <4>2
    <3>2. OwnMade(ns[j], j, t)
      <4>1. CASE j = p
        BY <1>7, <1>13, <4>1
      <4>2. CASE j # p
        BY <1>5, <1>13, <2>2, <3>1, <4>2
      <4>3. QED BY <4>1, <4>2
    <3>3. HeldBy(ns[Up(j)], j, t)
      <4>1. CASE Up(j) = p
        BY <1>11, <1>13, <3>1, <4>1
      <4>2. CASE Up(j) # p
        BY <1>5, <1>13, <3>1, <4>2
      <4>3. QED BY <4>1, <4>2
    <3>4. QED BY <3>2, <3>3, MadeHalves
  <2>3. QED BY <2>1, <2>2
<1>16. ASSUME NEW j \in 1..N, ~(j <= k)
       PROVE  ns[j] = <<>>
  <2>1. j >= k /\ j # k /\ j # p
    BY <1>1, <1>2, <1>3, <1>16
  <2>2. QED BY <1>1, <1>13, <2>1 DEF es
<1>17. QED BY <1>13, <1>14, <1>15, <1>16 DEF MadeUpTo

After(t) == IF t = "iso" THEN "joliet" ELSE "tables"

LEMMA EntriesStep ==
  ASSUME SizesAssumption, Inv, NEW t \in Table, pc = t, MakeDirEntries(current, t),
         UNCHANGED <<tree, scanned, rootDir, pathTable, placed, encoded>>,
         IF current = N THEN pc' = After(t) /\ current' = 1 ELSE current' = current + 1 /\ pc' = pc
  PROVE  Inv'
<1>. DEFINE k == current
<1>1. Listed /\ N \in Nat /\ k \in 1..N /\ EntriesMade /\ ScanInv /\ ~Scanning /\ ~Late /\ queue = <<>>
  BY StepBegins DEF Inv, Scanning, Late, Table, Stage
<1>2. MadeUpTo(k, t, entries')
  <2>1. PICK m : m = k
    OBVIOUS
  <2>2. MakeDirEntries(m, t)
    BY <2>1
  <2>3. CASE k = 1
    <3>1. MakeDirEntries(1, t) /\ current = 1
      BY <2>1, <2>2, <2>3
    <3>2. MadeUpTo(1, t, entries')
      BY <3>1, RootMade
    <3>3. QED BY <2>3, <3>2
  <2>4. CASE k # 1
    <3>1. m > 1 /\ m = current
      BY <1>1, <2>1, <2>4
    <3>2. MadeUpTo(m, t, entries')
      BY <2>2, <3>1, OtherMade
    <3>3. QED BY <2>1, <3>2
  <2>5. QED BY <2>3, <2>4
<1>3. UNCHANGED <<tree, scanned, rootDir, lba>> /\ UNCHANGED <<padAreaStart, totalSize, fsSize, queue>>
  BY DEF placed, encoded, scanned
<1>4. ScanInv' /\ Listed'
  <2>1. ScanInv'
    BY <1>1, <1>3, ScanKept
  <2>2. ScanInv' => Listed'
    BY ListedNow, PTL
  <2>3. QED BY <2>1, <2>2
<1>5. N' = N
  BY <1>3 DEF N
<1>6. pc' \in {"iso", "joliet", "tables"} /\ pc' # "place" /\ ~Scanning' /\ ~Late'
  BY DEF Table, After, Scanning, Late
<1>7. \A s \in Table \ {t} : Done(s)' = Done(s)
  <2>1. CASE t = "iso"
    <3>1. Table \ {t} = {"joliet"}
      BY <2>1 DEF Table
    <3>2. Done("joliet") = 0
      BY <1>1, <2>1 DEF Done
    <3>3. Done("joliet")' = 0
      BY <1>6, <2>1 DEF Done, After
    <3>4. QED BY <3>1, <3>2, <3>3
  <2>2. CASE t = "joliet"
    <3>1. Table \ {t} = {"iso"}
      BY <2>2 DEF Table
    <3>2. Done("iso") = N
      BY <1>1, <2>2 DEF Done
    <3>3. Done("iso")' = N
      BY <1>5, <1>6, <2>2 DEF Done, After
    <3>4. QED BY <3>1, <3>2, <3>3
  <2>3. QED BY <2>1, <2>2 DEF Table
<1>8. Done(t)' = k
  <2>1. CASE k = N
    <3>1. pc' = After(t)
      BY <2>1
    <3>2. QED BY <1>5, <1>6, <2>1, <3>1 DEF Done, After, Table
  <2>2. CASE k # N
    <3>1. pc' = t /\ current' - 1 = k
      BY <1>1, <2>2
    <3>2. QED BY <1>6, <3>1 DEF Done, Table
  <2>3. QED BY <2>1, <2>2
<1>9. EntriesMade'
  <2>1. entries' \in [Table -> Seq(Seq(EntryType))]
    BY <1>2 DEF MadeUpTo
  <2>2. ASSUME NEW j \in 1..N
        PROVE  IF j <= Done(t)' THEN Made(j, t)' ELSE entries'[t][j] = <<>>
    <3>1. IF j <= k THEN MadeBy(entries'[t][j], entries'[t][Up(j)], j, t) ELSE entries'[t][j] = <<>>
      BY <1>2 DEF MadeUpTo
    <3>2. Made(j, t)' <=> MadeBy(entries'[t][j], entries'[t][Up(j)], j, t)
      BY <1>1, <1>3, <1>4, MadeSame
    <3>3. QED BY <1>8, <3>1, <3>2
  <2>3. ASSUME NEW s \in Table, s # t
        PROVE  /\ Len(entries'[s]) = N
               /\ \A j \in 1..N : IF j <= Done(s)' THEN Made(j, s)' ELSE entries'[s][j] = <<>>
    <3>1. entries'[s] = entries[s] /\ Len(entries[s]) = N
      BY <1>1, <1>2, <2>3 DEF MadeUpTo, EntriesMade
    <3>2. ASSUME NEW j \in 1..N
          PROVE  IF j <= Done(s)' THEN Made(j, s)' ELSE entries'[s][j] = <<>>
      <4>1. IF j <= Done(s) THEN Made(j, s) ELSE entries[s][j] = <<>>
        BY <1>1 DEF EntriesMade
      <4>2. Made(j, s)' <=> MadeBy(entries'[s][j], entries'[s][Up(j)], j, s)
        BY <1>1, <1>3, <1>4, MadeSame
      <4>3. Made(j, s)' <=> Made(j, s)
        BY <3>1, <4>2 DEF Made
      <4>4. Done(s)' = Done(s)
        BY <1>7, <2>3
      <4>5. QED BY <3>1, <4>1, <4>3, <4>4
    <3>3. QED BY <3>1, <3>2
  <2>4. Len(entries'[t]) = N
    BY <1>2 DEF MadeUpTo
  <2>5. \A s \in Table : /\ Len(entries'[s]) = N'
                         /\ \A j \in 1..N' : IF j <= Done(s)' THEN Made(j, s)'
                              ELSE entries'[s][j] = <<>>
    <3>1. SUFFICES ASSUME NEW s \in Table
                   PROVE  /\ Len(entries'[s]) = N
                          /\ \A j \in 1..N : IF j <= Done(s)' THEN Made(j, s)'
                               ELSE entries'[s][j] = <<>>
      BY <1>5
    <3>2. CASE s = t
      BY <2>2, <2>4, <3>2
    <3>3. CASE s # t
      BY <2>3, <3>3
    <3>4. QED BY <3>2, <3>3
  <2>6. QED BY <2>1, <2>5 DEF EntriesMade
<1>10. Stage'
  <2>1. IF pc' \in {"iso", "joliet"} THEN current' \in 1..N ELSE current' = 1
    <3>1. CASE k = N
      BY <1>1, <3>1 DEF After
    <3>2. CASE k # N
      BY <1>1, <3>2 DEF Table
    <3>3. QED BY <3>1, <3>2
  <2>2. lba' = [iso |-> 0, joliet |-> 0, files |-> 0]
    BY <1>1, <1>3 DEF Inv, Stage, Table
  <2>3. N > 0 /\ queue' = <<>>
    BY <1>1, <1>3
  <2>4. QED BY <1>5, <1>6, <2>1, <2>2, <2>3 DEF Stage
<1>11. Counted'
  BY <1>3, <1>6 DEF Inv, Counted
<1>12. Tables' /\ Placed' /\ EncodedSoFar'
  BY <1>6 DEF Tables, Placed, EncodedSoFar, Late
<1>13. QED BY <1>4, <1>9, <1>10, <1>11, <1>12 DEF Inv

LEMMA MakeIsoEntriesKeeps ==
  ASSUME SizesAssumption, Inv, MakeIsoEntries
  PROVE  Inv'
<1>1. "iso" \in Table /\ pc = "iso" /\ MakeDirEntries(current, "iso")
  BY DEF MakeIsoEntries, Table
<1>2. IF current = N THEN pc' = After("iso") /\ current' = 1 ELSE current' = current + 1 /\ pc' = pc
  BY DEF MakeIsoEntries, N, After
<1>3. UNCHANGED <<tree, scanned, rootDir, pathTable, placed, encoded>>
  BY DEF MakeIsoEntries, input
<1>4. QED BY <1>1, <1>2, <1>3, EntriesStep

LEMMA MakeJolietEntriesKeeps ==
  ASSUME SizesAssumption, Inv, MakeJolietEntries
  PROVE  Inv'
<1>1. "joliet" \in Table /\ pc = "joliet" /\ MakeDirEntries(current, "joliet")
  BY DEF MakeJolietEntries, Table
<1>2. IF current = N THEN pc' = After("joliet") /\ current' = 1 ELSE current' = current + 1 /\ pc' = pc
  BY DEF MakeJolietEntries, N, After
<1>3. UNCHANGED <<tree, scanned, rootDir, pathTable, placed, encoded>>
  BY DEF MakeJolietEntries, input
<1>4. QED BY <1>1, <1>2, <1>3, EntriesStep
-----------------------------------------------------------------------------
(* Scanning a directory.                                                   *)

Items(path, isDir) == {n \in Names : Append(path, n) \in DOMAIN tree
/\ tree[Append(path, n)].dir = isDir}
DirNames(path) == Selected(NameOrder, Items(path, TRUE))
FileNames(path) == Selected(NameOrder, Items(path, FALSE))
ItemSectors(path) == [i \in DOMAIN FileNames(path) |-> Sectors(tree[Append(path,
FileNames(path)[i])].size)]
ItemFiles(path) ==
  [i \in DOMAIN FileNames(path) |->
     [name |-> FileNames(path)[i], size |-> tree[Append(path, FileNames(path)[i])].size,
      rLBA |-> filesSizeSectors + Sums(ItemSectors(path))[i - 1]]]

LEMMA ItemNames ==
  ASSUME SizesAssumption, tree \in Trees, NEW path
  PROVE  /\ DirNames(path) \in Seq(Names) /\ FileNames(path) \in Seq(Names)
         /\ Len(DirNames(path)) \in Nat /\ Len(FileNames(path)) \in Nat
         /\ \A e \in 1..Len(DirNames(path)) : tree[Append(path, DirNames(path)[e])].dir = TRUE
         /\ \A d, e \in 1..Len(DirNames(path)) : DirNames(path)[d] = DirNames(path)[e] => d = e
         /\ \A e \in 1..Len(FileNames(path)) : tree[Append(path, FileNames(path)[e])].size \in Nat
<1>1. NameOrder \in Seq(Names) /\ \A i, j \in 1..Len(NameOrder) : NameOrder[i] = NameOrder[j] => i = j
  BY SizesAssumption DEF SizesAssumption, IsInjective
<1>2. DirNames(path) \in Seq(Names) /\ FileNames(path) \in Seq(Names)
      /\ Len(DirNames(path)) \in Nat /\ Len(FileNames(path)) \in Nat
  BY <1>1, SelectedOf DEF DirNames, FileNames
<1>3. \A e \in 1..Len(DirNames(path)) : DirNames(path)[e] \in Items(path, TRUE)
  BY <1>1, SelectedOf DEF DirNames
<1>4. \A e \in 1..Len(FileNames(path)) : FileNames(path)[e] \in Items(path, FALSE)
  BY <1>1, SelectedOf DEF FileNames
<1>5. \A d, e \in 1..Len(DirNames(path)) : DirNames(path)[d] = DirNames(path)[e] => d = e
  BY <1>1, SelectedOf DEF DirNames
<1>6. \A n \in Items(path, TRUE) : tree[Append(path, n)].dir = TRUE
  BY DEF Items
<1>7. \A n \in Items(path, FALSE) : tree[Append(path, n)].size \in Nat
  BY SizesAssumption DEF Items, SizesAssumption
<1>8. QED BY <1>2, <1>3, <1>4, <1>5, <1>6, <1>7

LEMMA ItemFilesAre ==
  ASSUME SizesAssumption, tree \in Trees, NEW path, filesSizeSectors \in Nat
  PROVE  /\ ItemSectors(path) \in Seq(Nat) /\ ItemFiles(path) \in Seq(FileType)
         /\ Len(ItemFiles(path)) = Len(ItemSectors(path)) /\ Len(ItemFiles(path)) \in Nat
         /\ \A i \in 1..Len(ItemFiles(path)) :
              /\ ItemFiles(path)[i].rLBA = filesSizeSectors + Sums(ItemSectors(path))[i - 1]
              /\ Sectors(ItemFiles(path)[i].size) = ItemSectors(path)[i]
<1>. DEFINE names == FileNames(path)
            n == Len(names)
            size(i) == tree[Append(path, names[i])].size
            sectors == ItemSectors(path)
            files == ItemFiles(path)
<1>1. names \in Seq(Names) /\ n \in Nat /\ DOMAIN names = 1..n /\ \A i \in 1..n : size(i) \in Nat
      /\ names[i] \in Names
  <2>1. names \in Seq(Names) /\ n \in Nat
    BY ItemNames
  <2>2. \A i \in 1..n : size(i) \in Nat
    BY ItemNames
  <2>. HIDE DEF names, size
  <2>3. QED BY <2>1, <2>2
<1>. HIDE DEF names, n, size
<1>2. sectors = [i \in 1..n |-> Sectors(size(i))]
  BY <1>1 DEF ItemSectors, names, size
<1>3. \A i \in 1..n : Sectors(size(i)) \in Nat
  BY <1>1, SectorsOf
<1>4. sectors \in Seq(Nat) /\ Len(sectors) = n /\ \A i \in 1..n : sectors[i] = Sectors(size(i))
  BY <1>1, <1>2, <1>3
<1>5. \A i \in 1..n : Sums(sectors)[i - 1] \in Nat
  BY <1>4, SumsType
<1>6. files = [i \in 1..n |-> [name |-> names[i], size |-> size(i),
      rLBA |-> filesSizeSectors + Sums(sectors)[i - 1]]]
  BY <1>1 DEF ItemFiles, names, size
<1>. HIDE DEF sectors, files
<1>7. \A i \in 1..n : files[i] \in FileType /\ files[i].size = size(i)
      /\ files[i].rLBA = filesSizeSectors + Sums(sectors)[i - 1]
  BY <1>1, <1>5, <1>6 DEF FileType
<1>8. files \in Seq(FileType) /\ Len(files) = n
  BY <1>1, <1>6, <1>7
<1>9. QED BY <1>1, <1>4, <1>7, <1>8 DEF sectors, files

LEMMA ScanDirectoryIs ==
  ASSUME Inv, ScanDirectory
  PROVE  LET path == Head(queue)
         IN /\ RootType /\ PathsKnown /\ FilesPlaced /\ tree \in Trees /\ filesSizeSectors \in Nat
               /\ N \in Nat
            /\ pc = "scan" /\ queue # <<>> /\ path \in Seq(Names) /\ Len(queue) \in Nat \ {0}
            /\ lba = [iso |-> 0, joliet |-> 0, files |-> 0] /\ current = 1
            /\ queue' = Tail(queue) \o [i \in DOMAIN DirNames(path) |-> Append(path, DirNames(path)[i])]
            /\ rootDir' = Append(rootDir, [path |-> path, files |-> ItemFiles(path)])
            /\ entries' = [t \in Table |-> Append(entries[t], <<>>)]
            /\ filesSizeSectors' = filesSizeSectors + Sum(ItemSectors(path))
            /\ pc' = IF queue' = <<>> THEN "iso" ELSE "scan"
            /\ UNCHANGED <<tree, current, pathTable, lba, padAreaStart, totalSize, descriptors,
               written, fsSize>>
<1>1. RootType /\ PathsKnown /\ FilesPlaced /\ pc = "scan" /\ queue # <<>>
  BY DEF Inv, ScanInv, ScanDirectory
<1>2. tree \in Trees /\ filesSizeSectors \in Nat /\ N \in Nat /\ Len(queue) \in Nat \ {0}
      /\ Head(queue) \in Seq(Names)
  BY <1>1 DEF RootType, N
<1>3. lba = [iso |-> 0, joliet |-> 0, files |-> 0] /\ current = 1
  BY <1>1 DEF Inv, Stage, Scanning
<1>4. /\ queue' = Tail(queue) \o [i \in DOMAIN DirNames(Head(queue)) |-> Append(Head(queue),
         DirNames(Head(queue))[i])]
      /\ rootDir' = Append(rootDir, [path |-> Head(queue), files |-> ItemFiles(Head(queue))])
      /\ entries' = [t \in Table |-> Append(entries[t], <<>>)]
      /\ filesSizeSectors' = filesSizeSectors + Sum(ItemSectors(Head(queue)))
      /\ pc' = IF queue' = <<>> THEN "iso" ELSE "scan"
  BY Zenon DEF ScanDirectory, Items, DirNames, FileNames, ItemFiles, ItemSectors
<1>5. UNCHANGED <<tree, current, pathTable, lba, padAreaStart, totalSize, descriptors, written, fsSize>>
  BY DEF ScanDirectory, input, placed, encoded
<1>6. QED BY <1>1, <1>2, <1>3, <1>4, <1>5

\* The directories known after a step: those known before it, then those found below path.
KnownSo(path) ==
  /\ N' = N + 1 /\ Known' = Known + Len(DirNames(path)) /\ Known \in Nat /\ N \in Nat /\ N < Known
  /\ \A i \in 1..Known : PathOf(i)' = PathOf(i) /\ PathOf(i) \in Seq(Names)
  /\ \A i \in 1..Known' : i \in 1..Known
     \/ (i - Known \in 1..Len(DirNames(path))
     /\ PathOf(i)' = Append(path, DirNames(path)[i - Known]))
  /\ \A j \in 1..N : rootDir'[j] = rootDir[j] /\ PathOf(j) = rootDir[j].path
  /\ rootDir'[N + 1].path = path /\ PathOf(N + 1) = path /\ path \in Seq(Names)

LEMMA ScanTypes ==
  ASSUME SizesAssumption, Inv, ScanDirectory
  PROVE  RootType'
<1>. DEFINE path == Head(queue)
            X == [path : Seq(Names), files : Seq(FileType)]
            r == [path |-> path, files |-> ItemFiles(path)]
            more == [i \in DOMAIN DirNames(path) |-> Append(path, DirNames(path)[i])]
<1>1. /\ RootType /\ tree \in Trees /\ tree' = tree /\ lba' = lba /\ filesSizeSectors \in Nat
         /\ queue # <<>>
      /\ path \in Seq(Names) /\ rootDir' = Append(rootDir, r) /\ queue' = Tail(queue) \o more
      /\ filesSizeSectors' = filesSizeSectors + Sum(ItemSectors(path))
  BY ScanDirectoryIs
<1>2. r \in X
  <2>1. ItemFiles(path) \in Seq(FileType)
    BY <1>1, ItemFilesAre
  <2>2. QED BY <1>1, <2>1
<1>3. rootDir \in Seq(X) /\ queue \in Seq(Seq(Names)) /\ lba \in [iso : Nat, joliet : Nat, files : Nat]
  BY <1>1 DEF RootType
<1>4. more \in Seq(Seq(Names))
  <2>. DEFINE ds == DirNames(path)
  <2>1. ds \in Seq(Names) /\ Len(ds) \in Nat
    BY <1>1, ItemNames
  <2>. HIDE DEF ds
  <2>2. DOMAIN ds = 1..Len(ds) /\ \A i \in 1..Len(ds) : Append(path, ds[i]) \in Seq(Names)
    BY <1>1, <2>1
  <2>3. [i \in DOMAIN ds |-> Append(path, ds[i])] \in Seq(Seq(Names))
    BY <2>1, <2>2
  <2>4. QED BY <2>3 DEF ds
<1>5. Sum(ItemSectors(path)) \in Nat
  BY <1>1, ItemFilesAre, SumsType
<1>. HIDE DEF X, r, more, path
<1>6. rootDir' \in Seq(X)
  BY <1>1, <1>2, <1>3
<1>7. queue' \in Seq(Seq(Names))
  BY <1>1, <1>3, <1>4
<1>8. filesSizeSectors' \in Nat
  BY <1>1, <1>5
<1>9. QED BY <1>1, <1>3, <1>6, <1>7, <1>8 DEF RootType, X

LEMMA ScanKnows ==
  ASSUME SizesAssumption, Inv, ScanDirectory
  PROVE  KnownSo(Head(queue))
<1>. DEFINE path == Head(queue)
            ds == DirNames(path)
            r == [path |-> path, files |-> ItemFiles(path)]
            X == [path : Seq(Names), files : Seq(FileType)]
            more == [i \in DOMAIN ds |-> Append(path, ds[i])]
<1>1. /\ RootType /\ RootType' /\ tree \in Trees /\ N \in Nat /\ queue # <<>> /\ path \in Seq(Names)
      /\ rootDir' = Append(rootDir, r) /\ queue' = Tail(queue) \o more
  BY ScanDirectoryIs, ScanTypes
<1>2. rootDir \in Seq(X) /\ rootDir' \in Seq(X) /\ queue \in Seq(Seq(Names))
      /\ queue' \in Seq(Seq(Names))
  BY <1>1 DEF RootType
<1>3. ds \in Seq(Names) /\ Len(ds) \in Nat
  BY <1>1, ItemNames
<1>4. r.path = path
  OBVIOUS
<1>. HIDE DEF ds, r, X, path
<1>5. Len(more) = Len(ds) /\ more \in Seq(Seq(Names))
      /\ \A e \in 1..Len(ds) : more[e] = Append(path, ds[e])
  <2>1. DOMAIN ds = 1..Len(ds) /\ \A i \in 1..Len(ds) : Append(path, ds[i]) \in Seq(Names)
    BY <1>1, <1>3
  <2>2. more = [i \in 1..Len(ds) |-> Append(path, ds[i])]
    BY <2>1
  <2>. HIDE DEF more
  <2>3. QED BY <1>3, <2>1, <2>2
<1>. HIDE DEF more
<1>6. /\ N' = N + 1 /\ rootDir'[N + 1] = r /\ \A j \in 1..N : rootDir'[j] = rootDir[j]
  <2>1. Len(rootDir') = Len(rootDir) + 1 /\ rootDir'[Len(rootDir) + 1] = r
    BY <1>1, <1>2
  <2>2. \A j \in 1..Len(rootDir) : rootDir'[j] = rootDir[j]
    BY <1>1, <1>2
  <2>3. QED BY <2>1, <2>2 DEF N
<1>. DEFINE tail == Tail(queue)
            q == Len(queue)
<1>7. q \in Nat /\ q > 0 /\ tail \in Seq(Seq(Names)) /\ Len(tail) = q - 1
      /\ \A i \in 1..(q - 1) : tail[i] = queue[i + 1]
  BY <1>1, <1>2
<1>8. queue[1] = path /\ \A i \in 1..q : queue[i] \in Seq(Names)
  BY <1>1, <1>2, <1>7 DEF path
<1>. HIDE DEF tail
<1>9. /\ Len(queue') = q - 1 + Len(ds) /\ \A i \in 1..(q - 1) : queue'[i] = queue[i + 1]
      /\ \A e \in 1..Len(ds) : queue'[q - 1 + e] = Append(path, ds[e])
  <2>1. queue' = tail \o more
    BY <1>1 DEF tail
  <2>2. Len(queue') = q - 1 + Len(ds)
    <3>1. Len(tail \o more) = Len(tail) + Len(more)
      BY <1>5, <1>7, Joined
    <3>2. QED BY <1>5, <1>7, <2>1, <3>1
  <2>3. ASSUME NEW i \in 1..(q - 1) PROVE queue'[i] = queue[i + 1]
    <3>1. i \in 1..Len(tail)
      BY <1>7
    <3>2. (tail \o more)[i] = tail[i]
      BY <1>5, <1>7, <3>1, Joined
    <3>3. QED BY <1>7, <2>1, <3>2
  <2>4. ASSUME NEW e \in 1..Len(ds) PROVE queue'[q - 1 + e] = Append(path, ds[e])
    <3>1. (tail \o more)[Len(tail) + e] = more[e]
      BY <1>5, <1>7, Joined
    <3>2. QED BY <1>5, <1>7, <2>1, <3>1
  <2>5. QED BY <2>2, <2>3, <2>4
<1>. HIDE DEF q
<1>10. Known = N + q /\ Known' = N + q + Len(ds) /\ Known \in Nat /\ N < Known
  <2>1. Known' = N' + Len(queue')
    BY DEF Known
  <2>2. Known = N + q
    BY DEF Known, q
  <2>3. Known' = N + 1 + (q - 1 + Len(ds))
    BY <1>6, <1>9, <2>1
  <2>4. QED BY <1>1, <1>3, <1>7, <2>2, <2>3
<1>11. \A j \in 1..N : PathOf(j) = rootDir[j].path /\ rootDir[j].path \in Seq(Names)
  <2>1. \A j \in 1..N : j <= N
    BY <1>1
  <2>2. \A j \in 1..N : rootDir[j] \in X
    BY <1>2 DEF N
  <2>3. QED BY <2>1, <2>2 DEF PathOf, X
<1>12. PathOf(N + 1) = path
  BY <1>1, <1>8 DEF PathOf
<1>13. \A i : PathOf(i)' = IF i <= N' THEN rootDir'[i].path ELSE queue'[i - N']
  BY DEF PathOf
<1>14. ASSUME NEW i \in 1..Known PROVE PathOf(i)' = PathOf(i) /\ PathOf(i) \in Seq(Names)
  <2>1. CASE i <= N
    <3>1. i \in 1..N /\ i <= N'
      BY <1>1, <1>6, <1>10, <2>1
    <3>2. QED BY <1>6, <1>11, <1>13, <3>1
  <2>2. CASE i = N + 1
    <3>1. i <= N'
      BY <1>1, <1>6, <2>2
    <3>2. PathOf(i)' = rootDir'[i].path
      BY <1>13, <3>1
    <3>3. QED BY <1>1, <1>4, <1>6, <1>12, <2>2, <3>2
  <2>3. CASE i > N + 1
    <3>1. ~(i <= N) /\ ~(i <= N') /\ i - N \in 1..q /\ i - (N + 1) \in 1..(q - 1)
          /\ i - (N + 1) + 1 = i - N
      BY <1>1, <1>6, <1>7, <1>10, <2>3
    <3>2. PathOf(i)' = queue'[i - (N + 1)] /\ PathOf(i) = queue[i - N]
      BY <1>6, <1>13, <3>1 DEF PathOf
    <3>3. QED BY <1>8, <1>9, <3>1, <3>2
  <2>4. QED BY <1>1, <1>10, <2>1, <2>2, <2>3
<1>15. \A i \in 1..Known' : i \in 1..Known
       \/ (i - Known \in 1..Len(ds) /\ PathOf(i)' = Append(path, ds[i - Known]))
  <2>. SUFFICES ASSUME NEW i \in 1..Known', i \notin 1..Known
                PROVE  i - Known \in 1..Len(ds) /\ PathOf(i)' = Append(path, ds[i - Known])
    OBVIOUS
  <2>1. i - Known \in 1..Len(ds)
    BY <1>1, <1>3, <1>7, <1>10
  <2>2. ~(i <= N') /\ i - N' = q - 1 + (i - Known)
    BY <1>1, <1>3, <1>6, <1>7, <1>10, <2>1
  <2>3. PathOf(i)' = queue'[q - 1 + (i - Known)]
    BY <1>13, <2>2
  <2>4. QED BY <1>9, <2>1, <2>3
<1>16. QED BY <1>1, <1>4, <1>6, <1>10, <1>11, <1>12, <1>14, <1>15 DEF KnownSo, ds, path

LEMMA ScanPaths ==
  ASSUME SizesAssumption, Inv, ScanDirectory
  PROVE  PathsKnown'
<1>. DEFINE path == Head(queue)
            ds == DirNames(path)
            m == Len(ds)
<1>1. /\ PathsKnown /\ tree \in Trees /\ tree' = tree /\ KnownSo(path)
  BY ScanDirectoryIs, ScanKnows
<1>2. /\ ds \in Seq(Names) /\ m \in Nat
      /\ \A e \in 1..m : tree[Append(path, ds[e])].dir = TRUE
      /\ \A d, e \in 1..m : ds[d] = ds[e] => d = e
  BY <1>1, ItemNames
<1>3. /\ N' = N + 1 /\ Known' = Known + m /\ Known \in Nat /\ N \in Nat /\ N < Known
      /\ \A i \in 1..Known : PathOf(i)' = PathOf(i) /\ PathOf(i) \in Seq(Names)
      /\ \A i \in 1..Known' : i \in 1..Known
         \/ (i - Known \in 1..m /\ PathOf(i)' = Append(path, ds[i - Known]))
      /\ \A j \in 1..N : rootDir'[j] = rootDir[j] /\ PathOf(j) = rootDir[j].path
      /\ rootDir'[N + 1].path = path /\ PathOf(N + 1) = path /\ path \in Seq(Names)
  BY <1>1 DEF KnownSo
<1>. HIDE DEF ds, m, path
<1>4. \A e \in 1..m : ds[e] \in Names
  BY <1>2 DEF m
<1>5. \A i, j \in 1..Known : PathOf(i) = PathOf(j) => i = j
  BY <1>1 DEF PathsKnown
<1>6. \A i \in 2..Known : tree[PathOf(i)].dir /\ \E j \in 1..N : j < i
      /\ \E n \in Names : PathOf(i) = Append(rootDir[j].path, n)
  BY <1>1 DEF PathsKnown
<1>7. PathOf(1) = <<>>
  BY <1>1 DEF PathsKnown
<1>8. \A s \in Seq(Names) : \A n \in Names : Append(s, n) # <<>> /\ Front(Append(s, n)) = s
      /\ Last(Append(s, n)) = n
  BY Appended
<1>9. ASSUME NEW i \in 1..Known, NEW n \in Names, PathOf(i) = Append(path, n)
      PROVE  FALSE
  <2>1. i \in 2..Known
    BY <1>3, <1>7, <1>8, <1>9
  <2>2. PICK j \in 1..N, nn \in Names : PathOf(i) = Append(rootDir[j].path, nn)
    BY <1>6, <2>1
  <2>3. PathOf(j) = rootDir[j].path /\ j \in 1..Known /\ N + 1 \in 1..Known /\ j # N + 1
    BY <1>3
  <2>4. PathOf(j) \in Seq(Names)
    BY <1>3, <2>3
  <2>5. PathOf(j) = path
    <3>1. Append(path, n) = Append(PathOf(j), nn)
      BY <1>9, <2>2, <2>3
    <3>2. path \in Seq(Names)
      BY <1>3
    <3>3. Front(Append(path, n)) = path /\ Front(Append(PathOf(j), nn)) = PathOf(j)
      BY <1>8, <2>4, <3>2
    <3>4. QED BY <3>1, <3>3
  <2>6. QED BY <1>3, <1>5, <2>3, <2>5
<1>10. ASSUME NEW i \in 1..Known', NEW j \in 1..Known', PathOf(i)' = PathOf(j)'
       PROVE  i = j
  <2>1. CASE i \in 1..Known /\ j \in 1..Known
    <3>1. PathOf(i)' = PathOf(i) /\ PathOf(j)' = PathOf(j)
      BY <1>3, <2>1
    <3>2. PathOf(i) = PathOf(j)
      BY <1>10, <3>1
    <3>3. QED BY <1>5, <2>1, <3>2
  <2>2. CASE i \in 1..Known /\ j \notin 1..Known
    <3>1. j - Known \in 1..m /\ PathOf(j)' = Append(path, ds[j - Known])
      BY <1>3, <1>10, <2>2
    <3>2. PathOf(i)' = PathOf(i)
      BY <1>3, <2>2
    <3>3. ds[j - Known] \in Names /\ PathOf(i) = Append(path, ds[j - Known])
      BY <1>4, <1>10, <3>1, <3>2
    <3>4. QED BY <1>9, <2>2, <3>3
  <2>3. CASE i \notin 1..Known /\ j \in 1..Known
    <3>1. i - Known \in 1..m /\ PathOf(i)' = Append(path, ds[i - Known])
      BY <1>3, <1>10, <2>3
    <3>2. PathOf(j)' = PathOf(j)
      BY <1>3, <2>3
    <3>3. ds[i - Known] \in Names /\ PathOf(j) = Append(path, ds[i - Known])
      BY <1>4, <1>10, <3>1, <3>2
    <3>4. QED BY <1>9, <2>3, <3>3
  <2>4. CASE i \notin 1..Known /\ j \notin 1..Known
    <3>1. i - Known \in 1..m /\ j - Known \in 1..m
          /\ Append(path, ds[i - Known]) = Append(path, ds[j - Known])
      BY <1>3, <1>10, <2>4
    <3>2. ds[i - Known] = ds[j - Known]
      BY <1>3, <1>4, <1>8, <3>1
    <3>3. i - Known = j - Known
      BY <1>2, <3>1, <3>2
    <3>4. QED BY <1>3, <1>2, <3>3
  <2>5. QED BY <2>1, <2>2, <2>3, <2>4
<1>11. ASSUME NEW i \in 2..Known'
       PROVE  tree'[PathOf(i)'].dir /\ \E j \in 1..N' : j < i
              /\ \E n \in Names : PathOf(i)' = Append(rootDir'[j].path, n)
  <2>1. CASE i \in 1..Known
    <3>1. i \in 2..Known /\ PathOf(i)' = PathOf(i)
      BY <1>3, <2>1
    <3>2. tree[PathOf(i)].dir
      BY <1>6, <3>1
    <3>3. PICK j \in 1..N : j < i /\ \E n \in Names : PathOf(i) = Append(rootDir[j].path, n)
      BY <1>6, <3>1
    <3>4. j \in 1..N' /\ rootDir'[j] = rootDir[j]
      BY <1>3
    <3>5. QED BY <1>1, <3>1, <3>2, <3>3, <3>4
  <2>2. CASE i \notin 1..Known
    <3>1. i \in 1..Known'
      BY <1>2, <1>3
    <3>2. i - Known \in 1..m /\ PathOf(i)' = Append(path, ds[i - Known])
      BY <1>3, <2>2, <3>1
    <3>3. N + 1 \in 1..N' /\ N + 1 < i
      BY <1>2, <1>3, <2>2
    <3>4. tree'[PathOf(i)'].dir
      BY <1>1, <1>2, <3>2
    <3>5. \E n \in Names : PathOf(i)' = Append(rootDir'[N + 1].path, n)
      BY <1>3, <1>4, <3>2
    <3>6. QED BY <3>3, <3>4, <3>5
  <2>3. QED BY <2>1, <2>2
<1>12. Known' > 0 /\ PathOf(1)' = <<>>
  <2>1. 1 \in 1..Known
    BY <1>3
  <2>2. QED BY <1>2, <1>3, <1>7, <2>1
<1>13. QED BY <1>10, <1>11, <1>12 DEF PathsKnown

LEMMA ScanFiles ==
  ASSUME SizesAssumption, Inv, ScanDirectory
  PROVE  FilesPlaced'
<1>. DEFINE path == Head(queue)
            files == ItemFiles(path)
            sectors == ItemSectors(path)
            n == Len(AllFiles)
            fs == FileSectors
            base == filesSizeSectors
<1>1. /\ RootType /\ FilesPlaced /\ tree \in Trees /\ base \in Nat /\ N \in Nat
      /\ lba' = lba /\ lba = [iso |-> 0, joliet |-> 0, files |-> 0]
      /\ rootDir' = Append(rootDir, [path |-> path, files |-> files])
      /\ filesSizeSectors' = base + Sum(sectors)
  BY ScanDirectoryIs
<1>2. /\ sectors \in Seq(Nat) /\ files \in Seq(FileType) /\ Len(files) = Len(sectors)
         /\ Len(files) \in Nat
      /\ \A i \in 1..Len(files) : /\ files[i].rLBA = base + Sums(sectors)[i - 1]
                                  /\ Sectors(files[i].size) = sectors[i]
  BY <1>1, ItemFilesAre
<1>3. RootType' /\ FilesTyped /\ FilesTyped'
  <2>1. RootType'
    BY ScanTypes
  <2>2. RootType' => FilesTyped'
    BY FilesTypedOf, PTL
  <2>3. QED BY <1>1, <2>1, <2>2, FilesTypedOf
<1>4. FileListsOf \in Seq(Seq(FileType)) /\ Len(FileListsOf) = N
      /\ FileListsOf' \in Seq(Seq(FileType)) /\ Len(FileListsOf') = N'
  BY <1>3 DEF FilesTyped
<1>5. N' = N + 1 /\ rootDir'[N + 1].files = files /\ \A j \in 1..N : rootDir'[j] = rootDir[j]
  <2>1. KnownSo(path)
    BY ScanKnows
  <2>2. N' = N + 1 /\ \A j \in 1..N : rootDir'[j] = rootDir[j]
    BY <2>1 DEF KnownSo
  <2>3. rootDir'[N + 1] = [path |-> path, files |-> files]
    <3>. DEFINE r == [path |-> path, files |-> files]
    <3>1. rootDir \in Seq([path : Seq(Names), files : Seq(FileType)])
      BY <1>1 DEF RootType
    <3>. HIDE DEF r, files, path
    <3>2. rootDir' = Append(rootDir, r)
      BY <1>1 DEF r
    <3>3. QED BY <3>1, <3>2 DEF N, r
  <2>4. QED BY <2>2, <2>3
<1>. HIDE DEF files, sectors, path
<1>6. FileListsOf' = Append(FileListsOf, files)
  <2>1. DOMAIN rootDir = 1..N /\ DOMAIN rootDir' = 1..(N + 1)
    BY <1>1, <1>3, <1>5 DEF RootType, N
  <2>2. FileListsOf' = [k \in 1..(N + 1) |-> rootDir'[k].files]
    BY <2>1 DEF FileListsOf
  <2>3. FileListsOf = [k \in 1..N |-> rootDir[k].files]
    BY <2>1 DEF FileListsOf
  <2>4. Len(FileListsOf') = N + 1 /\ Len(Append(FileListsOf, files)) = N + 1
    BY <1>1, <1>4, <1>5
  <2>5. ASSUME NEW k \in 1..(N + 1) PROVE FileListsOf'[k] = Append(FileListsOf, files)[k]
    <3>1. CASE k = N + 1
      <4>1. FileListsOf'[N + 1] = files
        <5>1. N + 1 \in 1..(N + 1)
          BY <1>1
        <5>2. FileListsOf'[N + 1] = rootDir'[N + 1].files
          BY <2>2, <5>1
        <5>3. QED BY <1>5, <5>2
      <4>2. Append(FileListsOf, files)[N + 1] = files
        BY <1>1, <1>2, <1>4, Appended
      <4>3. QED BY <3>1, <4>1, <4>2
    <3>2. CASE k # N + 1
      <4>1. k \in 1..N
        BY <1>1, <3>2
      <4>2. FileListsOf'[k] = FileListsOf[k]
        BY <1>5, <2>2, <2>3, <4>1
      <4>3. Append(FileListsOf, files)[k] = FileListsOf[k]
        BY <1>2, <1>4, <4>1, Appended
      <4>4. QED BY <4>2, <4>3
    <3>3. QED BY <3>1, <3>2
  <2>6. Append(FileListsOf, files) \in Seq(Seq(FileType))
    BY <1>2, <1>4
  <2>7. QED BY <1>4, <2>4, <2>5, <2>6
<1>7. AllFiles' = AllFiles \o files
  <2>1. AllFiles' = FlattenSeq(FileListsOf') /\ AllFiles = FlattenSeq(FileListsOf)
    BY <1>3 DEF FilesTyped
  <2>2. QED BY <1>2, <1>4, <1>6, <2>1, FlattenAppend
<1>8. /\ AllFiles \in Seq(FileType) /\ fs \in Seq(Nat) /\ Len(fs) = n /\ n \in Nat
      /\ \A i \in 1..n : fs[i] = Sectors(AllFiles[i].size)
  BY <1>3 DEF FilesTyped
<1>9. /\ fs' \in Seq(Nat) /\ Len(fs') = Len(AllFiles')
         /\ \A i \in 1..Len(AllFiles') : fs'[i] = Sectors(AllFiles'[i].size)
  BY <1>3 DEF FilesTyped
<1>10. /\ Len(AllFiles') = n + Len(files)
       /\ \A i \in 1..n : AllFiles'[i] = AllFiles[i]
       /\ \A i \in 1..Len(files) : AllFiles'[n + i] = files[i]
       /\ \A i \in 1..Len(AllFiles') : i \in 1..n
          \/ (i - n \in 1..Len(files) /\ AllFiles'[i] = files[i - n])
  <2>1. AllFiles \in Seq(FileType) /\ files \in Seq(FileType)
    BY <1>2, <1>8
  <2>. DEFINE all == AllFiles \o files
  <2>2. Len(all) = Len(AllFiles) + Len(files)
    BY ONLY <2>1, Joined
  <2>3. \A i \in 1..Len(AllFiles) : all[i] = AllFiles[i]
    BY ONLY <2>1, Joined
  <2>4. \A i \in 1..Len(files) : all[Len(AllFiles) + i] = files[i]
    BY ONLY <2>1, Joined
  <2>5. \A i \in 1..Len(all) : i \in 1..Len(AllFiles)
        \/ (i - Len(AllFiles) \in 1..Len(files) /\ all[i] = files[i - Len(AllFiles)])
    BY ONLY <2>1, Joined
  <2>6. AllFiles' = all
    BY <1>7
  <2>. HIDE DEF all
  <2>7. QED BY <2>2, <2>3, <2>4, <2>5, <2>6
<1>11. fs' = fs \o sectors
  <2>. HIDE DEF fs, n
  <2>0. fs \in Seq(Nat) /\ sectors \in Seq(Nat)
    BY <1>2, <1>8
  <2>1. fs \o sectors \in Seq(Nat) /\ Len(fs \o sectors) = n + Len(files)
    <3>1. fs \o sectors \in Seq(Nat) /\ Len(fs \o sectors) = Len(fs) + Len(sectors)
      BY <2>0, Joined
    <3>2. QED BY <1>2, <1>8, <3>1
  <2>2. ASSUME NEW i \in 1..(n + Len(files)) PROVE fs'[i] = (fs \o sectors)[i]
    <3>1. CASE i \in 1..n
      <4>1. (fs \o sectors)[i] = fs[i]
        BY <1>2, <1>8, <3>1
      <4>2. QED BY <1>8, <1>9, <1>10, <3>1, <4>1
    <3>2. CASE i \notin 1..n
      <4>1. i - n \in 1..Len(files) /\ AllFiles'[i] = files[i - n]
        BY <1>10, <3>2
      <4>2. (fs \o sectors)[i] = sectors[i - n]
        <5>1. i \in 1..Len(fs \o sectors) /\ i \notin 1..Len(fs)
          BY <1>8, <2>1, <3>2
        <5>2. (fs \o sectors)[i] = sectors[i - Len(fs)]
          BY <2>0, <5>1, Joined
        <5>3. QED BY <1>8, <5>2
      <4>3. QED BY <1>2, <1>9, <1>10, <4>1, <4>2
    <3>3. QED BY <3>1, <3>2
  <2>3. fs' \in Seq(Nat) /\ Len(fs') = n + Len(files)
    BY <1>9, <1>10
  <2>4. \A a, b \in Seq(Nat) : Len(a) = Len(b) /\ (\A i \in 1..Len(a) : a[i] = b[i]) => a = b
    OBVIOUS
  <2>5. QED BY <2>1, <2>2, <2>3, <2>4
<1>12. /\ \A i \in 0..n : Sums(fs')[i] = Sums(fs)[i]
       /\ \A i \in 0..Len(files) : Sums(fs')[n + i] = Sum(fs) + Sums(sectors)[i]
  <2>. HIDE DEF fs, n
  <2>1. fs \in Seq(Nat) /\ sectors \in Seq(Nat)
    BY <1>2, <1>8
  <2>2. \A i \in 0..Len(fs) : Sums(fs \o sectors)[i] = Sums(fs)[i]
    BY <2>1, SumsOfJoined
  <2>3. \A i \in 0..Len(sectors) : Sums(fs \o sectors)[Len(fs) + i] = Sum(fs) + Sums(sectors)[i]
    BY <2>1, SumsOfJoined
  <2>4. Sums(fs') = Sums(fs \o sectors)
    BY <1>11
  <2>5. QED BY <1>2, <1>8, <2>2, <2>3, <2>4
<1>13. /\ \A i \in 1..n : AllFiles[i].rLBA = 0 + Sums(fs)[i - 1]
       /\ base = Sum(fs) /\ \A k \in 1..N : InOrder(rootDir[k].files)
  BY <1>1 DEF FilesPlaced
<1>14. \A i \in 1..Len(AllFiles') : AllFiles'[i].rLBA = 0 + Sums(fs')[i - 1]
  <2>. SUFFICES ASSUME NEW i \in 1..Len(AllFiles') PROVE AllFiles'[i].rLBA = 0 + Sums(fs')[i - 1]
    OBVIOUS
  <2>1. CASE i \in 1..n
    <3>1. i - 1 \in 0..n
      BY <1>8, <2>1
    <3>2. QED BY <1>10, <1>12, <1>13, <2>1, <3>1
  <2>2. CASE i \notin 1..n
    <3>1. i - n \in 1..Len(files) /\ AllFiles'[i] = files[i - n]
      BY <1>10, <2>2
    <3>2. (i - n) - 1 \in 0..Len(files) /\ n + ((i - n) - 1) = i - 1
      BY <1>2, <1>8, <3>1, SMTT(30)
    <3>3. AllFiles'[i].rLBA = base + Sums(sectors)[(i - n) - 1]
      BY <1>2, <3>1
    <3>4. Sums(fs')[i - 1] = Sum(fs) + Sums(sectors)[(i - n) - 1]
      BY <1>12, <3>2
    <3>5. Sums(sectors)[(i - n) - 1] \in Nat
      BY <1>2, <3>1, SumsType
    <3>6. QED BY <1>1, <1>13, <3>3, <3>4, <3>5
  <2>3. QED BY <2>1, <2>2
<1>15. filesSizeSectors' = Sum(fs')
  <2>1. Sums(fs')[n + Len(files)] = Sum(fs) + Sums(sectors)[Len(files)]
    BY <1>2, <1>12
  <2>2. Len(fs') = n + Len(files) /\ Len(files) = Len(sectors)
    BY <1>2, <1>9, <1>10
  <2>3. QED BY <1>1, <1>13, <2>1, <2>2 DEF Sum
<1>16. InOrder(files)
  <2>. SUFFICES ASSUME NEW i \in 1..Len(files), NEW j \in 1..Len(files), i < j
                PROVE  files[i].rLBA + Sectors(files[i].size) <= files[j].rLBA
    BY DEF InOrder
  <2>1. i \in 1..Len(sectors) /\ j - 1 \in i..Len(sectors)
    BY <1>2
  <2>2. Sums(sectors)[i - 1] + sectors[i] <= Sums(sectors)[j - 1] /\ Sums(sectors)[j - 1] \in Nat
    BY <1>2, <2>1, SumsOrder
  <2>3. Sums(sectors)[i - 1] \in Nat /\ sectors[i] \in Nat
    BY <1>2, <2>1, SumsType
  <2>4. files[i].rLBA = base + Sums(sectors)[i - 1] /\ files[j].rLBA = base + Sums(sectors)[j - 1]
        /\ Sectors(files[i].size) = sectors[i]
    BY <1>2
  <2>5. QED BY <1>1, <2>2, <2>3, <2>4, SMTT(30)
<1>17. \A k \in 1..N' : InOrder(rootDir'[k].files)
  <2>1. \A k \in 1..N' : k \in 1..N \/ k = N + 1
    BY <1>1, <1>5
  <2>2. QED BY <1>5, <1>13, <1>16, <2>1
<1>18. lba'.files = 0
  BY <1>1
<1>19. QED BY <1>14, <1>15, <1>17, <1>18 DEF FilesPlaced, InOrder

LEMMA ScanDirectoryKeeps ==
  ASSUME SizesAssumption, Inv, ScanDirectory
  PROVE  Inv'
<1>. DEFINE path == Head(queue)
<1>1. /\ RootType /\ N \in Nat /\ pc = "scan" /\ current = 1
      /\ lba = [iso |-> 0, joliet |-> 0, files |-> 0]
      /\ entries' = [t \in Table |-> Append(entries[t], <<>>)]
      /\ pc' = IF queue' = <<>> THEN "iso" ELSE "scan"
      /\ UNCHANGED <<current, lba, padAreaStart, totalSize, fsSize>>
  BY ScanDirectoryIs
<1>2. ScanInv'
  BY ScanTypes, ScanPaths, ScanFiles DEF ScanInv
<1>3. N' = N + 1
  BY ScanKnows DEF KnownSo
<1>4. EntriesMade /\ Scanning
  BY <1>1 DEF Inv, Scanning
<1>5. pc' \in {"iso", "scan"} /\ ~Late' /\ pc' # "place"
  BY <1>1 DEF Late
<1>6. \A t \in Table : Done(t) = 0 /\ Done(t)' = 0
  BY <1>1, <1>4, <1>5 DEF Done, Scanning
<1>7. EntriesMade'
  <2>1. ASSUME NEW t \in Table
        PROVE  /\ entries'[t] \in Seq(Seq(EntryType)) /\ Len(entries'[t]) = N + 1
               /\ \A k \in 1..(N + 1) : entries'[t][k] = <<>>
    <3>. DEFINE es == entries[t]
    <3>1. es \in Seq(Seq(EntryType)) /\ Len(es) = N
      BY <1>4 DEF EntriesMade
    <3>2. \A k \in 1..N : es[k] = <<>>
      <4>1. \A k \in 1..N : IF k <= 0 THEN Made(k, t) ELSE es[k] = <<>>
        BY <1>4, <1>6 DEF EntriesMade
      <4>2. \A k \in 1..N : ~(k <= 0)
        BY <1>1
      <4>3. QED BY <4>1, <4>2
    <3>3. entries'[t] = Append(es, <<>>)
      BY <1>1
    <3>. HIDE DEF es
    <3>4. <<>> \in Seq(EntryType)
      OBVIOUS
    <3>5. /\ Append(es, <<>>) \in Seq(Seq(EntryType)) /\ Len(Append(es, <<>>)) = Len(es) + 1
          /\ Append(es, <<>>)[Len(es) + 1] = <<>> /\ \A i \in 1..Len(es) : Append(es, <<>>)[i] = es[i]
      BY <3>1, <3>4, Appended
    <3>6. \A k \in 1..(N + 1) : k \in 1..N \/ k = N + 1
      BY <1>1
    <3>7. QED BY <3>1, <3>2, <3>3, <3>5, <3>6
  <2>2. entries' \in [Table -> Seq(Seq(EntryType))]
    BY <1>1, <2>1
  <2>3. \A k \in 1..(N + 1) : ~(k <= 0)
    BY <1>1
  <2>4. QED BY <1>3, <1>6, <2>1, <2>2, <2>3 DEF EntriesMade
<1>8. Stage'
  <2>1. Scanning' <=> pc' = "scan"
    BY <1>5 DEF Scanning
  <2>2. pc' = "scan" <=> queue' # <<>>
    BY <1>1
  <2>3. lba' = [iso |-> 0, joliet |-> 0, files |-> 0]
    BY <1>1
  <2>4. current' = 1 /\ 1 \in 1..N' /\ N' > 0
    BY <1>1, <1>3
  <2>5. QED BY <1>5, <2>1, <2>2, <2>3, <2>4 DEF Stage
<1>9. Counted'
  BY <1>1, <1>5 DEF Inv, Counted, Scanning
<1>10. Tables' /\ Placed' /\ EncodedSoFar'
  BY <1>5 DEF Tables, Placed, EncodedSoFar, Late
<1>11. QED BY <1>2, <1>7, <1>8, <1>9, <1>10 DEF Inv

\* The inductive invariant.
LEMMA AlwaysInv == SizesAssumption => (Spec => []Inv)
<1>. SUFFICES ASSUME SizesAssumption PROVE Spec => []Inv
  OBVIOUS
<1>1. Init => Inv
  BY Starts
<1>2. Inv /\ [Next]_vars => Inv'
  <2>. SUFFICES ASSUME Inv, [Next]_vars PROVE Inv'
    OBVIOUS
  <2>1. CASE StatRoot \/ GetTitleID \/ ScanFails
    BY <2>1, ScanSteps
  <2>2. CASE ScanDirectory
    BY <2>2, ScanDirectoryKeeps
  <2>3. CASE MakeIsoEntries
    BY <2>3, MakeIsoEntriesKeeps
  <2>4. CASE MakeJolietEntries
    BY <2>4, MakeJolietEntriesKeeps
  <2>5. CASE MakePathTables
    BY <2>5, MakePathTablesKeeps
  <2>6. CASE Place
    BY <2>6, PlaceKeeps
  <2>7. CASE WriteHead
    BY <2>7, WriteHeadKeeps
  <2>8. CASE WritePathTables
    BY <2>8, WritePathTablesKeeps
  <2>9. CASE WriteDirectories
    BY <2>9, WriteDirectoriesKeeps
  <2>10. CASE UNCHANGED vars
    BY <2>10, Stutters
  <2>11. QED BY <2>1, <2>2, <2>3, <2>4, <2>5, <2>6, <2>7, <2>8, <2>9, <2>10 DEF Next
<1>3. QED BY <1>1, <1>2, PTL DEF Spec
-----------------------------------------------------------------------------
(* What the invariant says of an image that was built.                     *)

LEMMA BuiltIs ==
  ASSUME SizesAssumption, Inv, pc = "built"
  PROVE  /\ Listed /\ EntriesMade /\ ScanInv /\ N \in Nat /\ DOMAIN rootDir = 1..N /\ Late
         /\ \A t \in Table : /\ lba[t] \in Nat /\ entries[t] \in Seq(Seq(EntryType)) /\ Len(entries[t]) = N
                             /\ written[t].dirs = [k \in 1..N |-> lba[t] + Behind(k, t)]
                             /\ \A k \in 1..N : Made(k, t)
<1>1. Listed /\ EntriesMade /\ ScanInv /\ N \in Nat /\ DOMAIN rootDir = 1..N
  BY ListedNow DEF Inv, ScanInv, RootType, N
<1>2. Late /\ ~Scanning
  BY DEF Late, Scanning
<1>3. \A t \in Table : Done(t) = N
  BY <1>2 DEF Done
<1>4. ASSUME NEW t \in Table, NEW k \in 1..N PROVE Made(k, t)
  <2>1. k <= N
    BY <1>1
  <2>2. QED BY <1>1, <1>3, <2>1 DEF EntriesMade
<1>5. \A t \in Table : lba[t] \in Nat
  BY <1>1 DEF ScanInv, RootType, Table
<1>6. \A t \in Table : written[t].dirs = [k \in 1..N |-> lba[t] + Behind(k, t)]
  BY DEF Inv, EncodedSoFar
<1>7. \A t \in Table : entries[t] \in Seq(Seq(EntryType)) /\ Len(entries[t]) = N
  BY <1>1 DEF EntriesMade
<1>8. QED BY <1>1, <1>2, <1>4, <1>5, <1>6, <1>7

LEMMA InvTypeOK ==
  ASSUME SizesAssumption
  PROVE  Inv => TypeOK
<1>. SUFFICES ASSUME Inv PROVE TypeOK
  OBVIOUS
<1>1. Listed /\ N \in Nat /\ DOMAIN rootDir = 1..N /\ filesSizeSectors \in Nat
  BY ListedNow DEF Inv, ScanInv, RootType, N
<1>2. pc \in {"stat", "title", "scan", "iso", "joliet", "tables", "place", "head",
              "pathTables", "dirs", "built", "failed", "outOfRange", "tooLarge", "mismatch"}
  BY DEF Inv, Counted, Scanning, Late
<1>3. \A k \in DOMAIN rootDir : rootDir[k].path = <<>> \/ tree[rootDir[k].path].dir
  <2>. SUFFICES ASSUME NEW k \in 1..N PROVE rootDir[k].path = <<>> \/ tree[rootDir[k].path].dir
    BY <1>1
  <2>1. k = 1 \/ k > 1
    BY <1>1
  <2>2. QED BY <1>1, <2>1 DEF Listed, ParentsAre
<1>4. current \in 1..(Len(rootDir) + 1)
  <2>1. IF pc \in {"iso", "joliet"} THEN current \in 1..N ELSE current = 1
    BY DEF Inv, Stage
  <2>2. current \in 1..(N + 1)
    BY <1>1, <2>1
  <2>3. QED BY <2>2 DEF N
<1>5. padAreaStart \in Nat /\ totalSize \in Nat /\ fsSize \in Nat
  BY DEF Inv, Counted
<1>6. QED BY <1>1, <1>2, <1>3, <1>4, <1>5 DEF TypeOK

LEMMA InvDirectoriesFound ==
  ASSUME SizesAssumption
  PROVE  Inv => DirectoriesFound
<1>. SUFFICES ASSUME Inv, pc = "built", NEW t \in Table, NEW k \in DOMAIN rootDir
              PROVE  LET self == entries[t][k][1]
                         up == entries[t][k][2]
                         p == IF k = 1 THEN 1 ELSE ParentIdx(k)
                     IN /\ self.loc = written[t].dirs[k] /\ self.len = EntriesSize(entries[t][k], t)
                        /\ up.loc = written[t].dirs[p] /\ up.len = entries[t][p][1].len
                        /\ k > 1 /\ ~Clashes(k, t) =>
                             \E i \in DOMAIN entries[t][p] :
                               entries[t][p][i] = [self EXCEPT !.id
                                 = Ident(Last(rootDir[k].path), FALSE, t)]
  BY Zenon DEF DirectoriesFound
<1>. DEFINE self == entries[t][k][1]
            up == entries[t][k][2]
            p == Up(k)
            es == entries[t][k]
            ls == Listing(k, t)
            id == Ident(Last(rootDir[k].path), FALSE, t)
<1>1. /\ Listed /\ N \in Nat /\ k \in 1..N /\ lba[t] \in Nat /\ entries[t] \in Seq(Seq(EntryType))
         /\ Len(entries[t]) = N
      /\ written[t].dirs = [j \in 1..N |-> lba[t] + Behind(j, t)]
      /\ \A j \in 1..N : Made(j, t)
  BY BuiltIs
<1>2. p \in 1..N /\ p = IF k = 1 THEN 1 ELSE ParentIdx(k)
  BY <1>1 DEF Listed, ParentsAre, Up
<1>3. self = Self(Dot, k, t) /\ up = Self(DotDot, p, t)
  <2>1. Made(k, t)
    BY <1>1
  <2>2. QED BY <2>1, Zenon DEF Made, MadeBy
<1>4. entries[t][p][1] = Self(Dot, p, t)
  <2>1. Made(p, t)
    BY <1>1, <1>2
  <2>2. QED BY <2>1, Zenon DEF Made, MadeBy
<1>5. EntriesSize(es, t) = EntriesSize(ls, t)
  <2>1. es \in Seq(EntryType) /\ Len(ls) = Len(es) /\ \A e \in 1..Len(ls) : es[e].id = ls[e].id
    <3>1. Made(k, t)
      BY <1>1
    <3>2. QED BY <3>1, Zenon DEF Made, MadeBy
  <2>2. ls \in Seq(EntryType)
    BY <1>1 DEF Listed, ListingsAre
  <2>. HIDE DEF es, ls
  <2>3. Sizes(es, t) = Sizes(ls, t)
    BY <2>1, <2>2, SizesType
  <2>4. QED BY <2>3 DEF EntriesSize, es, ls
<1>6. self.loc = written[t].dirs[k] /\ self.len = EntriesSize(es, t)
  <2>1. Self(Dot, k, t).loc = lba[t] + Behind(k, t) /\ Self(Dot, k, t).len = EntriesSize(ls, t)
    BY DEF Self, DirEntry
  <2>2. QED BY <1>1, <1>3, <1>5, <2>1
<1>7. up.loc = written[t].dirs[p] /\ up.len = entries[t][p][1].len
  <2>. HIDE DEF p
  <2>1. Self(DotDot, p, t).loc = lba[t] + Behind(p, t) /\ Self(DotDot, p, t).len = Self(Dot, p, t).len
    BY DEF Self, DirEntry
  <2>2. QED BY <1>1, <1>2, <1>3, <1>4, <2>1
<1>8. ASSUME k > 1, ~Clashes(k, t)
      PROVE  \E i \in DOMAIN entries[t][p] : entries[t][p][i] = [self EXCEPT !.id = id]
  <2>1. Made(k, t)
    BY <1>1
  <2>2. PICK i \in 1..Len(entries[t][p]) : entries[t][p][i] = Self(id, k, t)
    BY <1>8, <2>1 DEF Made, MadeBy
  <2>3. i \in DOMAIN entries[t][p]
    BY <1>1, <1>2
  <2>4. Self(id, k, t) = [Self(Dot, k, t) EXCEPT !.id = id]
    <3>. DEFINE loc == lba[t] + Behind(k, t)
                len == EntriesSize(Listing(k, t), t)
                yes == TRUE
                no == FALSE
                entry(d) == [id |-> d, dir |-> yes, more |-> no, loc |-> loc, len |-> len]
    <3>1. Self(id, k, t) = entry(id) /\ Self(Dot, k, t) = entry(Dot)
      BY DEF Self, DirEntry
    <3>. HIDE DEF id, loc, len, yes, no
    <3>2. QED BY <3>1
  <2>5. QED BY <1>3, <2>2, <2>3, <2>4
<1>. HIDE DEF p
<1>9. QED BY <1>2, <1>6, <1>7, <1>8

LEMMA InvPathTablesLead ==
  ASSUME SizesAssumption
  PROVE  Inv => PathTablesLead
<1>. SUFFICES ASSUME Inv, pc = "built", NEW t \in Table
              PROVE  /\ descriptors[t].typeL = written[t].typeL
                        /\ descriptors[t].typeM = written[t].typeM
                     /\ written[t].typeM - written[t].typeL = Sectors(descriptors[t].tableSize)
                     /\ descriptors[t].size = FloorSectors(totalSize)
                     /\ \A k \in DOMAIN pathTable[t] :
                          /\ pathTable[t][k].loc = written[t].dirs[k]
                          /\ k > 1 => /\ pathTable[t][k].parent \in 1..(k - 1)
                                      /\ rootDir[pathTable[t][k].parent].path = Front(rootDir[k].path)
  BY DEF PathTablesLead
<1>. DEFINE files == lba.files + filesSizeSectors
            volume == files + BasePad + (IF files % BasePad > 0 THEN BasePad - (files % BasePad) ELSE 0)
            m == Smaller(N, ItemsLimit)
<1>1. /\ Listed /\ ScanInv /\ N \in Nat /\ Late /\ lba[t] \in Nat
      /\ written[t].dirs = [j \in 1..N |-> lba[t] + Behind(j, t)]
      /\ \A j \in 1..N : Made(j, t)
  BY BuiltIs
<1>2. totalSize = Bytes(volume) /\ descriptors = [s \in Table |-> Descriptor(s, volume)]
  BY <1>1 DEF Inv, Placed
<1>3. pathTable = [s \in Table |-> PathTableOf(s)]
  BY <1>1 DEF Inv, Tables
<1>4. PathTableTyped(t) /\ PathTableTyped("iso")
  <2>1. "iso" \in Table
    BY DEF Table
  <2>2. QED BY <1>1, <1>3, <2>1, PathTableType
<1>5. volume \in Nat
  <2>. HIDE DEF files
  <2>1. files \in Nat
    BY <1>1 DEF files, ScanInv, RootType
  <2>2. QED BY <2>1, VolumeType
<1>. HIDE DEF volume
<1>6. descriptors[t].typeL = written[t].typeL /\ descriptors[t].typeM = written[t].typeM
  BY DEF Inv, EncodedSoFar, TablesWritten
<1>7. descriptors[t].size = FloorSectors(totalSize)
  <2>1. descriptors[t].size = volume
    BY <1>2 DEF Descriptor
  <2>2. FloorSectors(Bytes(volume)) = volume
    BY <1>5, BytesOf
  <2>3. QED BY <1>2, <2>1, <2>2
<1>8. written[t].typeM - written[t].typeL = Sectors(descriptors[t].tableSize)
  <2>. DEFINE a == PathTableSectors("iso")
              b == PathTableSectors(t)
              first == TablesLBA + (IF t = "iso" THEN 0 ELSE 2 * a)
  <2>1. a \in Nat /\ b \in Nat
    BY <1>4 DEF PathTableTyped
  <2>2. descriptors[t].typeL = first /\ descriptors[t].typeM = first + b
        /\ descriptors[t].tableSize = PathTableSize(t)
    BY <1>2 DEF Descriptor
  <2>3. b = Sectors(PathTableSize(t))
    BY DEF PathTableSectors
  <2>. HIDE DEF a, b
  <2>4. first \in Nat
    BY <2>1 DEF TablesLBA
  <2>. HIDE DEF first
  <2>5. QED BY <1>6, <2>1, <2>2, <2>3, <2>4
<1>9. ASSUME NEW k \in DOMAIN pathTable[t]
      PROVE  /\ pathTable[t][k].loc = written[t].dirs[k]
             /\ k > 1 => /\ pathTable[t][k].parent \in 1..(k - 1)
                         /\ rootDir[pathTable[t][k].parent].path = Front(rootDir[k].path)
  <2>1. k \in 1..N /\ k <= ItemsLimit /\ k \in 1..m
    <3>1. k \in 1..m
      BY <1>4 DEF PathTableTyped
    <3>2. QED BY <1>1, <3>1, SizesAssumption DEF SizesAssumption, Smaller
  <2>2. pathTable[t][k] = [id |-> IF k = 1 THEN Dot ELSE Ident(Last(rootDir[k].path), FALSE, t),
                           loc |-> entries[t][k][1].loc, parent |-> IF k = 1 THEN 1
                             ELSE Number(ParentIdx(k))]
    BY <1>3, <2>1 DEF PathTableOf, N
  <2>3. pathTable[t][k].loc = entries[t][k][1].loc
        /\ (k > 1 => pathTable[t][k].parent = Number(ParentIdx(k)))
    BY <2>1, <2>2
  <2>4. entries[t][k][1].loc = lba[t] + Behind(k, t)
    <3>1. Made(k, t)
      BY <1>1, <2>1
    <3>2. entries[t][k][1] = Self(Dot, k, t)
      BY <3>1, Zenon DEF Made, MadeBy
    <3>3. QED BY <3>2 DEF Self, DirEntry
  <2>5. ASSUME k > 1
        PROVE  pathTable[t][k].parent = ParentIdx(k) /\ ParentIdx(k) \in 1..(k - 1)
               /\ rootDir[ParentIdx(k)].path = Front(rootDir[k].path)
    <3>1. ParentIdx(k) \in 1..(k - 1) /\ rootDir[ParentIdx(k)].path = Front(rootDir[k].path)
      BY <1>1, <2>1, <2>5 DEF Listed, ParentsAre
    <3>2. PICK p \in 1..(k - 1) : p = ParentIdx(k)
      BY <3>1
    <3>3. p < NumberLimit /\ NumberLimit \in Nat /\ p \in Nat
      BY <2>1, <3>2, SizesAssumption DEF SizesAssumption
    <3>4. Number(p) = p
      BY <3>3 DEF Number
    <3>5. QED BY <2>3, <2>5, <3>1, <3>2, <3>4
  <2>6. QED BY <1>1, <2>1, <2>3, <2>4, <2>5
<1>10. QED BY <1>6, <1>7, <1>8, <1>9

\* Where the entries of the ith file of a directory are, behind the two of its own.
Before(i, k, t) == 2 + Sums(Lens(FileLists(k, t)))[i - 1]

\* The entries of the kth directory that are not of directories are those of its files.
EntriesOfFiles(k, t) ==
  LET fs == rootDir[k].files
      es == entries[t][k]
  IN /\ fs \in Seq(FileType) /\ es \in Seq(EntryType)
     /\ \A i \in 1..Len(fs) :
          /\ Before(i, k, t) \in Nat
          /\ \A j \in 1..Len(FileEntries(fs[i], t)) :
               /\ Before(i, k, t) + j \in 1..Len(es)
               /\ es[Before(i, k, t) + j] = FileEntries(fs[i], t)[j]
     /\ \A e \in 1..Len(es) : ~es[e].dir =>
          \E i \in 1..Len(fs) : \E j \in 1..Len(FileEntries(fs[i], t)) : e = Before(i, k, t) + j

LEMMA EntriesAreOfFiles ==
  ASSUME SizesAssumption, Inv, pc = "built", NEW t \in Table, NEW k \in 1..N
  PROVE  EntriesOfFiles(k, t)
<1>. DEFINE fs == rootDir[k].files
            es == entries[t][k]
            ls == Listing(k, t)
            lists == FileLists(k, t)
            part == FilePart(k, t)
            st == Sums(Lens(lists))
            n == Len(fs)
<1>1. Listed /\ Made(k, t) /\ N \in Nat
  BY BuiltIs
<1>2. /\ es \in Seq(EntryType) /\ Len(es) = Len(ls)
      /\ \A e \in 1..Len(ls) : es[e].dir = ls[e].dir /\ (~ls[e].dir => es[e] = ls[e])
  BY <1>1, Zenon DEF Made, MadeBy
<1>3. fs \in Seq(FileType) /\ n \in Nat
  <2>1. fs \in Seq(FileType)
    BY <1>1 DEF Listed, ParentsAre
  <2>. HIDE DEF fs
  <2>2. QED BY <2>1
<1>4. lists \in Seq(Seq(EntryType)) /\ Len(lists) = n
      /\ \A i \in 1..n : lists[i] = FileEntries(fs[i], t)
  BY <1>1 DEF Listed, FileListsAre
<1>5. /\ part \in Seq(EntryType) /\ Len(part) \in Nat /\ Len(Kids(k)) \in Nat
      /\ Len(ls) = 2 + Len(part) + Len(Kids(k)) /\ ls[1] = DirEntry(Dot, 0, 0)
         /\ ls[2] = DirEntry(DotDot, 0, 0)
  BY <1>1 DEF Listed, ListingsAre, KidsAre
<1>6. \A e \in 1..Len(part) : ~part[e].dir /\ ls[2 + e] = part[e]
  BY <1>1 DEF Listed, ListingsAre
<1>7. \A c \in 1..Len(Kids(k)) : ls[2 + Len(part) + c] = DirEntry(Ident(KidName(k, c), FALSE, t), 0, 0)
  BY <1>1 DEF Listed, ListingsAre
<1>8. part = FlattenSeq(lists)
  BY DEF FilePart
<1>9. \A id : DirEntry(id, 0, 0).dir = TRUE
  BY DEF DirEntry
<1>. HIDE DEF fs, es, ls, lists, part
<1>10. ASSUME NEW i \in 1..n
       PROVE  /\ st[i - 1] \in Nat
              /\ \A j \in 1..Len(lists[i]) : st[i - 1] + j \in 1..Len(part)
                 /\ part[st[i - 1] + j] = lists[i][j]
  <2>1. Lens(lists) \in Seq(Nat) /\ Len(Lens(lists)) = n
    BY <1>4, FlattenParts
  <2>2. st[i - 1] \in Nat
    BY <2>1, SumsType
  <2>3. i \in 1..Len(lists)
    BY <1>4
  <2>4. \A j \in 1..Len(lists[i]) : st[i - 1] + j \in 1..Len(FlattenSeq(lists))
        /\ FlattenSeq(lists)[st[i - 1] + j] = lists[i][j]
    BY <1>4, <2>3, FlattenParts
  <2>5. QED BY <1>8, <2>2, <2>4
<1>11. \A e \in 1..Len(part) : \E i \in 1..n : \E j \in 1..Len(lists[i]) : e = st[i - 1] + j
  <2>1. lists \in Seq(Seq(EntryType))
    BY <1>4
  <2>2. \A e \in 1..Len(FlattenSeq(lists)) : \E i \in 1..Len(lists) :
          \E j \in 1..Len(lists[i]) : e = Sums(Lens(lists))[i - 1] + j
    BY ONLY <2>1, FlattenParts
  <2>3. QED BY <1>4, <1>8, <2>2
<1>12. \A e \in 1..Len(part) : 2 + e \in 1..Len(ls) /\ es[2 + e] = part[e]
  <2>. SUFFICES ASSUME NEW e \in 1..Len(part) PROVE 2 + e \in 1..Len(ls) /\ es[2 + e] = part[e]
    OBVIOUS
  <2>1. 2 + e \in 1..Len(ls)
    BY <1>5
  <2>2. ls[2 + e] = part[e] /\ ~ls[2 + e].dir
    BY <1>6
  <2>3. QED BY <1>2, <2>1, <2>2
<1>13. ASSUME NEW i \in 1..n, NEW j \in 1..Len(FileEntries(fs[i], t))
       PROVE  (2 + st[i - 1]) + j \in 1..Len(es) /\ es[(2 + st[i - 1]) + j] = FileEntries(fs[i], t)[j]
  <2>1. j \in 1..Len(lists[i]) /\ j \in Nat
    BY <1>4
  <2>2. (2 + st[i - 1]) + j = 2 + (st[i - 1] + j)
    BY <1>10, <2>1
  <2>3. st[i - 1] + j \in 1..Len(part) /\ part[st[i - 1] + j] = lists[i][j]
    BY <1>10, <2>1
  <2>4. QED BY <1>2, <1>4, <1>12, <2>2, <2>3
<1>14. ASSUME NEW e \in 1..Len(es), ~es[e].dir
       PROVE  \E i \in 1..n : \E j \in 1..Len(FileEntries(fs[i], t)) : e = (2 + st[i - 1]) + j
  <2>1. e \in 1..Len(ls) /\ ~ls[e].dir
    BY <1>2, <1>14
  <2>2. e # 1 /\ e # 2
    BY <1>5, <1>9, <2>1
  <2>3. e - 2 \in 1..Len(part) \/ (e - 2 - Len(part) \in 1..Len(Kids(k))
        /\ e = 2 + Len(part) + (e - 2 - Len(part)))
    BY <1>5, <2>1, <2>2
  <2>4. e - 2 \in 1..Len(part)
    BY <1>7, <1>9, <2>1, <2>3
  <2>5. PICK i \in 1..n : \E j \in 1..Len(lists[i]) : e - 2 = st[i - 1] + j
    BY <1>11, <2>4
  <2>6. PICK j \in 1..Len(lists[i]) : e - 2 = st[i - 1] + j
    BY <2>5
  <2>7. j \in 1..Len(FileEntries(fs[i], t))
    BY <1>4
  <2>8. e = (2 + st[i - 1]) + j
    <3>1. Len(ls) \in Nat
      BY <1>5
    <3>2. e \in Nat /\ j \in Nat /\ st[i - 1] \in Nat
      BY <1>10, <2>1, <3>1
    <3>. DEFINE q == st[i - 1]
    <3>3. e - 2 = q + j /\ q \in Nat
      BY <2>6, <3>2
    <3>. HIDE DEF q
    <3>4. e = (2 + q) + j
      BY <3>2, <3>3
    <3>5. QED BY <3>4 DEF q
  <2>9. QED BY <2>7, <2>8
<1>15. QED BY <1>2, <1>3, <1>10, <1>13, <1>14 DEF EntriesOfFiles, Before, fs, es, lists

LEMMA Apart ==
  ASSUME NEW a \in Nat, NEW m \in Nat, NEW b \in Nat, NEW n \in Nat, a + m <= b
  PROVE  \A x : ~(x \in a..(a + m - 1) /\ x \in b..(b + n - 1))
OBVIOUS

LEMMA ExtentsOf ==
  ASSUME SizesAssumption, Inv, pc = "built", NEW t \in Table, NEW k \in 1..N,
         NEW i \in DOMAIN rootDir[k].files,
         rootDir[k].files[i].size > 0
  PROVE  LET f == rootDir[k].files[i]
             b == Before(i, k, t)
         IN Extents(f, k, t) = (b + 1)..(b + Len(FileEntries(f, t)))
<1>. DEFINE fs == rootDir[k].files
            es == entries[t][k]
            f == fs[i]
            b == Before(i, k, t)
            m == Len(FileEntries(f, t))
            n == Len(fs)
            held(g) == g.rLBA..(g.rLBA + Sectors(g.size) - 1)
<1>1. EntriesOfFiles(k, t) /\ ScanInv
  BY EntriesAreOfFiles, BuiltIs
<1>2. fs \in Seq(FileType) /\ es \in Seq(EntryType)
  BY <1>1 DEF EntriesOfFiles
<1>3. \A h \in 1..n : /\ Before(h, k, t) \in Nat
                      /\ \A j \in 1..Len(FileEntries(fs[h], t)) :
                           /\ Before(h, k, t) + j \in 1..Len(es)
                           /\ es[Before(h, k, t) + j] = FileEntries(fs[h], t)[j]
  BY <1>1 DEF EntriesOfFiles
<1>4. \A e \in 1..Len(es) : ~es[e].dir =>
          \E h \in 1..n : \E j \in 1..Len(FileEntries(fs[h], t)) : e = Before(h, k, t) + j
  BY <1>1 DEF EntriesOfFiles
<1>5. InOrder(fs)
  BY <1>1 DEF ScanInv, FilesPlaced
<1>6. f.size > 0
  OBVIOUS
<1>7. Extents(f, k, t) = {e \in DOMAIN es : ~es[e].dir /\ es[e].len > 0 /\ es[e].loc \in held(f)}
  BY DEF Extents
<1>. HIDE DEF fs, es
<1>8. n \in Nat /\ i \in 1..n /\ DOMAIN es = 1..Len(es) /\ \A h \in 1..n : fs[h] \in FileType
  <2>1. i \in DOMAIN fs
    BY DEF fs
  <2>2. QED BY <1>2, <2>1
<1>9. ASSUME NEW h \in 1..n, NEW j \in 1..Len(FileEntries(fs[h], t))
      PROVE  LET x == FileEntries(fs[h], t)[j]
             IN /\ ~x.dir
                /\ fs[h].size > 0 => x.len > 0 /\ x.loc \in held(fs[h])
                /\ fs[h].size = 0 => x.len = 0
  <2>1. PICK g \in FileType : g = fs[h]
    BY <1>8
  <2>. DEFINE fe == FileEntries(g, t)
  <2>2. \A d \in 1..Len(fe) : ~fe[d].dir
    BY FileEntriesAre, Zenon
  <2>3. \A d \in 1..Len(fe) : g.size > 0 => fe[d].len > 0
        /\ fe[d].loc \in g.rLBA..(g.rLBA + Sectors(g.size) - 1)
    BY FileEntriesAre, Zenon
  <2>4. \A d \in 1..Len(fe) : g.size = 0 => fe[d].len = 0
    BY FileEntriesAre, ZenonT(60)
  <2>. HIDE DEF fe
  <2>5. FileEntries(fs[h], t) = fe /\ j \in 1..Len(fe)
    BY <2>1 DEF fe
  <2>6. QED BY <2>1, <2>2, <2>3, <2>4, <2>5
<1>10. ASSUME NEW j \in 1..m
       PROVE  b + j \in Extents(f, k, t)
  <2>1. b + j \in 1..Len(es) /\ es[b + j] = FileEntries(f, t)[j]
    BY <1>3, <1>8
  <2>2. ~es[b + j].dir /\ es[b + j].len > 0 /\ es[b + j].loc \in held(f)
    BY <1>6, <1>8, <1>9, <2>1
  <2>3. QED BY <1>7, <1>8, <2>1, <2>2
<1>11. ASSUME NEW e \in Extents(f, k, t)
       PROVE  \E j \in 1..m : e = b + j
  <2>1. e \in 1..Len(es) /\ ~es[e].dir /\ es[e].len > 0 /\ es[e].loc \in held(f)
    BY <1>7, <1>8
  <2>2. PICK h \in 1..n : \E j \in 1..Len(FileEntries(fs[h], t)) : e = Before(h, k, t) + j
    BY <1>4, <2>1
  <2>3. PICK j \in 1..Len(FileEntries(fs[h], t)) : e = Before(h, k, t) + j
    BY <2>2
  <2>4. es[e] = FileEntries(fs[h], t)[j]
    BY <1>3, <2>3
  <2>5. fs[h].size \in Nat /\ fs[h].rLBA \in Nat /\ f.size \in Nat /\ f.rLBA \in Nat
    BY <1>8 DEF FileType
  <2>6. fs[h].size > 0
    BY <1>9, <2>1, <2>4, <2>5
  <2>7. es[e].loc \in held(fs[h])
    BY <1>9, <2>4, <2>6
  <2>8. Sectors(fs[h].size) \in Nat /\ Sectors(f.size) \in Nat
    BY <2>5, SectorsOf
  <2>9. h = i
    <3>1. ASSUME h < i PROVE FALSE
      <4>1. fs[h].rLBA + Sectors(fs[h].size) <= f.rLBA
        BY <1>5, <1>8, <3>1 DEF InOrder
      <4>2. QED BY <2>1, <2>5, <2>7, <2>8, <4>1, Apart
    <3>2. ASSUME i < h PROVE FALSE
      <4>1. f.rLBA + Sectors(f.size) <= fs[h].rLBA
        BY <1>5, <1>8, <3>2 DEF InOrder
      <4>2. QED BY <2>1, <2>5, <2>7, <2>8, <4>1, Apart
    <3>3. QED BY <1>8, <3>1, <3>2
  <2>10. QED BY <2>3, <2>9
<1>12. m \in Nat /\ b \in Nat
  BY <1>3, <1>8, FileEntriesAre
<1>13. Extents(f, k, t) = (b + 1)..(b + m)
  <2>. HIDE DEF m, b
  <2>1. ASSUME NEW e \in (b + 1)..(b + m) PROVE e \in Extents(f, k, t)
    <3>1. e - b \in 1..m /\ e = b + (e - b)
      BY <1>12
    <3>2. QED BY <1>10, <3>1
  <2>2. ASSUME NEW e \in Extents(f, k, t) PROVE e \in (b + 1)..(b + m)
    BY <1>11, <1>12
  <2>3. QED BY <2>1, <2>2
<1>14. QED BY <1>13 DEF fs

\* FilesFound, but for the lengths: the extents of the ith file of a directory.
FileFound(k, i, t) ==
  LET f == rootDir[k].files[i]
      es == entries[t][k]
  IN f.size > 0 =>
       \E first, last \in Extents(f, k, t) :
         /\ Extents(f, k, t) = first..last
         /\ es[first].loc = f.rLBA
         /\ Bytes(es[last].loc - f.rLBA) + es[last].len = f.size
         /\ \A e \in first..last :
              /\ es[e].id = Ident(f.name, TRUE, t) /\ es[e].len <= MaxPart
              /\ es[e].more = (e < last)
              /\ e < last => /\ es[e + 1].loc = es[e].loc + Sectors(es[e].len)
                             /\ es[e].len = Bytes(Sectors(es[e].len))

LEMMA FileIsFound ==
  ASSUME SizesAssumption, Inv, pc = "built", NEW t \in Table, NEW k \in 1..N,
         NEW i \in DOMAIN rootDir[k].files
  PROVE  FileFound(k, i, t)
<1>. DEFINE f == rootDir[k].files[i]
            es == entries[t][k]
            fe == FileEntries(f, t)
            m == Len(fe)
            b == Before(i, k, t)
<1>. SUFFICES ASSUME f.size > 0
              PROVE  \E first, last \in Extents(f, k, t) :
                       /\ Extents(f, k, t) = first..last
                       /\ es[first].loc = f.rLBA
                       /\ Bytes(es[last].loc - f.rLBA) + es[last].len = f.size
                       /\ \A e \in first..last :
                            /\ es[e].id = Ident(f.name, TRUE, t) /\ es[e].len <= MaxPart
                            /\ es[e].more = (e < last)
                            /\ e < last => /\ es[e + 1].loc = es[e].loc + Sectors(es[e].len)
                                           /\ es[e].len = Bytes(Sectors(es[e].len))
  BY Zenon DEF FileFound
<1>1. EntriesOfFiles(k, t)
  BY EntriesAreOfFiles
<1>2. f \in FileType /\ i \in 1..Len(rootDir[k].files)
  <2>1. rootDir[k].files \in Seq(FileType)
    BY <1>1 DEF EntriesOfFiles
  <2>2. QED BY <2>1
<1>3. b \in Nat /\ \A j \in 1..m : b + j \in 1..Len(es) /\ es[b + j] = fe[j]
  BY <1>1, <1>2 DEF EntriesOfFiles
<1>4. Extents(f, k, t) = (b + 1)..(b + m)
  BY ExtentsOf
<1>. HIDE DEF f, es, b
<1>5. m \in Nat \ {0} /\ fe[1].loc = f.rLBA /\ Bytes(fe[m].loc - f.rLBA) + fe[m].len = f.size
  BY <1>2, FileEntriesAre
<1>6. \A j \in 1..m : fe[j].id = Ident(f.name, TRUE, t) /\ fe[j].len <= MaxPart
  BY <1>2, FileEntriesAre, Zenon
<1>7. \A j \in 1..m : fe[j].more = (j < m)
  BY <1>2, FileEntriesAre, Zenon
<1>8. \A j \in 1..m : j < m => fe[j + 1].loc = fe[j].loc + Sectors(fe[j].len)
      /\ fe[j].len = Bytes(Sectors(fe[j].len))
  BY <1>2, FileEntriesAre, ZenonT(60)
<1>. HIDE DEF fe, m
<1>. DEFINE first == b + 1
            last == b + m
<1>9. 1 \in 1..m /\ m \in 1..m /\ first \in (b + 1)..(b + m) /\ last \in (b + 1)..(b + m)
  BY <1>3, <1>5
<1>10. es[first] = fe[1] /\ es[last] = fe[m]
  BY <1>3, <1>9
<1>11. es[first].loc = f.rLBA /\ Bytes(es[last].loc - f.rLBA) + es[last].len = f.size
  BY <1>5, <1>10
<1>12. ASSUME NEW e \in first..last
       PROVE  /\ es[e].id = Ident(f.name, TRUE, t) /\ es[e].len <= MaxPart
              /\ es[e].more = (e < last)
              /\ e < last => /\ es[e + 1].loc = es[e].loc + Sectors(es[e].len)
                             /\ es[e].len = Bytes(Sectors(es[e].len))
  <2>1. PICK j \in 1..m : e = b + j
    <3>1. e - b \in 1..m /\ e = b + (e - b)
      BY <1>3, <1>5
    <3>2. QED BY <3>1
  <2>2. es[e] = fe[j] /\ (e < last <=> j < m)
    BY <1>3, <1>5, <2>1
  <2>3. es[e].more = (e < last)
    BY <1>7, <2>2
  <2>4. ASSUME e < last
        PROVE  es[e + 1].loc = es[e].loc + Sectors(es[e].len) /\ es[e].len = Bytes(Sectors(es[e].len))
    <3>1. j < m /\ j + 1 \in 1..m /\ e + 1 = b + (j + 1)
      BY <1>3, <1>5, <2>1, <2>2, <2>4
    <3>2. es[e + 1] = fe[j + 1]
      BY <1>3, <3>1
    <3>3. QED BY <1>8, <2>2, <3>1, <3>2
  <2>5. QED BY <1>6, <2>2, <2>3, <2>4
<1>13. Extents(f, k, t) = first..last /\ first \in Extents(f, k, t) /\ last \in Extents(f, k, t)
  BY <1>4, <1>9
<1>. HIDE DEF first, last
<1>14. QED BY <1>11, <1>12, <1>13

LEMMA InvFilesFound ==
  ASSUME SizesAssumption
  PROVE  Inv => FilesFound
<1>. SUFFICES ASSUME Inv, pc = "built" PROVE FilesFound
  BY DEF FilesFound
<1>. DEFINE files == lba.files + filesSizeSectors
            volume == files + BasePad + (IF files % BasePad > 0 THEN BasePad - (files % BasePad) ELSE 0)
<1>1. ScanInv /\ N \in Nat /\ DOMAIN rootDir = 1..N /\ Late
  BY BuiltIs
<1>2. fsSize = Bytes(lba.files)
  BY DEF Inv, EncodedSoFar
<1>3. \A i \in DOMAIN AllFiles : AllFiles[i].rLBA = lba.files + Sums(FileSectors)[i - 1]
  <2>1. DOMAIN AllFiles = 1..Len(AllFiles)
    <3>1. AllFiles \in Seq(FileType)
      BY <1>1, FilesTypedOf DEF ScanInv, FilesTyped
    <3>2. QED BY <3>1
  <2>2. QED BY <1>1, <2>1 DEF ScanInv, FilesPlaced
<1>4. padAreaStart = Bytes(files) /\ totalSize = Bytes(volume)
  BY <1>1 DEF Inv, Placed
<1>5. padAreaStart = Bytes(lba.files + Sum(FileSectors))
  BY <1>1, <1>4 DEF ScanInv, FilesPlaced
<1>6. totalSize > padAreaStart /\ totalSize % Bytes(BasePad) = 0
  <2>1. files \in Nat
    BY <1>1 DEF ScanInv, RootType
  <2>. HIDE DEF files
  <2>2. volume \in Nat /\ volume > files /\ \E m \in Nat : volume = BasePad * m
    BY <2>1, VolumeType
  <2>3. PICK m \in Nat : volume = BasePad * m
    BY <2>2
  <2>. HIDE DEF volume
  <2>4. SectorSize \in Nat \ {0} /\ BasePad \in Nat \ {0}
    BY SizesAssumption DEF SizesAssumption
  <2>5. Bytes(volume) > Bytes(files)
    <3>1. PICK d \in Nat \ {0} : volume = files + d
      <4>1. volume - files \in Nat \ {0} /\ volume = files + (volume - files)
        BY <2>1, <2>2
      <4>2. QED BY <4>1
    <3>2. Bytes(volume) = Bytes(files) + Bytes(d) /\ Bytes(files) \in Nat /\ Bytes(d) \in Nat
      BY <2>1, <3>1, BytesOf
    <3>3. Bytes(d) > 0
      BY <2>4 DEF Bytes
    <3>4. QED BY <3>2, <3>3
  <2>6. Bytes(volume) % Bytes(BasePad) = 0
    <3>. DEFINE c == Bytes(BasePad)
    <3>1. c \in Nat \ {0}
      BY <2>4 DEF Bytes
    <3>2. Bytes(volume) = c * m
      BY <2>3, <2>4 DEF Bytes
    <3>. HIDE DEF c
    <3>3. (c * m) % c = 0
      BY <3>1
    <3>4. QED BY <3>2, <3>3 DEF c
  <2>7. QED BY <1>4, <2>5, <2>6
<1>7. ASSUME NEW t \in Table, NEW k \in DOMAIN rootDir, NEW i \in DOMAIN rootDir[k].files
      PROVE  FileFound(k, i, t)
  BY <1>1, FileIsFound
<1>8. QED BY <1>2, <1>3, <1>5, <1>6, <1>7, Zenon DEF FilesFound, FileFound

-----------------------------------------------------------------------------
\* For every tree of directories and files, all sizes and every length of names: the
\* variables have their types.
THEOREM LayoutTypeCorrect == SizesAssumption => (Spec => []TypeOK)
<1>. SUFFICES ASSUME SizesAssumption PROVE Spec => []TypeOK
  OBVIOUS
<1>1. Inv => TypeOK
  BY InvTypeOK
<1>2. QED BY <1>1, AlwaysInv, PTL

\* The directory records of an image that was built point to where its directories
\* were written, and say how large they are.
THEOREM LayoutDirectories == SizesAssumption => (Spec => []DirectoriesFound)
<1>. SUFFICES ASSUME SizesAssumption PROVE Spec => []DirectoriesFound
  OBVIOUS
<1>1. Inv => DirectoriesFound
  BY InvDirectoriesFound
<1>2. QED BY <1>1, AlwaysInv, PTL

\* Its file records point to its files, in as many extents as each needs, and these lie
\* behind each other between the structures and the pad.
THEOREM LayoutFiles == SizesAssumption => (Spec => []FilesFound)
<1>. SUFFICES ASSUME SizesAssumption PROVE Spec => []FilesFound
  OBVIOUS
<1>1. Inv => FilesFound
  BY InvFilesFound
<1>2. QED BY <1>1, AlwaysInv, PTL

\* Its descriptors lead to its path tables, and these to the directories and their
\* parents.
THEOREM LayoutPathTables == SizesAssumption => (Spec => []PathTablesLead)
<1>. SUFFICES ASSUME SizesAssumption PROVE Spec => []PathTablesLead
  OBVIOUS
<1>1. Inv => PathTablesLead
  BY InvPathTablesLead
<1>2. QED BY <1>1, AlwaysInv, PTL
=============================================================================
