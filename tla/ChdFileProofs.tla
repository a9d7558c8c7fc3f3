---------------------------- MODULE ChdFileProofs ----------------------------
(***************************************************************************)
(* What ChdFile promises, for every CHD image, every size of hunks and     *)
(* units and every length of the buffers: a Read gives the bytes of the    *)
(* image, comes to its end, and the image has the size announced for it.   *)
(* What a Read has put into the buffer says nothing of the next hunk: for  *)
(* that the hunk in memory has to be the one its number says, or garbage   *)
(* that was there when the Read began.                                     *)
(***************************************************************************)
EXTENDS ChdFile, TLAPS, WellFoundedInduction

Byte == Int \X Int

IsOpen == pc \in {"open", "read"}

BytesFrom(p) ==
  \A i \in 1..Len(got) : got[i] = ImageByte(p + i - 1) \/ (spoiled /\ got[i] = <<Garbage, 0>>)

CallType ==
  /\ image \in Images /\ pc \in {"unopened", "open", "read", "closed"}
  /\ offset \in Nat /\ length \in Nat /\ currentHunkNum \in Nat /\ got \in Seq(Byte)

\* A file that is open is one that Open takes, a CD with all its tracks.
Taken ==
  IsOpen =>
    /\ image.valid /\ image.codecs \in {"plain", "cd"}
    /\ IsCd => tracks = Metadata /\ tracks # <<>> /\ Consistent(tracks) /\ OneSectorSize(tracks)

Unread == pc = "unopened" => length = 0 /\ got = <<>>

\* Stat tells one size, if any.
Told == announced \in {None, StatSize}

\* The hunk in memory is the one its number says, or garbage.
HunkCached == data \in {None, Garbage} \/ data = currentHunkNum

\* Garbage that a Read may copy was there when it began.
GarbageSeen == pc = "read" /\ data = Garbage => spoiled

ReadSoFar ==
  pc = "read" => BytesFrom(offset) /\ Len(got) <= length /\ length > 0 /\ offset < Size

IInv ==
  /\ CallType /\ Taken /\ Unread /\ Told /\ HunkCached /\ GarbageSeen /\ ReadSoFar
  /\ ReadsTheImage /\ ReadsOn
-----------------------------------------------------------------------------
(* Numbers.                                                                *)

\* Quotient and remainder.
LEMMA Quotient ==
  ASSUME NEW a \in Nat, NEW b \in Nat \ {0}
  PROVE  /\ a = b * (a \div b) + (a % b)
         /\ a \div b \in Nat /\ a % b \in 0..(b - 1)
<1>1. a = b * (a \div b) + (a % b)
  OBVIOUS
<1>2. a \div b \in Nat
  OBVIOUS
<1>3. a % b \in 0..(b - 1)
  OBVIOUS
<1>4. QED BY <1>1, <1>2, <1>3

\* A step that stays below the next multiple.
LEMMA SameQuotient ==
  ASSUME NEW a \in Nat, NEW b \in Nat \ {0}, NEW k \in Nat, (a % b) + k < b
  PROVE  (a + k) \div b = a \div b /\ (a + k) % b = (a % b) + k
<1>. DEFINE q == a \div b
            r == (a % b) + k
<1>1. a + k = b * q + r /\ r \in 0..(b - 1) /\ q \in Nat
  <2>1. a = b * q + (a % b) /\ q \in Nat /\ a % b \in 0..(b - 1)
    BY Quotient
  <2>2. b * q \in Int
    BY <2>1
  <2>3. QED BY <2>1, <2>2
<1>2. (b * q + r) \div b = q /\ (b * q + r) % b = r
  <2>. HIDE DEF q, r
  <2>1. QED BY <1>1
<1>3. QED BY <1>1, <1>2

LEMMA QuotientBelow ==
  ASSUME NEW a \in Nat, NEW b \in Nat \ {0}, NEW c \in Nat, a < b * c
  PROVE  a \div b < c
<1>1. a = b * (a \div b) + (a % b) /\ a \div b \in Nat /\ a % b \in 0..(b - 1)
  BY Quotient
<1>2. SUFFICES ASSUME a \div b >= c PROVE FALSE
  BY <1>1
<1>3. b * (a \div b) >= b * c
  BY <1>1, <1>2
<1>4. QED BY <1>1, <1>3

\* Of two lengths.
LEMMA MinOfTwo ==
  ASSUME NEW a \in Int, NEW b \in Int
  PROVE  Min({a, b}) = IF a <= b THEN a ELSE b
<1>1. \E x \in {a, b} : \A y \in {a, b} : x <= y
  OBVIOUS
<1>2. Min({a, b}) \in {a, b} /\ \A y \in {a, b} : Min({a, b}) <= y
  BY <1>1 DEF Min
<1>3. QED BY <1>2

\* Of the metadata of three tags.
LEMMA MaxOfTags ==
  ASSUME NEW ts \in [1..3 -> Seq(Track)]
  PROVE  LET m == Max({Len(ts[g]) : g \in 1..3})
         IN /\ m \in {Len(ts[g]) : g \in 1..3}
            /\ \A g \in 1..3 : Len(ts[g]) <= m
<1>. DEFINE S == {Len(ts[g]) : g \in 1..3}
<1>1. S = {Len(ts[1]), Len(ts[2]), Len(ts[3])} /\ \A g \in 1..3 : Len(ts[g]) \in Nat
  <2>1. 1..3 = {1, 2, 3}
    OBVIOUS
  <2>2. S = {Len(ts[1]), Len(ts[2]), Len(ts[3])}
    BY <2>1, Zenon
  <2>3. QED BY <2>2
<1>2. \E x \in S : \A y \in S : x >= y
  <2>. DEFINE a == Len(ts[1])
              b == Len(ts[2])
              c == Len(ts[3])
  <2>1. S = {a, b, c} /\ a \in Nat /\ b \in Nat /\ c \in Nat
    BY <1>1
  <2>. HIDE DEF S, a, b, c
  <2>2. CASE a >= b /\ a >= c
    BY <2>1, <2>2
  <2>3. CASE b >= a /\ b >= c
    BY <2>1, <2>3
  <2>4. CASE c >= a /\ c >= b
    BY <2>1, <2>4
  <2>5. QED BY <2>1, <2>2, <2>3, <2>4
<1>3. Max(S) \in S /\ \A y \in S : Max(S) >= y
  BY <1>2 DEF Max
<1>4. QED BY <1>1, <1>3

\* A set of natural numbers that is not empty has a least one.
LEMMA LeastOf ==
  ASSUME NEW S \in SUBSET Nat, S # {}
  PROVE  \E m \in S : \A k \in S : m <= k
<1>1. PICK m \in S : \A k \in S : ~(<<k, m>> \in OpToRel(<, Nat))
  BY NatLessThanWellFounded, WFMin, Zenon
<1>2. \A k \in S : ~(k < m)
  BY <1>1 DEF OpToRel
<1>3. QED BY <1>2

\* The frames of the tracks are a number, which a recursive function counts.
LEMMA FramesAreNat ==
  ASSUME NEW ts \in Seq(Track)
  PROVE  TotalFrames(ts) \in Nat
<1>. DEFINE N == Len(ts)
            Counts(g, n) == /\ g \in [0..n -> Nat]
                            /\ \A i \in 0..n : g[i] = IF i = 0 THEN 0 ELSE g[i - 1] + ts[i].frames
            Missing == {n \in 0..N : ~\E g : Counts(g, n)}
            sum[i \in 0..N] == IF i = 0 THEN 0 ELSE sum[i - 1] + ts[i].frames
<1>1. N \in Nat /\ \A i \in 1..N : ts[i].frames \in Nat
  <2>1. \A i \in 1..N : ts[i] \in Track
    OBVIOUS
  <2>2. QED BY <2>1 DEF Track
<1>2. Missing = {}
  <2>1. SUFFICES ASSUME Missing # {} PROVE FALSE
    OBVIOUS
  <2>2. Missing \in SUBSET Nat
    BY <1>1
  <2>3. PICK m \in Missing : \A k \in Missing : m <= k
    BY <2>1, <2>2, LeastOf
  <2>4. m \in 0..N
    OBVIOUS
  <2>5. CASE m = 0
    <3>1. Counts([i \in 0..0 |-> 0], 0)
      OBVIOUS
    <3>2. QED BY <3>1, <2>5
  <2>6. CASE m # 0
    <3>1. m - 1 \in 0..N /\ m - 1 \notin Missing
      <4>1. m - 1 \in 0..N /\ ~(m <= m - 1)
        BY <1>1, <2>4, <2>6
      <4>. HIDE DEF Missing
      <4>2. QED BY <4>1, <2>3
    <3>2. PICK g : Counts(g, m - 1)
      BY <3>1
    <3>3. Counts([i \in 0..m |-> IF i = m THEN g[m - 1] + ts[m].frames ELSE g[i]], m)
      <4>. DEFINE h == [i \in 0..m |-> IF i = m THEN g[m - 1] + ts[m].frames ELSE g[i]]
      <4>1. \A i \in 0..(m - 1) : g[i] \in Nat
        BY <3>2
      <4>2. h \in [0..m -> Nat]
        BY <1>1, <2>4, <2>6, <4>1
      <4>3. ASSUME NEW i \in 0..m
            PROVE h[i] = IF i = 0 THEN 0 ELSE h[i - 1] + ts[i].frames
        <5>1. CASE i = m
          <6>1. h[m] = g[m - 1] + ts[m].frames /\ h[m - 1] = g[m - 1]
            BY <2>4, <2>6, <1>1
          <6>2. QED BY <2>6, <5>1, <6>1
        <5>2. CASE i # m
          <6>1. i \in 0..(m - 1) /\ (i # 0 => i - 1 \in 0..(m - 1))
            BY <5>2, <2>4, <1>1
          <6>2. \A j \in 0..(m - 1) : h[j] = g[j]
            BY <2>4, <1>1
          <6>. HIDE DEF h
          <6>3. g[i] = IF i = 0 THEN 0 ELSE g[i - 1] + ts[i].frames
            BY <3>2, <6>1
          <6>4. QED BY <6>1, <6>2, <6>3
        <5>3. QED BY <5>1, <5>2
      <4>4. QED BY <4>2, <4>3
    <3>4. QED BY <3>3
  <2>7. QED BY <2>5, <2>6
<1>3. PICK g : Counts(g, N)
  BY <1>1, <1>2
<1>4. g = [i \in 0..N |-> IF i = 0 THEN 0 ELSE g[i - 1] + ts[i].frames]
  BY <1>3
<1>5. sum = [i \in 0..N |-> IF i = 0 THEN 0 ELSE sum[i - 1] + ts[i].frames]
  <2>. HIDE DEF N
  <2>. QED BY <1>4
<1>6. {i \in 0..N : sum[i] \notin Nat} = {}
  <2>. DEFINE Bad == {i \in 0..N : sum[i] \notin Nat}
  <2>. HIDE DEF sum
  <2>1. SUFFICES ASSUME Bad # {} PROVE FALSE
    OBVIOUS
  <2>2. PICK m \in Bad : \A k \in Bad : m <= k
    <3>1. Bad \in SUBSET Nat
      BY <1>1
    <3>2. QED BY <2>1, <3>1, LeastOf
  <2>3. sum[m] = IF m = 0 THEN 0 ELSE sum[m - 1] + ts[m].frames
    BY <1>5
  <2>4. m # 0 => m - 1 \in 0..N /\ m - 1 \notin Bad
    BY <1>1, <2>2
  <2>5. QED BY <1>1, <2>3, <2>4
<1>7. sum[N] \in Nat
  <2>. HIDE DEF sum
  <2>. QED BY <1>1, <1>6
<1>8. QED BY <1>7 DEF TotalFrames
-----------------------------------------------------------------------------
(* Tracks.                                                                 *)

\* For each index there is a tag that has it, and a first one.
LEMMA MetadataIsTracks ==
  ASSUME ImagesAssumption, image \in Images
  PROVE  Metadata \in Seq(Track)
<1>1. image.tracks \in [1..3 -> Seq(Track)]
  BY DEF ImagesAssumption
<1>. DEFINE m == Max({Len(image.tracks[g]) : g \in 1..3})
            First(i) == CHOOSE g \in 1..3 : HasTrack(g, i) /\ \A h \in 1..(g - 1) : ~HasTrack(h, i)
<1>2. m \in Nat /\ \E g \in 1..3 : Len(image.tracks[g]) = m
  BY <1>1, MaxOfTags
<1>3. ASSUME NEW i \in 1..m
      PROVE  image.tracks[First(i)][i] \in Track
  <2>1. \E g \in 1..3 : HasTrack(g, i)
    <3>. HIDE DEF m
    <3>. QED BY <1>2 DEF HasTrack
  <2>2. \E g \in 1..3 : HasTrack(g, i) /\ \A h \in 1..(g - 1) : ~HasTrack(h, i)
    BY <2>1
  <2>3. First(i) \in 1..3 /\ HasTrack(First(i), i)
    BY <2>2
  <2>. HIDE DEF First
  <2>4. i \in 1..Len(image.tracks[First(i)])
    <3>. HIDE DEF m
    <3>. QED BY <1>1, <1>2, <2>3 DEF HasTrack
  <2>5. QED BY <1>1, <2>3, <2>4
<1>4. Metadata = [i \in 1..m |-> image.tracks[First(i)][i]]
  BY DEF Metadata
<1>. HIDE DEF m, First
<1>5. QED BY <1>2, <1>3, <1>4

\* Where one tag has all the metadata, libchdr and Stat see the same.
LEMMA OneTag ==
  ASSUME ImagesAssumption, image \in Images, SameTag
  PROVE  Metadata = AllTracks
<1>1. image.tracks \in [1..3 -> Seq(Track)]
  BY DEF ImagesAssumption
<1>2. PICK g \in 1..3 : \A h \in (1..3) \ {g} : image.tracks[h] = <<>>
  BY DEF SameTag
<1>. DEFINE t == image.tracks[g]
            m == Max({Len(image.tracks[h]) : h \in 1..3})
            First(i) == CHOOSE h \in 1..3 : HasTrack(h, i) /\ \A k \in 1..(h - 1) : ~HasTrack(k, i)
<1>3. t \in Seq(Track)
  BY <1>1
<1>4. AllTracks = t
  <2>1. t \o <<>> = t /\ <<>> \o t = t /\ <<>> \o <<>> = <<>>
    BY <1>3
  <2>2. \A h \in 1..3 : h # g => image.tracks[h] = <<>>
    BY <1>2
  <2>3. AllTracks = (image.tracks[1] \o image.tracks[2]) \o image.tracks[3]
    BY DEF AllTracks
  <2>4. CASE g = 1
    <3>1. image.tracks[1] = t /\ image.tracks[2] = <<>> /\ image.tracks[3] = <<>>
      BY <2>2, <2>4
    <3>2. QED BY <2>1, <2>3, <3>1, Zenon
  <2>5. CASE g = 2
    <3>1. image.tracks[1] = <<>> /\ image.tracks[2] = t /\ image.tracks[3] = <<>>
      BY <2>2, <2>5
    <3>2. QED BY <2>1, <2>3, <3>1, Zenon
  <2>6. CASE g = 3
    <3>1. image.tracks[1] = <<>> /\ image.tracks[2] = <<>> /\ image.tracks[3] = t
      BY <2>2, <2>6
    <3>2. QED BY <2>1, <2>3, <3>1, Zenon
  <2>7. QED BY <2>4, <2>5, <2>6
<1>5. m = Len(t)
  <2>1. m \in {Len(image.tracks[h]) : h \in 1..3} /\ \A h \in 1..3 : Len(image.tracks[h]) <= m
    BY <1>1, MaxOfTags
  <2>2. \A h \in 1..3 : Len(image.tracks[h]) \in Nat /\ (h # g => Len(image.tracks[h]) = 0)
    BY <1>1, <1>2
  <2>. HIDE DEF m
  <2>3. QED BY <2>1, <2>2
<1>6. ASSUME NEW i \in 1..m PROVE First(i) = g
  <2>. HIDE DEF m
  <2>1. \A h \in 1..3 : HasTrack(h, i) <=> h = g
    BY <1>1, <1>2, <1>5 DEF HasTrack
  <2>2. HasTrack(g, i) /\ \A k \in 1..(g - 1) : ~HasTrack(k, i)
    BY <2>1
  <2>3. QED BY <2>1, <2>2
<1>7. Metadata = [i \in 1..m |-> image.tracks[First(i)][i]]
  BY DEF Metadata
<1>8. Metadata = [i \in 1..Len(t) |-> t[i]]
  <2>. HIDE DEF m, First
  <2>. QED BY <1>5, <1>6, <1>7
<1>9. QED BY <1>3, <1>4, <1>8
-----------------------------------------------------------------------------
(* Positions.                                                              *)

LEMMA TakenTracks ==
  ASSUME ImagesAssumption, image \in Images, Taken, IsOpen, IsCd
  PROVE  /\ tracks \in Seq(Track) /\ tracks[1].size \in Nat \ {0}
         /\ TotalFrames(tracks) \in Nat
<1>1. tracks \in Seq(Track) /\ tracks # <<>>
  BY MetadataIsTracks DEF Taken
<1>2. tracks[1] \in Track
  BY <1>1
<1>3. QED BY <1>1, <1>2, FramesAreNat DEF Track

LEMMA SizeIsNat ==
  ASSUME ImagesAssumption, image \in Images, Taken, IsOpen
  PROVE  Size \in Nat
<1>1. CASE IsCd
  <2>1. Size = IF tracks = <<>> THEN 0 ELSE tracks[1].size * TotalFrames(tracks)
    BY <1>1 DEF Size, CdSize
  <2>2. tracks[1].size \in Nat /\ TotalFrames(tracks) \in Nat
    BY <1>1, TakenTracks
  <2>3. QED BY <2>1, <2>2
<1>2. CASE ~IsCd
  BY <1>2 DEF Size, ImagesAssumption
<1>3. QED BY <1>1, <1>2

\* A hunk has a number of whole units.
LEMMA UnitsOfHunk ==
  ASSUME ImagesAssumption
  PROVE  /\ HunkBytes \div UnitBytes \in Nat \ {0}
         /\ HunkBytes = UnitBytes * (HunkBytes \div UnitBytes)
<1>1. HunkBytes \in Nat \ {0} /\ UnitBytes \in Nat \ {0} /\ HunkBytes % UnitBytes = 0
  BY DEF ImagesAssumption
<1>2. PICK q \in Nat : q = HunkBytes \div UnitBytes /\ HunkBytes = UnitBytes * q
  <2>1. HunkBytes = UnitBytes * (HunkBytes \div UnitBytes) + (HunkBytes % UnitBytes)
        /\ HunkBytes \div UnitBytes \in Nat
    BY <1>1, Quotient
  <2>2. QED BY <1>1, <2>1
<1>3. q # 0
  BY <1>1, <1>2
<1>4. QED BY <1>2, <1>3

\* What a position of a CD is, for the bytes of one sector.
LEMMA CdPositionType ==
  ASSUME ImagesAssumption, NEW p \in Nat, tracks[1].size \in Nat \ {0}
  PROVE  LET size == tracks[1].size
             perHunk == HunkBytes \div UnitBytes
             start == ((p \div size) % perHunk) * UnitBytes
         IN /\ CdPosition(p).hunk = (p \div size) \div perHunk /\ CdPosition(p).hunk \in Nat
            /\ start \in Nat /\ p % size \in 0..(size - 1)
            /\ CdPosition(p).first = start + (p % size)
            /\ CdPosition(p).end = start + size
<1>. DEFINE size == tracks[1].size
            perHunk == HunkBytes \div UnitBytes
            unit == p \div size
<1>1. unit \in Nat /\ p % size \in 0..(size - 1)
  BY Quotient
<1>2. perHunk \in Nat \ {0} /\ UnitBytes \in Nat
  BY UnitsOfHunk DEF ImagesAssumption
<1>3. unit \div perHunk \in Nat /\ unit % perHunk \in Nat
  <2>. HIDE DEF unit, perHunk
  <2>1. unit \in Nat /\ perHunk \in Nat \ {0}
    BY <1>1, <1>2
  <2>2. unit \div perHunk \in Nat /\ unit % perHunk \in 0..(perHunk - 1)
    BY <2>1, Quotient, Zenon
  <2>3. QED BY <2>1, <2>2
<1>4. (unit % perHunk) * UnitBytes \in Nat
  BY <1>2, <1>3
<1>5. /\ CdPosition(p).hunk = unit \div perHunk
      /\ CdPosition(p).first = (unit % perHunk) * UnitBytes + (p % size)
      /\ CdPosition(p).end = (unit % perHunk) * UnitBytes + size
  BY DEF CdPosition
<1>6. QED BY <1>1, <1>3, <1>4, <1>5, Zenon

\* What can be copied from a position lies behind it in the same hunk.
LEMMA PositionFacts ==
  ASSUME ImagesAssumption, image \in Images, Taken, IsOpen, NEW p \in Nat
  PROVE  /\ Position(p).hunk \in Nat /\ Position(p).first \in Nat /\ Position(p).end \in Nat
         /\ Position(p).first < Position(p).end
         /\ \A k \in Nat : k < Position(p).end - Position(p).first
                         => ImageByte(p + k) = <<Position(p).hunk, Position(p).first + k>>
<1>1. CASE IsCd
  <2>. DEFINE size == tracks[1].size
              perHunk == HunkBytes \div UnitBytes
              start == ((p \div size) % perHunk) * UnitBytes
  <2>1. size \in Nat \ {0} /\ \A x : Position(x) = CdPosition(x)
    BY <1>1, TakenTracks DEF Position
  <2>2. /\ CdPosition(p).hunk = (p \div size) \div perHunk /\ CdPosition(p).hunk \in Nat
        /\ start \in Nat /\ p % size \in 0..(size - 1)
        /\ CdPosition(p).first = start + (p % size)
        /\ CdPosition(p).end = start + size
    BY <2>1, CdPositionType
  <2>3. ASSUME NEW k \in Nat, k < CdPosition(p).end - CdPosition(p).first
        PROVE  ImageByte(p + k) = <<CdPosition(p).hunk, CdPosition(p).first + k>>
    <3>1. (p % size) + k < size
      <4>. HIDE DEF start, size
      <4>. QED BY <2>1, <2>2, <2>3
    <3>2. (p + k) \div size = p \div size /\ (p + k) % size = (p % size) + k
      <4>. HIDE DEF size
      <4>. QED BY <2>1, <3>1, SameQuotient
    <3>3. p + k \in Nat
      OBVIOUS
    <3>4. /\ CdPosition(p + k).hunk = ((p + k) \div size) \div perHunk
          /\ CdPosition(p + k).first = (((p + k) \div size) % perHunk) * UnitBytes + ((p + k) % size)
      BY <2>1, <3>3, CdPositionType
    <3>5. CdPosition(p + k).hunk = CdPosition(p).hunk
          /\ CdPosition(p + k).first = start + ((p % size) + k)
      BY <2>2, <3>2, <3>4, Zenon
    <3>6. start + ((p % size) + k) = CdPosition(p).first + k
      <4>. HIDE DEF start, size
      <4>. QED BY <2>1, <2>2
    <3>7. QED BY <2>1, <3>5, <3>6 DEF ImageByte
  <2>4. CdPosition(p).first \in Nat /\ CdPosition(p).end \in Nat
        /\ CdPosition(p).first < CdPosition(p).end
    <3>. HIDE DEF start, size
    <3>. QED BY <2>1, <2>2
  <2>5. QED BY <2>1, <2>2, <2>3, <2>4
<1>2. CASE ~IsCd
  <2>1. HunkBytes \in Nat \ {0}
    BY DEF ImagesAssumption
  <2>2. \A x : Position(x) = [hunk |-> x \div HunkBytes, first |-> x % HunkBytes, end |-> HunkBytes]
    BY <1>2 DEF Position
  <2>3. p \div HunkBytes \in Nat /\ p % HunkBytes \in 0..(HunkBytes - 1)
    BY <2>1, Quotient
  <2>4. ASSUME NEW k \in Nat, k < HunkBytes - (p % HunkBytes)
        PROVE  ImageByte(p + k) = <<p \div HunkBytes, (p % HunkBytes) + k>>
    <3>1. (p % HunkBytes) + k < HunkBytes
      BY <2>1, <2>3, <2>4
    <3>2. (p + k) \div HunkBytes = p \div HunkBytes /\ (p + k) % HunkBytes = (p % HunkBytes) + k
      BY <2>1, <3>1, SameQuotient
    <3>3. QED BY <2>2, <3>2 DEF ImageByte
  <2>5. QED BY <2>1, <2>2, <2>3, <2>4
<1>3. QED BY <1>1, <1>2

\* An image with as many hunks as its size needs has one for each of its bytes.
LEMMA HunkThere ==
  ASSUME ImagesAssumption, image \in Images, Taken, IsOpen,
         image.version < 5 => image.hunks * HunkBytes >= image.logical,
         NEW p \in Nat, p < Size
  PROVE  Position(p).hunk < image.hunks
<1>1. /\ HunkBytes \in Nat \ {0} /\ UnitBytes \in Nat \ {0}
      /\ image.logical \in Nat /\ image.hunks \in Nat /\ image.hunks * HunkBytes >= image.logical
  BY SMTT(30) DEF ImagesAssumption
<1>2. CASE IsCd
  <2>. DEFINE size == tracks[1].size
              perHunk == HunkBytes \div UnitBytes
              frames == TotalFrames(tracks)
              unit == p \div size
  <2>1. size \in Nat \ {0} /\ frames \in Nat /\ p < size * frames
    BY <1>2, TakenTracks DEF Size, CdSize, Taken
  <2>2. unit < frames /\ unit \in Nat
    <3>. HIDE DEF size, frames
    <3>. QED BY <2>1, QuotientBelow, Quotient
  <2>3. UnitBytes * UnitCount = image.logical /\ frames <= UnitCount
    BY <1>2 DEF Taken, Consistent
  <2>4. UnitCount \in Nat
    <3>1. image.logical + UnitBytes - 1 \in Nat
      BY <1>1
    <3>2. QED BY <1>1, <3>1, Quotient DEF UnitCount
  <2>5. perHunk \in Nat \ {0} /\ HunkBytes = UnitBytes * perHunk
    BY UnitsOfHunk
  <2>6. UnitCount <= perHunk * image.hunks
    <3>. HIDE DEF perHunk
    <3>1. SUFFICES ASSUME UnitCount > perHunk * image.hunks PROVE FALSE
      BY <1>1, <2>4, <2>5
    <3>2. UnitBytes * UnitCount > UnitBytes * (perHunk * image.hunks)
      BY <1>1, <2>4, <2>5, <3>1
    <3>3. UnitBytes * (perHunk * image.hunks) = image.hunks * HunkBytes
      BY <1>1, <2>5
    <3>4. QED BY <1>1, <2>3, <2>4, <2>5, <3>2, <3>3
  <2>7. unit < perHunk * image.hunks
    <3>. HIDE DEF unit, perHunk, frames
    <3>. QED BY <1>1, <2>1, <2>2, <2>3, <2>4, <2>5, <2>6
  <2>8. unit \div perHunk < image.hunks
    <3>. HIDE DEF unit, perHunk
    <3>. QED BY <1>1, <2>2, <2>5, <2>7, QuotientBelow
  <2>9. Position(p).hunk = unit \div perHunk
    BY <1>2 DEF Position, CdPosition
  <2>10. QED BY <2>8, <2>9
<1>3. CASE ~IsCd
  <2>1. p < HunkBytes * image.hunks
    <3>1. p < image.logical
      BY <1>3 DEF Size
    <3>2. QED BY <1>1, <3>1
  <2>2. Position(p).hunk = p \div HunkBytes
    BY <1>3 DEF Position
  <2>3. QED BY <1>1, <2>1, <2>2, QuotientBelow
<1>4. QED BY <1>2, <1>3
-----------------------------------------------------------------------------
(* Steps.                                                                  *)

\* The bytes a step of Read adds follow those it has.
LEMMA AddBytes ==
  ASSUME got \in Seq(Byte), NEW n \in Nat, NEW more \in [1..n -> Byte], got' = got \o more,
         UNCHANGED <<image, tracks, offset, spoiled>>, offset \in Nat, BytesFrom(offset),
         \A j \in 1..n : \/ more[j] = ImageByte(at + j - 1)
                        \/ (spoiled /\ more[j] = <<Garbage, 0>>)
  PROVE  got' \in Seq(Byte) /\ Len(got') = Len(got) + n /\ BytesFrom(offset)'
<1>1. more \in Seq(Byte) /\ Len(more) = n
  OBVIOUS
<1>2. got' \in Seq(Byte) /\ Len(got') = Len(got) + n
  <2>1. \A s, t \in Seq(Byte) : s \o t \in Seq(Byte) /\ Len(s \o t) = Len(s) + Len(t)
    OBVIOUS
  <2>2. QED BY <1>1, <2>1, Zenon
<1>3. \A p : ImageByte(p)' = ImageByte(p)
  BY DEF ImageByte, Position, CdPosition, IsCd
<1>4. ASSUME NEW i \in 1..Len(got')
      PROVE  \/ got'[i] = ImageByte(offset + i - 1)
             \/ (spoiled /\ got'[i] = <<Garbage, 0>>)
  <2>1. CASE i <= Len(got)
    <3>1. i \in 1..Len(got) /\ got'[i] = got[i]
      BY <1>1, <2>1
    <3>2. QED BY <3>1 DEF BytesFrom
  <2>2. CASE i > Len(got)
    <3>1. i - Len(got) \in 1..n /\ got'[i] = more[i - Len(got)]
      BY <1>1, <1>2, <2>2
    <3>2. at + (i - Len(got)) - 1 = offset + i - 1
      BY DEF at
    <3>3. QED BY <3>1, <3>2
  <2>3. QED BY <1>2, <2>1, <2>2
<1>5. QED BY <1>2, <1>3, <1>4 DEF BytesFrom

\* Of a file that is not being read, while it stays the same.
LEMMA SameFile ==
  ASSUME IInv, UNCHANGED <<image, tracks>>, IsOpen' => IsOpen
  PROVE  Taken' /\ Size' = Size /\ StatSize' = StatSize
<1>1. Metadata' = Metadata
  BY DEF Metadata, HasTrack
<1>2. StatSize' = StatSize
  BY DEF StatSize, HeaderLogicalBytes, AllTracks
<1>3. Size' = Size
  BY DEF Size, IsCd
<1>4. Taken'
  BY <1>1 DEF IInv, Taken, IsCd, Consistent, UnitCount
<1>5. QED BY <1>2, <1>3, <1>4

\* A step after which no Read goes on, and none has just succeeded.
LEMMA NoRead ==
  ASSUME IInv, UNCHANGED <<image, announced, tracks, offset, currentHunkNum>>,
         data' \in {data, Garbage},
         length' \in Nat, got' \in Seq(Byte), pc' \in {"open", "closed"}, IsOpen' => IsOpen,
         pc' = "closed" \/ result' # "ok"
  PROVE  IInv'
<1>1. Taken' /\ StatSize' = StatSize
  BY SameFile
<1>2. CallType' /\ Unread' /\ GarbageSeen' /\ ReadSoFar' /\ ReadsTheImage' /\ ReadsOn'
  BY DEF IInv, CallType, Unread, GarbageSeen, ReadSoFar, ReadsTheImage, ReadsOn
<1>3. Told' /\ HunkCached'
  BY <1>1 DEF IInv, Told, HunkCached
<1>4. QED BY <1>1, <1>2, <1>3 DEF IInv

\* A step of a Read that goes on.
LEMMA ReadingOn ==
  ASSUME IInv, pc = "read", UNCHANGED <<image, announced, pc, tracks, offset, length, result, spoiled>>,
         currentHunkNum' \in Nat, got' \in Seq(Byte), HunkCached', data' = Garbage => data = Garbage,
         BytesFrom(offset)', Len(got') <= length
  PROVE  IInv'
<1>1. Taken' /\ StatSize' = StatSize /\ Size' = Size
  BY SameFile DEF IsOpen
<1>2. CallType' /\ Unread' /\ ReadsTheImage' /\ ReadsOn'
  BY DEF IInv, CallType, Unread, ReadsTheImage, ReadsOn
<1>3. GarbageSeen' /\ ReadSoFar'
  BY <1>1 DEF IInv, GarbageSeen, ReadSoFar
<1>4. QED BY <1>1, <1>2, <1>3 DEF IInv, Told

LEMMA InitIInv == ImagesAssumption /\ Init => IInv
<1>. SUFFICES ASSUME ImagesAssumption, Init PROVE IInv
  OBVIOUS
<1>1. CallType /\ Unread /\ Taken /\ Told /\ HunkCached /\ GarbageSeen /\ ReadSoFar
  BY DEF Init, CallType, Unread, Taken, IsOpen, Told, HunkCached, GarbageSeen, ReadSoFar
<1>2. ReadsTheImage /\ ReadsOn
  BY DEF Init, ReadsTheImage, ReadsOn
<1>3. QED BY <1>1, <1>2 DEF IInv

LEMMA StatKeepsIInv == IInv /\ Stat => IInv'
<1>. SUFFICES ASSUME IInv, Stat PROVE IInv'
  OBVIOUS
<1>1. /\ UNCHANGED <<image, pc, tracks, offset, currentHunkNum, data, length, got, result, spoiled>>
      /\ pc = "unopened" /\ announced' \in {StatSize, None}
  BY DEF Stat, cache, call
<1>2. Taken' /\ StatSize' = StatSize
  BY <1>1, SameFile DEF IsOpen
<1>3. CallType' /\ Unread' /\ HunkCached' /\ GarbageSeen' /\ ReadSoFar' /\ ReadsTheImage' /\ ReadsOn'
  BY <1>1 DEF IInv, CallType, Unread, HunkCached, GarbageSeen, ReadSoFar, ReadsTheImage, ReadsOn
<1>4. QED BY <1>1, <1>2, <1>3 DEF IInv, Told

LEMMA RefusalKeepsIInv == IInv /\ (OpenFails \/ NewFileRefuses \/ AsCDRefuses) => IInv'
<1>. SUFFICES ASSUME IInv, OpenFails \/ NewFileRefuses \/ AsCDRefuses PROVE IInv'
  OBVIOUS
<1>1. /\ UNCHANGED <<image, announced, tracks, offset, currentHunkNum, data, length, got>>
      /\ pc' = "closed"
  BY DEF OpenFails, NewFileRefuses, AsCDRefuses, Refuse, cache
<1>2. QED BY <1>1, NoRead DEF IInv, CallType, IsOpen

LEMMA OpenKeepsIInv == IInv /\ Open => IInv'
<1>. SUFFICES ASSUME IInv, Open PROVE IInv'
  OBVIOUS
<1>1. /\ UNCHANGED <<image, announced, offset, currentHunkNum, data, length, got, spoiled>>
      /\ pc = "unopened" /\ pc' = "open" /\ image.valid
      /\ IF image.codecs = "cd"
         THEN /\ Consistent(Metadata) /\ Metadata # <<>> /\ OneSectorSize(Metadata)
              /\ tracks' = Metadata
         ELSE image.codecs = "plain"
  BY DEF Open, cache
<1>2. StatSize' = StatSize /\ Metadata' = Metadata
  BY <1>1 DEF StatSize, HeaderLogicalBytes, AllTracks, Metadata, HasTrack
<1>3. Taken'
  BY <1>1, <1>2 DEF Taken, IsCd, Consistent, UnitCount
<1>4. length' = 0 /\ got' = <<>>
  BY <1>1 DEF IInv, Unread
<1>5. CallType' /\ Unread' /\ HunkCached' /\ GarbageSeen' /\ ReadSoFar'
  BY <1>1 DEF IInv, CallType, Unread, HunkCached, GarbageSeen, ReadSoFar
<1>6. ReadsTheImage' /\ ReadsOn'
  BY <1>4 DEF ReadsTheImage, ReadsOn
<1>7. QED BY <1>1, <1>2, <1>3, <1>5, <1>6 DEF IInv, Told

\* Only a Read that begins inside the image puts anything into the buffer.
LEMMA BeginKeepsIInv ==
  ASSUME ImagesAssumption, IInv, NEW l \in 1..MaxLen, Begin(l)
  PROVE  IInv'
<1>1. /\ UNCHANGED <<image, announced, tracks, offset, currentHunkNum, data>>
      /\ pc = "open" /\ length' = l /\ l \in Nat \ {0} /\ got' = <<>> /\ spoiled' = (data = Garbage)
  BY DEF Begin, cache, ImagesAssumption
<1>2. got' \in Seq(Byte)
  BY <1>1
<1>3. CASE offset >= Size
  BY <1>1, <1>2, <1>3, NoRead DEF Begin, IsOpen
<1>4. CASE ~(offset >= Size)
  <2>1. pc' = "read" /\ result' = "none"
    BY <1>4 DEF Begin
  <2>2. Taken' /\ StatSize' = StatSize /\ Size' = Size
    BY <1>1, <2>1, SameFile DEF IsOpen
  <2>3. Size \in Nat
    BY <1>1, SizeIsNat DEF IInv, CallType, IsOpen
  <2>4. CallType' /\ Unread' /\ GarbageSeen' /\ HunkCached'
    BY <1>1, <1>2, <2>1 DEF IInv, CallType, Unread, GarbageSeen, HunkCached
  <2>5. ReadSoFar'
    <3>1. Len(got') = 0 /\ BytesFrom(offset)'
      BY <1>1 DEF BytesFrom
    <3>2. offset < Size
      BY <1>4, <2>3 DEF IInv, CallType
    <3>3. QED BY <1>1, <2>2, <3>1, <3>2 DEF ReadSoFar
  <2>6. ReadsTheImage' /\ ReadsOn'
    BY <2>1 DEF ReadsTheImage, ReadsOn
  <2>7. QED BY <1>1, <2>2, <2>4, <2>5, <2>6 DEF IInv, Told
<1>5. QED BY <1>3, <1>4

\* A whole hunk is the bytes from its first one on.
LEMMA DirectReadKeepsIInv == ImagesAssumption /\ IInv /\ DirectRead => IInv'
<1>. SUFFICES ASSUME ImagesAssumption, IInv, DirectRead PROVE IInv'
  OBVIOUS
<1>. DEFINE more == [i \in 1..HunkBytes |-> <<Position(at).hunk, i - 1>>]
<1>1. /\ UNCHANGED <<image, announced, pc, tracks, offset, currentHunkNum, data, length, result,
         spoiled>>
      /\ pc = "read" /\ ~IsCd /\ Position(at).first = 0 /\ remain >= HunkBytes
      /\ got' = got \o more
  BY DEF DirectRead, More, Whole, cache
<1>2. /\ got \in Seq(Byte) /\ offset \in Nat /\ length \in Nat /\ at \in Nat /\ HunkBytes \in Nat \ {0}
      /\ BytesFrom(offset)
  BY <1>1 DEF IInv, CallType, ReadSoFar, at, ImagesAssumption
<1>3. /\ Position(at).hunk \in Nat /\ Position(at).end = HunkBytes
      /\ \A k \in Nat : k < HunkBytes => ImageByte(at + k) = <<Position(at).hunk, 0 + k>>
  <2>1. Position(at).end = HunkBytes
    BY <1>1 DEF Position
  <2>2. /\ Position(at).hunk \in Nat
        /\ \A k \in Nat : k < Position(at).end - Position(at).first
                        => ImageByte(at + k) = <<Position(at).hunk, Position(at).first + k>>
    BY <1>1, <1>2, PositionFacts DEF IInv, CallType, IsOpen
  <2>3. QED BY <1>1, <1>2, <2>1, <2>2
<1>4. more \in [1..HunkBytes -> Byte]
  BY <1>2, <1>3 DEF Byte
<1>5. ASSUME NEW j \in 1..HunkBytes
      PROVE  more[j] = ImageByte(at + j - 1) \/ (spoiled /\ more[j] = <<Garbage, 0>>)
  <2>1. j - 1 \in Nat /\ j - 1 < HunkBytes /\ at + (j - 1) = at + j - 1 /\ 0 + (j - 1) = j - 1
    BY <1>2
  <2>2. ImageByte(at + (j - 1)) = <<Position(at).hunk, 0 + (j - 1)>>
    BY <1>3, <2>1
  <2>3. more[j] = <<Position(at).hunk, j - 1>>
    OBVIOUS
  <2>. HIDE DEF more
  <2>4. more[j] = ImageByte(at + j - 1)
    BY <2>1, <2>2, <2>3, Zenon
  <2>5. QED BY <2>4
<1>6. got' \in Seq(Byte) /\ Len(got') = Len(got) + HunkBytes /\ BytesFrom(offset)'
  <2>. HIDE DEF more
  <2>1. HunkBytes \in Nat
    BY <1>2
  <2>2. QED BY <1>1, <1>2, <1>4, <1>5, <2>1, AddBytes
<1>7. Len(got') <= length
  BY <1>1, <1>2, <1>6 DEF remain
<1>8. QED BY <1>1, <1>6, <1>7, ReadingOn DEF IInv, CallType, HunkCached

\* What is copied is of the hunk that was asked for, or was garbage from the start.
LEMMA CopyKeepsIInv == ImagesAssumption /\ IInv /\ Copy => IInv'
<1>. SUFFICES ASSUME ImagesAssumption, IInv, Copy PROVE IInv'
  OBVIOUS
<1>. DEFINE from == Position(at)
            n == Min({remain, from.end - from.first})
            more == [i \in 1..n |-> IF data = Garbage THEN <<Garbage, 0>>
              ELSE <<data, from.first + i - 1>>]
<1>1. /\ UNCHANGED <<image, announced, pc, tracks, offset, currentHunkNum, data, length, result,
         spoiled>>
      /\ pc = "read" /\ data # None /\ currentHunkNum = from.hunk /\ remain > 0
      /\ got' = got \o more
  BY DEF Copy, More, Loaded, cache
<1>2. /\ got \in Seq(Byte) /\ offset \in Nat /\ length \in Nat /\ at \in Nat /\ remain \in Nat
      /\ BytesFrom(offset)
  BY <1>1 DEF IInv, CallType, ReadSoFar, at, remain
<1>3. /\ from.hunk \in Nat /\ from.first \in Nat /\ from.end \in Nat /\ from.first < from.end
      /\ \A k \in Nat : k < from.end - from.first => ImageByte(at + k) = <<from.hunk, from.first + k>>
  BY <1>1, <1>2, PositionFacts DEF IInv, CallType, IsOpen
<1>4. n \in Nat /\ n <= remain /\ n <= from.end - from.first
  <2>1. n = IF remain <= from.end - from.first THEN remain ELSE from.end - from.first
    <3>1. remain \in Int /\ from.end - from.first \in Int
      BY <1>2, <1>3
    <3>2. QED BY <3>1, MinOfTwo, Zenon
  <2>. HIDE DEF n
  <2>2. QED BY <1>2, <1>3, <2>1
<1>5. (data = Garbage /\ spoiled) \/ (data # Garbage /\ data = from.hunk)
  <2>1. data \in {None, Garbage} \/ data = currentHunkNum
    BY DEF IInv, HunkCached
  <2>2. data = Garbage => spoiled
    BY <1>1 DEF IInv, GarbageSeen
  <2>3. QED BY <1>1, <2>1, <2>2, Zenon
<1>6. more \in [1..n -> Byte]
  <2>. HIDE DEF n
  <2>1. <<Garbage, 0>> \in Byte
    BY DEF Byte, Garbage
  <2>2. ASSUME NEW i \in 1..n, data # Garbage PROVE <<data, from.first + i - 1>> \in Byte
    BY <1>3, <1>4, <1>5, <2>2 DEF Byte
  <2>3. QED BY <2>1, <2>2
<1>7. ASSUME NEW j \in 1..n
      PROVE  more[j] = ImageByte(at + j - 1) \/ (spoiled /\ more[j] = <<Garbage, 0>>)
  <2>. HIDE DEF n
  <2>1. more[j] = IF data = Garbage THEN <<Garbage, 0>> ELSE <<data, from.first + j - 1>>
    OBVIOUS
  <2>. HIDE DEF more
  <2>2. j - 1 \in Nat /\ j - 1 < from.end - from.first /\ at + (j - 1) = at + j - 1
        /\ from.first + (j - 1) = from.first + j - 1
    BY <1>2, <1>3, <1>4
  <2>3. ImageByte(at + (j - 1)) = <<from.hunk, from.first + (j - 1)>>
    BY <1>3, <2>2
  <2>4. CASE data = Garbage
    BY <1>5, <2>1, <2>4, Zenon
  <2>5. CASE data # Garbage
    <3>1. more[j] = <<from.hunk, from.first + j - 1>>
      BY <1>5, <2>1, <2>5, Zenon
    <3>2. more[j] = ImageByte(at + j - 1)
      BY <2>2, <2>3, <3>1, Zenon
    <3>3. QED BY <3>2
  <2>6. QED BY <2>4, <2>5
<1>8. got' \in Seq(Byte) /\ Len(got') = Len(got) + n /\ BytesFrom(offset)'
  <2>. HIDE DEF more, n
  <2>. QED BY <1>1, <1>2, <1>4, <1>6, <1>7, AddBytes
<1>9. Len(got') <= length
  <2>. HIDE DEF n
  <2>. QED BY <1>2, <1>4, <1>8 DEF remain
<1>10. QED BY <1>1, <1>8, <1>9, ReadingOn DEF IInv, CallType, HunkCached

LEMMA LoadHunkKeepsIInv == ImagesAssumption /\ IInv /\ LoadHunk => IInv'
<1>. SUFFICES ASSUME ImagesAssumption, IInv, LoadHunk PROVE IInv'
  OBVIOUS
<1>1. /\ UNCHANGED <<image, announced, pc, tracks, offset, length, got, result, spoiled>>
      /\ pc = "read" /\ data' = Position(at).hunk /\ currentHunkNum' = Position(at).hunk
  BY DEF LoadHunk, More, call
<1>2. at \in Nat /\ BytesFrom(offset) /\ Len(got) <= length
  BY <1>1 DEF IInv, CallType, ReadSoFar, at
<1>3. Position(at).hunk \in Nat
  BY <1>1, <1>2, PositionFacts DEF IInv, CallType, IsOpen
<1>4. data' # Garbage
  BY <1>1, <1>3 DEF Garbage
<1>5. BytesFrom(offset)'
  BY <1>1, <1>2 DEF BytesFrom, ImageByte, Position, CdPosition, IsCd
<1>6. QED BY <1>1, <1>2, <1>3, <1>4, <1>5, ReadingOn DEF IInv, CallType, HunkCached

LEMMA ReadFailsKeepsIInv == IInv /\ (DirectReadFails \/ LoadHunkFails) => IInv'
<1>. SUFFICES ASSUME IInv, DirectReadFails \/ LoadHunkFails PROVE IInv'
  OBVIOUS
<1>1. /\ UNCHANGED <<image, announced, tracks, currentHunkNum, length, got, offset>>
      /\ data' \in {data, Garbage} /\ pc = "read" /\ pc' = "open" /\ result' = "error"
  BY DEF DirectReadFails, LoadHunkFails, Finish, More, cache
<1>2. QED BY <1>1, NoRead DEF IInv, CallType, IsOpen

\* A Read ends with a full buffer, at the end of the image, or of its hunks.
LEMMA ReadEndsKeepsIInv == ImagesAssumption /\ IInv /\ ReadEnds => IInv'
<1>. SUFFICES ASSUME ImagesAssumption, IInv, ReadEnds PROVE IInv'
  OBVIOUS
<1>1. /\ UNCHANGED <<image, announced, tracks, currentHunkNum, data, length, got, spoiled>>
      /\ pc = "read" /\ pc' = "open" /\ ~More /\ result' = "ok" /\ offset' = at
  BY DEF ReadEnds, Finish, cache
<1>2. /\ got \in Seq(Byte) /\ offset \in Nat /\ length \in Nat /\ at \in Nat /\ image \in Images
      /\ BytesFrom(offset) /\ Len(got) <= length /\ length > 0 /\ offset < Size
  BY <1>1 DEF IInv, CallType, ReadSoFar, at
<1>3. Taken' /\ StatSize' = StatSize /\ Size' = Size
  BY <1>1, SameFile DEF IsOpen
<1>4. CallType' /\ Unread' /\ HunkCached' /\ GarbageSeen' /\ ReadSoFar'
  BY <1>1, <1>2 DEF IInv, CallType, Unread, HunkCached, GarbageSeen, ReadSoFar
<1>5. ReadsTheImage'
  <2>1. Began' = offset
    BY <1>1, <1>2 DEF Began, at
  <2>2. \A p : ImageByte(p)' = ImageByte(p)
    BY <1>1 DEF ImageByte, Position, CdPosition, IsCd
  <2>3. QED BY <1>1, <1>2, <2>1, <2>2 DEF ReadsTheImage, BytesFrom
<1>6. ReadsOn'
  <2>1. SUFFICES ASSUME image.version < 5 => image.hunks * HunkBytes >= image.logical
        PROVE  got # <<>> /\ (Len(got) = length \/ at >= Size)
    BY <1>1, <1>3 DEF ReadsOn
  <2>2. Size \in Nat
    BY <1>1, <1>2, SizeIsNat DEF IInv, IsOpen
  <2>3. at < Size => Position(at).hunk < image.hunks
    BY <1>1, <1>2, <2>1, HunkThere DEF IInv, IsOpen
  <2>4. remain <= 0 \/ at >= Size
    <3>1. ~(remain > 0) \/ ~(at < Size)
      BY <1>1, <2>3 DEF More
    <3>2. QED BY <1>2, <2>2, <3>1 DEF remain
  <2>5. Len(got) = length \/ at >= Size
    BY <1>2, <2>4 DEF remain
  <2>6. Len(got) > 0
    BY <1>2, <2>2, <2>5 DEF at
  <2>7. QED BY <2>5, <2>6
<1>7. QED BY <1>1, <1>3, <1>4, <1>5, <1>6 DEF IInv, Told

LEMMA SeekKeepsIInv == ImagesAssumption /\ IInv /\ Seek => IInv'
<1>. SUFFICES ASSUME ImagesAssumption, IInv, Seek PROVE IInv'
  OBVIOUS
<1>1. /\ UNCHANGED <<image, announced, pc, tracks, currentHunkNum, data, spoiled>>
      /\ pc = "open" /\ length' = 0 /\ got' = <<>> /\ result' = "none" /\ offset' \in 0..Size
  BY DEF Seek, cache
<1>2. Size \in Nat
  BY <1>1, SizeIsNat DEF IInv, CallType, IsOpen
<1>3. Taken' /\ StatSize' = StatSize
  BY <1>1, SameFile DEF IsOpen
<1>4. CallType' /\ Unread' /\ HunkCached' /\ GarbageSeen' /\ ReadSoFar' /\ ReadsTheImage' /\ ReadsOn'
  BY <1>1, <1>2 DEF IInv, CallType, Unread, HunkCached, GarbageSeen, ReadSoFar, ReadsTheImage,
     ReadsOn
<1>5. QED BY <1>1, <1>3, <1>4 DEF IInv, Told

LEMMA CloseKeepsIInv == IInv /\ Close => IInv'
<1>. SUFFICES ASSUME IInv, Close PROVE IInv'
  OBVIOUS
<1>1. /\ UNCHANGED <<image, announced, tracks, offset, currentHunkNum, data>>
      /\ pc' = "closed" /\ length' = 0 /\ got' = <<>>
  BY DEF Close, cache
<1>2. QED BY <1>1, NoRead DEF IInv, CallType, IsOpen

LEMMA StutterKeepsIInv == IInv /\ UNCHANGED vars => IInv'
<1>. SUFFICES ASSUME IInv, UNCHANGED vars PROVE IInv'
  OBVIOUS
<1>1. UNCHANGED <<image, announced, pc, tracks, offset, currentHunkNum, data, length, got, result,
      spoiled>>
  BY DEF vars, cache, call
<1>2. Taken' /\ StatSize' = StatSize /\ Size' = Size
  BY <1>1, SameFile DEF IsOpen
<1>3. \A p : ImageByte(p)' = ImageByte(p)
  BY <1>1 DEF ImageByte, Position, CdPosition, IsCd
<1>4. CallType' /\ Unread' /\ HunkCached' /\ GarbageSeen'
  BY <1>1 DEF IInv, CallType, Unread, HunkCached, GarbageSeen
<1>5. ReadSoFar' /\ ReadsTheImage' /\ ReadsOn'
  BY <1>1, <1>2, <1>3 DEF IInv, ReadSoFar, ReadsTheImage, ReadsOn, BytesFrom, Began
<1>6. QED BY <1>1, <1>2, <1>4, <1>5 DEF IInv, Told

LEMMA NextKeepsIInv == ImagesAssumption /\ IInv /\ [Next]_vars => IInv'
BY StatKeepsIInv, RefusalKeepsIInv, OpenKeepsIInv, BeginKeepsIInv, DirectReadKeepsIInv,
   CopyKeepsIInv, LoadHunkKeepsIInv, ReadFailsKeepsIInv, ReadEndsKeepsIInv, SeekKeepsIInv,
   CloseKeepsIInv, StutterKeepsIInv DEF Next

LEMMA AlwaysIInv == ImagesAssumption => (Spec => []IInv)
<1>. SUFFICES ASSUME ImagesAssumption PROVE Spec => []IInv
  OBVIOUS
<1>1. Init => IInv
  BY InitIInv
<1>2. IInv /\ [Next]_vars => IInv'
  BY NextKeepsIInv
<1>3. QED BY <1>1, <1>2, PTL DEF Spec
-----------------------------------------------------------------------------
\* For every CHD image and every sequence of calls: a Read that succeeds gives the
\* bytes of the image from where it began, or what a hunk left that failed to decode
\* before it began.
THEOREM ChdReadsItsImage == ImagesAssumption => (Spec => []ReadsTheImage)
<1>1. IInv => ReadsTheImage
  BY DEF IInv
<1>2. QED BY <1>1, AlwaysIInv, PTL

\* It gives at least a byte, and fewer than it was asked for only at the end, where
\* the image has the hunks its size needs.
THEOREM ChdComesToItsEnd == ImagesAssumption => (Spec => []ReadsOn)
<1>1. IInv => ReadsOn
  BY DEF IInv
<1>2. QED BY <1>1, AlwaysIInv, PTL

\* What Opener.Stat announces, without libchdr, is the size of the file that is
\* opened with it, from version 3 on and for tracks of one tag.
THEOREM ChdHasAnnouncedSize == ImagesAssumption => (Spec => []SizeAsAnnounced)
<1>. SUFFICES ASSUME ImagesAssumption PROVE Spec => []SizeAsAnnounced
  OBVIOUS
<1>1. IInv => SizeAsAnnounced
  <2>1. SUFFICES ASSUME IInv, pc = "open", announced # None, image.version >= 3, SameTag
        PROVE  announced = Size
    BY DEF SizeAsAnnounced
  <2>2. announced = StatSize /\ image \in Images
    BY <2>1 DEF IInv, CallType, Told
  <2>3. /\ image.valid /\ image.codecs \in {"plain", "cd"}
        /\ IsCd => tracks = Metadata /\ tracks # <<>> /\ OneSectorSize(tracks)
    BY <2>1 DEF IInv, Taken, IsOpen
  <2>4. CASE IsCd
    <3>1. tracks = AllTracks
      BY <2>1, <2>2, <2>3, <2>4, OneTag
    <3>2. QED BY <2>1, <2>2, <2>3, <2>4, <3>1 DEF StatSize, Size, IsCd
  <2>5. CASE ~IsCd
    <3>1. ~(image.version < 3)
      BY <2>1, <2>2 DEF ImagesAssumption
    <3>2. QED BY <2>1, <2>2, <2>3, <2>5, <3>1 DEF StatSize, Size, IsCd, HeaderLogicalBytes
  <2>6. QED BY <2>4, <2>5
<1>2. QED BY <1>1, AlwaysIInv, PTL
-----------------------------------------------------------------------------
(* Types.                                                                  *)

\* What Stat makes of a file is a size, or none.
LEMMA StatSizeIsNat ==
  ASSUME ImagesAssumption, image \in Images
  PROVE  StatSize \in Nat \cup {None}
<1>1. /\ SecLen \in Nat \ {0} /\ HeaderLen \in Nat
      /\ image.logical \in Nat /\ image.tracks \in [1..3 -> Seq(Track)]
  BY DEF ImagesAssumption
<1>2. HeaderLogicalBytes \in Nat
  <2>1. image.logical \div SecLen \in Nat
    BY <1>1, Quotient
  <2>2. \A k \in Nat : k * HeaderLen \in Nat
    BY <1>1
  <2>3. QED BY <1>1, <2>1, <2>2 DEF HeaderLogicalBytes
<1>3. CdSize(AllTracks) \in Nat
  <2>1. image.tracks[1] \in Seq(Track) /\ image.tracks[2] \in Seq(Track)
        /\ image.tracks[3] \in Seq(Track)
    BY <1>1
  <2>2. AllTracks \in Seq(Track)
    BY <2>1 DEF AllTracks
  <2>3. TotalFrames(AllTracks) \in Nat
    BY <2>2, FramesAreNat
  <2>4. AllTracks # <<>> => AllTracks[1].size \in Nat
    <3>1. AllTracks # <<>> => AllTracks[1] \in Track
      BY <2>2
    <3>2. QED BY <3>1 DEF Track
  <2>5. \A k \in Nat : k * TotalFrames(AllTracks) \in Nat
    BY <2>3
  <2>6. QED BY <2>4, <2>5 DEF CdSize
<1>4. QED BY <1>2, <1>3 DEF StatSize

\* The hunk that a Read goes on with is one of the image's.
LEMMA MoreHunk ==
  ASSUME ImagesAssumption, IInv, More
  PROVE  Position(at).hunk \in 0..image.hunks
<1>1. Taken /\ image \in Images /\ IsOpen /\ at \in Nat
  BY DEF IInv, CallType, IsOpen, More, at
<1>2. Position(at).hunk \in Nat
  BY <1>1, PositionFacts
<1>3. Position(at).hunk < image.hunks /\ image.hunks \in Nat
  BY <1>1 DEF More, ImagesAssumption
<1>4. QED BY <1>2, <1>3

LEMMA InitTypeOK == ImagesAssumption /\ Init => TypeOK
<1>. SUFFICES ASSUME ImagesAssumption, Init PROVE TypeOK
  OBVIOUS
<1>1. /\ image \in Images /\ announced = None /\ pc = "unopened" /\ libHandle = "none" /\ offset = 0
      /\ currentHunkNum = 0 /\ data = None /\ length = 0 /\ result = "none" /\ spoiled = FALSE
  BY DEF Init
<1>2. 0 \in 0..image.hunks /\ 0 \in 0..MaxLen
  BY <1>1 DEF ImagesAssumption
<1>3. spoiled \in BOOLEAN
  BY <1>1
<1>4. QED BY <1>1, <1>2, <1>3 DEF TypeOK

\* A step keeps the types, the invariant holding before and after it.
LEMMA NextKeepsTypeOK ==
  ASSUME ImagesAssumption, IInv, IInv', TypeOK, [Next]_vars
  PROVE  TypeOK'
<1>1. image' = image
  BY DEF Next, Stat, OpenFails, NewFileRefuses, AsCDRefuses, Refuse, Open, Begin, DirectRead,
     DirectReadFails,
         LoadHunk, LoadHunkFails, Copy, ReadEnds, Seek, Close, vars
<1>2. image' \in Images /\ pc' \in {"unopened", "open", "read", "closed"} /\ offset' \in Nat
  BY DEF IInv, CallType
<1>3. announced' \in Nat \cup {None}
  <2>1. StatSize' \in Nat \cup {None}
    <3>1. StatSize' = StatSize
      BY <1>1 DEF StatSize, HeaderLogicalBytes, AllTracks
    <3>2. QED BY <3>1, StatSizeIsNat DEF TypeOK
  <2>2. QED BY <2>1 DEF IInv, Told
<1>4. currentHunkNum' \in 0..image'.hunks /\ data' \in {None, Garbage} \cup 0..image'.hunks
  <2>1. CASE UNCHANGED cache
    BY <1>1, <2>1 DEF cache, TypeOK
  <2>2. CASE LoadHunk
    <3>1. Position(at).hunk \in 0..image.hunks
      BY <2>2, MoreHunk DEF LoadHunk
    <3>2. QED BY <1>1, <2>2, <3>1 DEF LoadHunk
  <2>3. CASE LoadHunkFails
    BY <1>1, <2>3 DEF LoadHunkFails, TypeOK
  <2>4. QED
    BY <2>1, <2>2, <2>3 DEF Next, Stat, OpenFails, NewFileRefuses, AsCDRefuses, Refuse, Open,
       Begin, DirectRead,
       DirectReadFails, Copy, ReadEnds, Seek, Close, vars
<1>5. length' \in 0..MaxLen
  <2>1. MaxLen \in Nat
    BY DEF ImagesAssumption
  <2>2. CASE \E l \in 1..MaxLen : Begin(l)
    BY <2>1, <2>2 DEF Begin
  <2>3. CASE UNCHANGED length
    BY <2>3 DEF TypeOK
  <2>4. CASE length' = 0
    BY <2>1, <2>4
  <2>5. QED
    BY <2>2, <2>3, <2>4 DEF Next, Stat, OpenFails, NewFileRefuses, AsCDRefuses, Refuse, Open,
       DirectRead,
       DirectReadFails, LoadHunk, LoadHunkFails, Copy, ReadEnds, Seek, Close, vars, call
<1>6. libHandle' \in {"none", "held", "dropped", "leaked"} /\ result' \in {"none", "ok", "eof", "error"}
  BY DEF TypeOK, Next, Stat, OpenFails, NewFileRefuses, AsCDRefuses, Refuse, Open, Begin,
     DirectRead,
     DirectReadFails, LoadHunk, LoadHunkFails, Copy, ReadEnds, Seek, Close, Finish, vars, call
<1>7. spoiled' \in BOOLEAN
  <2>1. CASE UNCHANGED spoiled
    BY <2>1, Zenon DEF TypeOK
  <2>2. ASSUME NEW l \in 1..MaxLen, Begin(l) PROVE spoiled' \in BOOLEAN
    <3>1. spoiled' = (data = Garbage)
      BY <2>2 DEF Begin
    <3>2. QED BY <3>1, Zenon
  <2>3. CASE UNCHANGED vars
    BY <2>1, <2>3 DEF vars, call
  <2>4. QED
    BY <2>1, <2>2, <2>3, Zenon DEF Next, Stat, OpenFails, NewFileRefuses, AsCDRefuses, Refuse,
       Open, DirectRead,
       DirectReadFails, LoadHunk, LoadHunkFails, Copy, ReadEnds, Seek, Close, call
<1>8. QED BY <1>2, <1>3, <1>4, <1>5, <1>6, <1>7, Zenon DEF TypeOK

\* The variables of a CHD image have their types: the hunk in memory is one of the
\* image's, and a size that was announced is a number.
THEOREM ChdTypeCorrect == ImagesAssumption => (Spec => []TypeOK)
<1>. SUFFICES ASSUME ImagesAssumption PROVE Spec => []TypeOK
  OBVIOUS
<1>1. Init => TypeOK
  BY InitTypeOK
<1>2. IInv /\ IInv' /\ TypeOK /\ [Next]_vars => TypeOK'
  BY NextKeepsTypeOK
<1>3. QED BY <1>1, <1>2, AlwaysIInv, PTL DEF Spec
=============================================================================
