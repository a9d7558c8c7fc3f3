------------------------------ MODULE Iso9660 ------------------------------
(***************************************************************************)
(* Sizes in bytes and in sectors: SizeBytes and SizeSectors of             *)
(* internal/iso9660.  No size here is negative.                            *)
(***************************************************************************)
EXTENDS Integers

CONSTANT SectorSize   \* 2048 in the code

ASSUME SectorSizeAssumption == SectorSize \in Nat \ {0}

Bytes(s) == SectorSize * s

FloorSectors(b) == b \div SectorSize

Sectors(b) == FloorSectors(b) + (IF b % SectorSize > 0 THEN 1 ELSE 0)

AlignToSectors(b) == Bytes(Sectors(b))

Smaller(a, b) == IF a < b THEN a ELSE b
Larger(a, b) == IF a < b THEN b ELSE a
=============================================================================
