------------------------------ MODULE DPBitmap ------------------------------
(***************************************************************************)
(* DP/DPBitmap.c: the bitmap that records which sectors of the protected   *)
(* volume live in the temporary file.  One bit stands for one sector, a    *)
(* byte for 8 sectors, a region for RegionSize bytes; regions are          *)
(* allocated the first time a bit in them is set.                          *)
(*                                                                         *)
(* A byte is the set of its bits that are 1.  Offsets and lengths are in   *)
(* bytes of the volume, as in the code.                                    *)
(***************************************************************************)
EXTENDS Integers, FiniteSets

CONSTANTS SectorSize,   \* sectorSize, bytes per sector
          RegionSize,   \* regionSize, bytes of bitmap per region
          TotalSize,    \* TotalSizeInByte of the volume
          Requests,     \* the <<offset, length>> pairs of reads and writes
          MaxSets,      \* bound: successful DPBitmapSet calls per behaviour
          NULL

ASSUME BitmapAssumption ==
    /\ SectorSize \in Nat \ {0}
    /\ RegionSize \in Nat \ {0}
    /\ TotalSize \in Nat
    /\ TotalSize % SectorSize = 0
    /\ MaxSets \in Nat
    /\ Requests \subseteq Int \X Nat
    /\ \A q \in Requests : q[1] + q[2] <= TotalSize

VARIABLES Bitmap,       \* the regions, or NULL when there is no bitmap
          sets,         \* how many ranges were set (bounded by MaxSets)
          asked         \* history: the sectors of those ranges

vars == <<Bitmap, sets, asked>>

Sectors == 0 .. (TotalSize \div SectorSize) - 1

\* The sectors the byte range [o, o + l) touches.
Touched(o, l) == {s \in Sectors : s * SectorSize < o + l /\ o < (s + 1) * SectorSize}

ByteSize        == 8
RegionReferSize == SectorSize * ByteSize * RegionSize

\* Slip: the division is not rounded up.
RegionNumberShort == TotalSize \div RegionReferSize

\* The size DPVolumeOnLineCompleteRoutine asks for.
RegionNumber    == TotalSize \div RegionReferSize + 1
BitmapReferSize == RegionReferSize * RegionNumber

Bits        == 0 .. 7

\* Slip: a region one byte too long.
ClearRegionLong == [b \in 0 .. RegionSize |-> {}]

\* A region as DPBitmapSet allocates it.
ClearRegion == [b \in 0 .. RegionSize - 1 |-> {}]
Regions     == 0 .. RegionNumber - 1

\* A null pointer points to no region and to no bitmap.
ASSUME NullAssumption ==
    /\ NULL \notin [0 .. RegionSize - 1 -> SUBSET Bits]
    /\ NULL \notin [Regions -> {NULL} \cup [0 .. RegionSize - 1 -> SUBSET Bits]]

\* Where the bit of the sector at byte position p is.
RegionOf(p) == p \div RegionReferSize
ByteOf(p)   == ((p % RegionReferSize) \div ByteSize) \div SectorSize
BitPos(p)   == ((p % RegionReferSize) \div SectorSize) % ByteSize
Cell(p)     == <<RegionOf(p), ByteOf(p), BitPos(p)>>

\* The positions offset, offset + SectorSize, ... below offset + length.
Positions(offset, length) ==
    {offset + i : i \in {j \in 0 .. length - 1 : j % SectorSize = 0}}

IsSet(map, p) == /\ map[RegionOf(p)] # NULL
                 /\ BitPos(p) \in map[RegionOf(p)][ByteOf(p)]

Misaligned(offset, length) == offset % SectorSize # 0 \/ length % SectorSize # 0
-----------------------------------------------------------------------------
(* DPBitmapSet.                                                            *)

\* The bits set one at a time before the first byte boundary of the range.
Leading(P) == {p \in P : \A q \in P : q <= p => BitPos(q) # 0}

\* Slip: the trailing bits stop one sector short.
TrailingShort(P) == {p \in P : \A q \in P : q + SectorSize >= p => BitPos(q) # 7}

\* The bits set one at a time after the last byte boundary of the range.
Trailing(P) == {p \in P : \A q \in P : q >= p => BitPos(q) # 7}

\* The bytes memset to 0xff from position setBegin to position setEnd.
WholeBytes(setBegin, setEnd) ==
    UNION {{r} \X ((IF r = RegionOf(setBegin) THEN ByteOf(setBegin) ELSE 0) ..
                   (IF r = RegionOf(setEnd) THEN ByteOf(setEnd) ELSE RegionSize - 1))
           : r \in RegionOf(setBegin) .. RegionOf(setEnd)}

\* The positions of a range where a byte begins, and where one ends.
ByteBegins(P) == {p \in P : BitPos(p) = 0}
ByteEnds(P)   == {p \in P : BitPos(p) = 7}

Least(P) == CHOOSE p \in P : \A q \in P : p <= q
Most(P)  == CHOOSE p \in P : \A q \in P : p >= q

\* The cells DPBitmapSet writes: the leading bits, then, when the range has
\* a byte boundary, the trailing bits and the whole bytes between the two.
CellsOf(P) ==
    LET first == ByteBegins(P)
        last  == ByteEnds(P)
    IN {Cell(p) : p \in Leading(P)}
       \cup (IF first = {} THEN {} ELSE {Cell(p) : p \in Trailing(P)})
       \cup (IF first = {} \/ last = {} \/ Least(first) = Most(last) THEN {}
             ELSE {<<c[1], c[2], b>> :
                      c \in WholeBytes(Least(first), Most(last)), b \in Bits})

SetCells(offset, length) == CellsOf(Positions(offset, length))

\* The regions the range needs, the one its end falls in included.
Needed(offset, length) == RegionOf(offset) .. RegionOf(offset + length)

Allocate(map, R) ==
    [r \in Regions |-> IF r \in R /\ map[r] = NULL THEN ClearRegion ELSE map[r]]

WriteCells(map, C) ==
    [r \in Regions |->
        IF map[r] = NULL THEN NULL
        ELSE [b \in 0 .. RegionSize - 1 |->
                 map[r][b] \cup {i \in Bits : <<r, b, i>> \in C}]]
-----------------------------------------------------------------------------
(* DPBitmapTest and DPBitmapGet as functions of the bitmap.                *)

\* Slip: one set sector is enough to call the whole range SET.
TestResultAnySet(map, offset, length) ==
    LET P == Positions(offset, length)
    IN CASE map = NULL \/ P = {}                -> "UNKNOW"
         [] map # NULL /\ \E p \in P : IsSet(map, p)  -> "SET"
         [] OTHER                               -> "CLEAR"

\* DPBitmapTest.
TestResult(map, offset, length) ==
    IF map = NULL \/ offset < 0 \/ offset + length > BitmapReferSize
    THEN "UNKNOW"
    ELSE LET P == Positions(offset, length)
             S == {p \in P : IsSet(map, p)}
         IN CASE P = {}             -> "UNKNOW"
              [] P # {} /\ S = P    -> "SET"
              [] P # {} /\ S = {}   -> "CLEAR"
              [] OTHER              -> "BLEND"

\* Slip: the last sector of the range is not merged.
GetCopiesShort(map, offset, length) ==
    IF map = NULL \/ offset < 0 \/ Misaligned(offset, length) THEN {-1}
    ELSE {p \in Positions(offset, length - SectorSize) : IsSet(map, p)}

\* The positions of bufInOut that DPBitmapGet overwrites from bufIn, or the
\* set {-1} when it refuses its parameters.
GetCopies(map, offset, length) ==
    IF map = NULL \/ offset < 0 \/ Misaligned(offset, length) THEN {-1}
    ELSE {p \in Positions(offset, length) : IsSet(map, p)}
-----------------------------------------------------------------------------
Init == Bitmap = NULL /\ sets = 0 /\ asked = {}

\* Every pool allocation of the call succeeds: all regions are absent.  On a
\* failed allocation the handle is NULL.  The bitmap that was there before is
\* overwritten either way.
DPBitmapInit == /\ Bitmap' \in {[r \in Regions |-> NULL], NULL}
                /\ sets' = 0 /\ asked' = {}

\* The caller drops its pointer with the bitmap.
DPBitmapFree == /\ Bitmap # NULL
                /\ Bitmap' = NULL
                /\ sets' = 0 /\ asked' = {}

Accepts(offset, length) ==
    /\ Bitmap # NULL
    /\ offset >= 0
    /\ ~Misaligned(offset, length)

DPBitmapSet(offset, length) ==
    /\ Accepts(offset, length)
    /\ sets < MaxSets
    /\ Bitmap' = WriteCells(Allocate(Bitmap, Needed(offset, length)),
                            SetCells(offset, length))
    /\ sets' = sets + 1
    /\ asked' = asked \cup Touched(offset, length)

\* One of the allocations fails: the regions before it stay, no bit is set.
DPBitmapSetFails(offset, length) ==
    /\ Accepts(offset, length)
    /\ \E r \in Needed(offset, length) :
          /\ Bitmap[r] = NULL
          /\ Bitmap' = Allocate(Bitmap, {q \in Needed(offset, length) : q < r})
    /\ UNCHANGED <<sets, asked>>

Next == \/ DPBitmapInit
        \/ DPBitmapFree
        \/ \E q \in Requests : DPBitmapSet(q[1], q[2])
        \/ \E q \in Requests : DPBitmapSetFails(q[1], q[2])

Spec == Init /\ [][Next]_vars
-----------------------------------------------------------------------------
TypeOK ==
    /\ Bitmap \in {NULL} \cup [Regions -> {NULL} \cup [0 .. RegionSize - 1 -> SUBSET Bits]]
    /\ sets \in 0 .. MaxSets
    /\ asked \subseteq Sectors

\* The sectors whose bit is 1.
MarkedSectors ==
    IF Bitmap = NULL THEN {} ELSE {s \in Sectors : IsSet(Bitmap, s * SectorSize)}

\* Setting a range through leading bits, trailing bits and a memset of the
\* bytes between them marks every sector of the range and no other, at every
\* alignment of its ends and across regions, and no position after the end of the
\* volume; a call that runs out of memory half way through its regions marks none
\* (DPBitmapSet).
SetIsExact ==
    /\ MarkedSectors = asked
    /\ Bitmap # NULL =>
           \A p \in Positions(TotalSize, BitmapReferSize - TotalSize) : ~IsSet(Bitmap, p)

\* A request inside the volume only needs regions the pointer array has:
\* the "+ 1" of DPVolumeOnLineCompleteRoutine covers the extra region that
\* DPBitmapSet touches for a range that ends on a region boundary.
RegionsInBounds ==
    Bitmap # NULL =>
        \A q \in Requests : Accepts(q[1], q[2]) => Needed(q[1], q[2]) \subseteq DOMAIN Bitmap

\* DPBitmapTest tells the truth about every aligned range: SET, CLEAR and
\* BLEND exactly when all, none and some of its sectors are marked.
TestIsExact ==
    \A q \in {r \in Requests : r[1] >= 0 /\ r[2] > 0 /\ ~Misaligned(r[1], r[2])} :
        LET T == Touched(q[1], q[2])
        IN Bitmap # NULL =>
            TestResult(Bitmap, q[1], q[2]) =
                CASE T \subseteq MarkedSectors     -> "SET"
                  [] T \cap MarkedSectors = {}     -> "CLEAR"
                  [] OTHER                         -> "BLEND"

\* DPBitmapGet takes from the temporary file exactly the sectors for which
\* DPBitmapTest reported redirection: a BLEND read merges what Test saw.
GetAgreesWithTest ==
    \A q \in {r \in Requests : r[1] >= 0 /\ r[2] > 0 /\ ~Misaligned(r[1], r[2])} :
        LET G == GetCopies(Bitmap, q[1], q[2])
        IN CASE TestResult(Bitmap, q[1], q[2]) = "SET"   -> G = Positions(q[1], q[2])
             [] TestResult(Bitmap, q[1], q[2]) = "CLEAR" -> G = {}
             [] TestResult(Bitmap, q[1], q[2]) = "BLEND" -> G # {} /\ G # Positions(q[1], q[2])
             [] OTHER                                    -> Bitmap = NULL
=============================================================================
