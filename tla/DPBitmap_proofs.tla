-------------------------- MODULE DPBitmap_proofs --------------------------
(***************************************************************************)
(* The arithmetic of DPBitmap.c is right for all sizes of sectors, regions *)
(* and volumes and all ranges.                                             *)
(*                                                                         *)
(* The index computations lead from a sector to a region, a byte and a bit *)
(* (Place), a different one for each sector (PlaceIsUnique).  The bits     *)
(* DPBitmapSet writes are those of its range (SetCellsAre).  So the bits   *)
(* that are 1 are those of the sectors asked for (BitmapInv).              *)
(***************************************************************************)
EXTENDS DPBitmap, TLAPS

(* Division.                                                               *)

LEMMA DivMod ==
    ASSUME NEW a \in Int, NEW b \in Nat \ {0}
    PROVE  /\ a \div b \in Int /\ a % b \in 0 .. b - 1
           /\ a = b * (a \div b) + (a % b)
<1>1. a \div b \in Int
  OBVIOUS
<1>2. a % b \in 0 .. b - 1
  OBVIOUS
<1>3. a = b * (a \div b) + (a % b)
  OBVIOUS
<1> QED
  BY <1>1, <1>2, <1>3

\* A larger multiple is larger by one divisor at least.
LEMMA MulLess ==
    ASSUME NEW b \in Nat \ {0}, NEW q \in Int, NEW t \in Int, q < t
    PROVE  b * q + b <= b * t
<1>1. t = q + 1 + (t - q - 1) /\ t - q - 1 >= 0
  OBVIOUS
<1>2. b * (t - q - 1) >= 0
  BY <1>1
<1>3. b * t = b * q + b + b * (t - q - 1)
  OBVIOUS
<1> QED
  BY <1>2, <1>3

\* Quotient and remainder are determined by the number.
LEMMA DivUnique ==
    ASSUME NEW b \in Nat \ {0}, NEW q \in Int, NEW r \in 0 .. b - 1
    PROVE  (b * q + r) \div b = q /\ (b * q + r) % b = r
<1> DEFINE a == b * q + r
<1> DEFINE t == a \div b
<1> DEFINE m == a % b
<1>1. t \in Int /\ m \in 0 .. b - 1 /\ b * q + r = b * t + m
  BY DivMod
<1> HIDE DEF t, m
<1>2. ~(q < t)
  <2> SUFFICES ASSUME q < t PROVE FALSE
    OBVIOUS
  <2>1. b * q + b <= b * t
    BY <1>1, MulLess
  <2> QED
    BY <2>1, <1>1
<1>3. ~(t < q)
  <2> SUFFICES ASSUME t < q PROVE FALSE
    OBVIOUS
  <2>1. b * t + b <= b * q
    BY <1>1, MulLess
  <2> QED
    BY <2>1, <1>1
<1>4. q = t
  BY <1>1, <1>2, <1>3
<1>5. r = m
  BY <1>1, <1>4
<1> QED
  BY <1>4, <1>5 DEF t, m
LEMMA DivIs ==
    ASSUME NEW b \in Nat \ {0}, NEW a \in Int, NEW q \in Int, NEW r \in 0 .. b - 1,
           a = b * q + r
    PROVE  a \div b = q /\ a % b = r
  BY DivUnique

LEMMA DivMonotone ==
    ASSUME NEW b \in Nat \ {0}, NEW x \in Int, NEW y \in Int, x <= y
    PROVE  x \div b <= y \div b
<1> DEFINE p == x \div b
<1> DEFINE q == y \div b
<1>1. /\ p \in Int /\ x % b \in 0 .. b - 1 /\ x = b * p + (x % b)
      /\ q \in Int /\ y % b \in 0 .. b - 1 /\ y = b * q + (y % b)
  BY DivMod
<1> HIDE DEF p, q
<1> SUFFICES ASSUME q < p PROVE FALSE
  BY <1>1 DEF p, q
<1>2. b * q + b <= b * p
  BY <1>1, MulLess
<1> QED
  BY <1>1, <1>2

\* Multiplying keeps the order and is undone by comparing.
LEMMA MulOrder ==
    ASSUME NEW b \in Nat \ {0}, NEW x \in Int, NEW y \in Int
    PROVE  /\ x * b <= y * b <=> x <= y
           /\ x * b < y * b <=> x < y
           /\ x * b = y * b => x = y
<1>1. x < y => b * x + b <= b * y
  BY MulLess
<1>2. y < x => b * y + b <= b * x
  BY MulLess
<1>3. x * b = b * x /\ y * b = b * y /\ x * b \in Int /\ y * b \in Int
  OBVIOUS
<1>4. x = y => x * b = y * b
  OBVIOUS
<1> QED
  BY <1>1, <1>2, <1>3, <1>4
-----------------------------------------------------------------------------
(* Where the bit of a sector is.                                           *)

\* The sector of bit i of byte b of region r.
SectorAt(r, b, i) == 8 * (RegionSize * r + b) + i

Bytes == 0 .. RegionSize - 1

LEMMA Sizes ==
    /\ SectorSize \in Nat \ {0} /\ RegionSize \in Nat \ {0} /\ TotalSize \in Nat
    /\ RegionReferSize \in Nat \ {0}
    /\ RegionReferSize = (8 * SectorSize) * RegionSize
    /\ RegionReferSize = SectorSize * (8 * RegionSize)
<1>1. SectorSize \in Nat \ {0} /\ RegionSize \in Nat \ {0} /\ TotalSize \in Nat
  BY BitmapAssumption
<1>2. RegionReferSize = SectorSize * 8 * RegionSize
  BY DEF RegionReferSize, ByteSize
<1>3. SectorSize * 8 = 8 * SectorSize
  BY <1>1
<1>4. RegionReferSize = (8 * SectorSize) * RegionSize
  BY <1>1, <1>2, <1>3
<1>5. (8 * SectorSize) * RegionSize = SectorSize * (8 * RegionSize)
  BY <1>1
<1>6. (8 * SectorSize) * RegionSize \in Nat \ {0}
  <2>1. (8 * SectorSize) * RegionSize # 0
    BY <1>1, MulOrder, 8 * SectorSize \in Nat \ {0}, 0 * RegionSize = 0
  <2> QED
    BY <2>1, <1>1
<1> QED
  BY <1>1, <1>4, <1>5, <1>6

LEMMA SectorInNat ==
    ASSUME NEW r \in Nat, NEW b \in Bytes, NEW i \in Bits
    PROVE  SectorAt(r, b, i) \in Nat
  BY Sizes DEF SectorAt, Bytes, Bits

\* Every sector has such a place.
LEMMA Located ==
    ASSUME NEW s \in Nat
    PROVE  \E r \in Nat, b \in Bytes, i \in Bits : s = SectorAt(r, b, i)
<1> DEFINE n == s \div 8
<1>1. n \in Nat /\ s % 8 \in Bits /\ s = 8 * n + (s % 8)
  BY DEF Bits
<1> HIDE DEF n
<1>2. /\ n \div RegionSize \in Int /\ n % RegionSize \in Bytes
      /\ n = RegionSize * (n \div RegionSize) + (n % RegionSize)
  BY <1>1, DivMod, Sizes DEF Bytes
<1>3. n \div RegionSize \in Nat
  <2>1. 0 \div RegionSize = 0
    BY DivUnique, Sizes, RegionSize * 0 + 0 = 0
  <2> QED
    BY <2>1, <1>1, <1>2, DivMonotone, Sizes
<1> QED
  BY <1>1, <1>2, <1>3 DEF SectorAt

\* The index computations of DPBitmapSet, DPBitmapTest and DPBitmapGet lead
\* to that place.
LEMMA Place ==
    ASSUME NEW r \in Nat, NEW b \in Bytes, NEW i \in Bits
    PROVE  LET p == SectorAt(r, b, i) * SectorSize
           IN  RegionOf(p) = r /\ ByteOf(p) = b /\ BitPos(p) = i
<1> DEFINE S == SectorSize
<1> DEFINE p == SectorAt(r, b, i) * S
<1> DEFINE k == 8 * b + i
<1> DEFINE w == i * S
<1>1. /\ S \in Nat \ {0} /\ RegionSize \in Nat \ {0} /\ RegionReferSize \in Nat \ {0}
      /\ RegionReferSize = (8 * S) * RegionSize /\ RegionReferSize = S * (8 * RegionSize)
  BY Sizes
<1>2. k \in 0 .. 8 * RegionSize - 1
  BY <1>1 DEF Bytes, Bits
<1>3. k * S \in 0 .. RegionReferSize - 1
  <2>1. k * S < (8 * RegionSize) * S /\ 0 * S <= k * S
    BY <1>1, <1>2, MulOrder
  <2>2. (8 * RegionSize) * S = RegionReferSize /\ 0 * S = 0 /\ k * S \in Int
    BY <1>1, <1>2
  <2> QED
    BY <2>1, <2>2, <1>1
<1>4. p = RegionReferSize * r + k * S
  <2>1. SectorAt(r, b, i) = (8 * RegionSize) * r + k
    BY <1>1 DEF SectorAt, Bytes, Bits
  <2>2. ((8 * RegionSize) * r + k) * S = (S * (8 * RegionSize)) * r + k * S
    BY <1>1, <1>2
  <2> QED
    BY <2>1, <2>2, <1>1
<1>5. p \div RegionReferSize = r /\ p % RegionReferSize = k * S
  <2> DEFINE t == k * S
  <2>1. /\ p \in Int /\ t \in 0 .. RegionReferSize - 1 /\ r \in Int
        /\ p = RegionReferSize * r + t
    BY <1>1, <1>3, <1>4
  <2> HIDE DEF p, t
  <2>2. RegionReferSize \in Nat \ {0}
    BY Sizes
  <2>3. p \div RegionReferSize = r
    BY <2>1, <2>2, DivIs
  <2>4. p % RegionReferSize = t
    BY <2>1, <2>2, DivIs
  <2> QED
    BY <2>3, <2>4 DEF t
<1>6. ((k * S) \div 8) \div S = b
  <2> DEFINE x == (k * S) \div 8
  <2> DEFINE m == (k * S) % 8
  <2> DEFINE bS == S * b
  <2>1. x \in Int /\ m \in 0 .. 7 /\ k * S = 8 * x + m
    <3> DEFINE t == k * S
    <3>1. t \in Int
      BY <1>1, <1>2
    <3> HIDE DEF t
    <3>2. t \div 8 \in Int /\ t % 8 \in 0 .. 7 /\ t = 8 * (t \div 8) + (t % 8)
      BY <3>1
    <3> QED
      BY <3>2 DEF t
  <2>2. k * S = 8 * bS + w
    BY <1>1 DEF Bytes, Bits
  <2>3. w \in Int /\ 0 <= w /\ w <= 7 * S
    <3>1. 0 * S <= i * S /\ i * S <= 7 * S
      BY <1>1, MulOrder DEF Bits
    <3> QED
      BY <1>1, <3>1 DEF Bits
  <2>4. bS \in Int
    BY <1>1 DEF Bytes
  <2> HIDE DEF x, m, w, bS
  <2>5. x - bS \in 0 .. S - 1
    BY <2>1, <2>2, <2>3, <2>4, <1>1
  <2>6. x = S * b + (x - bS)
    BY <2>1, <2>4, <1>1 DEF bS, Bytes
  <2>7. x \div S = b
    <3>1. x \in Int /\ b \in Int
      BY <2>1 DEF Bytes
    <3> QED
      BY <3>1, <2>5, <2>6, <1>1, DivIs
  <2> QED
    BY <2>7 DEF x
<1>7. ((k * S) \div S) % 8 = i
  <2>1. k * S = S * k + 0 /\ k \in Int
    BY <1>1, <1>2
  <2>2. (k * S) \div S = k
    <3> DEFINE t == k * S
    <3>1. t \in Int /\ t = S * k + 0 /\ 0 \in 0 .. S - 1
      BY <2>1, <1>1
    <3> HIDE DEF t, k
    <3>2. t \div S = k
      BY <3>1, <2>1, <1>1, DivIs
    <3> QED
      BY <3>2 DEF t
  <2>3. k % 8 = i
    BY DEF Bytes, Bits
  <2> QED
    BY <2>2, <2>3
<1> QED
  BY <1>5, <1>6, <1>7 DEF RegionOf, ByteOf, BitPos, ByteSize
LEMMA PlaceOf ==
    ASSUME NEW s \in Nat
    PROVE  LET p == s * SectorSize
           IN  /\ RegionOf(p) \in Nat /\ ByteOf(p) \in Bytes /\ BitPos(p) \in Bits
               /\ s = SectorAt(RegionOf(p), ByteOf(p), BitPos(p))
<1> PICK r \in Nat, b \in Bytes, i \in Bits : s = SectorAt(r, b, i)
  BY Located
<1> QED
  BY Place

\* Sectors are numbered through the bytes of a region and through the regions.
LEMMA SectorOrder ==
    ASSUME NEW r \in Nat, NEW b \in Bytes, NEW i \in Bits,
           NEW q \in Nat, NEW c \in Bytes, NEW j \in Bits,
           r < q \/ (r = q /\ b < c)
    PROVE  SectorAt(r, b, i) < SectorAt(q, c, j)
<1>1. RegionSize * r \in Int /\ RegionSize * q \in Int
  BY Sizes
<1>2. RegionSize * r + b < RegionSize * q + c
  <2>1. CASE r < q
    BY <1>1, <2>1, MulLess, Sizes DEF Bytes
  <2>2. CASE r = q /\ b < c
    BY <1>1, <2>2 DEF Bytes
  <2> QED
    BY <2>1, <2>2
<1> QED
  BY <1>1, <1>2 DEF SectorAt, Bits, Bytes

\* No two sectors share a bit.
LEMMA PlaceIsUnique ==
    ASSUME NEW r \in Nat, NEW b \in Bytes, NEW i \in Bits,
           NEW q \in Nat, NEW c \in Bytes, NEW j \in Bits,
           SectorAt(r, b, i) = SectorAt(q, c, j)
    PROVE  r = q /\ b = c /\ i = j
  BY Place
-----------------------------------------------------------------------------
(* Ranges as sectors.                                                      *)

\* The positions of a range are the beginnings of sectors in it.
LEMMA PositionsAre ==
    ASSUME NEW a \in Nat, NEW l \in Int
    PROVE  \A p : p \in Positions(a * SectorSize, l) <=>
               \E s \in Nat : /\ p = s * SectorSize /\ a <= s
                              /\ s * SectorSize < a * SectorSize + l
<1> DEFINE S == SectorSize
<1> DEFINE aS == a * S
<1>1. S \in Nat \ {0} /\ aS \in Int
  BY Sizes
<1>2. ASSUME NEW p \in Positions(aS, l)
      PROVE  \E s \in Nat : p = s * S /\ a <= s /\ s * S < aS + l
  <2>1. PICK j \in 0 .. l - 1 : j % S = 0 /\ p = aS + j
    BY <1>2 DEF Positions
  <2> DEFINE k == j \div S
  <2>2. k \in Int /\ j = S * k
    BY <1>1, <2>1, DivMod
  <2> HIDE DEF k
  <2>3. k \in Nat
    BY <1>1, <2>1, <2>2, MulOrder, 0 * S = 0, S * k = k * S
  <2>4. (a + k) * S = aS + S * k
    BY <1>1, <2>3
  <2>5. a + k \in Nat /\ p = (a + k) * S /\ a <= a + k /\ (a + k) * S < aS + l
    BY <1>1, <2>1, <2>2, <2>3, <2>4
  <2> QED
    BY <2>5
<1>3. ASSUME NEW s \in Nat, a <= s, s * S < aS + l
      PROVE  s * S \in Positions(aS, l)
  <2> DEFINE k == s - a
  <2> DEFINE j == S * k
  <2>1. k \in Nat /\ j \in Int /\ s * S = aS + j
    BY <1>1, <1>3
  <2>2. j >= 0
    BY <1>1, <2>1
  <2>3. j % S = 0
    <3>1. j = S * k + 0 /\ 0 \in 0 .. S - 1 /\ k \in Int
      BY <1>1, <2>1
    <3> HIDE DEF j, k
    <3> QED
      BY <3>1, <2>1, <1>1, DivIs
  <2> HIDE DEF j, k
  <2>4. j \in 0 .. l - 1
    BY <1>1, <1>3, <2>1, <2>2
  <2> HIDE DEF aS
  <2> QED
    BY <2>1, <2>3, <2>4 DEF Positions
<1> QED
  BY <1>2, <1>3

\* An aligned range is made of whole sectors.
LEMMA RangeIsSectors ==
    ASSUME NEW a \in Nat, NEW n \in Nat
    PROVE  Positions(a * SectorSize, n * SectorSize) = {s * SectorSize : s \in a .. a + n - 1}
<1>1. ASSUME NEW s \in Nat
      PROVE  s * SectorSize < a * SectorSize + n * SectorSize <=> s < a + n
  <2>1. a * SectorSize + n * SectorSize = (a + n) * SectorSize
    BY Sizes
  <2> QED
    BY <2>1, Sizes, MulOrder, a + n \in Int
<1>2. n * SectorSize \in Int
  BY Sizes
<1> QED
  BY <1>1, <1>2, PositionsAre

\* What DPBitmapSet accepts is made of whole sectors.
LEMMA Aligned ==
    ASSUME NEW o \in Int, NEW l \in Nat, o >= 0, ~Misaligned(o, l)
    PROVE  \E a \in Nat, n \in Nat : o = a * SectorSize /\ l = n * SectorSize
<1>1. ASSUME NEW x \in Nat, x % SectorSize = 0
      PROVE  \E k \in Nat : x = k * SectorSize
  <2> DEFINE k == x \div SectorSize
  <2>1. k \in Int /\ x = SectorSize * k
    BY <1>1, DivMod, Sizes
  <2> HIDE DEF k
  <2>2. SectorSize * k = k * SectorSize
    BY <2>1, Sizes
  <2>3. k \in Nat
    BY <1>1, <2>1, <2>2, MulOrder, Sizes, 0 * SectorSize = 0
  <2> QED
    BY <2>1, <2>2, <2>3
<1>2. o \in Nat /\ o % SectorSize = 0 /\ l % SectorSize = 0
  BY DEF Misaligned
<1> QED
  BY <1>1, <1>2
-----------------------------------------------------------------------------
(* What DPBitmapSet writes.                                                *)

LEMMA BitIs ==
    ASSUME NEW s \in Nat
    PROVE  BitPos(s * SectorSize) = s % 8
<1>1. PICK r \in Nat, b \in Bytes, i \in Bits : s = SectorAt(r, b, i)
  BY Located
<1> DEFINE n == RegionSize * r + b
<1>2. n \in Int
  BY Sizes DEF Bytes
<1>3. s = 8 * n + i
  BY <1>1 DEF SectorAt
<1> HIDE DEF n
<1>4. s % 8 = i
  BY <1>2, <1>3 DEF Bits
<1> QED
  BY <1>1, <1>4, Place

\* The positions of the sectors from a to a + n - 1.
Span(a, n) == {s * SectorSize : s \in a .. a + n - 1}

LEMMA SpanOrder ==
    ASSUME NEW s \in Nat, NEW t \in Nat
    PROVE  /\ s * SectorSize \in Nat
           /\ s * SectorSize <= t * SectorSize <=> s <= t
           /\ s * SectorSize = t * SectorSize => s = t
  BY MulOrder, Sizes

\* A range with a byte boundary has a first one ...
LEMMA FirstBoundary ==
    ASSUME NEW a \in Nat, NEW n \in Nat, ByteBegins(Span(a, n)) # {}
    PROVE  \E u \in a .. a + n - 1 :
              /\ u % 8 = 0 /\ Least(ByteBegins(Span(a, n))) = u * SectorSize
              /\ \A s \in a .. a + n - 1 : s % 8 = 0 => u <= s
<1> DEFINE B == ByteBegins(Span(a, n))
<1> DEFINE u == 8 * ((a + 7) \div 8)
<1>1. \A p : p \in B <=> \E s \in a .. a + n - 1 : p = s * SectorSize /\ s % 8 = 0
  BY BitIs DEF ByteBegins, Span
<1>2. u \in Nat /\ a <= u /\ u % 8 = 0
  OBVIOUS
<1>3. \A s \in a .. a + n - 1 : s % 8 = 0 => u <= s
  OBVIOUS
<1> HIDE DEF u
<1>4. PICK w \in a .. a + n - 1 : w % 8 = 0
  BY <1>1
<1>5. u \in a .. a + n - 1
  BY <1>2, <1>3, <1>4
<1>6. u * SectorSize \in B
  BY <1>1, <1>2, <1>5
<1>7. \A q \in B : u * SectorSize <= q
  BY <1>1, <1>2, <1>3, SpanOrder
<1>8. \A p \in B : (\A q \in B : p <= q) => p = u * SectorSize
  <2> SUFFICES ASSUME NEW p \in B, \A q \in B : p <= q
               PROVE  p = u * SectorSize
    OBVIOUS
  <2>1. p <= u * SectorSize /\ u * SectorSize <= p
    BY <1>6, <1>7
  <2>2. PICK s \in a .. a + n - 1 : p = s * SectorSize
    BY <1>1
  <2>3. s <= u /\ u <= s
    BY <1>2, <2>1, <2>2, SpanOrder
  <2> QED
    BY <1>2, <2>2, <2>3
<1> HIDE DEF B
<1>9. Least(B) = u * SectorSize
  BY <1>6, <1>7, <1>8 DEF Least
<1> QED
  BY <1>2, <1>3, <1>5, <1>9 DEF B

\* ... and a range in which a byte ends has a last such sector.
LEMMA LastBoundary ==
    ASSUME NEW a \in Nat, NEW n \in Nat, ByteEnds(Span(a, n)) # {}
    PROVE  \E v \in a .. a + n - 1 :
              /\ v % 8 = 7 /\ Most(ByteEnds(Span(a, n))) = v * SectorSize
              /\ \A s \in a .. a + n - 1 : s % 8 = 7 => s <= v
<1> DEFINE B == ByteEnds(Span(a, n))
<1> DEFINE v == 8 * ((a + n) \div 8) - 1
<1>1. \A p : p \in B <=> \E s \in a .. a + n - 1 : p = s * SectorSize /\ s % 8 = 7
  BY BitIs DEF ByteEnds, Span
<1>2. v \in Int /\ v <= a + n - 1 /\ v % 8 = 7
  OBVIOUS
<1>3. \A s \in a .. a + n - 1 : s % 8 = 7 => s <= v
  OBVIOUS
<1> HIDE DEF v
<1>4. PICK w \in a .. a + n - 1 : w % 8 = 7
  BY <1>1
<1>5. v \in a .. a + n - 1 /\ v \in Nat
  BY <1>2, <1>3, <1>4
<1>6. v * SectorSize \in B
  BY <1>1, <1>2, <1>5
<1>7. \A q \in B : q <= v * SectorSize
  BY <1>1, <1>3, <1>5, SpanOrder
<1>8. \A p \in B : (\A q \in B : p >= q) => p = v * SectorSize
  <2> SUFFICES ASSUME NEW p \in B, \A q \in B : p >= q
               PROVE  p = v * SectorSize
    OBVIOUS
  <2>1. v * SectorSize <= p /\ p <= v * SectorSize
    <3>1. p >= v * SectorSize
      BY <1>6
    <3> QED
      BY <3>1, <1>7
  <2>2. PICK s \in a .. a + n - 1 : p = s * SectorSize
    BY <1>1
  <2>3. s <= v /\ v <= s
    BY <1>5, <2>1, <2>2, SpanOrder
  <2> QED
    BY <1>2, <2>2, <2>3
<1>9. \A q \in B : v * SectorSize >= q
  BY <1>7
<1> HIDE DEF B
<1>10. Most(B) = v * SectorSize
  BY <1>6, <1>8, <1>9 DEF Most
<1> QED
  BY <1>2, <1>3, <1>5, <1>10 DEF B

\* The bytes that are memset are those of the sectors between.
LEMMA WholeBytesAre ==
    ASSUME NEW u \in Nat, NEW v \in Nat, u % 8 = 0, v % 8 = 7
    PROVE  {<<c[1], c[2], b>> : c \in WholeBytes(u * SectorSize, v * SectorSize), b \in Bits}
              = {Cell(s * SectorSize) : s \in u .. v}
<1> DEFINE qu == RegionOf(u * SectorSize)
<1> DEFINE bu == ByteOf(u * SectorSize)
<1> DEFINE qv == RegionOf(v * SectorSize)
<1> DEFINE bv == ByteOf(v * SectorSize)
<1> DEFINE Inside(r, c) == /\ r \in qu .. qv
                           /\ c \in (IF r = qu THEN bu ELSE 0) ..
                                    (IF r = qv THEN bv ELSE RegionSize - 1)
<1>1. /\ qu \in Nat /\ bu \in Bytes /\ u = SectorAt(qu, bu, 0)
      /\ qv \in Nat /\ bv \in Bytes /\ v = SectorAt(qv, bv, 7)
  BY PlaceOf, BitIs
<1>2. \A c : c \in WholeBytes(u * SectorSize, v * SectorSize) <=>
                \E r, b : c = <<r, b>> /\ Inside(r, b)
  BY DEF WholeBytes
<1> HIDE DEF qu, bu, qv, bv
<1>3. \A r, b : Inside(r, b) => r \in Nat /\ b \in Bytes
  BY <1>1, Sizes DEF Bytes
<1>4. ASSUME NEW r \in Nat, NEW b \in Bytes, NEW i \in Bits
      PROVE  Inside(r, b) <=> SectorAt(r, b, i) \in u .. v
  <2> DEFINE s == SectorAt(r, b, i)
  <2>1. s \in Nat
    BY SectorInNat
  <2>2. 0 \in Bits /\ 7 \in Bits
    BY DEF Bits
  <2>3. r < qu \/ (r = qu /\ b < bu) => s < u
    BY <1>1, <2>2, SectorOrder
  <2>4. qu < r \/ (r = qu /\ bu < b) => u < s
    BY <1>1, <2>2, SectorOrder
  <2>5. r = qu /\ b = bu => u <= s
    BY <1>1, Sizes DEF SectorAt, Bits, Bytes
  <2>6. qv < r \/ (r = qv /\ bv < b) => v < s
    BY <1>1, <2>2, SectorOrder
  <2>7. r < qv \/ (r = qv /\ b < bv) => s < v
    BY <1>1, <2>2, SectorOrder
  <2>8. r = qv /\ b = bv => s <= v
    BY <1>1, Sizes DEF SectorAt, Bits, Bytes
  <2> HIDE DEF s
  <2>9. s \in u .. v <=> /\ qu < r \/ (r = qu /\ bu <= b)
                         /\ r < qv \/ (r = qv /\ b <= bv)
    BY <1>1, <2>1, <2>3, <2>4, <2>5, <2>6, <2>7, <2>8 DEF Bytes
  <2>10. Inside(r, b) <=> /\ qu < r \/ (r = qu /\ bu <= b)
                          /\ r < qv \/ (r = qv /\ b <= bv)
    BY <1>1, Sizes DEF Bytes
  <2> QED
    BY <2>9, <2>10 DEF s
<1> HIDE DEF Inside
<1>5. \A r \in Nat, b \in Bytes, i \in Bits :
         Cell(SectorAt(r, b, i) * SectorSize) = <<r, b, i>>
  BY Place DEF Cell
<1>6. ASSUME NEW c \in WholeBytes(u * SectorSize, v * SectorSize), NEW i \in Bits
      PROVE  \E s \in u .. v : <<c[1], c[2], i>> = Cell(s * SectorSize)
  <2> PICK r, b : c = <<r, b>> /\ Inside(r, b)
    BY <1>2
  <2> QED
    BY <1>3, <1>4, <1>5
<1>7. ASSUME NEW s \in u .. v
      PROVE  \E c \in WholeBytes(u * SectorSize, v * SectorSize), i \in Bits :
                Cell(s * SectorSize) = <<c[1], c[2], i>>
  <2> PICK r \in Nat, b \in Bytes, i \in Bits : s = SectorAt(r, b, i)
    BY Located
  <2>1. <<r, b>> \in WholeBytes(u * SectorSize, v * SectorSize)
    BY <1>2, <1>4
  <2>2. Cell(s * SectorSize) = <<<<r, b>>[1], <<r, b>>[2], i>>
    BY <1>5
  <2> QED
    BY <2>1, <2>2
<1> DEFINE W == WholeBytes(u * SectorSize, v * SectorSize)
<1> DEFINE Cells == {<<c[1], c[2], b>> : c \in W, b \in Bits}
<1> DEFINE All == {Cell(s * SectorSize) : s \in u .. v}
<1> HIDE DEF W
<1>8. Cells \subseteq All
  BY <1>6 DEF W
<1>9. All \subseteq Cells
  <2> SUFFICES ASSUME NEW s \in u .. v PROVE Cell(s * SectorSize) \in Cells
    OBVIOUS
  <2>1. PICK c \in W, i \in Bits : Cell(s * SectorSize) = <<c[1], c[2], i>>
    BY <1>7 DEF W
  <2> QED
    BY <2>1
<1>10. Cells = All
  BY <1>8, <1>9
<1> QED
  BY <1>10 DEF W

\* Leading bits, trailing bits and the bytes between them are the bits of all
\* sectors of the range, and of no other.
LEMMA SetCellsAre ==
    ASSUME NEW a \in Nat, NEW n \in Nat
    PROVE  SetCells(a * SectorSize, n * SectorSize)
              = {Cell(s * SectorSize) : s \in a .. a + n - 1}
<1> DEFINE P == Span(a, n)
<1> DEFINE first == ByteBegins(P)
<1> DEFINE last == ByteEnds(P)
<1> DEFINE Middle == IF first = {} \/ last = {} \/ Least(first) = Most(last) THEN {}
                     ELSE {<<c[1], c[2], b>> :
                              c \in WholeBytes(Least(first), Most(last)), b \in Bits}
<1> DEFINE All == {Cell(s * SectorSize) : s \in a .. a + n - 1}
<1>1. SetCells(a * SectorSize, n * SectorSize)
        = {Cell(p) : p \in Leading(P)}
             \cup (IF first = {} THEN {} ELSE {Cell(p) : p \in Trailing(P)})
             \cup Middle
  <2>1. SetCells(a * SectorSize, n * SectorSize) = CellsOf(P)
    BY RangeIsSectors DEF SetCells, Span
  <2> HIDE DEF P
  <2> QED
    BY <2>1 DEF CellsOf
<1>2. /\ \A p \in Leading(P) : Cell(p) \in All
      /\ \A p \in Trailing(P) : Cell(p) \in All
  BY DEF Leading, Trailing, Span
<1>3. ASSUME first # {}, last # {}
      PROVE  \E u, v \in a .. a + n - 1 :
                /\ Middle = {Cell(s * SectorSize) : s \in u .. v}
                /\ \A s \in a .. a + n - 1 : s % 8 = 0 => u <= s
                /\ \A s \in a .. a + n - 1 : s % 8 = 7 => s <= v
  <2>1. PICK u \in a .. a + n - 1 :
           /\ u % 8 = 0 /\ Least(first) = u * SectorSize
           /\ \A s \in a .. a + n - 1 : s % 8 = 0 => u <= s
    BY <1>3, FirstBoundary
  <2>2. PICK v \in a .. a + n - 1 :
           /\ v % 8 = 7 /\ Most(last) = v * SectorSize
           /\ \A s \in a .. a + n - 1 : s % 8 = 7 => s <= v
    BY <1>3, LastBoundary
  <2>3. Least(first) # Most(last)
    BY <2>1, <2>2, SpanOrder
  <2>4. Middle = {Cell(s * SectorSize) : s \in u .. v}
    BY <1>3, <2>1, <2>2, <2>3, WholeBytesAre
  <2> HIDE DEF Middle
  <2> QED
    BY <2>1, <2>2, <2>4
<1>4. Middle \subseteq All
  <2>1. CASE first = {} \/ last = {}
    BY <2>1
  <2>2. CASE first # {} /\ last # {}
    BY <1>3, <2>2
  <2> QED
    BY <2>1, <2>2
<1>5. ASSUME NEW s \in a .. a + n - 1,
             s * SectorSize \notin Leading(P),
             first = {} \/ s * SectorSize \notin Trailing(P)
      PROVE  Cell(s * SectorSize) \in Middle
  <2>1. s * SectorSize \in P
    BY DEF Span
  <2>2. PICK t \in a .. a + n - 1 : t <= s /\ t % 8 = 0
    <3>1. PICK q \in P : q <= s * SectorSize /\ BitPos(q) = 0
      BY <1>5, <2>1 DEF Leading
    <3> QED
      BY <3>1, SpanOrder, BitIs DEF Span
  <2>3. t * SectorSize \in first
    BY <2>2, BitIs DEF ByteBegins, Span
  <2>4. PICK w \in a .. a + n - 1 : w >= s /\ w % 8 = 7
    <3>1. PICK q \in P : q >= s * SectorSize /\ BitPos(q) = 7
      BY <1>5, <2>1, <2>3 DEF Trailing
    <3>2. PICK w \in a .. a + n - 1 : q = w * SectorSize
      BY DEF Span
    <3>3. w % 8 = 7
      BY <3>1, <3>2, BitIs
    <3>4. s * SectorSize <= w * SectorSize
      BY <3>1, <3>2, SpanOrder
    <3> QED
      BY <3>3, <3>4, SpanOrder
  <2>5. w * SectorSize \in last
    BY <2>4, BitIs DEF ByteEnds, Span
  <2>6. PICK u, v \in a .. a + n - 1 :
           /\ Middle = {Cell(x * SectorSize) : x \in u .. v}
           /\ \A x \in a .. a + n - 1 : x % 8 = 0 => u <= x
           /\ \A x \in a .. a + n - 1 : x % 8 = 7 => x <= v
    <3>1. first # {} /\ last # {}
      BY <2>3, <2>5
    <3> HIDE DEF Middle, first, last
    <3> QED
      BY <1>3, <3>1
  <2>7. s \in u .. v
    BY <2>2, <2>4, <2>6
  <2> QED
    BY <2>6, <2>7
<1> HIDE DEF Middle, first
<1>6. ASSUME NEW s \in a .. a + n - 1
      PROVE  Cell(s * SectorSize) \in SetCells(a * SectorSize, n * SectorSize)
  BY <1>1, <1>5
<1> QED
  BY <1>1, <1>2, <1>4, <1>6
-----------------------------------------------------------------------------
(* The volume and its regions.                                             *)

LEMMA VolumeIsSectors ==
    \E T \in Nat : TotalSize = T * SectorSize /\ Sectors = 0 .. T - 1
<1> DEFINE T == TotalSize \div SectorSize
<1>1. T \in Int /\ TotalSize = SectorSize * T
  <2>1. TotalSize % SectorSize = 0
    BY BitmapAssumption
  <2> QED
    BY <2>1, DivMod, Sizes
<1>2. Sectors = 0 .. T - 1
  BY DEF Sectors
<1> HIDE DEF T
<1>3. SectorSize * T = T * SectorSize
  BY <1>1, Sizes
<1>4. T \in Nat
  BY <1>1, <1>3, MulOrder, Sizes, 0 * SectorSize = 0
<1> QED
  BY <1>1, <1>2, <1>3, <1>4

LEMMA RegionExists ==
    /\ RegionNumber \in Nat
    /\ TotalSize < BitmapReferSize /\ BitmapReferSize \in Int
    /\ \A p \in Nat : p < BitmapReferSize => RegionOf(p) \in Regions
<1> DEFINE t == TotalSize \div RegionReferSize
<1>1. t \in Int /\ TotalSize % RegionReferSize \in 0 .. RegionReferSize - 1
      /\ TotalSize = RegionReferSize * t + (TotalSize % RegionReferSize)
  <2>1. TotalSize \in Int /\ RegionReferSize \in Nat \ {0}
    BY Sizes
  <2> QED
    BY <2>1, DivMod
<1>2. \A p \in Nat : RegionOf(p) \in Int /\ 0 <= RegionOf(p)
  <2> SUFFICES ASSUME NEW p \in Nat PROVE RegionOf(p) \in Int /\ 0 <= RegionOf(p)
    OBVIOUS
  <2>1. 0 = RegionReferSize * 0 + 0 /\ 0 \in 0 .. RegionReferSize - 1
    BY Sizes
  <2>2. 0 \div RegionReferSize = 0
    BY <2>1, Sizes, DivIs
  <2>3. 0 \div RegionReferSize <= p \div RegionReferSize
    BY Sizes, DivMonotone
  <2> QED
    BY <2>2, <2>3, Sizes, DivMod DEF RegionOf
<1>3. RegionNumber = t + 1 /\ t \in Nat
  BY <1>1, <1>2, Sizes DEF RegionNumber, RegionOf
<1> HIDE DEF t
<1>4. BitmapReferSize = RegionReferSize * t + RegionReferSize
  BY <1>3, Sizes DEF BitmapReferSize
<1>5. RegionReferSize * t \in Int
  BY <1>3, Sizes
<1>6. ASSUME NEW p \in Nat, p < BitmapReferSize
      PROVE  RegionOf(p) \in Regions
  <2> DEFINE q == RegionOf(p)
  <2>1. q \in Int /\ 0 <= q
    BY <1>2
  <2>2. p % RegionReferSize \in 0 .. RegionReferSize - 1
        /\ p = RegionReferSize * q + (p % RegionReferSize)
    <3>1. p \in Int /\ RegionReferSize \in Nat \ {0}
      BY Sizes
    <3> QED
      BY <3>1, DivMod DEF RegionOf
  <2>3. ~(t < q)
    <3> HIDE DEF q
    <3> SUFFICES ASSUME t < q PROVE FALSE
      OBVIOUS
    <3>1. RegionReferSize * t + RegionReferSize <= RegionReferSize * q
      BY <1>3, <2>1, Sizes, MulLess
    <3> QED
      BY <1>4, <1>5, <1>6, <2>1, <2>2, <3>1, Sizes
  <2> QED
    BY <1>3, <2>1, <2>3 DEF Regions
<1> QED
  BY <1>1, <1>3, <1>4, <1>5, <1>6, Sizes

\* A range of the volume needs only regions there are, the one its end falls in
\* included, and those of all its sectors.
LEMMA NeededExist ==
    ASSUME NEW o \in Nat, NEW l \in Nat, o + l <= TotalSize
    PROVE  /\ Needed(o, l) \subseteq Regions
           /\ \A p \in o .. o + l : RegionOf(p) \in Needed(o, l)
<1>1. o < BitmapReferSize /\ o + l < BitmapReferSize
  BY RegionExists, Sizes
<1>2. RegionOf(o) \in Regions /\ RegionOf(o + l) \in Regions
  BY <1>1, RegionExists
<1>3. \A p \in o .. o + l : /\ RegionOf(p) \in Int
                            /\ RegionOf(o) <= RegionOf(p) /\ RegionOf(p) <= RegionOf(o + l)
  BY Sizes, DivMonotone, DivMod DEF RegionOf
<1> QED
  BY <1>2, <1>3, RegionExists DEF Needed, Regions

LEMMA TouchedAre ==
    ASSUME NEW a \in Nat, NEW n \in Nat,
           a * SectorSize + n * SectorSize <= TotalSize
    PROVE  /\ Touched(a * SectorSize, n * SectorSize) = a .. a + n - 1
           /\ a .. a + n - 1 \subseteq Sectors
<1>1. PICK T \in Nat : TotalSize = T * SectorSize /\ Sectors = 0 .. T - 1
  BY VolumeIsSectors
<1>2. a * SectorSize + n * SectorSize = (a + n) * SectorSize
  BY Sizes
<1>3. a + n <= T
  BY <1>1, <1>2, SpanOrder, a + n \in Nat
<1>4. \A s \in Nat : /\ s * SectorSize < (a + n) * SectorSize <=> s < a + n
                     /\ a * SectorSize < (s + 1) * SectorSize <=> a < s + 1
  <2> SUFFICES ASSUME NEW s \in Nat
               PROVE  /\ s * SectorSize < (a + n) * SectorSize <=> s < a + n
                      /\ a * SectorSize < (s + 1) * SectorSize <=> a < s + 1
    OBVIOUS
  <2>1. a + n \in Int /\ s + 1 \in Int
    OBVIOUS
  <2> QED
    BY <2>1, MulOrder, Sizes
<1>5. ASSUME NEW s
      PROVE  s \in Touched(a * SectorSize, n * SectorSize) <=>
                s \in Sectors /\ s < a + n /\ a < s + 1
  <2>1. s \in Touched(a * SectorSize, n * SectorSize) <=>
           /\ s \in Sectors /\ s * SectorSize < (a + n) * SectorSize
           /\ a * SectorSize < (s + 1) * SectorSize
    BY <1>2 DEF Touched
  <2>2. s \in Sectors => s \in Nat
    BY <1>1
  <2> QED
    BY <1>4, <2>1, <2>2
<1>6. a .. a + n - 1 \subseteq Sectors
  BY <1>1, <1>3
<1>7. ASSUME NEW s
      PROVE  s \in Touched(a * SectorSize, n * SectorSize) <=> s \in a .. a + n - 1
  BY <1>1, <1>3, <1>5
<1> QED
  BY <1>6, <1>7
-----------------------------------------------------------------------------
(* Allocating and writing.                                                 *)

Maps == [Regions -> {NULL} \cup [0 .. RegionSize - 1 -> SUBSET Bits]]

\* Bit i of byte b of region r is 1.
Marked(map, r, b, i) == map[r] # NULL /\ i \in map[r][b]

LEMMA AllocateAdds ==
    ASSUME NEW map \in Maps, NEW R
    PROVE  /\ Allocate(map, R) \in Maps
           /\ \A r \in Regions \cap R : Allocate(map, R)[r] # NULL
           /\ \A r \in Regions, b \in Bytes, i \in Bits :
                 Marked(Allocate(map, R), r, b, i) <=> Marked(map, r, b, i)
<1>1. ClearRegion \in [0 .. RegionSize - 1 -> SUBSET Bits]
  BY DEF ClearRegion
<1>2. ClearRegion # NULL
  BY <1>1, NullAssumption
<1>3. \A b \in Bytes : ClearRegion[b] = {}
  BY DEF ClearRegion, Bytes
<1>4. \A r \in Regions :
         Allocate(map, R)[r] = IF r \in R /\ map[r] = NULL THEN ClearRegion ELSE map[r]
  BY DEF Allocate
<1>5. Allocate(map, R) \in Maps
  BY <1>1 DEF Allocate, Maps
<1>6. \A r \in Regions \cap R : Allocate(map, R)[r] # NULL
  BY <1>2, <1>4
<1>7. \A r \in Regions, b \in Bytes, i \in Bits :
         Marked(Allocate(map, R), r, b, i) <=> Marked(map, r, b, i)
  BY <1>2, <1>3, <1>4 DEF Marked
<1> QED
  BY <1>5, <1>6, <1>7

LEMMA WriteSets ==
    ASSUME NEW map \in Maps, NEW C
    PROVE  /\ WriteCells(map, C) \in Maps
           /\ \A r \in Regions, b \in Bytes, i \in Bits :
                 Marked(WriteCells(map, C), r, b, i) <=>
                    map[r] # NULL /\ (i \in map[r][b] \/ <<r, b, i>> \in C)
<1> DEFINE Written(r) == [b \in 0 .. RegionSize - 1 |->
                             map[r][b] \cup {i \in Bits : <<r, b, i>> \in C}]
<1>1. \A r \in Regions :
         WriteCells(map, C)[r] = IF map[r] = NULL THEN NULL ELSE Written(r)
  BY DEF WriteCells
<1>2. \A r \in Regions :
         map[r] # NULL => Written(r) \in [0 .. RegionSize - 1 -> SUBSET Bits]
  <2> SUFFICES ASSUME NEW r \in Regions, map[r] # NULL
               PROVE  Written(r) \in [0 .. RegionSize - 1 -> SUBSET Bits]
    OBVIOUS
  <2>1. map[r] \in [0 .. RegionSize - 1 -> SUBSET Bits]
    BY DEF Maps
  <2> QED
    BY <2>1
<1>3. \A r \in Regions, b \in Bytes, i \in Bits :
         i \in Written(r)[b] <=> (i \in map[r][b] \/ <<r, b, i>> \in C)
  BY DEF Bytes
<1>4. WriteCells(map, C) = [r \in Regions |-> IF map[r] = NULL THEN NULL ELSE Written(r)]
  BY DEF WriteCells
<1> HIDE DEF Written
<1>5. WriteCells(map, C) \in Maps
  BY <1>2, <1>4 DEF Maps
<1>6. \A r \in Regions : map[r] # NULL => Written(r) # NULL
  BY <1>2, NullAssumption
<1> QED
  BY <1>1, <1>3, <1>5, <1>6 DEF Marked
-----------------------------------------------------------------------------
(* The invariant: the bits that are 1 are those of the sectors asked for,  *)
(* the bits of no sector of the volume among them.                         *)

BitsAreAsked ==
    \A r \in Regions, b \in Bytes, i \in Bits :
        Marked(Bitmap, r, b, i) <=> SectorAt(r, b, i) \in asked

BitmapInv ==
    /\ TypeOK
    /\ Bitmap = NULL => asked = {}
    /\ Bitmap # NULL => BitsAreAsked

LEMMA NoMapIsNull == Bitmap \in Maps => Bitmap # NULL
  BY NullAssumption DEF Maps

LEMMA TypeIs ==
    TypeOK <=> /\ Bitmap = NULL \/ Bitmap \in Maps
               /\ sets \in 0 .. MaxSets /\ asked \subseteq Sectors
  BY DEF TypeOK, Maps

LEMMA RegionsInNat == Regions \subseteq Nat
  BY RegionExists DEF Regions

LEMMA InitStep ==
    ASSUME DPBitmapInit PROVE BitmapInv'
<1>1. Bitmap' \in {[r \in Regions |-> NULL], NULL} /\ sets' = 0 /\ asked' = {}
  BY DEF DPBitmapInit
<1>2. CASE Bitmap' = NULL
  BY <1>1, <1>2, NullAssumption, BitmapAssumption DEF BitmapInv, TypeOK
<1>3. CASE Bitmap' = [r \in Regions |-> NULL]
  <2>1. Bitmap' \in Maps
    BY <1>3 DEF Maps
  <2>2. \A r \in Regions, b \in Bytes, i \in Bits : ~Marked(Bitmap, r, b, i)'
    BY <1>3 DEF Marked
  <2> QED
    BY <1>1, <2>1, <2>2, BitmapAssumption DEF BitmapInv, TypeOK, Maps, BitsAreAsked
<1> QED
  BY <1>1, <1>2, <1>3

LEMMA SetFailsStep ==
    ASSUME BitmapInv, NEW o \in Int, NEW l \in Nat, DPBitmapSetFails(o, l)
    PROVE  BitmapInv'
<1>1. Bitmap # NULL /\ Bitmap \in Maps
  BY TypeIs DEF BitmapInv, DPBitmapSetFails, Accepts
<1>2. PICK r \in Needed(o, l) : Bitmap' = Allocate(Bitmap, {q \in Needed(o, l) : q < r})
  BY DEF DPBitmapSetFails
<1>3. Bitmap' \in Maps
  BY <1>1, <1>2, AllocateAdds
<1>4. UNCHANGED <<sets, asked>>
  BY DEF DPBitmapSetFails
<1>5. \A q \in Regions, b \in Bytes, i \in Bits :
         Marked(Bitmap', q, b, i) <=> Marked(Bitmap, q, b, i)
  BY <1>1, <1>2, AllocateAdds
<1>6. BitsAreAsked'
  BY <1>1, <1>4, <1>5 DEF BitmapInv, BitsAreAsked
<1> QED
  BY <1>1, <1>3, <1>4, <1>6, NullAssumption DEF BitmapInv, TypeOK, Maps

LEMMA SetStep ==
    ASSUME BitmapInv, NEW o \in Int, NEW l \in Nat, o + l <= TotalSize, DPBitmapSet(o, l)
    PROVE  BitmapInv'
<1>1. Bitmap # NULL /\ Bitmap \in Maps /\ BitsAreAsked
  BY TypeIs DEF BitmapInv, DPBitmapSet, Accepts
<1>2. PICK a \in Nat, n \in Nat : o = a * SectorSize /\ l = n * SectorSize
  BY Aligned DEF DPBitmapSet, Accepts
<1> DEFINE R == Needed(o, l)
<1> DEFINE C == SetCells(o, l)
<1> DEFINE map == Allocate(Bitmap, R)
<1>3. /\ Bitmap' = WriteCells(map, C) /\ sets' = sets + 1 /\ sets < MaxSets
      /\ asked' = asked \cup Touched(o, l)
  BY DEF DPBitmapSet
<1>4. C = {Cell(s * SectorSize) : s \in a .. a + n - 1}
  BY <1>2, SetCellsAre
<1>5. Touched(o, l) = a .. a + n - 1 /\ a .. a + n - 1 \subseteq Sectors
  BY <1>2, TouchedAre
<1>6. \A s \in a .. a + n - 1 : RegionOf(s * SectorSize) \in R
  <2> SUFFICES ASSUME NEW s \in a .. a + n - 1 PROVE RegionOf(s * SectorSize) \in R
    OBVIOUS
  <2>1. a * SectorSize + n * SectorSize = (a + n) * SectorSize
    BY Sizes
  <2>2. a * SectorSize <= s * SectorSize /\ s * SectorSize <= (a + n) * SectorSize
        /\ s * SectorSize \in Nat
    BY SpanOrder, a + n \in Nat
  <2>3. s * SectorSize \in o .. o + l
    BY <1>2, <2>1, <2>2
  <2>4. o \in Nat
    BY DEF DPBitmapSet, Accepts
  <2> QED
    BY <2>3, <2>4, NeededExist
<1>7. /\ map \in Maps
      /\ \A r \in Regions \cap R : map[r] # NULL
      /\ \A r \in Regions, b \in Bytes, i \in Bits :
            Marked(map, r, b, i) <=> Marked(Bitmap, r, b, i)
  BY <1>1, AllocateAdds
<1> HIDE DEF map, C, R
<1>8. /\ Bitmap' \in Maps
      /\ \A r \in Regions, b \in Bytes, i \in Bits :
            Marked(Bitmap', r, b, i) <=> map[r] # NULL /\ (i \in map[r][b] \/ <<r, b, i>> \in C)
  BY <1>3, <1>7, WriteSets
<1>9. ASSUME NEW r \in Regions, NEW b \in Bytes, NEW i \in Bits
      PROVE  Marked(Bitmap', r, b, i) <=> SectorAt(r, b, i) \in asked'
  <2>1. r \in Nat
    BY RegionsInNat
  <2>2. Cell(SectorAt(r, b, i) * SectorSize) = <<r, b, i>>
    BY <2>1, Place DEF Cell
  <2>3. ASSUME NEW s \in a .. a + n - 1, Cell(s * SectorSize) = <<r, b, i>>
        PROVE  s = SectorAt(r, b, i) /\ r \in R
    <3>1. /\ RegionOf(s * SectorSize) = r /\ ByteOf(s * SectorSize) = b
          /\ BitPos(s * SectorSize) = i
      BY <2>3 DEF Cell
    <3> QED
      BY <3>1, <1>6, PlaceOf
  <2>4. <<r, b, i>> \in C <=> SectorAt(r, b, i) \in a .. a + n - 1
    BY <1>4, <2>2, <2>3
  <2>5. <<r, b, i>> \in C => r \in R
    BY <1>4, <2>3
  <2>6. Marked(Bitmap', r, b, i) <=> Marked(Bitmap, r, b, i) \/ <<r, b, i>> \in C
    BY <1>7, <1>8, <2>5 DEF Marked
  <2>7. Marked(Bitmap, r, b, i) <=> SectorAt(r, b, i) \in asked
    BY <1>1 DEF BitsAreAsked
  <2> QED
    BY <1>3, <1>5, <2>4, <2>6, <2>7
<1>10. BitsAreAsked'
  BY <1>9 DEF BitsAreAsked
<1>11. sets' \in 0 .. MaxSets /\ asked' \subseteq Sectors
  BY <1>3, <1>5, BitmapAssumption DEF BitmapInv, TypeOK
<1>12. Bitmap' # NULL
  BY <1>8, NullAssumption DEF Maps
<1> QED
  BY <1>8, <1>10, <1>11, <1>12 DEF BitmapInv, TypeOK, Maps

LEMMA BitmapInvariant == Spec => []BitmapInv
<1>1. Init => BitmapInv
  BY BitmapAssumption DEF Init, BitmapInv, TypeOK
<1>2. BitmapInv /\ [Next]_vars => BitmapInv'
  <2> SUFFICES ASSUME BitmapInv, [Next]_vars PROVE BitmapInv'
    OBVIOUS
  <2>1. CASE UNCHANGED vars
    BY <2>1 DEF vars, BitmapInv, TypeOK, BitsAreAsked
  <2>2. CASE DPBitmapInit
    BY <2>2, InitStep
  <2>3. CASE DPBitmapFree
    BY <2>3, BitmapAssumption DEF DPBitmapFree, BitmapInv, TypeOK
  <2>4. ASSUME NEW q \in Requests, DPBitmapSet(q[1], q[2]) \/ DPBitmapSetFails(q[1], q[2])
        PROVE  BitmapInv'
    <3>1. q[1] \in Int /\ q[2] \in Nat /\ q[1] + q[2] <= TotalSize
      BY BitmapAssumption
    <3> QED
      BY <2>4, <3>1, SetStep, SetFailsStep
  <2> QED
    BY <2>1, <2>2, <2>3, <2>4 DEF Next
<1> QED
  BY <1>1, <1>2, PTL DEF Spec
-----------------------------------------------------------------------------
(* What the invariant means for ranges.                                    *)

\* A position is set in the bitmap as its sector was asked for, the positions
\* after the end of the volume included.
LEMMA SetMeansAsked ==
    ASSUME BitmapInv, Bitmap # NULL, NEW s \in Nat, s * SectorSize < BitmapReferSize
    PROVE  IsSet(Bitmap, s * SectorSize) <=> s \in asked
<1> DEFINE r == RegionOf(s * SectorSize)
<1> DEFINE b == ByteOf(s * SectorSize)
<1> DEFINE i == BitPos(s * SectorSize)
<1>1. r \in Nat /\ b \in Bytes /\ i \in Bits /\ s = SectorAt(r, b, i)
  BY PlaceOf
<1>2. r \in Regions
  BY RegionExists, SpanOrder
<1>3. IsSet(Bitmap, s * SectorSize) <=> Marked(Bitmap, r, b, i)
  BY DEF IsSet, Marked
<1> HIDE DEF r, b, i
<1> QED
  BY <1>1, <1>2, <1>3 DEF BitmapInv, BitsAreAsked

LEMMA SectorsInBitmap ==
    ASSUME NEW s \in Sectors
    PROVE  s \in Nat /\ s * SectorSize < TotalSize /\ s * SectorSize < BitmapReferSize
<1>1. PICK T \in Nat : TotalSize = T * SectorSize /\ Sectors = 0 .. T - 1
  BY VolumeIsSectors
<1>2. s \in Nat /\ s < T
  BY <1>1
<1>3. s * SectorSize < TotalSize
  BY <1>1, <1>2, MulOrder, Sizes
<1> QED
  BY <1>2, <1>3, RegionExists, Sizes, SpanOrder

LEMMA MarkedAreAsked ==
    ASSUME BitmapInv
    PROVE  MarkedSectors = asked
<1>1. CASE Bitmap = NULL
  BY <1>1 DEF BitmapInv, MarkedSectors
<1>2. CASE Bitmap # NULL
  <2>1. asked \subseteq Sectors
    BY DEF BitmapInv, TypeOK
  <2>2. \A s \in Sectors : IsSet(Bitmap, s * SectorSize) <=> s \in asked
    BY <1>2, SectorsInBitmap, SetMeansAsked
  <2> QED
    BY <1>2, <2>1, <2>2 DEF MarkedSectors
<1> QED
  BY <1>1, <1>2

LEMMA NothingBeyond ==
    ASSUME BitmapInv, Bitmap # NULL,
           NEW p \in Positions(TotalSize, BitmapReferSize - TotalSize)
    PROVE  ~IsSet(Bitmap, p)
<1>1. PICK T \in Nat : TotalSize = T * SectorSize /\ Sectors = 0 .. T - 1
  BY VolumeIsSectors
<1>2. BitmapReferSize - TotalSize \in Int /\ TotalSize \in Int /\ BitmapReferSize \in Int
  BY RegionExists, Sizes
<1>3. PICK s \in Nat : /\ p = s * SectorSize /\ T <= s
                       /\ s * SectorSize < TotalSize + (BitmapReferSize - TotalSize)
  BY <1>1, <1>2, PositionsAre
<1>4. s * SectorSize < BitmapReferSize
  BY <1>2, <1>3
<1>5. s \notin asked
  BY <1>1, <1>3 DEF BitmapInv, TypeOK
<1> QED
  BY <1>3, <1>4, <1>5, SetMeansAsked

\* What DPBitmapTest and DPBitmapGet see of an aligned range of the volume.
LEMMA RangeSeen ==
    ASSUME BitmapInv, Bitmap # NULL, NEW o \in Int, NEW l \in Nat,
           o >= 0, l > 0, ~Misaligned(o, l), o + l <= TotalSize
    PROVE  LET P == Positions(o, l)
               S == {p \in P : IsSet(Bitmap, p)}
               T == Touched(o, l)
           IN  /\ P # {} /\ o + l <= BitmapReferSize
               /\ S = P <=> T \subseteq MarkedSectors
               /\ S = {} <=> T \cap MarkedSectors = {}
<1> DEFINE P == Positions(o, l)
<1> DEFINE S == {p \in P : IsSet(Bitmap, p)}
<1> DEFINE T == Touched(o, l)
<1>1. PICK a \in Nat, n \in Nat : o = a * SectorSize /\ l = n * SectorSize
  BY Aligned
<1>2. n > 0
  <2>1. n = 0 => n * SectorSize = 0
    BY Sizes
  <2> QED
    BY <1>1, <2>1
<1>3. P = {s * SectorSize : s \in a .. a + n - 1}
  BY <1>1, RangeIsSectors
<1>4. T = a .. a + n - 1 /\ T \subseteq Sectors
  BY <1>1, TouchedAre
<1>5. a * SectorSize \in P
  BY <1>2, <1>3
<1>6. o + l <= BitmapReferSize
  BY RegionExists, Sizes
<1>7. \A s \in T : IsSet(Bitmap, s * SectorSize) <=> s \in MarkedSectors
  BY <1>4, SectorsInBitmap, SetMeansAsked, MarkedAreAsked
<1> HIDE DEF P, T
<1>8. S = P <=> \A p \in P : IsSet(Bitmap, p)
  OBVIOUS
<1>9. S = {} <=> \A p \in P : ~IsSet(Bitmap, p)
  OBVIOUS
<1>10. \A p : p \in P <=> \E s \in T : p = s * SectorSize
  BY <1>3, <1>4
<1>11. S = P <=> T \subseteq MarkedSectors
  BY <1>7, <1>8, <1>10
<1>12. S = {} <=> T \cap MarkedSectors = {}
  BY <1>7, <1>9, <1>10
<1> QED
  BY <1>5, <1>6, <1>11, <1>12 DEF P, T

\* The answer of DPBitmapTest, by what is set of the range.
LEMMA TestAnswers ==
    ASSUME BitmapInv, Bitmap # NULL, NEW o \in Int, NEW l \in Nat,
           o >= 0, l > 0, ~Misaligned(o, l), o + l <= TotalSize
    PROVE  LET P == Positions(o, l)
               S == {p \in P : IsSet(Bitmap, p)}
           IN  TestResult(Bitmap, o, l) = IF S = P THEN "SET"
                                          ELSE IF S = {} THEN "CLEAR" ELSE "BLEND"
<1> DEFINE P == Positions(o, l)
<1> DEFINE S == {p \in P : IsSet(Bitmap, p)}
<1>1. P # {} /\ o + l <= BitmapReferSize
  BY RangeSeen
<1>2. ~(Bitmap = NULL \/ o < 0 \/ o + l > BitmapReferSize)
  <2>1. BitmapReferSize \in Int
    BY RegionExists
  <2> QED
    BY <1>1, <2>1
<1>3. TestResult(Bitmap, o, l) =
         CASE P = {}             -> "UNKNOW"
           [] P # {} /\ S = P    -> "SET"
           [] P # {} /\ S = {}   -> "CLEAR"
           [] OTHER              -> "BLEND"
  BY <1>2 DEF TestResult
<1> HIDE DEF P, S
<1>4. ~(S = P /\ S = {})
  BY <1>1
<1> QED
  BY <1>1, <1>3, <1>4 DEF P, S
-----------------------------------------------------------------------------
\* Every bitmap is a map of regions of RegionSize bytes (DPBitmapInit and the
\* allocations of DPBitmapSet), for all sizes of sectors, regions and volumes.
THEOREM TypeCorrect == Spec => []TypeOK
<1>1. BitmapInv => TypeOK
  BY DEF BitmapInv
<1> QED
  BY <1>1, BitmapInvariant, PTL

\* After any sequence of DPBitmapSet, DPBitmapInit and DPBitmapFree, and of sets
\* that run out of memory, the sectors marked are those that were asked for, for
\* all sizes of sectors, regions and volumes and all ranges.
THEOREM SetExact == Spec => []SetIsExact
<1>1. BitmapInv => SetIsExact
  BY MarkedAreAsked, NothingBeyond DEF SetIsExact
<1> QED
  BY <1>1, BitmapInvariant, PTL

\* No range of the volume needs a region past the array that
\* DPVolumeOnLineCompleteRoutine asks for.
THEOREM InBounds == Spec => []RegionsInBounds
<1>1. BitmapInv => RegionsInBounds
  <2> SUFFICES ASSUME BitmapInv, Bitmap # NULL, NEW q \in Requests, Accepts(q[1], q[2])
               PROVE  Needed(q[1], q[2]) \subseteq DOMAIN Bitmap
    BY DEF RegionsInBounds
  <2>1. q[1] \in Nat /\ q[2] \in Nat /\ q[1] + q[2] <= TotalSize
    BY BitmapAssumption DEF Accepts
  <2>2. Bitmap \in Maps
    BY TypeIs DEF BitmapInv
  <2> QED
    BY <2>1, <2>2, NeededExist DEF Maps
<1> QED
  BY <1>1, BitmapInvariant, PTL

\* DPBitmapTest answers SET, CLEAR or BLEND exactly when all, none or some of the
\* sectors of an aligned range are marked, for all sizes and ranges.
THEOREM TestExact == Spec => []TestIsExact
<1>1. BitmapInv => TestIsExact
  <2> SUFFICES ASSUME BitmapInv, Bitmap # NULL, NEW q \in Requests,
                      q[1] >= 0, q[2] > 0, ~Misaligned(q[1], q[2])
               PROVE  TestResult(Bitmap, q[1], q[2]) =
                         CASE Touched(q[1], q[2]) \subseteq MarkedSectors   -> "SET"
                           [] Touched(q[1], q[2]) \cap MarkedSectors = {}   -> "CLEAR"
                           [] OTHER                                        -> "BLEND"
    BY DEF TestIsExact
  <2> DEFINE P == Positions(q[1], q[2])
  <2> DEFINE S == {p \in P : IsSet(Bitmap, p)}
  <2>1. q[1] \in Int /\ q[2] \in Nat /\ q[1] + q[2] <= TotalSize
    BY BitmapAssumption
  <2>2. /\ P # {}
        /\ S = P <=> Touched(q[1], q[2]) \subseteq MarkedSectors
        /\ S = {} <=> Touched(q[1], q[2]) \cap MarkedSectors = {}
    BY <2>1, RangeSeen
  <2>3. TestResult(Bitmap, q[1], q[2]) = IF S = P THEN "SET"
                                         ELSE IF S = {} THEN "CLEAR" ELSE "BLEND"
    BY <2>1, TestAnswers
  <2> HIDE DEF P, S
  <2>4. ~(S = P /\ S = {})
    BY <2>2
  <2> QED
    BY <2>2, <2>3, <2>4
<1> QED
  BY <1>1, BitmapInvariant, PTL

\* What DPBitmapGet merges of a range is what DPBitmapTest found set in it, for all
\* sizes and ranges: the two check and count a range differently.
THEOREM GetAgrees == Spec => []GetAgreesWithTest
<1>1. BitmapInv => GetAgreesWithTest
  <2> SUFFICES ASSUME BitmapInv, NEW q \in Requests,
                      q[1] >= 0, q[2] > 0, ~Misaligned(q[1], q[2])
               PROVE  LET G == GetCopies(Bitmap, q[1], q[2])
                          R == TestResult(Bitmap, q[1], q[2])
                      IN CASE R = "SET"   -> G = Positions(q[1], q[2])
                           [] R = "CLEAR" -> G = {}
                           [] R = "BLEND" -> G # {} /\ G # Positions(q[1], q[2])
                           [] OTHER       -> Bitmap = NULL
    BY DEF GetAgreesWithTest
  <2> DEFINE P == Positions(q[1], q[2])
  <2> DEFINE S == {p \in P : IsSet(Bitmap, p)}
  <2> DEFINE R == TestResult(Bitmap, q[1], q[2])
  <2>1. q[1] \in Int /\ q[2] \in Nat /\ q[1] + q[2] <= TotalSize
    BY BitmapAssumption
  <2>2. CASE Bitmap = NULL
    <3>1. R = "UNKNOW"
      BY <2>2 DEF TestResult
    <3> HIDE DEF R
    <3> QED
      BY <2>2, <3>1 DEF R
  <2>3. CASE Bitmap # NULL
    <3>1. GetCopies(Bitmap, q[1], q[2]) = S
      BY <2>1, <2>3 DEF GetCopies
    <3>2. P # {}
      BY <2>1, <2>3, RangeSeen
    <3>3. R = IF S = P THEN "SET" ELSE IF S = {} THEN "CLEAR" ELSE "BLEND"
      BY <2>1, <2>3, TestAnswers
    <3> HIDE DEF R, S, P
    <3> QED
      BY <3>1, <3>2, <3>3 DEF R, P
  <2> QED
    BY <2>2, <2>3
<1> QED
  BY <1>1, BitmapInvariant, PTL
=============================================================================
