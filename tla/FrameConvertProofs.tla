-------------------------- MODULE FrameConvertProofs --------------------------
(***************************************************************************)
(* Theorems about FrameConvert, for every pixel format, frame size, pitch, *)
(* address and reported range, and every width of std::size_t.             *)
(*                                                                         *)
(* FrameInv carries the two facts the copy loops rest on: what was         *)
(* measured is the reported range seen from the lowest row, and what is    *)
(* copied has passed the checks.                                           *)
(***************************************************************************)
EXTENDS FrameConvert, TLAPS

Views == [scanline0 : Nat, pitch : Int, known : BOOLEAN, accessible : Int]

FrameType ==
  /\ pc \in {"idle", "lock", "measure", "check", "copy", "unlock", "return"}
  /\ IF pc = "idle" THEN sample = NoSample ELSE sample \in Samples
  /\ view \in Views
  /\ row \in Nat
  /\ locks \in Nat
  /\ outcome \in {"none", "refused", "failed", "frame"}

\* The accessible bytes are those of the reported range from the lowest row up.
MeasuredFrom(s, v) ==
  LET lowest == v.scanline0 - (IF v.pitch < 0
                               THEN (s.height - 1) * Magnitude(v.pitch) ELSE 0)
  IN  /\ s.start <= lowest
      /\ lowest + v.accessible = s.start + s.length
      /\ v.accessible # 0

MeasureInv ==
  pc \in {"check", "copy"} /\ view.known => MeasuredFrom(sample, view)

CheckInv == pc = "copy" => row <= Rows(sample) /\ Decodes(sample, view)

\* Nothing is read before the checks, nor kept between samples.
SourceInv == pc \in {"idle", "lock", "measure", "check"} => source = {} /\ row = 0

\* What Lock2DSize reported is what was measured.
SizedInv ==
  /\ pc = "measure" => sample.kind = "sized" /\ view.known
  /\ pc \in {"measure", "check"} /\ sample.kind = "sized" /\ view.known =>
       view.scanline0 = sample.scanline0 /\ view.pitch = sample.pitch
  /\ pc = "check" /\ sample.kind = "sized" /\ view.known =>
       Measurable(sample) /\ view.accessible = AccessibleExtent(sample)
  /\ pc \notin {"unlock", "return"} => outcome = "none"

FrameInv ==
  /\ FrameType /\ MeasureInv /\ CheckInv /\ SourceInv /\ SizedInv
  /\ LockIsReturned
  /\ pc \in {"measure", "check", "copy", "unlock"} => locks = 1
  /\ ReadsStayInside
  /\ RefusesOnlyTheUnfit

\* The samples are built from numbers.
LEMMA SampleTypes ==
  ASSUME NEW s \in Samples
  PROVE  /\ s.width \in Nat /\ s.height \in Nat
         /\ s.scanline0 \in 0 .. SizeMax /\ s.start \in 0 .. SizeMax
         /\ s.length \in 0 .. SizeMax
         /\ s.pitch \in -PitchLimit .. PitchLimit - 1 /\ s.pitch \in Int
         /\ s.format \in Formats
         /\ RowBytes(s) \in Nat
         /\ s.format \notin Packed => RowBytes(s) = s.width
         /\ s.width # 0 => RowBytes(s) # 0
<1>1. /\ s.width \in Dimensions /\ s.height \in Dimensions
      /\ s.scanline0 \in Addresses /\ s.start \in Addresses
      /\ s.length \in Lengths /\ s.pitch \in Pitches /\ s.format \in Formats
  BY DEF Samples
<1>2. s.pitch \in -PitchLimit .. PitchLimit - 1
  BY <1>1 DEF Pitches
<1>3. s.pitch \in Int
  BY <1>2, FrameAssumption
<1>4. /\ BytesPerPixel[s.format] \in 1 .. 4
      /\ s.format \notin Packed => BytesPerPixel[s.format] = 1
  BY <1>1 DEF BytesPerPixel, Formats, Packed, Planar
<1>5. s.width \in Nat /\ s.height \in Nat
  BY <1>1, FrameAssumption
<1>6. /\ RowBytes(s) \in Nat
      /\ s.format \notin Packed => RowBytes(s) = s.width
      /\ s.width # 0 => RowBytes(s) # 0
  BY <1>4, <1>5 DEF RowBytes
<1> QED
  BY <1>1, <1>2, <1>3, <1>5, <1>6, FrameAssumption

\* A frame that the checks let through, or that is whole, is not empty.
LEMMA PresentSizes ==
  ASSUME NEW s \in Samples
  PROVE  /\ \A v : Decodes(s, v) => s.width \in Nat \ {0} /\ s.height \in Nat \ {0}
         /\ Measurable(s) => s.height \in Nat \ {0}
         /\ s = sample /\ Whole(sample) => /\ s.width \in Nat \ {0}
                                          /\ s.height \in Nat \ {0}
                                          /\ RowBytes(s) \in Nat \ {0}
<1>1. s.width \in Nat /\ s.height \in Nat /\ RowBytes(s) \in Nat
      /\ (s.width # 0 => RowBytes(s) # 0)
  BY SampleTypes
<1>2. \A v : Decodes(s, v) => s.width # 0 /\ s.height # 0
  BY DEF Decodes
<1>3. Measurable(s) => s.height # 0
  BY DEF Measurable
<1>4. s = sample /\ Whole(sample) => s.width # 0 /\ s.height # 0
  BY DEF Whole
<1> QED BY <1>1, <1>2, <1>3, <1>4

\* A smaller factor gives a smaller product.
LEMMA Monotone ==
  ASSUME NEW a \in Nat, NEW b \in Nat, NEW m \in Nat, a <= b
  PROVE  a * m <= b * m /\ a * m \in Nat /\ b * m \in Nat
<1>1. PICK d \in Nat : b = a + d
  <2>1. b - a \in Nat /\ b = a + (b - a)
    OBVIOUS
  <2> QED BY <2>1
<1>2. b * m = a * m + d * m
  BY <1>1
<1>3. d * m \in Nat /\ a * m \in Nat
  OBVIOUS
<1> QED BY <1>2, <1>3

\* Row r of a view lies FromLowest rows above the lowest one.
LEMMA RowFromLowest ==
  ASSUME NEW h \in Nat, NEW r \in Nat, NEW pitch \in Int, r < h
  PROVE  /\ pitch >= 0 => r * pitch = r * Magnitude(pitch)
         /\ pitch < 0 => r * pitch = (h - 1 - r) * Magnitude(pitch)
                                       - (h - 1) * Magnitude(pitch)
         /\ Magnitude(pitch) \in Nat
  BY DEF Magnitude

-------------------------------------------------------------------------------
(* What is copied after the checks lies in the reported range.             *)

\* The row of a packed or luminance view.
LEMMA StraightRow ==
  ASSUME NEW s \in Samples, NEW v \in Views, v.known, MeasuredFrom(s, v),
         NEW r \in Nat, r < s.height,
         RowRegion(s, v) <= v.accessible
  PROVE  /\ s.start <= RowAddress(v, r)
         /\ RowAddress(v, r) + RowBytes(s) <= s.start + s.length
<1> DEFINE h == s.height
           m == Magnitude(v.pitch)
<1>1. h \in Nat \ {0} /\ RowBytes(s) \in Nat /\ s.start \in Nat /\ s.length \in Nat
  BY SampleTypes, FrameAssumption
<1>2. v.scanline0 \in Nat /\ v.pitch \in Int /\ v.accessible \in Int
  BY DEF Views
<1>3. m \in Nat
  BY <1>2 DEF Magnitude
<1>4. (h - 1) * m + RowBytes(s) <= v.accessible
  BY DEF RowRegion
<1>5. CASE v.pitch >= 0
  <2>1. r * m <= (h - 1) * m /\ r * m \in Nat /\ (h - 1) * m \in Nat
    BY <1>1, <1>3, r <= h - 1, h - 1 \in Nat, Monotone
  <2>2. RowAddress(v, r) = v.scanline0 + r * m
    BY <1>5, <1>2 DEF RowAddress, Magnitude
  <2>3. s.start <= v.scanline0 /\ v.scanline0 + v.accessible = s.start + s.length
    BY <1>2, <1>5 DEF MeasuredFrom
  <2> QED
    BY <1>1, <1>2, <1>4, <2>1, <2>2, <2>3
<1>6. CASE v.pitch < 0
  <2> DEFINE k == h - 1 - r
  <2>1. k \in Nat /\ k <= h - 1 /\ h - 1 \in Nat
    BY <1>1
  <2>2. k * m <= (h - 1) * m /\ k * m \in Nat /\ (h - 1) * m \in Nat
    BY <1>3, <2>1, Monotone
  <2>3. RowAddress(v, r) = v.scanline0 - (h - 1) * m + k * m
    <3>1. r * v.pitch = k * m - (h - 1) * m
      BY <1>1, <1>2, <1>6, RowFromLowest
    <3>2. r * v.pitch \in Int
      BY <1>2
    <3> HIDE DEF k, m, h
    <3> QED
      BY <1>2, <2>2, <3>1, <3>2 DEF RowAddress
  <2>4. /\ s.start <= v.scanline0 - (h - 1) * m
        /\ v.scanline0 - (h - 1) * m + v.accessible = s.start + s.length
    BY <1>6 DEF MeasuredFrom
  <2> QED
    BY <1>1, <1>2, <1>4, <2>2, <2>3, <2>4
<1> QED
  BY <1>2, <1>5, <1>6

\* The row of a top-down view that ends within the accessible bytes.
LEMMA TopDownRow ==
  ASSUME NEW s \in Samples, NEW v \in Views, MeasuredFrom(s, v), 0 < v.pitch,
         NEW offset \in Nat, NEW bytes \in Nat, offset + bytes <= v.accessible
  PROVE  /\ s.start <= v.scanline0 + offset
         /\ v.scanline0 + offset + bytes <= s.start + s.length
<1>1. s.start \in Nat /\ s.length \in Nat
  BY SampleTypes, FrameAssumption
<1>2. v.scanline0 \in Nat /\ v.accessible \in Int /\ v.pitch \in Int
  BY DEF Views
<1>3. s.start <= v.scanline0 /\ v.scanline0 + v.accessible = s.start + s.length
  BY <1>2 DEF MeasuredFrom
<1> QED
  BY <1>1, <1>2, <1>3

\* A row of either chroma plane ends within the extent of the whole frame.
LEMMA ChromaRowEnds ==
  ASSUME NEW s \in Samples, NEW v \in Views, EvenTopDown(s, v),
         NEW r \in Nat, r < ChromaRows(s), NEW plane \in {0, 1}
  PROVE  LET offset == ChromaBase(s, v) + (plane * ChromaRows(s) + r) * ChromaStride(v)
         IN  /\ offset \in Nat
             /\ ChromaRowBytes(s) \in Nat
             /\ offset + ChromaRowBytes(s) <= PlanarExtent(s, v)
             /\ ChromaAddress(s, v, plane, r) = v.scanline0 + offset
<1> DEFINE c == plane * ChromaRows(s) + r
<1>1. s.height \in Nat \ {0} /\ s.width \in Nat
  <2>1. s.height \in Nat /\ s.width \in Nat
    BY SampleTypes
  <2>2. s.height # 0
    BY <2>1 DEF ChromaRows
  <2> QED BY <2>1, <2>2
<1>2. v.scanline0 \in Nat /\ v.pitch \in Nat
  BY DEF Views, EvenTopDown
<1>3. ChromaRows(s) \in Nat /\ s.height = 2 * ChromaRows(s)
  BY <1>1 DEF ChromaRows, EvenTopDown
<1>4. c \in Nat /\ c <= s.height - 1 /\ s.height - 1 \in Nat
  BY <1>1, <1>3
<1>5. ChromaStride(v) \in Nat /\ ChromaRowBytes(s) \in Nat
  BY <1>1, <1>2 DEF ChromaStride, ChromaRowBytes
<1>6. /\ c * ChromaStride(v) <= (s.height - 1) * ChromaStride(v)
      /\ c * ChromaStride(v) \in Nat /\ (s.height - 1) * ChromaStride(v) \in Nat
  BY <1>4, <1>5, Monotone
<1>7. ChromaBase(s, v) \in Nat
  BY <1>1, <1>2 DEF ChromaBase
<1> QED
  BY <1>2, <1>5, <1>6, <1>7 DEF PlanarExtent, ChromaAddress

LEMMA CopiedRowInside ==
  ASSUME NEW s \in Samples, NEW v \in Views, v.known, MeasuredFrom(s, v),
         Decodes(s, v), NEW r \in Nat, r < Rows(s),
         NEW range \in Source(s, v, r)
  PROVE  s.start <= range.from /\ range.from + range.bytes <= s.start + s.length
<1>1. /\ s.height \in Nat \ {0} /\ s.width \in Nat \ {0} /\ s.format \in Formats
      /\ s.format \notin Packed => RowBytes(s) = s.width
  BY SampleTypes, PresentSizes
<1>2. v.pitch \in Int /\ v.scanline0 \in Nat
  BY DEF Views
<1>3. CASE s.format \in Packed \cup {"l8"}
  <2>1. range = [from |-> RowAddress(v, r), bytes |-> RowBytes(s)]
    BY <1>3 DEF Source, Packed, Planar
  <2>2. r < s.height
    BY <1>3 DEF Rows, Packed, Planar
  <2>3. RowRegion(s, v) <= v.accessible
    BY <1>3 DEF Decodes, DecodesPacked, DecodesLuma, Packed, Planar, MeasuredFrom
  <2> QED
    BY <2>1, <2>2, <2>3, StraightRow
<1>4. CASE s.format = "nv12"
  <2>1. range = [from |-> RowAddress(v, r), bytes |-> s.width]
    BY <1>1, <1>4 DEF Source, Packed, Planar
  <2>2. 0 < v.pitch /\ r * v.pitch + s.width <= v.accessible
    <3>1. r \in 0 .. Nv12Rows(s) - 1
      BY <1>1, <1>4 DEF Rows, Nv12Rows
    <3> QED
      BY <1>4, <3>1 DEF Decodes, DecodesNv12, EvenTopDown, Packed, Planar
  <2>3. r * v.pitch \in Nat
    BY <1>2, <2>2
  <2> QED
    BY <1>1, <2>1, <2>2, <2>3, TopDownRow DEF RowAddress
<1>5. CASE s.format \in Planar
  <2>1. /\ EvenTopDown(s, v) /\ PlanarExtent(s, v) <= v.accessible
        /\ \A k \in 0 .. s.height - 1 : k * v.pitch + s.width <= v.accessible
    BY <1>5 DEF Decodes, DecodesPlanar, Packed, Planar
  <2>2. CASE r < s.height
    <3>1. range = [from |-> RowAddress(v, r), bytes |-> s.width]
      BY <1>1, <1>5, <2>2 DEF Source, Packed, Planar
    <3>2. 0 < v.pitch /\ r * v.pitch + s.width <= v.accessible /\ r * v.pitch \in Nat
      BY <1>1, <1>2, <2>1, <2>2 DEF EvenTopDown
    <3> QED
      BY <1>1, <3>1, <3>2, TopDownRow DEF RowAddress
  <2>3. CASE r >= s.height
    <3>1. PICK plane \in {0, 1} :
            range = [from |-> ChromaAddress(s, v, plane, r - s.height),
                     bytes |-> ChromaRowBytes(s)]
      BY <1>5, <2>3 DEF Source
    <3>2. r - s.height \in Nat /\ r - s.height < ChromaRows(s)
      BY <1>1, <1>5, <2>3 DEF Rows, Nv12Rows, ChromaRows
    <3> DEFINE offset == ChromaBase(s, v)
                 + (plane * ChromaRows(s) + (r - s.height)) * ChromaStride(v)
    <3>3. /\ offset \in Nat /\ ChromaRowBytes(s) \in Nat
          /\ offset + ChromaRowBytes(s) <= PlanarExtent(s, v)
          /\ range.from = v.scanline0 + offset
          /\ range.bytes = ChromaRowBytes(s)
      BY <2>1, <3>1, <3>2, ChromaRowEnds
    <3>4. PlanarExtent(s, v) \in Int /\ v.accessible \in Int
      BY <1>1, <1>2, FrameAssumption
         DEF PlanarExtent, ChromaBase, ChromaStride, ChromaRowBytes, Views
    <3>5. offset + ChromaRowBytes(s) <= v.accessible
      BY <2>1, <3>3, <3>4
    <3>6. 0 < v.pitch
      BY <2>1 DEF EvenTopDown
    <3> HIDE DEF offset
    <3> QED
      BY <3>3, <3>5, <3>6, TopDownRow
  <2> QED
    BY <1>1, <2>2, <2>3
<1> QED
  BY <1>1, <1>3, <1>4, <1>5 DEF Formats

-------------------------------------------------------------------------------
LEMMA FrameInvInit == Init => FrameInv
  BY DEF Init, FrameInv, FrameType, Views, NoView, MeasureInv, CheckInv, SourceInv,
         SizedInv, LockIsReturned, ReadsStayInside, RefusesOnlyTheUnfit

\* The view that Lock2DSize gives, measured.
LEMMA MeasuredSized ==
  ASSUME NEW s \in Samples, Measurable(s),
         NEW v \in Views, v.scanline0 = s.scanline0, v.pitch = s.pitch,
         v.accessible = AccessibleExtent(s)
  PROVE  MeasuredFrom(s, v) /\ v.accessible \in Nat
<1>1. /\ s.scanline0 \in Nat /\ s.start \in Nat /\ s.length \in Nat
      /\ s.height \in Nat \ {0} /\ s.pitch \in Int
  BY SampleTypes, PresentSizes, FrameAssumption
<1>2. Magnitude(s.pitch) \in Nat
  BY <1>1 DEF Magnitude
<1>3. (s.height - 1) * Magnitude(s.pitch) \in Int
  BY <1>1, <1>2
<1>4. /\ LowestAddressed(s) \in Int
      /\ LowestAddressed(s) = v.scanline0 - (IF v.pitch < 0
                  THEN (s.height - 1) * Magnitude(v.pitch) ELSE 0)
  BY <1>1, <1>3 DEF LowestAddressed, Descent
<1>5. /\ s.start <= LowestAddressed(s)
      /\ LowestAddressed(s) < s.start + s.length
      /\ v.accessible = s.start + s.length - LowestAddressed(s)
  BY DEF Measurable, AccessibleExtent
<1> HIDE DEF LowestAddressed
<1> QED
  BY <1>1, <1>4, <1>5 DEF MeasuredFrom

(* What is whole passes the checks.                                        *)

\* The rows of a whole sample, in numbers.
LEMMA WholeRows ==
  ASSUME NEW r \in Nat, sample \in Samples, Whole(sample), r < Rows(sample),
         NEW range \in Source(sample, sample, r)
  PROVE  /\ sample.start <= range.from
         /\ range.from + range.bytes <= sample.start + sample.length
<1>1. Rows(sample) \in Nat
  BY SampleTypes DEF Rows, Nv12Rows
<1>2. r \in 0 .. Rows(sample) - 1
  BY <1>1
<1> QED
  BY <1>2 DEF Whole, Reported

LEMMA WholeStraight ==
  ASSUME sample \in Samples, Whole(sample), sample.format \in Packed \cup {"l8"}
  PROVE  /\ Measurable(sample)
         /\ RowRegion(sample, sample) \in Size
         /\ RowRegion(sample, sample) <= AccessibleExtent(sample)
<1> DEFINE h == sample.height
           m == Magnitude(sample.pitch)
<1>1. /\ h \in Nat \ {0} /\ RowBytes(sample) \in Nat \ {0}
      /\ sample.scanline0 \in Nat /\ sample.start \in Nat /\ sample.length \in Nat
      /\ sample.pitch \in Int /\ -PitchLimit <= sample.pitch
  BY SampleTypes, PresentSizes, FrameAssumption
<1>2. m \in Nat /\ (h - 1) * m \in Nat
  <2>1. m \in Nat /\ h - 1 \in Nat
    BY <1>1 DEF Magnitude
  <2> HIDE DEF m, h
  <2> QED BY <2>1
<1>3. \A r \in 0 .. h - 1 :
        /\ sample.start <= RowAddress(sample, r)
        /\ RowAddress(sample, r) + RowBytes(sample) <= sample.start + sample.length
  <2> TAKE r \in 0 .. h - 1
  <2>1. r \in Nat /\ r < Rows(sample)
    BY <1>1 DEF Rows, Packed, Planar
  <2>2. [from |-> RowAddress(sample, r), bytes |-> RowBytes(sample)]
          \in Source(sample, sample, r)
    BY DEF Source, Packed, Planar
  <2> QED
    BY <2>1, <2>2, WholeRows
<1>4. /\ RowAddress(sample, 0) = sample.scanline0
      /\ RowAddress(sample, h - 1) = sample.scanline0 + (h - 1) * sample.pitch
  BY <1>1 DEF RowAddress
<1>5. /\ sample.start <= sample.scanline0
      /\ sample.scanline0 + RowBytes(sample) <= sample.start + sample.length
      /\ sample.start <= sample.scanline0 + (h - 1) * sample.pitch
      /\ sample.scanline0 + (h - 1) * sample.pitch + RowBytes(sample)
           <= sample.start + sample.length
  BY <1>1, <1>3, <1>4
<1>6. sample.start + sample.length \in Size /\ sample.start # 0
      /\ sample.height # 0 /\ sample.pitch # -PitchLimit
  BY DEF Whole, Geometry
<1>7. CASE sample.pitch >= 0
  <2>1. m = sample.pitch /\ Descent(sample) = 0
    BY <1>1, <1>7 DEF Magnitude, Descent
  <2> HIDE DEF m, h
  <2>2. LowestAddressed(sample) = sample.scanline0
    BY <1>1, <2>1 DEF LowestAddressed
  <2>3. Measurable(sample)
    <3> DEFINE rowBytes == RowBytes(sample)
    <3>2. /\ sample.start <= sample.scanline0
          /\ sample.scanline0 + rowBytes <= sample.start + sample.length
      BY <1>5
    <3>3. /\ rowBytes \in Nat \ {0} /\ sample.start \in Nat
          /\ sample.scanline0 \in Nat /\ sample.length \in Nat
      BY <1>1
    <3> HIDE DEF rowBytes
    <3>1. LowestAddressed(sample) < sample.start + sample.length /\ sample.length # 0
      BY <2>2, <3>2, <3>3
    <3> QED
      BY <1>1, <1>5, <1>6, <2>1, <2>2, <3>1 DEF Measurable
  <2>4. /\ (h - 1) * m + RowBytes(sample) \in Size
        /\ (h - 1) * m + RowBytes(sample) <= AccessibleExtent(sample)
    <3>1. sample.scanline0 + (h - 1) * m + RowBytes(sample) <= sample.start + sample.length
      BY <1>5, <2>1
    <3>2. sample.start + sample.length <= SizeMax
      BY <1>6, FrameAssumption DEF Size
    <3>3. AccessibleExtent(sample) = sample.start + sample.length - sample.scanline0
      BY <2>2 DEF AccessibleExtent
    <3> QED
      BY <1>1, <1>2, <3>1, <3>2, <3>3, FrameAssumption DEF Size
  <2> QED
    BY <2>3, <2>4 DEF RowRegion, h, m
<1>8. CASE sample.pitch < 0
  <2>1. m = -sample.pitch /\ Descent(sample) = (h - 1) * m
    BY <1>1, <1>8 DEF Magnitude, Descent
  <2>2. (h - 1) * sample.pitch = -((h - 1) * m)
    BY <1>1, <2>1
  <2> HIDE DEF m, h
  <2>3. LowestAddressed(sample) = sample.scanline0 - (h - 1) * m
    BY <2>1 DEF LowestAddressed
  <2>4. /\ sample.start <= sample.scanline0 - (h - 1) * m
        /\ sample.scanline0 - (h - 1) * m + RowBytes(sample) <= sample.start + sample.length
    BY <1>1, <1>2, <1>5, <2>2
  <2>5. Measurable(sample)
    BY <1>1, <1>2, <1>6, <2>1, <2>3, <2>4 DEF Measurable
  <2>6. /\ (h - 1) * m + RowBytes(sample) \in Size
        /\ (h - 1) * m + RowBytes(sample) <= AccessibleExtent(sample)
    <3>1. sample.start + sample.length <= SizeMax
      BY <1>6, FrameAssumption DEF Size
    <3>2. AccessibleExtent(sample)
            = sample.start + sample.length - (sample.scanline0 - (h - 1) * m)
      BY <2>3 DEF AccessibleExtent
    <3> QED
      BY <1>1, <1>2, <1>5, <2>4, <3>1, <3>2, FrameAssumption DEF Size
  <2> QED
    BY <2>5, <2>6 DEF RowRegion, h, m
<1> QED
  BY <1>1, <1>7, <1>8

\* A top-down frame of several planes: every row lies above its first one.
LEMMA WholeTopDown ==
  ASSUME sample \in Samples, Whole(sample), sample.format \in Planar \cup {"nv12"}
  PROVE  /\ EvenTopDown(sample, sample)
         /\ Measurable(sample)
         /\ AccessibleExtent(sample) = sample.start + sample.length - sample.scanline0
         /\ AccessibleExtent(sample) <= SizeMax
<1>1. /\ sample.height \in Nat \ {0} /\ sample.width \in Nat \ {0}
      /\ sample.scanline0 \in Nat /\ sample.start \in Nat /\ sample.length \in Nat
      /\ sample.pitch \in Int /\ RowBytes(sample) = sample.width
  BY SampleTypes, PresentSizes, FrameAssumption DEF Packed, Planar
<1>2. EvenTopDown(sample, sample)
  BY DEF Whole, Geometry, Packed, Planar
<1>3. 0 < sample.pitch
  BY <1>2 DEF EvenTopDown
<1>4. /\ sample.start <= sample.scanline0
      /\ sample.scanline0 + sample.width <= sample.start + sample.length
  <2>1. 0 < Rows(sample)
    BY <1>1 DEF Rows, Nv12Rows
  <2>2. [from |-> RowAddress(sample, 0), bytes |-> sample.width] \in Source(sample, sample, 0)
    BY <1>1 DEF Source
  <2>3. RowAddress(sample, 0) = sample.scanline0
    BY <1>1 DEF RowAddress
  <2> QED
    BY <2>1, <2>2, <2>3, WholeRows
<1>5. Descent(sample) = 0 /\ LowestAddressed(sample) = sample.scanline0
  BY <1>1, <1>3 DEF Descent, LowestAddressed
<1>6. sample.start + sample.length \in Size /\ sample.start # 0
  BY DEF Whole
<1>7. sample.pitch # -PitchLimit
  BY <1>3, FrameAssumption
<1>8. Measurable(sample)
  BY <1>1, <1>4, <1>5, <1>6, <1>7 DEF Measurable
<1>9. AccessibleExtent(sample) = sample.start + sample.length - sample.scanline0
  BY <1>5 DEF AccessibleExtent
<1>10. AccessibleExtent(sample) <= SizeMax
  BY <1>1, <1>6, <1>9, FrameAssumption DEF Size
<1> QED
  BY <1>2, <1>8, <1>9, <1>10

LEMMA WholeNv12 ==
  ASSUME sample \in Samples, Whole(sample), sample.format = "nv12"
  PROVE  /\ (Nv12Rows(sample) - 1) * sample.pitch + sample.width \in Size
         /\ \A r \in 0 .. Nv12Rows(sample) - 1 :
              r * sample.pitch + sample.width <= AccessibleExtent(sample)
<1>1. /\ sample.height \in Nat \ {0} /\ sample.width \in Nat \ {0}
      /\ sample.scanline0 \in Nat /\ sample.start \in Nat /\ sample.length \in Nat
      /\ sample.pitch \in Int /\ RowBytes(sample) = sample.width
  BY SampleTypes, PresentSizes, FrameAssumption DEF Packed
<1>2. /\ 0 < sample.pitch
      /\ AccessibleExtent(sample) = sample.start + sample.length - sample.scanline0
      /\ AccessibleExtent(sample) <= SizeMax
  BY WholeTopDown DEF EvenTopDown
<1>3. Nv12Rows(sample) \in Nat \ {0} /\ Rows(sample) = Nv12Rows(sample)
  BY <1>1 DEF Nv12Rows, Rows
<1>4. ASSUME NEW r \in 0 .. Nv12Rows(sample) - 1
      PROVE  /\ r * sample.pitch \in Nat
             /\ r * sample.pitch + sample.width <= AccessibleExtent(sample)
  <2>1. r \in Nat /\ r < Rows(sample)
    BY <1>3
  <2>2. [from |-> RowAddress(sample, r), bytes |-> sample.width] \in Source(sample, sample, r)
    BY <1>1 DEF Source, Planar
  <2>3. sample.scanline0 + r * sample.pitch + sample.width <= sample.start + sample.length
    BY <2>1, <2>2, WholeRows DEF RowAddress
  <2>4. r * sample.pitch \in Nat
    BY <1>1, <1>2, <2>1
  <2> QED
    BY <1>1, <1>2, <2>3, <2>4
<1>5. Nv12Rows(sample) - 1 \in 0 .. Nv12Rows(sample) - 1
  BY <1>3
<1>6. /\ (Nv12Rows(sample) - 1) * sample.pitch \in Nat
      /\ (Nv12Rows(sample) - 1) * sample.pitch + sample.width <= AccessibleExtent(sample)
  BY <1>4, <1>5
<1>7. (Nv12Rows(sample) - 1) * sample.pitch + sample.width \in Size
  BY <1>1, <1>2, <1>6, FrameAssumption DEF Size
<1> QED
  BY <1>4, <1>7

LEMMA WholePlanar ==
  ASSUME sample \in Samples, Whole(sample), sample.format \in Planar
  PROVE  /\ PlanarExtent(sample, sample) \in Size
         /\ PlanarExtent(sample, sample) <= AccessibleExtent(sample)
         /\ \A r \in 0 .. sample.height - 1 :
              r * sample.pitch + sample.width <= AccessibleExtent(sample)
         /\ \A r \in 0 .. ChromaRows(sample) - 1 :
              ChromaBase(sample, sample) + r * ChromaStride(sample) + ChromaRowBytes(sample)
                <= AccessibleExtent(sample)
<1>1. /\ sample.height \in Nat \ {0} /\ sample.width \in Nat \ {0}
      /\ sample.scanline0 \in Nat /\ sample.start \in Nat /\ sample.length \in Nat
      /\ sample.pitch \in Int /\ RowBytes(sample) = sample.width
  BY SampleTypes, PresentSizes, FrameAssumption DEF Packed, Planar
<1>2. /\ 0 < sample.pitch /\ sample.height % 2 = 0
      /\ AccessibleExtent(sample) = sample.start + sample.length - sample.scanline0
      /\ AccessibleExtent(sample) <= SizeMax
  BY WholeTopDown DEF EvenTopDown
<1>3. /\ ChromaRows(sample) \in Nat \ {0} /\ sample.height = 2 * ChromaRows(sample)
      /\ Rows(sample) = sample.height + ChromaRows(sample)
  <2>1. Rows(sample) = sample.height + ChromaRows(sample)
    BY DEF ChromaRows, Rows, Nv12Rows
  <2>2. ChromaRows(sample) \in Nat /\ sample.height = 2 * ChromaRows(sample)
    BY <1>1, <1>2 DEF ChromaRows
  <2> QED
    BY <1>1, <2>1, <2>2
<1>4. ChromaStride(sample) \in Nat /\ ChromaRowBytes(sample) \in Nat
  BY <1>1, <1>2 DEF ChromaStride, ChromaRowBytes
<1>5. ChromaBase(sample, sample) \in Nat
  BY <1>1, <1>2 DEF ChromaBase
<1>6. ASSUME NEW r \in 0 .. sample.height - 1
      PROVE  r * sample.pitch + sample.width <= AccessibleExtent(sample)
  <2>1. r \in Nat /\ r < Rows(sample) /\ ~(r >= sample.height)
    BY <1>1, <1>3
  <2>2. [from |-> RowAddress(sample, r), bytes |-> sample.width] \in Source(sample, sample, r)
    BY <1>1, <2>1 DEF Source
  <2>3. sample.scanline0 + r * sample.pitch + sample.width <= sample.start + sample.length
    BY <2>1, <2>2, WholeRows DEF RowAddress
  <2>4. r * sample.pitch \in Nat
    BY <1>1, <1>2, <2>1
  <2> QED
    BY <1>1, <1>2, <2>3, <2>4
<1>7. ASSUME NEW r \in 0 .. ChromaRows(sample) - 1, NEW plane \in {0, 1}
      PROVE  /\ ChromaBase(sample, sample)
                   + (plane * ChromaRows(sample) + r) * ChromaStride(sample)
                   + ChromaRowBytes(sample) <= AccessibleExtent(sample)
             /\ (plane * ChromaRows(sample) + r) * ChromaStride(sample) \in Nat
  <2> DEFINE c == plane * ChromaRows(sample) + r
             q == sample.height + r
  <2>1. q \in Nat /\ q < Rows(sample) /\ q >= sample.height /\ q - sample.height = r
        /\ c \in Nat
    BY <1>1, <1>3
  <2>2. [from |-> ChromaAddress(sample, sample, plane, r), bytes |-> ChromaRowBytes(sample)]
          \in Source(sample, sample, q)
    BY <2>1 DEF Source
  <2>3. ChromaAddress(sample, sample, plane, r) + ChromaRowBytes(sample)
          <= sample.start + sample.length
    BY <2>1, <2>2, WholeRows
  <2>4. c * ChromaStride(sample) \in Nat
    BY <1>4, <2>1
  <2>5. ChromaAddress(sample, sample, plane, r)
          = sample.scanline0 + ChromaBase(sample, sample) + c * ChromaStride(sample)
    BY DEF ChromaAddress
  <2> HIDE DEF c
  <2>6. ChromaBase(sample, sample) + c * ChromaStride(sample) + ChromaRowBytes(sample)
          <= AccessibleExtent(sample)
    BY <1>1, <1>2, <1>4, <1>5, <2>3, <2>4, <2>5
  <2> QED
    BY <2>4, <2>6 DEF c
<1>8. ASSUME NEW r \in 0 .. ChromaRows(sample) - 1
      PROVE  ChromaBase(sample, sample) + r * ChromaStride(sample) + ChromaRowBytes(sample)
               <= AccessibleExtent(sample)
  <2>1. 0 * ChromaRows(sample) + r = r
    BY <1>3
  <2> QED
    BY <1>7, <2>1
<1>9. /\ PlanarExtent(sample, sample) <= AccessibleExtent(sample)
      /\ PlanarExtent(sample, sample) \in Nat
  <2> DEFINE r == ChromaRows(sample) - 1
  <2>1. r \in 0 .. ChromaRows(sample) - 1
    BY <1>3
  <2>2. 1 * ChromaRows(sample) + r = sample.height - 1
    BY <1>3
  <2> HIDE DEF r
  <2>3. /\ ChromaBase(sample, sample) + (sample.height - 1) * ChromaStride(sample)
              + ChromaRowBytes(sample) <= AccessibleExtent(sample)
        /\ (sample.height - 1) * ChromaStride(sample) \in Nat
    BY <1>7, <2>1, <2>2
  <2> QED
    BY <1>4, <1>5, <2>3 DEF PlanarExtent
<1>10. PlanarExtent(sample, sample) \in Size
  <2>1. AccessibleExtent(sample) \in Int
    BY <1>1, <1>2
  <2> QED
    BY <1>2, <1>9, <2>1, FrameAssumption DEF Size
<1> QED
  BY <1>6, <1>8, <1>9, <1>10

LEMMA WholeDecodes ==
  ASSUME sample \in Samples, Whole(sample), NEW v \in Views,
         v.scanline0 = sample.scanline0, v.pitch = sample.pitch,
         v.accessible = AccessibleExtent(sample)
  PROVE  Decodes(sample, v)
<1>1. /\ sample.format \in Formats /\ RowBytes(sample) \in Nat \ {0}
      /\ sample.height \in Nat \ {0} /\ sample.pitch \in Int
  BY SampleTypes, PresentSizes
<1>2. /\ v.scanline0 # 0 /\ sample.width # 0 /\ sample.height # 0
      /\ sample.width <= MaxDim /\ sample.height <= MaxDim
  BY DEF Whole
<1>3. CASE sample.format \in Packed \cup {"l8"}
  <2>1. RowRegion(sample, v) \in Size /\ RowRegion(sample, v) <= v.accessible
    BY <1>3, WholeStraight DEF RowRegion
  <2>2. /\ sample.format = "yuv422" => sample.width % 2 = 0
        /\ v.pitch # -PitchLimit /\ RowBytes(sample) <= Magnitude(v.pitch)
    BY <1>3 DEF Whole, Geometry
  <2>3. v.pitch # 0
    BY <1>1, <2>2 DEF Magnitude
  <2>4. \A r \in 0 .. sample.height - 1 : PackedRowFits(sample, v, r)
    <3> TAKE r \in 0 .. sample.height - 1
    <3> DEFINE k == FromLowest(sample, v, r)
    <3>1. /\ k \in Nat /\ k <= sample.height - 1 /\ sample.height - 1 \in Nat
      BY <1>1 DEF FromLowest
    <3>2. Magnitude(v.pitch) \in Nat
      BY <1>1 DEF Magnitude
    <3> HIDE DEF k
    <3>3. /\ k * Magnitude(v.pitch) <= (sample.height - 1) * Magnitude(v.pitch)
          /\ k * Magnitude(v.pitch) \in Nat
          /\ (sample.height - 1) * Magnitude(v.pitch) \in Nat
      BY <3>1, <3>2, Monotone
    <3>4. v.accessible \in Int
      BY DEF Views
    <3>5. k * Magnitude(v.pitch) + RowBytes(sample) <= v.accessible
      BY <1>1, <2>1, <3>3, <3>4 DEF RowRegion
    <3> QED
      BY <3>5 DEF PackedRowFits, k
  <2> QED
    BY <1>2, <1>3, <2>1, <2>2, <2>3, <2>4 DEF Decodes, DecodesPacked, DecodesLuma
<1>4. CASE sample.format = "nv12"
  <2>1. EvenTopDown(sample, v)
    BY <1>4, WholeTopDown DEF EvenTopDown
  <2>2. DecodesNv12(sample, v)
    BY <1>4, <2>1, WholeNv12 DEF DecodesNv12
  <2> QED
    BY <1>2, <1>4, <2>2 DEF Decodes
<1>5. CASE sample.format \in Planar
  <2>1. EvenTopDown(sample, v)
    BY <1>5, WholeTopDown DEF EvenTopDown
  <2>2. /\ PlanarExtent(sample, v) = PlanarExtent(sample, sample)
        /\ ChromaBase(sample, v) = ChromaBase(sample, sample)
        /\ ChromaStride(v) = ChromaStride(sample)
    BY DEF PlanarExtent, ChromaBase, ChromaStride
  <2>3. DecodesPlanar(sample, v)
    BY <1>5, <2>1, <2>2, WholePlanar DEF DecodesPlanar
  <2> QED
    BY <1>2, <1>5, <2>3 DEF Decodes
<1> QED
  BY <1>1, <1>3, <1>4, <1>5 DEF Formats

LEMMA WholeMeasurable ==
  ASSUME sample \in Samples, Whole(sample)
  PROVE  Measurable(sample)
  BY SampleTypes, WholeStraight, WholeTopDown DEF Formats

-------------------------------------------------------------------------------
\* One step keeps the invariant.
LEMMA FrameInvNext == FrameInv /\ [Next]_vars => FrameInv'
<1> SUFFICES ASSUME FrameInv, [Next]_vars PROVE FrameInv'
  OBVIOUS
<1> USE DEF FrameInv
<1>1. CASE Deliver
  BY <1>1 DEF Deliver, FrameType, MeasureInv, CheckInv, SourceInv, LockIsReturned,
              SizedInv, ReadsStayInside, RefusesOnlyTheUnfit
<1>2. CASE LockFails
  BY <1>2 DEF LockFails, Return, FrameType, MeasureInv, CheckInv, SourceInv,
              SizedInv, LockIsReturned, ReadsStayInside, RefusesOnlyTheUnfit
<1>3. CASE NoPackedStride
  BY <1>3 DEF NoPackedStride, Return, FrameType, MeasureInv, CheckInv, SourceInv,
              SizedInv, LockIsReturned, ReadsStayInside, RefusesOnlyTheUnfit
<1>4. CASE Lock2DSize \/ Lock2D
  <2>1. sample \in Samples /\ locks = 0 /\ source = {} /\ pc = "lock"
    BY <1>4 DEF Lock2DSize, Lock2D, FrameType, SourceInv, LockIsReturned
  <2>2. sample.scanline0 \in Nat /\ sample.pitch \in Int
    BY <2>1, SampleTypes, FrameAssumption
  <2>3. /\ view' \in Views
        /\ \/ pc' = "check" /\ ~view'.known
           \/ pc' = "measure" /\ view'.known /\ sample.kind = "sized"
        /\ view'.scanline0 = sample.scanline0 /\ view'.pitch = sample.pitch
    <3> DEFINE v(known) == [scanline0 |-> sample.scanline0, pitch |-> sample.pitch,
                            known |-> known, accessible |-> 0]
    <3>1. \A known \in BOOLEAN :
            /\ v(known) \in Views /\ v(known).known = known
            /\ v(known).scanline0 = sample.scanline0 /\ v(known).pitch = sample.pitch
      BY <2>2 DEF Views
    <3>2. \/ pc' = "check" /\ view' = v(FALSE)
          \/ pc' = "measure" /\ view' = v(TRUE) /\ sample.kind = "sized"
      BY <1>4 DEF Lock2DSize, Lock2D, Locked
    <3> HIDE DEF v
    <3> QED
      BY <3>1, <3>2
  <2>4. UNCHANGED <<sample, row, source, outcome>> /\ locks' = 1 /\ outcome = "none"
    BY <1>4, <2>1 DEF Lock2DSize, Lock2D, Locked, SizedInv
  <2> QED
    BY <2>1, <2>3, <2>4 DEF FrameType, MeasureInv, CheckInv, SourceInv, SizedInv,
                            LockIsReturned, ReadsStayInside, RefusesOnlyTheUnfit
<1>5. CASE LockFlat
  <2>1. sample \in Samples /\ locks = 0 /\ source = {} /\ row = 0 /\ pc = "lock"
    BY <1>5 DEF LockFlat, FrameType, SourceInv, LockIsReturned
  <2>2. /\ sample.start \in Nat /\ sample.length \in Nat /\ RowBytes(sample) \in Nat
    BY <2>1, SampleTypes, FrameAssumption
  <2> DEFINE v == [scanline0 |-> sample.start, pitch |-> RowBytes(sample),
                   known |-> TRUE, accessible |-> sample.length]
  <2>3. v \in Views
    BY <2>2 DEF Views
  <2>4. /\ UNCHANGED <<sample, row, source>> /\ locks' = 1 /\ view' = v
        /\ pc' = IF sample.length = 0 THEN "unlock" ELSE "check"
        /\ outcome' \in {"refused", "none"} /\ sample.kind = "flat"
        /\ sample.length # 0 => outcome' = "none"
    BY <1>5, <2>1 DEF LockFlat, Locked, SizedInv
  <2>5. sample.length # 0 => MeasuredFrom(sample, v)
    BY <2>2 DEF MeasuredFrom
  <2> HIDE DEF v
  <2> QED
    BY <2>1, <2>3, <2>4, <2>5 DEF FrameType, MeasureInv, CheckInv, SourceInv,
                                  SizedInv, LockIsReturned, ReadsStayInside, RefusesOnlyTheUnfit
<1>6. CASE Measure
  <2>1. /\ sample \in Samples /\ view \in Views /\ source = {} /\ locks = 1
        /\ pc = "measure" /\ sample.kind = "sized" /\ view.known
        /\ view.scanline0 = sample.scanline0 /\ view.pitch = sample.pitch
        /\ outcome = "none"
        /\ UNCHANGED <<sample, row, source, locks>>
    BY <1>6 DEF Measure, FrameType, SourceInv, SizedInv
  <2>2. CASE Measurable(sample)
    <3>1. /\ view' = [view EXCEPT !.accessible = AccessibleExtent(sample)]
          /\ pc' = "check" /\ outcome' = "none"
      BY <1>6, <2>1, <2>2 DEF Measure
    <3>2. AccessibleExtent(sample) \in Int
      <4>1. /\ sample.scanline0 \in Nat /\ sample.start \in Nat /\ sample.length \in Nat
            /\ sample.height \in Nat /\ sample.pitch \in Int
        BY <2>1, SampleTypes, FrameAssumption
      <4>2. Magnitude(sample.pitch) \in Int
        BY <4>1 DEF Magnitude
      <4>3. Descent(sample) \in Int
        BY <4>1, <4>2 DEF Descent
      <4> QED
        BY <4>1, <4>3 DEF AccessibleExtent, LowestAddressed
    <3>3. /\ view' \in Views /\ view'.known
          /\ view'.scanline0 = sample.scanline0 /\ view'.pitch = sample.pitch
          /\ view'.accessible = AccessibleExtent(sample)
      BY <2>1, <3>1, <3>2 DEF Views
    <3>4. MeasuredFrom(sample, view')
      BY <2>1, <2>2, <3>3, MeasuredSized
    <3> QED
      BY <2>1, <2>2, <3>1, <3>3, <3>4
         DEF FrameType, MeasureInv, CheckInv, SourceInv, SizedInv, LockIsReturned,
             ReadsStayInside, RefusesOnlyTheUnfit
  <2>3. CASE ~Measurable(sample)
    <3>1. ~Whole(sample)
      BY <2>1, <2>3, WholeMeasurable
    <3>2. pc' = "unlock" /\ outcome' = "refused" /\ UNCHANGED <<sample, view>>
      BY <1>6, <2>1, <2>3 DEF Measure
    <3>3. (~Whole(sample))'
      BY <3>1, <3>2 DEF Whole, Reported
    <3> QED
      BY <2>1, <3>2, <3>3
         DEF FrameType, MeasureInv, CheckInv, SourceInv, SizedInv, LockIsReturned,
             ReadsStayInside, RefusesOnlyTheUnfit
  <2> QED
    BY <2>2, <2>3
<1>7. CASE Check
  <2>1. /\ sample \in Samples /\ view \in Views /\ source = {} /\ locks = 1
        /\ pc = "check" /\ outcome = "none"
        /\ UNCHANGED <<sample, view, row, source, locks>>
    BY <1>7 DEF Check, FrameType, SourceInv, SizedInv
  <2>2. CASE Decodes(sample, view)
    <3>1. row = 0 /\ Rows(sample) \in Nat /\ pc' = "copy" /\ outcome' = "none"
      BY <1>7, <2>1, <2>2, SampleTypes DEF Check, SourceInv, Rows, Nv12Rows
    <3> QED
      BY <2>1, <2>2, <3>1
         DEF FrameType, MeasureInv, CheckInv, SourceInv, SizedInv, LockIsReturned,
             ReadsStayInside, RefusesOnlyTheUnfit
  <2>3. CASE ~Decodes(sample, view)
    <3>1. view.known /\ sample.kind = "sized" => ~Whole(sample)
      BY <2>1, <2>3, WholeDecodes DEF SizedInv
    <3>2. pc' = "unlock" /\ outcome' = "refused"
      BY <1>7, <2>3 DEF Check
    <3>3. (view.known /\ sample.kind = "sized" => ~Whole(sample))'
      BY <2>1, <3>1 DEF Whole, Reported
    <3> QED
      BY <2>1, <3>2, <3>3
         DEF FrameType, MeasureInv, CheckInv, SourceInv, SizedInv, LockIsReturned,
             ReadsStayInside, RefusesOnlyTheUnfit
  <2> QED
    BY <2>2, <2>3
<1>8. CASE CopyRow
  <2>1. /\ sample \in Samples /\ view \in Views /\ pc = "copy" /\ row \in Nat
        /\ row < Rows(sample) /\ Decodes(sample, view)
        /\ row' = row + 1 /\ source' = Source(sample, view, row)
        /\ UNCHANGED <<pc, sample, view, locks, outcome>>
    BY <1>8 DEF CopyRow, FrameType, CheckInv
  <2>2. ReadsStayInside'
    <3> SUFFICES ASSUME view.known, NEW range \in Source(sample, view, row)
                 PROVE  Reported(range.from, range.bytes)
      BY <2>1 DEF ReadsStayInside, Reported
    <3>1. MeasuredFrom(sample, view)
      BY <2>1 DEF MeasureInv
    <3> QED
      BY <2>1, <3>1, CopiedRowInside DEF Reported
  <2>3. row' <= Rows(sample) /\ row' \in Nat
    <3>1. Rows(sample) \in Nat
      BY <2>1, SampleTypes DEF Rows, Nv12Rows
    <3> QED
      BY <2>1, <3>1
  <2> QED
    BY <2>1, <2>2, <2>3
       DEF FrameType, MeasureInv, CheckInv, SourceInv, SizedInv, LockIsReturned,
           RefusesOnlyTheUnfit
<1>9. CASE Normalize
  <2>1. UNCHANGED <<sample, view, row, source, locks>> /\ pc = "copy" /\ pc' = "unlock"
        /\ outcome' \in {"frame", "failed"}
    BY <1>9 DEF Normalize
  <2>2. ReadsStayInside'
    BY <2>1 DEF ReadsStayInside, Reported
  <2> QED
    BY <2>1, <2>2 DEF FrameType, MeasureInv, CheckInv, SourceInv, SizedInv,
                      LockIsReturned, RefusesOnlyTheUnfit
<1>10. CASE Unlock
  <2>1. UNCHANGED <<sample, view, row, source, outcome>> /\ pc = "unlock"
        /\ pc' = "return" /\ locks' = 0
    BY <1>10 DEF Unlock
  <2>2. ReadsStayInside' /\ RefusesOnlyTheUnfit'
    BY <2>1 DEF ReadsStayInside, RefusesOnlyTheUnfit, Reported, Whole
  <2> QED
    BY <2>1, <2>2 DEF FrameType, MeasureInv, CheckInv, SourceInv, SizedInv,
                      LockIsReturned
<1>11. CASE Leave
  BY <1>11 DEF Leave, NoView, Views, FrameType, MeasureInv, CheckInv, SourceInv,
               SizedInv, LockIsReturned, ReadsStayInside, RefusesOnlyTheUnfit
<1>12. CASE UNCHANGED vars
  <2>1. UNCHANGED <<pc, sample, view, row, source, locks, outcome>>
    BY <1>12 DEF vars
  <2>2. ReadsStayInside' /\ RefusesOnlyTheUnfit'
    BY <2>1 DEF ReadsStayInside, RefusesOnlyTheUnfit, Reported, Whole
  <2> QED
    BY <2>1, <2>2 DEF FrameType, MeasureInv, CheckInv, SourceInv, SizedInv,
                      LockIsReturned
<1> QED
  BY <1>1, <1>2, <1>3, <1>4, <1>5, <1>6, <1>7, <1>8, <1>9, <1>10, <1>11, <1>12 DEF Next

LEMMA FrameInvHolds == FrameSpec => []FrameInv
  BY FrameInvInit, FrameInvNext, PTL DEF FrameSpec

-------------------------------------------------------------------------------
(* What the copy loops write.                                              *)

\* A planar destination once so many bytes of either chroma plane are written.
BothPlanes(s, bytes) ==
  LET base == s.height * s.width
      second == base + ChromaRows(s) * ChromaRowBytes(s)
  IN  (0 .. base + bytes - 1) \cup (second .. second + bytes - 1)

\* Bytes of the destination that the first r rows fill.
Filled(s, r) ==
  IF s.format \in Planar /\ r >= s.height
  THEN BothPlanes(s, (r - s.height) * ChromaRowBytes(s))
  ELSE 0 .. r * DestinationRowBytes(s) - 1

FillInv ==
  /\ pc \in {"idle", "lock", "measure", "check"} => written = {}
  /\ pc = "copy" => written = Filled(sample, row)
  /\ FrameIsFilled

\* Sizes of a decodable sample, in numbers.
LEMMA DecodableSizes ==
  ASSUME NEW s \in Samples, NEW v, Decodes(s, v)
  PROVE  /\ s.width \in Nat \ {0} /\ s.height \in Nat \ {0}
         /\ DestinationRowBytes(s) \in Nat
         /\ s.format = "yuv422" => 2 * (s.width \div 2) = s.width
         /\ s.format \in Planar =>
              /\ ChromaRows(s) \in Nat /\ s.height = 2 * ChromaRows(s)
              /\ ChromaRowBytes(s) \in Nat /\ s.width = 2 * ChromaRowBytes(s)
              /\ Rows(s) = s.height + ChromaRows(s)
         /\ Rows(s) \in Nat
<1>1. s.width \in Nat \ {0} /\ s.height \in Nat \ {0}
  BY PresentSizes
<1>2. s.format = "yuv422" => s.width % 2 = 0
  BY DEF Decodes, DecodesPacked, Packed, Planar
<1>3. s.format \in Planar => s.width % 2 = 0 /\ s.height % 2 = 0
  BY DEF Decodes, DecodesPlanar, EvenTopDown, Packed, Planar
<1>4. QED
  BY <1>1, <1>2, <1>3 DEF DestinationRowBytes, ChromaRows, ChromaRowBytes, Rows, Nv12Rows

\* A row that is copied whole fills the next bytes of the destination.
LEMMA StraightRowFills ==
  ASSUME NEW s \in Samples, NEW v, Decodes(s, v), NEW r \in Nat,
         ~(s.format \in Planar /\ r >= s.height)
  PROVE  Filled(s, r) \cup Destination(s, r) = 0 .. (r + 1) * DestinationRowBytes(s) - 1
<1> DEFINE bytes == DestinationRowBytes(s)
<1>1. bytes \in Nat /\ s.width \in Nat
  BY DecodableSizes
<1>2. Destination(s, r) = r * bytes .. r * bytes + bytes - 1
  <2>1. CASE s.format \in Packed
    <3>1. Destination(s, r) = PackedRowWritten(s, r) /\ bytes = 3 * s.width
      BY <2>1 DEF Destination, DestinationRowBytes
    <3>2. s.format = "yuv422" => 2 * (s.width \div 2) = s.width
      BY DecodableSizes
    <3>3. QED
      BY <3>1, <3>2 DEF PackedRowWritten
  <2>2. CASE s.format \notin Packed
    BY <2>2 DEF Destination, PlanarRowWritten, DestinationRowBytes
  <2>3. QED
    BY <2>1, <2>2
<1>3. Filled(s, r) = 0 .. r * bytes - 1
  BY DEF Filled
<1> HIDE DEF bytes
<1>4. r * bytes \in Nat /\ (r + 1) * bytes = r * bytes + bytes
  BY <1>1
<1>5. QED
  <2>1. r * bytes <= r * bytes + bytes /\ r * bytes + bytes \in Nat
    BY <1>1, <1>4
  <2> DEFINE n == r * bytes
  <2>2. n \in Nat /\ n + bytes \in Nat /\ n <= n + bytes
    BY <1>4, <2>1
  <2> HIDE DEF n
  <2>3. (0 .. n - 1) \cup (n .. n + bytes - 1) = 0 .. n + bytes - 1
    BY <1>1, <2>2
  <2>4. Filled(s, r) \cup Destination(s, r) = 0 .. n + bytes - 1
    BY <1>2, <1>3, <2>3 DEF n
  <2>5. (r + 1) * bytes - 1 = n + bytes - 1
    BY <1>1, <1>4, <2>2 DEF n
  <2>6. Filled(s, r) \cup Destination(s, r) = 0 .. (r + 1) * bytes - 1
    BY <2>4, <2>5
  <2>7. QED
    BY <2>6 DEF bytes

\* The two rows of a chroma step fill the next bytes of either plane.
LEMMA ChromaRowFills ==
  ASSUME NEW s \in Samples, NEW v, Decodes(s, v), NEW r \in Nat,
         s.format \in Planar, r >= s.height
  PROVE  Filled(s, r) \cup Destination(s, r) = Filled(s, r + 1)
<1> DEFINE base == s.height * s.width
           n == (r - s.height) * ChromaRowBytes(s)
           step == ChromaRowBytes(s)
           second == base + ChromaRows(s) * ChromaRowBytes(s)
<1>1. /\ s.width \in Nat /\ s.height \in Nat /\ r - s.height \in Nat
      /\ step \in Nat /\ ChromaRows(s) \in Nat
  BY DecodableSizes
<1>2. base \in Nat /\ n \in Nat /\ second \in Nat
  <2>1. base \in Nat /\ ChromaRows(s) * ChromaRowBytes(s) \in Nat /\ n \in Nat
    BY <1>1
  <2>2. QED
    BY <2>1
<1>3. Filled(s, r) = (0 .. base + n - 1) \cup (second .. second + n - 1)
  BY DEF Filled, BothPlanes
<1>4. Filled(s, r + 1) = (0 .. base + n + step - 1) \cup (second .. second + n + step - 1)
  <2>1. ((r + 1) - s.height) * step = n + step
    <3>1. (r + 1) - s.height = (r - s.height) + 1
      BY <1>1
    <3>2. ((r - s.height) + 1) * step = (r - s.height) * step + step
      BY <1>1
    <3>3. QED
      BY <3>1, <3>2
  <2>2. r + 1 >= s.height
    BY <1>1
  <2>3. Filled(s, r + 1) = BothPlanes(s, ((r + 1) - s.height) * step)
    BY <2>2 DEF Filled
  <2>4. BothPlanes(s, n + step)
          = (0 .. base + (n + step) - 1) \cup (second .. second + (n + step) - 1)
    BY Zenon DEF BothPlanes
  <2> HIDE DEF n, base, second, step
  <2>5. base + (n + step) - 1 = base + n + step - 1
        /\ second + (n + step) - 1 = second + n + step - 1
    BY <1>1, <1>2
  <2>6. QED
    BY <2>1, <2>3, <2>4, <2>5
<1>5. Destination(s, r) = (base + n .. base + n + step - 1)
                            \cup (second + n .. second + n + step - 1)
  <2>1. Destination(s, r) = ChromaRowWritten(s, 0, r - s.height)
                              \cup ChromaRowWritten(s, 1, r - s.height)
    BY DEF Destination, Packed, Planar
  <2>2. ChromaRowWritten(s, 0, r - s.height) = base + n .. base + n + step - 1
    <3>1. 0 * ChromaRows(s) + (r - s.height) = r - s.height
      BY <1>1
    <3>2. QED
      BY <3>1 DEF ChromaRowWritten
  <2>3. ChromaRowWritten(s, 1, r - s.height) = second + n .. second + n + step - 1
    <3>1. (1 * ChromaRows(s) + (r - s.height)) * step = ChromaRows(s) * step + n
      BY <1>1
    <3>2. base + (ChromaRows(s) * step + n) = second + n
      BY <1>1, <1>2
    <3>3. QED
      BY <3>1, <3>2 DEF ChromaRowWritten
  <2>4. QED
    BY <2>1, <2>2, <2>3
<1> HIDE DEF base, n, step, second
<1>6. (0 .. base + n - 1) \cup (base + n .. base + n + step - 1) = 0 .. base + n + step - 1
  <2>1. base + n \in Nat /\ base + n + step \in Nat /\ base + n <= base + n + step
    BY <1>1, <1>2
  <2>2. QED
    BY <1>1, <1>2, <2>1
<1>7. (second .. second + n - 1) \cup (second + n .. second + n + step - 1)
        = second .. second + n + step - 1
  <2>1. second + n \in Nat /\ second + n + step \in Nat /\ second <= second + n
        /\ second + n <= second + n + step
    BY <1>1, <1>2
  <2>2. QED
    BY <1>1, <1>2, <2>1
<1>8. QED
  BY <1>3, <1>4, <1>5, <1>6, <1>7

\* Where the straight rows of a planar sample end, either form is the same.
LEMMA FilledAtChroma ==
  ASSUME NEW s \in Samples, NEW v, Decodes(s, v), s.format \in Planar
  PROVE  Filled(s, s.height) = 0 .. s.height * DestinationRowBytes(s) - 1
<1>1. /\ s.width \in Nat /\ s.height \in Nat
      /\ ChromaRows(s) \in Nat /\ ChromaRowBytes(s) \in Nat
      /\ DestinationRowBytes(s) = s.width
  <2>1. DestinationRowBytes(s) = s.width
    BY DEF DestinationRowBytes, Packed, Planar
  <2> QED BY <2>1, DecodableSizes
<1>2. Filled(s, s.height) = BothPlanes(s, (s.height - s.height) * ChromaRowBytes(s))
  BY <1>1 DEF Filled
<1>3. (s.height - s.height) * ChromaRowBytes(s) = 0
  BY <1>1
<1>4. BothPlanes(s, 0)
        = (0 .. s.height * s.width + 0 - 1)
            \cup (s.height * s.width + ChromaRows(s) * ChromaRowBytes(s) ..
                  s.height * s.width + ChromaRows(s) * ChromaRowBytes(s) + 0 - 1)
  BY DEF BothPlanes
<1> DEFINE base == s.height * s.width
           second == base + ChromaRows(s) * ChromaRowBytes(s)
<1>5. base \in Nat /\ second \in Nat
  <2>1. base \in Nat /\ ChromaRows(s) * ChromaRowBytes(s) \in Nat
    BY <1>1
  <2> QED BY <2>1
<1>6. BothPlanes(s, 0) = (0 .. base + 0 - 1) \cup (second .. second + 0 - 1)
  BY <1>4
<1> HIDE DEF base, second
<1>7. (0 .. base + 0 - 1) \cup (second .. second + 0 - 1) = 0 .. base - 1
  BY <1>5
<1>8. Filled(s, s.height) = 0 .. base - 1
  BY <1>2, <1>3, <1>6, <1>7
<1> QED
  BY <1>1, <1>8 DEF base

\* One iteration of the copy loop, of either kind.
LEMMA RowFills ==
  ASSUME NEW s \in Samples, NEW v, Decodes(s, v), NEW r \in Nat
  PROVE  Filled(s, r) \cup Destination(s, r) = Filled(s, r + 1)
<1>1. s.height \in Nat
  BY DecodableSizes
<1>2. CASE s.format \in Planar /\ r >= s.height
  BY <1>2, ChromaRowFills
<1>3. CASE ~(s.format \in Planar /\ r >= s.height)
  <2>1. Filled(s, r) \cup Destination(s, r) = 0 .. (r + 1) * DestinationRowBytes(s) - 1
    BY <1>3, StraightRowFills
  <2>2. CASE s.format \in Planar /\ r + 1 >= s.height
    <3>1. r + 1 = s.height
      BY <1>1, <1>3, <2>2
    <3> QED
      BY <2>1, <2>2, <3>1, FilledAtChroma
  <2>3. CASE ~(s.format \in Planar /\ r + 1 >= s.height)
    BY <2>1, <2>3 DEF Filled
  <2> QED
    BY <2>2, <2>3
<1> QED
  BY <1>2, <1>3

\* Nothing is filled before the first row.
LEMMA NothingFilled ==
  ASSUME NEW s \in Samples, NEW v, Decodes(s, v)
  PROVE  Filled(s, 0) = {}
<1>1. /\ s.height \in Nat \ {0} /\ DestinationRowBytes(s) \in Nat
  BY DecodableSizes
<1>2. Filled(s, 0) = 0 .. 0 * DestinationRowBytes(s) - 1
  BY <1>1 DEF Filled
<1>3. 0 * DestinationRowBytes(s) = 0
  BY <1>1
<1> QED
  BY <1>2, <1>3

\* The rows of a sample fill the destination and nothing else; the two chroma
\* planes fill half as many bytes again as the luminance plane.
LEMMA RowsFillAll ==
  ASSUME NEW s \in Samples, NEW v, Decodes(s, v)
  PROVE  /\ Filled(s, Rows(s)) = 0 .. DestinationBytes(s) - 1
         /\ \A r \in 0 .. Rows(s) : Filled(s, r) \subseteq 0 .. DestinationBytes(s) - 1
<1>1. /\ s.width \in Nat /\ s.height \in Nat \ {0} /\ Rows(s) \in Nat
      /\ DestinationRowBytes(s) \in Nat
  BY DecodableSizes
<1>2. CASE s.format \in Planar
  <2> DEFINE c == ChromaRows(s)
             b == ChromaRowBytes(s)
             base == s.height * s.width
             half == c * b
             second == base + half
  <2>1. /\ c \in Nat /\ b \in Nat /\ s.height = 2 * c /\ s.width = 2 * b
        /\ Rows(s) = s.height + c /\ DestinationRowBytes(s) = s.width
    <3>1. DestinationRowBytes(s) = s.width
      BY <1>2 DEF DestinationRowBytes, Packed, Planar
    <3> QED BY <1>2, <3>1, DecodableSizes
  <2>2. base \in Nat /\ half \in Nat /\ second \in Nat
    <3>1. base \in Nat /\ half \in Nat
      BY <1>1, <2>1
    <3> QED BY <3>1
  <2>3. DestinationBytes(s) = second + half
    <3>1. DestinationBytes(s) = (s.height + c) * s.width
      BY <2>1 DEF DestinationBytes
    <3>2. (s.height + c) * s.width = base + c * s.width
      BY <1>1, <2>1
    <3>3. c * s.width = half + half
      BY <2>1
    <3> QED
      BY <2>2, <3>1, <3>2, <3>3
  <2>4. ASSUME NEW r \in s.height .. Rows(s)
        PROVE  LET n == (r - s.height) * b
               IN  /\ Filled(s, r) = (0 .. base + n - 1) \cup (second .. second + n - 1)
                   /\ n \in 0 .. half
    <3>1. r - s.height \in Nat /\ r - s.height <= c /\ r >= s.height
      BY <1>1, <2>1, <2>4
    <3>2. (r - s.height) * b <= c * b /\ (r - s.height) * b \in Nat
      BY <2>1, <3>1, Monotone
    <3>3. Filled(s, r) = BothPlanes(s, (r - s.height) * b)
      BY <1>2, <3>1 DEF Filled
    <3>4. BothPlanes(s, (r - s.height) * b)
            = (0 .. base + (r - s.height) * b - 1)
                \cup (second .. second + (r - s.height) * b - 1)
      BY DEF BothPlanes
    <3> QED
      BY <2>2, <3>2, <3>3, <3>4
  <2>5. ASSUME NEW r \in 0 .. Rows(s), r < s.height
        PROVE  /\ Filled(s, r) = 0 .. r * s.width - 1
               /\ r * s.width \in 0 .. base
    <3>1. r * s.width <= s.height * s.width /\ r * s.width \in Nat
      BY <1>1, <2>5, Monotone
    <3>2. ~(r >= s.height)
      BY <1>1, <2>5
    <3> QED
      BY <2>1, <2>2, <3>1, <3>2 DEF Filled
  <2>6. Filled(s, Rows(s)) = 0 .. DestinationBytes(s) - 1
    <3>1. Rows(s) \in s.height .. Rows(s) /\ (Rows(s) - s.height) * b = half
      <4>1. Rows(s) \in s.height .. Rows(s)
        BY <1>1, <2>1
      <4>2. Rows(s) - s.height = c
        BY <1>1, <2>1
      <4> QED BY <4>1, <4>2
    <3>2. Filled(s, Rows(s)) = (0 .. base + half - 1) \cup (second .. second + half - 1)
      BY <2>4, <3>1
    <3> HIDE DEF half, base
    <3>3. (0 .. base + half - 1) \cup (second .. second + half - 1) = 0 .. second + half - 1
      BY <2>2
    <3>4. DestinationBytes(s) - 1 = second + half - 1
      BY <2>2, <2>3
    <3> QED
      BY <3>2, <3>3, <3>4
  <2>7. ASSUME NEW r \in 0 .. Rows(s)
        PROVE  Filled(s, r) \subseteq 0 .. DestinationBytes(s) - 1
    <3>1. CASE r < s.height
      <4>1. Filled(s, r) = 0 .. r * s.width - 1 /\ r * s.width \in 0 .. base
        BY <2>5, <2>7, <3>1
      <4> HIDE DEF base, half
      <4> QED
        BY <2>2, <2>3, <4>1
    <3>2. CASE ~(r < s.height)
      <4>1. r \in s.height .. Rows(s)
        BY <1>1, <2>7, <3>2
      <4> DEFINE n == (r - s.height) * b
      <4>2. /\ Filled(s, r) = (0 .. base + n - 1) \cup (second .. second + n - 1)
            /\ n \in 0 .. half
        BY <2>4, <4>1
      <4> HIDE DEF base, half, n
      <4> QED
        BY <2>2, <2>3, <4>2
    <3> QED
      BY <3>1, <3>2
  <2> QED
    BY <2>6, <2>7
<1>3. CASE s.format \notin Planar
  <2>1. \A r \in 0 .. Rows(s) : Filled(s, r) = 0 .. r * DestinationRowBytes(s) - 1
    BY <1>3 DEF Filled
  <2>2. Rows(s) \in 0 .. Rows(s)
    BY <1>1
  <2>3. Filled(s, Rows(s)) = 0 .. DestinationBytes(s) - 1
    BY <2>1, <2>2 DEF DestinationBytes
  <2>4. ASSUME NEW r \in 0 .. Rows(s)
        PROVE  Filled(s, r) \subseteq 0 .. DestinationBytes(s) - 1
    <3> DEFINE part == r * DestinationRowBytes(s)
               whole == Rows(s) * DestinationRowBytes(s)
    <3>1. part <= whole /\ part \in Nat /\ whole \in Nat
      BY <1>1, <2>4, Monotone
    <3>2. Filled(s, r) = 0 .. part - 1
      BY <2>1, <2>4
    <3>3. DestinationBytes(s) = whole
      BY DEF DestinationBytes
    <3> HIDE DEF part, whole
    <3> QED
      BY <3>1, <3>2, <3>3
  <2> QED
    BY <2>3, <2>4
<1> QED
  BY <1>2, <1>3

LEMMA FillInvInit == Init => FillInv
  BY DEF Init, FillInv, FrameIsFilled

LEMMA FillInvNext == FrameInv /\ FillInv /\ [Next]_vars => FillInv'
<1> SUFFICES ASSUME FrameInv, FillInv, [Next]_vars PROVE FillInv'
  OBVIOUS
<1> USE DEF FillInv, FrameIsFilled
<1>1. ASSUME written = {}, written' = {}, outcome' # "frame",
             pc' \in {"idle", "lock", "measure", "check", "unlock", "return"}
      PROVE  FillInv'
  BY <1>1
<1>2. pc \in {"lock", "measure", "check"} => written = {} /\ outcome = "none"
  BY DEF FrameInv, SizedInv
<1>3. CASE Deliver
  BY <1>3 DEF Deliver, FrameInv, SizedInv
<1>4. CASE LockFails \/ NoPackedStride
  BY <1>1, <1>2, <1>4 DEF LockFails, NoPackedStride, Return
<1>5. CASE Lock2DSize \/ Lock2D \/ LockFlat
  BY <1>1, <1>2, <1>5 DEF Lock2DSize, Lock2D, LockFlat, Locked
<1>6. CASE Measure
  BY <1>1, <1>2, <1>6 DEF Measure
<1>7. CASE Check
  <2>1. written = {} /\ written' = {} /\ outcome' # "frame" /\ row' = row
        /\ sample' = sample /\ pc' \in {"copy", "unlock"}
    BY <1>2, <1>7 DEF Check
  <2>2. CASE pc' = "copy"
    <3>1. sample \in Samples /\ row = 0 /\ Decodes(sample, view)
      BY <1>7, <2>2 DEF Check, FrameInv, FrameType, SourceInv
    <3>2. Filled(sample, row) = {}
      BY <3>1, NothingFilled
    <3>3. Filled(sample', row') = {}
      BY <2>1, <3>2
    <3> QED
      BY <2>1, <2>2, <3>3
  <2>3. CASE pc' = "unlock"
    BY <1>1, <2>1, <2>3
  <2> QED
    BY <2>1, <2>2, <2>3
<1>8. CASE CopyRow
  <2>1. /\ sample \in Samples /\ row \in Nat /\ Decodes(sample, view)
        /\ row < Rows(sample) /\ pc = "copy" /\ pc' = "copy" /\ outcome = "none"
        /\ written' = written \cup Destination(sample, row)
        /\ row' = row + 1 /\ UNCHANGED <<sample, outcome>>
    BY <1>8 DEF CopyRow, FrameInv, FrameType, CheckInv, SizedInv
  <2>2. written' = Filled(sample, row + 1)
    BY <2>1, RowFills
  <2>3. row + 1 \in 0 .. Rows(sample)
    <3>1. Rows(sample) \in Nat
      BY <2>1, DecodableSizes
    <3> QED
      BY <2>1, <3>1
  <2>4. written' \subseteq 0 .. DestinationBytes(sample) - 1
    BY <2>1, <2>2, <2>3, RowsFillAll
  <2>5. written' = Filled(sample', row')
        /\ written' \subseteq 0 .. DestinationBytes(sample') - 1
    BY <2>1, <2>2, <2>4
  <2> QED
    BY <2>1, <2>5
<1>9. CASE Normalize
  <2>1. /\ sample \in Samples /\ Decodes(sample, view) /\ row = Rows(sample)
        /\ written = Filled(sample, row) /\ pc' = "unlock"
        /\ UNCHANGED <<sample, written>>
    BY <1>9 DEF Normalize, FrameInv, FrameType, CheckInv
  <2>2. written = 0 .. DestinationBytes(sample) - 1
    BY <2>1, RowsFillAll
  <2>3. written' = 0 .. DestinationBytes(sample') - 1
    BY <2>1, <2>2
  <2> QED
    BY <2>1, <2>3
<1>10. CASE Unlock
  <2>1. pc' = "return" /\ UNCHANGED <<sample, written, outcome>>
    BY <1>10 DEF Unlock
  <2>2. FrameIsFilled'
    BY <2>1 DEF DestinationBytes, DestinationRowBytes, Rows, Nv12Rows
  <2> QED
    BY <2>1, <2>2
<1>11. CASE Leave
  BY <1>11 DEF Leave
<1>12. CASE UNCHANGED vars
  <2>1. UNCHANGED <<pc, sample, row, written, outcome>>
    BY <1>12 DEF vars
  <2>2. FrameIsFilled'
    BY <2>1 DEF DestinationBytes, DestinationRowBytes, Rows, Nv12Rows
  <2>3. pc' = "copy" => written' = Filled(sample', row')
    BY <2>1
  <2> QED
    BY <2>1, <2>2, <2>3
<1> QED
  BY <1>3, <1>4, <1>5, <1>6, <1>7, <1>8, <1>9, <1>10, <1>11, <1>12 DEF Next

-------------------------------------------------------------------------------
\* No copy loop of convert_sample reads outside the range its lock reported.
THEOREM ReadsStayInsideHolds == FrameSpec => []ReadsStayInside
<1>1. FrameInv => ReadsStayInside
  BY DEF FrameInv
<1> QED
  BY <1>1, FrameInvHolds, PTL

\* The checks of convert_sample refuse only what could not be decoded.
THEOREM RefusesOnlyTheUnfitHolds == FrameSpec => []RefusesOnlyTheUnfit
<1>1. FrameInv => RefusesOnlyTheUnfit
  BY DEF FrameInv
<1> QED
  BY <1>1, FrameInvHolds, PTL

\* Each path of convert_sample releases its lock exactly once.
THEOREM LockIsReturnedHolds == FrameSpec => []LockIsReturned
<1>1. FrameInv => LockIsReturned
  BY DEF FrameInv
<1> QED
  BY <1>1, FrameInvHolds, PTL

\* A frame that is returned was written whole, and nothing beyond it was.
THEOREM FrameIsFilledHolds == FrameSpec => []FrameIsFilled
<1>1. FrameSpec => [](FrameInv /\ FillInv)
  BY FrameInvInit, FrameInvNext, FillInvInit, FillInvNext, PTL DEF FrameSpec
<1>2. FrameInv /\ FillInv => FrameIsFilled
  BY DEF FillInv
<1> QED
  BY <1>1, <1>2, PTL
===============================================================================
