----------------------------- MODULE FrameConvert -----------------------------
(***************************************************************************)
(* UvcCameraBackend::Impl::convert_sample: how a Media Foundation sample   *)
(* is locked, measured, checked and copied row by row into a frame         *)
(* (uvc_backend.cpp, uvc_frame_convert.cpp and uvc_frame_math.h).          *)
(*                                                                         *)
(* A sample is whatever the capture pipeline may deliver: its pitch, its   *)
(* scanline and the range of bytes its lock reports are unrelated to one   *)
(* another.  Addresses and lengths are numbers of std::size_t, which ends  *)
(* at SizeMax; a checked multiplication or addition fails exactly when its *)
(* result lies outside Size.  Pixel values are left out: the model follows *)
(* which bytes are read and which bytes of the frame are written.          *)
(***************************************************************************)
EXTENDS Integers

CONSTANTS
  SizeMax,     \* the largest std::size_t
  PitchLimit,  \* the magnitude of the smallest pitch, INT32_MIN
  MaxDim,      \* k_max_locked_dimension, k_max_frame_dimension
  Dimensions,  \* widths and heights of the media type; 0 if it has no frame size
  Magnitudes,  \* magnitudes of the pitches a lock may report
  Addresses,   \* addresses a lock may report, 0 is the null pointer
  Lengths      \* lengths a lock may report

ASSUME FrameAssumption ==
  /\ SizeMax \in Nat /\ PitchLimit \in Nat /\ MaxDim \in Nat
  /\ Dimensions \subseteq Nat
  /\ Magnitudes \subseteq 0 .. PitchLimit
  /\ Addresses \subseteq 0 .. SizeMax
  /\ Lengths \subseteq 0 .. SizeMax

VARIABLES
  pc,       \* where convert_sample is
  sample,   \* the sample it converts
  view,     \* Locked2DBufferView: what the lock gave and what was measured
  row,      \* the next row to copy
  source,   \* the byte ranges the last copied row was read from
  written,  \* the bytes of the destination written so far
  locks,    \* locks held on the sample's buffer
  outcome   \* "none", "refused" by a check, "failed" in a call, or "frame"

vars == <<pc, sample, view, row, source, written, locks, outcome>>

Size == 0 .. SizeMax

Magnitude(pitch) == IF pitch < 0 THEN -pitch ELSE pitch

(* yuy2 and uyvy, rgb32 and argb32 differ only in the pixel values. *)
Packed == {"rgb24", "rgbx32", "yuv422"}
Planar == {"i420", "yv12"}
Formats == Packed \cup Planar \cup {"nv12", "l8"}

(* A pitch is an int32: the smallest has no positive counterpart. *)
Pitches == {p \in -PitchLimit .. PitchLimit - 1 : Magnitude(p) \in Magnitudes}

(* "sized" exposes IMF2DBuffer2, "unsized" only IMF2DBuffer, "flat" neither. *)
Samples == [kind : {"sized", "unsized", "flat"}, format : Formats,
            width : Dimensions, height : Dimensions, scanline0 : Addresses,
            pitch : Pitches, start : Addresses, length : Lengths]

NoSample == [kind |-> "none"]
NoView == [scanline0 |-> 0, pitch |-> 0, known |-> FALSE, accessible |-> 0]

-------------------------------------------------------------------------------
(* uvc_frame_math.h *)

BytesPerPixel ==
  [f \in Formats |-> IF f = "rgb24" THEN 3 ELSE IF f = "rgbx32" THEN 4
                     ELSE IF f = "yuv422" THEN 2 ELSE 1]

RowBytes(s) == s.width * BytesPerPixel[s.format]

(* Mutant: a bottom-up view is measured from its top row. *)
DescentIgnored(s) == 0

(* How far below scanline0 the rows of a bottom-up view reach. *)
Descent(s) == IF s.pitch < 0 THEN (s.height - 1) * Magnitude(s.pitch) ELSE 0

LowestAddressed(s) == s.scanline0 - Descent(s)

(* lock_accessible_extent succeeds: the reported range holds its lowest row. *)
Measurable(s) ==
  /\ s.start # 0
  /\ s.height # 0
  /\ s.pitch # -PitchLimit
  /\ Descent(s) <= s.scanline0
  /\ s.length # 0
  /\ s.start <= LowestAddressed(s)
  /\ s.start + s.length \in Size
  /\ LowestAddressed(s) < s.start + s.length

(* Mutant: the reported length is taken from the wrong end. *)
AccessibleFromStart(s) == s.length - Descent(s)

AccessibleExtent(s) == s.start + s.length - LowestAddressed(s)

FromLowest(s, v, r) == IF v.pitch < 0 THEN s.height - 1 - r ELSE r

PackedRowFits(s, v, r) ==
  FromLowest(s, v, r) * Magnitude(v.pitch) + RowBytes(s) <= v.accessible

-------------------------------------------------------------------------------
(* The checks of each decoder, in the order of the code. *)

RowRegion(s, v) == (s.height - 1) * Magnitude(v.pitch) + RowBytes(s)

DecodesPacked(s, v) ==
  /\ s.format = "yuv422" => s.width % 2 = 0
  /\ v.pitch # 0
  /\ v.pitch # -PitchLimit
  /\ RowBytes(s) <= Magnitude(v.pitch)
  /\ RowRegion(s, v) \in Size
  /\ v.known => /\ RowRegion(s, v) <= v.accessible
                /\ \A r \in 0 .. s.height - 1 : PackedRowFits(s, v, r)

EvenTopDown(s, v) ==
  /\ s.width % 2 = 0 /\ s.height % 2 = 0
  /\ 0 < v.pitch /\ v.pitch % 2 = 0

Nv12Rows(s) == s.height + s.height \div 2

DecodesNv12(s, v) ==
  /\ EvenTopDown(s, v)
  /\ (Nv12Rows(s) - 1) * v.pitch + s.width \in Size
  /\ v.known => \A r \in 0 .. Nv12Rows(s) - 1 :
                  r * v.pitch + s.width <= v.accessible

ChromaBase(s, v) == s.height * v.pitch
ChromaStride(v) == v.pitch \div 2
ChromaRowBytes(s) == s.width \div 2
ChromaRows(s) == s.height \div 2

PlanarExtent(s, v) ==
  ChromaBase(s, v) + (s.height - 1) * ChromaStride(v) + ChromaRowBytes(s)

DecodesPlanar(s, v) ==
  /\ EvenTopDown(s, v)
  /\ PlanarExtent(s, v) \in Size
  /\ v.known =>
       /\ PlanarExtent(s, v) <= v.accessible
       /\ \A r \in 0 .. s.height - 1 : r * v.pitch + s.width <= v.accessible
       /\ \A r \in 0 .. ChromaRows(s) - 1 :
            ChromaBase(s, v) + r * ChromaStride(v) + ChromaRowBytes(s)
              <= v.accessible

(* An L8 frame takes a path of its own: convert_luma_buffer. *)
DecodesLuma(s, v) ==
  /\ RowBytes(s) <= Magnitude(v.pitch)
  /\ RowRegion(s, v) \in Size
  /\ v.accessible # 0 => RowRegion(s, v) <= v.accessible

Decodes(s, v) ==
  /\ v.scanline0 # 0
  /\ s.width # 0 /\ s.height # 0
  /\ s.width <= MaxDim /\ s.height <= MaxDim
  /\ \/ s.format \in Packed /\ DecodesPacked(s, v)
     \/ s.format = "nv12" /\ DecodesNv12(s, v)
     \/ s.format \in Planar /\ DecodesPlanar(s, v)
     \/ s.format = "l8" /\ DecodesLuma(s, v)

-------------------------------------------------------------------------------
(* The copy loops: which bytes iteration r reads and which it writes. *)

Rows(s) == IF s.format \in Planar \cup {"nv12"} THEN Nv12Rows(s) ELSE s.height

RowAddress(v, r) == v.scanline0 + r * v.pitch

(* Address of row r of the first or the second chroma plane. *)
ChromaAddress(s, v, plane, r) ==
  v.scanline0 + ChromaBase(s, v)
    + (plane * ChromaRows(s) + r) * ChromaStride(v)

Source(s, v, r) ==
  IF s.format \in Planar /\ r >= s.height
  THEN {[from |-> ChromaAddress(s, v, plane, r - s.height),
         bytes |-> ChromaRowBytes(s)] : plane \in {0, 1}}
  ELSE {[from |-> RowAddress(v, r), bytes |-> RowBytes(s)]}

(* Packed rows go to the frame itself, the others to an 8-bit cv::Mat. *)
DestinationRowBytes(s) ==
  IF s.format \in Packed THEN 3 * s.width ELSE s.width

DestinationBytes(s) == Rows(s) * DestinationRowBytes(s)

(* 4:2:2 columns are converted in pairs. *)
PackedRowWritten(s, r) ==
  LET columns == IF s.format = "yuv422" THEN 2 * (s.width \div 2) ELSE s.width
  IN  r * DestinationRowBytes(s) .. r * DestinationRowBytes(s) + 3 * columns - 1

PlanarRowWritten(s, r) == r * s.width .. r * s.width + s.width - 1

(* Mutant: a full-width destination row per chroma row. *)
ChromaRowWrittenFull(s, plane, r) ==
  LET first == s.height * s.width + (plane * ChromaRows(s) + r) * s.width
  IN  first .. first + s.width - 1

ChromaRowWritten(s, plane, r) ==
  LET first == s.height * s.width
                 + (plane * ChromaRows(s) + r) * ChromaRowBytes(s)
  IN  first .. first + ChromaRowBytes(s) - 1

Destination(s, r) ==
  IF s.format \in Packed THEN PackedRowWritten(s, r)
  ELSE IF s.format \in Planar /\ r >= s.height
       THEN UNION {ChromaRowWritten(s, plane, r - s.height) : plane \in {0, 1}}
       ELSE PlanarRowWritten(s, r)

-------------------------------------------------------------------------------
Init ==
  /\ pc = "idle" /\ sample = NoSample /\ view = NoView
  /\ row = 0 /\ source = {} /\ written = {}
  /\ locks = 0 /\ outcome = "none"

(* The reader hands a sample to convert_sample. *)
Deliver ==
  /\ pc = "idle"
  /\ pc' = "lock" /\ sample' \in Samples
  /\ UNCHANGED <<view, row, source, written, locks, outcome>>

(* convert_sample returns without a lock to release. *)
Return(result) ==
  /\ pc' = "return" /\ outcome' = result
  /\ UNCHANGED <<sample, view, row, source, written, locks>>

Locked(v, next) ==
  /\ locks' = locks + 1 /\ view' = v /\ pc' = next
  /\ UNCHANGED <<sample, row, source, written>>

(* ConvertToContiguousBuffer, Lock2D or Lock fails. *)
LockFails == pc = "lock" /\ Return("failed")

Lock2DSize ==
  /\ pc = "lock" /\ sample.kind = "sized"
  /\ Locked([scanline0 |-> sample.scanline0, pitch |-> sample.pitch,
             known |-> TRUE, accessible |-> 0], "measure")
  /\ UNCHANGED outcome

(* Also the fallback of a sample whose Lock2DSize failed. *)
Lock2D ==
  /\ pc = "lock" /\ sample.kind \in {"sized", "unsized"}
  /\ Locked([scanline0 |-> sample.scanline0, pitch |-> sample.pitch,
             known |-> FALSE, accessible |-> 0], "check")
  /\ UNCHANGED outcome

(* packed_stride_for knows no stride for a planar subtype. *)
NoPackedStride ==
  /\ pc = "lock" /\ sample.kind = "flat"
  /\ sample.format \notin Packed \cup {"l8"}
  /\ Return("refused")

LockFlat ==
  /\ pc = "lock" /\ sample.kind = "flat"
  /\ sample.format \in Packed \cup {"l8"}
  /\ Locked([scanline0 |-> sample.start, pitch |-> RowBytes(sample),
             known |-> TRUE, accessible |-> sample.length],
            IF sample.length = 0 THEN "unlock" ELSE "check")
  /\ outcome' = IF sample.length = 0 THEN "refused" ELSE outcome

(* Mutant: the refused range returns without Unlock2D. *)
MeasureKeepingLock ==
  /\ pc = "measure"
  /\ \/ /\ Measurable(sample)
        /\ view' = [view EXCEPT !.accessible = AccessibleExtent(sample)]
        /\ pc' = "check"
        /\ UNCHANGED outcome
     \/ /\ ~Measurable(sample)
        /\ pc' = "return" /\ outcome' = "refused"
        /\ UNCHANGED view
  /\ UNCHANGED <<sample, row, source, written, locks>>

(* accessible_extent_from_lock_start, after the test for an empty buffer. *)
Measure ==
  /\ pc = "measure"
  /\ \/ /\ Measurable(sample)
        /\ view' = [view EXCEPT !.accessible = AccessibleExtent(sample)]
        /\ pc' = "check"
        /\ UNCHANGED outcome
     \/ /\ ~Measurable(sample)
        /\ pc' = "unlock" /\ outcome' = "refused"
        /\ UNCHANGED view
  /\ UNCHANGED <<sample, row, source, written, locks>>

Check ==
  /\ pc = "check"
  /\ \/ Decodes(sample, view) /\ pc' = "copy" /\ UNCHANGED outcome
     \/ ~Decodes(sample, view) /\ pc' = "unlock" /\ outcome' = "refused"
  /\ UNCHANGED <<sample, view, row, source, written, locks>>

CopyRow ==
  /\ pc = "copy" /\ row < Rows(sample)
  /\ source' = Source(sample, view, row)
  /\ written' = written \cup Destination(sample, row)
  /\ row' = row + 1
  /\ UNCHANGED <<pc, sample, view, locks, outcome>>

(* cvtColor and the resize to the configured size, which may throw. *)
Normalize ==
  /\ pc = "copy" /\ row = Rows(sample)
  /\ outcome' \in {"frame", "failed"}
  /\ pc' = "unlock"
  /\ UNCHANGED <<sample, view, row, source, written, locks>>

Unlock ==
  /\ pc = "unlock"
  /\ locks' = locks - 1 /\ pc' = "return"
  /\ UNCHANGED <<sample, view, row, source, written, outcome>>

(* The caller has its answer; nothing of this sample is kept. *)
Leave ==
  /\ pc = "return"
  /\ pc' = "idle" /\ sample' = NoSample /\ view' = NoView
  /\ row' = 0 /\ source' = {} /\ written' = {} /\ outcome' = "none"
  /\ UNCHANGED locks

Next ==
  \/ Deliver
  \/ LockFails \/ Lock2DSize \/ Lock2D \/ NoPackedStride \/ LockFlat
  \/ Measure \/ Check \/ CopyRow \/ Normalize \/ Unlock \/ Leave

FrameSpec == Init /\ [][Next]_vars

-------------------------------------------------------------------------------
(* The bytes the lock reported, whatever lock it was. *)
Reported(address, bytes) ==
  /\ sample.start <= address
  /\ address + bytes <= sample.start + sample.length

(* No row is read outside the range of bytes that the lock of the sample    *)
(* reported, whatever sign and size its pitch has and wherever its top row  *)
(* lies: decode_locked_buffer_to_bgr8 and convert_luma_buffer.              *)
ReadsStayInside ==
  view.known => \A range \in source : Reported(range.from, range.bytes)

(* No byte is written outside the destination cv::Mat, and a frame that is  *)
(* returned has no byte left uninitialised, whatever its format and size.   *)
FrameIsFilled ==
  /\ sample # NoSample => written \subseteq 0 .. DestinationBytes(sample) - 1
  /\ outcome = "frame" => written = 0 .. DestinationBytes(sample) - 1

(* What a lock that reports its range must give for the sample to have all  *)
(* its rows, written with the copy loops and without the checks.            *)
Geometry(s) ==
  IF s.format \in Packed \cup {"l8"}
  THEN /\ s.format = "yuv422" => s.width % 2 = 0
       /\ s.pitch # -PitchLimit /\ RowBytes(s) <= Magnitude(s.pitch)
  ELSE EvenTopDown(s, s)

Whole(s) ==
  /\ s.start # 0 /\ s.scanline0 # 0
  /\ s.width # 0 /\ s.height # 0
  /\ s.width <= MaxDim /\ s.height <= MaxDim
  /\ s.start + s.length \in Size
  /\ Geometry(s)
  /\ \A r \in 0 .. Rows(s) - 1 : \A range \in Source(s, s, r) :
       Reported(range.from, range.bytes)

(* The checks never turn away a sample they could decode: one that is       *)
(* refused after Lock2DSize has an unsupported shape, or a row outside the  *)
(* reported range.                                                          *)
RefusesOnlyTheUnfit ==
  outcome = "refused" /\ view.known /\ sample.kind = "sized"
    => ~Whole(sample)

(* Every path of convert_sample releases the lock it took, exactly once.    *)
LockIsReturned ==
  /\ locks \in {0, 1}
  /\ pc \in {"idle", "lock", "return"} => locks = 0
===============================================================================
