--------------------------- MODULE EuStackProofs ---------------------------
(***************************************************************************)
(* Proofs about EuStack, for all sizes of words, frames and blocks: that   *)
(* every operation keeps the regions of the block apart and the frames in  *)
(* them whole and in order.  First arithmetic, then what the operations do *)
(* to a region, then the operations, then the steps.                       *)
(***************************************************************************)
EXTENDS EuStackImpl, WellFoundedInduction, TLAPS

\* An offset at which a frame may begin.
Aligned(n) == n % WordSize = 0

\* Quotient and remainder by the word size.
LEMMA DivMod ==
    ASSUME NEW n \in Int
    PROVE  /\ n \div WordSize \in Int
           /\ n % WordSize \in Int
           /\ n = (n \div WordSize) * WordSize + (n % WordSize)
           /\ 0 <= n % WordSize /\ n % WordSize < WordSize
BY WordSizeAssumption

\* Multiples of the word size that are not 0 are at least a word away from it.
LEMMA MultipleBounds ==
    ASSUME NEW q \in Int
    PROVE  /\ q * WordSize \in Int
           /\ q >= 1 => q * WordSize >= WordSize
           /\ q <= -1 => q * WordSize <= -WordSize
BY WordSizeAssumption

\* Aligned offsets are the multiples of the word size ...
LEMMA AlignedIffMultiple ==
    ASSUME NEW n \in Int
    PROVE  Aligned(n) <=> \E q \in Int : n = q * WordSize
<1>1. ASSUME Aligned(n) PROVE \E q \in Int : n = q * WordSize
  <2>1. n = (n \div WordSize) * WordSize /\ n \div WordSize \in Int
    BY <1>1, DivMod, WordSizeAssumption DEF Aligned
  <2> QED BY <2>1
<1>2. ASSUME NEW q \in Int, n = q * WordSize PROVE Aligned(n)
  <2> DEFINE d == n \div WordSize
             r == n % WordSize
  <2>1. /\ d \in Int /\ r \in Int /\ n = d * WordSize + r
        /\ 0 <= r /\ r < WordSize
    BY DivMod
  <2> HIDE DEF d, r
  <2>2. (q - d) * WordSize = r
    BY <1>2, <2>1, WordSizeAssumption
  <2>3. q - d = 0
    BY <2>1, <2>2, MultipleBounds, WordSizeAssumption
  <2>4. r = 0
    BY <2>1, <2>2, <2>3, WordSizeAssumption
  <2> QED BY <2>4 DEF r, Aligned
<1> QED BY <1>1, <1>2

\* ... which are closed under sum and difference
LEMMA AlignedSum ==
    ASSUME NEW n \in Int, NEW m \in Int, Aligned(n), Aligned(m)
    PROVE  Aligned(n + m) /\ Aligned(n - m)
<1>1. PICK p \in Int : n = p * WordSize BY AlignedIffMultiple
<1>2. PICK q \in Int : m = q * WordSize BY AlignedIffMultiple
<1>3. n + m = (p + q) * WordSize /\ n - m = (p - q) * WordSize
  BY <1>1, <1>2, WordSizeAssumption
<1> QED BY <1>3, AlignedIffMultiple

\* ... and under multiplication.
LEMMA AlignedProduct ==
    ASSUME NEW n \in Int, NEW m \in Int, Aligned(n)
    PROVE  Aligned(n * m)
<1>1. PICK p \in Int : n = p * WordSize BY AlignedIffMultiple
<1>2. n * m = (p * m) * WordSize
  BY <1>1, WordSizeAssumption
<1> QED BY <1>2, AlignedIffMultiple

\* ROUND_UP gives a multiple of the word size that is not less ...
LEMMA RoundUpFacts ==
    ASSUME NEW n \in Nat
    PROVE  /\ RoundUp(n) \in Nat
           /\ n <= RoundUp(n)
           /\ Aligned(RoundUp(n))
<1> DEFINE d == (n - 1) \div WordSize
<1>1. /\ d \in Int
      /\ n - 1 = d * WordSize + ((n - 1) % WordSize)
      /\ (n - 1) % WordSize \in Int
      /\ 0 <= (n - 1) % WordSize /\ (n - 1) % WordSize < WordSize
  BY DivMod
<1> HIDE DEF d
<1>2. RoundUp(n) = d * WordSize + WordSize BY DEF RoundUp, d
<1>3. d * WordSize \in Int /\ n <= RoundUp(n) BY <1>1, <1>2, WordSizeAssumption
<1>4. RoundUp(n) = (d + 1) * WordSize BY <1>1, <1>2, WordSizeAssumption
<1>5. RoundUp(n) \in Nat BY <1>2, <1>3, WordSizeAssumption
<1> QED BY <1>1, <1>3, <1>4, <1>5, AlignedIffMultiple

\* ... and no smaller one is.
LEMMA RoundUpLeast ==
    ASSUME NEW n \in Nat, NEW m \in Nat, n <= m, Aligned(m)
    PROVE  RoundUp(n) <= m
<1> DEFINE d == (n - 1) \div WordSize
<1>1. /\ d \in Int
      /\ n - 1 = d * WordSize + ((n - 1) % WordSize)
      /\ (n - 1) % WordSize \in Int
      /\ 0 <= (n - 1) % WordSize /\ (n - 1) % WordSize < WordSize
  BY DivMod
<1> HIDE DEF d
<1>2. PICK q \in Int : m = q * WordSize BY AlignedIffMultiple
<1>3. (q - d) * WordSize >= 1
  BY <1>1, <1>2, WordSizeAssumption
<1>4. q - d >= 1
  BY <1>1, <1>3, MultipleBounds, WordSizeAssumption
<1>5. (q - d) * WordSize >= WordSize
  BY <1>1, <1>4, MultipleBounds
<1>6. m >= d * WordSize + WordSize
  BY <1>1, <1>2, <1>5, WordSizeAssumption
<1> QED BY <1>1, <1>6 DEF RoundUp, d

\* Frames have a positive and aligned size.
LEMMA FrameSizeFacts ==
    ASSUME NEW k \in Kinds
    PROVE  FrameSize(k) \in Nat /\ FrameSize(k) >= 1 /\ Aligned(FrameSize(k))
<1>1. Size[k] \in Nat /\ Size[k] >= 1 BY KindsAssumption
<1> QED BY <1>1, RoundUpFacts DEF FrameSize

-----------------------------------------------------------------------------
\* The block holds bytes.
Bytes(s) == s.stack \in [DOMAIN s.stack -> Byte]

\* from .. to - 1 is a region of whole frames, of depths first .. last + 1.
Region(s, from, to, first, last) ==
    /\ from \in Nat /\ to \in Nat /\ from <= to
    /\ from .. to - 1 \subseteq DOMAIN s.stack
    /\ Framed(s, from, to)
    /\ Descending(s, from, to, first, last)

\* The bytes from .. to - 1 of s are found d bytes further up in s2.
Shifted(s, s2, from, to, d) ==
    \A o \in from .. to - 1 : /\ o + d \in DOMAIN s2.stack
                              /\ s2.stack[o + d] = s.stack[o]

\* The new frames of s are those of s2, wherever they are now, and the old ones
\* the old ones ...
Carried(s, s2) ==
    /\ Shifted(s, s2, s.new_stack_bottom, s.new_stack_top,
               s2.new_stack_bottom - s.new_stack_bottom)
    /\ Shifted(s, s2, s.old_stack_bottom, s.stack_area_size,
               s2.old_stack_bottom - s.old_stack_bottom)
    /\ NewSize(s2) = NewSize(s)
    /\ s2.stack_area_size - s2.old_stack_bottom
          = s.stack_area_size - s.old_stack_bottom

\* ... or all of them, the new ones first, are the old ones of s2.
Merged(s, s2) ==
    /\ Shifted(s, s2, s.new_stack_bottom, s.new_stack_top,
               s2.old_stack_bottom - s.new_stack_bottom)
    /\ Shifted(s, s2, s.old_stack_bottom, s.stack_area_size, 0)
    /\ NewEmpty(s2)
    /\ s2.old_stack_bottom = s.old_stack_bottom - NewSize(s)
    /\ s2.stack_area_size = s.stack_area_size

\* Bytes that are copied, d bytes further up or down, hold the same frames.
LEMMA MovedRegion ==
    ASSUME NEW s, NEW s2, NEW from, NEW to, NEW d \in Int,
           NEW first \in Nat, NEW last \in Nat,
           Bytes(s), Region(s, from, to, first, last),
           from + d >= 0, Shifted(s, s2, from, to, d)
    PROVE  Region(s2, from + d, to + d, first, last)
<1>0. from \in Nat /\ to \in Nat /\ from <= to BY DEF Region
<1>1. ASSUME NEW o \in from + d .. to + d - 1
      PROVE  /\ o - d \in from .. to - 1
             /\ o \in DOMAIN s2.stack
             /\ s2.stack[o] = s.stack[o - d]
             /\ s2.stack[o].depth \in Nat /\ s2.stack[o].ix \in Nat
  <2>1. o - d \in from .. to - 1 /\ (o - d) + d = o BY <1>0
  <2>2. o - d \in DOMAIN s.stack BY <2>1 DEF Region
  <2>3. s.stack[o - d].depth \in Nat /\ s.stack[o - d].ix \in Nat
    BY <2>2 DEF Bytes, Byte
  <2> QED BY <2>1, <2>3 DEF Shifted
<1>2. ASSUME NEW o \in from + d .. to + d - 1
      PROVE  /\ InFrame(s2, from + d, to + d, o)
             /\ s2.stack[o].depth = 1 + NextDepth(s2, to + d, last, o)
  <2> DEFINE b == s2.stack[o]
             start == (o - d) - b.ix
             size == FrameSize(b.kind)
  <2>1. b = s.stack[o - d] /\ o - d \in from .. to - 1 /\ b.ix \in Nat
    BY <1>1
  <2>2. /\ b.kind \in Kinds
        /\ from <= start /\ o - d < start + size /\ start + size <= to
        /\ \A i \in 0 .. size - 1 :
              s.stack[start + i] = FrameByte(b.depth, b.kind, i)
        /\ End(s, o - d) = start + size
    BY <2>1 DEF Framed, Region, InFrame, End
  <2>3. size \in Nat /\ start \in Nat BY <1>0, <2>1, <2>2, FrameSizeFacts
  <2>4. End(s2, o) = (start + size) + d /\ start + d = o - b.ix
    BY <2>1, <2>3 DEF End
  <2>5. ASSUME NEW i \in 0 .. size - 1
        PROVE  s2.stack[o - b.ix + i] = FrameByte(b.depth, b.kind, i)
    <3>1. start + i \in from .. to - 1 BY <1>0, <2>2, <2>3
    <3>2. (start + i) + d = o - b.ix + i BY <2>1, <2>3, <2>4
    <3>3. s2.stack[o - b.ix + i] = s.stack[start + i] BY <3>1, <3>2 DEF Shifted
    <3> QED BY <2>2, <3>3
  <2>6. from + d <= o - b.ix /\ o < End(s2, o) /\ End(s2, o) <= to + d
    BY <1>0, <2>1, <2>2, <2>3, <2>4
  <2>7. b.depth = 1 + NextDepth(s, to, last, o - d)
    BY <2>1 DEF Region, Descending
  <2>8. NextDepth(s, to, last, o - d) = NextDepth(s2, to + d, last, o)
    <3>1. CASE start + size = to
      BY <1>0, <2>2, <2>3, <2>4, <3>1 DEF NextDepth
    <3>2. CASE start + size # to
      <4>1. start + size \in from .. to - 1 BY <1>0, <2>1, <2>2, <2>3, <3>2
      <4>2. s2.stack[(start + size) + d] = s.stack[start + size] BY <4>1 DEF Shifted
      <4> QED BY <1>0, <2>2, <2>3, <2>4, <3>2, <4>2 DEF NextDepth
    <3> QED BY <3>1, <3>2
  <2> QED BY <2>2, <2>5, <2>6, <2>7, <2>8 DEF InFrame
<1>3. from + d < to + d => s2.stack[from + d].depth = first
  <2> SUFFICES ASSUME from + d < to + d PROVE s2.stack[from + d].depth = first
    OBVIOUS
  <2>1. s.stack[from].depth = first BY <1>0 DEF Region, Descending
  <2>2. s2.stack[from + d] = s.stack[from] BY <1>0 DEF Shifted
  <2> QED BY <2>1, <2>2
<1>5. from + d = to + d => first = last BY <1>0 DEF Region, Descending
<1>4. from + d .. to + d - 1 \subseteq DOMAIN s2.stack BY <1>1
<1>6. Framed(s2, from + d, to + d) BY <1>0, <1>2 DEF Framed
<1>7. Descending(s2, from + d, to + d, first, last)
  <2>1. \A o \in from + d .. to + d - 1 :
           s2.stack[o].depth = 1 + NextDepth(s2, to + d, last, o)
    BY <1>2
  <2> QED BY <1>0, <1>3, <1>5, <2>1 DEF Descending
<1> QED BY <1>0, <1>4, <1>6, <1>7 DEF Region

\* The frames of two regions that touch are those of one region.
LEMMA JoinedRegions ==
    ASSUME NEW s, NEW from, NEW mid, NEW to,
           NEW first \in Nat, NEW m \in Nat, NEW last \in Nat,
           Bytes(s), Region(s, from, mid, first, m), Region(s, mid, to, m, last)
    PROVE  Region(s, from, to, first, last)
<1>1. /\ from \in Nat /\ mid \in Nat /\ to \in Nat
      /\ from <= mid /\ mid <= to
      /\ from .. to - 1 \subseteq DOMAIN s.stack
  BY DEF Region
<1>2. ASSUME NEW o \in from .. to - 1
      PROVE  /\ InFrame(s, from, to, o)
             /\ s.stack[o].depth = 1 + NextDepth(s, to, last, o)
  <2>1. CASE o < mid
    <3>1. /\ InFrame(s, from, mid, o)
          /\ s.stack[o].depth = 1 + NextDepth(s, mid, m, o)
      BY <1>1, <2>1 DEF Region, Framed, Descending
    <3>2. InFrame(s, from, to, o)
      <4>1. End(s, o) \in Int
        <5>1. s.stack[o].ix \in Nat /\ s.stack[o].kind \in Kinds
          BY <1>1, <3>1 DEF Bytes, Byte, InFrame
        <5> QED BY <1>1, <5>1, FrameSizeFacts DEF End
      <4> QED BY <1>1, <3>1, <4>1 DEF InFrame
    <3>3. NextDepth(s, mid, m, o) = NextDepth(s, to, last, o)
      <4>1. mid = to => m = last BY DEF Region, Descending
      <4>2. mid < to => s.stack[mid].depth = m BY DEF Region, Descending
      <4>3. End(s, o) <= mid BY <3>1 DEF InFrame
      <4>4. End(s, o) \in Int
        <5>1. s.stack[o].ix \in Nat /\ s.stack[o].kind \in Kinds
          BY <1>1, <3>1 DEF Bytes, Byte, InFrame
        <5> QED BY <1>1, <5>1, FrameSizeFacts DEF End
      <4> QED BY <1>1, <4>1, <4>2, <4>3, <4>4 DEF NextDepth
    <3> QED BY <3>1, <3>2, <3>3
  <2>2. CASE o >= mid
    <3>1. /\ InFrame(s, mid, to, o)
          /\ s.stack[o].depth = 1 + NextDepth(s, to, last, o)
      BY <1>1, <2>2 DEF Region, Framed, Descending
    <3>2. s.stack[o].ix \in Nat BY <1>1 DEF Bytes, Byte
    <3> QED BY <1>1, <3>1, <3>2 DEF InFrame
  <2> QED BY <1>1, <2>1, <2>2
<1>3. from = to => first = last BY <1>1 DEF Region, Descending
<1>4. from < to => s.stack[from].depth = first
  BY <1>1 DEF Region, Descending
<1> QED BY <1>1, <1>2, <1>3, <1>4 DEF Region, Framed, Descending

\* One frame is a region.
LEMMA SingleFrame ==
    ASSUME NEW s, NEW from \in Nat, NEW d \in Nat \ {0}, NEW k \in Kinds,
           \A i \in 0 .. FrameSize(k) - 1 :
              /\ from + i \in DOMAIN s.stack
              /\ s.stack[from + i] = FrameByte(d, k, i)
    PROVE  Region(s, from, from + FrameSize(k), d, d - 1)
<1> DEFINE size == FrameSize(k)
           to == from + size
<1>0. size \in Nat /\ size >= 1 BY FrameSizeFacts
<1> HIDE DEF size
<1>1. ASSUME NEW o \in from .. to - 1
      PROVE  /\ o \in DOMAIN s.stack
             /\ InFrame(s, from, to, o)
             /\ s.stack[o].depth = 1 + NextDepth(s, to, d - 1, o)
  <2>1. o - from \in 0 .. size - 1 /\ from + (o - from) = o BY <1>0
  <2>2. o \in DOMAIN s.stack /\ s.stack[o] = FrameByte(d, k, o - from)
    BY <2>1 DEF size
  <2>3. /\ s.stack[o].depth = d /\ s.stack[o].kind = k
        /\ s.stack[o].ix = o - from
    BY <2>2 DEF FrameByte
  <2>4. End(s, o) = to /\ o - s.stack[o].ix = from
    BY <1>0, <2>3 DEF End, size
  <2>5. InFrame(s, from, to, o)
    BY <1>0, <2>3, <2>4 DEF InFrame, size
  <2> QED BY <2>2, <2>3, <2>4, <2>5 DEF NextDepth
<1>2. s.stack[from].depth = d
  <2>1. s.stack[from + 0] = FrameByte(d, k, 0) BY <1>0 DEF size
  <2> QED BY <2>1 DEF FrameByte
<1> QED BY <1>0, <1>1, <1>2 DEF Region, Framed, Descending, size

\* What is left when the first frame is popped.
LEMMA PoppedRegion ==
    ASSUME NEW s, NEW from, NEW to, NEW first \in Nat, NEW last \in Nat,
           Bytes(s), Region(s, from, to, first, last), from < to
    PROVE  LET size == FrameSize(s.stack[from].kind)
           IN  /\ from \in DOMAIN s.stack
               /\ s.stack[from].kind \in Kinds
               /\ s.stack[from].depth = first /\ first >= 1
               /\ from + size <= to
               /\ Region(s, from + size, to, first - 1, last)
<1> DEFINE b == s.stack[from]
           size == FrameSize(b.kind)
           rest == from + size
<1>1. /\ from \in Nat /\ to \in Nat /\ from \in from .. to - 1
      /\ from \in DOMAIN s.stack
  BY DEF Region
<1>2. /\ b.kind \in Kinds /\ b.ix \in Nat /\ b.depth = first
      /\ from <= from - b.ix /\ End(s, from) <= to
      /\ \A i \in 0 .. size - 1 :
            s.stack[from - b.ix + i] = FrameByte(b.depth, b.kind, i)
  BY <1>1 DEF Region, Framed, InFrame, Descending, Bytes, Byte
<1>3. b.ix = 0 BY <1>1, <1>2
<1>4. size \in Nat /\ size >= 1 BY <1>2, FrameSizeFacts
<1>5. End(s, from) = rest /\ rest \in Nat /\ rest <= to
  BY <1>1, <1>2, <1>3, <1>4 DEF End
<1>6. b.depth = 1 + NextDepth(s, to, last, from)
  BY <1>1 DEF Region, Descending
<1>7. ASSUME NEW o \in rest .. to - 1
      PROVE  /\ InFrame(s, rest, to, o)
             /\ s.stack[o].depth = 1 + NextDepth(s, to, last, o)
  <2>1. o \in from .. to - 1 BY <1>1, <1>4
  <2>2. /\ InFrame(s, from, to, o)
        /\ s.stack[o].depth = 1 + NextDepth(s, to, last, o)
        /\ s.stack[o].ix \in Nat
    BY <2>1 DEF Region, Framed, Descending, Bytes, Byte
  <2> DEFINE start == o - s.stack[o].ix
  <2>3. start >= rest
    <3> SUFFICES ASSUME start < rest PROVE FALSE BY <1>5, <2>2
    <3>1. start \in from .. rest - 1 BY <1>1, <1>4, <2>1, <2>2, <1>5 DEF InFrame
    <3>2. FrameSize(s.stack[o].kind) \in Nat /\ FrameSize(s.stack[o].kind) >= 1
      BY <2>2, FrameSizeFacts DEF InFrame
    <3>3. s.stack[start + 0] = FrameByte(s.stack[o].depth, s.stack[o].kind, 0)
      BY <2>2, <3>2 DEF InFrame
    <3>4. start - from \in 0 .. size - 1 BY <1>1, <1>4, <3>1
    <3>5. s.stack[from - b.ix + (start - from)]
              = FrameByte(b.depth, b.kind, start - from)
      BY <1>2, <3>4
    <3>6. s.stack[start] = FrameByte(b.depth, b.kind, start - from)
      BY <1>1, <1>3, <2>1, <2>2, <3>5
    <3>7. s.stack[start].ix = 0 /\ s.stack[start].kind = s.stack[o].kind
      BY <2>1, <2>2, <3>3 DEF FrameByte
    <3>8. start = from /\ s.stack[o].kind = b.kind
      <4>1. /\ s.stack[start].ix = start - from
            /\ s.stack[start].kind = b.kind
        BY <3>6 DEF FrameByte
      <4> QED BY <1>1, <2>1, <2>2, <3>7, <4>1
    <3>9. o < End(s, o) /\ End(s, o) = rest
      BY <2>2, <3>8 DEF InFrame, End
    <3> QED BY <1>5, <3>9
  <2> QED BY <2>2, <2>3 DEF InFrame
<1>8. rest = to => first - 1 = last
  BY <1>2, <1>5, <1>6 DEF NextDepth
<1>9. rest < to => s.stack[rest].depth = first - 1
  <2>1. ASSUME rest < to PROVE s.stack[rest].depth = first - 1
    <3>1. s.stack[rest].depth \in Nat BY <1>1, <1>4, <1>5, <2>1 DEF Region, Bytes, Byte
    <3> QED BY <1>2, <1>5, <1>6, <2>1, <3>1, SMTT(60) DEF NextDepth
  <2> QED BY <2>1
<1>10. first >= 1
  <2>1. CASE rest = to BY <1>8, <2>1
  <2>2. CASE rest < to
    <3>1. s.stack[rest].depth \in Nat BY <1>1, <1>4, <1>5, <2>2 DEF Region, Bytes, Byte
    <3> QED BY <1>9, <2>2, <3>1
  <2> QED BY <1>5, <1>1, <2>1, <2>2
<1>11. rest .. to - 1 \subseteq DOMAIN s.stack BY <1>1, <1>4 DEF Region
<1>12. Region(s, rest, to, first - 1, last)
  BY <1>1, <1>5, <1>7, <1>8, <1>9, <1>11 DEF Region, Framed, Descending
<1> QED BY <1>1, <1>2, <1>5, <1>10, <1>12

-----------------------------------------------------------------------------
(***************************************************************************)
(* A block in which every frame is complete: the new frames are those of   *)
(* depths t .. mid + 1, the old ones those of depths bottom .. 1.          *)
(***************************************************************************)
Sound(s, t, mid, bottom) ==
    /\ StackTypeOK(s)
    /\ Layout(s)
    /\ Region(s, s.new_stack_bottom, s.new_stack_top, t, mid)
    /\ Region(s, s.old_stack_bottom, s.stack_area_size, bottom, 0)

\* The scratch text survives an operation.
SameText(s, s2) ==
    /\ s2.scratch_size = s.scratch_size
    /\ \A o \in 0 .. s.scratch_size - 1 : s2.stack[o] = s.stack[o]

\* A block of n bytes.
Block(mem, n) == mem \in [0 .. n - 1 -> Byte]

\* Sound, spelled out in the fields of the stack.
LEMMA SoundIff ==
    ASSUME NEW s, NEW t, NEW mid, NEW bottom, StackTypeOK(s), Layout(s)
    PROVE  Holds(s, t, mid, bottom) <=> Sound(s, t, mid, bottom)
BY DEF Sound, Holds, Region, StackTypeOK, Layout

\* The fields of a struct eu_stack are the values it was made of.
LEMMA FieldsOf ==
    ASSUME NEW mem, NEW scratch, NEW nb, NEW nt, NEW ob, NEW area
    PROVE  LET s == Fields(mem, scratch, nb, nt, ob, area)
           IN  /\ s.stack = mem /\ s.scratch_size = scratch
               /\ s.new_stack_bottom = nb /\ s.new_stack_top = nt
               /\ s.old_stack_bottom = ob /\ s.stack_area_size = area
BY DEF Fields

\* A struct eu_stack made of typed values is typed.
LEMMA TypedFields ==
    ASSUME NEW mem, NEW scratch \in Nat, NEW nb \in Nat, NEW nt \in Nat,
           NEW ob \in Nat, NEW area \in Nat,
           Block(mem, area)
    PROVE  StackTypeOK(Fields(mem, scratch, nb, nt, ob, area))
BY FieldsOf DEF StackTypeOK, Block

\* The memory of a stack with a sound layout is a block of its size.
LEMMA BlockOf ==
    ASSUME NEW s, StackTypeOK(s), Layout(s)
    PROVE  /\ Block(s.stack, s.stack_area_size)
           /\ DOMAIN s.stack = 0 .. s.stack_area_size - 1
           /\ Bytes(s)
BY DEF StackTypeOK, Layout, Bytes, Block

\* memcpy between blocks: bytes in the target range are the source's, the others stay.
LEMMA Copied ==
    ASSUME NEW area \in Nat, NEW other \in Nat, NEW to \in Nat, NEW from \in Nat,
           NEW n \in Nat,
           NEW mem, NEW src, Block(mem, area), Block(src, other),
           from + n <= other
    PROVE  /\ Block(Copy(mem, to, src, from, n), area)
           /\ \A o \in 0 .. area - 1 :
                 Copy(mem, to, src, from, n)[o] =
                     IF o \in to .. to + n - 1 THEN src[o - to + from]
                                               ELSE mem[o]
<1>1. \A o \in 0 .. area - 1 :
         o \in to .. to + n - 1 => src[o - to + from] \in Byte
  <2> SUFFICES ASSUME NEW o \in 0 .. area - 1, o \in to .. to + n - 1
               PROVE  src[o - to + from] \in Byte
    OBVIOUS
  <2>1. o - to + from \in 0 .. other - 1 OBVIOUS
  <2> QED BY <2>1 DEF Block
<1> QED BY <1>1 DEF Copy, Block

\* The loops that double the size stop at an aligned size that is large enough.
LEMMA DoubledFacts ==
    ASSUME NEW area \in Nat, NEW min \in Nat, NEW a \in Doubled(area, min)
    PROVE  /\ a \in Nat /\ a >= min /\ a >= area
           /\ Aligned(area) => Aligned(a)
<1>1. PICK p \in Nat : p >= 2 /\ a = area * p /\ area * p \in min .. MaxArea
  <2>1. PICK p \in PowersOfTwo : a = area * p /\ area * p \in min .. MaxArea
    BY DEF Doubled
  <2>2. p \in Nat /\ p >= 2 BY BoundsAssumption DEF PowersOfTwo
  <2> QED BY <2>1, <2>2
<1>2. a \in Nat /\ a >= min BY <1>1, BoundsAssumption
<1>3. a >= area
  <2>1. area * p >= area * 1 BY <1>1
  <2> QED BY <1>1, <2>1
<1>4. ASSUME Aligned(area) PROVE Aligned(area * p)
  <2>1. area \in Int /\ p \in Int BY <1>1
  <2> QED BY <1>4, <2>1, AlignedProduct
<1> QED BY <1>1, <1>2, <1>3, <1>4

\* eu_stack_begin_pause: all frames are old ones, in the same order.
LEMMA BeginPauseSound ==
    ASSUME NEW s, NEW t \in Nat, NEW mid \in Nat, Sound(s, t, mid, mid)
    PROVE  LET s2 == BeginPause(s)
           IN  /\ Sound(s2, t, t, t)
               /\ NewEmpty(s2)
               /\ s2.scratch_size <= s2.new_stack_bottom
               /\ s2.old_stack_bottom = s.old_stack_bottom - NewSize(s)
               /\ SameText(s, s2) /\ Merged(s, s2)
<1> DEFINE nb == s.new_stack_bottom
           nt == s.new_stack_top
           ob == s.old_stack_bottom
           area == s.stack_area_size
           sc == s.scratch_size
           n == nt - nb
           ob2 == ob - n
           low == RoundUp(sc)
           mem == Copy(s.stack, ob2, s.stack, nb, n)
           s2 == BeginPause(s)
<1>1. /\ nb \in Nat /\ nt \in Nat /\ ob \in Nat /\ area \in Nat /\ sc \in Nat
      /\ nb <= nt /\ nt <= ob /\ ob <= area
      /\ sc <= (IF nb = nt THEN ob ELSE nb)
      /\ Aligned(nb) /\ Aligned(nt) /\ Aligned(ob) /\ Aligned(area)
  BY DEF Sound, StackTypeOK, Layout, NewEmpty, Aligned
<1>2. /\ Block(s.stack, area) /\ Bytes(s)
      /\ Region(s, nb, nt, t, mid) /\ Region(s, ob, area, mid, 0)
  BY BlockOf DEF Sound
<1>3. /\ s2.stack = mem /\ s2.scratch_size = sc
      /\ s2.new_stack_bottom = low /\ s2.new_stack_top = low
      /\ s2.old_stack_bottom = ob2 /\ s2.stack_area_size = area
      /\ s2 = Fields(mem, sc, low, low, ob2, area)
  BY FieldsOf DEF BeginPause
<1> HIDE DEF s2, nb, nt, ob, area, sc
<1>4. n \in Nat /\ ob2 \in Nat /\ nb + n <= area /\ ob2 + n = ob /\ sc <= ob2
      /\ nb <= ob2
  BY <1>1
<1>5. Aligned(ob2) BY <1>1, AlignedSum
<1>6. low \in Nat /\ sc <= low /\ low <= ob2 /\ Aligned(low)
  BY <1>1, <1>4, <1>5, RoundUpFacts, RoundUpLeast
<1> HIDE DEF low, n, ob2
<1>7. /\ Block(mem, area)
      /\ \A o \in 0 .. area - 1 :
            mem[o] = IF o \in ob2 .. ob2 + n - 1 THEN s.stack[o - ob2 + nb]
                                                 ELSE s.stack[o]
  <2>1. area \in Nat /\ ob2 \in Nat /\ nb \in Nat /\ n \in Nat
    BY <1>1, <1>4
  <2>2. Block(s.stack, area) /\ nb + n <= area BY <1>2, <1>4
  <2> HIDE DEF mem
  <2>3. Block(Copy(s.stack, ob2, s.stack, nb, n), area)
    BY <2>1, <2>2, Copied
  <2>4. \A o \in 0 .. area - 1 :
            Copy(s.stack, ob2, s.stack, nb, n)[o]
               = IF o \in ob2 .. ob2 + n - 1 THEN s.stack[o - ob2 + nb]
                                             ELSE s.stack[o]
    BY <2>1, <2>2, Copied, SMTT(60)
  <2> QED BY <2>3, <2>4 DEF mem
<1> HIDE DEF mem
<1>8. StackTypeOK(s2) BY <1>1, <1>3, <1>4, <1>6, <1>7, TypedFields
<1>9. Layout(s2)
  BY <1>1, <1>3, <1>4, <1>5, <1>6, <1>7 DEF Layout, NewEmpty, Aligned, Block
<1>10. Bytes(s2) BY <1>8, <1>9, BlockOf
<1>11. Region(s2, ob2, ob, t, mid) /\ Shifted(s, s2, nb, nt, ob2 - nb)
  <2> DEFINE d == ob2 - nb
  <2>1. d \in Int /\ nb + d = ob2 /\ nt + d = ob BY <1>1, <1>4 DEF n
  <2>2. Shifted(s, s2, nb, nt, d)
    <3> SUFFICES ASSUME NEW o \in nb .. nt - 1
                 PROVE  /\ o + d \in DOMAIN s2.stack
                        /\ s2.stack[o + d] = s.stack[o]
      BY DEF Shifted
    <3>1. /\ o + d \in ob2 .. ob2 + n - 1 /\ o + d \in 0 .. area - 1
          /\ (o + d) - ob2 + nb = o
      BY <1>1, <1>4, <2>1
    <3> QED BY <1>3, <1>7, <3>1 DEF Block
  <2> HIDE DEF d
  <2>3. Region(s2, nb + d, nt + d, t, mid)
    BY <1>1, <1>2, <1>4, <2>1, <2>2, MovedRegion
  <2> QED BY <2>1, <2>2, <2>3 DEF d
<1>12. Region(s2, ob, area, mid, 0) /\ Shifted(s, s2, ob, area, 0)
  <2>1. Shifted(s, s2, ob, area, 0)
    BY <1>1, <1>3, <1>4, <1>7, SMTT(60) DEF Shifted, Block
  <2>2. Region(s2, ob + 0, area + 0, mid, 0)
    BY <1>1, <1>2, <2>1, MovedRegion
  <2> QED BY <1>1, <2>1, <2>2
<1>13. Region(s2, ob2, area, t, 0)
  BY <1>10, <1>11, <1>12, JoinedRegions
<1>14. Region(s2, low, low, t, t)
  BY <1>6 DEF Region, Framed, Descending
<1>15. Sound(s2, t, t, t)
  BY <1>3, <1>8, <1>9, <1>13, <1>14 DEF Sound
<1>16. SameText(s, s2)
  BY <1>1, <1>3, <1>4, <1>7 DEF SameText, sc
<1>17. s2.old_stack_bottom = s.old_stack_bottom - NewSize(s)
  BY <1>3 DEF NewSize, ob2, n, ob, nt, nb
<1>18. Merged(s, s2)
  BY <1>3, <1>11, <1>12, <1>17 DEF Merged, NewEmpty, ob, nt, nb, area
<1> QED BY <1>3, <1>6, <1>15, <1>16, <1>17, <1>18 DEF NewEmpty, s2

\* What a sound stack's regions satisfy, as the operations need it.
LEMMA SoundFacts ==
    ASSUME NEW s, NEW t, NEW mid, NEW bottom, Sound(s, t, mid, bottom)
    PROVE  /\ s.new_stack_bottom \in Nat /\ s.new_stack_top \in Nat
           /\ s.old_stack_bottom \in Nat /\ s.stack_area_size \in Nat
           /\ s.scratch_size \in Nat
           /\ s.new_stack_bottom <= s.new_stack_top
           /\ s.new_stack_top <= s.old_stack_bottom
           /\ s.old_stack_bottom <= s.stack_area_size
           /\ s.scratch_size <= (IF NewEmpty(s) THEN s.old_stack_bottom
                                               ELSE s.new_stack_bottom)
           /\ Aligned(s.new_stack_bottom) /\ Aligned(s.new_stack_top)
           /\ Aligned(s.old_stack_bottom) /\ Aligned(s.stack_area_size)
           /\ Block(s.stack, s.stack_area_size) /\ Bytes(s)
           /\ DOMAIN s.stack = 0 .. s.stack_area_size - 1
           /\ Region(s, s.new_stack_bottom, s.new_stack_top, t, mid)
           /\ Region(s, s.old_stack_bottom, s.stack_area_size, bottom, 0)
BY BlockOf DEF Sound, StackTypeOK, Layout, Aligned

\* Bytes that stay where they are hold the same frames.
LEMMA KeptRegion ==
    ASSUME NEW s, NEW s2, NEW from, NEW to,
           NEW first \in Nat, NEW last \in Nat,
           Bytes(s), Region(s, from, to, first, last), Shifted(s, s2, from, to, 0)
    PROVE  Region(s2, from, to, first, last)
<1>1. from \in Nat /\ to \in Nat BY DEF Region
<1>2. Region(s2, from + 0, to + 0, first, last) BY <1>1, MovedRegion
<1> QED BY <1>1, <1>2

\* How an operation that leaves the frames in their place is shown sound.
LEMMA SoundFields ==
    ASSUME NEW mem, NEW scratch \in Nat, NEW nb \in Nat, NEW nt \in Nat,
           NEW ob \in Nat, NEW area \in Nat,
           NEW t, NEW mid, NEW bottom,
           Block(mem, area), nb <= nt, nt <= ob, ob <= area,
           scratch <= (IF nb = nt THEN ob ELSE nb),
           Aligned(nb), Aligned(nt), Aligned(ob), Aligned(area),
           Region(Fields(mem, scratch, nb, nt, ob, area), nb, nt, t, mid),
           Region(Fields(mem, scratch, nb, nt, ob, area), ob, area, bottom, 0)
    PROVE  Sound(Fields(mem, scratch, nb, nt, ob, area), t, mid, bottom)
<1> DEFINE s == Fields(mem, scratch, nb, nt, ob, area)
<1>1. /\ s.stack = mem /\ s.scratch_size = scratch
      /\ s.new_stack_bottom = nb /\ s.new_stack_top = nt
      /\ s.old_stack_bottom = ob /\ s.stack_area_size = area
  BY FieldsOf
<1>2. StackTypeOK(s) BY TypedFields
<1> HIDE DEF s
<1>3. Layout(s) BY <1>1 DEF Layout, NewEmpty, Aligned, Block
<1>4. Region(s, nb, nt, t, mid) /\ Region(s, ob, area, bottom, 0) BY DEF s
<1>5. Sound(s, t, mid, bottom) BY <1>1, <1>2, <1>3, <1>4 DEF Sound
<1> QED BY <1>5 DEF s

\* malloc returns a block.
LEMMA MallocBlock == ASSUME NEW n \in Nat PROVE Block(Malloc(n), n)
BY DEF Malloc, Block, Byte, Junk

\* eu_stack_alloc's bigger block holds the same frames and text.
LEMMA WidenedSound ==
    ASSUME NEW s, NEW t \in Nat, NEW mid \in Nat, NEW bottom \in Nat,
           NEW size \in Nat,
           Sound(s, t, mid, bottom), s.scratch_size <= s.new_stack_bottom,
           NEW a \in Doubled(s.stack_area_size,
                             s.new_stack_top + size
                               + (s.stack_area_size - s.old_stack_bottom))
    PROVE  LET s2 == Widened(s, a)
           IN  /\ Sound(s2, t, mid, bottom)
               /\ s2.new_stack_bottom = s.new_stack_bottom
               /\ s2.new_stack_top = s.new_stack_top
               /\ s2.new_stack_top + size <= s2.old_stack_bottom
               /\ SameText(s, s2) /\ Carried(s, s2)
<1> DEFINE nb == s.new_stack_bottom
           nt == s.new_stack_top
           ob == s.old_stack_bottom
           area == s.stack_area_size
           sc == s.scratch_size
           old == area - ob
           ob2 == a - old
           low == Copy(Malloc(a), 0, s.stack, 0, nt)
           mem == Copy(low, ob2, s.stack, ob, old)
           s2 == Widened(s, a)
<1>1. /\ nb \in Nat /\ nt \in Nat /\ ob \in Nat /\ area \in Nat /\ sc \in Nat
      /\ nb <= nt /\ nt <= ob /\ ob <= area /\ sc <= nb
      /\ Aligned(nb) /\ Aligned(nt) /\ Aligned(ob) /\ Aligned(area)
      /\ Block(s.stack, area) /\ Bytes(s)
      /\ Region(s, nb, nt, t, mid) /\ Region(s, ob, area, bottom, 0)
  BY SoundFacts
<1>2. s2 = Fields(mem, sc, nb, nt, ob2, a) BY DEF Widened
<1>3. old \in Nat /\ nt + size + old \in Nat /\ ob + old = area BY <1>1
<1>4. a \in Doubled(area, nt + size + old) OBVIOUS
<1> HIDE DEF nb, nt, ob, area, sc, old, s2
<1>5. /\ a \in Nat /\ a >= nt + size + old /\ Aligned(a)
  BY <1>1, <1>3, <1>4, DoubledFacts
<1>6. /\ ob2 \in Nat /\ nt + size <= ob2 /\ ob2 + old = a
  BY <1>1, <1>3, <1>5
<1>7. Aligned(ob2)
  <2>1. Aligned(old) BY <1>1, AlignedSum DEF old
  <2> QED BY <1>3, <1>5, <2>1, AlignedSum
<1> HIDE DEF ob2
<1>8. /\ Block(low, a)
      /\ \A o \in 0 .. a - 1 : o \in 0 .. nt - 1 => low[o] = s.stack[o]
  <2>1. Block(Malloc(a), a) BY <1>5, MallocBlock
  <2>2. 0 + nt <= area BY <1>1
  <2> HIDE DEF low
  <2>3. Block(Copy(Malloc(a), 0, s.stack, 0, nt), a)
    BY <1>1, <1>5, <2>1, <2>2, Copied
  <2>4. \A o \in 0 .. a - 1 :
            Copy(Malloc(a), 0, s.stack, 0, nt)[o]
               = IF o \in 0 .. 0 + nt - 1 THEN s.stack[o - 0 + 0]
                                          ELSE Malloc(a)[o]
    BY <2>1 DEF Copy, Block
  <2> QED BY <1>1, <2>3, <2>4 DEF low
<1> HIDE DEF low
<1>9. /\ Block(mem, a)
      /\ \A o \in 0 .. a - 1 :
            mem[o] = IF o \in ob2 .. ob2 + old - 1 THEN s.stack[o - ob2 + ob]
                                                   ELSE low[o]
  <2>1. ob + old <= area BY <1>1, <1>3
  <2> HIDE DEF mem
  <2>2. Block(Copy(low, ob2, s.stack, ob, old), a)
    BY <1>1, <1>3, <1>5, <1>6, <1>8, <2>1, Copied
  <2>3. \A o \in 0 .. a - 1 :
            Copy(low, ob2, s.stack, ob, old)[o]
               = IF o \in ob2 .. ob2 + old - 1 THEN s.stack[o - ob2 + ob]
                                               ELSE low[o]
    BY <1>8 DEF Copy, Block
  <2> QED BY <2>2, <2>3 DEF mem
<1> HIDE DEF mem
<1>10. /\ s2.stack = mem /\ s2.scratch_size = sc
       /\ s2.new_stack_bottom = nb /\ s2.new_stack_top = nt
       /\ s2.old_stack_bottom = ob2 /\ s2.stack_area_size = a
  BY <1>2, FieldsOf
<1>11. Region(s2, nb, nt, t, mid) /\ Shifted(s, s2, nb, nt, 0)
  <2>1. Shifted(s, s2, nb, nt, 0)
    BY <1>1, <1>3, <1>6, <1>8, <1>9, <1>10, SMTT(60) DEF Shifted, Block
  <2> QED BY <1>1, <2>1, KeptRegion
<1>12. Region(s2, ob2, a, bottom, 0) /\ Shifted(s, s2, ob, area, ob2 - ob)
  <2> DEFINE d == ob2 - ob
  <2>1. /\ d \in Int /\ ob + d = ob2 /\ area + d = a /\ ob + d >= 0
    BY <1>1, <1>3, <1>6
  <2>2. Shifted(s, s2, ob, area, d)
    <3> SUFFICES ASSUME NEW o \in ob .. area - 1
                 PROVE  /\ o + d \in DOMAIN s2.stack
                        /\ s2.stack[o + d] = s.stack[o]
      BY DEF Shifted
    <3>1. /\ o + d \in ob2 .. ob2 + old - 1 /\ o + d \in 0 .. a - 1
          /\ (o + d) - ob2 + ob = o
      BY <1>1, <1>3, <1>6, <2>1
    <3> QED BY <1>9, <1>10, <3>1 DEF Block
  <2> HIDE DEF d
  <2>3. Region(s2, ob + d, area + d, bottom, 0)
    BY <1>1, <2>1, <2>2, MovedRegion
  <2> QED BY <2>1, <2>2, <2>3 DEF d
<1>13. Sound(s2, t, mid, bottom)
  <2>1. nt <= ob2 /\ ob2 <= a /\ sc <= (IF nb = nt THEN ob2 ELSE nb)
    BY <1>1, <1>3, <1>6
  <2> QED BY <1>1, <1>2, <1>5, <1>6, <1>7, <1>9, <1>11, <1>12, <2>1,
             SoundFields
<1>14. SameText(s, s2)
  BY <1>1, <1>3, <1>6, <1>8, <1>9, <1>10 DEF SameText, sc
<1>15. Carried(s, s2)
  <2>1. nb - nb = 0 /\ a - ob2 = area - ob BY <1>1, <1>3, <1>6
  <2> QED BY <1>10, <1>11, <1>12, <2>1 DEF Carried, NewSize, nb, nt, ob, area
<1> QED BY <1>6, <1>10, <1>13, <1>14, <1>15 DEF s2, nb, nt

\* eu_stack_alloc's frame is the last of the new ones.
LEMMA PushSound ==
    ASSUME NEW s, NEW t \in Nat, NEW d \in Nat \ {0}, NEW bottom \in Nat,
           NEW k \in Kinds,
           Sound(s, t, d, bottom), s.scratch_size <= s.new_stack_bottom,
           AllocFits(s, k)
    PROVE  LET s2 == Push(s, d, k)
           IN  /\ Sound(s2, t, d - 1, bottom)
               /\ s2.scratch_size <= s2.new_stack_bottom
               /\ SameText(s, s2)
               /\ s2.new_stack_bottom = s.new_stack_bottom
               /\ Shifted(s, s2, s.new_stack_bottom, s.new_stack_top, 0)
               /\ Region(s2, s.new_stack_top, s2.new_stack_top, d, d - 1)
               /\ Saved(s2, s.new_stack_top) = [depth |-> d, kind |-> k]
               /\ s2.old_stack_bottom = s.old_stack_bottom
               /\ s2.stack_area_size = s.stack_area_size
               /\ Shifted(s, s2, s.old_stack_bottom, s.stack_area_size, 0)
<1> DEFINE nb == s.new_stack_bottom
           nt == s.new_stack_top
           ob == s.old_stack_bottom
           area == s.stack_area_size
           sc == s.scratch_size
           size == FrameSize(k)
           end == nt + size
           mem == [o \in DOMAIN s.stack |-> IF o \in nt .. end - 1
                                            THEN FrameByte(d, k, o - nt)
                                            ELSE s.stack[o]]
           s2 == Push(s, d, k)
<1>1. /\ nb \in Nat /\ nt \in Nat /\ ob \in Nat /\ area \in Nat /\ sc \in Nat
      /\ nb <= nt /\ nt <= ob /\ ob <= area /\ sc <= nb
      /\ Aligned(nb) /\ Aligned(nt) /\ Aligned(ob) /\ Aligned(area)
      /\ Block(s.stack, area) /\ Bytes(s)
      /\ DOMAIN s.stack = 0 .. area - 1
      /\ Region(s, nb, nt, t, d) /\ Region(s, ob, area, bottom, 0)
  BY SoundFacts
<1>2. size \in Nat /\ size >= 1 /\ Aligned(size) BY FrameSizeFacts
<1>3. end <= ob BY DEF AllocFits
<1>4. s2 = Fields(mem, sc, nb, end, ob, area) BY DEF Push
<1>5. /\ s2.stack = mem /\ s2.scratch_size = sc
      /\ s2.new_stack_bottom = nb /\ s2.new_stack_top = end
      /\ s2.old_stack_bottom = ob /\ s2.stack_area_size = area
  BY <1>4, FieldsOf
<1> HIDE DEF nb, nt, ob, area, sc, size, s2
<1>6. Block(mem, area)
  <2>1. ASSUME NEW o \in 0 .. area - 1, o \in nt .. end - 1
        PROVE  FrameByte(d, k, o - nt) \in Byte
    BY <1>1, <1>2, <2>1 DEF FrameByte, Byte
  <2> QED BY <1>1, <2>1 DEF Block
<1>7. \A o \in 0 .. area - 1 :
         mem[o] = IF o \in nt .. end - 1 THEN FrameByte(d, k, o - nt)
                                         ELSE s.stack[o]
  BY <1>1
<1>8. end \in Nat /\ Aligned(end) /\ nt <= end /\ DOMAIN mem = 0 .. area - 1
  BY <1>1, <1>2, AlignedSum
<1> HIDE DEF mem
<1>9. Region(s2, nb, nt, t, d) /\ Shifted(s, s2, nb, nt, 0)
  <2>1. Shifted(s, s2, nb, nt, 0)
    BY <1>1, <1>5, <1>7, <1>8 DEF Shifted
  <2> QED BY <1>1, <2>1, KeptRegion
<1>10. Region(s2, nt, end, d, d - 1) /\ s2.stack[nt] = FrameByte(d, k, 0)
  <2>1. ASSUME NEW i \in 0 .. size - 1
        PROVE  /\ nt + i \in DOMAIN s2.stack
               /\ s2.stack[nt + i] = FrameByte(d, k, i)
    <3>1. /\ nt + i \in nt .. end - 1 /\ nt + i \in 0 .. area - 1
          /\ (nt + i) - nt = i
      BY <1>1, <1>2, <1>3
    <3> QED BY <1>5, <1>7, <1>8, <3>1
  <2>2. s2.stack[nt + 0] = FrameByte(d, k, 0) BY <1>2, <2>1
  <2> QED BY <1>1, <2>1, <2>2, SingleFrame DEF size
<1>11. Bytes(s2) BY <1>5, <1>6, <1>8 DEF Bytes, Block
<1> HIDE DEF end
<1>12. Region(s2, nb, end, t, d - 1)
  <2>1. d - 1 \in Nat /\ d \in Nat OBVIOUS
  <2> QED BY <1>9, <1>10, <1>11, <2>1, JoinedRegions
<1>13. Region(s2, ob, area, bottom, 0) /\ Shifted(s, s2, ob, area, 0)
  <2>1. Shifted(s, s2, ob, area, 0)
    BY <1>1, <1>3, <1>5, <1>7, <1>8 DEF Shifted
  <2> QED BY <1>1, <2>1, KeptRegion
<1>14. Sound(s2, t, d - 1, bottom)
  <2>1. nb <= end /\ sc <= (IF nb = end THEN ob ELSE nb) BY <1>1, <1>3, <1>8
  <2> QED BY <1>1, <1>3, <1>4, <1>6, <1>8, <1>12, <1>13, <2>1, SoundFields
<1>15. SameText(s, s2)
  BY <1>1, <1>3, <1>5, <1>7, <1>8 DEF SameText, sc
<1>16. Saved(s2, nt) = [depth |-> d, kind |-> k]
  BY <1>10 DEF Saved, FrameByte
<1> QED BY <1>1, <1>5, <1>9, <1>10, <1>13, <1>14, <1>15, <1>16 DEF s2, nb, nt, ob, area

Limit(s) == IF NewEmpty(s) THEN s.old_stack_bottom ELSE s.new_stack_bottom

\* eu_stack_reserve_scratch's bigger block holds the same frames and text.
LEMMA MovedUpSound ==
    ASSUME NEW s, NEW t \in Nat, NEW mid \in Nat, NEW n \in Nat,
           Sound(s, t, mid, mid), s.scratch_size <= n,
           NEW a \in Doubled(s.stack_area_size, ReserveSize(s, n))
    PROVE  LET s2 == MovedUp(s, a)
           IN  /\ Sound(s2, t, mid, mid) /\ n <= Limit(s2)
               /\ SameText(s, s2) /\ Carried(s, s2)
<1> DEFINE nb == s.new_stack_bottom
           nt == s.new_stack_top
           ob == s.old_stack_bottom
           area == s.stack_area_size
           sc == s.scratch_size
           new == nt - nb
           old == area - ob
           ob2 == a - old
           nb2 == ob2 - new
           m1 == Copy(Malloc(a), 0, s.stack, 0, sc)
           m2 == Copy(m1, ob2, s.stack, ob, old)
           m3 == Copy(m2, nb2, s.stack, nb, new)
           s2 == MovedUp(s, a)
<1>1. /\ nb \in Nat /\ nt \in Nat /\ ob \in Nat /\ area \in Nat /\ sc \in Nat
      /\ nb <= nt /\ nt <= ob /\ ob <= area
      /\ sc <= (IF nb = nt THEN ob ELSE nb)
      /\ Aligned(nb) /\ Aligned(nt) /\ Aligned(ob) /\ Aligned(area)
      /\ Block(s.stack, area) /\ Bytes(s)
      /\ Region(s, nb, nt, t, mid) /\ Region(s, ob, area, mid, 0)
  BY SoundFacts DEF NewEmpty
<1>2. s2 = Fields(m3, sc, nb2, ob2, ob2, a) BY DEF MovedUp, NewSize
<1>3. /\ old \in Nat /\ new \in Nat /\ ob + old = area /\ nb + new = nt
      /\ sc <= area /\ nb + new <= area
  BY <1>1
<1>4. /\ RoundUp(n) \in Nat /\ n <= RoundUp(n)
      /\ a \in Doubled(area, RoundUp(n) + new + old)
  BY RoundUpFacts DEF ReserveSize, NewSize
<1>5. sc <= n OBVIOUS
<1> HIDE DEF nb, nt, ob, area, sc, old, new, s2
<1>6. Aligned(old) /\ Aligned(new)
  <2>1. Aligned(old) BY <1>1, AlignedSum DEF old
  <2>2. Aligned(new) BY <1>1, AlignedSum DEF new
  <2> QED BY <2>1, <2>2
<1>7. /\ a \in Nat /\ a >= RoundUp(n) + new + old /\ Aligned(a)
  <2>1. RoundUp(n) + new + old \in Nat BY <1>3, <1>4
  <2> QED BY <1>1, <1>4, <2>1, DoubledFacts
<1>8. /\ ob2 \in Nat /\ nb2 \in Nat /\ n <= nb2 /\ nb2 <= ob2
      /\ ob2 + old = a /\ nb2 + new = ob2
  BY <1>3, <1>4, <1>7
<1>9. Aligned(ob2) /\ Aligned(nb2)
  <2>1. Aligned(ob2) BY <1>3, <1>6, <1>7, AlignedSum
  <2>2. ob2 \in Int /\ new \in Int BY <1>3, <1>8
  <2> HIDE DEF ob2
  <2> QED BY <1>6, <2>1, <2>2, AlignedSum
<1> HIDE DEF ob2, nb2
<1>10. /\ Block(m1, a)
       /\ \A o \in 0 .. a - 1 : o \in 0 .. sc - 1 => m1[o] = s.stack[o]
  <2>1. Block(Malloc(a), a) BY <1>7, MallocBlock
  <2>2. 0 + sc <= area BY <1>1, <1>3
  <2> HIDE DEF m1
  <2>3. Block(Copy(Malloc(a), 0, s.stack, 0, sc), a)
    BY <1>1, <1>7, <2>1, <2>2, Copied
  <2>4. \A o \in 0 .. a - 1 :
            Copy(Malloc(a), 0, s.stack, 0, sc)[o]
               = IF o \in 0 .. 0 + sc - 1 THEN s.stack[o - 0 + 0]
                                          ELSE Malloc(a)[o]
    BY <2>1 DEF Copy, Block
  <2> QED BY <1>1, <2>3, <2>4 DEF m1
<1> HIDE DEF m1
<1>11. /\ Block(m2, a)
       /\ \A o \in 0 .. a - 1 :
             m2[o] = IF o \in ob2 .. ob2 + old - 1 THEN s.stack[o - ob2 + ob]
                                                   ELSE m1[o]
  <2>1. ob + old <= area BY <1>1, <1>3
  <2> HIDE DEF m2
  <2>2. Block(Copy(m1, ob2, s.stack, ob, old), a)
    BY <1>1, <1>3, <1>7, <1>8, <1>10, <2>1, Copied
  <2>3. \A o \in 0 .. a - 1 :
            Copy(m1, ob2, s.stack, ob, old)[o]
               = IF o \in ob2 .. ob2 + old - 1 THEN s.stack[o - ob2 + ob]
                                               ELSE m1[o]
    BY <1>10 DEF Copy, Block
  <2> QED BY <2>2, <2>3 DEF m2
<1> HIDE DEF m2
<1>12. /\ Block(m3, a)
       /\ \A o \in 0 .. a - 1 :
             m3[o] = IF o \in nb2 .. nb2 + new - 1 THEN s.stack[o - nb2 + nb]
                                                   ELSE m2[o]
  <2> HIDE DEF m3
  <2>2. Block(Copy(m2, nb2, s.stack, nb, new), a)
    BY <1>1, <1>3, <1>7, <1>8, <1>11, Copied
  <2>3. \A o \in 0 .. a - 1 :
            Copy(m2, nb2, s.stack, nb, new)[o]
               = IF o \in nb2 .. nb2 + new - 1 THEN s.stack[o - nb2 + nb]
                                               ELSE m2[o]
    BY <1>11 DEF Copy, Block
  <2> QED BY <2>2, <2>3 DEF m3
<1> HIDE DEF m3
<1>13. /\ s2.stack = m3 /\ s2.scratch_size = sc
       /\ s2.new_stack_bottom = nb2 /\ s2.new_stack_top = ob2
       /\ s2.old_stack_bottom = ob2 /\ s2.stack_area_size = a
  BY <1>2, FieldsOf
<1>14. Region(s2, nb2, ob2, t, mid) /\ Shifted(s, s2, nb, nt, nb2 - nb)
  <2> DEFINE d == nb2 - nb
  <2>1. /\ d \in Int /\ nb + d = nb2 /\ nt + d = ob2 /\ nb + d >= 0
    BY <1>1, <1>3, <1>8
  <2>2. Shifted(s, s2, nb, nt, d)
    <3> SUFFICES ASSUME NEW o \in nb .. nt - 1
                 PROVE  /\ o + d \in DOMAIN s2.stack
                        /\ s2.stack[o + d] = s.stack[o]
      BY DEF Shifted
    <3>1. /\ o + d \in nb2 .. nb2 + new - 1 /\ o + d \in 0 .. a - 1
          /\ (o + d) - nb2 + nb = o
      BY <1>1, <1>3, <1>8, <2>1
    <3> QED BY <1>12, <1>13, <3>1 DEF Block
  <2> HIDE DEF d
  <2>3. Region(s2, nb + d, nt + d, t, mid)
    BY <1>1, <2>1, <2>2, MovedRegion
  <2> QED BY <2>1, <2>2, <2>3 DEF d
<1>15. Region(s2, ob2, a, mid, 0) /\ Shifted(s, s2, ob, area, ob2 - ob)
  <2> DEFINE d == ob2 - ob
  <2>1. /\ d \in Int /\ ob + d = ob2 /\ area + d = a /\ ob + d >= 0
    BY <1>1, <1>3, <1>8
  <2>2. Shifted(s, s2, ob, area, d)
    <3> SUFFICES ASSUME NEW o \in ob .. area - 1
                 PROVE  /\ o + d \in DOMAIN s2.stack
                        /\ s2.stack[o + d] = s.stack[o]
      BY DEF Shifted
    <3>1. /\ o + d \in ob2 .. ob2 + old - 1 /\ o + d \in 0 .. a - 1
          /\ (o + d) - ob2 + ob = o /\ ~(o + d \in nb2 .. nb2 + new - 1)
      BY <1>1, <1>3, <1>8, <2>1
    <3> QED BY <1>11, <1>12, <1>13, <3>1 DEF Block
  <2> HIDE DEF d
  <2>3. Region(s2, ob + d, area + d, mid, 0)
    BY <1>1, <2>1, <2>2, MovedRegion
  <2> QED BY <2>1, <2>2, <2>3 DEF d
<1>16. Sound(s2, t, mid, mid)
  <2>1. ob2 <= a /\ ob2 <= ob2 /\ sc <= (IF nb2 = ob2 THEN ob2 ELSE nb2)
    BY <1>1, <1>3, <1>5, <1>8
  <2> QED BY <1>1, <1>2, <1>7, <1>8, <1>9, <1>12, <1>14, <1>15, <2>1,
             SoundFields
<1>17. SameText(s, s2)
  <2>1. ASSUME NEW o \in 0 .. sc - 1 PROVE m3[o] = s.stack[o]
    <3>1. /\ o \in 0 .. a - 1 /\ ~(o \in nb2 .. nb2 + new - 1)
          /\ ~(o \in ob2 .. ob2 + old - 1)
      BY <1>1, <1>3, <1>5, <1>8
    <3> QED BY <1>10, <1>11, <1>12, <3>1
  <2> QED BY <1>13, <2>1 DEF SameText, sc
<1>18. n <= Limit(s2) BY <1>8, <1>13 DEF Limit, NewEmpty
<1>19. Carried(s, s2)
  <2>1. ob2 - nb2 = nt - nb /\ a - ob2 = area - ob BY <1>1, <1>3, <1>8
  <2> QED BY <1>13, <1>14, <1>15, <2>1 DEF Carried, NewSize, nb, nt, ob, area
<1> QED BY <1>16, <1>17, <1>18, <1>19 DEF s2

\* eu_stack_reserve_scratch: there is room, and nothing is lost.
LEMMA ReserveSound ==
    ASSUME NEW s, NEW t \in Nat, NEW mid \in Nat, NEW n \in Nat,
           Sound(s, t, mid, mid), NEW s2 \in Reserve(s, n)
    PROVE  /\ \E m \in Nat : Sound(s2, t, m, m)
           /\ n <= Limit(s2)
           /\ SameText(s, s2)
           /\ s2 = s \/ Merged(s, s2) \/ Carried(s, s2)
<1>1. CASE HasRoom(s, n)
  <2>1. s2 = s BY <1>1 DEF Reserve
  <2> QED BY <1>1, <2>1 DEF HasRoom, Limit, SameText
<1>2. CASE ~HasRoom(s, n) /\ ConsolidatingHelps(s, n)
  <2>1. s2 = BeginPause(s) BY <1>2 DEF Reserve
  <2>2. /\ Sound(s2, t, t, t) /\ NewEmpty(s2) /\ SameText(s, s2)
        /\ s2.old_stack_bottom = s.old_stack_bottom - NewSize(s)
        /\ Merged(s, s2)
    BY <2>1, BeginPauseSound
  <2> QED BY <1>2, <2>2 DEF ConsolidatingHelps, Limit
<1>3. CASE ~HasRoom(s, n) /\ ~ConsolidatingHelps(s, n)
  <2>1. PICK a \in Doubled(s.stack_area_size, ReserveSize(s, n)) :
            s2 = MovedUp(s, a)
    BY <1>3 DEF Reserve
  <2>2. s.scratch_size <= n
    <3>1. Layout(s) /\ StackTypeOK(s) BY DEF Sound
    <3> QED BY <1>3, <3>1 DEF HasRoom, Layout, StackTypeOK, NewEmpty
  <2> QED BY <2>1, <2>2, MovedUpSound
<1> QED BY <1>1, <1>2, <1>3

Text(s) == \A o \in 0 .. s.scratch_size - 1 :
              o \in DOMAIN s.stack /\ s.stack[o].kind \in Chars

\* What is added to the text comes behind it.
TextStays(s, s2) ==
    /\ s.scratch_size <= s2.scratch_size
    /\ \A o \in 0 .. s.scratch_size - 1 : s2.stack[o] = s.stack[o]

\* Bytes written where there is room for them are not those of a frame.
LEMMA WriteTextSound ==
    ASSUME NEW s, NEW t \in Nat, NEW mid \in Nat,
           NEW keep \in Nat, NEW n \in Nat, NEW m \in 0 .. n, NEW c \in Chars,
           Sound(s, t, mid, mid), Text(s), keep <= s.scratch_size,
           keep + n <= Limit(s)
    PROVE  LET s2 == WriteText(s, keep, n, m, c)
           IN  /\ Sound(s2, t, mid, mid) /\ Text(s2) /\ Carried(s, s2)
               /\ keep = s.scratch_size => TextStays(s, s2)
<1> DEFINE nb == s.new_stack_bottom
           nt == s.new_stack_top
           ob == s.old_stack_bottom
           area == s.stack_area_size
           mem == [o \in DOMAIN s.stack |-> IF o \in keep .. keep + n - 1
                                            THEN TextByte(c) ELSE s.stack[o]]
           s2 == WriteText(s, keep, n, m, c)
<1>1. /\ nb \in Nat /\ nt \in Nat /\ ob \in Nat /\ area \in Nat
      /\ s.scratch_size \in Nat
      /\ nb <= nt /\ nt <= ob /\ ob <= area
      /\ Aligned(nb) /\ Aligned(nt) /\ Aligned(ob) /\ Aligned(area)
      /\ Block(s.stack, area) /\ Bytes(s)
      /\ DOMAIN s.stack = 0 .. area - 1
      /\ Region(s, nb, nt, t, mid) /\ Region(s, ob, area, mid, 0)
  BY SoundFacts
<1>2. s2 = Fields(mem, keep + m, nb, nt, ob, area) BY DEF WriteText
<1>3. /\ s2.stack = mem /\ s2.scratch_size = keep + m
      /\ s2.new_stack_bottom = nb /\ s2.new_stack_top = nt
      /\ s2.old_stack_bottom = ob /\ s2.stack_area_size = area
  BY <1>2, FieldsOf
<1>4. keep + n <= (IF nb = nt THEN ob ELSE nb) BY DEF Limit, NewEmpty
<1> HIDE DEF nb, nt, ob, area, s2
<1>5. Block(mem, area)
  <2>1. TextByte(c) \in Byte BY DEF TextByte, Byte
  <2> QED BY <1>1, <2>1 DEF Block
<1>6. \A o \in 0 .. area - 1 : mem[o] = IF o \in keep .. keep + n - 1
                                        THEN TextByte(c) ELSE s.stack[o]
  BY <1>1
<1>7. DOMAIN mem = 0 .. area - 1 BY <1>1
<1> HIDE DEF mem
<1>8. Region(s2, nb, nt, t, mid) /\ Shifted(s, s2, nb, nt, 0)
  <2>1. Shifted(s, s2, nb, nt, 0)
    BY <1>1, <1>3, <1>4, <1>6, <1>7 DEF Shifted
  <2> QED BY <1>1, <2>1, KeptRegion
<1>9. Region(s2, ob, area, mid, 0) /\ Shifted(s, s2, ob, area, 0)
  <2>1. Shifted(s, s2, ob, area, 0)
    BY <1>1, <1>3, <1>4, <1>6, <1>7 DEF Shifted
  <2> QED BY <1>1, <2>1, KeptRegion
<1>10. Sound(s2, t, mid, mid)
  <2>1. keep + m \in Nat /\ keep + m <= (IF nb = nt THEN ob ELSE nb)
    BY <1>1, <1>4
  <2> QED BY <1>1, <1>2, <1>5, <1>8, <1>9, <2>1, SoundFields
<1>11. Text(s2)
  <2> SUFFICES ASSUME NEW o \in 0 .. keep + m - 1
               PROVE  o \in 0 .. area - 1 /\ mem[o].kind \in Chars
    BY <1>3, <1>7 DEF Text
  <2>1. o \in 0 .. area - 1 BY <1>1, <1>4
  <2>2. CASE o < keep
    <3>1. o \in 0 .. s.scratch_size - 1 BY <1>1, <2>2
    <3>2. s.stack[o].kind \in Chars BY <3>1 DEF Text
    <3> QED BY <1>6, <2>1, <2>2, <3>2
  <2>3. CASE o >= keep
    <3>1. mem[o] = TextByte(c) BY <1>6, <2>1, <2>3
    <3> QED BY <2>1, <3>1 DEF TextByte
  <2> QED BY <2>2, <2>3
<1>12. Carried(s, s2)
  <2>1. nb - nb = 0 /\ ob - ob = 0 BY <1>1
  <2> QED BY <1>3, <1>8, <1>9, <2>1 DEF Carried, NewSize, nb, nt, ob, area
<1>13. ASSUME keep = s.scratch_size
       PROVE  /\ s.scratch_size <= s2.scratch_size
              /\ \A o \in 0 .. s.scratch_size - 1 : s2.stack[o] = s.stack[o]
  <2>1. s.scratch_size <= keep + m BY <1>1, <1>13
  <2>2. ASSUME NEW o \in 0 .. s.scratch_size - 1 PROVE mem[o] = s.stack[o]
    <3>1. o \in 0 .. area - 1 /\ ~(o \in keep .. keep + n - 1)
      BY <1>1, <1>4, <1>13, SMTT(60)
    <3> QED BY <1>6, <3>1
  <2> QED BY <1>3, <2>1, <2>2
<1> QED BY <1>10, <1>11, <1>12, <1>13 DEF s2, TextStays

\* A block that starts with the same bytes has the same scratch text.
LEMMA SameTextKept ==
    ASSUME NEW s, NEW s2, NEW t, NEW mid, NEW bottom,
           NEW t2, NEW mid2, NEW bottom2,
           Sound(s, t, mid, bottom), Sound(s2, t2, mid2, bottom2),
           SameText(s, s2), Text(s)
    PROVE  Text(s2)
<1>1. /\ s2.scratch_size \in Nat /\ s2.stack_area_size \in Nat
      /\ s2.new_stack_bottom \in Nat /\ s2.new_stack_top \in Nat
      /\ s2.old_stack_bottom \in Nat
      /\ s2.new_stack_bottom <= s2.new_stack_top
      /\ s2.new_stack_top <= s2.old_stack_bottom
      /\ s2.old_stack_bottom <= s2.stack_area_size
      /\ s2.scratch_size <= (IF NewEmpty(s2) THEN s2.old_stack_bottom
                                             ELSE s2.new_stack_bottom)
      /\ DOMAIN s2.stack = 0 .. s2.stack_area_size - 1
  BY SoundFacts
<1>2. s2.scratch_size <= s2.stack_area_size BY <1>1
<1> QED BY <1>1, <1>2 DEF SameText, Text

\* Popping takes the innermost frame: the first of the new ones ...
LEMMA PopNewSound ==
    ASSUME NEW s, NEW t \in Nat, NEW mid \in Nat, NEW bottom \in Nat,
           Sound(s, t, mid, bottom), ~NewEmpty(s)
    PROVE  LET o  == s.new_stack_bottom
               s2 == [s EXCEPT !.new_stack_bottom =
                                  o + FrameSize(s.stack[o].kind)]
           IN  /\ Sound(s2, t - 1, mid, bottom)
               /\ t >= 1 /\ s.stack[o].depth = t
               /\ o \in DOMAIN s.stack /\ s.stack[o].kind \in Kinds
               /\ SameText(s, s2)
<1> DEFINE nb == s.new_stack_bottom
           nt == s.new_stack_top
           ob == s.old_stack_bottom
           area == s.stack_area_size
           sc == s.scratch_size
           size == FrameSize(s.stack[nb].kind)
           s2 == [s EXCEPT !.new_stack_bottom = nb + size]
<1>1. /\ nb \in Nat /\ nt \in Nat /\ ob \in Nat /\ area \in Nat /\ sc \in Nat
      /\ nb <= nt /\ nt <= ob /\ ob <= area
      /\ sc <= nb /\ nb # nt
      /\ Aligned(nb) /\ Aligned(nt) /\ Aligned(ob) /\ Aligned(area)
      /\ Block(s.stack, area) /\ Bytes(s)
      /\ Region(s, nb, nt, t, mid) /\ Region(s, ob, area, bottom, 0)
  BY SoundFacts DEF NewEmpty
<1>2. s = Fields(s.stack, sc, nb, nt, ob, area) BY DEF Sound, StackTypeOK
<1>3. s2 = Fields(s.stack, sc, nb + size, nt, ob, area) BY <1>2 DEF Fields
<1>4. /\ s2.stack = s.stack /\ s2.scratch_size = sc
      /\ s2.new_stack_bottom = nb + size
  BY <1>3, FieldsOf
<1> HIDE DEF nb, nt, ob, area, sc, s2
<1>5. /\ nb \in DOMAIN s.stack /\ s.stack[nb].kind \in Kinds
      /\ s.stack[nb].depth = t /\ t >= 1
      /\ nb + size <= nt /\ Region(s, nb + size, nt, t - 1, mid)
  <2>1. nb < nt BY <1>1
  <2> QED BY <1>1, <2>1, PoppedRegion
<1>6. size \in Nat /\ size >= 1 /\ Aligned(size) BY <1>5, FrameSizeFacts
<1> HIDE DEF size
<1>7. /\ Region(s2, nb + size, nt, t - 1, mid)
      /\ Region(s2, ob, area, bottom, 0)
  <2>1. Shifted(s, s2, nb + size, nt, 0)
    BY <1>1, <1>4, <1>5, <1>6, SMTT(60) DEF Shifted, Block
  <2>2. Shifted(s, s2, ob, area, 0)
    BY <1>1, <1>4, SMTT(60) DEF Shifted, Block
  <2>3. t - 1 \in Nat BY <1>5
  <2> QED BY <1>1, <1>5, <2>1, <2>2, <2>3, KeptRegion
<1>8. Sound(s2, t - 1, mid, bottom)
  <2>1. /\ nb + size \in Nat /\ Aligned(nb + size)
        /\ sc <= (IF nb + size = nt THEN ob ELSE nb + size)
    BY <1>1, <1>5, <1>6, AlignedSum
  <2> QED BY <1>1, <1>3, <1>5, <1>7, <2>1, SoundFields
<1>9. SameText(s, s2) BY <1>4 DEF SameText, sc
<1> QED BY <1>5, <1>8, <1>9 DEF s2, nb, size

\* ... or, when there is none, of the old ones.
LEMMA PopOldSound ==
    ASSUME NEW s, NEW t \in Nat, NEW mid \in Nat,
           Sound(s, t, mid, mid), NewEmpty(s), ~OldEmpty(s)
    PROVE  LET o  == s.old_stack_bottom
               s2 == [s EXCEPT !.old_stack_bottom =
                                  o + FrameSize(s.stack[o].kind)]
           IN  /\ Sound(s2, t - 1, t - 1, t - 1)
               /\ t >= 1 /\ s.stack[o].depth = t
               /\ o \in DOMAIN s.stack /\ s.stack[o].kind \in Kinds
               /\ SameText(s, s2)
<1> DEFINE nb == s.new_stack_bottom
           nt == s.new_stack_top
           ob == s.old_stack_bottom
           area == s.stack_area_size
           sc == s.scratch_size
           size == FrameSize(s.stack[ob].kind)
           s2 == [s EXCEPT !.old_stack_bottom = ob + size]
<1>1. /\ nb \in Nat /\ nt \in Nat /\ ob \in Nat /\ area \in Nat /\ sc \in Nat
      /\ nb = nt /\ nt <= ob /\ ob <= area
      /\ sc <= ob /\ ob # area
      /\ Aligned(nb) /\ Aligned(nt) /\ Aligned(ob) /\ Aligned(area)
      /\ Block(s.stack, area) /\ Bytes(s)
      /\ Region(s, nb, nt, t, mid) /\ Region(s, ob, area, mid, 0)
  BY SoundFacts DEF NewEmpty, OldEmpty
<1>2. s = Fields(s.stack, sc, nb, nt, ob, area) BY DEF Sound, StackTypeOK
<1>3. s2 = Fields(s.stack, sc, nb, nt, ob + size, area) BY <1>2 DEF Fields
<1>4. /\ s2.stack = s.stack /\ s2.scratch_size = sc
      /\ s2.old_stack_bottom = ob + size
  BY <1>3, FieldsOf
<1>5. t = mid BY <1>1 DEF Region, Descending
<1> HIDE DEF nb, nt, ob, area, sc, s2
<1>6. /\ ob \in DOMAIN s.stack /\ s.stack[ob].kind \in Kinds
      /\ s.stack[ob].depth = t /\ t >= 1
      /\ ob + size <= area /\ Region(s, ob + size, area, t - 1, 0)
  <2>1. ob < area /\ 0 \in Nat BY <1>1
  <2> QED BY <1>1, <1>5, <2>1, PoppedRegion
<1>7. size \in Nat /\ size >= 1 /\ Aligned(size) BY <1>6, FrameSizeFacts
<1> HIDE DEF size
<1>8. /\ Region(s2, nb, nt, t - 1, t - 1)
      /\ Region(s2, ob + size, area, t - 1, 0)
  <2>1. Shifted(s, s2, ob + size, area, 0)
    BY <1>1, <1>4, <1>6, <1>7 DEF Shifted, Block
  <2>2. t - 1 \in Nat BY <1>6
  <2>3. Region(s2, ob + size, area, t - 1, 0)
    BY <1>1, <1>6, <2>1, <2>2, KeptRegion
  <2>4. Region(s2, nb, nt, t - 1, t - 1)
    BY <1>1 DEF Region, Framed, Descending
  <2> QED BY <2>3, <2>4
<1>9. Sound(s2, t - 1, t - 1, t - 1)
  <2>1. /\ ob + size \in Nat /\ Aligned(ob + size) /\ nt <= ob + size
        /\ sc <= (IF nb = nt THEN ob + size ELSE nb) /\ nb <= nt
    BY <1>1, <1>6, <1>7, AlignedSum
  <2> QED BY <1>1, <1>3, <1>6, <1>8, <2>1, SoundFields
<1>10. SameText(s, s2) BY <1>4 DEF SameText, sc
<1> QED BY <1>6, <1>9, <1>10 DEF s2, ob, size

\* What the bytes of no region hold does not matter.
LEMMA ForgottenSound ==
    ASSUME NEW s, NEW t \in Nat, NEW mid \in Nat, Sound(s, t, mid, mid)
    PROVE  /\ Sound(Forgotten(s), t, mid, mid) /\ SameText(s, Forgotten(s))
           /\ Carried(s, Forgotten(s))
<1> DEFINE nb == s.new_stack_bottom
           nt == s.new_stack_top
           ob == s.old_stack_bottom
           area == s.stack_area_size
           sc == s.scratch_size
           mem == [o \in DOMAIN s.stack |->
                      IF InRegion(s, o) THEN s.stack[o] ELSE Junk]
           s2 == Forgotten(s)
<1>1. /\ nb \in Nat /\ nt \in Nat /\ ob \in Nat /\ area \in Nat /\ sc \in Nat
      /\ nb <= nt /\ nt <= ob /\ ob <= area
      /\ sc <= (IF nb = nt THEN ob ELSE nb)
      /\ Aligned(nb) /\ Aligned(nt) /\ Aligned(ob) /\ Aligned(area)
      /\ Block(s.stack, area) /\ Bytes(s)
      /\ DOMAIN s.stack = 0 .. area - 1
      /\ Region(s, nb, nt, t, mid) /\ Region(s, ob, area, mid, 0)
  BY SoundFacts DEF NewEmpty
<1>2. s = Fields(s.stack, sc, nb, nt, ob, area) BY DEF Sound, StackTypeOK
<1>3. s2 = Fields(mem, sc, nb, nt, ob, area) BY <1>2 DEF Forgotten, Fields
<1>4. s2.stack = mem /\ s2.scratch_size = sc BY <1>3, FieldsOf
<1>5. \A o \in 0 .. area - 1 :
         /\ mem[o] = IF InRegion(s, o) THEN s.stack[o] ELSE Junk
         /\ InRegion(s, o) <=> o < sc \/ (o >= nb /\ o < nt) \/ o >= ob
  BY <1>1 DEF InRegion
<1> HIDE DEF nb, nt, ob, area, sc, s2
<1>6. Block(mem, area) /\ DOMAIN mem = 0 .. area - 1
  <2>1. Junk \in Byte BY DEF Junk, Byte
  <2> QED BY <1>1, <2>1 DEF Block
<1> HIDE DEF mem
<1>7. /\ Region(s2, nb, nt, t, mid) /\ Shifted(s, s2, nb, nt, 0)
      /\ Region(s2, ob, area, mid, 0) /\ Shifted(s, s2, ob, area, 0)
  <2>1. Shifted(s, s2, nb, nt, 0)
    BY <1>1, <1>4, <1>5, <1>6, SMTT(60) DEF Shifted
  <2>2. Shifted(s, s2, ob, area, 0)
    BY <1>1, <1>4, <1>5, <1>6 DEF Shifted
  <2> QED BY <1>1, <2>1, <2>2, KeptRegion
<1>8. Sound(s2, t, mid, mid) BY <1>1, <1>3, <1>6, <1>7, SoundFields
<1>9. SameText(s, s2) BY <1>1, <1>4, <1>5 DEF SameText, sc
<1>10. Carried(s, s2)
  <2>1. nb - nb = 0 /\ ob - ob = 0 BY <1>1
  <2>2. /\ s2.new_stack_bottom = nb /\ s2.new_stack_top = nt
        /\ s2.old_stack_bottom = ob /\ s2.stack_area_size = area
    BY <1>3, FieldsOf
  <2> QED BY <1>7, <2>1, <2>2 DEF Carried, NewSize, nb, nt, ob, area
<1> QED BY <1>8, <1>9, <1>10 DEF s2

\* Dropping the scratch text leaves the frames alone.
LEMMA ResetSound ==
    ASSUME NEW s, NEW t \in Nat, NEW mid \in Nat, Sound(s, t, mid, mid)
    PROVE  Sound([s EXCEPT !.scratch_size = 0], t, mid, mid)
<1> DEFINE nb == s.new_stack_bottom
           nt == s.new_stack_top
           ob == s.old_stack_bottom
           area == s.stack_area_size
           s2 == [s EXCEPT !.scratch_size = 0]
<1>1. /\ nb \in Nat /\ nt \in Nat /\ ob \in Nat /\ area \in Nat
      /\ nb <= nt /\ nt <= ob /\ ob <= area
      /\ Aligned(nb) /\ Aligned(nt) /\ Aligned(ob) /\ Aligned(area)
      /\ Block(s.stack, area) /\ Bytes(s)
      /\ Region(s, nb, nt, t, mid) /\ Region(s, ob, area, mid, 0)
  BY SoundFacts
<1>2. s = Fields(s.stack, s.scratch_size, nb, nt, ob, area)
  BY DEF Sound, StackTypeOK
<1>3. s2 = Fields(s.stack, 0, nb, nt, ob, area) BY <1>2 DEF Fields
<1>4. s2.stack = s.stack BY <1>3, FieldsOf
<1> HIDE DEF nb, nt, ob, area, s2
<1>5. Region(s2, nb, nt, t, mid) /\ Region(s2, ob, area, mid, 0)
  <2>1. Shifted(s, s2, nb, nt, 0) /\ Shifted(s, s2, ob, area, 0)
    BY <1>1, <1>4 DEF Shifted, Region
  <2> QED BY <1>1, <2>1, KeptRegion
<1>6. 0 <= (IF nb = nt THEN ob ELSE nb) /\ 0 \in Nat BY <1>1
<1>7. Sound(s2, t, mid, mid) BY <1>1, <1>3, <1>5, <1>6, SoundFields
<1> QED BY <1>7 DEF s2

\* The depth of the innermost old frame is what it must be.
LEMMA SoundOldDepth ==
    ASSUME NEW s, NEW t, NEW mid, NEW bottom \in Nat, Sound(s, t, mid, bottom)
    PROVE  OldDepth(s) = bottom
<1>1. /\ s.old_stack_bottom \in Nat /\ s.stack_area_size \in Nat
      /\ s.old_stack_bottom <= s.stack_area_size
      /\ Region(s, s.old_stack_bottom, s.stack_area_size, bottom, 0)
  BY SoundFacts
<1> QED BY <1>1 DEF OldDepth, OldEmpty, Region, Descending

\* Intact is soundness with nothing between new and old frames.
LEMMA IntactIffSound ==
    ASSUME NEW s, NEW t \in Nat, StackTypeOK(s)
    PROVE  Intact(s, t) <=> \E mid \in Nat : Sound(s, t, mid, mid)
<1>1. ASSUME Intact(s, t) PROVE \E mid \in Nat : Sound(s, t, mid, mid)
  <2>1. OldDepth(s) \in Nat
    BY <1>1 DEF OldDepth, OldEmpty, Intact, Layout, StackTypeOK, Byte
  <2>2. Sound(s, t, OldDepth(s), OldDepth(s)) BY <1>1, SoundIff DEF Intact
  <2> QED BY <2>1, <2>2
<1>2. ASSUME NEW mid \in Nat, Sound(s, t, mid, mid) PROVE Intact(s, t)
  <2>1. OldDepth(s) = mid BY <1>2, SoundOldDepth
  <2>2. Layout(s) BY <1>2 DEF Sound
  <2> QED BY <1>2, <2>1, <2>2, SoundIff DEF Intact
<1> QED BY <1>1, <1>2

-----------------------------------------------------------------------------
(***************************************************************************)
(* The inductive invariant: FramesIntact needs the types, what a pop       *)
(* leaves behind for EU_REINSTATE_PAUSED, and the depth of the frame that  *)
(* was popped, to be preserved by the resumed parser's steps.              *)
(***************************************************************************)
IInv == TypeOK /\ FramesIntact /\ ResumesInnermost /\ CanReinstate /\ ScratchIsText

\* eu_stack_init's single frame satisfies the invariant.
LEMMA InitIInv == Init => IInv
<1> SUFFICES ASSUME Init PROVE IInv OBVIOUS
<1> DEFINE n == Size[InitialKind]
           mem == [o \in 0 .. n - 1 |-> FrameByte(1, InitialKind, o)]
           s == Fields(mem, 0, 0, 0, 0, n)
<1>1. /\ st = s /\ pc = "waiting" /\ lo = 0 /\ hi = 0 /\ top = 1
      /\ f = 0 /\ fromNew = FALSE /\ touched = FALSE
  BY DEF Init
<1>2. n \in Nat /\ n >= 1 /\ Aligned(n)
  BY KindsAssumption, InitialSizeAssumption DEF Aligned
<1>3. FrameSize(InitialKind) = n
  <2>1. RoundUp(n) <= n BY <1>2, RoundUpLeast
  <2>2. RoundUp(n) >= n /\ RoundUp(n) \in Nat BY <1>2, RoundUpFacts
  <2> QED BY <1>2, <2>1, <2>2 DEF FrameSize
<1> HIDE DEF n
<1>4. Block(mem, n)
  <2>1. ASSUME NEW o \in 0 .. n - 1 PROVE FrameByte(1, InitialKind, o) \in Byte
    BY <1>2, KindsAssumption DEF FrameByte, Byte
  <2> QED BY <2>1 DEF Block
<1>5. \A o \in 0 .. n - 1 : /\ o \in DOMAIN mem
                            /\ mem[o] = FrameByte(1, InitialKind, o)
  OBVIOUS
<1> HIDE DEF mem
<1>6. s.stack = mem BY FieldsOf
<1>7. Region(s, 0, n, 1, 0)
  <2> HIDE DEF s
  <2> DEFINE z == 0
             d == 1
  <2>1. z \in Nat /\ d \in Nat \ {0} /\ z + n = n /\ d - 1 = 0 BY <1>2
  <2>2. ASSUME NEW i \in 0 .. FrameSize(InitialKind) - 1
        PROVE  /\ z + i \in DOMAIN s.stack
               /\ s.stack[z + i] = FrameByte(d, InitialKind, i)
    BY <1>3, <1>5, <1>6
  <2> HIDE DEF z, d
  <2>3. Region(s, z, z + FrameSize(InitialKind), d, d - 1)
    BY <2>1, <2>2, KindsAssumption, SingleFrame
  <2> QED BY <1>3, <2>1, <2>3 DEF z, d
<1>8. Region(s, 0, 0, 1, 1) BY DEF Region, Framed, Descending
<1>9. Aligned(0) BY WordSizeAssumption DEF Aligned
<1>10. Sound(s, 1, 1, 1) BY <1>2, <1>4, <1>7, <1>8, <1>9, SoundFields
<1>11. StackTypeOK(s) /\ Intact(s, 1)
  <2>1. StackTypeOK(s) BY <1>10 DEF Sound
  <2> QED BY <1>10, <2>1, IntactIffSound
<1>12. s.scratch_size = 0 BY FieldsOf
<1> HIDE DEF s
<1>13. TypeOK BY <1>1, <1>11 DEF TypeOK, States
<1>14. FramesIntact BY <1>1, <1>11 DEF FramesIntact
<1>15. ScratchIsText BY <1>1, <1>12 DEF ScratchIsText
<1> QED BY <1>1, <1>13, <1>14, <1>15
      DEF IInv, ResumesInnermost, CanReinstate

\* The states in which all paused parsers' frames are on the stack.
LEMMA SettledIInv ==
    ASSUME TypeOK', pc' \notin {"pausing", "resumed"},
           pc' # "freed" => \E mid \in Nat : Sound(st', top', mid, mid),
           Text(st')
    PROVE  IInv'
<1>1. pc' # "freed" => Intact(st', top')
  <2>1. StackTypeOK(st') /\ top' \in Nat BY DEF TypeOK
  <2> QED BY <2>1, IntactIffSound
<1> QED BY <1>1 DEF IInv, FramesIntact, ResumesInnermost, CanReinstate,
                    ScratchIsText, Text

\* The states in which a parser that has been resumed runs.
LEMMA ResumedIInv ==
    ASSUME TypeOK', pc' = "resumed", lo' = top' + 1, hi' >= lo',
           \E mid \in Nat : Sound(st', top', mid, mid),
           Text(st'), CanReinstate'
    PROVE  IInv'
<1>1. Intact(st', top')
  <2>1. StackTypeOK(st') /\ top' \in Nat BY DEF TypeOK
  <2> QED BY <2>1, IntactIffSound
<1> QED BY <1>1 DEF IInv, FramesIntact, ResumesInnermost, ScratchIsText, Text

\* A pop, by eu_stack_run or eu_stack_fini, takes the frame of depth top.
LEMMA PopFromSound ==
    ASSUME TypeOK, NEW mid \in Nat, Sound(st, top, mid, mid), Text(st),
           NEW isNew \in BOOLEAN, PopFrom(isNew)
    PROVE  /\ StackTypeOK(st') /\ f' \in Nat /\ fromNew' \in BOOLEAN
           /\ top' \in Nat /\ lo' = top' + 1 /\ hi' = lo' /\ lo' \in Nat
           /\ \E m \in Nat : Sound(st', top', m, m)
           /\ Text(st')
           /\ Intact(Reinstated(st)', top' + 1)
           /\ f' = IF fromNew' THEN Reinstated(st)'.new_stack_bottom
                               ELSE Reinstated(st)'.old_stack_bottom
<1> DEFINE o == IF isNew THEN st.new_stack_bottom ELSE st.old_stack_bottom
           size == FrameSize(st.stack[o].kind)
<1>1. /\ f' = o /\ fromNew' = isNew /\ top' = top - 1
      /\ lo' = st.stack[o].depth /\ hi' = lo'
      /\ st' = IF isNew THEN [st EXCEPT !.new_stack_bottom = o + size]
                        ELSE [st EXCEPT !.old_stack_bottom = o + size]
  BY DEF PopFrom
<1>2. /\ top \in Nat /\ StackTypeOK(st) /\ o \in Nat
  BY DEF TypeOK, StackTypeOK
<1>3. /\ top >= 1 /\ st.stack[o].depth = top
      /\ st.stack[o].kind \in Kinds
      /\ \E m \in Nat : Sound(st', top - 1, m, m)
      /\ SameText(st, st')
  <2>1. CASE isNew
    <3>1. ~NewEmpty(st) BY <2>1 DEF PopFrom
    <3> QED BY <1>1, <1>2, <2>1, <3>1, PopNewSound
  <2>2. CASE ~isNew
    <3>1. NewEmpty(st) /\ ~OldEmpty(st) BY <2>2 DEF PopFrom
    <3>2. /\ top >= 1 /\ st.stack[o].depth = top
          /\ st.stack[o].kind \in Kinds
          /\ Sound(st', top - 1, top - 1, top - 1)
          /\ SameText(st, st')
      BY <1>1, <1>2, <2>2, <3>1, PopOldSound
    <3>3. top - 1 \in Nat BY <1>2, <3>2
    <3> QED BY <3>2, <3>3
  <2> QED BY <2>1, <2>2
<1>4. size \in Nat BY <1>3, FrameSizeFacts
<1>5. Reinstated(st)' = st
  <2>1. st = Fields(st.stack, st.scratch_size, st.new_stack_bottom,
                    st.new_stack_top, st.old_stack_bottom, st.stack_area_size)
    BY <1>2 DEF StackTypeOK
  <2> DEFINE a == st.stack
             b == st.scratch_size
             c == st.new_stack_bottom
             d == st.new_stack_top
             e == st.old_stack_bottom
             g == st.stack_area_size
  <2>2. c \in Nat /\ e \in Nat BY <1>2 DEF StackTypeOK
  <2>3. CASE isNew
    <3>1. st' = Fields(a, b, c + size, d, e, g) /\ o = c
      BY <1>1, <2>1, <2>3 DEF Fields
    <3>2. Reinstated(st)' = [st' EXCEPT !.new_stack_bottom = @ - size]
      <4>1. st'.stack = a BY <3>1, FieldsOf
      <4> QED BY <1>1, <2>3, <4>1 DEF Reinstated
    <3>3. Reinstated(st)' = Fields(a, b, (c + size) - size, d, e, g)
      BY <3>1, <3>2 DEF Fields
    <3>4. (c + size) - size = c BY <1>4, <2>2
    <3> QED BY <2>1, <3>3, <3>4
  <2>4. CASE ~isNew
    <3>1. st' = Fields(a, b, c, d, e + size, g) /\ o = e
      BY <1>1, <2>1, <2>4 DEF Fields
    <3>2. Reinstated(st)' = [st' EXCEPT !.old_stack_bottom = @ - size]
      <4>1. st'.stack = a BY <3>1, FieldsOf
      <4> QED BY <1>1, <2>4, <4>1 DEF Reinstated
    <3>3. Reinstated(st)' = Fields(a, b, c, d, (e + size) - size, g)
      BY <3>1, <3>2 DEF Fields
    <3>4. (e + size) - size = e BY <1>4, <2>2
    <3> QED BY <2>1, <3>3, <3>4
  <2> QED BY <2>3, <2>4
<1>6. top' \in Nat /\ top' + 1 = top BY <1>1, <1>2, <1>3
<1>7. Intact(st, top) BY <1>2, IntactIffSound
<1>8. StackTypeOK(st') BY <1>3 DEF Sound
<1>9. Text(st') BY <1>3, SameTextKept
<1>10. \E m \in Nat : Sound(st', top', m, m) BY <1>1, <1>3
<1>11. lo' = top' + 1 /\ lo' \in Nat BY <1>1, <1>2, <1>3, <1>6
<1>12. f' = IF fromNew' THEN Reinstated(st)'.new_stack_bottom
                        ELSE Reinstated(st)'.old_stack_bottom
  BY <1>1, <1>5
<1> QED BY <1>1, <1>2, <1>5, <1>6, <1>7, <1>8, <1>9, <1>10, <1>11, <1>12

\* Reserving and writing scratch text preserves the invariant.
LEMMA ReserveAndWriteIInv ==
    ASSUME IInv, NEW keep \in Nat, NEW n \in Nat, NEW m \in 0 .. n,
           keep <= st.scratch_size, ReserveAndWrite(keep, n, m)
    PROVE  IInv'
<1>1. PICK s \in Reserve(st, keep + n), c \in Chars :
          st' = WriteText(s, keep, n, m, c)
  BY DEF ReserveAndWrite
<1>2. /\ pc = "resumed" /\ pc' = pc /\ touched' = TRUE /\ lo' = lo /\ hi' = hi
      /\ top' = top /\ f' = f /\ fromNew' = fromNew
  BY DEF ReserveAndWrite
<1>3. /\ TypeOK /\ Text(st) /\ StackTypeOK(st) /\ top \in Nat
      /\ lo = top + 1 /\ hi >= lo
  BY <1>2 DEF IInv, TypeOK, ResumesInnermost, ScratchIsText, Text
<1>4. PICK mid \in Nat : Sound(st, top, mid, mid)
  BY <1>2, <1>3, IntactIffSound DEF IInv, FramesIntact
<1>5. /\ \E k \in Nat : Sound(s, top, k, k)
      /\ keep + n <= Limit(s) /\ SameText(st, s)
  BY <1>1, <1>3, <1>4, ReserveSound
<1>6. PICK k \in Nat : Sound(s, top, k, k) BY <1>5
<1>7. Text(s) BY <1>3, <1>4, <1>5, <1>6, SameTextKept
<1>8. keep <= s.scratch_size
  <2>1. st.scratch_size = s.scratch_size BY <1>5 DEF SameText
  <2> QED BY <2>1
<1>9. Sound(st', top, k, k) /\ Text(st')
  BY <1>1, <1>3, <1>5, <1>6, <1>7, <1>8, WriteTextSound
<1>10. TypeOK'
  BY <1>2, <1>3, <1>9 DEF TypeOK, Sound
<1>11. CanReinstate' BY <1>2 DEF CanReinstate
<1> QED BY <1>2, <1>3, <1>9, <1>10, <1>11, ResumedIInv

\* Putting a frame back leaves a struct eu_stack of the right type.
LEMMA ReinstatedFields ==
    ASSUME TypeOK,
           f = IF fromNew THEN Reinstated(st).new_stack_bottom
                          ELSE Reinstated(st).old_stack_bottom
    PROVE  /\ Reinstated(st).stack = st.stack
           /\ Reinstated(st).scratch_size = st.scratch_size
           /\ StackTypeOK(Reinstated(st))
<1> DEFINE size == FrameSize(st.stack[f].kind)
           a == st.stack
           b == st.scratch_size
           c == st.new_stack_bottom
           d == st.new_stack_top
           e == st.old_stack_bottom
           g == st.stack_area_size
<1>1. /\ st = Fields(a, b, c, d, e, g)
      /\ a \in [DOMAIN a -> Byte]
      /\ b \in Nat /\ c \in Nat /\ d \in Nat /\ e \in Nat /\ g \in Nat
      /\ f \in Nat
  BY DEF TypeOK, StackTypeOK
<1>2. Reinstated(st) = IF fromNew THEN [st EXCEPT !.new_stack_bottom = c - size]
                                  ELSE [st EXCEPT !.old_stack_bottom = e - size]
  BY DEF Reinstated
<1> HIDE DEF size, a, b, c, d, e, g
<1>3. Reinstated(st) = Fields(a, b, IF fromNew THEN c - size ELSE c, d,
                              IF fromNew THEN e ELSE e - size, g)
  BY <1>1, <1>2 DEF Fields
<1>4. /\ (IF fromNew THEN c - size ELSE c) \in Nat
      /\ (IF fromNew THEN e ELSE e - size) \in Nat
  BY <1>1, <1>3, FieldsOf
<1>5. StackTypeOK(Reinstated(st))
  BY <1>1, <1>3, <1>4, FieldsOf DEF StackTypeOK
<1> QED BY <1>3, <1>5, FieldsOf DEF a, b

\* The states in which the parsers save themselves.
LEMMA PausingIInv ==
    ASSUME TypeOK', pc' = "pausing", lo' >= 1, hi' >= lo',
           st'.scratch_size <= st'.new_stack_bottom,
           Sound(st', top', hi', lo' - 1), Text(st')
    PROVE  IInv'
<1>1. Layout(st') /\ StackTypeOK(st') BY DEF Sound
<1>2. Holds(st', top', hi', lo' - 1) BY <1>1, SoundIff
<1> QED BY <1>1, <1>2 DEF IInv, FramesIntact, ResumesInnermost, CanReinstate,
                          ScratchIsText, Text

\* eu_stack_begin_pause preserves the invariant.
LEMMA StartPauseIInv == IInv /\ StartPause => IInv'
<1> SUFFICES ASSUME IInv, StartPause PROVE IInv' OBVIOUS
<1>1. /\ pc = "resumed" /\ pc' = "pausing" /\ st' = BeginPause(st)
      /\ top' = hi /\ lo' = lo /\ hi' = hi /\ f' = f
      /\ fromNew' = fromNew /\ touched' = touched
  BY DEF StartPause
<1>2. /\ TypeOK /\ StackTypeOK(st) /\ top \in Nat /\ lo \in Nat /\ hi \in Nat
      /\ lo = top + 1 /\ hi >= lo /\ Text(st) /\ lo - 1 = top
  BY <1>1 DEF IInv, TypeOK, ResumesInnermost, ScratchIsText, Text
<1>3. PICK mid \in Nat : Sound(st, top, mid, mid)
  BY <1>1, <1>2, IntactIffSound DEF IInv, FramesIntact
<1>4. /\ Sound(st', top, top, top) /\ NewEmpty(st')
      /\ st'.scratch_size <= st'.new_stack_bottom /\ SameText(st, st')
  BY <1>1, <1>2, <1>3, BeginPauseSound
<1>5. Sound(st', hi, hi, top)
  <2>1. Region(st', st'.new_stack_bottom, st'.new_stack_top, hi, hi)
    BY <1>4 DEF Sound, Region, Framed, Descending, NewEmpty
  <2> QED BY <1>4, <2>1 DEF Sound
<1>6. Text(st') BY <1>2, <1>3, <1>4, SameTextKept
<1>7. TypeOK' BY <1>1, <1>2, <1>4 DEF TypeOK, Sound, States
<1>8. lo' >= 1 /\ hi' >= lo' /\ Sound(st', top', hi', lo' - 1)
  BY <1>1, <1>2, <1>5
<1> QED BY <1>1, <1>4, <1>6, <1>7, <1>8, PausingIInv

\* eu_stack_alloc finds or makes room, and the frame is put there.
LEMMA Allocated ==
    ASSUME IInv, pc = "pausing", NEW k \in Kinds, NEW s \in RoomFor(st, k)
    PROVE  LET s2 == Push(s, hi, k)
           IN  /\ Sound(st, top, hi, lo - 1)
               /\ Sound(s, top, hi, lo - 1) /\ SameText(st, s)
               /\ s = st \/ Carried(st, s)
               /\ s.scratch_size <= s.new_stack_bottom /\ AllocFits(s, k)
               /\ Sound(s2, top, hi - 1, lo - 1) /\ SameText(s, s2)
               /\ s2.scratch_size <= s2.new_stack_bottom
<1>1. /\ TypeOK /\ StackTypeOK(st) /\ top \in Nat /\ lo \in Nat /\ hi \in Nat
      /\ lo >= 1 /\ hi >= lo /\ Layout(st) /\ Holds(st, top, hi, lo - 1)
      /\ st.scratch_size <= st.new_stack_bottom
  BY DEF IInv, TypeOK, FramesIntact
<1>2. Sound(st, top, hi, lo - 1) BY <1>1, SoundIff
<1>3. lo - 1 \in Nat /\ hi \in Nat \ {0} BY <1>1
<1>4. /\ Sound(s, top, hi, lo - 1) /\ AllocFits(s, k)
      /\ s.scratch_size <= s.new_stack_bottom /\ SameText(st, s)
      /\ s = st \/ Carried(st, s)
  <2>1. CASE AllocFits(st, k)
    <3>1. s = st BY <2>1 DEF RoomFor
    <3> QED BY <1>1, <1>2, <2>1, <3>1 DEF SameText
  <2>2. CASE ~AllocFits(st, k)
    <3> DEFINE min == st.new_stack_top + FrameSize(k)
                        + (st.stack_area_size - st.old_stack_bottom)
    <3>1. PICK a \in Doubled(st.stack_area_size, min) : s = Widened(st, a)
      BY <2>2 DEF RoomFor
    <3>2. FrameSize(k) \in Nat BY FrameSizeFacts
    <3>3. /\ Sound(s, top, hi, lo - 1)
          /\ s.new_stack_bottom = st.new_stack_bottom
          /\ s.new_stack_top + FrameSize(k) <= s.old_stack_bottom
          /\ SameText(st, s) /\ Carried(st, s)
      BY <1>1, <1>2, <1>3, <3>1, <3>2, WidenedSound
    <3> QED BY <1>1, <3>3 DEF AllocFits, SameText
  <2> QED BY <2>1, <2>2
<1>5. /\ Sound(Push(s, hi, k), top, hi - 1, lo - 1) /\ SameText(s, Push(s, hi, k))
      /\ Push(s, hi, k).scratch_size <= Push(s, hi, k).new_stack_bottom
  BY <1>1, <1>3, <1>4, PushSound
<1> QED BY <1>2, <1>4, <1>5

\* So the invariant is kept, whoever saves itself.
LEMMA AllocIInv == IInv /\ Alloc => IInv'
<1> SUFFICES ASSUME IInv, Alloc PROVE IInv' OBVIOUS
<1>1. /\ pc = "pausing" /\ hi' = hi - 1
      /\ pc' = IF hi = lo THEN "waiting" ELSE "pausing"
      /\ lo' = lo /\ top' = top /\ f' = f /\ fromNew' = fromNew
      /\ touched' = touched
  BY DEF Alloc
<1>a. PICK k \in Kinds : \E s \in RoomFor(st, k) : st' = Push(s, hi, k)
  BY DEF Alloc
<1>2. PICK s \in RoomFor(st, k) : st' = Push(s, hi, k)
  BY <1>a
<1>3. /\ TypeOK /\ top \in Nat /\ lo \in Nat /\ hi \in Nat
      /\ lo >= 1 /\ hi >= lo /\ Text(st)
  BY <1>1 DEF IInv, TypeOK, FramesIntact, ScratchIsText, Text
<1>4. lo - 1 \in Nat /\ hi - 1 \in Nat BY <1>3
<1>5. /\ Sound(st, top, hi, lo - 1) /\ Sound(s, top, hi, lo - 1) /\ SameText(st, s)
      /\ Sound(st', top, hi - 1, lo - 1) /\ SameText(s, st')
      /\ st'.scratch_size <= st'.new_stack_bottom
  BY <1>1, <1>2, Allocated
<1>6. Text(s) BY <1>3, <1>5, SameTextKept
<1>7. Text(st') BY <1>5, <1>6, SameTextKept
<1>8. TypeOK' BY <1>1, <1>3, <1>4, <1>5 DEF TypeOK, Sound, States
<1>9. CASE hi = lo
  <2>1. Sound(st', top', lo - 1, lo - 1) /\ pc' = "waiting"
    BY <1>1, <1>5, <1>9
  <2> QED BY <1>4, <1>7, <1>8, <2>1, SettledIInv
<1>10. CASE hi # lo
  <2>1. pc' = "pausing" /\ lo' >= 1 /\ hi' >= lo'
        /\ Sound(st', top', hi', lo' - 1)
    BY <1>1, <1>3, <1>5, <1>10
  <2> QED BY <1>5, <1>7, <1>8, <2>1, PausingIInv
<1> QED BY <1>9, <1>10

\* So does putting back the frame popped last.
LEMMA ReturnReinstateIInv == IInv /\ ReturnReinstate => IInv'
<1> SUFFICES ASSUME IInv, ReturnReinstate PROVE IInv' OBVIOUS
<1>1. /\ pc = "resumed" /\ ~touched /\ st' = Reinstated(st)
      /\ top' = top + 1 /\ pc' = "waiting" /\ lo' = lo /\ hi' = hi /\ f' = f
      /\ fromNew' = fromNew /\ touched' = touched
  BY DEF ReturnReinstate
<1>2. TypeOK /\ top \in Nat BY DEF IInv, TypeOK
<1>3. /\ Intact(st', top + 1)
      /\ st'.stack = st.stack /\ st'.scratch_size = st.scratch_size
      /\ StackTypeOK(st')
  BY <1>1, <1>2, ReinstatedFields DEF IInv, CanReinstate
<1>4. \E mid \in Nat : Sound(st', top', mid, mid)
  <2>1. top + 1 \in Nat BY <1>2
  <2> QED BY <1>1, <1>3, <2>1, IntactIffSound
<1>5. TypeOK' BY <1>1, <1>2, <1>3 DEF TypeOK, States
<1>6. Text(st') BY <1>3 DEF IInv, ScratchIsText, Text
<1> QED BY <1>1, <1>4, <1>5, <1>6, SettledIInv

\* So does dropping the scratch text.
LEMMA ResetScratchIInv == IInv /\ ResetScratch => IInv'
<1> SUFFICES ASSUME IInv, ResetScratch PROVE IInv' OBVIOUS
<1>1. /\ pc = "resumed" /\ pc' = pc /\ st' = [st EXCEPT !.scratch_size = 0]
      /\ top' = top /\ lo' = lo /\ hi' = hi /\ f' = f
      /\ fromNew' = fromNew /\ touched' = touched
  BY DEF ResetScratch
<1>2. /\ TypeOK /\ StackTypeOK(st) /\ top \in Nat /\ lo = top + 1 /\ hi >= lo
  BY <1>1 DEF IInv, TypeOK, ResumesInnermost
<1>3. \E mid \in Nat : Sound(st', top', mid, mid)
  <2>1. PICK mid \in Nat : Sound(st, top, mid, mid)
    BY <1>1, <1>2, IntactIffSound DEF IInv, FramesIntact
  <2>2. Sound(st', top, mid, mid) BY <1>1, <1>2, <2>1, ResetSound
  <2> QED BY <1>1, <2>2
<1>4. TypeOK' BY <1>1, <1>2, <1>3 DEF TypeOK, Sound
<1>5. st'.scratch_size = 0 BY <1>1, <1>2 DEF StackTypeOK, Fields
<1>6. Text(st') BY <1>5 DEF Text
<1>7. CanReinstate'
  <2>1. CASE touched BY <1>1, <2>1 DEF CanReinstate
  <2>2. CASE ~touched
    <3> DEFINE r == Reinstated(st)
    <3>1. /\ Intact(r, top + 1)
          /\ f = IF fromNew THEN r.new_stack_bottom ELSE r.old_stack_bottom
      BY <1>1, <2>2 DEF IInv, CanReinstate
    <3>2. StackTypeOK(r) BY <1>2, <3>1, ReinstatedFields
    <3>3. Reinstated(st)' = [r EXCEPT !.scratch_size = 0]
      <4>1. st'.stack = st.stack BY <1>1, <1>2 DEF StackTypeOK, Fields
      <4>2. Reinstated(st)' =
               IF fromNew THEN [st' EXCEPT !.new_stack_bottom =
                                   @ - FrameSize(st.stack[f].kind)]
                          ELSE [st' EXCEPT !.old_stack_bottom =
                                   @ - FrameSize(st.stack[f].kind)]
        BY <1>1, <4>1 DEF Reinstated
      <4>3. r = IF fromNew THEN [st EXCEPT !.new_stack_bottom =
                                   @ - FrameSize(st.stack[f].kind)]
                           ELSE [st EXCEPT !.old_stack_bottom =
                                   @ - FrameSize(st.stack[f].kind)]
        BY DEF Reinstated
      <4> HIDE DEF r
      <4> QED BY <1>1, <1>2, <4>2, <4>3 DEF StackTypeOK, Fields
    <3> HIDE DEF r
    <3>4. top + 1 \in Nat BY <1>2
    <3>5. PICK mid \in Nat : Sound(r, top + 1, mid, mid)
      BY <3>1, <3>2, <3>4, IntactIffSound
    <3>6. Sound([r EXCEPT !.scratch_size = 0], top + 1, mid, mid)
      BY <3>4, <3>5, ResetSound
    <3>7. Intact(Reinstated(st)', top + 1)
      <4>1. StackTypeOK([r EXCEPT !.scratch_size = 0]) BY <3>6 DEF Sound
      <4> QED BY <3>3, <3>4, <3>6, <4>1, IntactIffSound
    <3>8. /\ Reinstated(st)'.new_stack_bottom = r.new_stack_bottom
          /\ Reinstated(st)'.old_stack_bottom = r.old_stack_bottom
      BY <3>2, <3>3 DEF StackTypeOK, Fields
    <3> QED BY <1>1, <3>1, <3>7, <3>8 DEF CanReinstate
  <2> QED BY <2>1, <2>2
<1> QED BY <1>1, <1>2, <1>3, <1>4, <1>6, <1>7, ResumedIInv

-----------------------------------------------------------------------------
\* Every step but a malloc that fails preserves the invariant.
LEMMA NextIInv ==
    ASSUME IInv, [Next]_vars, ~ReserveFails, ~AllocFails
    PROVE  IInv'
<1>1. TypeOK /\ StackTypeOK(st) /\ top \in Nat /\ Text(st)
  BY DEF IInv, TypeOK, ScratchIsText, Text
<1>2. pc \notin {"pausing", "freed"} => \E mid \in Nat : Sound(st, top, mid, mid)
  BY <1>1, IntactIffSound DEF IInv, FramesIntact
<1>3. CASE Run
  <2>1. /\ pc = "waiting" /\ pc' = "running" /\ st' = Forgotten(st)
        /\ lo' = 0 /\ hi' = 0 /\ f' = 0 /\ fromNew' = FALSE
        /\ touched' = FALSE /\ top' = top
    BY <1>3 DEF Run
  <2>2. PICK mid \in Nat : Sound(st, top, mid, mid) BY <1>2, <2>1
  <2>3. Sound(st', top, mid, mid) /\ SameText(st, st')
    BY <1>1, <2>1, <2>2, ForgottenSound
  <2>4. Text(st') BY <1>1, <2>2, <2>3, SameTextKept
  <2>5. TypeOK' BY <1>1, <2>1, <2>3 DEF TypeOK, States, Sound
  <2> QED BY <2>1, <2>3, <2>4, <2>5, SettledIInv
<1>4. CASE Pop
  <2>1. pc = "running" /\ pc' = "resumed" /\ touched' = FALSE BY <1>4 DEF Pop
  <2>2. PICK isNew \in BOOLEAN : PopFrom(isNew) BY <1>4 DEF Pop
  <2>3. PICK mid \in Nat : Sound(st, top, mid, mid) BY <1>2, <2>1
  <2>4. /\ StackTypeOK(st') /\ f' \in Nat /\ fromNew' \in BOOLEAN
        /\ top' \in Nat /\ lo' = top' + 1 /\ hi' = lo' /\ lo' \in Nat
        /\ \E m \in Nat : Sound(st', top', m, m)
        /\ Text(st')
        /\ Intact(Reinstated(st)', top' + 1)
        /\ f' = IF fromNew' THEN Reinstated(st)'.new_stack_bottom
                            ELSE Reinstated(st)'.old_stack_bottom
    BY <1>1, <2>2, <2>3, PopFromSound
  <2>5. TypeOK' BY <2>1, <2>4 DEF TypeOK, States
  <2>6. CanReinstate' BY <2>4 DEF CanReinstate
  <2>7. hi' >= lo'
    <3>1. hi' = lo' /\ lo' \in Nat BY <2>4
    <3> QED BY <3>1
  <2> QED BY <2>1, <2>4, <2>5, <2>6, <2>7, ResumedIInv
<1>5. CASE RunEnds \/ Fini
  <2>1. /\ pc \in {"waiting", "running", "failed"}
        /\ pc' \in {"waiting", "fini"}
        /\ UNCHANGED <<st, top, f, fromNew, touched>>
        /\ lo' \in {lo, top + 1} /\ hi' \in {hi, top + 1}
    BY <1>5 DEF RunEnds, Fini
  <2>2. lo' \in Nat /\ hi' \in Nat BY <1>1, <2>1 DEF TypeOK
  <2>3. TypeOK' BY <1>1, <2>1, <2>2 DEF TypeOK, States
  <2> QED BY <1>1, <1>2, <2>1, <2>3, SettledIInv
<1>6. CASE Nest \/ ReturnOk \/ ReturnError
  <2>1. /\ pc = "resumed" /\ pc' \in {"resumed", "running", "failed"}
        /\ UNCHANGED <<st, lo, top, f, fromNew, touched>>
        /\ hi' \in {hi - 1, hi, hi + 1}
        /\ hi' = hi - 1 => hi > lo
    <3>1. lo \in Nat /\ hi \in Nat BY <1>1 DEF TypeOK
    <3>2. CASE Nest BY <3>1, <3>2 DEF Nest
    <3>3. CASE ReturnOk BY <3>1, <3>3 DEF ReturnOk
    <3>4. CASE ReturnError BY <3>1, <3>4 DEF ReturnError
    <3> QED BY <1>6, <3>2, <3>3, <3>4
  <2>2. /\ lo = top + 1 /\ hi >= lo /\ lo \in Nat /\ hi \in Nat
    BY <1>1, <2>1 DEF IInv, ResumesInnermost, TypeOK
  <2>3. hi' \in Nat /\ hi' >= lo'
    <3>1. CASE hi' = hi - 1 BY <2>1, <2>2, <3>1
    <3>2. CASE hi' = hi BY <2>1, <2>2, <3>2
    <3>3. CASE hi' = hi + 1 BY <2>1, <2>2, <3>3
    <3> QED BY <2>1, <3>1, <3>2, <3>3
  <2>4. TypeOK' BY <1>1, <2>1, <2>3 DEF TypeOK, States
  <2>5. CanReinstate' BY <2>1 DEF IInv, CanReinstate, Reinstated
  <2>6. CASE pc' = "resumed"
    BY <1>1, <1>2, <2>1, <2>2, <2>3, <2>4, <2>5, <2>6, ResumedIInv
  <2>7. CASE pc' # "resumed" BY <1>1, <1>2, <2>1, <2>4, <2>7, SettledIInv
  <2> QED BY <2>6, <2>7
<1>7. CASE ReturnReinstate BY <1>7, ReturnReinstateIInv
<1>8. CASE SetScratch \/ AppendScratch \/ UnescapeIntoScratch
  <2>1. st.scratch_size \in Nat BY <1>1 DEF StackTypeOK
  <2>2. PICK keep \in {0, st.scratch_size} :
           \E n \in Nat : \E m \in 0 .. n : ReserveAndWrite(keep, n, m)
    <3>1. \A n \in 0 .. MaxChunk : n \in Nat /\ n \in 0 .. n BY BoundsAssumption
    <3>2. CASE SetScratch BY <3>1, <3>2 DEF SetScratch
    <3>3. CASE AppendScratch BY <3>1, <3>3 DEF AppendScratch
    <3>4. CASE UnescapeIntoScratch BY <3>1, <3>4 DEF UnescapeIntoScratch
    <3> QED BY <1>8, <3>2, <3>3, <3>4
  <2>3. keep \in Nat /\ keep <= st.scratch_size BY <2>1
  <2> QED BY <2>2, <2>3, ReserveAndWriteIInv
<1>9. CASE ResetScratch BY <1>9, ResetScratchIInv
<1>10. CASE ReserveFails \/ AllocFails BY <1>10
<1>11. CASE StartPause BY <1>11, StartPauseIInv
<1>12. CASE Alloc BY <1>12, AllocIInv
<1>13. CASE Destroy
  <2>1. pc = "fini" /\ pc' = "fini" /\ touched' = touched BY <1>13 DEF Destroy
  <2>2. PICK isNew \in BOOLEAN : PopFrom(isNew) BY <1>13 DEF Destroy
  <2>3. PICK mid \in Nat : Sound(st, top, mid, mid) BY <1>2, <2>1
  <2>4. /\ StackTypeOK(st') /\ f' \in Nat /\ fromNew' \in BOOLEAN
        /\ top' \in Nat /\ hi' = lo' /\ lo' \in Nat
        /\ \E m \in Nat : Sound(st', top', m, m)
        /\ Text(st')
    BY <1>1, <2>2, <2>3, PopFromSound
  <2>5. TypeOK' BY <1>1, <2>1, <2>4 DEF TypeOK, States
  <2> QED BY <2>1, <2>4, <2>5, SettledIInv
<1>14. CASE Free
  <2>1. pc' = "freed" /\ UNCHANGED <<st, lo, hi, top, f, fromNew, touched>>
    BY <1>14 DEF Free
  <2>2. TypeOK' BY <1>1, <2>1 DEF TypeOK, States
  <2> QED BY <1>1, <2>1, <2>2, SettledIInv
<1>15. CASE UNCHANGED vars
  BY <1>15 DEF vars, IInv, TypeOK, FramesIntact, ResumesInnermost,
               CanReinstate, ScratchIsText, Reinstated
<1> QED BY <1>3, <1>4, <1>5, <1>6, <1>7, <1>8, <1>9, <1>10, <1>11, <1>12,
           <1>13, <1>14, <1>15 DEF Next, Freed

-----------------------------------------------------------------------------
(***************************************************************************)
(* When a malloc fails, eu_stack_reserve_scratch and eu_stack_alloc leave  *)
(* behind a size that the block does not have, and the parsers that had    *)
(* not saved themselves yet leave a gap between the depths of new and old  *)
(* frames.  What eu_stack_fini then finds, of depths up to t:              *)
(***************************************************************************)
Sized(s, a) == [s EXCEPT !.stack_area_size = a]

Remains(s, t) == \E a, mid, bottom \in Nat :
                    bottom <= mid /\ Sound(Sized(s, a), t, mid, bottom)

Ending == {"failed", "fini"}

SInv == /\ TypeOK /\ ScratchIsText
        /\ pc \notin Ending => IInv
        /\ pc \in Ending => \E t \in Nat : /\ t <= top /\ Remains(st, t)
                                           /\ pc = "fini" => t < lo

\* The fields of a block whose size is put right.
LEMMA SizedFields ==
    ASSUME NEW s, StackTypeOK(s), NEW a
    PROVE  /\ Sized(s, a) = Fields(s.stack, s.scratch_size, s.new_stack_bottom,
                                   s.new_stack_top, s.old_stack_bottom, a)
           /\ Sized(s, a).stack = s.stack /\ Sized(s, a).scratch_size = s.scratch_size
           /\ Sized(s, a).new_stack_bottom = s.new_stack_bottom
           /\ Sized(s, a).new_stack_top = s.new_stack_top
           /\ Sized(s, a).old_stack_bottom = s.old_stack_bottom
           /\ Sized(s, a).stack_area_size = a
           /\ Sized(s, s.stack_area_size) = s
<1>1. s = Fields(s.stack, s.scratch_size, s.new_stack_bottom, s.new_stack_top,
                 s.old_stack_bottom, s.stack_area_size)
  BY DEF StackTypeOK
<1>2. Sized(s, a) = Fields(s.stack, s.scratch_size, s.new_stack_bottom,
                           s.new_stack_top, s.old_stack_bottom, a)
  BY <1>1 DEF Sized, Fields
<1>3. Sized(s, s.stack_area_size) = s BY <1>1 DEF Sized, Fields
<1> QED BY <1>2, <1>3, FieldsOf

\* A stack that is sound is what remains of it.
LEMMA SoundRemains ==
    ASSUME NEW s, NEW t \in Nat, NEW mid \in Nat, NEW bottom \in Nat, bottom <= mid,
           Sound(s, t, mid, bottom)
    PROVE  Remains(s, t)
<1>1. StackTypeOK(s) /\ s.stack_area_size \in Nat BY DEF Sound, StackTypeOK
<1>2. Sized(s, s.stack_area_size) = s BY <1>1, SizedFields
<1> QED BY <1>1, <1>2 DEF Remains

\* Overstating the size of the block does nothing to what is in it.
LEMMA OverstatedRemains ==
    ASSUME NEW s, NEW t \in Nat, NEW mid \in Nat, NEW bottom \in Nat, bottom <= mid,
           Sound(s, t, mid, bottom), NEW min \in Nat, NEW s2 \in Overstated(s, min)
    PROVE  /\ Remains(s2, t) /\ StackTypeOK(s2) /\ SameText(s, s2)
           /\ s2.stack = s.stack
<1>1. StackTypeOK(s) /\ s.stack_area_size \in Nat BY DEF Sound, StackTypeOK
<1>2. PICK a \in Doubled(s.stack_area_size, min) : s2 = Sized(s, a)
  BY DEF Overstated, Sized
<1>3. a \in Nat BY <1>1, DoubledFacts
<1>4. s2 = Fields(s.stack, s.scratch_size, s.new_stack_bottom, s.new_stack_top,
                  s.old_stack_bottom, a)
  BY <1>1, <1>2, SizedFields
<1>5. /\ s2.stack = s.stack /\ s2.scratch_size = s.scratch_size
      /\ s2.new_stack_bottom = s.new_stack_bottom /\ s2.new_stack_top = s.new_stack_top
      /\ s2.old_stack_bottom = s.old_stack_bottom /\ s2.stack_area_size = a
  BY <1>4, FieldsOf
<1>6. StackTypeOK(s2)
  <2>1. s2 = Fields(s2.stack, s2.scratch_size, s2.new_stack_bottom,
                    s2.new_stack_top, s2.old_stack_bottom, s2.stack_area_size)
    BY <1>4, <1>5
  <2> QED BY <1>1, <1>3, <1>5, <2>1 DEF StackTypeOK
<1>7. Sized(s2, s.stack_area_size) = s
  <2>1. Sized(s2, s.stack_area_size)
           = Fields(s2.stack, s2.scratch_size, s2.new_stack_bottom,
                    s2.new_stack_top, s2.old_stack_bottom, s.stack_area_size)
    BY <1>6, SizedFields
  <2> QED BY <1>1, <1>5, <2>1 DEF StackTypeOK
<1>8. Remains(s2, t) BY <1>1, <1>7 DEF Remains
<1> QED BY <1>5, <1>6, <1>8 DEF SameText

\* eu_stack_fini pops the frame of a parser nested more deeply than those of
\* the frames it then still finds.
LEMMA PopRemains ==
    ASSUME TypeOK, Text(st), NEW t \in Nat, Remains(st, t), t <= top,
           NEW isNew \in BOOLEAN, PopFrom(isNew)
    PROVE  /\ lo' \in Nat /\ lo' <= t
           /\ \E u \in Nat : u < lo' /\ u <= top' /\ Remains(st', u)
           /\ StackTypeOK(st') /\ Text(st')
           /\ f' \in Nat /\ fromNew' \in BOOLEAN /\ top' \in Nat /\ hi' = lo'
<1>1. StackTypeOK(st) /\ top \in Nat BY DEF TypeOK
<1>2. PICK a \in Nat, mid \in Nat, bottom \in Nat :
         bottom <= mid /\ Sound(Sized(st, a), t, mid, bottom)
  BY DEF Remains
<1>3. PICK s : s = Sized(st, a) OBVIOUS
<1>4. /\ s = Fields(st.stack, st.scratch_size, st.new_stack_bottom,
                    st.new_stack_top, st.old_stack_bottom, a)
      /\ s.stack = st.stack /\ s.scratch_size = st.scratch_size
      /\ s.new_stack_bottom = st.new_stack_bottom
      /\ s.new_stack_top = st.new_stack_top
      /\ s.old_stack_bottom = st.old_stack_bottom /\ s.stack_area_size = a
  BY <1>1, <1>3, SizedFields
<1>5. Sound(s, t, mid, bottom) BY <1>2, <1>3
<1>6. PICK o \in Nat : o = IF isNew THEN st.new_stack_bottom ELSE st.old_stack_bottom
  BY <1>1 DEF StackTypeOK
<1>7. PICK size : size = FrameSize(st.stack[o].kind) OBVIOUS
<1>8. /\ f' = o /\ fromNew' = isNew /\ top' = top - 1
      /\ lo' = st.stack[o].depth /\ hi' = lo'
      /\ st' = IF isNew THEN [st EXCEPT !.new_stack_bottom = o + size]
                        ELSE [st EXCEPT !.old_stack_bottom = o + size]
      /\ o \in DOMAIN st.stack /\ st.stack[o].kind \in Kinds
      /\ IF isNew THEN ~NewEmpty(st) ELSE NewEmpty(st) /\ ~OldEmpty(st)
  BY <1>6, <1>7 DEF PopFrom
<1>9. size \in Nat BY <1>7, <1>8, FrameSizeFacts
<1>10. st = Fields(st.stack, st.scratch_size, st.new_stack_bottom,
                   st.new_stack_top, st.old_stack_bottom, st.stack_area_size)
  BY <1>1 DEF StackTypeOK
<1>11. st' = Fields(st.stack, st.scratch_size,
                    IF isNew THEN o + size ELSE st.new_stack_bottom, st.new_stack_top,
                    IF isNew THEN st.old_stack_bottom ELSE o + size, st.stack_area_size)
  BY <1>8, <1>10 DEF Fields
<1>12. /\ st'.stack = st.stack /\ st'.scratch_size = st.scratch_size
       /\ st'.new_stack_bottom = IF isNew THEN o + size ELSE st.new_stack_bottom
       /\ st'.new_stack_top = st.new_stack_top
       /\ st'.old_stack_bottom = IF isNew THEN st.old_stack_bottom ELSE o + size
       /\ st'.stack_area_size = st.stack_area_size
  BY <1>11, FieldsOf
<1>13. StackTypeOK(st')
  <2>1. st' = Fields(st'.stack, st'.scratch_size, st'.new_stack_bottom,
                     st'.new_stack_top, st'.old_stack_bottom, st'.stack_area_size)
    BY <1>11, <1>12
  <2>2. o + size \in Nat BY <1>6, <1>9
  <2> QED BY <1>1, <1>12, <2>1, <2>2 DEF StackTypeOK
<1>14. Text(st') BY <1>12 DEF Text
<1>15. Sized(st', a) = Fields(st.stack, st.scratch_size,
                    IF isNew THEN o + size ELSE st.new_stack_bottom, st.new_stack_top,
                    IF isNew THEN st.old_stack_bottom ELSE o + size, a)
  <2>1. Sized(st', a) = Fields(st'.stack, st'.scratch_size, st'.new_stack_bottom,
                               st'.new_stack_top, st'.old_stack_bottom, a)
    BY <1>13, SizedFields
  <2> QED BY <1>12, <2>1
<1>16. CASE isNew
  <2>1. ~NewEmpty(s) BY <1>4, <1>8, <1>16 DEF NewEmpty
  <2>2. [s EXCEPT !.new_stack_bottom = o + size] = Sized(st', a)
    BY <1>4, <1>15, <1>16 DEF Fields
  <2>3. o = s.new_stack_bottom /\ size = FrameSize(s.stack[o].kind)
    BY <1>4, <1>6, <1>7, <1>16
  <2>4. /\ Sound(Sized(st', a), t - 1, mid, bottom) /\ t >= 1 /\ lo' = t
    <3>1. /\ Sound([s EXCEPT !.new_stack_bottom = s.new_stack_bottom
                                + FrameSize(s.stack[s.new_stack_bottom].kind)],
                   t - 1, mid, bottom)
          /\ t >= 1 /\ s.stack[s.new_stack_bottom].depth = t
      BY <1>5, <2>1, PopNewSound
    <3>2. lo' = t BY <1>4, <1>8, <2>3, <3>1
    <3>3. [s EXCEPT !.new_stack_bottom = s.new_stack_bottom
                       + FrameSize(s.stack[s.new_stack_bottom].kind)] = Sized(st', a)
      BY <2>2, <2>3
    <3> QED BY <3>1, <3>2, <3>3
  <2>5. t - 1 \in Nat /\ t - 1 < lo' /\ t - 1 <= top' /\ top' \in Nat
        /\ lo' \in Nat /\ lo' <= t
    BY <1>1, <1>8, <2>4
  <2>6. Remains(st', t - 1) BY <1>2, <2>4 DEF Remains
  <2> QED BY <1>6, <1>8, <1>13, <1>14, <2>5, <2>6
<1>17. CASE ~isNew
  <2>1. NewEmpty(s) BY <1>4, <1>8, <1>17 DEF NewEmpty
  <2>2. ~OldEmpty(s)
    <3>1. DOMAIN s.stack = 0 .. a - 1 BY <1>4, <1>5, SoundFacts
    <3> QED BY <1>4, <1>6, <1>8, <1>17, <3>1 DEF OldEmpty
  <2>3. t = mid /\ Sound(s, bottom, bottom, bottom)
    <3>1. Region(s, s.new_stack_bottom, s.new_stack_top, t, mid) BY <1>5 DEF Sound
    <3>2. t = mid /\ Region(s, s.new_stack_bottom, s.new_stack_top, bottom, bottom)
      BY <2>1, <3>1 DEF Region, Framed, Descending, NewEmpty
    <3> QED BY <1>5, <3>2 DEF Sound
  <2>4. [s EXCEPT !.old_stack_bottom = o + size] = Sized(st', a)
    BY <1>4, <1>15, <1>17 DEF Fields
  <2>5. o = s.old_stack_bottom /\ size = FrameSize(s.stack[o].kind)
    BY <1>4, <1>6, <1>7, <1>17
  <2>6. /\ Sound(Sized(st', a), bottom - 1, bottom - 1, bottom - 1) /\ bottom >= 1
        /\ lo' = bottom
    <3>1. /\ Sound([s EXCEPT !.old_stack_bottom = s.old_stack_bottom
                                + FrameSize(s.stack[s.old_stack_bottom].kind)],
                   bottom - 1, bottom - 1, bottom - 1)
          /\ bottom >= 1 /\ s.stack[s.old_stack_bottom].depth = bottom
      BY <2>1, <2>2, <2>3, PopOldSound
    <3>2. lo' = bottom BY <1>4, <1>8, <2>5, <3>1
    <3>3. [s EXCEPT !.old_stack_bottom = s.old_stack_bottom
                       + FrameSize(s.stack[s.old_stack_bottom].kind)] = Sized(st', a)
      BY <2>4, <2>5
    <3> QED BY <3>1, <3>2, <3>3
  <2>7. bottom - 1 \in Nat /\ bottom - 1 < lo' /\ bottom - 1 <= top' /\ top' \in Nat
        /\ lo' \in Nat /\ lo' <= t
    BY <1>1, <1>2, <1>8, <2>3, <2>6
  <2>8. Remains(st', bottom - 1) BY <2>6, <2>7 DEF Remains
  <2> QED BY <1>6, <1>8, <1>13, <1>14, <2>7, <2>8
<1> QED BY <1>16, <1>17

\* The steps of a parse in which no malloc has failed.
LEMMA SoundStep ==
    ASSUME IInv, [Next]_vars, ~ReserveFails, ~AllocFails, pc \notin Ending
    PROVE  SInv'
<1>1. IInv' BY NextIInv
<1>2. TypeOK' /\ ScratchIsText' BY <1>1 DEF IInv
<1>3. CASE pc' \in Ending
  <2>1. PICK mid \in Nat : Sound(st', top', mid, mid)
    <3>1. Intact(st', top') BY <1>1, <1>3 DEF IInv, FramesIntact, Ending
    <3>2. StackTypeOK(st') /\ top' \in Nat BY <1>2 DEF TypeOK
    <3> QED BY <3>1, <3>2, IntactIffSound
  <2>2. top' \in Nat BY <1>2 DEF TypeOK
  <2>3. Remains(st', top') BY <2>1, <2>2, SoundRemains
  <2>4. pc' = "fini" => top' < lo'
    <3>1. CASE Fini BY <2>2, <3>1 DEF Fini
    <3>2. CASE ~Fini
      <4>1. pc' # "fini"
        BY <1>3, <3>2 DEF Next, vars, Ending, Run, Pop, RunEnds, Nest, ReturnOk,
           ReturnError, ReturnReinstate, SetScratch, AppendScratch,
           UnescapeIntoScratch, ReserveAndWrite, ResetScratch, StartPause, Alloc,
           Destroy, Free, Freed
      <4> QED BY <4>1
    <3> QED BY <3>1, <3>2
  <2> QED BY <1>2, <1>3, <2>2, <2>3, <2>4 DEF SInv
<1> QED BY <1>1, <1>2, <1>3 DEF SInv

\* Those in which one fails.
LEMMA FailingStep ==
    ASSUME IInv, ReserveFails \/ AllocFails
    PROVE  SInv'
<1>1. /\ TypeOK /\ StackTypeOK(st) /\ top \in Nat /\ Text(st) /\ lo \in Nat /\ hi \in Nat
  BY DEF IInv, TypeOK, ScratchIsText, Text
<1>2. /\ pc' = "failed" /\ UNCHANGED <<lo, hi, top, f, fromNew, touched>>
  BY DEF ReserveFails, AllocFails
<1>3. PICK mid \in Nat, bottom \in Nat, min \in Nat :
         /\ bottom <= mid /\ Sound(st, top, mid, bottom)
         /\ st' \in Overstated(st, min)
  <2>1. CASE ReserveFails
    <3>1. PICK mid \in Nat : Sound(st, top, mid, mid)
      <4>1. Intact(st, top) BY <2>1 DEF IInv, FramesIntact, ReserveFails
      <4> QED BY <1>1, <4>1, IntactIffSound
    <3>2. PICK n \in 0 .. MaxScratch : st' \in Overstated(st, ReserveSize(st, n))
      BY <2>1 DEF ReserveFails
    <3>3. ReserveSize(st, n) \in Nat
      <4>1. RoundUp(n) \in Nat BY BoundsAssumption, RoundUpFacts
      <4>2. /\ st.new_stack_bottom \in Nat /\ st.new_stack_top \in Nat
            /\ st.old_stack_bottom \in Nat /\ st.stack_area_size \in Nat
            /\ st.new_stack_bottom <= st.new_stack_top
            /\ st.old_stack_bottom <= st.stack_area_size
        BY <3>1, SoundFacts
      <4> QED BY <4>1, <4>2 DEF ReserveSize, NewSize
    <3>4. mid <= mid OBVIOUS
    <3> QED BY <3>1, <3>2, <3>3, <3>4
  <2>2. CASE AllocFails
    <3>1. Sound(st, top, hi, lo - 1) /\ lo >= 1 /\ hi >= lo
      BY <1>1, <2>2, SoundIff DEF IInv, FramesIntact, AllocFails
    <3>2. PICK k \in Kinds : st' \in Overstated(st, st.new_stack_top + FrameSize(k)
                                 + (st.stack_area_size - st.old_stack_bottom))
      BY <2>2 DEF AllocFails
    <3>3. st.new_stack_top + FrameSize(k)
             + (st.stack_area_size - st.old_stack_bottom) \in Nat
      <4>1. FrameSize(k) \in Nat BY FrameSizeFacts
      <4>2. /\ st.new_stack_top \in Nat
            /\ st.old_stack_bottom \in Nat /\ st.stack_area_size \in Nat
            /\ st.old_stack_bottom <= st.stack_area_size
        BY <3>1, SoundFacts
      <4> QED BY <4>1, <4>2
    <3>4. lo - 1 \in Nat /\ lo - 1 <= hi BY <1>1, <3>1
    <3> QED BY <1>1, <3>1, <3>2, <3>3, <3>4
  <2> QED BY <2>1, <2>2
<1>4. /\ Remains(st', top) /\ StackTypeOK(st') /\ SameText(st, st') /\ st'.stack = st.stack
  BY <1>1, <1>3, OverstatedRemains
<1>5. ScratchIsText' BY <1>1, <1>4 DEF ScratchIsText, SameText, Text
<1>6. TypeOK' BY <1>1, <1>2, <1>4 DEF TypeOK, States
<1>7. top' \in Nat /\ top' <= top' /\ Remains(st', top') BY <1>1, <1>2, <1>4
<1> QED BY <1>2, <1>5, <1>6, <1>7 DEF SInv, Ending

\* Those after the parse has failed, or in eu_stack_fini.
LEMMA EndingStep ==
    ASSUME SInv, [Next]_vars, pc \in Ending
    PROVE  SInv' /\ (Destroy => lo' < lo)
<1>1. /\ TypeOK /\ StackTypeOK(st) /\ top \in Nat /\ Text(st) /\ lo \in Nat
  BY DEF SInv, TypeOK, ScratchIsText, Text
<1>2. PICK t \in Nat : t <= top /\ Remains(st, t) /\ (pc = "fini" => t < lo)
  BY DEF SInv
<1>3. Fini \/ Destroy \/ Free \/ UNCHANGED vars
  BY DEF Next, vars, Ending, Run, Pop, RunEnds, Nest, ReturnOk, ReserveFails,
         ReturnError, ReturnReinstate, SetScratch, AppendScratch, AllocFails,
         UnescapeIntoScratch, ReserveAndWrite, ResetScratch, StartPause, Alloc, Freed
<1>4. CASE Fini
  <2>1. /\ pc' = "fini" /\ lo' = top + 1 /\ hi' = top + 1
        /\ UNCHANGED <<st, top, f, fromNew, touched>>
    BY <1>4 DEF Fini
  <2>2. t < lo' /\ lo' \in Nat /\ t <= top' BY <1>1, <1>2, <2>1
  <2>3. TypeOK' BY <1>1, <2>1, <2>2 DEF TypeOK, States
  <2>4. ScratchIsText' BY <2>1 DEF SInv, ScratchIsText
  <2>5. Remains(st', t) BY <1>2, <2>1
  <2>6. ~Destroy
    <3>1. pc = "fini" /\ pc' = "fini" => FALSE BY <1>4 DEF Fini
    <3> QED BY <2>1, <3>1 DEF Destroy
  <2> QED BY <1>2, <2>1, <2>2, <2>3, <2>4, <2>5, <2>6 DEF SInv, Ending
<1>5. CASE Destroy
  <2>1. pc = "fini" /\ pc' = "fini" /\ touched' = touched BY <1>5 DEF Destroy
  <2>2. PICK isNew \in BOOLEAN : PopFrom(isNew) BY <1>5 DEF Destroy
  <2>3. /\ lo' \in Nat /\ lo' <= t
        /\ \E u \in Nat : u < lo' /\ u <= top' /\ Remains(st', u)
        /\ StackTypeOK(st') /\ Text(st')
        /\ f' \in Nat /\ fromNew' \in BOOLEAN /\ top' \in Nat /\ hi' = lo'
    BY <1>1, <1>2, <2>2, PopRemains
  <2>4. lo' < lo BY <1>1, <1>2, <2>1, <2>3
  <2>5. TypeOK' BY <1>1, <2>1, <2>3 DEF TypeOK, States
  <2>6. ScratchIsText' BY <2>3 DEF ScratchIsText, Text
  <2> QED BY <2>1, <2>3, <2>4, <2>5, <2>6 DEF SInv, Ending
<1>6. CASE Free
  <2>1. pc' = "freed" /\ UNCHANGED <<st, lo, hi, top, f, fromNew, touched>>
    BY <1>6 DEF Free
  <2>2. TypeOK' BY <1>1, <2>1 DEF TypeOK, States
  <2>3. Text(st') BY <1>1, <2>1
  <2>4. IInv' BY <2>1, <2>2, <2>3, SettledIInv
  <2>5. ~Destroy BY <2>1 DEF Destroy
  <2> QED BY <2>1, <2>4, <2>5 DEF SInv, Ending, IInv
<1>7. CASE UNCHANGED vars /\ ~Destroy
  <2>1. UNCHANGED <<st, pc, lo, hi, top, f, fromNew, touched>> BY <1>7 DEF vars
  <2>2. TypeOK' BY <1>1, <2>1 DEF TypeOK
  <2>3. ScratchIsText' BY <2>1 DEF SInv, ScratchIsText
  <2>4. pc' \in Ending /\ t <= top' /\ Remains(st', t) /\ (pc' = "fini" => t < lo')
    BY <1>2, <2>1
  <2> QED BY <1>7, <2>2, <2>3, <2>4 DEF SInv
<1> QED BY <1>3, <1>4, <1>5, <1>6, <1>7

LEMMA NextSInv == SInv /\ [Next]_vars => SInv' /\ (Destroy => lo' < lo)
<1> SUFFICES ASSUME SInv, [Next]_vars PROVE SInv' /\ (Destroy => lo' < lo) OBVIOUS
<1>1. CASE pc \in Ending BY <1>1, EndingStep
<1>2. CASE pc \notin Ending
  <2>1. IInv BY <1>2 DEF SInv
  <2>2. ~Destroy BY <1>2 DEF Destroy, Ending
  <2> QED BY <1>2, <2>1, <2>2, SoundStep, FailingStep
<1> QED BY <1>1, <1>2

LEMMA InitSInv == Init => SInv
<1> SUFFICES ASSUME Init PROVE SInv OBVIOUS
<1>1. IInv BY InitIInv
<1>2. pc = "waiting" BY DEF Init
<1> QED BY <1>1, <1>2 DEF SInv, IInv, Ending

-----------------------------------------------------------------------------
\* Whether mallocs fail or not, whatever the sizes of words and frames and
\* however deep parsers nest: the invariant holds in every state.
THEOREM StackInvariant == Spec => []SInv
<1>1. SInv /\ [Next]_vars => SInv' BY NextSInv
<1> QED BY <1>1, InitSInv, PTL DEF Spec

\* Every variable of the stack keeps its type.
THEOREM TypeCorrect == Spec => []TypeOK
<1>1. SInv => TypeOK BY DEF SInv
<1> QED BY <1>1, StackInvariant, PTL

\* eu_stack_run resumes paused parsers innermost first.
THEOREM InnermostFirst == Spec => []ResumesInnermost
<1>1. SInv => ResumesInnermost BY DEF SInv, IInv, ResumesInnermost, Ending
<1> QED BY <1>1, StackInvariant, PTL

\* EU_REINSTATE_PAUSED (stack.c:98-103, 119-124) finds the frame it puts
\* back as it was popped.
THEOREM ReinstateIsSafe == Spec => []CanReinstate
<1>1. SInv => CanReinstate BY DEF SInv, IInv, CanReinstate, Ending
<1> QED BY <1>1, StackInvariant, PTL

\* Scratch text is never overwritten by a frame, nor counted beyond what was
\* written.
THEOREM ScratchStaysText == Spec => []ScratchIsText
<1>1. SInv => ScratchIsText BY DEF SInv
<1> QED BY <1>1, StackInvariant, PTL

\* eu_stack_fini destroys the frame of a nested parser before that of the
\* parser that called it, and none twice, whichever malloc failed, between
\* whichever two of the parsers that saved themselves.
THEOREM DestroyedInnermostFirst == Spec => DestroysInnermostFirst
<1>1. SInv /\ [Next]_vars => [Destroy => lo' < lo]_vars BY NextSInv
<1> QED BY <1>1, StackInvariant, PTL DEF Spec, DestroysInnermostFirst

-----------------------------------------------------------------------------
\* As long as malloc succeeds, the frames are whole in every state of the
\* continuation stack.
THEOREM Invariance == MallocFails = FALSE => (Spec => []IInv)
<1> SUFFICES ASSUME MallocFails = FALSE PROVE Spec => []IInv OBVIOUS
<1>1. Init => IInv BY InitIInv
<1>2. IInv /\ [Next]_vars => IInv'
  <2>1. ~ReserveFails /\ ~AllocFails BY DEF ReserveFails, AllocFails
  <2> QED BY <2>1, NextIInv
<1> QED BY <1>1, <1>2, PTL DEF Spec

\* No consolidation (stack.c:32-41), move to a bigger block (stack.c:69-76,
\* 171-184), pop or write of scratch text damages, loses or reorders the
\* frame of a paused parser.
THEOREM FramesStayIntact == MallocFails = FALSE => (Spec => []FramesIntact)
<1>1. IInv => FramesIntact BY DEF IInv
<1> QED BY <1>1, Invariance, PTL

\* The loops of eu_stack_run and eu_stack_fini read frames inside the block
\* only, as long as malloc succeeds.
THEOREM LoopsReadInBlock == MallocFails = FALSE => (Spec => []ReadsInBlock)
<1>1. IInv => ReadsInBlock
  <2> SUFFICES ASSUME IInv, pc \in {"running", "fini"} PROVE ReadsInBlock
    BY DEF ReadsInBlock
  <2>1. Layout(st) /\ StackTypeOK(st) BY DEF IInv, TypeOK, FramesIntact, Intact
  <2> QED BY <2>1 DEF ReadsInBlock, Layout, StackTypeOK, NewEmpty, OldEmpty
<1> QED BY <1>1, Invariance, PTL

-----------------------------------------------------------------------------
(***************************************************************************)
(* The scratch text of earlier chunks.                                     *)
(***************************************************************************)
LEMMA SameTextStays ==
    ASSUME NEW s, s.scratch_size \in Nat, NEW s2, SameText(s, s2)
    PROVE  TextStays(s, s2)
BY DEF TextStays, SameText

\* What a step that pops a frame, or puts it back, leaves alone.
LEMMA PoppedFields ==
    ASSUME TypeOK, NEW b,
           \/ st' = [st EXCEPT !.new_stack_bottom = b]
           \/ st' = [st EXCEPT !.old_stack_bottom = b]
           \/ st' = [st EXCEPT !.stack_area_size = b]
    PROVE  st'.stack = st.stack /\ st'.scratch_size = st.scratch_size
<1>1. st = Fields(st.stack, st.scratch_size, st.new_stack_bottom,
                  st.new_stack_top, st.old_stack_bottom, st.stack_area_size)
  BY DEF TypeOK, StackTypeOK
<1>2. \/ st' = Fields(st.stack, st.scratch_size, b, st.new_stack_top,
                      st.old_stack_bottom, st.stack_area_size)
      \/ st' = Fields(st.stack, st.scratch_size, st.new_stack_bottom,
                      st.new_stack_top, b, st.stack_area_size)
      \/ st' = Fields(st.stack, st.scratch_size, st.new_stack_bottom,
                      st.new_stack_top, st.old_stack_bottom, b)
  BY <1>1 DEF Fields
<1> QED BY <1>2, FieldsOf

\* The steps of a resumed parser that write behind the text.
LEMMA WriteKeepsText ==
    ASSUME IInv, NEW n \in Nat, NEW m \in 0 .. n,
           ReserveAndWrite(st.scratch_size, n, m)
    PROVE  TextStays(st, st')
<1>1. PICK s \in Reserve(st, st.scratch_size + n), c \in Chars :
          st' = WriteText(s, st.scratch_size, n, m, c)
  BY DEF ReserveAndWrite
<1>2. /\ TypeOK /\ Text(st) /\ StackTypeOK(st) /\ top \in Nat /\ pc = "resumed"
      /\ st.scratch_size \in Nat
  BY DEF IInv, TypeOK, ScratchIsText, Text, ReserveAndWrite, StackTypeOK
<1>3. PICK mid \in Nat : Sound(st, top, mid, mid)
  BY <1>2, IntactIffSound DEF IInv, FramesIntact
<1>4. /\ \E k \in Nat : Sound(s, top, k, k)
      /\ st.scratch_size + n <= Limit(s) /\ SameText(st, s)
  BY <1>1, <1>2, <1>3, ReserveSound
<1>5. PICK k \in Nat : Sound(s, top, k, k) BY <1>4
<1>6. Text(s) BY <1>2, <1>3, <1>4, <1>5, SameTextKept
<1>7. s.scratch_size = st.scratch_size
      /\ \A o \in 0 .. st.scratch_size - 1 : s.stack[o] = st.stack[o]
  BY <1>4 DEF SameText
<1>8. TextStays(s, st')
  <2>1. st.scratch_size <= s.scratch_size /\ st.scratch_size = s.scratch_size
    BY <1>2, <1>7
  <2>2. PICK keep \in Nat : keep = s.scratch_size BY <1>2, <2>1
  <2>3. keep <= s.scratch_size /\ keep + n <= Limit(s) BY <1>4, <2>1, <2>2
  <2>4. st' = WriteText(s, keep, n, m, c) BY <1>1, <2>1, <2>2
  <2>5. c \in Chars BY <1>1
  <2>6. keep = s.scratch_size => TextStays(s, WriteText(s, keep, n, m, c))
    BY <1>2, <1>5, <1>6, <2>3, <2>5, WriteTextSound
  <2> QED BY <2>2, <2>4, <2>6
<1> QED BY <1>7, <1>8 DEF TextStays

\* So does a pause, also when the block has to grow for it.
LEMMA PauseKeepsText ==
    ASSUME IInv, StartPause \/ Alloc
    PROVE  TextStays(st, st')
<1>1. /\ TypeOK /\ StackTypeOK(st) /\ top \in Nat /\ lo \in Nat /\ hi \in Nat
      /\ st.scratch_size \in Nat
  BY DEF IInv, TypeOK, StackTypeOK
<1>2. CASE StartPause
  <2>1. pc = "resumed" /\ st' = BeginPause(st) BY <1>2 DEF StartPause
  <2>2. PICK mid \in Nat : Sound(st, top, mid, mid)
    BY <1>1, <2>1, IntactIffSound DEF IInv, FramesIntact
  <2>3. SameText(st, st') BY <1>1, <2>1, <2>2, BeginPauseSound
  <2> QED BY <1>1, <2>3, SameTextStays
<1>3. CASE Alloc
  <2>1. PICK k \in Kinds : \E s \in RoomFor(st, k) : st' = Push(s, hi, k)
    BY <1>3 DEF Alloc
  <2>2. PICK s \in RoomFor(st, k) : st' = Push(s, hi, k) BY <2>1
  <2>3. pc = "pausing" BY <1>3 DEF Alloc
  <2>4. SameText(st, s) /\ SameText(s, st')
    BY <1>1, <2>2, <2>3, Allocated
  <2>5. SameText(st, st') BY <2>4 DEF SameText
  <2> QED BY <1>1, <2>5, SameTextStays
<1> QED BY <1>2, <1>3

\* Every step but those that write from the start of the area, or reset it.
LEMMA StepKeepsText ==
    ASSUME SInv, [Next]_vars, ~ResetScratch, ~WriteFromStart
    PROVE  TextStays(st, st')
<1>1. /\ TypeOK /\ StackTypeOK(st) /\ top \in Nat /\ st.scratch_size \in Nat
  BY DEF SInv, TypeOK, StackTypeOK
<1>2. CASE st' = st BY <1>1, <1>2 DEF TextStays
<1>3. CASE st'.stack = st.stack /\ st'.scratch_size = st.scratch_size
  BY <1>1, <1>3 DEF TextStays
<1>4. CASE Run
  <2>1. pc = "waiting" /\ st' = Forgotten(st) BY <1>4 DEF Run
  <2>2. IInv BY <2>1 DEF SInv, Ending
  <2>3. PICK mid \in Nat : Sound(st, top, mid, mid)
    BY <1>1, <2>1, <2>2, IntactIffSound DEF IInv, FramesIntact
  <2>4. SameText(st, st') BY <1>1, <2>1, <2>3, ForgottenSound
  <2> QED BY <1>1, <2>4, SameTextStays
<1>5. CASE Pop \/ Destroy
  <2>1. PICK isNew \in BOOLEAN : PopFrom(isNew) BY <1>5 DEF Pop, Destroy
  <2>2. \E b : \/ st' = [st EXCEPT !.new_stack_bottom = b]
               \/ st' = [st EXCEPT !.old_stack_bottom = b]
    BY <2>1 DEF PopFrom
  <2> QED BY <1>1, <1>3, <2>2, PoppedFields
<1>6. CASE ReturnReinstate
  <2>1. st' = Reinstated(st) BY <1>6 DEF ReturnReinstate
  <2>2. \E b : \/ st' = [st EXCEPT !.new_stack_bottom = b]
               \/ st' = [st EXCEPT !.old_stack_bottom = b]
    BY <2>1 DEF Reinstated
  <2> QED BY <1>1, <1>3, <2>2, PoppedFields
<1>7. CASE ReserveFails \/ AllocFails
  <2>1. \E min : st' \in Overstated(st, min) BY <1>7 DEF ReserveFails, AllocFails
  <2>2. \E b : st' = [st EXCEPT !.stack_area_size = b] BY <2>1 DEF Overstated
  <2> QED BY <1>1, <1>3, <2>2, PoppedFields
<1>8. CASE SetScratch \/ AppendScratch \/ UnescapeIntoScratch
  <2>1. PICK keep \in {0, st.scratch_size} : \E n \in 0 .. MaxChunk, m \in Nat :
            m <= n /\ ReserveAndWrite(keep, n, m)
    BY <1>8, BoundsAssumption DEF SetScratch, AppendScratch, UnescapeIntoScratch
  <2>2. PICK n \in 0 .. MaxChunk, m \in Nat : m <= n /\ ReserveAndWrite(keep, n, m)
    BY <2>1
  <2>3. m \in 0 .. n /\ n \in Nat BY <2>2, BoundsAssumption
  <2>4. keep # 0 BY <2>2, <2>3 DEF WriteFromStart
  <2>5. pc = "resumed" BY <2>2 DEF ReserveAndWrite
  <2>6. IInv BY <2>5 DEF SInv, Ending
  <2>7. ReserveAndWrite(st.scratch_size, n, m) BY <2>1, <2>2, <2>4
  <2> QED BY <2>3, <2>6, <2>7, WriteKeepsText
<1>9. CASE StartPause \/ Alloc
  <2>1. pc \notin Ending BY <1>9 DEF StartPause, Alloc, Ending
  <2>2. IInv BY <2>1 DEF SInv
  <2> QED BY <1>9, <2>2, PauseKeepsText
<1>10. CASE \/ RunEnds \/ Nest \/ ReturnOk \/ ReturnError \/ Fini \/ Free \/ Freed
            \/ UNCHANGED vars
  <2>1. st' = st
    BY <1>10 DEF RunEnds, Nest, ReturnOk, ReturnError, Fini, Free, Freed, vars
  <2> QED BY <1>2, <2>1
<1> QED BY <1>4, <1>5, <1>6, <1>7, <1>8, <1>9, <1>10 DEF Next

\* Text from earlier chunks stays in front of what is appended to it,
\* wherever the block moves and whatever malloc fails; only writing from the
\* start of the scratch area and resetting it (stack.c:130-190,
\* euphemus_int.h) lose text.
THEOREM EarlierTextStays == Spec => KeepsText
<1>1. SInv /\ [Next]_vars =>
        [\/ ResetScratch \/ WriteFromStart
         \/ \A i \in DOMAIN ScratchText : /\ i \in DOMAIN ScratchText'
                                          /\ ScratchText'[i] = ScratchText[i]]_vars
  <2> SUFFICES ASSUME SInv, [Next]_vars, ~ResetScratch, ~WriteFromStart,
                      NEW i \in DOMAIN ScratchText
               PROVE  i \in DOMAIN ScratchText' /\ ScratchText'[i] = ScratchText[i]
    OBVIOUS
  <2>1. TextStays(st, st') BY StepKeepsText
  <2>2. /\ st.scratch_size \in Nat /\ st'.scratch_size \in Nat
    <3>1. TypeOK /\ TypeOK' BY NextSInv DEF SInv
    <3> QED BY <3>1 DEF TypeOK, StackTypeOK
  <2>3. i \in 1 .. st.scratch_size BY DEF ScratchText
  <2>4. i \in 1 .. st'.scratch_size /\ i - 1 \in 0 .. st.scratch_size - 1
    BY <2>1, <2>2, <2>3 DEF TextStays
  <2>5. st'.stack[i - 1] = st.stack[i - 1] BY <2>1, <2>4 DEF TextStays
  <2> QED BY <2>3, <2>4, <2>5 DEF ScratchText
<1> QED BY <1>1, StackInvariant, PTL DEF Spec, KeepsText

-----------------------------------------------------------------------------
(***************************************************************************)
(* Induction, in a form that needs no operator for a parameter.            *)
(***************************************************************************)
Smaller == {x \in Nat \X Nat : x[1] < x[2]}

LEMMA SmallerWellFounded == IsWellFoundedOn(Smaller, Nat)
<1>1. OpToRel(<, Nat) = Smaller BY DEF OpToRel, Smaller
<1> QED BY <1>1, NatLessThanWellFounded

\* Induction up to a bound: T holds 0, and with each number below m the next.
LEMMA Induction ==
    ASSUME NEW m \in Nat, NEW T \in SUBSET (0 .. m), 0 \in T,
           \A n \in T : n < m => n + 1 \in T
    PROVE  T = 0 .. m
<1> SUFFICES ASSUME (0 .. m) \ T # {} PROVE FALSE OBVIOUS
<1>1. (0 .. m) \ T \in SUBSET Nat OBVIOUS
<1>2. PICK x \in (0 .. m) \ T : \A y \in (0 .. m) \ T : ~ (<<y, x>> \in Smaller)
  BY <1>1, WFMin, SmallerWellFounded
<1>3. x # 0 /\ x - 1 \in 0 .. m /\ x - 1 < m OBVIOUS
<1>4. <<x - 1, x>> \in Smaller BY <1>3 DEF Smaller
<1>5. x - 1 \in T BY <1>2, <1>3, <1>4
<1>6. (x - 1) + 1 = x OBVIOUS
<1> QED BY <1>3, <1>5, <1>6

-----------------------------------------------------------------------------
(***************************************************************************)
(* The frames of a region, as FramesIn reads them: the i-th starts at      *)
(* offset off[i].                                                          *)
(***************************************************************************)
Chain(s, from, to, first, last, off) ==
    LET n == first - last
    IN  /\ n \in Nat /\ off \in [1 .. n + 1 -> Nat]
        /\ off[1] = from /\ off[n + 1] = to
        /\ \A i \in 1 .. n :
              /\ off[i] \in from .. to - 1 /\ s.stack[off[i]].ix = 0
              /\ s.stack[off[i]].depth = first + 1 - i
              /\ off[i + 1] = off[i] + FrameSize(s.stack[off[i]].kind)
        /\ \A o \in from .. to - 1 : \E i \in 1 .. n :
              /\ Saved(s, o) = Saved(s, off[i])
              /\ s.stack[o].ix = 0 => o = off[i]

\* An empty region, and one with a frame more.
LEMMA ChainOfNone ==
    ASSUME NEW s, NEW from \in Nat, NEW last \in Nat
    PROVE  \E off : Chain(s, from, from, last, last, off)
<1> DEFINE off == [i \in 1 .. 1 |-> from]
<1>1. Chain(s, from, from, last, last, off) BY DEF Chain
<1> QED BY <1>1

\* The bytes of the first frame of a region.
LEMMA FirstFrame ==
    ASSUME NEW s, NEW from, NEW to, NEW first \in Nat, NEW last \in Nat, Bytes(s),
           Region(s, from, to, first, last), from < to
    PROVE  LET k == s.stack[from].kind
           IN  /\ s.stack[from].ix = 0
               /\ \A i \in 0 .. FrameSize(k) - 1 :
                     s.stack[from + i] = FrameByte(first, k, i)
<1> DEFINE size == FrameSize(s.stack[from].kind)
<1>1. /\ from \in Nat /\ to \in Nat /\ from \in from .. to - 1 BY DEF Region
<1>2. from \in DOMAIN s.stack /\ s.stack[from].depth = first BY PoppedRegion
<1>3. InFrame(s, from, to, from) BY <1>1 DEF Region, Framed
<1>4. s.stack[from].ix \in Nat BY <1>2 DEF Bytes, Byte
<1>5. s.stack[from].ix = 0 BY <1>1, <1>3, <1>4 DEF InFrame
<1>6. \A i \in 0 .. size - 1 :
         s.stack[from - s.stack[from].ix + i]
            = FrameByte(s.stack[from].depth, s.stack[from].kind, i)
  BY <1>3 DEF InFrame
<1>7. from - s.stack[from].ix = from BY <1>1, <1>5
<1> QED BY <1>2, <1>5, <1>6, <1>7

LEMMA ChainOfMore ==
    ASSUME NEW s, NEW from, NEW to, NEW first \in Nat, NEW last \in Nat, Bytes(s),
           Region(s, from, to, first, last), from < to,
           NEW off, Chain(s, from + FrameSize(s.stack[from].kind), to,
                          first - 1, last, off)
    PROVE  \E off2 : Chain(s, from, to, first, last, off2)
<1> DEFINE size == FrameSize(s.stack[from].kind)
           n == (first - 1) - last
           off2 == [i \in 1 .. n + 2 |-> IF i = 1 THEN from ELSE off[i - 1]]
<1>1. /\ from \in Nat /\ to \in Nat /\ from \in from .. to - 1 BY DEF Region
<1>2. /\ from \in DOMAIN s.stack /\ s.stack[from].kind \in Kinds
      /\ s.stack[from].depth = first /\ first >= 1 /\ from + size <= to
  BY PoppedRegion
<1>3. size \in Nat /\ size >= 1 BY <1>2, FrameSizeFacts
<1>4. /\ s.stack[from].ix = 0
      /\ \A i \in 0 .. size - 1 : s.stack[from + i] = FrameByte(first, s.stack[from].kind, i)
  BY FirstFrame
<1> HIDE DEF size
<1>5. /\ n \in Nat /\ off \in [1 .. n + 1 -> Nat]
      /\ off[1] = from + size /\ off[n + 1] = to
      /\ \A i \in 1 .. n :
            /\ off[i] \in from + size .. to - 1 /\ s.stack[off[i]].ix = 0
            /\ s.stack[off[i]].depth = (first - 1) + 1 - i
            /\ off[i + 1] = off[i] + FrameSize(s.stack[off[i]].kind)
      /\ \A o \in from + size .. to - 1 : \E i \in 1 .. n :
            /\ Saved(s, o) = Saved(s, off[i])
            /\ s.stack[o].ix = 0 => o = off[i]
  BY DEF Chain, size
<1>6. /\ first - last = n + 1 /\ n + 1 \in Nat /\ (n + 1) + 1 = n + 2 BY <1>5
<1> HIDE DEF n
<1>7. /\ off2 \in [1 .. n + 2 -> Nat] /\ off2[1] = from /\ off2[n + 2] = to
      /\ \A i \in 1 .. n + 1 : off2[i + 1] = off[i]
  <2>1. ASSUME NEW i \in 1 .. n + 2 PROVE off2[i] \in Nat
    <3>1. CASE i = 1 BY <1>1, <3>1
    <3>2. CASE i # 1
      <4>1. i - 1 \in 1 .. n + 1 BY <1>5, <3>2
      <4> QED BY <1>5, <3>2, <4>1
    <3> QED BY <3>1, <3>2
  <2>2. ASSUME NEW i \in 1 .. n + 1 PROVE off2[i + 1] = off[i]
    <3>1. i + 1 \in 1 .. n + 2 /\ i + 1 # 1 /\ (i + 1) - 1 = i BY <1>5
    <3> QED BY <3>1
  <2>3. n + 1 \in 1 .. n + 1 /\ (n + 1) + 1 = n + 2 /\ 1 \in 1 .. n + 2 BY <1>5
  <2>4. off2[n + 2] = to BY <1>5, <2>2, <2>3
  <2> QED BY <2>1, <2>2, <2>3, <2>4
<1> HIDE DEF off2
<1>8. ASSUME NEW i \in 1 .. n + 1
      PROVE  /\ off2[i] \in from .. to - 1 /\ s.stack[off2[i]].ix = 0
             /\ s.stack[off2[i]].depth = first + 1 - i
             /\ off2[i + 1] = off2[i] + FrameSize(s.stack[off2[i]].kind)
  <2>1. CASE i = 1
    <3>1. off2[i + 1] = off[1] BY <1>7, <2>1
    <3> QED BY <1>1, <1>2, <1>4, <1>5, <1>7, <2>1, <3>1 DEF size
  <2>2. CASE i # 1
    <3>1. i - 1 \in 1 .. n /\ i - 1 \in 1 .. n + 1 /\ (i - 1) + 1 = i
          /\ (first - 1) + 1 - (i - 1) = first + 1 - i
      BY <1>5, <2>2
    <3>2. off2[i] = off[i - 1] /\ off2[i + 1] = off[(i - 1) + 1] BY <1>7, <3>1
    <3>3. off[i - 1] \in from + size .. to - 1 BY <1>5, <3>1
    <3>4. off[i - 1] \in from .. to - 1 BY <1>1, <1>3, <3>3
    <3> QED BY <1>5, <3>1, <3>2, <3>4
  <2> QED BY <2>1, <2>2
<1>9. ASSUME NEW o \in from .. to - 1
      PROVE  \E i \in 1 .. n + 1 : /\ Saved(s, o) = Saved(s, off2[i])
                                   /\ s.stack[o].ix = 0 => o = off2[i]
  <2>1. CASE o < from + size
    <3>1. o - from \in 0 .. size - 1 /\ from + (o - from) = o BY <1>1, <1>3, <2>1
    <3>2. s.stack[o] = FrameByte(first, s.stack[from].kind, o - from)
      BY <1>4, <3>1
    <3>3. /\ Saved(s, o) = Saved(s, from) /\ (s.stack[o].ix = 0 => o = from)
      BY <1>1, <1>2, <3>2 DEF Saved, FrameByte
    <3>4. 1 \in 1 .. n + 1 BY <1>5
    <3> QED BY <1>7, <3>3, <3>4
  <2>2. CASE o >= from + size
    <3>1. o \in from + size .. to - 1 BY <1>1, <1>3, <2>2
    <3>2. PICK i \in 1 .. n : /\ Saved(s, o) = Saved(s, off[i])
                              /\ s.stack[o].ix = 0 => o = off[i]
      BY <1>5, <3>1
    <3>3. i + 1 \in 1 .. n + 1 /\ i \in 1 .. n + 1 BY <1>5
    <3>4. off2[i + 1] = off[i] BY <1>7, <3>3
    <3> QED BY <3>2, <3>3, <3>4
  <2> QED BY <1>1, <1>3, <2>1, <2>2
<1>10. Chain(s, from, to, first, last, off2)
  <2>1. first - last = n + 1 /\ n + 1 \in Nat /\ (n + 1) + 1 = n + 2 BY <1>6
  <2> QED BY <1>7, <1>8, <1>9, <2>1 DEF Chain
<1> QED BY <1>10

\* Every region is such a chain of frames.
LEMMA RegionIsChain ==
    ASSUME NEW s, Bytes(s), NEW last \in Nat,
           NEW from \in Nat, NEW to \in Nat, NEW first \in Nat,
           Region(s, from, to, first, last)
    PROVE  \E off : Chain(s, from, to, first, last, off)
<1> DEFINE P(l) == \A a \in Nat, d \in Nat :
                      Region(s, a, to, d, last) /\ to - a <= l
                         => \E off : Chain(s, a, to, d, last, off)
           T == {l \in 0 .. to : P(l)}
<1>1. 0 \in T
  <2>1. ASSUME NEW a \in Nat, NEW d \in Nat, Region(s, a, to, d, last), to - a <= 0
        PROVE  \E off : Chain(s, a, to, d, last, off)
    <3>1. a = to BY <2>1 DEF Region
    <3>2. d = last BY <2>1, <3>1 DEF Region, Descending
    <3> QED BY <3>1, <3>2, ChainOfNone
  <2>2. P(0) BY <2>1
  <2> QED BY <2>2
<1>2. ASSUME NEW l \in T, l < to PROVE l + 1 \in T
  <2>1. ASSUME NEW a \in Nat, NEW d \in Nat, Region(s, a, to, d, last), to - a <= l + 1
        PROVE  \E off : Chain(s, a, to, d, last, off)
    <3>1. CASE a = to
      <4>1. d = last BY <2>1, <3>1 DEF Region, Descending
      <4> QED BY <3>1, <4>1, ChainOfNone
    <3>2. CASE a # to
      <4> DEFINE size == FrameSize(s.stack[a].kind)
      <4>1. a < to BY <2>1, <3>2 DEF Region
      <4>2. /\ s.stack[a].kind \in Kinds /\ d >= 1 /\ a + size <= to
            /\ Region(s, a + size, to, d - 1, last)
        BY <2>1, <4>1, PoppedRegion
      <4>3. size \in Nat /\ size >= 1 BY <4>2, FrameSizeFacts
      <4> HIDE DEF size
      <4>4. a + size \in Nat /\ d - 1 \in Nat /\ to - (a + size) <= l
        BY <2>1, <4>2, <4>3
      <4>5. P(l) OBVIOUS
      <4>6. PICK off : Chain(s, a + size, to, d - 1, last, off)
        BY <4>2, <4>4, <4>5
      <4> QED BY <2>1, <4>1, <4>6, ChainOfMore DEF size
    <3> QED BY <3>1, <3>2
  <2>2. P(l + 1) BY <2>1
  <2>3. l + 1 \in 0 .. to BY <1>2
  <2> HIDE DEF P
  <2> QED BY <2>2, <2>3
<1>3. T = 0 .. to
  <2>1. T \in SUBSET (0 .. to) OBVIOUS
  <2> HIDE DEF T
  <2> QED BY <1>1, <1>2, <2>1, Induction
<1>4. to \in T BY <1>3
<1>5. to - from <= to OBVIOUS
<1> QED BY <1>4, <1>5

\* A sequence with one more element in front.
LEMMA Cons ==
    ASSUME NEW m \in Nat, NEW x, NEW q, q = [j \in 1 .. m |-> q[j]]
    PROVE  <<x>> \o q = [j \in 1 .. m + 1 |-> IF j = 1 THEN x ELSE q[j - 1]]
<1> DEFINE S == {x} \cup {q[j] : j \in 1 .. m}
<1>1. q \in [1 .. m -> S] OBVIOUS
<1> HIDE DEF S
<1>2. q \in Seq(S) /\ Len(q) = m BY <1>1
<1>3. <<x>> \in Seq(S) /\ Len(<<x>>) = 1 BY DEF S
<1>4. <<x>> \o q \in Seq(S) /\ Len(<<x>> \o q) = m + 1 BY <1>2, <1>3
<1>5. ASSUME NEW j \in 1 .. m + 1
      PROVE  (<<x>> \o q)[j] = IF j = 1 THEN x ELSE q[j - 1]
  BY <1>2, <1>3
<1> QED BY <1>4, <1>5

\* eu_stack_run's walk finds the frames of a chain.
LEMMA WalkOfChain ==
    ASSUME NEW s, NEW from \in Nat, NEW to \in Nat, NEW first \in Nat, NEW last \in Nat,
           NEW off, Chain(s, from, to, first, last, off)
    PROVE  FramesIn(s, from, to) = [i \in 1 .. first - last |-> Saved(s, off[i])]
<1> DEFINE n == first - last
           Dom == Starts(s, from, to) \cup {to}
           At(o) == IF o = to THEN n + 1 ELSE first + 1 - s.stack[o].depth
           Walk(w) == w = [o \in Dom |->
                             IF o = to THEN <<>>
                             ELSE <<Saved(s, o)>> \o w[o + FrameSize(s.stack[o].kind)]]
           Rest(i) == [j \in 1 .. n + 1 - i |-> Saved(s, off[i + j - 1])]
           v == [o \in Dom |-> Rest(At(o))]
           W == CHOOSE w : Walk(w)
<1>1. /\ n \in Nat /\ off[1] = from /\ off[n + 1] = to
      /\ \A i \in 1 .. n :
            /\ off[i] \in from .. to - 1 /\ s.stack[off[i]].ix = 0
            /\ s.stack[off[i]].depth = first + 1 - i
            /\ off[i + 1] = off[i] + FrameSize(s.stack[off[i]].kind)
      /\ \A o \in from .. to - 1 : s.stack[o].ix = 0 => \E i \in 1 .. n : o = off[i]
  BY DEF Chain
<1>2. FramesIn(s, from, to) = W[from] BY DEF FramesIn
<1>3. ASSUME NEW i \in 1 .. n
      PROVE  off[i] \in Dom /\ off[i] # to /\ At(off[i]) = i
  <2>1. off[i] \in Starts(s, from, to) /\ off[i] # to BY <1>1 DEF Starts
  <2>2. first + 1 - (first + 1 - i) = i OBVIOUS
  <2> QED BY <1>1, <2>1, <2>2
<1>4. to \in Dom /\ At(to) = n + 1 OBVIOUS
<1>5. ASSUME NEW o \in Dom, o # to PROVE \E i \in 1 .. n : o = off[i]
  BY <1>1, <1>5 DEF Starts
<1> HIDE DEF Dom, At, n
<1>6. ASSUME NEW i \in 1 .. n PROVE <<Saved(s, off[i])>> \o Rest(i + 1) = Rest(i)
  <2> DEFINE q == Rest(i + 1)
  <2>1. n - i \in Nat /\ n + 1 - (i + 1) = n - i /\ n + 1 - i = (n - i) + 1 BY <1>1
  <2>2. q = [j \in 1 .. n - i |-> Saved(s, off[(i + 1) + j - 1])] BY <2>1
  <2>3. q = [j \in 1 .. n - i |-> q[j]] BY <2>2
  <2>4. \A j \in 1 .. n - i : q[j] = Saved(s, off[(i + 1) + j - 1]) BY <2>2
  <2> HIDE DEF q
  <2>5. <<Saved(s, off[i])>> \o q
          = [j \in 1 .. (n - i) + 1 |-> IF j = 1 THEN Saved(s, off[i]) ELSE q[j - 1]]
    BY <2>1, <2>3, Cons
  <2>6. ASSUME NEW j \in 1 .. (n - i) + 1
        PROVE  (IF j = 1 THEN Saved(s, off[i]) ELSE q[j - 1]) = Saved(s, off[i + j - 1])
    <3>1. CASE j = 1
      <4>1. i + j - 1 = i BY <3>1
      <4> QED BY <3>1, <4>1
    <3>2. CASE j # 1
      <4>1. j - 1 \in 1 .. n - i /\ (i + 1) + (j - 1) - 1 = i + j - 1 BY <1>1, <3>2
      <4>2. q[j - 1] = Saved(s, off[(i + 1) + (j - 1) - 1]) BY <2>4, <4>1
      <4> QED BY <3>2, <4>1, <4>2
    <3> QED BY <3>1, <3>2
  <2>7. Rest(i) = [j \in 1 .. (n - i) + 1 |-> Saved(s, off[i + j - 1])] BY <2>1
  <2> HIDE DEF Rest
  <2>8. <<Saved(s, off[i])>> \o q = Rest(i) BY <2>5, <2>6, <2>7
  <2> QED BY <2>8 DEF q
<1>7. Rest(n + 1) = <<>>
  <2>1. n + 1 - (n + 1) = 0 BY <1>1
  <2>2. Rest(n + 1) = [j \in 1 .. 0 |-> Saved(s, off[(n + 1) + j - 1])] BY <2>1
  <2> QED BY <2>2
<1> HIDE DEF Rest
<1>8. ASSUME NEW i \in 1 .. n
      PROVE  off[i] + FrameSize(s.stack[off[i]].kind) = off[i + 1]
             /\ off[i + 1] \in Dom /\ At(off[i + 1]) = i + 1
  <2>1. off[i] + FrameSize(s.stack[off[i]].kind) = off[i + 1] BY <1>1
  <2>2. CASE i = n BY <1>1, <1>4, <2>1, <2>2
  <2>3. CASE i # n
    <3>1. i + 1 \in 1 .. n BY <1>1, <2>3
    <3> QED BY <1>3, <2>1, <3>1
  <2> QED BY <2>2, <2>3
<1>9. Walk(v)
  <2> DEFINE u == [o \in Dom |->
                     IF o = to THEN <<>>
                     ELSE <<Saved(s, o)>> \o v[o + FrameSize(s.stack[o].kind)]]
  <2>1. ASSUME NEW o \in Dom PROVE v[o] = u[o]
    <3>1. CASE o = to BY <1>4, <1>7, <3>1
    <3>2. CASE o # to
      <4>1. PICK i \in 1 .. n : o = off[i] BY <1>5, <3>2
      <4>2. v[o] = Rest(i) BY <1>3, <4>1
      <4>3. v[off[i + 1]] = Rest(i + 1) BY <1>8
      <4>4. o + FrameSize(s.stack[o].kind) = off[i + 1] BY <1>8, <4>1
      <4>5. u[o] = <<Saved(s, o)>> \o v[o + FrameSize(s.stack[o].kind)] BY <3>2
      <4>6. u[o] = <<Saved(s, off[i])>> \o Rest(i + 1)
        BY <4>1, <4>3, <4>4, <4>5
      <4> QED BY <1>6, <4>2, <4>6
    <3> QED BY <3>1, <3>2
  <2>2. v = u
    <3>1. v = [o \in Dom |-> v[o]] /\ u = [o \in Dom |-> u[o]] OBVIOUS
    <3> HIDE DEF u, v
    <3> QED BY <2>1, <3>1
  <2> QED BY <2>2
<1> HIDE DEF Walk, v
<1>10. Walk(W) BY <1>9
<1> HIDE DEF W
<1>11. /\ W[to] = <<>>
       /\ \A i \in 1 .. n : W[off[i]] = <<Saved(s, off[i])>> \o W[off[i + 1]]
  <2>1. W = [o \in Dom |->
                IF o = to THEN <<>>
                ELSE <<Saved(s, o)>> \o W[o + FrameSize(s.stack[o].kind)]]
    BY <1>10 DEF Walk
  <2>2. W[to] = <<>> BY <1>4, <2>1
  <2>3. ASSUME NEW i \in 1 .. n
        PROVE  W[off[i]] = <<Saved(s, off[i])>> \o W[off[i + 1]]
    <3>1. off[i] \in Dom /\ off[i] # to BY <1>3
    <3>2. W[off[i]] = <<Saved(s, off[i])>> \o W[off[i] + FrameSize(s.stack[off[i]].kind)]
      BY <2>1, <3>1
    <3> QED BY <1>8, <3>2
  <2> QED BY <2>2, <2>3
<1> DEFINE T == {k \in 0 .. n : W[off[n + 1 - k]] = Rest(n + 1 - k)}
<1>12. 0 \in T
  <2>1. n + 1 - 0 = n + 1 /\ 0 \in 0 .. n BY <1>1
  <2> QED BY <1>1, <1>7, <1>11, <2>1
<1>13. ASSUME NEW k \in T, k < n PROVE k + 1 \in T
  <2>1. PICK i \in 1 .. n : i = n - k BY <1>1, <1>13
  <2>2. /\ i + 1 = n + 1 - k /\ i = n + 1 - (k + 1) /\ k + 1 \in 0 .. n
    BY <1>1, <1>13, <2>1
  <2>3. W[off[i + 1]] = Rest(i + 1) BY <2>2
  <2>4. W[off[i]] = Rest(i) BY <1>6, <1>11, <2>3
  <2> QED BY <2>2, <2>4
<1>14. T = 0 .. n
  <2>1. T \in SUBSET (0 .. n) OBVIOUS
  <2> HIDE DEF T
  <2> QED BY <1>1, <1>12, <1>13, <2>1, Induction
<1>15. n \in T /\ n + 1 - n = 1 BY <1>1, <1>14
<1>16. W[from] = Rest(1) BY <1>1, <1>15
<1>17. Rest(1) = [i \in 1 .. n |-> Saved(s, off[i])]
  <2>1. n + 1 - 1 = n /\ \A j \in 1 .. n : 1 + j - 1 = j BY <1>1
  <2>2. Rest(1) = [j \in 1 .. n |-> Saved(s, off[1 + j - 1])] BY <2>1 DEF Rest
  <2> QED BY <2>1, <2>2
<1> QED BY <1>2, <1>16, <1>17 DEF n

\* What a sequence of frames has to be to be those of a region, told without
\* their offsets: the frame of each depth is in its place.
Listed(s, from, to, first, last, q) ==
    /\ first - last \in Nat
    /\ q = [i \in 1 .. first - last |-> q[i]]
    /\ \A i \in 1 .. first - last : \E o \in from .. to - 1 :
          /\ s.stack[o].depth = first + 1 - i
          /\ q[i] = Saved(s, o)
    /\ \A o \in from .. to - 1 :
          /\ first + 1 - s.stack[o].depth \in 1 .. first - last
          /\ q[first + 1 - s.stack[o].depth] = Saved(s, o)

LEMMA FramesListed ==
    ASSUME NEW s, Bytes(s), NEW from, NEW to, NEW first \in Nat, NEW last \in Nat,
           Region(s, from, to, first, last)
    PROVE  Listed(s, from, to, first, last, FramesIn(s, from, to))
<1> DEFINE n == first - last
           q == FramesIn(s, from, to)
<1>1. from \in Nat /\ to \in Nat BY DEF Region
<1>2. PICK off : Chain(s, from, to, first, last, off) BY <1>1, RegionIsChain
<1>3. q = [i \in 1 .. n |-> Saved(s, off[i])] BY <1>1, <1>2, WalkOfChain
<1>4. /\ n \in Nat
      /\ \A i \in 1 .. n : /\ off[i] \in from .. to - 1
                           /\ s.stack[off[i]].depth = first + 1 - i
      /\ \A o \in from .. to - 1 : \E i \in 1 .. n : Saved(s, o) = Saved(s, off[i])
  BY <1>2 DEF Chain
<1> HIDE DEF q, n
<1>5. ASSUME NEW o \in from .. to - 1
      PROVE  /\ first + 1 - s.stack[o].depth \in 1 .. n
             /\ q[first + 1 - s.stack[o].depth] = Saved(s, o)
  <2>1. PICK i \in 1 .. n : Saved(s, o) = Saved(s, off[i]) BY <1>4
  <2>2. s.stack[o].depth = s.stack[off[i]].depth BY <2>1 DEF Saved
  <2>3. first + 1 - s.stack[o].depth = i BY <1>4, <2>2
  <2>4. q[i] = Saved(s, off[i]) BY <1>3
  <2> QED BY <2>1, <2>3, <2>4
<1>6. ASSUME NEW i \in 1 .. n
      PROVE  \E o \in from .. to - 1 : /\ s.stack[o].depth = first + 1 - i
                                       /\ q[i] = Saved(s, o)
  BY <1>3, <1>4
<1>7. q = [i \in 1 .. n |-> q[i]] BY <1>3
<1> QED BY <1>4, <1>5, <1>6, <1>7 DEF Listed, q, n

LEMMA ListedOnce ==
    ASSUME NEW s, NEW from, NEW to, NEW first \in Nat, NEW last \in Nat,
           NEW q, NEW r, Listed(s, from, to, first, last, q),
           Listed(s, from, to, first, last, r)
    PROVE  q = r
<1> DEFINE n == first - last
<1>1. ASSUME NEW i \in 1 .. n PROVE q[i] = r[i]
  <2>1. PICK o \in from .. to - 1 : /\ s.stack[o].depth = first + 1 - i
                                    /\ q[i] = Saved(s, o)
    BY DEF Listed
  <2>2. r[first + 1 - s.stack[o].depth] = Saved(s, o) BY DEF Listed
  <2>3. first + 1 - s.stack[o].depth = i /\ n \in Nat BY <2>1 DEF Listed
  <2> QED BY <2>1, <2>2, <2>3
<1>2. q = [i \in 1 .. n |-> q[i]] /\ r = [i \in 1 .. n |-> r[i]] BY DEF Listed
<1> HIDE DEF n
<1> QED BY <1>1, <1>2

\* Frames that are moved are the same.
LEMMA MovedFrames ==
    ASSUME NEW s, NEW s2, NEW from, NEW to, NEW d \in Int,
           NEW first \in Nat, NEW last \in Nat,
           Bytes(s), Bytes(s2), Region(s, from, to, first, last),
           from + d >= 0, Shifted(s, s2, from, to, d)
    PROVE  FramesIn(s2, from + d, to + d) = FramesIn(s, from, to)
<1> DEFINE q == FramesIn(s, from, to)
           n == first - last
<1>1. from \in Nat /\ to \in Nat /\ from <= to BY DEF Region
<1>2. Region(s2, from + d, to + d, first, last) BY MovedRegion
<1>3. Listed(s, from, to, first, last, q) BY FramesListed
<1> HIDE DEF q
<1>4. /\ n \in Nat /\ q = [i \in 1 .. n |-> q[i]]
      /\ \A i \in 1 .. n : \E o \in from .. to - 1 :
            /\ s.stack[o].depth = first + 1 - i
            /\ q[i] = Saved(s, o)
      /\ \A o \in from .. to - 1 :
            /\ first + 1 - s.stack[o].depth \in 1 .. n
            /\ q[first + 1 - s.stack[o].depth] = Saved(s, o)
  BY <1>3 DEF Listed
<1> HIDE DEF n
<1>5. \A o \in from .. to - 1 : /\ s2.stack[o + d] = s.stack[o]
                                /\ Saved(s2, o + d) = Saved(s, o)
  BY DEF Shifted, Saved
<1>6. PICK a \in Int, b \in Int : a = from + d /\ b = to + d BY <1>1
<1>7. ASSUME NEW i \in 1 .. n
      PROVE  \E o \in a .. b - 1 : /\ s2.stack[o].depth = first + 1 - i
                                   /\ q[i] = Saved(s2, o)
  <2>1. PICK o \in from .. to - 1 : /\ s.stack[o].depth = first + 1 - i
                                    /\ q[i] = Saved(s, o)
    BY <1>4
  <2>2. o + d \in a .. b - 1 BY <1>1, <1>6
  <2> QED BY <1>5, <2>1, <2>2
<1>8. ASSUME NEW o \in a .. b - 1
      PROVE  /\ first + 1 - s2.stack[o].depth \in 1 .. n
             /\ q[first + 1 - s2.stack[o].depth] = Saved(s2, o)
  <2>1. o - d \in from .. to - 1 /\ (o - d) + d = o BY <1>1, <1>6
  <2>2. s2.stack[o] = s.stack[o - d] /\ Saved(s2, o) = Saved(s, o - d)
    BY <1>5, <2>1
  <2> QED BY <1>4, <2>1, <2>2
<1>9. q = [i \in 1 .. n |-> q[i]] BY <1>4
<1>10. Listed(s2, a, b, first, last, q)
  BY <1>4, <1>7, <1>8, <1>9 DEF Listed, n
<1>11. Listed(s2, a, b, first, last, FramesIn(s2, a, b))
  BY <1>2, <1>6, FramesListed
<1>12. FramesIn(s2, a, b) = q BY <1>10, <1>11, ListedOnce
<1> QED BY <1>6, <1>12 DEF q

\* A sequence and another behind it.
LEMMA Concatenated ==
    ASSUME NEW m \in Nat, NEW n \in Nat, NEW q, NEW r,
           q = [i \in 1 .. m |-> q[i]], r = [i \in 1 .. n |-> r[i]]
    PROVE  q \o r = [i \in 1 .. m + n |-> IF i <= m THEN q[i] ELSE r[i - m]]
<1> DEFINE S == {q[i] : i \in 1 .. m} \cup {r[i] : i \in 1 .. n}
<1>1. q \in [1 .. m -> S] /\ r \in [1 .. n -> S] OBVIOUS
<1> HIDE DEF S
<1>2. /\ q \in Seq(S) /\ Len(q) = m
      /\ r \in Seq(S) /\ Len(r) = n
  BY <1>1
<1>3. q \o r \in Seq(S) /\ Len(q \o r) = m + n BY <1>2
<1>4. ASSUME NEW i \in 1 .. m + n
      PROVE  (q \o r)[i] = IF i <= m THEN q[i] ELSE r[i - m]
  BY <1>2
<1> QED BY <1>3, <1>4

\* The frames of two regions that touch.
LEMMA JoinedFrames ==
    ASSUME NEW s, NEW from, NEW mid, NEW to,
           NEW first \in Nat, NEW m \in Nat, NEW last \in Nat,
           Bytes(s), Region(s, from, mid, first, m), Region(s, mid, to, m, last)
    PROVE  FramesIn(s, from, to) = FramesIn(s, from, mid) \o FramesIn(s, mid, to)
<1> DEFINE q == FramesIn(s, from, mid)
           r == FramesIn(s, mid, to)
           a == first - m
           b == m - last
           n == first - last
           c == q \o r
<1>1. from \in Nat /\ mid \in Nat /\ to \in Nat /\ from <= mid /\ mid <= to BY DEF Region
<1>2. Region(s, from, to, first, last) BY JoinedRegions
<1>3. Listed(s, from, mid, first, m, q) /\ Listed(s, mid, to, m, last, r)
  BY FramesListed
<1> HIDE DEF q, r
<1>4. /\ a \in Nat /\ q = [i \in 1 .. a |-> q[i]]
      /\ \A i \in 1 .. a : \E o \in from .. mid - 1 :
            /\ s.stack[o].depth = first + 1 - i
            /\ q[i] = Saved(s, o)
      /\ \A o \in from .. mid - 1 :
            /\ first + 1 - s.stack[o].depth \in 1 .. a
            /\ q[first + 1 - s.stack[o].depth] = Saved(s, o)
  BY <1>3 DEF Listed
<1>5. /\ b \in Nat /\ r = [i \in 1 .. b |-> r[i]]
      /\ \A i \in 1 .. b : \E o \in mid .. to - 1 :
            /\ s.stack[o].depth = m + 1 - i
            /\ r[i] = Saved(s, o)
      /\ \A o \in mid .. to - 1 :
            /\ m + 1 - s.stack[o].depth \in 1 .. b
            /\ r[m + 1 - s.stack[o].depth] = Saved(s, o)
  BY <1>3 DEF Listed
<1>6. n = a + b /\ n \in Nat BY <1>4, <1>5
<1>7. \A o \in from .. to - 1 : s.stack[o].depth \in Nat
  BY <1>2 DEF Region, Bytes, Byte
<1>a. first = m + a OBVIOUS
<1> HIDE DEF a, b, n
<1>8. c = [i \in 1 .. n |-> IF i <= a THEN q[i] ELSE r[i - a]]
  <2>1. q = [i \in 1 .. a |-> q[i]] BY <1>4
  <2>2. r = [i \in 1 .. b |-> r[i]] BY <1>5
  <2>3. a \in Nat /\ b \in Nat BY <1>4, <1>5
  <2>4. q \o r = [i \in 1 .. a + b |-> IF i <= a THEN q[i] ELSE r[i - a]]
    BY <2>1, <2>2, <2>3, Concatenated, SMTT(60)
  <2> QED BY <1>6, <2>4
<1> HIDE DEF c
<1>9. ASSUME NEW i \in 1 .. n
      PROVE  \E o \in from .. to - 1 : /\ s.stack[o].depth = first + 1 - i
                                       /\ c[i] = Saved(s, o)
  <2>1. CASE i <= a
    <3>1. i \in 1 .. a BY <1>4, <1>6, <2>1
    <3>2. PICK o \in from .. mid - 1 : /\ s.stack[o].depth = first + 1 - i
                                       /\ q[i] = Saved(s, o)
      BY <1>4, <3>1
    <3>3. o \in from .. to - 1 BY <1>1
    <3> QED BY <1>8, <2>1, <3>2, <3>3
  <2>2. CASE ~(i <= a)
    <3>1. i - a \in 1 .. b /\ m + 1 - (i - a) = first + 1 - i
      BY <1>4, <1>5, <1>6, <1>a, <2>2
    <3>2. PICK o \in mid .. to - 1 : /\ s.stack[o].depth = m + 1 - (i - a)
                                     /\ r[i - a] = Saved(s, o)
      BY <1>5, <3>1
    <3>3. o \in from .. to - 1 BY <1>1
    <3> QED BY <1>8, <2>2, <3>1, <3>2, <3>3
  <2> QED BY <2>1, <2>2
<1>10. ASSUME NEW o \in from .. to - 1
       PROVE  /\ first + 1 - s.stack[o].depth \in 1 .. n
              /\ c[first + 1 - s.stack[o].depth] = Saved(s, o)
  <2> DEFINE i == first + 1 - s.stack[o].depth
  <2>1. CASE o < mid
    <3>1. o \in from .. mid - 1 BY <1>1, <2>1
    <3>2. i \in 1 .. a /\ q[i] = Saved(s, o) BY <1>4, <3>1
    <3>3. i \in 1 .. n /\ i <= a BY <1>4, <1>5, <1>6, <3>2
    <3> HIDE DEF i
    <3>4. c[i] = Saved(s, o) BY <1>8, <3>2, <3>3
    <3> QED BY <3>3, <3>4 DEF i
  <2>2. CASE o >= mid
    <3>1. o \in mid .. to - 1 BY <1>1, <2>2
    <3>2. /\ m + 1 - s.stack[o].depth \in 1 .. b
          /\ r[m + 1 - s.stack[o].depth] = Saved(s, o)
      BY <1>5, <3>1
    <3>3. /\ i \in 1 .. n /\ ~(i <= a) /\ i - a = m + 1 - s.stack[o].depth
      <4>1. a \in Nat /\ b \in Nat /\ s.stack[o].depth \in Nat BY <1>4, <1>5, <1>7
      <4>2. PICK x \in Nat : x = s.stack[o].depth BY <4>1
      <4>3. m + 1 - x \in 1 .. b /\ i = first + 1 - x BY <3>2, <4>2
      <4> HIDE DEF i
      <4>4. i \in 1 .. n /\ ~(i <= a) /\ i - a = m + 1 - x
        BY <1>6, <1>a, <4>1, <4>3
      <4> QED BY <4>2, <4>4
    <3> HIDE DEF i
    <3>4. c[i] = Saved(s, o) BY <1>8, <3>2, <3>3
    <3> QED BY <3>3, <3>4 DEF i
  <2> QED BY <1>1, <2>1, <2>2
<1>11. c = [i \in 1 .. n |-> c[i]] BY <1>8
<1>12. Listed(s, from, to, first, last, c)
  BY <1>6, <1>9, <1>10, <1>11 DEF Listed, n
<1>13. Listed(s, from, to, first, last, FramesIn(s, from, to)) BY <1>2, FramesListed
<1>14. FramesIn(s, from, to) = c BY <1>12, <1>13, ListedOnce
<1> QED BY <1>14 DEF c, q, r

\* No frame, and one.
LEMMA NoFrames ==
    ASSUME NEW s, Bytes(s), NEW at \in Nat
    PROVE  FramesIn(s, at, at) = <<>>
<1>1. Region(s, at, at, 0, 0) BY DEF Region, Framed, Descending
<1>2. Listed(s, at, at, 0, 0, FramesIn(s, at, at)) BY <1>1, FramesListed
<1> QED BY <1>2 DEF Listed

LEMMA OneFrame ==
    ASSUME NEW s, Bytes(s), NEW from, NEW to, NEW d \in Nat \ {0},
           Region(s, from, to, d, d - 1), from < to
    PROVE  FramesIn(s, from, to) = <<Saved(s, from)>>
<1> DEFINE q == FramesIn(s, from, to)
<1>1. d \in Nat /\ d - 1 \in Nat /\ from \in from .. to - 1 BY DEF Region
<1>2. Listed(s, from, to, d, d - 1, q) BY <1>1, FramesListed
<1> HIDE DEF q
<1>3. s.stack[from].depth = d BY DEF Region, Descending
<1>4. q = [i \in 1 .. 1 |-> q[i]] /\ q[1] = Saved(s, from)
  <2>1. d - (d - 1) = 1 /\ d + 1 - s.stack[from].depth = 1 BY <1>3
  <2> QED BY <1>1, <1>2, <2>1 DEF Listed
<1> QED BY <1>4 DEF q

\* The frame eu_stack_run takes first, and the others.
LEMMA FramesPopped ==
    ASSUME NEW s, NEW from, NEW to, NEW first \in Nat, NEW last \in Nat, Bytes(s),
           Region(s, from, to, first, last), from < to
    PROVE  FramesIn(s, from, to)
              = <<Saved(s, from)>>
                   \o FramesIn(s, from + FrameSize(s.stack[from].kind), to)
<1> DEFINE k == s.stack[from].kind
           size == FrameSize(k)
<1>1. /\ from \in DOMAIN s.stack /\ k \in Kinds /\ first >= 1 /\ from + size <= to
      /\ Region(s, from + size, to, first - 1, last)
  BY PoppedRegion
<1>2. /\ s.stack[from].ix = 0
      /\ \A i \in 0 .. size - 1 : s.stack[from + i] = FrameByte(first, k, i)
  BY FirstFrame
<1>3. size \in Nat /\ size >= 1 /\ from \in Nat /\ to \in Nat
      /\ from .. to - 1 \subseteq DOMAIN s.stack
  BY <1>1, FrameSizeFacts DEF Region
<1>4. \A i \in 0 .. size - 1 : from + i \in DOMAIN s.stack BY <1>1, <1>3
<1>5. Region(s, from, from + size, first, first - 1)
  <2>1. first \in Nat \ {0} /\ k \in Kinds /\ from \in Nat BY <1>1, <1>3
  <2>2. \A i \in 0 .. size - 1 : /\ from + i \in DOMAIN s.stack
                                 /\ s.stack[from + i] = FrameByte(first, k, i)
    BY <1>2, <1>4
  <2> HIDE DEF k
  <2> QED BY <2>1, <2>2, SingleFrame
<1> HIDE DEF size, k
<1>6. first - 1 \in Nat /\ first \in Nat \ {0} /\ from < from + size BY <1>1, <1>3
<1>7. FramesIn(s, from, from + size) = <<Saved(s, from)>> BY <1>5, <1>6, OneFrame
<1>8. FramesIn(s, from, to)
         = FramesIn(s, from, from + size) \o FramesIn(s, from + size, to)
  BY <1>1, <1>5, <1>6, JoinedFrames
<1> QED BY <1>7, <1>8 DEF size, k

-----------------------------------------------------------------------------
(***************************************************************************)
(* The operations, as FrameStack sees them.                                *)
(***************************************************************************)
\* A sequence that was taken apart.
LEMMA Uncons ==
    ASSUME NEW n \in Nat, NEW x, NEW q, NEW r, r = [i \in 1 .. n |-> r[i]],
           q = <<x>> \o r
    PROVE  q # <<>> /\ Head(q) = x /\ Tail(q) = r
<1> DEFINE S == {x} \cup {r[i] : i \in 1 .. n}
<1>1. r \in [1 .. n -> S] OBVIOUS
<1>2. <<x>> \in Seq(S) /\ Len(<<x>>) = 1 OBVIOUS
<1> HIDE DEF S
<1>3. r \in Seq(S) /\ Len(r) = n BY <1>1
<1>4. q \in Seq(S) /\ Len(q) = n + 1 /\ q[1] = x BY <1>2, <1>3
<1>5. \A i \in 1 .. n : q[i + 1] = r[i] BY <1>2, <1>3
<1>6. q # <<>> /\ Head(q) = x BY <1>4
<1>7. Tail(q) \in Seq(S) /\ Len(Tail(q)) = n
      /\ \A i \in 1 .. n : Tail(q)[i] = q[i + 1]
  BY <1>4
<1>8. Tail(q) = r BY <1>3, <1>5, <1>7
<1> QED BY <1>6, <1>8

\* The frames of a region are a sequence.
LEMMA FramesSequence ==
    ASSUME NEW s, Bytes(s), NEW from, NEW to, NEW first \in Nat, NEW last \in Nat,
           Region(s, from, to, first, last)
    PROVE  \E n \in Nat :
              FramesIn(s, from, to) = [i \in 1 .. n |-> FramesIn(s, from, to)[i]]
<1> DEFINE q == FramesIn(s, from, to)
           n == first - last
<1>1. Listed(s, from, to, first, last, q) BY FramesListed
<1> HIDE DEF q
<1>2. n \in Nat /\ q = [i \in 1 .. n |-> q[i]] BY <1>1 DEF Listed
<1> QED BY <1>2 DEF q

\* They depend on the bytes of the region only.
LEMMA KeptFrames ==
    ASSUME NEW s, NEW s2, NEW from, NEW to, NEW first \in Nat, NEW last \in Nat,
           Bytes(s), Bytes(s2), Region(s, from, to, first, last),
           Shifted(s, s2, from, to, 0)
    PROVE  FramesIn(s2, from, to) = FramesIn(s, from, to)
<1>1. from \in Nat /\ to \in Nat BY DEF Region
<1>2. FramesIn(s2, from + 0, to + 0) = FramesIn(s, from, to) BY <1>1, MovedFrames
<1> QED BY <1>1, <1>2

\* Bigger blocks, and writes of scratch text, leave the frames as they are.
LEMMA CarriedFrames ==
    ASSUME NEW s, NEW t \in Nat, NEW mid \in Nat, NEW bottom \in Nat,
           Sound(s, t, mid, bottom),
           NEW s2, NEW t2, NEW mid2, NEW bottom2, Sound(s2, t2, mid2, bottom2),
           Carried(s, s2)
    PROVE  FreshFrames(s2) = FreshFrames(s) /\ BaseFrames(s2) = BaseFrames(s)
<1> DEFINE nb == s.new_stack_bottom
           nt == s.new_stack_top
           ob == s.old_stack_bottom
           area == s.stack_area_size
           nd == s2.new_stack_bottom - nb
           od == s2.old_stack_bottom - ob
<1>1. /\ nb \in Nat /\ nt \in Nat /\ ob \in Nat /\ area \in Nat /\ Bytes(s)
      /\ Region(s, nb, nt, t, mid) /\ Region(s, ob, area, bottom, 0)
  BY SoundFacts
<1>2. /\ s2.new_stack_bottom \in Nat /\ s2.new_stack_top \in Nat
      /\ s2.old_stack_bottom \in Nat /\ s2.stack_area_size \in Nat /\ Bytes(s2)
  BY SoundFacts
<1>3. /\ Shifted(s, s2, nb, nt, nd) /\ Shifted(s, s2, ob, area, od)
      /\ s2.new_stack_top - s2.new_stack_bottom = nt - nb
      /\ s2.stack_area_size - s2.old_stack_bottom = area - ob
  BY DEF Carried, NewSize
<1>4. /\ nd \in Int /\ od \in Int
      /\ nb + nd = s2.new_stack_bottom /\ nt + nd = s2.new_stack_top
      /\ ob + od = s2.old_stack_bottom /\ area + od = s2.stack_area_size
  <2>1. s2.new_stack_top - s2.new_stack_bottom = nt - nb BY <1>3
  <2>2. s2.stack_area_size - s2.old_stack_bottom = area - ob BY <1>3
  <2>3. nb \in Nat /\ nt \in Nat /\ ob \in Nat /\ area \in Nat BY <1>1
  <2>4. nd = s2.new_stack_bottom - nb /\ od = s2.old_stack_bottom - ob OBVIOUS
  <2>5. /\ s2.new_stack_bottom \in Nat /\ s2.new_stack_top \in Nat
        /\ s2.old_stack_bottom \in Nat /\ s2.stack_area_size \in Nat
    BY <1>2
  <2> HIDE DEF nb, nt, ob, area, nd, od
  <2>6. nd \in Int /\ od \in Int BY <2>3, <2>4, <2>5
  <2>7. nb + nd = s2.new_stack_bottom /\ nt + nd = s2.new_stack_top
    BY <2>1, <2>3, <2>4, <2>5
  <2>8. ob + od = s2.old_stack_bottom /\ area + od = s2.stack_area_size
    BY <2>2, <2>3, <2>4, <2>5
  <2> QED BY <2>6, <2>7, <2>8
<1>5. nb + nd >= 0 /\ ob + od >= 0 BY <1>2, <1>4
<1> HIDE DEF nb, nt, ob, area, nd, od
<1>6. FramesIn(s2, nb + nd, nt + nd) = FramesIn(s, nb, nt)
  BY <1>1, <1>2, <1>3, <1>4, <1>5, MovedFrames
<1>7. FramesIn(s2, ob + od, area + od) = FramesIn(s, ob, area)
  BY <1>1, <1>2, <1>3, <1>4, <1>5, MovedFrames
<1> QED BY <1>4, <1>6, <1>7 DEF FreshFrames, BaseFrames, nb, nt, ob, area

\* eu_stack_begin_pause puts the new frames in front of the old.
LEMMA MergedFrames ==
    ASSUME NEW s, NEW t \in Nat, NEW mid \in Nat, Sound(s, t, mid, mid),
           NEW s2, NEW t2, NEW mid2, NEW bottom2, Sound(s2, t2, mid2, bottom2),
           Merged(s, s2)
    PROVE  /\ FreshFrames(s2) = <<>>
           /\ BaseFrames(s2) = FreshFrames(s) \o BaseFrames(s)
<1> DEFINE nb == s.new_stack_bottom
           nt == s.new_stack_top
           ob == s.old_stack_bottom
           area == s.stack_area_size
           ob2 == s2.old_stack_bottom
           d == ob2 - nb
<1>1. /\ nb \in Nat /\ nt \in Nat /\ ob \in Nat /\ area \in Nat /\ Bytes(s)
      /\ Region(s, nb, nt, t, mid) /\ Region(s, ob, area, mid, 0)
  BY SoundFacts
<1>2. ob2 \in Nat /\ s2.new_stack_top \in Nat /\ Bytes(s2) BY SoundFacts
<1>3. /\ Shifted(s, s2, nb, nt, d) /\ Shifted(s, s2, ob, area, 0)
      /\ s2.new_stack_bottom = s2.new_stack_top
      /\ ob2 = ob - (nt - nb) /\ s2.stack_area_size = area
  BY DEF Merged, NewEmpty, NewSize
<1>4. d \in Int /\ nb + d = ob2 /\ nt + d = ob /\ nb + d >= 0 BY <1>1, <1>2, <1>3
<1> HIDE DEF nb, nt, ob, area, ob2, d
<1>5. /\ FramesIn(s2, nb + d, nt + d) = FramesIn(s, nb, nt)
      /\ Region(s2, nb + d, nt + d, t, mid)
  BY <1>1, <1>2, <1>3, <1>4, MovedFrames, MovedRegion
<1>6. FramesIn(s2, ob, area) = FramesIn(s, ob, area) /\ Region(s2, ob, area, mid, 0)
  BY <1>1, <1>2, <1>3, KeptFrames, KeptRegion
<1>7. Region(s2, ob2, ob, t, mid) BY <1>4, <1>5
<1>8. FramesIn(s2, ob2, area) = FramesIn(s2, ob2, ob) \o FramesIn(s2, ob, area)
  BY <1>2, <1>6, <1>7, JoinedFrames
<1>9. FreshFrames(s2) = <<>> BY <1>2, <1>3, NoFrames DEF FreshFrames
<1>10. BaseFrames(s2) = FramesIn(s, nb, nt) \o FramesIn(s, ob, area)
  BY <1>3, <1>4, <1>5, <1>6, <1>8 DEF BaseFrames, ob2, area
<1> QED BY <1>9, <1>10 DEF FreshFrames, BaseFrames, nb, nt, ob, area

\* eu_stack_alloc adds a frame behind the new ones.
LEMMA PushedFrames ==
    ASSUME NEW s, NEW t \in Nat, NEW d \in Nat \ {0}, NEW bottom \in Nat,
           NEW k \in Kinds,
           Sound(s, t, d, bottom), s.scratch_size <= s.new_stack_bottom,
           AllocFits(s, k)
    PROVE  /\ FreshFrames(Push(s, d, k))
                = Append(FreshFrames(s), [depth |-> d, kind |-> k])
           /\ BaseFrames(Push(s, d, k)) = BaseFrames(s)
<1> DEFINE nb == s.new_stack_bottom
           nt == s.new_stack_top
           ob == s.old_stack_bottom
           area == s.stack_area_size
           s2 == Push(s, d, k)
           end == s2.new_stack_top
<1>1. /\ nb \in Nat /\ nt \in Nat /\ ob \in Nat /\ area \in Nat /\ Bytes(s)
      /\ Region(s, nb, nt, t, d) /\ Region(s, ob, area, bottom, 0)
  BY SoundFacts
<1>2. /\ Sound(s2, t, d - 1, bottom) /\ s2.new_stack_bottom = nb
      /\ Shifted(s, s2, nb, nt, 0) /\ Region(s2, nt, end, d, d - 1)
      /\ Saved(s2, nt) = [depth |-> d, kind |-> k]
      /\ s2.old_stack_bottom = ob /\ s2.stack_area_size = area
      /\ Shifted(s, s2, ob, area, 0)
  BY PushSound
<1>3. end \in Nat /\ Bytes(s2) BY <1>2, SoundFacts
<1> HIDE DEF nb, nt, ob, area, s2, end
<1>4. d \in Nat /\ d - 1 \in Nat OBVIOUS
<1>5. nt < end
  <2>1. nt <= end BY <1>2 DEF Region
  <2>2. nt # end BY <1>2, <1>4 DEF Region, Descending
  <2> QED BY <1>1, <1>3, <2>1, <2>2
<1>6. FramesIn(s2, nb, nt) = FramesIn(s, nb, nt) /\ Region(s2, nb, nt, t, d)
  BY <1>1, <1>2, <1>3, <1>4, KeptFrames, KeptRegion
<1>7. FramesIn(s2, nt, end) = <<Saved(s2, nt)>> BY <1>2, <1>3, <1>5, OneFrame
<1>8. FramesIn(s2, nb, end) = FramesIn(s2, nb, nt) \o FramesIn(s2, nt, end)
  BY <1>2, <1>3, <1>4, <1>6, JoinedFrames, SMTT(60)
<1>9. BaseFrames(s2) = BaseFrames(s)
  <2>1. FramesIn(s2, ob, area) = FramesIn(s, ob, area)
    BY <1>1, <1>2, <1>3, KeptFrames
  <2> QED BY <1>2, <2>1 DEF BaseFrames, ob, area
<1> DEFINE q == FramesIn(s, nb, nt)
           x == [depth |-> d, kind |-> k]
<1>10. FreshFrames(s2) = q \o <<x>>
  BY <1>2, <1>6, <1>7, <1>8 DEF FreshFrames, end
<1>11. q \o <<x>> = Append(q, x)
  <2>1. PICK n \in Nat : q = [i \in 1 .. n |-> q[i]]
    BY <1>1, <1>4, FramesSequence
  <2> HIDE DEF q, x
  <2> DEFINE S == {x} \cup {q[i] : i \in 1 .. n}
  <2>2. q \in [1 .. n -> S] /\ x \in S BY <2>1
  <2> HIDE DEF S
  <2>3. q \in Seq(S) BY <2>2
  <2> QED BY <2>2, <2>3
<1> QED BY <1>9, <1>10, <1>11 DEF FreshFrames, s2, nb, nt

\* x is the first of the sequence q, and r are the others.
Splits(q, x, r) == q = <<x>> \o r /\ q # <<>> /\ Head(q) = x /\ Tail(q) = r

\* A block in which only the bottom of one region is another one.
LEMMA PoppedFrames ==
    ASSUME NEW s, NEW s2, Bytes(s), s2.stack = s.stack,
           NEW from, NEW to, NEW first \in Nat, NEW last \in Nat,
           Region(s, from, to, first, last), from < to,
           NEW rest, rest = FramesIn(s2, from + FrameSize(s.stack[from].kind), to)
    PROVE  Splits(FramesIn(s, from, to), Saved(s, from), rest)
<1> DEFINE at == from + FrameSize(s.stack[from].kind)
           r == FramesIn(s, at, to)
<1>1. Region(s, at, to, first - 1, last) /\ first - 1 \in Nat
  <2>1. /\ first >= 1
        /\ Region(s, from + FrameSize(s.stack[from].kind), to, first - 1, last)
    BY PoppedRegion
  <2>2. first - 1 \in Nat BY <2>1
  <2> QED BY <2>1, <2>2
<1>2. Bytes(s2) BY DEF Bytes
<1>3. Shifted(s, s2, at, to, 0)
  <2>1. at \in Nat /\ to \in Nat /\ at .. to - 1 \subseteq DOMAIN s.stack
    BY <1>1 DEF Region
  <2> HIDE DEF at
  <2> QED BY <2>1 DEF Shifted
<1>4. FramesIn(s2, at, to) = r
  <2> HIDE DEF at
  <2>1. FramesIn(s2, at, to) = FramesIn(s, at, to)
    BY <1>1, <1>2, <1>3, KeptFrames
  <2> QED BY <2>1
<1>5. FramesIn(s, from, to) = <<Saved(s, from)>> \o r
  <2>1. FramesIn(s, from, to)
              = <<Saved(s, from)>>
                   \o FramesIn(s, from + FrameSize(s.stack[from].kind), to)
    BY FramesPopped
  <2> QED BY <2>1
<1>6. \E n \in Nat : r = [i \in 1 .. n |-> r[i]]
  <2> HIDE DEF at
  <2>1. \E n \in Nat :
           FramesIn(s, at, to) = [i \in 1 .. n |-> FramesIn(s, at, to)[i]]
    BY <1>1, FramesSequence
  <2> QED BY <2>1
<1> HIDE DEF r
<1>7. /\ FramesIn(s, from, to) # <<>>
      /\ Head(FramesIn(s, from, to)) = Saved(s, from)
      /\ Tail(FramesIn(s, from, to)) = r
  BY <1>5, <1>6, Uncons
<1> QED BY <1>4, <1>5, <1>7 DEF Splits

\* Text that stays, as a sequence of characters.
LEMMA TextSequence ==
    ASSUME StackTypeOK(st), StackTypeOK(st'), SameText(st, st')
    PROVE  ScratchText' = ScratchText
<1>1. st.scratch_size \in Nat /\ st'.scratch_size = st.scratch_size
  BY DEF StackTypeOK, SameText
<1>2. ASSUME NEW i \in 1 .. st.scratch_size
      PROVE  st'.stack[i - 1].kind = st.stack[i - 1].kind
  <2>1. i - 1 \in 0 .. st.scratch_size - 1 BY <1>1
  <2> QED BY <2>1 DEF SameText
<1> QED BY <1>1, <1>2 DEF ScratchText

-----------------------------------------------------------------------------
(***************************************************************************)
(* Every step of EuStack is one of FrameStack, or none.                    *)
(***************************************************************************)
\* The parsers that are running are no deeper than MaxDepth, and neither is
\* the frame any of them may save.
DInv == /\ top <= MaxDepth
        /\ pc \in {"resumed", "pausing"} => hi <= MaxDepth

\* What is known where the parsers are not saving themselves.
LEMMA Settled ==
    ASSUME IInv, pc \notin {"pausing", "freed"}
    PROVE  /\ TypeOK /\ StackTypeOK(st) /\ top \in Nat /\ Text(st)
           /\ \E mid \in Nat : Sound(st, top, mid, mid)
<1>1. TypeOK /\ StackTypeOK(st) /\ top \in Nat /\ Text(st)
  BY DEF IInv, TypeOK, ScratchIsText, Text
<1> QED BY <1>1, IntactIffSound DEF IInv, FramesIntact

LEMMA NextDInv ==
    ASSUME IInv, DInv, [Next]_vars, ~ReserveFails, ~AllocFails
    PROVE  DInv'
<1>1. top \in Nat /\ lo \in Nat /\ hi \in Nat /\ MaxDepth \in Nat
  BY BoundsAssumption DEF IInv, TypeOK
<1>2. CASE Run BY <1>2 DEF Run, DInv
<1>3. CASE Pop \/ Destroy
  <2>1. PICK isNew \in BOOLEAN : PopFrom(isNew) BY <1>3 DEF Pop, Destroy
  <2>2. pc \notin {"pausing", "freed"} BY <1>3 DEF Pop, Destroy
  <2>3. TypeOK /\ Text(st) /\ \E mid \in Nat : Sound(st, top, mid, mid)
    BY <2>2, Settled
  <2>4. PICK mid \in Nat : Sound(st, top, mid, mid) BY <2>3
  <2>5. top' \in Nat /\ lo' = top' + 1 /\ hi' = lo' BY <2>1, <2>3, <2>4, PopFromSound
  <2>6. top' = top - 1 BY <2>1 DEF PopFrom
  <2> QED BY <1>1, <2>5, <2>6 DEF DInv
<1>4. CASE Nest BY <1>1, <1>4 DEF Nest, DInv
<1>5. CASE ReturnOk BY <1>1, <1>5 DEF ReturnOk, DInv
<1>6. CASE ReturnReinstate
  <2>1. lo = top + 1 /\ hi = lo /\ hi <= MaxDepth /\ top' = top + 1 /\ pc' = "waiting"
    BY <1>6 DEF ReturnReinstate, IInv, ResumesInnermost, DInv
  <2> QED BY <2>1 DEF DInv
<1>7. CASE SetScratch \/ AppendScratch \/ UnescapeIntoScratch \/ ResetScratch
  <2>1. pc' = pc /\ hi' = hi /\ top' = top
    BY <1>7 DEF SetScratch, AppendScratch, UnescapeIntoScratch, ReserveAndWrite,
                ResetScratch
  <2> QED BY <2>1 DEF DInv
<1>8. CASE StartPause BY <1>8 DEF StartPause, DInv
<1>9. CASE Alloc
  <2>1. pc = "pausing" /\ hi' = hi - 1 /\ top' = top BY <1>9 DEF Alloc
  <2> QED BY <1>1, <2>1 DEF DInv
<1>10. CASE RunEnds \/ ReturnError \/ Fini \/ Free \/ Freed \/ UNCHANGED vars
  <2>1. top' = top BY <1>10 DEF RunEnds, ReturnError, Fini, Free, Freed, vars
  <2>2. pc' \in {"resumed", "pausing"} => pc' = pc /\ hi' = hi
    BY <1>10 DEF RunEnds, ReturnError, Fini, Free, Freed, vars
  <2> QED BY <2>1, <2>2 DEF DInv
<1> QED BY <1>2, <1>3, <1>4, <1>5, <1>6, <1>7, <1>8, <1>9, <1>10 DEF Next

\* eu_stack_init makes room for one frame.
LEMMA InitRefines == Init => DInv /\ Abstract!FInit
<1> SUFFICES ASSUME Init PROVE DInv /\ Abstract!FInit OBVIOUS
<1>1. IInv BY InitIInv
<1> DEFINE n == Size[InitialKind]
           mem == [o \in 0 .. n - 1 |-> FrameByte(1, InitialKind, o)]
<1>2. /\ st = Fields(mem, 0, 0, 0, 0, n) /\ pc = "waiting" /\ top = 1
  BY DEF Init
<1>3. n \in Nat /\ n >= 1 BY KindsAssumption
<1>4. mem[0] = FrameByte(1, InitialKind, 0) BY <1>3
<1> HIDE DEF n, mem
<1>5. /\ st.stack = mem /\ st.scratch_size = 0 /\ st.new_stack_bottom = 0
      /\ st.new_stack_top = 0 /\ st.old_stack_bottom = 0 /\ st.stack_area_size = n
  BY <1>2, FieldsOf
<1>6. PICK mid \in Nat : Sound(st, 1, mid, mid) BY <1>1, <1>2, Settled
<1>7. Bytes(st) /\ Region(st, 0, 0, 1, mid) /\ Region(st, 0, n, mid, 0)
  BY <1>5, <1>6, SoundFacts
<1>8. mid = 1 BY <1>7 DEF Region, Descending
<1>9. FreshFrames(st) = <<>>
  <2>1. 0 \in Nat OBVIOUS
  <2> QED BY <1>5, <1>7, <2>1, NoFrames DEF FreshFrames
<1>10. BaseFrames(st) = <<Saved(st, 0)>>
  <2>1. 1 \in Nat \ {0} /\ 1 - 1 = 0 /\ 0 < n BY <1>3
  <2>2. Region(st, 0, n, 1, 1 - 1) BY <1>7, <1>8, <2>1
  <2> QED BY <1>5, <1>7, <2>1, <2>2, OneFrame DEF BaseFrames
<1>11. Saved(st, 0) \in Frames
  BY <1>4, <1>5, KindsAssumption, BoundsAssumption DEF Saved, Frames, FrameByte
<1>12. ScratchText = <<>> BY <1>5 DEF ScratchText
<1>13. Taken = None BY <1>2 DEF Taken
<1>14. Abstract!FInit BY <1>9, <1>10, <1>11, <1>12, <1>13 DEF Abstract!FInit
<1>15. DInv BY <1>2, BoundsAssumption DEF DInv
<1> QED BY <1>14, <1>15

\* A frame is popped.
LEMMA PopRefines ==
    ASSUME TypeOK, NEW mid \in Nat, Sound(st, top, mid, mid), Text(st),
           NEW isNew \in BOOLEAN, PopFrom(isNew),
           Taken' \in {None, [frame |-> Saved(st, f'), fresh |-> isNew]}
    PROVE  Abstract!TakeFresh \/ Abstract!TakeBase
<1> DEFINE nb == st.new_stack_bottom
           nt == st.new_stack_top
           ob == st.old_stack_bottom
           area == st.stack_area_size
           o == IF isNew THEN nb ELSE ob
           size == FrameSize(st.stack[o].kind)
<1>1. /\ nb \in Nat /\ nt \in Nat /\ ob \in Nat /\ area \in Nat
      /\ nb <= nt /\ ob <= area /\ top \in Nat /\ Bytes(st) /\ StackTypeOK(st)
      /\ Region(st, nb, nt, top, mid) /\ Region(st, ob, area, mid, 0)
  BY SoundFacts DEF TypeOK
<1>2. st = Fields(st.stack, st.scratch_size, nb, nt, ob, area)
  BY <1>1 DEF StackTypeOK
<1>3. /\ f' = o
      /\ st' = IF isNew THEN [st EXCEPT !.new_stack_bottom = o + size]
                        ELSE [st EXCEPT !.old_stack_bottom = o + size]
      /\ IF isNew THEN ~NewEmpty(st) ELSE NewEmpty(st) /\ ~OldEmpty(st)
  BY DEF PopFrom
<1>4. /\ st'.stack = st.stack /\ st'.scratch_size = st.scratch_size
      /\ st'.new_stack_bottom = IF isNew THEN nb + size ELSE nb
      /\ st'.new_stack_top = nt
      /\ st'.old_stack_bottom = IF isNew THEN ob ELSE ob + size
      /\ st'.stack_area_size = area
  <2>1. CASE isNew
    <3>1. st' = Fields(st.stack, st.scratch_size, nb + size, nt, ob, area)
      BY <1>2, <1>3, <2>1 DEF Fields
    <3> QED BY <2>1, <3>1, FieldsOf
  <2>2. CASE ~isNew
    <3>1. st' = Fields(st.stack, st.scratch_size, nb, nt, ob + size, area)
      BY <1>2, <1>3, <2>2 DEF Fields
    <3> QED BY <2>2, <3>1, FieldsOf
  <2> QED BY <2>1, <2>2
<1>5. ScratchText' = ScratchText BY <1>4 DEF ScratchText
<1>6. Bytes(st') BY <1>1, <1>4 DEF Bytes
<1>7. CASE isNew
  <2>1. nb < nt /\ o = nb /\ f' = nb BY <1>1, <1>3, <1>7 DEF NewEmpty
  <2>a. PICK rest : rest = FramesIn(st', nb + FrameSize(st.stack[nb].kind), nt)
    OBVIOUS
  <2>2. Splits(FramesIn(st, nb, nt), Saved(st, nb), rest)
    BY <1>1, <1>4, <2>1, <2>a, PoppedFrames
  <2>3. FreshFrames(st') = rest BY <1>4, <1>7, <2>1, <2>a DEF FreshFrames
  <2>4. BaseFrames(st') = BaseFrames(st)
    <3>1. Shifted(st, st', ob, area, 0) BY <1>1, <1>4 DEF Shifted, Region
    <3>2. FramesIn(st', ob, area) = FramesIn(st, ob, area)
      BY <1>1, <1>6, <3>1, KeptFrames
    <3> QED BY <1>4, <1>7, <3>2 DEF BaseFrames
  <2>5. Taken' \in {None, [frame |-> Head(FreshFrames(st)), fresh |-> TRUE]}
    BY <1>7, <2>1, <2>2 DEF FreshFrames, Splits
  <2>6. FreshFrames(st) # <<>> /\ FreshFrames(st') = Tail(FreshFrames(st))
    BY <2>2, <2>3 DEF FreshFrames, Splits
  <2>7. Abstract!TakeFresh BY <1>5, <2>4, <2>5, <2>6 DEF Abstract!TakeFresh
  <2> QED BY <2>7
<1>8. CASE ~isNew
  <2>1. nb = nt /\ ob < area /\ o = ob /\ f' = ob
    BY <1>1, <1>3, <1>8 DEF NewEmpty, OldEmpty
  <2>a. PICK rest : rest = FramesIn(st', ob + FrameSize(st.stack[ob].kind), area)
    OBVIOUS
  <2>2. Splits(FramesIn(st, ob, area), Saved(st, ob), rest)
    <3>1. 0 \in Nat OBVIOUS
    <3> QED BY <1>1, <1>4, <2>1, <2>a, <3>1, PoppedFrames
  <2>3. BaseFrames(st') = rest BY <1>4, <1>8, <2>1, <2>a DEF BaseFrames
  <2>4. FreshFrames(st) = <<>> /\ FreshFrames(st') = <<>>
    BY <1>1, <1>4, <1>6, <1>8, <2>1, NoFrames DEF FreshFrames
  <2>5. Taken' \in {None, [frame |-> Head(BaseFrames(st)), fresh |-> FALSE]}
    BY <1>8, <2>1, <2>2 DEF BaseFrames, Splits
  <2>6. BaseFrames(st) # <<>> /\ BaseFrames(st') = Tail(BaseFrames(st))
    BY <2>2, <2>3 DEF BaseFrames, Splits
  <2>7. Abstract!TakeBase BY <1>5, <2>4, <2>5, <2>6 DEF Abstract!TakeBase
  <2> QED BY <2>7
<1> QED BY <1>7, <1>8

\* Depths only go down along a region.
LEMMA DepthsDescend ==
    ASSUME NEW s, Bytes(s), NEW from, NEW to, NEW first \in Nat, NEW last \in Nat,
           Region(s, from, to, first, last)
    PROVE  first >= last
<1>1. Listed(s, from, to, first, last, FramesIn(s, from, to)) BY FramesListed
<1>2. first - last \in Nat BY <1>1 DEF Listed
<1> QED BY <1>2

\* Where frames of the same bytes end, the frame put back starts.
LEMMA PutBackSplits ==
    ASSUME NEW s, NEW s2, Bytes(s), s2.stack = s.stack,
           NEW from, NEW to, NEW first \in Nat, NEW last \in Nat,
           Region(s, from, to, first, last), from < to,
           NEW at, at = from + FrameSize(s.stack[from].kind)
    PROVE  Splits(FramesIn(s, from, to), Saved(s, from), FramesIn(s2, at, to))
<1>1. PICK rest : rest = FramesIn(s2, from + FrameSize(s.stack[from].kind), to)
  OBVIOUS
<1>2. Splits(FramesIn(s, from, to), Saved(s, from), rest) BY <1>1, PoppedFrames
<1> QED BY <1>1, <1>2

\* The frame popped last is put back.
LEMMA ReinstateRefines ==
    ASSUME IInv, ReturnReinstate
    PROVE  Abstract!PutBack
<1> DEFINE nb == st.new_stack_bottom
           nt == st.new_stack_top
           ob == st.old_stack_bottom
           area == st.stack_area_size
           size == FrameSize(st.stack[f].kind)
           nb2 == st'.new_stack_bottom
           ob2 == st'.old_stack_bottom
<1>1. pc = "resumed" /\ ~touched /\ st' = Reinstated(st) /\ pc' = "waiting"
  BY DEF ReturnReinstate
<1>2. TypeOK /\ StackTypeOK(st) /\ top \in Nat /\ fromNew \in BOOLEAN
  BY DEF IInv, TypeOK
<1>3. PICK mid \in Nat : Sound(st, top, mid, mid) BY <1>1, Settled
<1>4. /\ Intact(st', top + 1) /\ f = IF fromNew THEN nb2 ELSE ob2
  BY <1>1 DEF IInv, CanReinstate
<1>5. StackTypeOK(st') BY <1>1, <1>2, <1>4, ReinstatedFields
<1>6. top + 1 \in Nat BY <1>2
<1>7. PICK m \in Nat : Sound(st', top + 1, m, m) BY <1>4, <1>5, <1>6, IntactIffSound
<1>8. st = Fields(st.stack, st.scratch_size, nb, nt, ob, area)
  BY <1>2 DEF StackTypeOK
<1>9. /\ st'.stack = st.stack /\ st'.scratch_size = st.scratch_size
      /\ nb2 = IF fromNew THEN nb - size ELSE nb
      /\ st'.new_stack_top = nt
      /\ ob2 = IF fromNew THEN ob ELSE ob - size
      /\ st'.stack_area_size = area
  <2>1. CASE fromNew
    <3>1. st' = Fields(st.stack, st.scratch_size, nb - size, nt, ob, area)
      BY <1>1, <1>8, <2>1 DEF Fields, Reinstated
    <3> QED BY <2>1, <3>1, FieldsOf
  <2>2. CASE ~fromNew
    <3>1. st' = Fields(st.stack, st.scratch_size, nb, nt, ob - size, area)
      BY <1>1, <1>8, <2>2 DEF Fields, Reinstated
    <3> QED BY <2>2, <3>1, FieldsOf
  <2> QED BY <2>1, <2>2
<1>10. /\ nb \in Nat /\ nt \in Nat /\ ob \in Nat /\ area \in Nat
       /\ nb <= nt /\ ob <= area /\ Bytes(st)
       /\ Region(st, nb, nt, top, mid) /\ Region(st, ob, area, mid, 0)
  BY <1>3, SoundFacts
<1>11. /\ nb2 \in Nat /\ ob2 \in Nat /\ Bytes(st')
       /\ Region(st', nb2, nt, top + 1, m) /\ Region(st', ob2, area, m, 0)
       /\ nb2 <= nt /\ ob2 <= area
  BY <1>7, <1>9, SoundFacts
<1>12. ScratchText' = ScratchText BY <1>9 DEF ScratchText
<1>13. Taken = [frame |-> Saved(st, f), fresh |-> fromNew] /\ Taken' = None
  BY <1>1 DEF Taken
<1>14. Taken # None /\ Taken.frame = Saved(st, f) /\ Taken.fresh = fromNew
  <2>1. DOMAIN Taken = {"frame", "fresh"} BY <1>13
  <2>2. DOMAIN None = {"depth", "kind"} BY DEF None
  <2>3. "frame" \notin DOMAIN None BY <2>2
  <2>4. "frame" \in DOMAIN Taken BY <2>1
  <2> QED BY <1>13, <2>3, <2>4
<1>15. Saved(st', f) = Saved(st, f) BY <1>9 DEF Saved
<1>16. CASE fromNew
  <2>1. nb2 = nb - size /\ ob2 = ob /\ f = nb2 BY <1>4, <1>9, <1>16
  <2>2. m = mid
    <3>1. Region(st', ob, area, m, 0) BY <1>11, <2>1
    <3> QED BY <1>9, <1>10, <3>1 DEF Region, Descending
  <2>3. nb2 < nt
    <3> SUFFICES ASSUME nb2 = nt PROVE FALSE BY <1>10, <1>11
    <3>1. top + 1 = mid BY <1>11, <2>2 DEF Region, Descending
    <3>2. top >= mid BY <1>2, <1>10, DepthsDescend
    <3> QED BY <1>2, <3>1, <3>2
  <2>4. st'.stack[nb2].kind \in Kinds BY <1>6, <1>11, <2>3, PoppedRegion
  <2>5. size \in Nat BY <1>9, <2>1, <2>4, FrameSizeFacts
  <2>6. nb = nb2 + FrameSize(st'.stack[nb2].kind) BY <1>9, <1>10, <2>1, <2>5, SMTT(60)
  <2>7. Splits(FramesIn(st', nb2, nt), Saved(st', nb2), FramesIn(st, nb, nt))
    <3>1. st.stack = st'.stack BY <1>9
    <3> QED BY <1>6, <1>11, <2>3, <2>6, <3>1, PutBackSplits
  <2>8. FreshFrames(st') = <<Saved(st, f)>> \o FreshFrames(st)
    BY <1>9, <1>15, <2>1, <2>7 DEF FreshFrames, Splits
  <2>9. BaseFrames(st') = BaseFrames(st)
    <3>1. Shifted(st, st', ob, area, 0) BY <1>9, <1>10 DEF Shifted, Region
    <3>2. 0 \in Nat OBVIOUS
    <3>3. FramesIn(st', ob, area) = FramesIn(st, ob, area)
      BY <1>10, <1>11, <3>1, <3>2, KeptFrames
    <3> QED BY <1>9, <2>1, <3>3 DEF BaseFrames
  <2> QED BY <1>12, <1>13, <1>14, <1>16, <2>8, <2>9 DEF Abstract!PutBack
<1>17. CASE ~fromNew
  <2>1. ob2 = ob - size /\ nb2 = nb /\ f = ob2 BY <1>4, <1>9, <1>17
  <2>2. ob2 < area
    <3> SUFFICES ASSUME ob2 = area PROVE FALSE BY <1>10, <1>11
    <3>1. m = 0 BY <1>11 DEF Region, Descending
    <3>2. Region(st', nb, nt, top + 1, m) BY <1>11, <2>1
    <3>3. nb = nt
      <4> SUFFICES ASSUME nb < nt PROVE FALSE BY <1>10
      <4>1. st.stack[nb].depth = top BY <1>10 DEF Region, Descending
      <4>2. st'.stack[nb].depth = top + 1 BY <3>2 DEF Region, Descending
      <4> QED BY <1>2, <1>9, <4>1, <4>2
    <3>4. top + 1 = m BY <3>2, <3>3 DEF Region, Descending
    <3> QED BY <1>2, <3>1, <3>4
  <2>3. 0 \in Nat OBVIOUS
  <2>4. st'.stack[ob2].kind \in Kinds BY <1>11, <2>2, <2>3, PoppedRegion
  <2>5. size \in Nat BY <1>9, <2>1, <2>4, FrameSizeFacts
  <2>6. ob = ob2 + FrameSize(st'.stack[ob2].kind) BY <1>9, <1>10, <2>1, <2>5
  <2>7. Splits(FramesIn(st', ob2, area), Saved(st', ob2), FramesIn(st, ob, area))
    <3>1. st.stack = st'.stack BY <1>9
    <3> QED BY <1>11, <2>2, <2>3, <2>6, <3>1, PutBackSplits
  <2>8. BaseFrames(st') = <<Saved(st, f)>> \o BaseFrames(st)
    BY <1>9, <1>15, <2>1, <2>7 DEF BaseFrames, Splits
  <2>9. FreshFrames(st') = FreshFrames(st)
    <3>1. Shifted(st, st', nb, nt, 0) BY <1>9, <1>10 DEF Shifted, Region
    <3>2. FramesIn(st', nb, nt) = FramesIn(st, nb, nt)
      BY <1>2, <1>10, <1>11, <3>1, KeptFrames
    <3> QED BY <1>9, <2>1, <3>2 DEF FreshFrames
  <2> QED BY <1>12, <1>13, <1>14, <1>17, <2>8, <2>9 DEF Abstract!PutBack
<1> QED BY <1>2, <1>16, <1>17

\* Between two calls of eu_parse, bytes of no region are forgotten.
LEMMA RunRefines == ASSUME IInv, Run PROVE UNCHANGED Abstract!fvars
<1>1. pc = "waiting" /\ pc' = "running" /\ st' = Forgotten(st) BY DEF Run
<1>2. StackTypeOK(st) /\ top \in Nat BY DEF IInv, TypeOK
<1>3. PICK mid \in Nat : Sound(st, top, mid, mid) BY <1>1, Settled
<1>4. Sound(st', top, mid, mid) /\ SameText(st, st') /\ Carried(st, st')
  BY <1>1, <1>2, <1>3, ForgottenSound
<1>5. FreshFrames(st') = FreshFrames(st) /\ BaseFrames(st') = BaseFrames(st)
  BY <1>2, <1>3, <1>4, CarriedFrames
<1>6. ScratchText' = ScratchText
  <2>1. StackTypeOK(st') BY <1>4 DEF Sound
  <2> QED BY <1>2, <1>4, <2>1, TextSequence
<1>7. Taken = None /\ Taken' = None BY <1>1 DEF Taken
<1> QED BY <1>5, <1>6, <1>7 DEF Abstract!fvars

\* The stack stays as it is.
LEMMA StayRefines ==
    ASSUME st' = st, Taken' \in {Taken, None}
    PROVE  Abstract!Finish \/ UNCHANGED Abstract!fvars
<1>1. FreshFrames(st') = FreshFrames(st) /\ BaseFrames(st') = BaseFrames(st) OBVIOUS
<1>2. ScratchText' = ScratchText BY DEF ScratchText
<1>3. CASE Taken' = None BY <1>1, <1>2, <1>3 DEF Abstract!Finish
<1>4. CASE Taken' = Taken BY <1>1, <1>2, <1>4 DEF Abstract!fvars
<1> QED BY <1>3, <1>4

\* Room is made for text, and text written.
LEMMA WriteRefines ==
    ASSUME IInv, NEW keep \in Nat, NEW n \in Nat, NEW m \in 0 .. n,
           keep <= st.scratch_size, ReserveAndWrite(keep, n, m)
    PROVE  Abstract!Write
<1>1. PICK s \in Reserve(st, keep + n), c \in Chars :
          st' = WriteText(s, keep, n, m, c)
  BY DEF ReserveAndWrite
<1>2. pc = "resumed" /\ pc' = pc /\ touched' = TRUE BY DEF ReserveAndWrite
<1>3. TypeOK /\ StackTypeOK(st) /\ top \in Nat /\ Text(st) BY <1>2, Settled
<1>4. PICK mid \in Nat : Sound(st, top, mid, mid) BY <1>2, Settled
<1>5. /\ \E k \in Nat : Sound(s, top, k, k)
      /\ keep + n <= Limit(s) /\ SameText(st, s)
      /\ s = st \/ Merged(st, s) \/ Carried(st, s)
  BY <1>1, <1>3, <1>4, ReserveSound
<1>6. PICK k \in Nat : Sound(s, top, k, k) BY <1>5
<1>7. Text(s) BY <1>3, <1>4, <1>5, <1>6, SameTextKept
<1>8. keep <= s.scratch_size
  <2>1. st.scratch_size = s.scratch_size BY <1>5 DEF SameText
  <2> QED BY <2>1
<1>9. c \in Chars BY <1>1
<1>10. Sound(st', top, k, k) /\ Text(st') /\ Carried(s, st')
  BY <1>1, <1>3, <1>5, <1>6, <1>7, <1>8, <1>9, WriteTextSound
<1>11. FreshFrames(st') = FreshFrames(s) /\ BaseFrames(st') = BaseFrames(s)
  BY <1>3, <1>6, <1>10, CarriedFrames
<1>12. \/ FreshFrames(s) = FreshFrames(st) /\ BaseFrames(s) = BaseFrames(st)
       \/ /\ FreshFrames(s) = <<>>
          /\ BaseFrames(s) = FreshFrames(st) \o BaseFrames(st)
  <2>1. CASE s = st BY <2>1
  <2>2. CASE Merged(st, s) BY <1>3, <1>4, <1>6, <2>2, MergedFrames
  <2>3. CASE Carried(st, s) BY <1>3, <1>4, <1>6, <2>3, CarriedFrames
  <2> QED BY <1>5, <2>1, <2>2, <2>3
<1>13. ScratchText' \in Seq(Chars)
  <2>1. st'.scratch_size \in Nat BY <1>10, SoundFacts
  <2>2. ASSUME NEW i \in 1 .. st'.scratch_size PROVE st'.stack[i - 1].kind \in Chars
    <3>1. i - 1 \in 0 .. st'.scratch_size - 1 BY <2>1
    <3> QED BY <1>10, <3>1 DEF Text
  <2> QED BY <2>1, <2>2 DEF ScratchText
<1>14. Taken' = None BY <1>2 DEF Taken
<1>15. CASE FreshFrames(st') = FreshFrames(st) /\ BaseFrames(st') = BaseFrames(st)
  BY <1>13, <1>14, <1>15 DEF Abstract!Write
<1>16. CASE /\ FreshFrames(st') = <<>>
            /\ BaseFrames(st') = FreshFrames(st) \o BaseFrames(st)
  BY <1>13, <1>14, <1>16 DEF Abstract!Write, Abstract!Consolidated
<1> QED BY <1>11, <1>12, <1>15, <1>16

\* The text is dropped.
LEMMA ResetRefines == ASSUME IInv, ResetScratch PROVE Abstract!ClearText
<1>1. /\ pc = "resumed" /\ pc' = pc /\ st' = [st EXCEPT !.scratch_size = 0]
      /\ f' = f /\ fromNew' = fromNew /\ touched' = touched
  BY DEF ResetScratch
<1>2. st = Fields(st.stack, st.scratch_size, st.new_stack_bottom,
                  st.new_stack_top, st.old_stack_bottom, st.stack_area_size)
  BY DEF IInv, TypeOK, StackTypeOK
<1>3. st' = Fields(st.stack, 0, st.new_stack_bottom, st.new_stack_top,
                   st.old_stack_bottom, st.stack_area_size)
  BY <1>1, <1>2 DEF Fields
<1>4. /\ st'.stack = st.stack /\ st'.scratch_size = 0
      /\ st'.new_stack_bottom = st.new_stack_bottom
      /\ st'.new_stack_top = st.new_stack_top
      /\ st'.old_stack_bottom = st.old_stack_bottom
      /\ st'.stack_area_size = st.stack_area_size
  BY <1>3, FieldsOf
<1>5. PICK mid \in Nat : Sound(st, top, mid, mid) BY <1>1, Settled
<1>6. top \in Nat /\ Sound(st', top, mid, mid)
  BY <1>1, <1>5, ResetSound DEF IInv, TypeOK
<1>7. Carried(st, st')
  <2>1. /\ st.new_stack_bottom \in Nat /\ st.old_stack_bottom \in Nat
        /\ Region(st, st.new_stack_bottom, st.new_stack_top, top, mid)
        /\ Region(st, st.old_stack_bottom, st.stack_area_size, mid, 0)
    BY <1>5, SoundFacts
  <2>2. /\ Shifted(st, st', st.new_stack_bottom, st.new_stack_top, 0)
        /\ Shifted(st, st', st.old_stack_bottom, st.stack_area_size, 0)
    BY <1>4, <2>1 DEF Shifted, Region
  <2>3. /\ st'.new_stack_bottom - st.new_stack_bottom = 0
        /\ st'.old_stack_bottom - st.old_stack_bottom = 0
    BY <1>4, <2>1
  <2> QED BY <1>4, <2>2, <2>3 DEF Carried, NewSize
<1>8. FreshFrames(st') = FreshFrames(st) /\ BaseFrames(st') = BaseFrames(st)
  BY <1>5, <1>6, <1>7, CarriedFrames
<1>9. ScratchText' = <<>> BY <1>4 DEF ScratchText
<1>10. Taken' = Taken
  <2>1. Saved(st', f') = Saved(st, f) BY <1>1, <1>4 DEF Saved
  <2> QED BY <1>1, <2>1 DEF Taken
<1> QED BY <1>8, <1>9, <1>10 DEF Abstract!ClearText

\* eu_stack_begin_pause makes the frames that are left old ones ...
LEMMA StartPauseRefines == ASSUME IInv, StartPause PROVE Abstract!BeginSave
<1>1. pc = "resumed" /\ pc' = "pausing" /\ st' = BeginPause(st) BY DEF StartPause
<1>2. StackTypeOK(st) /\ top \in Nat BY DEF IInv, TypeOK
<1>3. PICK mid \in Nat : Sound(st, top, mid, mid) BY <1>1, Settled
<1>4. Sound(st', top, top, top) /\ SameText(st, st') /\ Merged(st, st')
  BY <1>1, <1>2, <1>3, BeginPauseSound
<1>5. /\ FreshFrames(st') = <<>>
      /\ BaseFrames(st') = FreshFrames(st) \o BaseFrames(st)
  BY <1>2, <1>3, <1>4, MergedFrames
<1>6. ScratchText' = ScratchText
  <2>1. StackTypeOK(st') BY <1>4 DEF Sound
  <2> QED BY <1>2, <1>4, <2>1, TextSequence
<1>7. Taken' = None BY <1>1 DEF Taken
<1> QED BY <1>5, <1>6, <1>7 DEF Abstract!BeginSave, Abstract!Consolidated

\* ... and eu_stack_alloc puts one more behind the new ones.
LEMMA AllocRefines == ASSUME IInv, DInv, Alloc PROVE Abstract!Save
<1>1. pc = "pausing" /\ pc' \in {"waiting", "pausing"} BY DEF Alloc
<1>a. PICK k \in Kinds : \E s \in RoomFor(st, k) : st' = Push(s, hi, k)
  BY DEF Alloc
<1>2. PICK s \in RoomFor(st, k) : st' = Push(s, hi, k) BY <1>a
<1>3. /\ StackTypeOK(st) /\ top \in Nat /\ lo \in Nat /\ hi \in Nat \ {0}
      /\ lo >= 1 /\ hi >= lo
  BY <1>1 DEF IInv, TypeOK, FramesIntact
<1>4. hi \in Nat /\ lo - 1 \in Nat /\ hi - 1 \in Nat BY <1>3
<1>5. /\ Sound(st, top, hi, lo - 1) /\ Sound(s, top, hi, lo - 1) /\ SameText(st, s)
      /\ s = st \/ Carried(st, s)
      /\ s.scratch_size <= s.new_stack_bottom /\ AllocFits(s, k)
      /\ Sound(st', top, hi - 1, lo - 1) /\ SameText(s, st')
  BY <1>1, <1>2, Allocated
<1>6. FreshFrames(s) = FreshFrames(st) /\ BaseFrames(s) = BaseFrames(st)
  BY <1>3, <1>4, <1>5, CarriedFrames
<1> DEFINE x == [depth |-> hi, kind |-> k]
<1>7. /\ FreshFrames(st') = Append(FreshFrames(s), x)
      /\ BaseFrames(st') = BaseFrames(s)
  BY <1>2, <1>3, <1>4, <1>5, PushedFrames, SMTT(60)
<1>8. x \in Frames
  <2>1. hi <= MaxDepth BY <1>1 DEF DInv
  <2>2. hi \in 1 .. MaxDepth BY <1>3, <2>1, BoundsAssumption
  <2> QED BY <2>2 DEF Frames
<1>9. ScratchText' = ScratchText
  <2>1. StackTypeOK(st') BY <1>5 DEF Sound
  <2>2. SameText(st, st') BY <1>5 DEF SameText
  <2> QED BY <1>3, <2>1, <2>2, TextSequence
<1>10. Taken' = None BY <1>1 DEF Taken
<1> HIDE DEF x
<1>11. FreshFrames(st') = Append(FreshFrames(st), x) /\ BaseFrames(st') = BaseFrames(st)
  BY <1>6, <1>7
<1> QED BY <1>8, <1>9, <1>10, <1>11 DEF Abstract!Save

\* Every step of EuStack in which no malloc fails is a step of FrameStack, or
\* changes nothing it sees.
LEMMA NextRefines ==
    ASSUME IInv, DInv, [Next]_vars, ~ReserveFails, ~AllocFails
    PROVE  [Abstract!FNext]_(Abstract!fvars)
<1>1. CASE Run BY <1>1, RunRefines
<1>2. CASE Pop \/ Destroy
  <2>1. PICK isNew \in BOOLEAN : PopFrom(isNew) BY <1>2 DEF Pop, Destroy
  <2>2. pc \notin {"pausing", "freed"} BY <1>2 DEF Pop, Destroy
  <2>3. TypeOK /\ Text(st) /\ \E mid \in Nat : Sound(st, top, mid, mid)
    BY <2>2, Settled
  <2>4. PICK mid \in Nat : Sound(st, top, mid, mid) BY <2>3
  <2>5. fromNew' = isNew BY <2>1 DEF PopFrom
  <2>6. st'.stack = st.stack
    <3>1. \E b : \/ st' = [st EXCEPT !.new_stack_bottom = b]
                 \/ st' = [st EXCEPT !.old_stack_bottom = b]
      BY <2>1 DEF PopFrom
    <3> QED BY <2>3, <3>1, PoppedFields
  <2>7. Saved(st', f') = Saved(st, f') BY <2>6 DEF Saved
  <2>8. Taken' \in {None, [frame |-> Saved(st, f'), fresh |-> isNew]}
    BY <2>5, <2>7 DEF Taken
  <2>9. Abstract!TakeFresh \/ Abstract!TakeBase
    BY <2>1, <2>3, <2>4, <2>8, PopRefines
  <2> QED BY <2>9 DEF Abstract!FNext
<1>3. CASE \/ RunEnds \/ Nest \/ ReturnOk \/ ReturnError \/ Fini \/ Free \/ Freed
           \/ UNCHANGED vars
  <2>1. st' = st /\ f' = f /\ fromNew' = fromNew /\ touched' = touched
    BY <1>3 DEF RunEnds, Nest, ReturnOk, ReturnError, Fini, Free, Freed, vars
  <2>2. Taken' \in {Taken, None}
    <3>1. pc' = pc \/ pc' # "resumed"
      BY <1>3 DEF RunEnds, Nest, ReturnOk, ReturnError, Fini, Free, Freed, vars
    <3> QED BY <2>1, <3>1 DEF Taken
  <2>3. Abstract!Finish \/ UNCHANGED Abstract!fvars BY <2>1, <2>2, StayRefines
  <2> QED BY <2>3 DEF Abstract!FNext
<1>4. CASE ReturnReinstate BY <1>4, ReinstateRefines DEF Abstract!FNext
<1>5. CASE SetScratch \/ AppendScratch \/ UnescapeIntoScratch
  <2>1. PICK keep \in {0, st.scratch_size} : \E n \in 0 .. MaxChunk, m \in Nat :
            m <= n /\ ReserveAndWrite(keep, n, m)
    BY <1>5, BoundsAssumption DEF SetScratch, AppendScratch, UnescapeIntoScratch
  <2>2. PICK n \in 0 .. MaxChunk, m \in Nat : m <= n /\ ReserveAndWrite(keep, n, m)
    BY <2>1
  <2>3. m \in 0 .. n /\ n \in Nat BY <2>2, BoundsAssumption
  <2>4. st.scratch_size \in Nat BY DEF IInv, TypeOK, StackTypeOK
  <2>5. keep \in Nat /\ keep <= st.scratch_size BY <2>1, <2>4
  <2>6. Abstract!Write BY <2>2, <2>3, <2>5, WriteRefines
  <2> QED BY <2>6 DEF Abstract!FNext
<1>6. CASE ResetScratch BY <1>6, ResetRefines DEF Abstract!FNext
<1>7. CASE StartPause BY <1>7, StartPauseRefines DEF Abstract!FNext
<1>8. CASE Alloc BY <1>8, AllocRefines DEF Abstract!FNext
<1> QED BY <1>1, <1>2, <1>3, <1>4, <1>5, <1>6, <1>7, <1>8 DEF Next

\* The stack keeps FrameStack's promise (lib/stack.c:32-41, 144-150): the frames
\* come back complete, innermost first and with their contents, a frame that was
\* popped can be put back, and only the client changes the scratch text, for every
\* set of frame types, every block size and every bound, while no malloc fails.
THEOREM RefinesFrameStack == MallocFails = FALSE => (Spec => ImplementsFrameStack)
<1> SUFFICES ASSUME MallocFails = FALSE PROVE Spec => ImplementsFrameStack OBVIOUS
<1> USE DEF Abstract!FSpec
<1>1. ~ReserveFails /\ ~AllocFails BY DEF ReserveFails, AllocFails
<1>2. Init => IInv /\ DInv /\ Abstract!FInit BY InitIInv, InitRefines
<1>3. IInv /\ DInv /\ [Next]_vars => IInv' /\ DInv' BY <1>1, NextIInv, NextDInv
<1>4. IInv /\ DInv /\ [Next]_vars => [Abstract!FNext]_(Abstract!fvars)
  BY <1>1, NextRefines
<1> QED BY <1>2, <1>3, <1>4, PTL DEF Spec, ImplementsFrameStack
=============================================================================
