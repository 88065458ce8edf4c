---------------------------- MODULE NcTensor_proofs ----------------------------
(***************************************************************************)
(* Proofs about the descriptors and the elements of a fifo, for all        *)
(* shapes, layouts and strides.                                            *)
(*                                                                         *)
(* The arithmetic comes first: three dimensions are nested if each leaves  *)
(* room for the next one; then no two pixels have one place (NestedApart), *)
(* and the largest stride times its dimension, which is what getTotalSize  *)
(* returns, covers them all (PackedPixels).  Conversions between two       *)
(* elements of one shape are then exact (ConvertsElements).                *)
(*                                                                         *)
(* IInv says that the descriptors of a fifo in use belong together,        *)
(* whatever the application does; InPlace, for applications that are not   *)
(* careless and descriptors of packed elements, where the pixels are and   *)
(* how far a call goes.                                                    *)
(***************************************************************************)
EXTENDS NcTensor, Counting

-----------------------------------------------------------------------------
(* Numbers                                                                  *)

\* The largest of some numbers that have a bound.
LEMMA LargestOf ==
    ASSUME NEW S, S \subseteq Nat, S # {}, NEW B \in Nat, \A x \in S : x <= B
    PROVE  Max(S) \in S /\ \A y \in S : Max(S) >= y
<1>. DEFINE T == {B - x : x \in S}
<1>1. T \subseteq Nat /\ T # {}
  <2>1. \A x \in S : B - x \in Nat
    OBVIOUS
  <2>. QED
    BY <2>1
<1>2. PICK t \in T : \A u \in T : t <= u
  BY <1>1, LeastOfNumbers
<1>3. PICK x \in S : t = B - x
  BY <1>2
<1>4. \A y \in S : x >= y
  <2>. SUFFICES ASSUME NEW y \in S PROVE x >= y
    OBVIOUS
  <2>1. B - x <= B - y
    BY <1>2, <1>3
  <2>. QED
    BY <2>1
<1>. QED
  BY <1>4 DEF Max

\* Products of numbers.
LEMMA TimesGrows ==
    ASSUME NEW a \in Nat, NEW b \in Nat, NEW k \in Nat, a <= b
    PROVE  a * k <= b * k /\ a * k \in Nat /\ b * k \in Nat
<1>1. (b - a) * k >= 0
  OBVIOUS
<1>2. (b - a) * k = b * k - a * k
  OBVIOUS
<1>. QED
  BY <1>1, <1>2

\* The multiple of a smaller number leaves room for one more.
LEMMA TimesNext ==
    ASSUME NEW a \in Nat, NEW n \in Nat, NEW k \in Nat, a < n
    PROVE  a * k + k <= n * k /\ a * k \in Nat /\ n * k \in Nat
<1>1. (a + 1) * k <= n * k
  BY TimesGrows
<1>2. (a + 1) * k = a * k + k
  OBVIOUS
<1>. QED
  BY <1>1, <1>2, TimesGrows

\* A number is a multiple of another and a rest in one way.
LEMMA OneRest ==
    ASSUME NEW k \in Nat, NEW a \in Nat, NEW b \in Nat, NEW r \in Nat, NEW s \in Nat, r < k, s < k,
           a * k + r = b * k + s
    PROVE  a = b /\ r = s
<1>1. CASE a < b
  BY <1>1, TimesNext
<1>2. CASE b < a
  BY <1>2, TimesNext
<1>3. CASE a = b
  BY <1>3
<1>. QED
  BY <1>1, <1>2, <1>3

\* Three dimensions, the major one first, of which each leaves room for the next one,
\* and the place of a pixel in them.
At(a1, s1, a2, s2, a3, s3) == a1 * s1 + a2 * s2 + a3 * s3
Nested(size, s1, n1, s2, n2, s3, n3) == s3 >= size /\ s2 >= n3 * s3 /\ s1 >= n2 * s2

Apart(s1, n1, s2, n2, s3, n3) ==
    \A a1, b1 \in 0..(n1 - 1), a2, b2 \in 0..(n2 - 1), a3, b3 \in 0..(n3 - 1) :
        At(a1, s1, a2, s2, a3, s3) = At(b1, s1, b2, s2, b3, s3) => a1 = b1 /\ a2 = b2 /\ a3 = b3

\* Nested dimensions keep the pixels apart.
LEMMA NestedApart ==
    ASSUME NEW size \in Nat \ {0}, NEW s1 \in Nat, NEW n1 \in Dims, NEW s2 \in Nat, NEW n2 \in Dims,
           NEW s3 \in Nat, NEW n3 \in Dims, Nested(size, s1, n1, s2, n2, s3, n3)
    PROVE  Apart(s1, n1, s2, n2, s3, n3)
<1>. SUFFICES ASSUME NEW a1 \in 0..(n1 - 1), NEW a2 \in 0..(n2 - 1), NEW a3 \in 0..(n3 - 1),
                     NEW b1 \in 0..(n1 - 1), NEW b2 \in 0..(n2 - 1), NEW b3 \in 0..(n3 - 1),
                     At(a1, s1, a2, s2, a3, s3) = At(b1, s1, b2, s2, b3, s3)
              PROVE  a1 = b1 /\ a2 = b2 /\ a3 = b3
  BY DEF Apart
<1>1. /\ a1 * s1 \in Nat /\ a2 * s2 \in Nat /\ a3 * s3 \in Nat
      /\ a3 * s3 < s2 /\ a2 * s2 + a3 * s3 < s1
  <2>1. /\ a3 * s3 + s3 <= n3 * s3 /\ a3 * s3 \in Nat
        /\ a2 * s2 + s2 <= n2 * s2 /\ a2 * s2 \in Nat
    BY TimesNext DEF Dims
  <2>2. a1 * s1 \in Nat
    BY TimesNext DEF Dims
  <2>. QED
    BY <2>1, <2>2 DEF Nested, Dims
<1>2. /\ b1 * s1 \in Nat /\ b2 * s2 \in Nat /\ b3 * s3 \in Nat
      /\ b3 * s3 < s2 /\ b2 * s2 + b3 * s3 < s1
  <2>1. /\ b3 * s3 + s3 <= n3 * s3 /\ b3 * s3 \in Nat
        /\ b2 * s2 + s2 <= n2 * s2 /\ b2 * s2 \in Nat
    BY TimesNext DEF Dims
  <2>2. b1 * s1 \in Nat
    BY TimesNext DEF Dims
  <2>. QED
    BY <2>1, <2>2 DEF Nested, Dims
<1>3. a1 = b1 /\ a2 * s2 + a3 * s3 = b2 * s2 + b3 * s3
  BY <1>1, <1>2, OneRest DEF At
<1>4. a2 = b2 /\ a3 * s3 = b3 * s3
  BY <1>1, <1>2, <1>3, OneRest
<1>5. 0 < s3
  BY DEF Nested
<1>6. a3 = b3
  BY <1>4, <1>5, OneRest
<1>. QED
  BY <1>3, <1>4, <1>6

-----------------------------------------------------------------------------
(* Descriptors                                                              *)

\* Descriptors as the program may have them, also before one is set.
Records == [w : Nat, h : Nat, c : Nat, wStride : Nat, hStride : Nat, cStride : Nat,
            dataType : {"FP16", "FP32"}, totalSize : Nat]

\* The strides of an element whose pixels do not overlap, in one of the six orders.
Packed(d) ==
    LET size == SizeOf(d.dataType)
    IN  \/ Nested(size, d.hStride, d.h, d.wStride, d.w, d.cStride, d.c)
        \/ Nested(size, d.hStride, d.h, d.cStride, d.c, d.wStride, d.w)
        \/ Nested(size, d.cStride, d.c, d.hStride, d.h, d.wStride, d.w)
        \/ Nested(size, d.cStride, d.c, d.wStride, d.w, d.hStride, d.h)
        \/ Nested(size, d.wStride, d.w, d.hStride, d.h, d.cStride, d.c)
        \/ Nested(size, d.wStride, d.w, d.cStride, d.c, d.hStride, d.h)

\* What getTotalSize returns, and that it covers the dimension of the largest stride.
LEMMA TotalSize ==
    ASSUME NEW d \in Records
    PROVE  /\ getTotalSize(d) \in Nat
           /\ d.wStride >= d.hStride /\ d.wStride >= d.cStride => getTotalSize(d) >= d.w * d.wStride
           /\ d.hStride >= d.wStride /\ d.hStride >= d.cStride => getTotalSize(d) >= d.h * d.hStride
           /\ d.cStride >= d.wStride /\ d.cStride >= d.hStride => getTotalSize(d) >= d.c * d.cStride
<1>. DEFINE stride == MAX(d.wStride, MAX(d.hStride, d.cStride))
            places == {<<d.wStride, d.w>>, <<d.hStride, d.h>>, <<d.cStride, d.c>>}
            dims == {p[2] : p \in {q \in places : q[1] = stride}}
<1>1. /\ d.w \in Nat /\ d.h \in Nat /\ d.c \in Nat
      /\ d.wStride \in Nat /\ d.hStride \in Nat /\ d.cStride \in Nat
  BY DEF Records
<1>2. /\ stride \in {d.wStride, d.hStride, d.cStride} /\ stride \in Nat
      /\ stride >= d.wStride /\ stride >= d.hStride /\ stride >= d.cStride
  BY <1>1 DEF MAX
<1>. HIDE DEF stride
<1>3. \A n : n \in dims <=> \/ n = d.w /\ stride = d.wStride
                            \/ n = d.h /\ stride = d.hStride
                            \/ n = d.c /\ stride = d.cStride
  <2>1. ASSUME NEW n \in dims
        PROVE  \/ n = d.w /\ stride = d.wStride
               \/ n = d.h /\ stride = d.hStride
               \/ n = d.c /\ stride = d.cStride
    <3>1. PICK p \in {q \in places : q[1] = stride} : n = p[2]
      BY <2>1
    <3>. QED
      BY <3>1
  <2>2. ASSUME NEW s, NEW n, <<s, n>> \in places, stride = s PROVE n \in dims
    <3>1. <<s, n>> \in {q \in places : q[1] = stride} /\ <<s, n>>[2] = n
      BY <2>2
    <3>. QED
      BY <3>1
  <2>. HIDE DEF dims
  <2>. QED
    BY <2>1, <2>2
<1>4. getTotalSize(d) = stride * Max(dims)
  BY DEF getTotalSize, stride
<1>. HIDE DEF dims
<1>5. dims \subseteq Nat /\ dims # {} /\ \A n \in dims : n <= d.w + d.h + d.c
  BY <1>1, <1>2, <1>3
<1>6. Max(dims) \in Nat /\ \A n \in dims : Max(dims) >= n
  <2>1. d.w + d.h + d.c \in Nat
    BY <1>1
  <2>. QED
    BY <1>5, <2>1, LargestOf
<1>7. \A n \in dims : n * stride <= Max(dims) * stride
  BY <1>2, <1>5, <1>6, TimesGrows
<1>8. stride * Max(dims) \in Nat /\ stride * Max(dims) = Max(dims) * stride
  BY <1>2, <1>6, TimesGrows
<1>. QED
  BY <1>1, <1>2, <1>3, <1>4, <1>7, <1>8

\* The pixels of a packed element are apart, and getTotalSize covers them.
LEMMA PackedPixels ==
    ASSUME NEW d \in Records, d.w \in Dims, d.h \in Dims, d.c \in Dims, Packed(d)
    PROVE  /\ \A p \in Pixels(d) : /\ Offset(d, p) \in Nat
                                   /\ Offset(d, p) + SizeOf(d.dataType) <= getTotalSize(d)
           /\ \A p, q \in Pixels(d) : Offset(d, p) = Offset(d, q) => p = q
<1>. DEFINE size == SizeOf(d.dataType)
<1>1. /\ d.wStride \in Nat /\ d.hStride \in Nat /\ d.cStride \in Nat
      /\ size \in Nat \ {0} /\ getTotalSize(d) \in Nat
  BY TotalSize DEF Records, SizeOf
<1>2. \A p \in Pixels(d) : /\ p[1] \in 0..(d.h - 1) /\ p[2] \in 0..(d.w - 1) /\ p[3] \in 0..(d.c - 1)
                           /\ p = <<p[1], p[2], p[3]>>
  BY DEF Pixels
<1>. HIDE DEF size
<1>3. ASSUME NEW p \in Pixels(d)
      PROVE  /\ p[1] * d.hStride \in Nat /\ p[2] * d.wStride \in Nat /\ p[3] * d.cStride \in Nat
             /\ p[1] * d.hStride + p[2] * d.wStride + p[3] * d.cStride + size <= getTotalSize(d)
  <2>0. /\ p[1] * d.hStride + d.hStride <= d.h * d.hStride /\ p[1] * d.hStride \in Nat
        /\ p[2] * d.wStride + d.wStride <= d.w * d.wStride /\ p[2] * d.wStride \in Nat
        /\ p[3] * d.cStride + d.cStride <= d.c * d.cStride /\ p[3] * d.cStride \in Nat
        /\ d.h * d.hStride \in Nat /\ d.w * d.wStride \in Nat /\ d.c * d.cStride \in Nat
    BY <1>1, <1>2, TimesNext DEF Dims
  <2>. DEFINE r == p[1] * d.hStride
              x == p[2] * d.wStride
              c == p[3] * d.cStride
              rs == d.h * d.hStride
              xs == d.w * d.wStride
              cs == d.c * d.cStride
  <2>1. \/ c + size <= cs /\ d.wStride >= cs /\ d.hStride >= xs
        \/ x + size <= xs /\ d.cStride >= xs /\ d.hStride >= cs
        \/ x + size <= xs /\ d.hStride >= xs /\ d.cStride >= rs
        \/ r + size <= rs /\ d.wStride >= rs /\ d.cStride >= xs
        \/ c + size <= cs /\ d.hStride >= cs /\ d.wStride >= rs
        \/ r + size <= rs /\ d.cStride >= rs /\ d.wStride >= cs
    BY <1>1, <2>0 DEF Packed, Nested, size
  <2>2. /\ d.wStride >= d.hStride /\ d.wStride >= d.cStride => getTotalSize(d) >= xs
        /\ d.hStride >= d.wStride /\ d.hStride >= d.cStride => getTotalSize(d) >= rs
        /\ d.cStride >= d.wStride /\ d.cStride >= d.hStride => getTotalSize(d) >= cs
    BY TotalSize
  <2>3. /\ r \in Nat /\ x \in Nat /\ c \in Nat /\ rs \in Nat /\ xs \in Nat /\ cs \in Nat
        /\ r + d.hStride <= rs /\ x + d.wStride <= xs /\ c + d.cStride <= cs
    BY <2>0
  <2>. HIDE DEF r, x, c, rs, xs, cs
  <2>4. r + x + c + size <= getTotalSize(d)
    BY <1>1, <2>1, <2>2, <2>3
  <2>. QED
    BY <2>3, <2>4 DEF r, x, c
<1>4. ASSUME NEW p \in Pixels(d), NEW q \in Pixels(d), Offset(d, p) = Offset(d, q)
      PROVE  p = q
  <2>1. p[1] = q[1] /\ p[2] = q[2] /\ p[3] = q[3]
    <3>0. /\ p[1] * d.hStride + p[2] * d.wStride + p[3] * d.cStride
                = q[1] * d.hStride + q[2] * d.wStride + q[3] * d.cStride
          /\ p[1] * d.hStride \in Nat /\ p[2] * d.wStride \in Nat /\ p[3] * d.cStride \in Nat
          /\ q[1] * d.hStride \in Nat /\ q[2] * d.wStride \in Nat /\ q[3] * d.cStride \in Nat
      BY <1>3, <1>4 DEF Offset
    <3>. DEFINE Same(i, s, j, t, k, u) == At(p[i], s, p[j], t, p[k], u) = At(q[i], s, q[j], t, q[k], u)
    <3>1. /\ Same(1, d.hStride, 2, d.wStride, 3, d.cStride) /\ Same(1, d.hStride, 3, d.cStride, 2, d.wStride)
          /\ Same(3, d.cStride, 1, d.hStride, 2, d.wStride) /\ Same(3, d.cStride, 2, d.wStride, 1, d.hStride)
          /\ Same(2, d.wStride, 1, d.hStride, 3, d.cStride) /\ Same(2, d.wStride, 3, d.cStride, 1, d.hStride)
      BY <3>0 DEF At
    <3>2. CASE Nested(size, d.hStride, d.h, d.wStride, d.w, d.cStride, d.c)
      <4>1. Apart(d.hStride, d.h, d.wStride, d.w, d.cStride, d.c)
        BY <1>1, <3>2, NestedApart
      <4>. QED
        BY <1>2, <3>1, <4>1 DEF Apart
    <3>3. CASE Nested(size, d.hStride, d.h, d.cStride, d.c, d.wStride, d.w)
      <4>1. Apart(d.hStride, d.h, d.cStride, d.c, d.wStride, d.w)
        BY <1>1, <3>3, NestedApart
      <4>. QED
        BY <1>2, <3>1, <4>1 DEF Apart
    <3>4. CASE Nested(size, d.cStride, d.c, d.hStride, d.h, d.wStride, d.w)
      <4>1. Apart(d.cStride, d.c, d.hStride, d.h, d.wStride, d.w)
        BY <1>1, <3>4, NestedApart
      <4>. QED
        BY <1>2, <3>1, <4>1 DEF Apart
    <3>5. CASE Nested(size, d.cStride, d.c, d.wStride, d.w, d.hStride, d.h)
      <4>1. Apart(d.cStride, d.c, d.wStride, d.w, d.hStride, d.h)
        BY <1>1, <3>5, NestedApart
      <4>. QED
        BY <1>2, <3>1, <4>1 DEF Apart
    <3>6. CASE Nested(size, d.wStride, d.w, d.hStride, d.h, d.cStride, d.c)
      <4>1. Apart(d.wStride, d.w, d.hStride, d.h, d.cStride, d.c)
        BY <1>1, <3>6, NestedApart
      <4>. QED
        BY <1>2, <3>1, <4>1 DEF Apart
    <3>7. CASE Nested(size, d.wStride, d.w, d.cStride, d.c, d.hStride, d.h)
      <4>1. Apart(d.wStride, d.w, d.cStride, d.c, d.hStride, d.h)
        BY <1>1, <3>7, NestedApart
      <4>. QED
        BY <1>2, <3>1, <4>1 DEF Apart
    <3>. QED
      BY <3>2, <3>3, <3>4, <3>5, <3>6, <3>7 DEF Packed, size
  <2>. QED
    BY <1>2, <2>1
<1>. QED
  BY <1>3, <1>4 DEF Offset, size

-----------------------------------------------------------------------------
(* Elements                                                                 *)

\* Where the pixels are is between zero and some number.
LEMMA OffsetsBounded ==
    ASSUME NEW d \in Records
    PROVE  LET B == d.h * d.hStride + d.w * d.wStride + d.c * d.cStride
           IN  B \in Nat /\ \A p \in Pixels(d) : Offset(d, p) \in Nat /\ Offset(d, p) <= B
<1>1. /\ d.w \in Nat /\ d.h \in Nat /\ d.c \in Nat
      /\ d.wStride \in Nat /\ d.hStride \in Nat /\ d.cStride \in Nat
  BY DEF Records
<1>2. d.h * d.hStride \in Nat /\ d.w * d.wStride \in Nat /\ d.c * d.cStride \in Nat
  BY <1>1, TimesGrows
<1>3. ASSUME NEW p \in Pixels(d)
      PROVE  Offset(d, p) \in Nat /\ Offset(d, p) <= d.h * d.hStride + d.w * d.wStride + d.c * d.cStride
  <2>1. /\ p[1] \in Nat /\ p[1] <= d.h /\ p[2] \in Nat /\ p[2] <= d.w /\ p[3] \in Nat /\ p[3] <= d.c
    BY <1>1 DEF Pixels
  <2>2. /\ p[1] * d.hStride \in Nat /\ p[1] * d.hStride <= d.h * d.hStride
        /\ p[2] * d.wStride \in Nat /\ p[2] * d.wStride <= d.w * d.wStride
        /\ p[3] * d.cStride \in Nat /\ p[3] * d.cStride <= d.c * d.cStride
    BY <1>1, <2>1, TimesGrows
  <2>. QED
    BY <1>2, <2>2 DEF Offset
<1>. QED
  BY <1>2, <1>3

\* What a conversion touches ends behind the last pixel.
LEMMA EndOfPixels ==
    ASSUME NEW d \in Records, d.w \in Dims, d.h \in Dims, d.c \in Dims, NEW dataType \in {"FP16", "FP32"}
    PROVE  /\ End(d, dataType) \in Nat
           /\ \E p \in Pixels(d) : End(d, dataType) = Offset(d, p) + SizeOf(dataType)
<1>. DEFINE S == {Offset(d, p) : p \in Pixels(d)}
            B == d.h * d.hStride + d.w * d.wStride + d.c * d.cStride
<1>1. B \in Nat /\ \A p \in Pixels(d) : Offset(d, p) \in Nat /\ Offset(d, p) <= B
  BY OffsetsBounded
<1>. HIDE DEF B
<1>2. S # {}
  <2>1. <<0, 0, 0>> \in Pixels(d)
    BY DEF Pixels, Dims
  <2>. QED
    BY <2>1
<1>3. S \subseteq Nat /\ \A x \in S : x <= B
  BY <1>1
<1>4. Max(S) \in S
  <2>. HIDE DEF S
  <2>. QED
    BY <1>1, <1>2, <1>3, LargestOf
<1>. QED
  <2>1. PICK p \in Pixels(d) : Max(S) = Offset(d, p)
    BY <1>4
  <2>2. End(d, dataType) = Max(S) + SizeOf(dataType) /\ SizeOf(dataType) \in Nat
    BY DEF End, SizeOf
  <2>. HIDE DEF S
  <2>. QED
    BY <1>1, <2>1, <2>2

\* Converting puts every pixel where the other descriptor has it, if the first keeps them apart.
LEMMA ConvertsElements ==
    ASSUME NEW from, NEW to, SameShape(from, to),
           \A p, q \in Pixels(from) : Offset(from, p) = Offset(from, q) => p = q
    PROVE  convertDataTypeAndLayout(Element(from), from, to) = Element(to)
<1>1. Pixels(from) = Pixels(to)
  BY DEF SameShape, Pixels
<1>2. \A p \in Pixels(from) : /\ Offset(from, p) \in DOMAIN Element(from)
                              /\ Element(from)[Offset(from, p)] = p
  BY DEF Element
<1>. DEFINE Now(o) == CHOOSE p \in Pixels(to) : Offset(to, p) = o
            S == {Offset(to, p) : p \in Pixels(to)}
<1>3. \A o \in S : Now(o) \in Pixels(to)
  OBVIOUS
<1>4. Element(to) = [o \in S |-> Now(o)]
  BY DEF Element
<1>5. convertDataTypeAndLayout(Element(from), from, to) =
        [o \in S |-> IF Offset(from, Now(o)) \in DOMAIN Element(from)
                       THEN Element(from)[Offset(from, Now(o))] ELSE <<>>]
  <2>. DEFINE Was(o) == CHOOSE p \in Pixels(from) : Offset(to, p) = o
              T == {Offset(to, p) : p \in Pixels(from)}
  <2>1. convertDataTypeAndLayout(Element(from), from, to) =
          [o \in T |-> IF Offset(from, Was(o)) \in DOMAIN Element(from)
                         THEN Element(from)[Offset(from, Was(o))] ELSE <<>>]
    BY Zenon DEF convertDataTypeAndLayout
  <2>2. T = S
    BY <1>1
  <2>3. \A o : Was(o) = Now(o)
    BY <1>1
  <2>. HIDE DEF Was, T, Now, S
  <2>. QED
    BY <2>1, <2>2, <2>3
<1>. HIDE DEF Now, S
<1>. QED
  BY <1>1, <1>2, <1>3, <1>4, <1>5

\* Equal strides are one element.
LEMMA SameElement ==
    ASSUME NEW d, NEW e, SameShape(d, e),
           d.wStride = e.wStride, d.hStride = e.hStride, d.cStride = e.cStride
    PROVE  Element(d) = Element(e) /\ getTotalSize(d) = getTotalSize(e)
<1>1. Pixels(d) = Pixels(e)
  BY DEF SameShape, Pixels
<1>2. \A p : Offset(d, p) = Offset(e, p)
  BY DEF Offset
<1>3. Element(d) = Element(e)
  BY <1>1, <1>2 DEF Element
<1>4. getTotalSize(d) = getTotalSize(e)
  BY DEF getTotalSize, SameShape
<1>. QED
  BY <1>3, <1>4

-----------------------------------------------------------------------------
(* Types, whatever the application does                                     *)

\* Before a descriptor is set, that of the host is empty but for its type; an allocated
\* fifo has two of one shape, and a call only runs on such a fifo.
IInv ==
    /\ type \in Types /\ state \in {"CREATED", "ALLOCATED"} /\ hostSet \in BOOLEAN
    /\ host \in Records /\ graph \in GraphDescriptors \cup {NoDescriptor}
    /\ hostSet => host \in Descriptors
    /\ ~hostSet => [host EXCEPT !.dataType = "FP32"] = NoDescriptor
    /\ state = "ALLOCATED" => /\ hostSet /\ graph \in GraphDescriptors /\ SameShape(host, graph)
                              /\ datasize = host.totalSize
    /\ datasize \in Nat /\ length \in Nat
    /\ call \in {"none", "write", "written", "read", "taken"} /\ (call # "none" => state = "ALLOCATED")
    /\ reach \in [user : Nat, device : Nat]

\* What kinds of descriptors there are.
LEMMA DescriptorsAreRecords ==
    /\ Descriptors \subseteq Records
    /\ NoDescriptor \in Records /\ [NoDescriptor EXCEPT !.dataType = "FP32"] = NoDescriptor
    /\ GraphDescriptors \subseteq Descriptors /\ HostDescriptors \subseteq Descriptors
    /\ \A d \in Records : d.w \in Dims /\ d.h \in Dims /\ d.c \in Dims => d \in Descriptors
    /\ \A d \in Descriptors : d.w \in Dims /\ d.h \in Dims /\ d.c \in Dims
  BY NcTensorAssumption DEF Descriptors, Records, Dims, NoDescriptor

\* What ncFifoAllocate makes for an application that has set no descriptor.
LEMMA DefaultDescriptor ==
    ASSUME host \in Records, NEW g \in Descriptors
    PROVE  LET d == DefaultHost(g) IN
           /\ d \in Descriptors /\ SameShape(d, g) /\ d.dataType = host.dataType
           /\ d.totalSize = getTotalSize(d) /\ Packed(d)
<1>. DEFINE base == SizeOf(host.dataType)
            e == [w |-> g.w, h |-> g.h, c |-> g.c, wStride |-> base * g.c, hStride |-> base * g.c * g.w,
                  cStride |-> base, dataType |-> host.dataType, totalSize |-> g.totalSize]
            d == [w |-> g.w, h |-> g.h, c |-> g.c, wStride |-> base * g.c, hStride |-> base * g.c * g.w,
                  cStride |-> base, dataType |-> host.dataType, totalSize |-> getTotalSize(e)]
<1>1. /\ g.w \in Dims /\ g.h \in Dims /\ g.c \in Dims /\ host.dataType \in {"FP16", "FP32"}
      /\ base \in {2, 4} /\ g.totalSize \in Nat
  BY DEF Descriptors, Records, SizeOf
<1>2. base * g.c \in Nat /\ base * g.c * g.w \in Nat
  <2>. HIDE DEF base
  <2>. QED
    BY <1>1, TimesGrows DEF Dims
<1>3. e \in Records
  <2>. HIDE DEF base
  <2>. QED
    BY <1>1, <1>2 DEF Records, Dims
<1>4. getTotalSize(e) \in Nat
  <2>. HIDE DEF e
  <2>. QED
    BY <1>3, TotalSize
<1>5. DefaultHost(g) = d
  <2>1. getStrides("HWC", [g EXCEPT !.dataType = host.dataType], host.dataType) = e
    BY DEF getStrides, WithStrides, Descriptors
  <2>2. Sized(e) = d
    <3>. HIDE DEF base
    <3>. QED
      BY DEF Sized
  <2>. QED
    BY <2>1, <2>2 DEF DefaultHost
<1>6. d \in Descriptors
  <2>. HIDE DEF base, e
  <2>. QED
    BY <1>1, <1>2, <1>4 DEF Descriptors
<1>7. d.totalSize = getTotalSize(d)
  <2>. HIDE DEF base
  <2>. QED
    BY DEF getTotalSize
<1>8. Packed(d)
  <2>1. /\ base >= SizeOf(host.dataType) /\ base * g.c >= g.c * base
        /\ base * g.c * g.w >= g.w * (base * g.c)
    <3>1. base * g.c = g.c * base /\ base * g.c * g.w = g.w * (base * g.c)
      <4>. HIDE DEF base
      <4>. QED
        BY <1>1 DEF Dims
    <3>. QED
      BY <1>1, <1>2, <3>1
  <2>2. Nested(SizeOf(d.dataType), d.hStride, d.h, d.wStride, d.w, d.cStride, d.c)
    BY <2>1 DEF Nested
  <2>. QED
    BY <2>2 DEF Packed
<1>. QED
  BY <1>5, <1>6, <1>7, <1>8 DEF SameShape

\* The fifo is created.
LEMMA TypesInitially == Init => IInv
<1>. SUFFICES ASSUME NEW t \in Types, ncFifoCreate(t) PROVE IInv
  BY DEF Init
<1>. QED
  BY DescriptorsAreRecords DEF ncFifoCreate, IInv, NoReach

\* A descriptor or an option is set, or the fifo is destroyed and another one created.
LEMMA OptionsTyped ==
    ASSUME IInv,
           \/ \E t \in Types : SetType(t) \/ ncFifoDestroy(t)
           \/ \E dataType \in {"FP16", "FP32"} : SetDataType(dataType)
           \/ \E d \in HostDescriptors : SetHostDescriptor(d)
    PROVE  IInv'
<1>1. ASSUME NEW t \in Types, SetType(t) PROVE IInv'
  BY <1>1 DEF SetType, Rest, IInv
<1>2. ASSUME NEW dataType \in {"FP16", "FP32"}, SetDataType(dataType) PROVE IInv'
  <2>1. /\ host' = [host EXCEPT !.dataType = dataType] /\ state' = "CREATED" /\ state = "CREATED"
        /\ UNCHANGED <<type, hostSet, graph, datasize, call, length, reach>>
    BY <1>2 DEF SetDataType, Rest
  <2>2. host' \in Records /\ (host \in Descriptors => host' \in Descriptors)
    BY <2>1 DEF IInv, Records, Descriptors
  <2>3. [host' EXCEPT !.dataType = "FP32"] = [host EXCEPT !.dataType = "FP32"]
    BY <2>1 DEF IInv, Records
  <2>. QED
    BY <2>1, <2>2, <2>3 DEF IInv
<1>3. ASSUME NEW d \in HostDescriptors, SetHostDescriptor(d) PROVE IInv'
  <2>1. /\ host' = d /\ hostSet' = TRUE /\ datasize' = d.totalSize
        /\ state = "ALLOCATED" => SameShape(d, graph)
        /\ UNCHANGED <<type, state, graph, call, length, reach>>
    BY <1>3 DEF SetHostDescriptor, Rest
  <2>2. d \in Descriptors /\ d \in Records /\ d.totalSize \in Nat
    BY DescriptorsAreRecords DEF Descriptors
  <2>. QED
    BY <2>1, <2>2 DEF IInv
<1>4. ASSUME NEW t \in Types, ncFifoDestroy(t) PROVE IInv'
  BY <1>4, DescriptorsAreRecords DEF ncFifoDestroy, IInv, NoReach
<1>. QED
  BY <1>1, <1>2, <1>3, <1>4

\* The fifo is allocated, or refused.
LEMMA AllocationTyped ==
    ASSUME IInv, NEW g \in GraphDescriptors, NEW accepted \in BOOLEAN, ncFifoAllocate(g, accepted)
    PROVE  IInv'
<1>1. /\ graph' = g /\ hostSet' = TRUE /\ host' = (IF hostSet THEN host ELSE DefaultHost(g))
      /\ state = "CREATED" /\ UNCHANGED <<type, call, length, reach>>
  BY DEF ncFifoAllocate, Rest
<1>2. g \in Descriptors /\ host \in Records
  BY DescriptorsAreRecords DEF IInv
<1>3. host' \in Descriptors
  BY <1>1, <1>2, DefaultDescriptor DEF IInv
<1>4. host' \in Records /\ host'.totalSize \in Nat
  BY <1>3, DescriptorsAreRecords DEF Descriptors
<1>5. \/ SameShape(host', g) /\ datasize' = host'.totalSize /\ state' \in {"ALLOCATED", "CREATED"}
      \/ UNCHANGED <<datasize, state>>
  BY <1>1 DEF ncFifoAllocate
<1>. QED
  BY <1>1, <1>3, <1>4, <1>5 DEF IInv

\* An element is written or read.
LEMMA CallsTyped ==
    ASSUME IInv, StartWrite \/ ncFifoWriteElem \/ StartRead \/ ncFifoReadElem \/ Return
    PROVE  IInv'
<1>1. UNCHANGED <<type, state, host, hostSet, graph, datasize>>
  BY DEF StartWrite, ncFifoWriteElem, StartRead, ncFifoReadElem, Return, fifo
<1>2. CASE StartWrite \/ StartRead \/ Return
  BY <1>1, <1>2 DEF StartWrite, StartRead, Return, NoReach, IInv
<1>3. CASE ncFifoWriteElem \/ ncFifoReadElem
  <2>1. /\ host \in Descriptors /\ host \in Records /\ graph \in Descriptors /\ graph \in Records
        /\ state = "ALLOCATED" /\ call' \in {"written", "taken"} /\ length' = length
    BY <1>3, DescriptorsAreRecords DEF ncFifoWriteElem, ncFifoReadElem, IInv
  <2>2. End(host, host.dataType) \in Nat /\ End(graph, "FP16") \in Nat
    <3>1. host.dataType \in {"FP16", "FP32"}
      BY <2>1 DEF Records
    <3>. QED
      BY <2>1, <3>1, EndOfPixels, DescriptorsAreRecords
  <2>3. graph.totalSize \in Nat
    BY <2>1 DEF Descriptors
  <2>4. \/ reach' = [user |-> End(host, host.dataType), device |-> End(graph, "FP16")]
        \/ reach' = [user |-> length, device |-> length]
        \/ reach' = [user |-> graph.totalSize, device |-> graph.totalSize]
    BY <1>3 DEF ncFifoWriteElem, ncFifoReadElem
  <2>5. reach' \in [user : Nat, device : Nat]
    BY <2>2, <2>3, <2>4 DEF IInv
  <2>. QED
    BY <1>1, <2>1, <2>5 DEF IInv
<1>. QED
  BY <1>2, <1>3

\* Every step keeps the types.
LEMMA TypesInductive == IInv /\ [Next]_vars => IInv'
<1>. SUFFICES ASSUME IInv, [Next]_vars PROVE IInv'
  OBVIOUS
<1>1. CASE UNCHANGED vars
  BY <1>1 DEF vars, fifo, IInv
<1>2. CASE \/ \E t \in Types : SetType(t) \/ ncFifoDestroy(t)
           \/ \E dataType \in {"FP16", "FP32"} : SetDataType(dataType)
           \/ \E d \in HostDescriptors : SetHostDescriptor(d)
  BY <1>2, OptionsTyped
<1>3. CASE \E g \in GraphDescriptors, accepted \in BOOLEAN : ncFifoAllocate(g, accepted)
  BY <1>3, AllocationTyped
<1>4. CASE StartWrite \/ ncFifoWriteElem \/ StartRead \/ ncFifoReadElem \/ Return
  BY <1>4, CallsTyped
<1>. QED
  BY <1>1, <1>2, <1>3, <1>4 DEF Next

\* So IInv holds of every fifo (ncFifoCreate, ncFifoAllocate, ncFifoSetOption).
THEOREM TypesInvariant == Spec => []IInv
<1>. QED
  BY TypesInitially, TypesInductive, PTL DEF Spec

\* The type invariant, for any descriptors and whatever the application does: a fifo in use
\* has two descriptors of one shape, and the size it tells is that of the host's (ncFifoAllocate,
\* ncFifoSetOption).
THEOREM TypeCorrect == Spec => []TypeOK
<1>1. IInv => TypeOK
  BY DEF IInv, TypeOK
<1>. QED
  BY <1>1, TypesInvariant, PTL

-----------------------------------------------------------------------------
(* Elements of a careful application                                        *)

\* The application does what the API needs of it, and its descriptors and those of the
\* graphs are of elements whose pixels do not overlap and have the size they tell.
CarefulDescriptors ==
    /\ Careless = {}
    /\ \A g \in GraphDescriptors : Packed(g) /\ g.totalSize = getTotalSize(g)
    /\ \A d \in HostDescriptors : d.totalSize = getTotalSize(d) => Packed(d)

\* The host's descriptor is such a one, also the default one; while a call runs the element
\* is where one of the two descriptors says, and neither end of the call is exceeded.
Within == reach.user <= length /\ reach.device <= graph.totalSize
InPlace ==
    /\ hostSet => Packed(host) /\ host.totalSize = getTotalSize(host)
    /\ state = "ALLOCATED" => Fits(host, graph)
    /\ call \in {"none", "write", "read"} => reach = NoReach
    /\ call # "none" => length = datasize
    /\ call = "write" => data = Element(host)
    /\ call = "read" => data = Element(graph)
    /\ call = "written" => data = Element(graph) /\ Within
    /\ call = "taken" => data = Element(host) /\ Within

\* The two descriptors of a fifo in use.
LEMMA BothDescriptors ==
    ASSUME IInv, CarefulDescriptors, InPlace, state = "ALLOCATED"
    PROVE  /\ \A d \in {host, graph} :
                /\ d \in Records /\ d.w \in Dims /\ d.h \in Dims /\ d.c \in Dims
                /\ Packed(d) /\ d.totalSize = getTotalSize(d)
           /\ SameShape(host, graph) /\ SameShape(graph, host)
           /\ graph.dataType = "FP16" /\ host.dataType \in {"FP16", "FP32"}
           /\ datasize = host.totalSize
<1>1. /\ host \in Descriptors /\ graph \in GraphDescriptors /\ SameShape(host, graph)
      /\ datasize = host.totalSize /\ Packed(host) /\ host.totalSize = getTotalSize(host)
  BY DEF IInv, InPlace
<1>2. /\ graph \in Descriptors /\ graph.dataType = "FP16"
      /\ Packed(graph) /\ graph.totalSize = getTotalSize(graph)
  BY <1>1, NcTensorAssumption DEF CarefulDescriptors
<1>3. host.dataType \in {"FP16", "FP32"}
  BY <1>1 DEF Descriptors
<1>. QED
  BY <1>1, <1>2, <1>3, DescriptorsAreRecords DEF SameShape

\* A conversion ends within the sizes of the two elements.
LEMMA ConversionWithin ==
    ASSUME IInv, CarefulDescriptors, InPlace, state = "ALLOCATED"
    PROVE  /\ End(host, host.dataType) <= datasize
           /\ End(graph, "FP16") <= graph.totalSize
<1>1. ASSUME NEW d \in {host, graph} PROVE End(d, d.dataType) <= getTotalSize(d)
  <2>1. /\ d \in Records /\ d.w \in Dims /\ d.h \in Dims /\ d.c \in Dims /\ Packed(d)
        /\ d.dataType \in {"FP16", "FP32"}
    BY BothDescriptors
  <2>2. PICK p \in Pixels(d) : End(d, d.dataType) = Offset(d, p) + SizeOf(d.dataType)
    BY <2>1, EndOfPixels
  <2>. QED
    BY <2>1, <2>2, PackedPixels
<1>. QED
  BY <1>1, BothDescriptors

\* What is copied is one element with equal strides.
LEMMA CopyWithin ==
    ASSUME IInv, CarefulDescriptors, InPlace, state = "ALLOCATED", ~Converts(host, graph)
    PROVE  Element(host) = Element(graph) /\ datasize = graph.totalSize
<1>1. host.wStride = graph.wStride /\ host.hStride = graph.hStride /\ host.cStride = graph.cStride
  BY BothDescriptors DEF InPlace, Fits, Converts, CarefulDescriptors
<1>. QED
  BY <1>1, BothDescriptors, SameElement

\* No call is under way at first.
LEMMA PlacedInitially == Init => InPlace
  BY DEF Init, ncFifoCreate, InPlace

\* A descriptor or an option is set between calls, or the fifo is destroyed.
LEMMA OptionsPlaced ==
    ASSUME IInv, CarefulDescriptors, InPlace,
           \/ \E t \in Types : SetType(t) \/ ncFifoDestroy(t)
           \/ \E dataType \in {"FP16", "FP32"} : SetDataType(dataType)
           \/ \E d \in HostDescriptors : SetHostDescriptor(d)
    PROVE  InPlace'
<1>1. ASSUME NEW t \in Types, SetType(t) PROVE InPlace'
  <2>1. UNCHANGED <<state, host, hostSet, graph, datasize, call, length, data, reach>>
    BY <1>1 DEF SetType, Rest
  <2>. QED
    BY <2>1 DEF InPlace, Within
<1>2. ASSUME NEW t \in Types, ncFifoDestroy(t) PROVE InPlace'
  BY <1>2 DEF ncFifoDestroy, InPlace
<1>3. ASSUME NEW dataType \in {"FP16", "FP32"}, SetDataType(dataType) PROVE InPlace'
  <2>1. /\ ~hostSet /\ state' = "CREATED" /\ call = "none"
        /\ UNCHANGED <<hostSet, call, length, data, reach>>
    BY <1>3 DEF SetDataType, Rest, Idle, CarefulDescriptors
  <2>. QED
    BY <2>1 DEF InPlace
<1>4. ASSUME NEW d \in HostDescriptors, SetHostDescriptor(d) PROVE InPlace'
  <2>1. /\ call = "none" /\ d.totalSize = getTotalSize(d) /\ host' = d
        /\ state = "ALLOCATED" => SameShape(d, graph) /\ Fits(d, graph)
        /\ UNCHANGED <<state, graph, call, length, data, reach>>
    BY <1>4 DEF SetHostDescriptor, Rest, Idle, CarefulDescriptors
  <2>2. Packed(d)
    BY <2>1 DEF CarefulDescriptors
  <2>. QED
    BY <2>1, <2>2 DEF InPlace
<1>. QED
  BY <1>1, <1>2, <1>3, <1>4

\* The fifo is allocated, with the host's descriptor or the default one, or refused.
LEMMA AllocationPlaced ==
    ASSUME IInv, CarefulDescriptors, InPlace, NEW g \in GraphDescriptors, NEW accepted \in BOOLEAN,
           ncFifoAllocate(g, accepted)
    PROVE  InPlace'
<1>1. /\ call = "none" /\ graph' = g /\ hostSet' = TRUE /\ Fits(host', g)
      /\ host' = (IF hostSet THEN host ELSE DefaultHost(g))
      /\ UNCHANGED <<call, length, data, reach>>
  BY DEF ncFifoAllocate, Rest, Idle, CarefulDescriptors
<1>2. Packed(host') /\ host'.totalSize = getTotalSize(host')
  <2>1. CASE hostSet
    BY <1>1, <2>1 DEF InPlace
  <2>2. CASE ~hostSet
    <3>1. g \in Descriptors /\ host \in Records
      BY DescriptorsAreRecords DEF IInv
    <3>. QED
      BY <1>1, <2>2, <3>1, DefaultDescriptor
  <2>. QED
    BY <2>1, <2>2
<1>. QED
  BY <1>1, <1>2 DEF InPlace

\* An element is written or read.
LEMMA CallsPlaced ==
    ASSUME IInv, CarefulDescriptors, InPlace,
           StartWrite \/ ncFifoWriteElem \/ StartRead \/ ncFifoReadElem \/ Return
    PROVE  InPlace'
<1>1. UNCHANGED <<type, state, host, hostSet, graph, datasize>>
  BY DEF StartWrite, ncFifoWriteElem, StartRead, ncFifoReadElem, Return, fifo
<1>2. /\ (hostSet => Packed(host) /\ host.totalSize = getTotalSize(host))'
      /\ (state = "ALLOCATED" => Fits(host, graph))'
  BY <1>1 DEF InPlace
<1>3. CASE StartWrite \/ StartRead \/ Return
  BY <1>1, <1>2, <1>3 DEF StartWrite, StartRead, Return, InPlace
<1>4. CASE ncFifoWriteElem \/ ncFifoReadElem
  <2>1. /\ state = "ALLOCATED" /\ length' = length /\ length = datasize
        /\ call' = (IF ncFifoWriteElem THEN "written" ELSE "taken")
        /\ call = (IF ncFifoWriteElem THEN "write" ELSE "read")
    BY <1>4 DEF ncFifoWriteElem, ncFifoReadElem, IInv, InPlace
  <2>2. CASE Converts(host, graph)
    <3>1. reach' = [user |-> End(host, host.dataType), device |-> End(graph, "FP16")]
      BY <1>4, <2>2 DEF ncFifoWriteElem, ncFifoReadElem
    <3>2. reach'.user <= length /\ reach'.device <= graph.totalSize
      BY <2>1, <3>1, ConversionWithin
    <3>3. ASSUME NEW d \in {host, graph}, NEW e \in {host, graph}, d # e
          PROVE  convertDataTypeAndLayout(Element(d), d, e) = Element(e)
      <4>1. SameShape(d, e) /\ d \in Records /\ d.w \in Dims /\ d.h \in Dims /\ d.c \in Dims /\ Packed(d)
        BY <2>1, <3>3, BothDescriptors
      <4>. QED
        BY <4>1, PackedPixels, ConvertsElements
    <3>4. host # graph
      BY <2>1, <2>2, BothDescriptors DEF Converts
    <3>5. data' = IF ncFifoWriteElem THEN Element(graph) ELSE Element(host)
      BY <1>4, <2>1, <2>2, <3>3, <3>4 DEF ncFifoWriteElem, ncFifoReadElem, InPlace
    <3>. QED
      BY <1>1, <1>2, <2>1, <3>2, <3>5 DEF InPlace, Within
  <2>3. CASE ~Converts(host, graph)
    <3>1. Element(host) = Element(graph) /\ datasize = graph.totalSize
      BY <2>1, <2>3, CopyWithin
    <3>2. /\ data' = data
          /\ \/ reach' = [user |-> length, device |-> length]
             \/ reach' = [user |-> graph.totalSize, device |-> graph.totalSize]
      BY <1>4, <2>3 DEF ncFifoWriteElem, ncFifoReadElem
    <3>3. datasize \in Nat
      BY DEF IInv
    <3>4. reach'.user <= length /\ reach'.device <= graph.totalSize
      BY <2>1, <3>1, <3>2, <3>3
    <3>. QED
      BY <1>1, <1>2, <2>1, <3>1, <3>2, <3>4 DEF InPlace, Within
  <2>. QED
    BY <2>2, <2>3
<1>. QED
  BY <1>3, <1>4

\* Every step keeps the elements in place.
LEMMA PlacedInductive == IInv /\ CarefulDescriptors /\ InPlace /\ [Next]_vars => InPlace'
<1>. SUFFICES ASSUME IInv, CarefulDescriptors, InPlace, [Next]_vars PROVE InPlace'
  OBVIOUS
<1>1. CASE UNCHANGED vars
  BY <1>1 DEF vars, fifo, InPlace, Within
<1>2. CASE \/ \E t \in Types : SetType(t) \/ ncFifoDestroy(t)
           \/ \E dataType \in {"FP16", "FP32"} : SetDataType(dataType)
           \/ \E d \in HostDescriptors : SetHostDescriptor(d)
  BY <1>2, OptionsPlaced
<1>3. CASE \E g \in GraphDescriptors, accepted \in BOOLEAN : ncFifoAllocate(g, accepted)
  BY <1>3, AllocationPlaced
<1>4. CASE StartWrite \/ ncFifoWriteElem \/ StartRead \/ ncFifoReadElem \/ Return
  BY <1>4, CallsPlaced
<1>. QED
  BY <1>1, <1>2, <1>3, <1>4 DEF Next

\* So InPlace holds of every fifo of a careful application (convertDataTypeAndLayout).
THEOREM PlacedInvariant == CarefulDescriptors /\ Spec => []InPlace
<1>1. CarefulDescriptors /\ IInv /\ InPlace /\ [Next]_vars => InPlace'
  BY PlacedInductive
<1>2. SUFFICES ASSUME CarefulDescriptors PROVE Spec => []InPlace
  OBVIOUS
<1>3. IInv /\ InPlace /\ [Next]_vars => InPlace'
  BY <1>1, <1>2
<1>. QED
  BY <1>3, PlacedInitially, TypesInvariant, PTL DEF Spec

\* No call touches a byte beyond the buffer of the application or the element of the device,
\* for all shapes and strides of packed elements (ncFifoWriteElem, ncFifoReadElem).
THEOREM CallsStayInBounds == CarefulDescriptors /\ Spec => []InBounds
<1>1. IInv /\ InPlace => InBounds
  <2>. SUFFICES ASSUME IInv, InPlace PROVE InBounds
    OBVIOUS
  <2>1. CASE call \in {"none", "write", "read"}
    <3>1. graph.totalSize \in Nat /\ length \in Nat
      BY DescriptorsAreRecords DEF IInv, Records
    <3>. QED
      BY <2>1, <3>1 DEF InPlace, InBounds, NoReach
  <2>2. CASE call \in {"written", "taken"}
    BY <2>2 DEF InPlace, InBounds, Within
  <2>. QED
    BY <2>1, <2>2 DEF IInv
<1>. QED
  BY <1>1, TypesInvariant, PlacedInvariant, PTL

\* Every pixel arrives where the other side expects it, for all shapes, layouts and strides of
\* packed elements (convertDataTypeAndLayout).
THEOREM ElementsArrive == CarefulDescriptors /\ Spec => []ElementsInPlace
<1>1. InPlace => ElementsInPlace
  BY DEF InPlace, ElementsInPlace
<1>. QED
  BY <1>1, PlacedInvariant, PTL
=============================================================================
