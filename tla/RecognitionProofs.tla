-------------------------- MODULE RecognitionProofs --------------------------
(***************************************************************************)
(* What holds of the boxes, crops and matches of any images, thresholds    *)
(* and embeddings: the run's few pixels a side are all there is to it.     *)
(***************************************************************************)
EXTENDS Recognition, FiniteSetTheorems, SequenceTheorems, TLAPS

\* The greater and the lesser of two integers.
LEMMA MaxOfTwo ==
  ASSUME NEW a \in Int, NEW b \in Int
  PROVE  Max({a, b}) = IF a >= b THEN a ELSE b
<1> DEFINE P(x) == x \in {a, b} /\ \A y \in {a, b} : x >= y
<1>1. P(IF a >= b THEN a ELSE b)
  OBVIOUS
<1>2. P(CHOOSE x : P(x))
  <2> HIDE DEF P
  <2> QED
    BY <1>1
<1>3. P(Max({a, b}))
  BY <1>2 DEF Max
<1> HIDE DEF Max
<1> QED
  BY <1>3

LEMMA MinOfTwo ==
  ASSUME NEW a \in Int, NEW b \in Int
  PROVE  Min({a, b}) = IF a <= b THEN a ELSE b
<1> DEFINE P(x) == x \in {a, b} /\ \A y \in {a, b} : x <= y
<1>1. P(IF a <= b THEN a ELSE b)
  OBVIOUS
<1>2. P(CHOOSE x : P(x))
  <2> HIDE DEF P
  <2> QED
    BY <1>1
<1>3. P(Min({a, b}))
  BY <1>2 DEF Min
<1> HIDE DEF Min
<1> QED
  BY <1>3

\* Clamping to the image.
LEMMA Clamped ==
  ASSUME NEW v \in Int, NEW top \in Nat
  PROVE  Clamp(v, top) = IF v < 0 THEN 0 ELSE IF v > top THEN top ELSE v
<1>1. Min({top, v}) = IF v >= top THEN top ELSE v
  BY MinOfTwo
<1>2. Max({0, Min({top, v})}) = IF Min({top, v}) > 0 THEN Min({top, v}) ELSE 0
  BY <1>1, MaxOfTwo
<1> QED
  BY <1>1, <1>2 DEF Clamp

\* The pixels of a span, without Max and Min.
LEMMA InsideIs ==
  ASSUME NEW at \in Int, NEW size \in Int, NEW top \in Nat
  PROVE  /\ Inside(at, size, top)[1] = IF at < 0 THEN 0 ELSE at
         /\ Inside(at, size, top)[2] = IF at + size < top THEN at + size ELSE top
<1>1. Max({0, at}) = IF at < 0 THEN 0 ELSE at
  BY MaxOfTwo
<1>2. Min({top, at + size}) = IF at + size < top THEN at + size ELSE top
  BY MinOfTwo
<1> QED
  BY <1>1, <1>2 DEF Inside

------------------------------------------------------------------------------
(* Boxes                                                                   *)

\* A span moved into the image is in it and covers what of it was there.
LEMMA ClampedSpanCovers ==
  ASSUME NEW at \in Int, NEW size \in Nat \ {0}, NEW top \in Nat
  PROVE  /\ Clamp(at, top) \in 0..top /\ Clamp(size, top) \in 0..top
         /\ Clamp(at, top) <= Inside(at, size, top)[1]
         /\ Inside(at, size, top)[2] <= Clamp(at, top) + Clamp(size, top)
<1> DEFINE c == Clamp(at, top)
           d == Clamp(size, top)
<1>1. c = IF at < 0 THEN 0 ELSE IF at > top THEN top ELSE at
  BY Clamped
<1>2. d = IF size > top THEN top ELSE size
  BY Clamped
<1>3. /\ Inside(at, size, top)[1] = IF at < 0 THEN 0 ELSE at
      /\ Inside(at, size, top)[2] = IF at + size < top THEN at + size ELSE top
  BY InsideIs
<1> HIDE DEF c, d
<1>4. c \in 0..top /\ d \in 0..top
  BY <1>1, <1>2
<1>5. c <= Inside(at, size, top)[1]
  BY <1>1, <1>3
<1>6. Inside(at, size, top)[2] <= c + d
  BY <1>1, <1>2, <1>3
<1> QED
  BY <1>4, <1>5, <1>6 DEF c, d

\* The image has pixels and its faces are typed.
LEMMA PhotoType ==
  ASSUME photo \in Photos \cup Selfies
  PROVE  /\ photo.width \in Nat \ {0, 1} /\ photo.height \in Nat \ {0, 1}
         /\ photo.faces \in Seq(RawFaces) /\ Len(photo.faces) \in Nat
         /\ \A j \in DOMAIN photo.faces : photo.faces[j] \in RawFaces
         /\ DOMAIN photo.faces = 1..Len(photo.faces)
  BY ImagesAssumption DEF ImagesAssumption

LEMMA ReportType ==
  ASSUME photo \in Photos \cup Selfies, NEW f \in RawFaces
  PROVE  /\ Report(f) \in ReportedFaces
         /\ Report(f).box = Normalised(f.box)
         /\ Report(f).embedding = f.embedding
         /\ Frames(Report(f).box, f.box)
<1>1. /\ f.box[1] \in Int /\ f.box[2] \in Int
      /\ f.box[3] \in Nat \ {0} /\ f.box[4] \in Nat \ {0}
  BY DEF RawFaces
<1>2. photo.width \in Nat /\ photo.height \in Nat
  BY PhotoType
<1> DEFINE b == Normalised(f.box)
<1>3. /\ b[1] = Clamp(f.box[1], photo.width) /\ b[2] = Clamp(f.box[2], photo.height)
      /\ b[3] = Clamp(f.box[3], photo.width) /\ b[4] = Clamp(f.box[4], photo.height)
  BY DEF Normalised
<1>4. /\ b[1] \in 0..photo.width /\ b[3] \in 0..photo.width
      /\ b[1] <= Across(f.box)[1] /\ Across(f.box)[2] <= b[1] + b[3]
  BY <1>1, <1>2, <1>3, ClampedSpanCovers DEF Across
<1>5. /\ b[2] \in 0..photo.height /\ b[4] \in 0..photo.height
      /\ b[2] <= Down(f.box)[1] /\ Down(f.box)[2] <= b[2] + b[4]
  BY <1>1, <1>2, <1>3, ClampedSpanCovers DEF Down
<1>6. b \in Int \X Int \X Int \X Int
  <2>1. \A i \in 1..4 : b[i] \in Int
    BY <1>2, <1>4, <1>5
  <2>2. b = <<b[1], b[2], b[3], b[4]>>
    BY DEF Normalised
  <2> HIDE DEF b
  <2> QED
    BY <2>1, <2>2
<1>7. /\ Report(f).box = b /\ Report(f).embedding = f.embedding
      /\ Report(f).score = f.score /\ Report(f).sharp = f.sharp
      /\ Report(f) = [box |-> b, score |-> f.score, sharp |-> f.sharp,
                      embedding |-> f.embedding]
  BY DEF Report, RawFaces
<1>8. Report(f) \in ReportedFaces
  <2> HIDE DEF b
  <2> QED
    BY <1>6, <1>7 DEF RawFaces, ReportedFaces
<1>9. Frames(b, f.box)
  BY <1>4, <1>5 DEF Frames
<1> QED
  BY <1>7, <1>8, <1>9

------------------------------------------------------------------------------
(* Crops                                                                   *)

\* Products with a positive number are in the order of what it multiplies.
LEMMA Multiples ==
  ASSUME NEW u \in Nat \ {0}, NEW a \in Int, NEW b \in Int
  PROVE  /\ u * a \in Int /\ u * b \in Int
         /\ a <= b <=> u * a <= u * b
         /\ a < b <=> u * a < u * b
<1>1. u * a \in Int /\ u * b \in Int
  OBVIOUS
<1>2. a <= b => u * a <= u * b
  OBVIOUS
<1>3. b <= a => u * b <= u * a
  OBVIOUS
<1>4. a # b => u * a # u * b
  OBVIOUS
<1> QED
  BY <1>1, <1>2, <1>3, <1>4

LEMMA Products ==
  ASSUME NEW a \in Int, NEW b \in Int, NEW c \in Int
  PROVE  /\ a * b \in Int /\ a * b = b * a /\ a * (b * c) = (a * b) * c
         /\ a * (b + c) = a * b + a * c /\ a * (b - c) = a * b - a * c
  OBVIOUS

\* The sizes of the file's image and the grain of its fractions.
LEMMA FileSizes ==
  ASSUME photo \in Photos \cup Selfies
  PROVE  /\ FileWidth \in Nat \ {0, 1} /\ FileHeight \in Nat \ {0, 1}
         /\ Grain \in Nat \ {0} /\ Unit = 40 * Grain /\ Unit \in Nat \ {0}
<1>1. photo.width \in Nat \ {0, 1} /\ photo.height \in Nat \ {0, 1}
  BY PhotoType
<1>2. Grain \in Nat \ {0}
  <2>1. photo.width * photo.height \in Nat /\ photo.width * photo.height # 0
    BY <1>1
  <2> QED
    BY <2>1 DEF Grain
<1> QED
  BY <1>1, <1>2 DEF FileWidth, FileHeight, Unit

\* int() loses less than a pixel, or the one that the float just missed.
LEMMA TruncatedBy ==
  ASSUME photo \in Photos \cup Selfies, NEW top \in Nat, NEW v, NEW t \in Truncated(v, top)
  PROVE  t \in 0..top /\ Unit * t <= v /\ v <= Unit * t + Unit
<1>1. t \in 0..top /\ Unit * t <= v /\ v <= Unit * (t + 1)
  BY DEF Truncated
<1>2. Unit * (t + 1) = Unit * t + Unit
  BY <1>1, FileSizes, Products
<1> QED
  BY <1>1, <1>2

\* Half of the square's side: no more than the image holds, and enough for
\* a face that the image holds.
LEMMA HalfFits ==
  ASSUME photo \in Photos \cup Selfies, NEW s,
         s[3] \in Nat, s[4] \in Nat, Grain <= s[3] \/ Grain <= s[4]
  PROVE  /\ Half(s) \in Int /\ Unit < 2 * Half(s)
         /\ 2 * Half(s) <= Unit * FileWidth /\ 2 * Half(s) <= Unit * FileHeight
         /\ s[3] <= Grain * Min({FileWidth, FileHeight}) => 20 * s[3] <= Half(s)
         /\ s[4] <= Grain * Min({FileWidth, FileHeight}) => 20 * s[4] <= Half(s)
<1> DEFINE m == Min({FileWidth, FileHeight})
           M == Max({s[3], s[4]})
           q == Grain * m
<1>1. M = IF s[3] >= s[4] THEN s[3] ELSE s[4]
  BY MaxOfTwo
<1>2. /\ m \in Nat \ {0, 1} /\ m <= FileWidth /\ m <= FileHeight
      /\ FileWidth \in Nat /\ FileHeight \in Nat
  BY FileSizes, MinOfTwo
<1>3. Grain \in Nat \ {0} /\ Unit = 40 * Grain
  BY FileSizes
<1>4. /\ q \in Int /\ Grain * FileWidth \in Int /\ Grain * FileHeight \in Int
      /\ 2 * Grain <= q /\ q <= Grain * FileWidth /\ q <= Grain * FileHeight
  <2> HIDE DEF m
  <2>1. /\ Grain * 2 <= Grain * m
        /\ Grain * m <= Grain * FileWidth /\ Grain * m <= Grain * FileHeight
    BY <1>2, <1>3, Multiples
  <2> QED
    BY <1>2, <1>3, <2>1
<1>5. /\ Unit * FileWidth = 40 * (Grain * FileWidth)
      /\ Unit * FileHeight = 40 * (Grain * FileHeight)
  BY <1>2, <1>3, Products
<1>6. 20 * Grain * m = 20 * q
  <2> HIDE DEF m
  <2> QED
    BY <1>2, <1>3, Products
<1>7. Half(s) = IF 26 * M <= 20 * q THEN 26 * M ELSE 20 * q
  <2>1. Half(s) = Min({26 * M, 20 * q})
    BY <1>6 DEF Half
  <2> HIDE DEF m, M, q
  <2>2. 26 * M \in Int /\ 20 * q \in Int
    BY <1>1, <1>4
  <2> QED
    BY <2>1, <2>2, MinOfTwo
<1> HIDE DEF m, M, q
<1>8. M \in Nat /\ s[3] <= M /\ s[4] <= M /\ Grain <= M
  BY <1>1, <1>3
<1>9. /\ Half(s) \in Int /\ 40 * Grain < 2 * Half(s) /\ Half(s) <= 20 * q
      /\ s[3] <= q => 20 * s[3] <= Half(s)
      /\ s[4] <= q => 20 * s[4] <= Half(s)
  BY <1>3, <1>4, <1>7, <1>8
<1>10. 2 * Half(s) <= Unit * FileWidth /\ 2 * Half(s) <= Unit * FileHeight
  BY <1>4, <1>5, <1>9
<1> QED
  BY <1>3, <1>9, <1>10 DEF m, q

\* A side of the square is in the image, has pixels, is as long as the square
\* up to rounding, and covers a span that is no longer.
LEMMA SpanFits ==
  ASSUME photo \in Photos \cup Selfies,
         NEW at \in Nat, NEW size \in Nat, NEW top \in Nat \ {0},
         NEW half \in Int, Unit < 2 * half, 2 * half <= Unit * top,
         NEW s \in Span(at, size, half, top)
  PROVE  /\ s[1] \in 0..top /\ s[2] \in 0..top /\ s = <<s[1], s[2]>> /\ s[1] < s[2]
         /\ Unit * s[1] \in Int /\ Unit * s[2] \in Int
         /\ 2 * half - Unit <= Unit * s[2] - Unit * s[1]
         /\ Unit * s[2] - Unit * s[1] <= 2 * half + Unit
         /\ 20 * size <= half /\ 40 * at <= Unit * top => Unit * s[1] <= 40 * at
         /\ 20 * size <= half => \/ 40 * (at + size) - Unit <= Unit * s[2]
                                 \/ s[2] = top
<1> DEFINE lo == 40 * at + 20 * size - half
           hi == 40 * at + 20 * size + half
           T == Unit * top
<1>1. lo \in Int /\ hi \in Int /\ hi - lo = 2 * half
  OBVIOUS
<1>2. Unit \in Nat \ {0} /\ T \in Int /\ Unit * 0 = 0
  BY FileSizes, Products
<1>3. s \in IF lo < 0 THEN {0} \X Truncated(Min({T, hi - lo}), top)
           ELSE IF hi > T
           THEN Truncated(Max({0, lo - (hi - T)}), top) \X {top}
           ELSE Truncated(lo, top) \X Truncated(hi, top)
  BY DEF Span
<1>4. 2 * half <= T
  OBVIOUS
<1> HIDE DEF T
<1>5. ASSUME s[1] \in 0..top, s[2] \in 0..top,
             2 * half - Unit <= Unit * s[2] - Unit * s[1]
      PROVE  s[1] < s[2] /\ Unit * s[1] \in Int /\ Unit * s[2] \in Int
  <2>1. Unit * s[1] \in Int /\ Unit * s[2] \in Int
    BY <1>2, <1>5, Products
  <2>2. Unit * s[1] < Unit * s[2]
    BY <1>2, <1>5, <2>1
  <2> QED
    BY <1>2, <1>5, <2>1, <2>2, Multiples
<1>6. CASE lo < 0
  <2>1. s[1] = 0 /\ s[2] \in Truncated(2 * half, top) /\ s = <<s[1], s[2]>>
    <3>1. Min({T, hi - lo}) = 2 * half
      BY <1>1, <1>2, <1>4, MinOfTwo
    <3>2. s \in {0} \X Truncated(2 * half, top)
      BY <1>3, <1>6, <3>1
    <3> QED
      BY <3>2
  <2>2. s[2] \in 0..top /\ Unit * s[2] <= 2 * half /\ 2 * half <= Unit * s[2] + Unit
    BY <2>1, TruncatedBy
  <2>3. Unit * s[1] = 0 /\ Unit * s[2] \in Int
    BY <1>2, <2>1, <2>2, Products
  <2> HIDE DEF lo, hi
  <2>4. 2 * half - Unit <= Unit * s[2] - Unit * s[1] /\ s[1] \in 0..top
    BY <1>2, <2>1, <2>2, <2>3
  <2>5. s[1] < s[2]
    BY <1>5, <2>2, <2>4
  <2> USE DEF lo, hi
  <2> QED
    BY <1>2, <1>6, <2>1, <2>2, <2>3, <2>4, <2>5
<1>7. CASE lo >= 0 /\ hi > T
  <2>1. s[1] \in Truncated(T - 2 * half, top) /\ s[2] = top /\ s = <<s[1], s[2]>>
    <3>1. Max({0, lo - (hi - T)}) = T - 2 * half
      BY <1>1, <1>2, <1>4, MaxOfTwo
    <3>2. s \in Truncated(T - 2 * half, top) \X {top}
      BY <1>3, <1>7, <3>1
    <3> QED
      BY <3>2
  <2>2. /\ s[1] \in 0..top /\ Unit * s[1] <= T - 2 * half
        /\ T - 2 * half <= Unit * s[1] + Unit
    BY <2>1, TruncatedBy
  <2>3. Unit * s[2] = T /\ Unit * s[1] \in Int
    BY <1>2, <2>1, <2>2, Products DEF T
  <2>4. 2 * half - Unit <= Unit * s[2] - Unit * s[1] /\ s[2] \in 0..top
    BY <1>2, <2>1, <2>2, <2>3
  <2>5. s[1] < s[2]
    BY <1>5, <2>2, <2>4
  <2>6. 20 * size <= half /\ 40 * at <= T => Unit * s[1] <= 40 * at
    BY <1>2, <1>7, <2>2, <2>3
  <2> QED
    BY <1>2, <2>1, <2>2, <2>3, <2>4, <2>5, <2>6 DEF T
<1>8. CASE lo >= 0 /\ hi <= T
  <2>1. s[1] \in Truncated(lo, top) /\ s[2] \in Truncated(hi, top) /\ s = <<s[1], s[2]>>
    <3> HIDE DEF lo, hi
    <3>1. s \in Truncated(lo, top) \X Truncated(hi, top)
      BY <1>1, <1>2, <1>3, <1>8
    <3> QED
      BY <3>1
  <2>2. /\ s[1] \in 0..top /\ Unit * s[1] <= lo /\ lo <= Unit * s[1] + Unit
        /\ s[2] \in 0..top /\ Unit * s[2] <= hi /\ hi <= Unit * s[2] + Unit
    <3> HIDE DEF lo, hi
    <3> QED
      BY <2>1, TruncatedBy
  <2>3. Unit * s[1] \in Int /\ Unit * s[2] \in Int
    BY <1>2, <2>2, Products
  <2>4. 2 * half - Unit <= Unit * s[2] - Unit * s[1]
    BY <1>2, <2>2, <2>3
  <2>5. s[1] < s[2]
    BY <1>5, <2>2, <2>4
  <2> QED
    BY <1>2, <2>1, <2>2, <2>3, <2>4, <2>5
<1> QED
  BY <1>1, <1>2, <1>6, <1>7, <1>8

\* A span of a face that the image holds stays as long as it is.
LEMMA ClampedSize ==
  ASSUME NEW size \in Nat \ {0}, NEW top \in Nat \ {0}
  PROVE  /\ Clamp(size, top) \in 1..top
         /\ size <= top => Clamp(size, top) = size
  BY Clamped

\* In a file that is not turned, what a side of the square covers of the
\* clamped span, it covers of the raw one.
LEMMA SpanShows ==
  ASSUME photo \in Photos \cup Selfies,
         NEW at \in Int, NEW size \in Nat \ {0}, NEW top \in Nat \ {0},
         NEW half \in Int, Unit < 2 * half, 2 * half <= Unit * top,
         20 * (Grain * Clamp(size, top)) <= half,
         NEW s \in Span(Grain * Clamp(at, top), Grain * Clamp(size, top), half, top)
  PROVE  s[1] <= Inside(at, size, top)[1] /\ Inside(at, size, top)[2] - 1 <= s[2]
<1> DEFINE a == Clamp(at, top)
           n == Clamp(size, top)
           i == Inside(at, size, top)
<1>1. a \in Nat /\ a <= top /\ n \in Nat /\ n <= top
  BY ClampedSpanCovers
<1>2. a <= i[1] /\ i[2] <= a + n
  BY ClampedSpanCovers
<1>3. i[1] \in Int /\ i[2] \in Int /\ i[2] <= top
  <2>1. /\ i[1] = IF at < 0 THEN 0 ELSE at
        /\ i[2] = IF at + size < top THEN at + size ELSE top
    BY InsideIs
  <2> HIDE DEF i
  <2> QED
    BY <2>1
<1>4. s \in Span(Grain * a, Grain * n, half, top) /\ 20 * (Grain * n) <= half
  OBVIOUS
<1> HIDE DEF a, n, i
<1>5. Grain \in Nat \ {0} /\ Unit = 40 * Grain /\ Unit \in Nat \ {0}
  BY FileSizes
<1>6. Grain * a \in Nat /\ Grain * n \in Nat
  BY <1>1, <1>5
<1>7. /\ 40 * (Grain * a) = Unit * a
      /\ 40 * (Grain * a + Grain * n) - Unit = Unit * (a + n - 1)
  <2>1. /\ Unit * a = 40 * (Grain * a)
        /\ Unit * n = 40 * (Grain * n)
    BY <1>1, <1>5, Products
  <2>2. Unit * (a + n - 1) = Unit * a + Unit * n - Unit
    <3>1. Unit * ((a + n) - 1) = Unit * (a + n) - Unit * 1
      BY <1>1, <1>5, Products
    <3>2. Unit * (a + n) = Unit * a + Unit * n
      BY <1>1, <1>5, Products
    <3> QED
      BY <1>1, <1>5, <3>1, <3>2
  <2> QED
    BY <1>1, <1>5, <1>6, <2>1, <2>2
<1>8. Unit * a <= Unit * top
  BY <1>1, <1>5, Multiples
<1>9. /\ s[1] \in 0..top /\ s[2] \in 0..top
      /\ Unit * s[1] <= Unit * a
      /\ Unit * (a + n - 1) <= Unit * s[2] \/ s[2] = top
  BY <1>4, <1>6, <1>7, <1>8, SpanFits
<1>10. s[1] <= a
  BY <1>1, <1>5, <1>9, Multiples
<1>11. a + n - 1 <= s[2] \/ s[2] = top
  <2>1. a + n - 1 \in Int
    BY <1>1
  <2> QED
    BY <1>5, <1>9, <2>1, Multiples
<1> QED
  BY <1>1, <1>2, <1>3, <1>9, <1>10, <1>11 DEF i

\* What the cropper makes of a box, in the file's image: of the greater of
\* its sides there is at least a pixel left.
LEMMA ScaledFits ==
  ASSUME photo \in Photos \cup Selfies, NEW b,
         b[1] \in 0..photo.width, b[2] \in 0..photo.height,
         b[3] \in 1..photo.width, b[4] \in 1..photo.height
  PROVE  /\ \A k \in 1..4 : Scaled(b)[k] \in Nat
         /\ Grain <= Scaled(b)[3] \/ Grain <= Scaled(b)[4]
         /\ photo.exif = {} => \A k \in 1..4 : Scaled(b)[k] = Grain * b[k]
<1> DEFINE w == photo.width
           h == photo.height
           s == Scaled(b)
<1>1. w \in Nat \ {0, 1} /\ h \in Nat \ {0, 1}
  BY PhotoType
<1>2. /\ s[1] = b[1] * FileWidth * h /\ s[2] = b[2] * FileHeight * w
      /\ s[3] = b[3] * FileWidth * h /\ s[4] = b[4] * FileHeight * w
  BY DEF Scaled
<1>3. FileWidth \in Nat /\ FileHeight \in Nat
  BY FileSizes
<1> HIDE DEF s
<1>4. ASSUME NEW x \in Nat, NEW y \in Nat, NEW z \in Nat
      PROVE  x * y * z \in Nat /\ (x > 0 => y * z <= x * y * z)
  <2>1. x * y * z = (y * z) * x /\ y * z \in Nat
    OBVIOUS
  <2>2. ASSUME NEW p \in Nat PROVE p * x \in Nat /\ (x > 0 => p <= p * x)
    OBVIOUS
  <2> QED
    BY <2>1, <2>2
<1>5. /\ b[1] \in Nat /\ b[2] \in Nat
      /\ b[3] \in Nat /\ b[4] \in Nat /\ b[3] > 0 /\ b[4] > 0
  BY <1>1
<1>6. \A k \in 1..4 : s[k] \in Nat
  <2>1. s[1] \in Nat /\ s[2] \in Nat /\ s[3] \in Nat /\ s[4] \in Nat
    BY <1>1, <1>2, <1>3, <1>4, <1>5
  <2> QED
    BY <2>1
<1>7. Grain <= s[3] \/ Grain <= s[4]
  <2>1. CASE "swap" \notin photo.exif
    <3>1. s[3] = b[3] * w * h /\ Grain = w * h
      BY <1>2, <2>1 DEF FileWidth, Grain
    <3> QED
      BY <1>1, <1>4, <1>5, <3>1
  <2>2. CASE "swap" \in photo.exif
    <3>1. /\ s[3] = b[3] * h * h /\ s[4] = b[4] * w * w
          /\ Grain = w * h
      BY <1>2, <2>2 DEF FileWidth, FileHeight, Grain
    <3>2. h * h <= s[3] /\ w * w <= s[4]
      BY <1>1, <1>4, <1>5, <3>1
    <3>3. w * h <= h * h \/ w * h <= w * w
      <4>1. CASE w <= h
        BY <1>1, <4>1, Multiples, Products
      <4>2. CASE h <= w
        BY <1>1, <4>2, Multiples
      <4> QED
        BY <1>1, <4>1, <4>2
    <3>4. /\ w * h \in Int /\ h * h \in Int /\ w * w \in Int
          /\ s[3] \in Int /\ s[4] \in Int
      BY <1>1, <1>6
    <3> QED
      BY <3>1, <3>2, <3>3, <3>4
  <2> QED
    BY <2>1, <2>2
<1>8. ASSUME photo.exif = {} PROVE \A k \in 1..4 : s[k] = Grain * b[k]
  <2>1. FileWidth = w /\ FileHeight = h /\ Grain = w * h
    BY <1>8 DEF FileWidth, FileHeight, Grain
  <2>2. ASSUME NEW x \in Nat
        PROVE  x * w * h = (w * h) * x /\ x * h * w = (w * h) * x
    BY <1>1
  <2>3. s[1] = Grain * b[1] /\ s[2] = Grain * b[2] /\ s[3] = Grain * b[3] /\ s[4] = Grain * b[4]
    BY <1>2, <1>5, <2>1, <2>2
  <2> QED
    BY <2>3
<1> QED
  BY <1>6, <1>7, <1>8 DEF s

\* The crop of a reported face is square and in the image, and shows the face
\* if the file is not turned.
LEMMA CropFits ==
  ASSUME photo \in Photos \cup Selfies, NEW f \in RawFaces,
         NEW c \in Crops(Report(f).box)
  PROVE  c \in Squares /\ SquareInImage(c) /\ (photo.exif = {} => Shows(c, f.box))
<1> DEFINE raw == f.box
           b == Normalised(raw)
           s == Scaled(b)
           half == Half(s)
           w == photo.width
           h == photo.height
<1>1. /\ raw[1] \in Int /\ raw[2] \in Int
      /\ raw[3] \in Nat \ {0} /\ raw[4] \in Nat \ {0}
  BY DEF RawFaces
<1>2. w \in Nat \ {0} /\ h \in Nat \ {0}
  BY PhotoType
<1>3. /\ b[1] = Clamp(raw[1], w) /\ b[2] = Clamp(raw[2], h)
      /\ b[3] = Clamp(raw[3], w) /\ b[4] = Clamp(raw[4], h)
  BY DEF Normalised
<1>4. /\ b[1] \in 0..w /\ b[2] \in 0..h
      /\ b[3] \in 1..w /\ b[4] \in 1..h
      /\ raw[3] <= w => b[3] = raw[3]
      /\ raw[4] <= h => b[4] = raw[4]
  <2>1. b[1] \in 0..w /\ b[2] \in 0..h
    <3> HIDE DEF b
    <3> QED
      BY <1>1, <1>2, <1>3, ClampedSpanCovers
  <2>2. /\ b[3] \in 1..w /\ b[4] \in 1..h
        /\ raw[3] <= w => b[3] = raw[3]
        /\ raw[4] <= h => b[4] = raw[4]
    <3> HIDE DEF b
    <3> QED
      BY <1>1, <1>2, <1>3, ClampedSize
  <2> QED
    BY <2>1, <2>2
<1>5. Report(f).box = b
  BY ReportType
<1>6. /\ c.x \in Span(s[1], s[3], half, FileWidth)
      /\ c.y \in Span(s[2], s[4], half, FileHeight)
      /\ c = [x |-> c.x, y |-> c.y]
  BY <1>5 DEF Crops
<1> HIDE DEF b
<1>7. /\ s[1] \in Nat /\ s[2] \in Nat /\ s[3] \in Nat /\ s[4] \in Nat
      /\ Grain <= s[3] \/ Grain <= s[4]
      /\ photo.exif = {} => /\ s[1] = Grain * b[1] /\ s[2] = Grain * b[2]
                            /\ s[3] = Grain * b[3] /\ s[4] = Grain * b[4]
  BY <1>4, ScaledFits
<1> HIDE DEF s
<1>8. /\ half \in Int /\ Unit < 2 * half
      /\ 2 * half <= Unit * FileWidth /\ 2 * half <= Unit * FileHeight
      /\ s[3] <= Grain * Min({FileWidth, FileHeight}) => 20 * s[3] <= half
      /\ s[4] <= Grain * Min({FileWidth, FileHeight}) => 20 * s[4] <= half
  BY <1>7, HalfFits
<1> HIDE DEF half
<1>9. FileWidth \in Nat \ {0} /\ FileHeight \in Nat \ {0} /\ Unit \in Nat \ {0}
  BY FileSizes
<1>10. /\ c.x[1] \in 0..FileWidth /\ c.x[2] \in 0..FileWidth
       /\ c.x = <<c.x[1], c.x[2]>> /\ c.x[1] < c.x[2]
       /\ Unit * c.x[1] \in Int /\ Unit * c.x[2] \in Int
       /\ 2 * half - Unit <= Unit * c.x[2] - Unit * c.x[1]
       /\ Unit * c.x[2] - Unit * c.x[1] <= 2 * half + Unit
  <2>1. c.x \in Span(s[1], s[3], half, FileWidth) /\ s[1] \in Nat /\ s[3] \in Nat
    BY <1>6, <1>7
  <2>2. /\ FileWidth \in Nat \ {0} /\ half \in Int
        /\ Unit < 2 * half /\ 2 * half <= Unit * FileWidth
    BY <1>8, <1>9
  <2> QED
    BY <2>1, <2>2, SpanFits
<1>11. /\ c.y[1] \in 0..FileHeight /\ c.y[2] \in 0..FileHeight
       /\ c.y = <<c.y[1], c.y[2]>> /\ c.y[1] < c.y[2]
       /\ Unit * c.y[1] \in Int /\ Unit * c.y[2] \in Int
       /\ 2 * half - Unit <= Unit * c.y[2] - Unit * c.y[1]
       /\ Unit * c.y[2] - Unit * c.y[1] <= 2 * half + Unit
  <2>1. c.y \in Span(s[2], s[4], half, FileHeight) /\ s[2] \in Nat /\ s[4] \in Nat
    BY <1>6, <1>7
  <2>2. /\ FileHeight \in Nat \ {0} /\ half \in Int
        /\ Unit < 2 * half /\ 2 * half <= Unit * FileHeight
    BY <1>8, <1>9
  <2> QED
    BY <2>1, <2>2, SpanFits
<1>12. SquareInImage(c)
  <2> DEFINE d == Side(c.x) - Side(c.y)
  <2>1. Side(c.x) \in Int /\ Side(c.y) \in Int /\ d \in Int
    BY <1>9, <1>10, <1>11 DEF Side
  <2>2. /\ Unit * Side(c.x) = Unit * c.x[2] - Unit * c.x[1]
        /\ Unit * Side(c.y) = Unit * c.y[2] - Unit * c.y[1]
        /\ Unit * d = Unit * Side(c.x) - Unit * Side(c.y)
    BY <1>9, <1>10, <1>11, <2>1, Products DEF Side
  <2>3. Unit * d <= Unit * 2 /\ Unit * (-2) <= Unit * d
    BY <1>8, <1>9, <1>10, <1>11, <2>2
  <2> HIDE DEF d
  <2>4. d <= 2 /\ -2 <= d
    BY <1>9, <2>1, <2>3, Multiples
  <2>5. Side(c.x) - Side(c.y) \in -2..2
    BY <2>1, <2>4 DEF d
  <2> QED
    BY <2>5, <1>9, <1>10, <1>11 DEF SquareInImage
<1>13. ASSUME photo.exif = {} PROVE Shows(c, raw)
  <2> SUFFICES ASSUME Max({raw[3], raw[4]}) <= Min({w, h})
               PROVE  /\ c.x[1] <= Across(raw)[1] /\ Across(raw)[2] - 1 <= c.x[2]
                      /\ c.y[1] <= Down(raw)[1] /\ Down(raw)[2] - 1 <= c.y[2]
    BY DEF Shows
  <2>1. FileWidth = w /\ FileHeight = h
    BY <1>13 DEF FileWidth, FileHeight
  <2>2. raw[3] <= Max({raw[3], raw[4]}) /\ raw[4] <= Max({raw[3], raw[4]})
        /\ Max({raw[3], raw[4]}) \in Nat
    BY <1>1, MaxOfTwo
  <2>3. Min({w, h}) <= w /\ Min({w, h}) <= h /\ Min({w, h}) \in Nat
    BY <1>2, MinOfTwo
  <2>4. b[3] = raw[3] /\ b[4] = raw[4] /\ b[3] <= Min({w, h}) /\ b[4] <= Min({w, h})
    BY <1>1, <1>2, <1>4, <2>2, <2>3
  <2>5. Grain * b[3] <= Grain * Min({w, h}) /\ Grain * b[4] <= Grain * Min({w, h})
    <3>1. Grain \in Nat \ {0} /\ b[3] \in Int /\ b[4] \in Int
      BY <1>4, FileSizes
    <3> QED
      BY <2>3, <2>4, <3>1, Multiples
  <2>6. 20 * (Grain * b[3]) <= half /\ 20 * (Grain * b[4]) <= half
    BY <1>7, <1>8, <1>13, <2>1, <2>5
  <2>7. /\ c.x \in Span(Grain * Clamp(raw[1], w), Grain * Clamp(raw[3], w), half, w)
        /\ c.y \in Span(Grain * Clamp(raw[2], h), Grain * Clamp(raw[4], h), half, h)
    BY <1>3, <1>6, <1>7, <1>13, <2>1
  <2>8. c.x[1] <= Across(raw)[1] /\ Across(raw)[2] - 1 <= c.x[2]
    BY <1>1, <1>2, <1>3, <1>8, <2>1, <2>6, <2>7, SpanShows DEF Across
  <2>9. c.y[1] <= Down(raw)[1] /\ Down(raw)[2] - 1 <= c.y[2]
    BY <1>1, <1>2, <1>3, <1>8, <2>1, <2>6, <2>7, SpanShows DEF Down
  <2> QED
    BY <2>8, <2>9
<1>14. c \in Squares
  <2>1. c.x[1] \in Int /\ c.x[2] \in Int /\ c.y[1] \in Int /\ c.y[2] \in Int
    BY <1>9, <1>10, <1>11
  <2>2. <<c.x[1], c.x[2]>> \in Int \X Int /\ <<c.y[1], c.y[2]>> \in Int \X Int
    BY <2>1
  <2>3. c.x \in Int \X Int /\ c.y \in Int \X Int
    BY <1>10, <1>11, <2>2
  <2> QED
    BY <1>6, <2>3 DEF Squares
<1> QED
  BY <1>12, <1>13, <1>14

------------------------------------------------------------------------------
(* The order of the reported faces                                         *)

\* Sorting only moves faces: every rank is taken, because no two faces have
\* the same number of faces before them.
LEMMA RankedIsOfS ==
  ASSUME NEW s \in Seq(ReportedFaces), NEW k \in DOMAIN s
  PROVE  \E j \in DOMAIN s : Ranked(s)[k] = s[j]
<1> DEFINE D == DOMAIN s
           Ahead(j) == {i \in D : Before(s, i, j)}
           n == Len(s)
<1>1. n \in Nat /\ D = 1..n /\ \A i \in D : s[i].score \in Nat
  <2>1. n \in Nat /\ D = 1..n
    BY LenProperties
  <2>2. \A i \in D : s[i] \in ReportedFaces
    BY <2>1, ElementOfSeq
  <2> QED
    BY <2>1, <2>2 DEF ReportedFaces
<1>2. IsFiniteSet(D) /\ Cardinality(D) = n
  <2> HIDE DEF D, n
  <2>1. IsFiniteSet(1..n) /\ Cardinality(1..n) = IF 1 > n THEN 0 ELSE n - 1 + 1
    BY <1>1, FS_Interval
  <2> QED
    BY <1>1, <2>1
<1>3. \A j \in D : IsFiniteSet(Ahead(j)) /\ Cardinality(Ahead(j)) \in Nat
  <2> TAKE j \in D
  <2>1. Ahead(j) \in SUBSET D
    OBVIOUS
  <2> HIDE DEF Ahead, D
  <2> QED
    BY <1>2, <2>1, FS_Subset, FS_CardinalityType
<1>4. \A j \in D : Cardinality(Ahead(j)) \in 0..(n - 1)
  <2> TAKE j \in D
  <2>1. Ahead(j) \in SUBSET D /\ j \in D \ Ahead(j)
    BY <1>1 DEF Before
  <2> HIDE DEF Ahead, D
  <2>2. Cardinality(Ahead(j)) <= n
    BY <1>2, <2>1, FS_Subset
  <2>3. Cardinality(Ahead(j)) # n
    BY <1>2, <2>1, FS_Subset
  <2> QED
    BY <1>1, <1>3, <2>2, <2>3
<1>5. \A i, j \in D : Before(s, i, j) => Cardinality(Ahead(i)) # Cardinality(Ahead(j))
  <2> SUFFICES ASSUME NEW i \in D, NEW j \in D, Before(s, i, j)
               PROVE  Cardinality(Ahead(i)) # Cardinality(Ahead(j))
    OBVIOUS
  <2>1. Ahead(i) \in SUBSET Ahead(j)
    BY <1>1 DEF Before
  <2>2. i \in Ahead(j) /\ i \notin Ahead(i)
    BY <1>1 DEF Before
  <2> HIDE DEF Ahead, D
  <2> QED
    BY <1>3, <2>1, <2>2, FS_Subset
<1>6. \A i, j \in D : i # j => Before(s, i, j) \/ Before(s, j, i)
  BY <1>1 DEF Before
<1> DEFINE rank == [j \in D |-> Cardinality(Ahead(j))]
<1>7. rank \in Injection(D, 0..(n - 1))
  <2>1. rank \in [D -> 0..(n - 1)]
    BY <1>4
  <2>2. \A i, j \in D : rank[i] = rank[j] => i = j
    <3> HIDE DEF Ahead, D
    <3> QED
      BY <1>5, <1>6
  <2> HIDE DEF rank, D
  <2> QED
    BY <2>1, <2>2 DEF Injection, IsInjective
<1>8. IsFiniteSet(0..(n - 1)) /\ Cardinality(0..(n - 1)) = n
  <2>1. n - 1 \in Int
    BY <1>1
  <2> HIDE DEF n
  <2> QED
    BY <1>1, <2>1, FS_Interval
<1>9. rank \in Surjection(D, 0..(n - 1))
  <2> HIDE DEF rank, D, n
  <2> QED
    BY <1>2, <1>7, <1>8, FS_Injection
<1>10. k - 1 \in 0..(n - 1)
  BY <1>1
<1>11. \E j \in D : Cardinality(Ahead(j)) = k - 1
  <2>1. \E j \in D : rank[j] = k - 1
    <3> HIDE DEF rank, D, n
    <3> QED
      BY <1>9, <1>10 DEF Surjection
  <2> QED
    BY <2>1
<1>12. PICK j \in D : j = CHOOSE i \in D : Cardinality(Ahead(i)) = k - 1
  <2> HIDE DEF Ahead, D
  <2> QED
    BY <1>11
<1>13. Ranked(s)[k] = s[j]
  BY <1>12 DEF Ranked
<1> QED
  BY <1>13

LEMMA RankedType ==
  ASSUME NEW s \in Seq(ReportedFaces)
  PROVE  /\ Ranked(s) \in Seq(ReportedFaces) /\ Len(Ranked(s)) = Len(s)
         /\ \A k \in DOMAIN Ranked(s) : \E j \in DOMAIN s : Ranked(s)[k] = s[j]
<1>1. Len(s) \in Nat /\ DOMAIN s = 1..Len(s) /\ DOMAIN Ranked(s) = 1..Len(s)
  BY DEF Ranked
<1>2. \A k \in 1..Len(s) : \E j \in DOMAIN s : Ranked(s)[k] = s[j]
  BY <1>1, RankedIsOfS
<1>3. \A k \in 1..Len(s) : Ranked(s)[k] \in ReportedFaces
  BY <1>2, ElementOfSeq, <1>1
<1>4. Ranked(s) \in [1..Len(s) -> ReportedFaces]
  <2>1. Ranked(s) = [k \in 1..Len(s) |-> Ranked(s)[k]]
    BY <1>1 DEF Ranked
  <2> QED
    BY <1>3, <2>1
<1>5. Ranked(s) \in Seq(ReportedFaces) /\ Len(Ranked(s)) = Len(s)
  BY <1>1, <1>4
<1> QED
  BY <1>1, <1>2, <1>5

------------------------------------------------------------------------------
(* Matches                                                                 *)

\* The expanded square of the distance, which the prover's arithmetic needs.
LEMMA GapExpanded ==
  ASSUME NEW u \in Int \X Int, NEW v \in Int \X Int
  PROVE  /\ Dot(u, v) \in Int /\ Dot(u, u) \in Nat /\ Dot(v, v) \in Nat
         /\ Gap(u, v) = Dot(u, u) + Dot(v, v) - 2 * Dot(u, v)
<1>1. PICK a \in Int, b \in Int : u = <<a, b>>
  OBVIOUS
<1>2. PICK c \in Int, d \in Int : v = <<c, d>>
  OBVIOUS
<1>3. /\ Dot(u, v) = a * c + b * d
      /\ Dot(u, u) = a * a + b * b
      /\ Dot(v, v) = c * c + d * d
  BY <1>1, <1>2 DEF Dot
<1>4. Gap(u, v) = (a - c) * (a - c) + (b - d) * (b - d)
  BY <1>1, <1>2 DEF Gap, Dot
<1>5. (a - c) * (a - c) + (b - d) * (b - d)
        = (a * a + b * b) + (c * c + d * d) - 2 * (a * c + b * d)
  OBVIOUS
<1>6. a * a \in Nat /\ b * b \in Nat /\ c * c \in Nat /\ d * d \in Nat
  OBVIOUS
<1> QED
  BY <1>3, <1>4, <1>5, <1>6

\* The vec0 bound on the distance implies the bound on the cosine, when
\* neither embedding is shorter than 1.  With a and b the squared lengths, d
\* the inner product, T the threshold and m = a + b: from
\* 10000 (m - 2 d) <= (100 - T)^2 N^2 and 2 N^2 <= m it follows that
\* T m <= 200 d, and 4 a b <= m^2.
LEMMA FoundIsMatch ==
  ASSUME NEW u \in Int \X Int, NEW v \in Int \X Int,
         Dot(u, u) >= Norm * Norm, Dot(v, v) >= Norm * Norm,
         Euclidean(u, v)
  PROVE  Cosine(u, v)
<1> DEFINE a == Dot(u, u)
           b == Dot(v, v)
           d == Dot(u, v)
           T == Percent
           N == Norm
<1>1. a \in Nat /\ b \in Nat /\ d \in Int /\ Gap(u, v) = a + b - 2 * d
  BY GapExpanded
<1>2. T \in 0..100 /\ N \in Nat
  BY RecognitionAssumption DEF RecognitionAssumption
<1>3. 10000 * (a + b - 2 * d) <= ((100 - T) * N) * ((100 - T) * N)
  BY <1>1 DEF Euclidean
<1>4. N * N <= a /\ N * N <= b
  BY <1>1, <1>2
<1>5. Cosine(u, v) <=> (d >= 0 /\ 10000 * d * d >= T * T * a * b)
  BY DEF Cosine
<1> HIDE DEF a, b, d, T, N
<1> USE <1>1, <1>2, <1>3, <1>4
<1> DEFINE m == a + b
           Q == 100 - T
           S == N * N
<1>6. Q \in Nat /\ Q <= 100 /\ m \in Nat /\ S \in Nat /\ 2 * S <= m
  OBVIOUS
<1>7. (Q * N) * (Q * N) = (Q * Q) * S
  OBVIOUS
<1>8. Q * Q <= 100 * Q
  OBVIOUS
<1>9. (Q * Q) * S <= (100 * Q) * S
  <2> HIDE DEF Q, S
  <2> QED
    BY <1>6, <1>8
<1>10. (100 * Q) * S <= (50 * Q) * m
  <2> HIDE DEF Q, S, m
  <2>1. Q * (2 * S) <= Q * m
    BY <1>6
  <2> QED
    BY <1>6, <2>1
<1>11. (50 * Q) * m = 5000 * m - 50 * (T * m)
  OBVIOUS
<1>12. T * m <= 100 * m /\ T * m \in Nat
  OBVIOUS
<1>13. T * m <= 200 * d
  <2>1. 10000 * (m - 2 * d) <= 5000 * m - 50 * (T * m)
    <3>1. 10000 * (m - 2 * d) <= (Q * Q) * S
      BY <1>7
    <3> HIDE DEF Q, S, m
    <3> QED
      BY <1>6, <1>8, <1>9, <1>10, <1>11, <3>1
  <2> HIDE DEF m
  <2> DEFINE t == T * m
  <2>2. t \in Nat /\ t <= 100 * m /\ 10000 * (m - 2 * d) <= 5000 * m - 50 * t
    BY <1>12, <2>1
  <2> HIDE DEF t
  <2>3. t <= 200 * d
    BY <1>6, <2>2
  <2> QED
    BY <2>3 DEF t
<1>14. d \in Nat
  BY <1>12, <1>13
<1>15. (T * m) * (T * m) <= (200 * d) * (200 * d)
  <2> DEFINE t == T * m
             e == 200 * d
  <2>1. t \in Nat /\ e \in Nat /\ t <= e
    BY <1>12, <1>13, <1>14
  <2> HIDE DEF t, e
  <2>2. t * t <= e * e
    BY <2>1
  <2> QED
    BY <2>2 DEF t, e
<1>16. 4 * (a * b) <= m * m
  <2>1. 0 <= (a - b) * (a - b)
    OBVIOUS
  <2>2. m * m = (a - b) * (a - b) + 4 * (a * b)
    OBVIOUS
  <2> QED
    BY <2>1, <2>2
<1>17. (T * T) * (4 * (a * b)) <= (T * T) * (m * m)
  <2> DEFINE t == T * T
             e == 4 * (a * b)
             f == m * m
  <2>1. t \in Nat /\ e \in Nat /\ f \in Nat /\ e <= f
    BY <1>16
  <2> HIDE DEF t, e, f
  <2>2. t * e <= t * f
    BY <2>1
  <2> QED
    BY <2>2 DEF t, e, f
<1>18. /\ (T * T) * (m * m) = (T * m) * (T * m)
       /\ (T * T) * (4 * (a * b)) = 4 * (T * T * a * b)
       /\ (200 * d) * (200 * d) = 4 * (10000 * d * d)
  OBVIOUS
<1>19. 4 * (T * T * a * b) <= 4 * (10000 * d * d)
  BY <1>15, <1>17, <1>18
<1> QED
  BY <1>5, <1>14, <1>19

------------------------------------------------------------------------------
(* The invariant                                                           *)

\* What is computed of a face depends on nothing else that changes.
LEMMA SamePhoto ==
  ASSUME photo' = photo
  PROVE  /\ \A g : Accepted(g)' = Accepted(g) /\ Report(g)' = Report(g)
         /\ \A b : Crops(b)' = Crops(b)
<1>1. \A g : Accepted(g)' = Accepted(g) /\ Report(g)' = Report(g)
  BY DEF Accepted, BigEnough, SharpEnough, InImage, Across, Down, Report, Normalised
<1>2. /\ FileWidth' = FileWidth /\ FileHeight' = FileHeight
      /\ Grain' = Grain /\ Unit' = Unit
  BY DEF FileWidth, FileHeight, Grain, Unit
<1>3. \A b : Scaled(b)' = Scaled(b) /\ Half(b)' = Half(b)
  BY <1>2 DEF Scaled, Half
<1>4. \A at, size, half, top : Span(at, size, half, top)' = Span(at, size, half, top)
  BY DEF Span, Truncated, Unit, Grain
<1>5. \A b : Crops(b)' = Crops(b)
  BY <1>2, <1>3, <1>4 DEF Crops
<1> QED
  BY <1>1, <1>5

LEMMA RecognitionInit == RInit => RecognitionInv
<1> SUFFICES ASSUME RInit PROVE RecognitionInv
  OBVIOUS
<1>1. photo \in Photos \cup Selfies /\ stored \subseteq Vectors
      /\ (purpose = "match" => photo \in Selfies)
  BY DEF RInit
<1>2. Len(photo.faces) \in Nat
  BY <1>1, PhotoType
<1>3. /\ pc = "detect" /\ seen = 0 /\ results = <<>> /\ crops = <<>> /\ answer = {}
  BY DEF RInit
<1>4. seen \in 0..Len(photo.faces)
  BY <1>2, <1>3
<1>5. results \in Seq(ReportedFaces) /\ crops \in Seq(Squares)
      /\ Len(results) = 0 /\ Len(crops) = 0
      /\ DOMAIN results = {} /\ DOMAIN crops = {}
  BY <1>3
<1> QED
  BY <1>1, <1>3, <1>4, <1>5 DEF RecognitionInv

\* The detector looks at one more face.
LEMMA InspectKeeps == RecognitionInv /\ Inspect => RecognitionInv'
<1> SUFFICES ASSUME RecognitionInv, Inspect PROVE RecognitionInv'
  OBVIOUS
<1> DEFINE f == photo.faces[seen + 1]
<1>1. photo' = photo /\ purpose' = purpose /\ stored' = stored
      /\ pc = "detect" /\ pc' = pc /\ crops' = crops /\ answer' = answer
      /\ seen' = seen + 1 /\ seen < Len(photo.faces)
  BY DEF Inspect, input
<1>2. photo \in Photos \cup Selfies /\ stored \subseteq Vectors
      /\ (purpose = "match" => photo \in Selfies)
      /\ seen \in Nat /\ results \in Seq(ReportedFaces)
      /\ crops = <<>> /\ answer = {}
      /\ Len(photo.faces) \in Nat
  BY <1>1, PhotoType DEF RecognitionInv
<1>3. seen' \in 0..Len(photo'.faces) /\ seen' \in Nat
  BY <1>1, <1>2
<1>4. f \in RawFaces
  <2>1. seen + 1 \in 1..Len(photo.faces)
    BY <1>1, <1>2
  <2> QED
    BY <1>2, <2>1, PhotoType
<1>5. Report(f) \in ReportedFaces
  BY <1>2, <1>4, ReportType
<1>6. \A i \in DOMAIN results :
        \E j \in 1..seen : Accepted(photo.faces[j]) /\ results[i] = Report(photo.faces[j])
  BY DEF RecognitionInv
<1> DEFINE Good(r, n) ==
        \A i \in DOMAIN r :
          \E j \in 1..n : Accepted(photo.faces[j]) /\ r[i] = Report(photo.faces[j])
<1>7. results' \in Seq(ReportedFaces) /\ Good(results', seen + 1)
  <2>1. CASE Accepted(f)
    <3>1. results' = Append(results, Report(f))
      BY <2>1 DEF Inspect
    <3>2. results' \in Seq(ReportedFaces)
      BY <1>2, <1>5, <3>1
    <3>3. /\ DOMAIN results' = 1..(Len(results) + 1) /\ Len(results) \in Nat
          /\ DOMAIN results = 1..Len(results)
          /\ \A i \in DOMAIN results : results'[i] = results[i]
          /\ results'[Len(results) + 1] = Report(f)
      <4> HIDE DEF f
      <4> QED
        BY <1>2, <1>5, <3>1, AppendProperties, LenProperties
    <3>4. ASSUME NEW i \in DOMAIN results'
          PROVE  \E j \in 1..(seen + 1) :
                   Accepted(photo.faces[j]) /\ results'[i] = Report(photo.faces[j])
      <4>1. CASE i \in DOMAIN results
        <5>1. PICK j \in 1..seen :
                Accepted(photo.faces[j]) /\ results[i] = Report(photo.faces[j])
          BY <1>6, <4>1
        <5>2. j \in 1..(seen + 1)
          BY <1>2
        <5> QED
          BY <3>3, <4>1, <5>1, <5>2
      <4>2. CASE i = Len(results) + 1
        <5>1. seen + 1 \in 1..(seen + 1)
          BY <1>2
        <5> QED
          BY <2>1, <3>3, <4>2, <5>1
      <4> QED
        BY <3>3, <4>1, <4>2
    <3> QED
      BY <3>2, <3>4
  <2>2. CASE ~Accepted(f)
    <3>1. results' = results
      BY <2>2 DEF Inspect
    <3>2. 1..seen \subseteq 1..(seen + 1)
      BY <1>2
    <3> QED
      BY <1>2, <1>6, <3>1, <3>2
  <2> QED
    BY <2>1, <2>2
<1>8. \A i \in DOMAIN results' :
        \E j \in 1..seen' : Accepted(photo.faces[j])' /\ results'[i] = Report(photo.faces[j])'
  <2>1. \A g : Accepted(g)' = Accepted(g) /\ Report(g)' = Report(g)
    BY <1>1, SamePhoto
  <2> QED
    BY <1>1, <1>7, <2>1
<1>9. crops' = <<>> /\ answer' = {} /\ crops' \in Seq(Squares) /\ Len(crops') = 0
      /\ DOMAIN crops' = {}
  BY <1>1, <1>2
<1>10. Len(crops') <= Len(results')
  BY <1>7, <1>9
<1> QED
  BY <1>1, <1>2, <1>3, <1>7, <1>8, <1>9, <1>10 DEF RecognitionInv

\* Sorting and cutting off leaves faces of the image.
LEMMA RankKeeps == RecognitionInv /\ Rank => RecognitionInv'
<1> SUFFICES ASSUME RecognitionInv, Rank PROVE RecognitionInv'
  OBVIOUS
<1>1. /\ UNCHANGED <<photo, purpose, stored, seen, crops, answer>>
      /\ pc = "detect" /\ pc' = IF purpose = "match" THEN "match" ELSE "crop"
  BY DEF Rank, input
<1>2. /\ photo \in Photos \cup Selfies /\ stored \subseteq Vectors
      /\ (purpose = "match" => photo \in Selfies)
      /\ seen \in 0..Len(photo.faces) /\ results \in Seq(ReportedFaces)
      /\ crops = <<>> /\ answer = {}
  BY <1>1 DEF RecognitionInv
<1> DEFINE r == Ranked(results)
           top == IF Len(r) <= MaxFaces THEN Len(r) ELSE MaxFaces
<1>3. /\ r \in Seq(ReportedFaces) /\ Len(r) \in Nat /\ DOMAIN r = 1..Len(r)
      /\ \A k \in DOMAIN r : \E j \in DOMAIN results : r[k] = results[j]
  BY <1>2, RankedType
<1>4. MaxFaces \in Nat
  BY RecognitionAssumption DEF RecognitionAssumption
<1>5. results' = r \/ results' = SubSeq(r, 1, top)
  <2>1. Min({Len(r), MaxFaces}) = top
    BY <1>3, <1>4, MinOfTwo
  <2> QED
    BY <2>1 DEF Rank
<1> HIDE DEF r
<1>6. /\ results' \in Seq(ReportedFaces)
      /\ \A k \in DOMAIN results' : k \in DOMAIN r /\ results'[k] = r[k]
  <2>1. CASE results' = r
    BY <1>3, <2>1
  <2>2. CASE results' = SubSeq(r, 1, top)
    <3>1. top \in Nat /\ top <= Len(r)
      BY <1>3, <1>4
    <3> HIDE DEF top
    <3>2. \A k \in 1..top : r[k] \in ReportedFaces
      BY <1>3, <3>1
    <3>3. /\ SubSeq(r, 1, top) \in Seq(ReportedFaces)
          /\ Len(SubSeq(r, 1, top)) = IF 1 <= top THEN top - 1 + 1 ELSE 0
          /\ \A k \in 1..(top - 1 + 1) : SubSeq(r, 1, top)[k] = r[1 + k - 1]
      BY <3>1, <3>2, SubSeqProperties
    <3>4. DOMAIN results' = 1..top
      BY <2>2, <3>1, <3>3
    <3>5. \A k \in 1..top : k \in DOMAIN r /\ results'[k] = r[k]
      BY <1>3, <2>2, <3>1, <3>3
    <3> QED
      BY <2>2, <3>3, <3>4, <3>5
  <2> QED
    BY <1>5, <2>1, <2>2
<1>7. \A i \in DOMAIN results' :
        \E j \in 1..seen' : Accepted(photo.faces[j])' /\ results'[i] = Report(photo.faces[j])'
  <2>1. \A i \in DOMAIN results :
          \E j \in 1..seen : Accepted(photo.faces[j]) /\ results[i] = Report(photo.faces[j])
    BY DEF RecognitionInv
  <2>2. \A i \in DOMAIN results' :
          \E j \in 1..seen : Accepted(photo.faces[j]) /\ results'[i] = Report(photo.faces[j])
    BY <1>3, <1>6, <2>1
  <2>3. \A g : Accepted(g)' = Accepted(g) /\ Report(g)' = Report(g)
    BY <1>1, SamePhoto
  <2> QED
    BY <1>1, <2>2, <2>3
<1>8. crops' = <<>> /\ answer' = {} /\ crops' \in Seq(Squares) /\ Len(crops') = 0
      /\ DOMAIN crops' = {}
  BY <1>1, <1>2
<1>9. Len(crops') <= Len(results')
  BY <1>6, <1>8
<1>10. pc' = "match" => purpose' = "match"
  BY <1>1
<1> QED
  BY <1>1, <1>2, <1>6, <1>7, <1>8, <1>9, <1>10 DEF RecognitionInv

\* The next face gets its crop.
LEMMA CropKeeps == RecognitionInv /\ Crop => RecognitionInv'
<1> SUFFICES ASSUME RecognitionInv, Crop PROVE RecognitionInv'
  OBVIOUS
<1> DEFINE n == Len(crops) + 1
<1>1. /\ UNCHANGED <<photo, purpose, stored, pc, seen, results, answer>>
      /\ pc = "crop" /\ Len(crops) < Len(results)
  BY DEF Crop, input
<1>2. PICK c \in Crops(results[n].box) : crops' = Append(crops, c)
  BY DEF Crop
<1>3. /\ photo \in Photos \cup Selfies /\ results \in Seq(ReportedFaces)
      /\ crops \in Seq(Squares) /\ seen \in 0..Len(photo.faces)
      /\ \A i \in DOMAIN crops : crops[i] \in Crops(results[i].box)
      /\ \A i \in DOMAIN results :
            \E j \in 1..seen : Accepted(photo.faces[j]) /\ results[i] = Report(photo.faces[j])
  BY DEF RecognitionInv
<1>4. n \in DOMAIN results /\ DOMAIN crops = 1..Len(crops) /\ Len(crops) \in Nat
      /\ Len(results) \in Nat
  BY <1>1, <1>3
<1>5. c \in Squares
  <2>1. PICK j \in 1..seen : results[n] = Report(photo.faces[j])
    BY <1>3, <1>4
  <2>2. j \in 1..Len(photo.faces)
    BY <1>3, PhotoType
  <2>3. photo.faces[j] \in RawFaces
    BY <1>3, <2>2, PhotoType
  <2> QED
    BY <1>2, <1>3, <2>1, <2>3, CropFits
<1>6. /\ crops' \in Seq(Squares) /\ Len(crops') = n /\ DOMAIN crops' = 1..n
      /\ crops'[n] = c /\ \A i \in DOMAIN crops : crops'[i] = crops[i]
  <2>1. /\ crops' \in Seq(Squares) /\ Len(crops') = n
        /\ crops'[n] = c /\ \A i \in 1..Len(crops) : crops'[i] = crops[i]
    BY <1>2, <1>3, <1>5, AppendProperties
  <2> QED
    BY <1>4, <2>1, LenProperties
<1>7. \A i \in DOMAIN crops' : crops'[i] \in Crops(results[i].box)
  <2> TAKE i \in DOMAIN crops'
  <2>1. CASE i = n
    BY <1>2, <1>6, <2>1
  <2>2. CASE i \in DOMAIN crops
    BY <1>3, <1>6, <2>2
  <2> QED
    BY <1>4, <1>6, <2>1, <2>2
<1>8. \A i \in DOMAIN crops' : crops'[i] \in Crops(results[i].box)'
  <2> TAKE i \in DOMAIN crops'
  <2>1. \A b : Crops(b)' = Crops(b)
    BY <1>1, SamePhoto
  <2>2. crops'[i] \in Crops(results[i].box)
    BY <1>7
  <2>3. results'[i].box = results[i].box
    BY <1>1
  <2> QED
    BY <2>1, <2>2, <2>3
<1>9. Len(crops') <= Len(results')
  BY <1>1, <1>4, <1>6
<1>10. \A g : Accepted(g)' = Accepted(g) /\ Report(g)' = Report(g)
  BY <1>1, SamePhoto
<1> QED
  BY <1>1, <1>6, <1>8, <1>9, <1>10 DEF RecognitionInv

\* /match answers with what the search found.
LEMMA MatchKeeps == RecognitionInv /\ Match => RecognitionInv'
<1> SUFFICES ASSUME RecognitionInv, Match PROVE RecognitionInv'
  OBVIOUS
<1>1. /\ UNCHANGED <<photo, purpose, stored, seen, results, crops>>
      /\ pc = "match" /\ pc' \in {"matched", "refused"} /\ purpose = "match"
  BY DEF Match, input, RecognitionInv
<1>2. /\ \A v \in answer' : v \in stored /\ Euclidean(results[1].embedding, v)
      /\ answer' # {} => results # <<>>
  <2>1. CASE results = <<>>
    BY <2>1 DEF Match, RecognitionInv
  <2>2. CASE results # <<>>
    BY <2>2 DEF Match, Search
  <2> QED
    BY <2>1, <2>2
<1>3. \A g : Accepted(g)' = Accepted(g) /\ Report(g)' = Report(g)
  BY <1>1, SamePhoto
<1>4. \A b : Crops(b)' = Crops(b)
  BY <1>1, SamePhoto
<1> QED
  BY <1>1, <1>2, <1>3, <1>4 DEF RecognitionInv

LEMMA RecognitionNext == RecognitionInv /\ [RNext]_rvars => RecognitionInv'
<1> SUFFICES ASSUME RecognitionInv, [RNext]_rvars PROVE RecognitionInv'
  OBVIOUS
<1>1. CASE UNCHANGED rvars
  <2>1. UNCHANGED <<photo, purpose, stored, pc, seen, results, crops, answer>>
    BY <1>1 DEF rvars, input
  <2>2. \A g : Accepted(g)' = Accepted(g) /\ Report(g)' = Report(g)
    BY <2>1, SamePhoto
  <2>3. \A b : Crops(b)' = Crops(b)
    BY <2>1, SamePhoto
  <2> QED
    BY <2>1, <2>2, <2>3 DEF RecognitionInv
<1> QED
  BY <1>1, InspectKeeps, RankKeeps, CropKeeps, MatchKeeps DEF RNext

------------------------------------------------------------------------------
(* What follows                                                            *)

LEMMA BoxesFrame == RecognitionInv => BoxFramesFace
<1> SUFFICES ASSUME RecognitionInv, NEW i \in DOMAIN results
             PROVE  \E j \in 1..seen :
                      /\ Accepted(photo.faces[j])
                      /\ results[i].embedding = photo.faces[j].embedding
                      /\ Frames(results[i].box, photo.faces[j].box)
  BY DEF BoxFramesFace
<1>1. PICK j \in 1..seen : Accepted(photo.faces[j]) /\ results[i] = Report(photo.faces[j])
  BY DEF RecognitionInv
<1>2. photo \in Photos \cup Selfies /\ j \in 1..Len(photo.faces)
  BY PhotoType DEF RecognitionInv
<1>3. photo.faces[j] \in RawFaces
  BY <1>2, PhotoType
<1> QED
  BY <1>1, <1>2, <1>3, ReportType

LEMMA CropsShow == RecognitionInv => CropShowsFace
<1> SUFFICES ASSUME RecognitionInv, NEW i \in DOMAIN crops
             PROVE  /\ SquareInImage(crops[i])
                    /\ \E j \in DOMAIN photo.faces :
                         /\ Report(photo.faces[j]) = results[i]
                         /\ photo.exif = {} => Shows(crops[i], photo.faces[j].box)
  BY DEF CropShowsFace
<1>1. /\ photo \in Photos \cup Selfies /\ seen \in 0..Len(photo.faces)
      /\ crops[i] \in Crops(results[i].box)
  BY DEF RecognitionInv
<1>2. i \in DOMAIN results
  BY DEF RecognitionInv
<1>3. PICK j \in 1..seen : results[i] = Report(photo.faces[j])
  BY <1>2 DEF RecognitionInv
<1>4. j \in DOMAIN photo.faces /\ photo.faces[j] \in RawFaces
  BY <1>1, PhotoType
<1> QED
  BY <1>1, <1>3, <1>4, CropFits

LEMMA MatchesHold == ASSUME NotShort PROVE RecognitionInv => MatchesAreCosineMatches
<1> SUFFICES ASSUME RecognitionInv, NEW v \in answer
             PROVE  Cosine(results[1].embedding, v)
  BY DEF MatchesAreCosineMatches
<1> DEFINE u == results[1].embedding
<1>1. v \in Vectors /\ Euclidean(u, v) /\ photo \in Selfies
      /\ results # <<>> /\ results \in Seq(ReportedFaces) /\ seen \in 0..Len(photo.faces)
  BY DEF RecognitionInv
<1>2. 1 \in DOMAIN results
  BY <1>1
<1>3. PICK j \in 1..seen : results[1] = Report(photo.faces[j])
  BY <1>2 DEF RecognitionInv
<1>4. j \in DOMAIN photo.faces /\ photo.faces[j] \in RawFaces
  BY <1>1, PhotoType
<1>5. u = photo.faces[j].embedding
  BY <1>1, <1>3, <1>4, ReportType
<1>6. u \in Int \X Int /\ Dot(u, u) >= Norm * Norm
  BY <1>1, <1>4, <1>5 DEF NotShort, RawFaces
<1>7. v \in Int \X Int /\ Dot(v, v) >= Norm * Norm
  BY <1>1 DEF NotShort
<1> HIDE DEF u
<1> QED
  BY <1>1, <1>6, <1>7, FoundIsMatch DEF u

\* The reported faces are accepted faces of the image, the crops theirs in
\* their order, and the matches are found in the store.
THEOREM RecognitionInvariant == RSpec => []RecognitionInv
  BY RecognitionInit, RecognitionNext, PTL DEF RSpec

\* Whatever DeepFace frames, wherever it sticks out: the box FaceDetector
\* reports frames all of the face that is in the image, within the bounds of
\* FaceResult.
THEOREM BoxesAreRight == RSpec => []BoxFramesFace
  BY RecognitionInvariant, BoxesFrame, PTL

\* Whatever the sizes of image and face and whatever int() loses, a crop has
\* pixels, is in the image and is square up to two pixels; and unless the
\* file's EXIF orientation turns the image, it shows its face.
THEOREM CropsAreRight == RSpec => []CropShowsFace
  BY RecognitionInvariant, CropsShow, PTL

\* If no embedding is shorter than 1, then /match answers only with faces
\* whose cosine similarity reaches match_threshold.
THEOREM MatchesAreRight ==
  ASSUME NotShort PROVE RSpec => []MatchesAreCosineMatches
<1>1. RecognitionInv => MatchesAreCosineMatches
  BY MatchesHold
<1> QED
  BY <1>1, RecognitionInvariant, PTL
===============================================================================
