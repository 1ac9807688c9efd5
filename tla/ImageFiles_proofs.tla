------------------------- MODULE ImageFiles_proofs -------------------------
(***************************************************************************)
(* The image tools of the system tests, for images and frames of any size  *)
(* that the integers of the code can hold.                                 *)
(***************************************************************************)
EXTENDS ImageFiles, LowestNumber, SequenceTheorems, TLAPS

-----------------------------------------------------------------------------
(***************************************************************************)
(* Division.                                                               *)
(***************************************************************************)

LEMMA DivIs ==
    ASSUME NEW d \in Nat \ {0}, NEW q \in Int, NEW r \in 0 .. d - 1
    PROVE  (q * d + r) \div d = q /\ (q * d + r) % d = r
OBVIOUS

LEMMA DivParts ==
    ASSUME NEW n \in Nat, NEW d \in Nat \ {0}
    PROVE  /\ n \div d \in Nat /\ n % d \in 0 .. d - 1
           /\ n = (n \div d) * d + (n % d)
<1> DEFINE q == n \div d
<1>1. q \in Int /\ n % d \in 0 .. d - 1 /\ n = q * d + (n % d)
  OBVIOUS
<1>2. ASSUME q < 0 PROVE FALSE
  <2> HIDE DEF q
  <2>1. q * d <= (-1) * d
    BY <1>1, <1>2
  <2> QED
    BY <1>1, <2>1
<1> QED
  BY <1>1, <1>2

\* A place in rows of w.
LEMMA RowsAre ==
    ASSUME NEW w \in Nat \ {0}, NEW h \in Nat \ {0}, NEW n \in 0 .. w * h - 1
    PROVE  n \div w \in 0 .. h - 1 /\ n % w \in 0 .. w - 1
<1>1. /\ n \div w \in Nat /\ n % w \in 0 .. w - 1
      /\ n = (n \div w) * w + (n % w)
  BY DivParts
<1> DEFINE q == n \div w
<1>2. ASSUME q >= h PROVE FALSE
  <2> HIDE DEF q
  <2>0. q \in Nat
    BY <1>1 DEF q
  <2>1. q * w >= h * w
    BY <1>2, <2>0
  <2> QED
    BY <1>1, <2>1 DEF q
<1> QED
  BY <1>1, <1>2

LEMMA PlaceIs ==
    ASSUME NEW w \in Nat \ {0}, NEW h \in Nat \ {0}, NEW i \in 0 .. h - 1, NEW j \in 0 .. w - 1
    PROVE  /\ i * w + j \in 0 .. w * h - 1
           /\ (i * w + j) \div w = i /\ (i * w + j) % w = j
<1>1. (i * w + j) \div w = i /\ (i * w + j) % w = j
  BY DivIs
<1>2. i * w <= (h - 1) * w /\ i * w >= 0 /\ i * w \in Int
  OBVIOUS
<1>3. (h - 1) * w = w * h - w
  OBVIOUS
<1> QED
  BY <1>1, <1>2, <1>3

-----------------------------------------------------------------------------
(***************************************************************************)
(* Frames: four pixels to a square, and turning them around.               *)
(***************************************************************************)
FrameSize(w, h) == w \in Nat \ {0} /\ h \in Nat \ {0} /\ w % 2 = 0 /\ h % 2 = 0
Square(k, w) == ((k \div w) \div 2) * (w \div 2) + ((k % w) \div 2)
TurnedPixel(k, w, h, flip, mirror) ==
    Turned(k \div w, h, mirror) * w + Turned(k % w, w, flip)

LEMMA EvenParts ==
    ASSUME NEW w \in Nat \ {0}, w % 2 = 0
    PROVE  w \div 2 \in Nat \ {0} /\ w = 2 * (w \div 2)
OBVIOUS

LEMMA FrameParts ==
    ASSUME NEW w, NEW h, FrameSize(w, h)
    PROVE  LET W == w \div 2
               H == h \div 2
           IN  /\ W \in Nat \ {0} /\ H \in Nat \ {0} /\ w = 2 * W /\ h = 2 * H
               /\ w * h \in Nat \ {0} /\ W * H \in Nat \ {0} /\ w * h = 4 * (W * H)
               /\ (w * h) \div 4 = W * H /\ (w * h * 5) \div 4 = 5 * (W * H)
               /\ (w * h * 3) \div 2 = 6 * (W * H)
<1> DEFINE W == w \div 2
           H == h \div 2
<1>1. W \in Nat \ {0} /\ H \in Nat \ {0} /\ w = 2 * W /\ h = 2 * H
  BY EvenParts DEF FrameSize
<1>2. ASSUME NEW a \in Nat \ {0}, NEW b \in Nat \ {0}
      PROVE  a * b \in Nat \ {0} /\ (2 * a) * (2 * b) = 4 * (a * b)
  OBVIOUS
<1>3. W * H \in Nat \ {0} /\ w * h = 4 * (W * H)
  <2> HIDE DEF W, H
  <2> QED
    BY <1>1, <1>2
<1>4. ASSUME NEW D \in Nat \ {0}, NEW n, n = 4 * D
      PROVE  /\ n \in Nat \ {0} /\ n \div 4 = D /\ (n * 5) \div 4 = 5 * D
             /\ (n * 3) \div 2 = 6 * D
  BY <1>4
<1> QED
  BY <1>1, <1>3, <1>4

LEMMA SquareIs ==
    ASSUME NEW w, NEW h, FrameSize(w, h), NEW k \in 0 .. w * h - 1
    PROVE  /\ k \div w \in 0 .. h - 1 /\ k % w \in 0 .. w - 1
           /\ Square(k, w) \in 0 .. (w \div 2) * (h \div 2) - 1
           /\ Square(k, w) \div (w \div 2) = (k \div w) \div 2
           /\ Square(k, w) % (w \div 2) = (k % w) \div 2
           /\ (((k \div w) \div 2) * w) \div 2 + ((k % w) \div 2) = Square(k, w)
<1> DEFINE W == w \div 2
           H == h \div 2
           i == k \div w
           j == k % w
<1>1. W \in Nat \ {0} /\ H \in Nat \ {0} /\ w = 2 * W /\ h = 2 * H
  BY FrameParts
<1>2. i \in 0 .. h - 1 /\ j \in 0 .. w - 1
  BY RowsAre DEF FrameSize
<1> HIDE DEF i, j, W, H
<1>3. i \div 2 \in 0 .. H - 1 /\ j \div 2 \in 0 .. W - 1
  BY <1>1, <1>2
<1>4. ASSUME NEW a \in 0 .. H - 1, NEW b \in 0 .. W - 1
      PROVE  /\ a * W + b \in 0 .. W * H - 1
             /\ (a * W + b) \div W = a /\ (a * W + b) % W = b
  BY PlaceIs, <1>1
<1>5. ((i \div 2) * w) \div 2 = (i \div 2) * W
  <2> DEFINE a == i \div 2
  <2>1. a \in Int
    BY <1>3
  <2>2. a * w = 2 * (a * W) /\ a * W \in Int
    <3> HIDE DEF a
    <3> QED
      BY <2>1, <1>1
  <2>3. ASSUME NEW x \in Int PROVE (2 * x) \div 2 = x
    OBVIOUS
  <2> QED
    BY <2>2, <2>3
<1> QED
  BY <1>2, <1>3, <1>4, <1>5 DEF Square, i, j, W, H

LEMMA TurnedIs ==
    ASSUME NEW s \in Nat \ {0}, NEW i \in 0 .. s - 1, NEW a \in BOOLEAN
    PROVE  /\ Turned(i, s, a) \in 0 .. s - 1
           /\ Turned(i, s, FALSE) = i
           /\ s % 2 = 0 => Turned(i, s, a) \div 2 = Turned(i \div 2, s \div 2, a)
<1>1. Turned(i, s, a) \in 0 .. s - 1 /\ Turned(i, s, FALSE) = i
  BY DEF Turned
<1>2. ASSUME s % 2 = 0
      PROVE  Turned(i, s, a) \div 2 = Turned(i \div 2, s \div 2, a)
  BY <1>2 DEF Turned
<1> QED
  BY <1>1, <1>2

\* Turned twice is not turned.
LEMMA TurnedTwice ==
    ASSUME NEW s \in Nat \ {0}, NEW i \in 0 .. s - 1, NEW a \in BOOLEAN, NEW b \in BOOLEAN,
           NEW c, c = (b /= a)
    PROVE  Turned(Turned(i, s, a), s, b) = Turned(i, s, c)
<1>1. c = (IF a THEN ~b ELSE b)
  OBVIOUS
<1>2. Turned(Turned(i, s, a), s, b) = IF (IF a THEN ~b ELSE b) THEN s - 1 - i ELSE i
  BY DEF Turned
<1> QED
  BY <1>1, <1>2 DEF Turned

LEMMA TurnedPixelIs ==
    ASSUME NEW w, NEW h, FrameSize(w, h), NEW k \in 0 .. w * h - 1,
           NEW flip \in BOOLEAN, NEW mirror \in BOOLEAN
    PROVE  LET t == TurnedPixel(k, w, h, flip, mirror)
           IN  /\ t \in 0 .. w * h - 1
               /\ t \div w = Turned(k \div w, h, mirror)
               /\ t % w = Turned(k % w, w, flip)
               /\ Square(t, w) = Turned((k \div w) \div 2, h \div 2, mirror) * (w \div 2)
                                   + Turned((k % w) \div 2, w \div 2, flip)
<1> DEFINE i == Turned(k \div w, h, mirror)
           j == Turned(k % w, w, flip)
<1>1. k \div w \in 0 .. h - 1 /\ k % w \in 0 .. w - 1
  BY SquareIs
<1>2. /\ i \in 0 .. h - 1 /\ j \in 0 .. w - 1
      /\ i \div 2 = Turned((k \div w) \div 2, h \div 2, mirror)
      /\ j \div 2 = Turned((k % w) \div 2, w \div 2, flip)
  BY <1>1, TurnedIs DEF FrameSize
<1> HIDE DEF i, j
<1>3. i * w + j \in 0 .. w * h - 1 /\ (i * w + j) \div w = i /\ (i * w + j) % w = j
  BY <1>2, PlaceIs DEF FrameSize
<1>4. TurnedPixel(k, w, h, flip, mirror) = i * w + j
  BY DEF TurnedPixel, i, j
<1> QED
  BY <1>2, <1>3, <1>4 DEF Square, i, j

-----------------------------------------------------------------------------
(***************************************************************************)
(* The three converters of a pixel, for every luma and the four chromas.   *)
(***************************************************************************)
Red(y, v) == Clip(y + (1402 * v) \div 1000)
Green(y, u, v) == Clip(y - (344 * u + 714 * v) \div 1000)
Blue(y, u) == Clip(y + (1772 * u) \div 1000)
NearColour(rgb, y, u, v) ==
    /\ Near(rgb[1], Red(y, v - 128)) /\ Near(rgb[2], Green(y, u - 128, v - 128))
    /\ Near(rgb[3], Blue(y, u - 128))
    /\ \A c \in 1 .. 3 : rgb[c] \in 0 .. 255

LEMMA ClipIs ==
    ASSUME NEW v \in Int
    PROVE  Clip(v) \in 0 .. 255
BY DEF Clip

LEMMA ClipNear ==
    ASSUME NEW a \in Int, NEW b \in Int, -8 <= a - b, a - b <= 8
    PROVE  Near(Clip(a), Clip(b))
BY DEF Near, Clip

LEMMA NearColours ==
    ASSUME NEW y \in 0 .. 255, NEW c \in 1 .. 4
    PROVE  /\ NearColour(yuv2rgb(y, Us[c], Vs[c]), y, Us[c], Vs[c])
           /\ NearColour(YCbCr2RGB(y, Us[c], Vs[c]), y, Us[c], Vs[c])
           /\ NearColour(Rgb3Planar(y, Us[c], Vs[c]), y, Us[c], Vs[c])
<1> DEFINE Chromas == {<<1, 2>>, <<90, 129>>, <<128, 253>>, <<254, 127>>}
<1>1. ASSUME NEW r1 \in Int, NEW r2 \in Int, NEW r3 \in Int,
             NEW t1 \in Int, NEW t2 \in Int, NEW t3 \in Int,
             -8 <= r1 - t1, r1 - t1 <= 8, -8 <= r2 - t2, r2 - t2 <= 8,
             -8 <= r3 - t3, r3 - t3 <= 8
      PROVE  LET rgb == <<Clip(r1), Clip(r2), Clip(r3)>>
             IN  /\ Near(rgb[1], Clip(t1)) /\ Near(rgb[2], Clip(t2))
                 /\ Near(rgb[3], Clip(t3))
                 /\ \A k \in 1 .. 3 : rgb[k] \in 0 .. 255
  <2>1. Near(Clip(r1), Clip(t1)) /\ Near(Clip(r2), Clip(t2)) /\ Near(Clip(r3), Clip(t3))
    BY <1>1, ClipNear
  <2>2. Clip(r1) \in 0 .. 255 /\ Clip(r2) \in 0 .. 255 /\ Clip(r3) \in 0 .. 255
    BY ClipIs
  <2>3. \A k \in 1 .. 3 : k = 1 \/ k = 2 \/ k = 3
    OBVIOUS
  <2> QED
    BY <2>1, <2>2, <2>3
<1>2. /\ Us[1] = 1 /\ Us[2] = 90 /\ Us[3] = 128 /\ Us[4] = 254
      /\ Vs[1] = 2 /\ Vs[2] = 129 /\ Vs[3] = 253 /\ Vs[4] = 127
  BY DEF Us, Vs
<1>3. c = 1 \/ c = 2 \/ c = 3 \/ c = 4
  OBVIOUS
<1>4. ASSUME NEW u, NEW v,
             <<u, v>> \in Chromas
      PROVE  NearColour(yuv2rgb(y, u, v), y, u, v)
  <2> DEFINE r1 == y + (v * 359 + 128) \div 256 - 180
             r2 == y - (u * 88 + 128) \div 256 - (v * 183 + 128) \div 256 + 136
             r3 == y + (u * 454 + 128) \div 256 - 227
             t1 == y + (1402 * (v - 128)) \div 1000
             t2 == y - (344 * (u - 128) + 714 * (v - 128)) \div 1000
             t3 == y + (1772 * (u - 128)) \div 1000
  <2>1. /\ r1 \in Int /\ r2 \in Int /\ r3 \in Int /\ t1 \in Int /\ t2 \in Int /\ t3 \in Int
        /\ -8 <= r1 - t1 /\ r1 - t1 <= 8 /\ -8 <= r2 - t2 /\ r2 - t2 <= 8
        /\ -8 <= r3 - t3 /\ r3 - t3 <= 8
    BY <1>4
  <2>2. /\ yuv2rgb(y, u, v) = <<Clip(r1), Clip(r2), Clip(r3)>>
        /\ Red(y, v - 128) = Clip(t1) /\ Green(y, u - 128, v - 128) = Clip(t2)
        /\ Blue(y, u - 128) = Clip(t3)
    BY DEF yuv2rgb, Red, Green, Blue
  <2> HIDE DEF r1, r2, r3, t1, t2, t3
  <2> QED
    BY <1>1, <2>1, <2>2, SMTT(30) DEF NearColour
<1>5. ASSUME NEW u, NEW v,
             <<u, v>> \in Chromas
      PROVE  NearColour(YCbCr2RGB(y, u, v), y, u, v)
  <2> DEFINE r1 == y + (1402 * (v - 128)) \div 1000
             r2 == (100000 * y - 34410 * (u - 128) - 71414 * (v - 128)) \div 100000
             r3 == y + (1772 * (u - 128)) \div 1000
             t1 == y + (1402 * (v - 128)) \div 1000
             t2 == y - (344 * (u - 128) + 714 * (v - 128)) \div 1000
             t3 == y + (1772 * (u - 128)) \div 1000
  <2>1. ASSUME NEW k \in Int
        PROVE  (100000 * y - k) \div 100000 = y + (-k) \div 100000
    OBVIOUS
  <2>2. r1 \in Int /\ r3 \in Int /\ t1 = r1 /\ t3 = r3
    BY <1>5
  <2>3. r2 = y + (- (34410 * (u - 128) + 71414 * (v - 128))) \div 100000
    <3> DEFINE k == 34410 * (u - 128) + 71414 * (v - 128)
    <3>1. k \in Int /\ r2 = (100000 * y - k) \div 100000
      BY <1>5
    <3> HIDE DEF k, r2
    <3>2. r2 = y + (-k) \div 100000
      BY <2>1, <3>1
    <3> QED
      BY <3>2 DEF k
  <2>4. r2 \in Int /\ t2 \in Int /\ -8 <= r2 - t2 /\ r2 - t2 <= 8
    <3> HIDE DEF r2
    <3> QED
      BY <1>5, <2>3
  <2>5. /\ r1 \in Int /\ r2 \in Int /\ r3 \in Int /\ t1 \in Int /\ t2 \in Int /\ t3 \in Int
        /\ -8 <= r1 - t1 /\ r1 - t1 <= 8 /\ -8 <= r2 - t2 /\ r2 - t2 <= 8
        /\ -8 <= r3 - t3 /\ r3 - t3 <= 8
    <3> HIDE DEF r1, r2, r3, t1, t2, t3
    <3> QED
      BY <2>2, <2>4
  <2>6. /\ YCbCr2RGB(y, u, v) = <<Clip(r1), Clip(r2), Clip(r3)>>
        /\ Red(y, v - 128) = Clip(t1) /\ Green(y, u - 128, v - 128) = Clip(t2)
        /\ Blue(y, u - 128) = Clip(t3)
    BY DEF YCbCr2RGB, Red, Green, Blue
  <2> HIDE DEF r1, r2, r3, t1, t2, t3
  <2> QED
    BY <1>1, <2>5, <2>6, SMTT(30) DEF NearColour
<1>6. ASSUME NEW u, NEW v,
             <<u, v>> \in Chromas
      PROVE  NearColour(Rgb3Planar(y, u, v), y, u, v)
  <2> DEFINE r1 == y + (1370705 * (v - 128)) \div 1000000
             r2 == (1000000 * y - 698001 * (v - 128) - 337633 * (u - 128)) \div 1000000
             r3 == y + (1732446 * (u - 128)) \div 1000000
             t1 == y + (1402 * (v - 128)) \div 1000
             t2 == y - (344 * (u - 128) + 714 * (v - 128)) \div 1000
             t3 == y + (1772 * (u - 128)) \div 1000
  <2>1. /\ r1 \in Int /\ r2 \in Int /\ r3 \in Int /\ t1 \in Int /\ t2 \in Int /\ t3 \in Int
        /\ -8 <= r1 - t1 /\ r1 - t1 <= 8 /\ -8 <= r2 - t2 /\ r2 - t2 <= 8
        /\ -8 <= r3 - t3 /\ r3 - t3 <= 8
    BY <1>6
  <2>2. /\ Rgb3Planar(y, u, v) = <<Clip(r1), Clip(r2), Clip(r3)>>
        /\ Red(y, v - 128) = Clip(t1) /\ Green(y, u - 128, v - 128) = Clip(t2)
        /\ Blue(y, u - 128) = Clip(t3)
    BY DEF Rgb3Planar, Red, Green, Blue
  <2> HIDE DEF r1, r2, r3, t1, t2, t3
  <2> QED
    BY <1>1, <2>1, <2>2 DEF NearColour
<1>7. <<Us[c], Vs[c]>> \in Chromas
  BY <1>2, <1>3
<1> QED
  BY <1>4, <1>5, <1>6, <1>7

-----------------------------------------------------------------------------
(***************************************************************************)
(* The frame in memory: the luma and the two chromas of every pixel, where *)
(* its layout has them.                                                    *)
(***************************************************************************)
FrameOf(layout, w, h, flip, mirror, data) ==
    [layout |-> layout, w |-> w, h |-> h, flip |-> flip, mirror |-> mirror, data |-> data]
UAt(k, f) == f.w * f.h + IF f.layout = "planar" THEN Square(k, f.w)
                         ELSE 2 * Square(k, f.w) + 1
VAt(k, f) == f.w * f.h + IF f.layout = "planar" THEN (f.w * f.h) \div 4 + Square(k, f.w)
                         ELSE 2 * Square(k, f.w)
PixelsKept(f) ==
    \A k \in 0 .. f.w * f.h - 1 :
        /\ f.data[k] = Luma(OriginPixel(k, f))
        /\ f.data[UAt(k, f)] = Us[OriginSquare(k, f)]
        /\ f.data[VAt(k, f)] = Vs[OriginSquare(k, f)]
FrameHolds(f) ==
    /\ f = FrameOf(f.layout, f.w, f.h, f.flip, f.mirror, f.data)
    /\ f.layout \in {"none", "nv21", "planar"}
    /\ f.layout /= "none" => /\ <<f.w, f.h>> \in FrameSizes
                             /\ f.flip \in BOOLEAN /\ f.mirror \in BOOLEAN
                             /\ PixelsKept(f)

LEMMA SizesAre ==
    ASSUME NEW w, NEW h, <<w, h>> \in FrameSizes
    PROVE  FrameSize(w, h)
<1> DEFINE s == <<w, h>>
<1>1. s \in Nat \X Nat /\ s[1] % 2 = 0 /\ s[2] % 2 = 0 /\ s[1] > 0 /\ s[2] > 0
  BY ImageFilesAssumption
<1> QED
  BY <1>1 DEF FrameSize

\* Where a pixel of a picture comes from.
LEMMA OriginIs ==
    ASSUME NEW f, FrameSize(f.w, f.h), f.flip \in BOOLEAN, f.mirror \in BOOLEAN,
           NEW k \in 0 .. f.w * f.h - 1
    PROVE  /\ OriginPixel(k, f) = TurnedPixel(k, f.w, f.h, f.flip, f.mirror)
           /\ OriginPixel(k, f) \in 0 .. f.w * f.h - 1
           /\ OriginSquare(k, f) = (Square(OriginPixel(k, f), f.w) % 4) + 1
           /\ OriginSquare(k, f) \in 1 .. 4
           /\ ~f.flip /\ ~f.mirror => OriginPixel(k, f) = k
<1> DEFINE q == OriginPixel(k, f)
<1>1. q = TurnedPixel(k, f.w, f.h, f.flip, f.mirror) /\ q \in 0 .. f.w * f.h - 1
  BY TurnedPixelIs DEF OriginPixel, TurnedPixel
<1>2. OriginSquare(k, f) = (Square(q, f.w) % 4) + 1
  BY DEF OriginSquare, Square
<1>3. Square(q, f.w) \in Nat
  <2> HIDE DEF q
  <2>1. Square(q, f.w) \in 0 .. (f.w \div 2) * (f.h \div 2) - 1
    BY <1>1, SquareIs
  <2> QED
    BY <2>1
<1>4. (Square(q, f.w) % 4) + 1 \in 1 .. 4
  BY <1>3
<1>5. ASSUME ~f.flip, ~f.mirror PROVE q = k
  <2>1. q = (k \div f.w) * f.w + (k % f.w)
    BY <1>5 DEF OriginPixel, Turned
  <2> HIDE DEF q
  <2>2. f.w \in Nat \ {0} /\ k \in Nat
    BY FrameParts DEF FrameSize
  <2> QED
    BY <2>1, <2>2, DivParts
<1> QED
  BY <1>1, <1>2, <1>4, <1>5

\* The luma and the chromas of the frames that are loaded.
LEMMA SourceIs ==
    ASSUME NEW w, NEW h, FrameSize(w, h), NEW a, NEW b
    PROVE  /\ Source(w, h, a, b) = [k \in 0 .. 6 * ((w \div 2) * (h \div 2)) - 1 |->
                                      Source(w, h, a, b)[k]]
           /\ \A k \in 0 .. w * h - 1 : Source(w, h, a, b)[k] = Luma(k)
           /\ \A s \in 0 .. (w \div 2) * (h \div 2) - 1 :
                 /\ Source(w, h, a, b)[w * h + 2 * s] = a[(s % 4) + 1]
                 /\ Source(w, h, a, b)[w * h + 2 * s + 1] = b[(s % 4) + 1]
<1> DEFINE D == (w \div 2) * (h \div 2)
           n == w * h
           val(k) == LET p == k - n
                         cell == ((p \div 2) % 4) + 1
                     IN  IF p < 0 THEN Luma(k) ELSE IF p % 2 = 0 THEN a[cell] ELSE b[cell]
<1>1. D \in Nat \ {0} /\ n = 4 * D /\ (n * 3) \div 2 = 6 * D
  BY FrameParts
<1>2. Source(w, h, a, b) = [k \in 0 .. 6 * D - 1 |-> val(k)]
  BY <1>1 DEF Source
<1> HIDE DEF D, n
<1>3. ASSUME NEW k \in 0 .. n - 1
      PROVE  k \in 0 .. 6 * D - 1 /\ val(k) = Luma(k)
  BY <1>1
<1>4. ASSUME NEW s \in 0 .. D - 1
      PROVE  /\ n + 2 * s \in 0 .. 6 * D - 1 /\ val(n + 2 * s) = a[(s % 4) + 1]
             /\ n + 2 * s + 1 \in 0 .. 6 * D - 1 /\ val(n + 2 * s + 1) = b[(s % 4) + 1]
  <2>1. /\ ~((n + 2 * s) - n < 0) /\ ((n + 2 * s) - n) % 2 = 0 /\ ((n + 2 * s) - n) \div 2 = s
        /\ ~((n + 2 * s + 1) - n < 0) /\ ((n + 2 * s + 1) - n) % 2 /= 0
        /\ ((n + 2 * s + 1) - n) \div 2 = s
    BY <1>1
  <2>2. n + 2 * s \in 0 .. 6 * D - 1 /\ n + 2 * s + 1 \in 0 .. 6 * D - 1
    BY <1>1
  <2> QED
    BY <2>1, <2>2
<1> HIDE DEF val
<1> QED
  BY <1>2, <1>3, <1>4 DEF D, n

-----------------------------------------------------------------------------
(***************************************************************************)
(* The steps that make a frame: loading, the two changes of layout and the *)
(* turning.                                                                *)
(***************************************************************************)
LEMMA LoadedKept ==
    ASSUME NEW w, NEW h, FrameSize(w, h)
    PROVE  /\ PixelsKept(FrameOf("nv21", w, h, FALSE, FALSE,
                                 ReadNV21File(Source(w, h, Vs, Us), w, h)))
           /\ PixelsKept(FrameOf("planar", w, h, FALSE, FALSE,
                                 ReadYUV420File(Source(w, h, Us, Vs), w, h)))
<1> DEFINE D == (w \div 2) * (h \div 2)
           n == w * h
           vu == Source(w, h, Vs, Us)
           uv == Source(w, h, Us, Vs)
           nv21 == ReadNV21File(vu, w, h)
           planar == ReadYUV420File(uv, w, h)
           f == FrameOf("nv21", w, h, FALSE, FALSE, nv21)
           g == FrameOf("planar", w, h, FALSE, FALSE, planar)
<1>1. D \in Nat \ {0} /\ n = 4 * D /\ (n * 3) \div 2 = 6 * D /\ n \div 4 = D
  BY FrameParts
<1>2. /\ \A k \in 0 .. n - 1 : vu[k] = Luma(k) /\ uv[k] = Luma(k)
      /\ \A s \in 0 .. D - 1 :
            /\ vu[n + 2 * s] = Vs[(s % 4) + 1] /\ vu[n + 2 * s + 1] = Us[(s % 4) + 1]
            /\ uv[n + 2 * s] = Us[(s % 4) + 1] /\ uv[n + 2 * s + 1] = Vs[(s % 4) + 1]
  BY SourceIs
<1>3. \A k \in 0 .. n - 1 : Square(k, w) \in 0 .. D - 1
  BY SquareIs
<1>4. nv21 = [k \in 0 .. 6 * D - 1 |-> vu[k]]
  BY <1>1 DEF ReadNV21File
<1>5. planar = [k \in 0 .. 6 * D - 1 |->
                   IF k < n THEN uv[k]
                   ELSE IF k < n + D THEN uv[n + 2 * (k - n)]
                   ELSE uv[n + 2 * (k - n - D) + 1]]
  BY <1>1 DEF ReadYUV420File
<1>6. /\ f.w = w /\ f.h = h /\ ~f.flip /\ ~f.mirror /\ f.layout = "nv21" /\ f.data = nv21
      /\ g.w = w /\ g.h = h /\ ~g.flip /\ ~g.mirror /\ g.layout = "planar"
      /\ g.data = planar
      /\ f.flip \in BOOLEAN /\ f.mirror \in BOOLEAN /\ g.flip \in BOOLEAN
      /\ g.mirror \in BOOLEAN
  BY DEF FrameOf
<1> HIDE DEF vu, uv, nv21, planar, f, g
<1>7. ASSUME NEW k \in 0 .. n - 1
      PROVE  /\ OriginPixel(k, f) = k /\ OriginSquare(k, f) = (Square(k, w) % 4) + 1
             /\ OriginPixel(k, g) = k /\ OriginSquare(k, g) = (Square(k, w) % 4) + 1
  BY <1>6, OriginIs
<1> HIDE DEF D, n
<1>8. ASSUME NEW k \in 0 .. n - 1, NEW s \in 0 .. D - 1
      PROVE  /\ nv21[k] = Luma(k) /\ planar[k] = Luma(k)
             /\ nv21[n + 2 * s] = Vs[(s % 4) + 1] /\ nv21[n + 2 * s + 1] = Us[(s % 4) + 1]
             /\ planar[n + s] = Us[(s % 4) + 1] /\ planar[n + (D + s)] = Vs[(s % 4) + 1]
  <2>1. k \in 0 .. 6 * D - 1 /\ nv21[k] = Luma(k) /\ planar[k] = Luma(k)
    BY <1>1, <1>2, <1>4, <1>5
  <2>2. n + 2 * s \in 0 .. 6 * D - 1 /\ n + 2 * s + 1 \in 0 .. 6 * D - 1
    BY <1>1
  <2>3. nv21[n + 2 * s] = Vs[(s % 4) + 1] /\ nv21[n + 2 * s + 1] = Us[(s % 4) + 1]
    BY <1>2, <1>4, <2>2
  <2>4. n + s \in 0 .. 6 * D - 1 /\ ~(n + s < n) /\ n + s < n + D /\ (n + s) - n = s
    BY <1>1
  <2>5. planar[n + s] = Us[(s % 4) + 1]
    BY <1>2, <1>5, <2>4
  <2>6. /\ n + (D + s) \in 0 .. 6 * D - 1 /\ ~(n + (D + s) < n) /\ ~(n + (D + s) < n + D)
        /\ (n + (D + s)) - n - D = s
    BY <1>1
  <2>7. planar[n + (D + s)] = Vs[(s % 4) + 1]
    BY <1>2, <1>5, <2>6
  <2> QED
    BY <2>1, <2>3, <2>5, <2>7
<1>9. ASSUME NEW k \in 0 .. n - 1
      PROVE  /\ UAt(k, f) = n + 2 * Square(k, w) + 1 /\ VAt(k, f) = n + 2 * Square(k, w)
             /\ UAt(k, g) = n + Square(k, w) /\ VAt(k, g) = n + (D + Square(k, w))
  <2> USE <1>3, <1>1
  <2>1. Square(k, w) \in Int /\ n \in Int
    OBVIOUS
  <2> QED
    BY <1>6, <2>1 DEF UAt, VAt, n
<1>10. PixelsKept(f)
  BY <1>3, <1>6, <1>7, <1>8, <1>9 DEF PixelsKept, n
<1>11. PixelsKept(g)
  BY <1>3, <1>6, <1>7, <1>8, <1>9 DEF PixelsKept, n
<1> QED
  BY <1>10, <1>11 DEF f, g, nv21, planar, vu, uv

\* The places of the chromas of a pixel, in either layout.
LEMMA PlacesAre ==
    ASSUME NEW f, FrameSize(f.w, f.h), NEW k \in 0 .. f.w * f.h - 1
    PROVE  LET D == (f.w \div 2) * (f.h \div 2)
               n == f.w * f.h
           IN  /\ Square(k, f.w) \in 0 .. D - 1
               /\ f.layout = "planar" => /\ UAt(k, f) = n + Square(k, f.w)
                                         /\ VAt(k, f) = n + (D + Square(k, f.w))
               /\ f.layout /= "planar" => /\ UAt(k, f) = n + 2 * Square(k, f.w) + 1
                                          /\ VAt(k, f) = n + 2 * Square(k, f.w)
<1>1. Square(k, f.w) \in 0 .. (f.w \div 2) * (f.h \div 2) - 1
  BY SquareIs
<1>2. /\ f.w * f.h \in Nat /\ (f.w * f.h) \div 4 = (f.w \div 2) * (f.h \div 2)
      /\ (f.w \div 2) * (f.h \div 2) \in Nat
  BY FrameParts
<1>3. Square(k, f.w) \in Int
  BY <1>1
<1> QED
  BY <1>1, <1>2, <1>3 DEF UAt, VAt

LEMMA ConvertedKept ==
    ASSUME NEW f, FrameSize(f.w, f.h), f.flip \in BOOLEAN, f.mirror \in BOOLEAN,
           PixelsKept(f)
    PROVE  /\ f.layout = "nv21" =>
                 PixelsKept(FrameOf("planar", f.w, f.h, f.flip, f.mirror,
                                    yvu420s_yuv420p(f.data, f.w, f.h)))
           /\ f.layout = "planar" =>
                 PixelsKept(FrameOf("nv21", f.w, f.h, f.flip, f.mirror,
                                    yuv420p_yvu420s(f.data, f.w, f.h)))
<1> DEFINE w == f.w
           h == f.h
           W == w \div 2
           D == W * (h \div 2)
           n == w * h
           planar == yvu420s_yuv420p(f.data, w, h)
           nv21 == yuv420p_yvu420s(f.data, w, h)
           g == FrameOf("planar", w, h, f.flip, f.mirror, planar)
           e == FrameOf("nv21", w, h, f.flip, f.mirror, nv21)
<1>1. /\ D \in Nat \ {0} /\ n = 4 * D /\ (n * 3) \div 2 = 6 * D /\ n \div 4 = D
      /\ (n * 5) \div 4 = 5 * D /\ W \in Nat \ {0} /\ w = 2 * W
  BY FrameParts
<1>2. \A k \in 0 .. n - 1 : Square(k, w) \in 0 .. D - 1
  BY SquareIs
<1>3. /\ g.w = w /\ g.h = h /\ g.flip = f.flip /\ g.mirror = f.mirror
      /\ g.layout = "planar" /\ g.data = planar
      /\ e.w = w /\ e.h = h /\ e.flip = f.flip /\ e.mirror = f.mirror
      /\ e.layout = "nv21" /\ e.data = nv21
  BY DEF FrameOf
<1> HIDE DEF g, e
<1>4. ASSUME NEW k \in 0 .. n - 1
      PROVE  /\ OriginPixel(k, g) = OriginPixel(k, f) /\ OriginSquare(k, g) = OriginSquare(k, f)
             /\ OriginPixel(k, e) = OriginPixel(k, f) /\ OriginSquare(k, e) = OriginSquare(k, f)
  BY <1>3 DEF OriginPixel, OriginSquare
<1>5. ASSUME NEW k \in 0 .. n - 1
      PROVE  /\ UAt(k, g) = n + Square(k, w) /\ VAt(k, g) = n + (D + Square(k, w))
             /\ UAt(k, e) = n + 2 * Square(k, w) + 1 /\ VAt(k, e) = n + 2 * Square(k, w)
  BY <1>3, PlacesAre
\* In rows of W squares, the pair of square s is the s-th.
<1>6. ASSUME NEW s \in 0 .. D - 1
      PROVE  /\ n + (s \div W) * w + 2 * (s % W) = n + 2 * s
             /\ (s \div W) * W + (s % W) = s
  <2>1. s \in Nat /\ s \div W \in Nat /\ s % W \in 0 .. W - 1 /\ s = (s \div W) * W + (s % W)
    <3> HIDE DEF W, D
    <3>1. s \in Nat /\ W \in Nat \ {0}
      BY <1>1
    <3> QED
      BY <3>1, DivParts
  <2> DEFINE a == s \div W
             b == s % W
  <2>2. a \in Nat /\ b \in Int /\ s = a * W + b
    BY <2>1
  <2> HIDE DEF a, b, W, n
  <2>3. a * w = 2 * (a * W) /\ a * W \in Int
    BY <1>1, <2>2
  <2>4. n + a * w + 2 * b = n + 2 * s
    BY <1>1, <2>2, <2>3
  <2> QED
    BY <2>2, <2>4 DEF a, b
<1>7. planar = [k \in 0 .. 6 * D - 1 |->
                   IF k < n THEN f.data[k]
                   ELSE IF k < 5 * D
                   THEN f.data[(n + ((k - n) \div W) * w + 2 * ((k - n) % W)) + 1]
                   ELSE f.data[n + ((k - 5 * D) \div W) * w + 2 * ((k - 5 * D) % W)]]
  BY <1>1 DEF yvu420s_yuv420p
<1>8. nv21 = [k \in 0 .. 6 * D - 1 |->
                 IF k < n THEN f.data[k]
                 ELSE IF (k - n) % 2 = 0
                 THEN f.data[n + D + ((((k - n) \div 2) \div W) * W
                                        + (((k - n) \div 2) % W))]
                 ELSE f.data[n + ((((k - n) \div 2) \div W) * W + (((k - n) \div 2) % W))]]
  BY <1>1 DEF yuv420p_yvu420s
<1> HIDE DEF planar, nv21
<1>9. ASSUME NEW k \in 0 .. n - 1
      PROVE  planar[k] = f.data[k] /\ nv21[k] = f.data[k]
  <2>1. k \in 0 .. 6 * D - 1 /\ k < n
    <3> HIDE DEF D, n
    <3> QED
      BY <1>1
  <2> QED
    BY <1>7, <1>8, <2>1
<1>10. ASSUME NEW s \in 0 .. D - 1
       PROVE  planar[n + s] = f.data[n + 2 * s + 1] /\ planar[n + (D + s)] = f.data[n + 2 * s]
  <2> HIDE DEF D, n, W, w
  <2>1. /\ n + s \in 0 .. 6 * D - 1 /\ ~(n + s < n) /\ n + s < 5 * D /\ (n + s) - n = s
        /\ n + (D + s) \in 0 .. 6 * D - 1 /\ ~(n + (D + s) < n) /\ ~(n + (D + s) < 5 * D)
        /\ (n + (D + s)) - 5 * D = s
    BY <1>1
  <2>2. planar[n + s] = f.data[n + 2 * s + 1]
    BY <1>6, <1>7, <2>1
  <2>3. planar[n + (D + s)] = f.data[n + 2 * s]
    BY <1>6, <1>7, <2>1
  <2> QED
    BY <2>2, <2>3
<1>11. ASSUME NEW s \in 0 .. D - 1
       PROVE  /\ nv21[n + 2 * s + 1] = f.data[n + s]
              /\ nv21[n + 2 * s] = f.data[n + (D + s)]
  <2> HIDE DEF D, n, W, w
  <2>1. /\ n + 2 * s \in 0 .. 6 * D - 1 /\ ~(n + 2 * s < n) /\ ((n + 2 * s) - n) % 2 = 0
        /\ ((n + 2 * s) - n) \div 2 = s
        /\ n + 2 * s + 1 \in 0 .. 6 * D - 1 /\ ~(n + 2 * s + 1 < n)
        /\ ((n + 2 * s + 1) - n) % 2 /= 0 /\ ((n + 2 * s + 1) - n) \div 2 = s
        /\ n + D + s = n + (D + s)
    BY <1>1
  <2>2. nv21[n + 2 * s] = f.data[n + (D + s)]
    BY <1>6, <1>8, <2>1
  <2>3. nv21[n + 2 * s + 1] = f.data[n + s]
    BY <1>6, <1>8, <2>1
  <2> QED
    BY <2>2, <2>3
<1>12. ASSUME NEW k \in 0 .. n - 1
       PROVE  /\ f.data[k] = Luma(OriginPixel(k, f))
              /\ f.data[UAt(k, f)] = Us[OriginSquare(k, f)]
              /\ f.data[VAt(k, f)] = Vs[OriginSquare(k, f)]
  BY DEF PixelsKept
<1> HIDE DEF D
<1>13. ASSUME f.layout = "nv21" PROVE PixelsKept(g)
  <2> SUFFICES ASSUME NEW k \in 0 .. n - 1
               PROVE  /\ planar[k] = Luma(OriginPixel(k, f))
                      /\ planar[UAt(k, g)] = Us[OriginSquare(k, f)]
                      /\ planar[VAt(k, g)] = Vs[OriginSquare(k, f)]
    BY <1>3, <1>4 DEF PixelsKept
  <2>1. UAt(k, f) = n + 2 * Square(k, w) + 1 /\ VAt(k, f) = n + 2 * Square(k, w)
    BY <1>13, PlacesAre
  <2> HIDE DEF n, w
  <2> QED
    BY <1>2, <1>5, <1>9, <1>10, <1>12, <2>1
<1>14. ASSUME f.layout = "planar" PROVE PixelsKept(e)
  <2> SUFFICES ASSUME NEW k \in 0 .. n - 1
               PROVE  /\ nv21[k] = Luma(OriginPixel(k, f))
                      /\ nv21[UAt(k, e)] = Us[OriginSquare(k, f)]
                      /\ nv21[VAt(k, e)] = Vs[OriginSquare(k, f)]
    BY <1>3, <1>4 DEF PixelsKept
  <2>1. UAt(k, f) = n + Square(k, w) /\ VAt(k, f) = n + (D + Square(k, w))
    BY <1>14, PlacesAre DEF D
  <2> HIDE DEF n, w
  <2> QED
    BY <1>2, <1>5, <1>9, <1>11, <1>12, <2>1
<1> QED
  BY <1>13, <1>14 DEF g, e, planar, nv21

LEMMA TurnedKept ==
    ASSUME NEW f, FrameSize(f.w, f.h), f.flip \in BOOLEAN, f.mirror \in BOOLEAN,
           f.layout = "planar", PixelsKept(f), NEW flip \in BOOLEAN, NEW mirror \in BOOLEAN
    PROVE  PixelsKept(FrameOf("planar", f.w, f.h, f.flip /= flip, f.mirror /= mirror,
                              ImageYUV420_flip(f.data, f.w, f.h, flip, mirror)))
<1> DEFINE w == f.w
           h == f.h
           W == w \div 2
           H == h \div 2
           D == W * H
           n == w * h
           data == ImageYUV420_flip(f.data, w, h, flip, mirror)
           g == FrameOf("planar", w, h, f.flip /= flip, f.mirror /= mirror, data)
           t(k) == TurnedPixel(k, w, h, flip, mirror)
           chroma(s) == (Turned(s \div W, H, mirror) * w) \div 2 + Turned(s % W, W, flip)
<1>1. /\ D \in Nat \ {0} /\ n = 4 * D /\ (n * 3) \div 2 = 6 * D /\ n \div 4 = D
      /\ W \in Nat \ {0} /\ w = 2 * W
      /\ w \in Nat \ {0} /\ h \in Nat \ {0}
  BY FrameParts DEF FrameSize
<1>2. /\ g.w = w /\ g.h = h /\ g.flip = (f.flip /= flip) /\ g.mirror = (f.mirror /= mirror)
      /\ g.layout = "planar" /\ g.data = data
  BY DEF FrameOf
<1> HIDE DEF g
<1>3. ASSUME NEW k \in 0 .. n - 1
      PROVE  /\ Square(k, w) \in 0 .. D - 1 /\ t(k) \in 0 .. n - 1
             /\ Square(t(k), w) \in 0 .. D - 1
  <2>1. t(k) \in 0 .. n - 1
    BY TurnedPixelIs
  <2> HIDE DEF t
  <2> QED
    BY <2>1, SquareIs
<1>4. ASSUME NEW k \in 0 .. n - 1
      PROVE  /\ OriginPixel(t(k), f) = OriginPixel(k, g)
             /\ OriginSquare(t(k), f) = OriginSquare(k, g)
  <2>1. k \div w \in 0 .. h - 1 /\ k % w \in 0 .. w - 1
    BY SquareIs
  <2>2. t(k) \div w = Turned(k \div w, h, mirror) /\ t(k) % w = Turned(k % w, w, flip)
    BY TurnedPixelIs
  <2>3. /\ Turned(Turned(k \div w, h, mirror), h, f.mirror) = Turned(k \div w, h, g.mirror)
        /\ Turned(Turned(k % w, w, flip), w, f.flip) = Turned(k % w, w, g.flip)
    <3> HIDE DEF w, h
    <3> QED
      BY <1>1, <1>2, <2>1, TurnedTwice
  <2> HIDE DEF t
  <2>4. OriginPixel(t(k), f) = OriginPixel(k, g)
    BY <1>2, <2>2, <2>3 DEF OriginPixel
  <2> QED
    BY <1>2, <2>4 DEF OriginSquare
<1>5. ASSUME NEW k \in 0 .. n - 1
      PROVE  chroma(Square(k, w)) = Square(t(k), w)
  <2>1. Square(k, w) \div W = (k \div w) \div 2 /\ Square(k, w) % W = (k % w) \div 2
    BY SquareIs
  <2>2. Square(t(k), w) = Turned((k \div w) \div 2, H, mirror) * W
                            + Turned((k % w) \div 2, W, flip)
    BY TurnedPixelIs
  <2> DEFINE x == Turned((k \div w) \div 2, H, mirror)
  <2>3. x \in Int
    <3>1. k \div w \in Int /\ H \in Int
      BY SquareIs, FrameParts
    <3> QED
      BY <3>1 DEF Turned
  <2>4. (x * w) \div 2 = x * W
    <3> HIDE DEF x, w, W
    <3>1. x * w = 2 * (x * W) /\ x * W \in Int
      BY <1>1, <2>3
    <3>2. ASSUME NEW y \in Int PROVE (2 * y) \div 2 = y
      OBVIOUS
    <3> QED
      BY <3>1, <3>2
  <2> HIDE DEF t
  <2> QED
    BY <2>1, <2>2, <2>4
<1>6. data = [k \in 0 .. 6 * D - 1 |->
                 IF k < n THEN f.data[t(k)]
                 ELSE IF k < n + D THEN f.data[n + chroma(k - n)]
                 ELSE f.data[n + D + chroma(k - n - D)]]
  BY <1>1 DEF ImageYUV420_flip, TurnedPixel
<1> HIDE DEF data, chroma, t
<1>7. ASSUME NEW k \in 0 .. n - 1 PROVE data[k] = f.data[t(k)]
  <2>1. k \in 0 .. 6 * D - 1 /\ k < n
    <3> HIDE DEF D, n
    <3> QED
      BY <1>1
  <2> QED
    BY <1>6, <2>1
<1>8. ASSUME NEW k \in 0 .. n - 1
      PROVE  /\ data[n + Square(k, w)] = f.data[n + Square(t(k), w)]
             /\ data[n + (D + Square(k, w))] = f.data[n + (D + Square(t(k), w))]
  <2> DEFINE s == Square(k, w)
             q == Square(t(k), w)
  <2>1. s \in 0 .. D - 1 /\ q \in 0 .. D - 1 /\ chroma(s) = q
    BY <1>3, <1>5
  <2> HIDE DEF s, q, D, n
  <2>2. /\ n + s \in 0 .. 6 * D - 1 /\ ~(n + s < n) /\ n + s < n + D /\ (n + s) - n = s
        /\ n + (D + s) \in 0 .. 6 * D - 1 /\ ~(n + (D + s) < n) /\ ~(n + (D + s) < n + D)
        /\ (n + (D + s)) - n - D = s /\ n + D + q = n + (D + q)
    BY <1>1, <2>1
  <2>3. data[n + s] = f.data[n + q] /\ data[n + (D + s)] = f.data[n + (D + q)]
    BY <1>6, <2>1, <2>2
  <2> QED
    BY <2>3 DEF s, q
<1>9. ASSUME NEW k \in 0 .. n - 1
      PROVE  /\ f.data[k] = Luma(OriginPixel(k, f))
             /\ f.data[n + Square(k, w)] = Us[OriginSquare(k, f)]
             /\ f.data[n + (D + Square(k, w))] = Vs[OriginSquare(k, f)]
  BY PlacesAre DEF PixelsKept
<1>10. ASSUME NEW k \in 0 .. n - 1
       PROVE  UAt(k, g) = n + Square(k, w) /\ VAt(k, g) = n + (D + Square(k, w))
  BY <1>2, PlacesAre
<1> SUFFICES ASSUME NEW k \in 0 .. n - 1
             PROVE  /\ data[k] = Luma(OriginPixel(k, g))
                    /\ data[UAt(k, g)] = Us[OriginSquare(k, g)]
                    /\ data[VAt(k, g)] = Vs[OriginSquare(k, g)]
  BY <1>2 DEF PixelsKept, g, data
<1> HIDE DEF D, n, w
<1> QED
  BY <1>3, <1>4, <1>7, <1>8, <1>9, <1>10

-----------------------------------------------------------------------------
(***************************************************************************)
(* What the converters show of a frame.                                    *)
(***************************************************************************)
Picture(by, w, h, flip, mirror, pixels) ==
    [by |-> by, w |-> w, h |-> h, flip |-> flip, mirror |-> mirror, pixels |-> pixels]
ColoursShown(p) ==
    \A k \in 0 .. p.w * p.h - 1 :
        LET rgb == p.pixels[k]
            c == OriginSquare(k, p)
        IN  NearColour(IF p.by = "ImageYUV420ToRGB3Planar" THEN <<rgb[3], rgb[2], rgb[1]>>
                       ELSE rgb, Luma(OriginPixel(k, p)), Us[c], Vs[c])
PictureHolds(p) ==
    /\ p = Picture(p.by, p.w, p.h, p.flip, p.mirror, p.pixels)
    /\ p.by /= "" => ColoursShown(p)

LEMMA LumaIs ==
    ASSUME NEW k \in Nat
    PROVE  Luma(k) \in 0 .. 255
BY DEF Luma

\* The converters of planar frames.
LEMMA PlanarShown ==
    ASSUME NEW f, FrameSize(f.w, f.h), f.flip \in BOOLEAN, f.mirror \in BOOLEAN,
           f.layout = "planar", PixelsKept(f)
    PROVE  /\ ColoursShown(Picture("save_as_bmp", f.w, f.h, f.flip, f.mirror,
                                   upsampled(f.data, f.w, f.h)))
           /\ ColoursShown(Picture("ImageYUV420ToRGB3Planar", f.w, f.h, f.flip, f.mirror,
                                   ImageYUV420ToRGB3Planar(f.data, f.w, f.h)))
           /\ \A k \in 0 .. f.w * f.h - 1, c \in 1 .. 3 :
                 upsampled(f.data, f.w, f.h)[k][c] \in 0 .. 255
<1> DEFINE w == f.w
           h == f.h
           D == (w \div 2) * (h \div 2)
           n == w * h
           rgb == upsampled(f.data, w, h)
           bgr == ImageYUV420ToRGB3Planar(f.data, w, h)
           p == Picture("save_as_bmp", w, h, f.flip, f.mirror, rgb)
           q == Picture("ImageYUV420ToRGB3Planar", w, h, f.flip, f.mirror, bgr)
           y(k) == Luma(OriginPixel(k, f))
           u(k) == Us[OriginSquare(k, f)]
           v(k) == Vs[OriginSquare(k, f)]
<1>1. D \in Nat \ {0} /\ n = 4 * D /\ n \div 4 = D /\ (n * 5) \div 4 = 5 * D
  BY FrameParts
<1>2. /\ p.w = w /\ p.h = h /\ p.flip = f.flip /\ p.mirror = f.mirror
      /\ p.by = "save_as_bmp" /\ p.pixels = rgb
      /\ q.w = w /\ q.h = h /\ q.flip = f.flip /\ q.mirror = f.mirror
      /\ q.by = "ImageYUV420ToRGB3Planar" /\ q.pixels = bgr
  BY DEF Picture
<1> HIDE DEF p, q
<1>3. ASSUME NEW k \in 0 .. n - 1
      PROVE  /\ OriginPixel(k, p) = OriginPixel(k, f) /\ OriginSquare(k, p) = OriginSquare(k, f)
             /\ OriginPixel(k, q) = OriginPixel(k, f) /\ OriginSquare(k, q) = OriginSquare(k, f)
  BY <1>2 DEF OriginPixel, OriginSquare
<1>4. ASSUME NEW k \in 0 .. n - 1
      PROVE  /\ f.data[k] = y(k) /\ f.data[n + Square(k, w)] = u(k)
             /\ f.data[n + (D + Square(k, w))] = v(k) /\ Square(k, w) \in 0 .. D - 1
  BY PlacesAre DEF PixelsKept
<1>5. ASSUME NEW k \in 0 .. n - 1
      PROVE  rgb[k] = yuv2rgb(y(k), u(k), v(k))
  <2> DEFINE s == Square(k, w)
  <2>1. rgb[k] = yuv2rgb(f.data[k], f.data[s + n], f.data[s + 5 * D])
    <3>1. (((k \div w) \div 2) * w) \div 2 + ((k % w) \div 2) = s
      BY SquareIs
    <3> HIDE DEF s
    <3> QED
      BY <1>1, <3>1 DEF upsampled
  <2>2. s \in 0 .. D - 1
    BY <1>4
  <2>3. s + n = n + s /\ s + 5 * D = n + (D + s)
    <3> HIDE DEF s, n, D
    <3> QED
      BY <1>1, <2>2
  <2> QED
    BY <1>4, <2>1, <2>3
<1>6. ASSUME NEW k \in 0 .. n - 1
      PROVE  LET c == Rgb3Planar(y(k), u(k), v(k))
             IN  bgr[k] = <<c[3], c[2], c[1]>>
  <2> DEFINE s == Square(k, w)
             c == Rgb3Planar(f.data[k], f.data[n + s], f.data[n + D + s])
  <2>1. bgr[k] = <<c[3], c[2], c[1]>>
    BY <1>1 DEF ImageYUV420ToRGB3Planar, Square
  <2>2. s \in 0 .. D - 1
    BY <1>4
  <2>3. n + D + s = n + (D + s)
    <3> HIDE DEF s, n, D
    <3> QED
      BY <1>1, <2>2
  <2>4. c = Rgb3Planar(y(k), u(k), v(k))
    BY <1>4, <2>3
  <2> HIDE DEF c
  <2> QED
    BY <2>1, <2>4
<1>7. ASSUME NEW k \in 0 .. n - 1
      PROVE  y(k) \in 0 .. 255 /\ OriginSquare(k, f) \in 1 .. 4
  <2>1. OriginPixel(k, f) \in 0 .. n - 1 /\ OriginSquare(k, f) \in 1 .. 4
    BY OriginIs
  <2>2. OriginPixel(k, f) \in Nat
    BY <2>1, <1>1
  <2> QED
    BY <2>1, <2>2, LumaIs
<1>8. ASSUME NEW k \in 0 .. n - 1
      PROVE  /\ NearColour(rgb[k], y(k), u(k), v(k))
             /\ NearColour(<<bgr[k][3], bgr[k][2], bgr[k][1]>>, y(k), u(k), v(k))
  <2> DEFINE c == Rgb3Planar(y(k), u(k), v(k))
  <2>1. NearColour(yuv2rgb(y(k), u(k), v(k)), y(k), u(k), v(k)) /\ NearColour(c, y(k), u(k), v(k))
    BY <1>7, NearColours
  <2>2. c = <<c[1], c[2], c[3]>>
    BY DEF Rgb3Planar
  <2>3. bgr[k] = <<c[3], c[2], c[1]>>
    BY <1>6
  <2> HIDE DEF c, y, u, v, rgb, bgr
  <2>4. <<bgr[k][3], bgr[k][2], bgr[k][1]>> = c
    BY <2>2, <2>3
  <2> QED
    BY <1>5, <2>1, <2>4
<1>9. ColoursShown(p)
  BY <1>2, <1>3, <1>8 DEF ColoursShown
<1>10. ColoursShown(q)
  BY <1>2, <1>3, <1>8 DEF ColoursShown
<1>11. ASSUME NEW k \in 0 .. n - 1, NEW c \in 1 .. 3
       PROVE  rgb[k][c] \in 0 .. 255
  BY <1>8 DEF NearColour
<1> QED
  BY <1>9, <1>10, <1>11 DEF p, q

\* The reader of a file of pairs.
LEMMA ReadoutShown ==
    ASSUME NEW w, NEW h, FrameSize(w, h), NEW flip \in BOOLEAN, NEW mirror \in BOOLEAN
    PROVE  ColoursShown(Picture("ReadoutYUV420", w, h, flip, mirror,
                            ReadoutYUV420(Source(w, h, Us, Vs), w, h, flip, mirror)))
<1> DEFINE D == (w \div 2) * (h \div 2)
           n == w * h
           uv == Source(w, h, Us, Vs)
           rgb == ReadoutYUV420(uv, w, h, flip, mirror)
           p == Picture("ReadoutYUV420", w, h, flip, mirror, rgb)
           t(k) == TurnedPixel(k, w, h, flip, mirror)
           c(k) == OriginSquare(k, p)
<1>1. /\ D \in Nat \ {0} /\ n = 4 * D
      /\ p.w = w /\ p.h = h /\ p.flip = flip /\ p.mirror = mirror
      /\ p.by = "ReadoutYUV420" /\ p.pixels = rgb
  BY FrameParts DEF Picture
<1> HIDE DEF p
<1>2. ASSUME NEW k \in 0 .. n - 1
      PROVE  /\ OriginPixel(k, p) = t(k) /\ t(k) \in 0 .. n - 1
             /\ c(k) = (Square(t(k), w) % 4) + 1 /\ c(k) \in 1 .. 4
             /\ Square(t(k), w) \in 0 .. D - 1
  <2>1. OriginPixel(k, p) = t(k) /\ t(k) \in 0 .. n - 1 /\ c(k) \in 1 .. 4
    BY <1>1, OriginIs, TurnedPixelIs
  <2> HIDE DEF t
  <2>2. c(k) = (Square(t(k), w) % 4) + 1
    BY <1>1, <2>1 DEF OriginSquare, Square
  <2>3. Square(t(k), w) \in 0 .. D - 1
    BY <2>1, SquareIs
  <2> QED
    BY <2>1, <2>2, <2>3
<1>3. ASSUME NEW k \in 0 .. n - 1
      PROVE  LET s == Square(t(k), w)
             IN  rgb[k] = YCbCr2RGB(uv[t(k)], uv[n + 2 * s], uv[n + 2 * s + 1])
  <2> DEFINE ii == Turned(k \div w, h, mirror)
             jj == Turned(k % w, w, flip)
             s == Square(t(k), w)
             at == ((ii \div 2) * (w \div 2) + jj \div 2) * 2
  <2>1. ii * w + jj = t(k) /\ t(k) \div w = ii /\ t(k) % w = jj
    BY TurnedPixelIs DEF TurnedPixel
  <2>2. s \in 0 .. D - 1
    BY <1>2
  <2>3. at = s * 2
    <3> HIDE DEF t, ii, jj
    <3> QED
      BY <2>1 DEF Square
  <2>4. rgb[k] = YCbCr2RGB(uv[ii * w + jj], uv[n + at], uv[n + at + 1])
    BY DEF ReadoutYUV420
  <2>5. at = 2 * s
    <3> HIDE DEF s, at, D
    <3> QED
      BY <1>1, <2>2, <2>3
  <2> HIDE DEF t, ii, jj, s, at, uv
  <2> QED
    BY <2>1, <2>4, <2>5 DEF s
<1>4. ASSUME NEW k \in 0 .. n - 1
      PROVE  rgb[k] = YCbCr2RGB(Luma(t(k)), Us[c(k)], Vs[c(k)])
  <2>1. /\ uv[t(k)] = Luma(t(k))
        /\ uv[n + 2 * Square(t(k), w)] = Us[(Square(t(k), w) % 4) + 1]
        /\ uv[n + 2 * Square(t(k), w) + 1] = Vs[(Square(t(k), w) % 4) + 1]
    <3> HIDE DEF t, uv
    <3> QED
      BY <1>2, SourceIs DEF uv
  <2> HIDE DEF t, uv, rgb, c
  <2> QED
    BY <1>2, <1>3, <2>1
<1>5. ASSUME NEW k \in 0 .. n - 1
      PROVE  NearColour(rgb[k], Luma(t(k)), Us[c(k)], Vs[c(k)])
  <2> HIDE DEF t, c
  <2>1. t(k) \in Nat
    BY <1>1, <1>2
  <2>2. Luma(t(k)) \in 0 .. 255 /\ c(k) \in 1 .. 4
    BY <1>2, <2>1, LumaIs
  <2> QED
    BY <1>4, <2>2, NearColours
<1>6. ColoursShown(p)
  BY <1>1, <1>2, <1>5 DEF ColoursShown
<1> QED
  BY <1>6 DEF p

-----------------------------------------------------------------------------
(***************************************************************************)
(* The invariant of the YUV tools.                                         *)
(***************************************************************************)
FramesInv == FrameHolds(frame) /\ PictureHolds(shown)

\* The frame a step makes: another of the same size, or one just loaded.
LEMMA FrameMade ==
    ASSUME NEW layout \in {"nv21", "planar"}, NEW w, NEW h, <<w, h>> \in FrameSizes,
           NEW flip \in BOOLEAN, NEW mirror \in BOOLEAN, NEW data,
           PixelsKept(FrameOf(layout, w, h, flip, mirror, data))
    PROVE  FrameHolds(FrameOf(layout, w, h, flip, mirror, data))
BY DEF FrameHolds, FrameOf

LEMMA PictureMade ==
    ASSUME NEW by, NEW w, NEW h, NEW flip, NEW mirror, NEW pixels,
           ColoursShown(Picture(by, w, h, flip, mirror, pixels))
    PROVE  PictureHolds(Picture(by, w, h, flip, mirror, pixels))
BY DEF PictureHolds, Picture

LEMMA NoShowHolds == PictureHolds(NoShow)
BY DEF PictureHolds, Picture, NoShow

LEMMA FramesInit == ImageInit => FramesInv
<1> SUFFICES ASSUME ImageInit
             PROVE  FramesInv
  OBVIOUS
<1>1. frame = FrameOf("none", 0, 0, FALSE, FALSE, << >>) /\ shown = NoShow
  BY DEF ImageInit, FrameOf
<1>2. frame.layout = "none"
  BY <1>1 DEF FrameOf
<1>3. frame = FrameOf(frame.layout, frame.w, frame.h, frame.flip, frame.mirror, frame.data)
  BY <1>1 DEF FrameOf
<1> QED
  BY <1>1, <1>2, <1>3, NoShowHolds DEF FramesInv, FrameHolds

\* save_as_bmp makes of either layout a planar frame.
PlanarData(f) == IF f.layout = "planar" THEN f.data ELSE yvu420s_yuv420p(f.data, f.w, f.h)

LEMMA PlanarDataKept ==
    ASSUME NEW f, FrameHolds(f), f.layout /= "none"
    PROVE  /\ FrameSize(f.w, f.h) /\ f.flip \in BOOLEAN /\ f.mirror \in BOOLEAN
           /\ PixelsKept(FrameOf("planar", f.w, f.h, f.flip, f.mirror, PlanarData(f)))
<1>1. /\ FrameSize(f.w, f.h) /\ f.flip \in BOOLEAN /\ f.mirror \in BOOLEAN /\ PixelsKept(f)
      /\ f = FrameOf(f.layout, f.w, f.h, f.flip, f.mirror, f.data)
      /\ f.layout \in {"nv21", "planar"}
  BY SizesAre DEF FrameHolds
<1>2. CASE f.layout = "planar"
  <2>1. PlanarData(f) = f.data
    BY <1>2 DEF PlanarData
  <2>2. f = FrameOf("planar", f.w, f.h, f.flip, f.mirror, f.data)
    BY <1>1, <1>2
  <2> QED
    BY <1>1, <2>1, <2>2
<1>3. CASE f.layout = "nv21"
  <2>1. PlanarData(f) = yvu420s_yuv420p(f.data, f.w, f.h)
    BY <1>3 DEF PlanarData
  <2> QED
    BY <1>1, <1>3, <2>1, ConvertedKept
<1> QED
  BY <1>1, <1>2, <1>3

LEMMA PicturesShown ==
    ASSUME NEW f, FrameHolds(f), f.layout /= "none"
    PROVE  LET rgb == upsampled(PlanarData(f), f.w, f.h)
           IN  /\ ColoursShown(Picture("save_as_bmp", f.w, f.h, f.flip, f.mirror, rgb))
               /\ f.layout = "planar" =>
                     ColoursShown(Picture("ImageYUV420ToRGB3Planar", f.w, f.h, f.flip,
                                      f.mirror, ImageYUV420ToRGB3Planar(f.data, f.w, f.h)))
               /\ \A k \in 0 .. f.w * f.h - 1, c \in 1 .. 3 : rgb[k][c] \in 0 .. 255
<1> DEFINE g == FrameOf("planar", f.w, f.h, f.flip, f.mirror, PlanarData(f))
<1>1. /\ FrameSize(g.w, g.h) /\ g.flip \in BOOLEAN /\ g.mirror \in BOOLEAN /\ PixelsKept(g)
      /\ g.layout = "planar" /\ g.data = PlanarData(f) /\ g.w = f.w /\ g.h = f.h
      /\ g.flip = f.flip /\ g.mirror = f.mirror
  BY PlanarDataKept DEF FrameOf
<1>2. f.layout = "planar" => PlanarData(f) = f.data
  BY DEF PlanarData
<1> HIDE DEF g
<1>3. /\ ColoursShown(Picture("save_as_bmp", g.w, g.h, g.flip, g.mirror,
                              upsampled(g.data, g.w, g.h)))
      /\ ColoursShown(Picture("ImageYUV420ToRGB3Planar", g.w, g.h, g.flip, g.mirror,
                              ImageYUV420ToRGB3Planar(g.data, g.w, g.h)))
      /\ \A k \in 0 .. g.w * g.h - 1, c \in 1 .. 3 :
            upsampled(g.data, g.w, g.h)[k][c] \in 0 .. 255
  BY <1>1, PlanarShown
<1> QED
  BY <1>1, <1>2, <1>3

LEMMA FramesNext == FramesInv /\ [ImageNext]_imageVars => FramesInv'
<1> SUFFICES ASSUME FramesInv, [ImageNext]_imageVars
             PROVE  FramesInv'
  OBVIOUS
<1>1. FrameHolds(frame) /\ PictureHolds(shown)
  BY DEF FramesInv
<1>2. ASSUME FileNext
      PROVE  FramesInv'
  BY <1>1, <1>2 DEF FileNext, FramesInv
<1>3. ASSUME NEW s \in FrameSizes, Load(s[1], s[2])
      PROVE  FramesInv'
  <2> DEFINE w == s[1]
             h == s[2]
  <2>1. <<w, h>> \in FrameSizes /\ FrameSize(w, h)
    <3>1. s = <<s[1], s[2]>>
      BY ImageFilesAssumption
    <3> HIDE DEF w, h
    <3> QED
      BY <3>1, SizesAre DEF w, h
  <2> HIDE DEF w, h
  <2>2. \/ frame' = FrameOf("nv21", w, h, FALSE, FALSE,
                            ReadNV21File(Source(w, h, Vs, Us), w, h))
        \/ frame' = FrameOf("planar", w, h, FALSE, FALSE,
                            ReadYUV420File(Source(w, h, Us, Vs), w, h))
    BY <1>3 DEF Load, Loaded, FrameOf, w, h
  <2>3. FrameHolds(frame')
    BY <2>1, <2>2, LoadedKept, FrameMade
  <2> QED
    BY <1>3, <2>3, NoShowHolds DEF Load, FramesInv
<1>4. ASSUME NEW s \in FrameSizes, Readout(s[1], s[2])
      PROVE  FramesInv'
  <2> DEFINE w == s[1]
             h == s[2]
  <2>1. FrameSize(w, h)
    BY ImageFilesAssumption DEF FrameSize
  <2> HIDE DEF w, h
  <2>2. PICK flip \in BOOLEAN, mirror \in BOOLEAN :
           shown' = Picture("ReadoutYUV420", w, h, flip, mirror,
                            ReadoutYUV420(Source(w, h, Us, Vs), w, h, flip, mirror))
    BY <1>4 DEF Readout, Shows, Picture, w, h
  <2>3. PictureHolds(shown')
    BY <2>1, <2>2, ReadoutShown, PictureMade
  <2> QED
    BY <1>1, <1>4, <2>3 DEF Readout, FramesInv
<1>5. ASSUME Convert
      PROVE  FramesInv'
  <2>1. frame.layout \in {"nv21", "planar"}
    BY <1>5 DEF Convert
  <2>2. /\ frame = FrameOf(frame.layout, frame.w, frame.h, frame.flip, frame.mirror,
                           frame.data)
        /\ <<frame.w, frame.h>> \in FrameSizes /\ FrameSize(frame.w, frame.h)
        /\ frame.flip \in BOOLEAN /\ frame.mirror \in BOOLEAN /\ PixelsKept(frame)
    BY <1>1, <2>1, SizesAre DEF FrameHolds
  <2>3. ASSUME frame.layout = "nv21",
               frame' = [frame EXCEPT !.layout = "planar",
                                      !.data = yvu420s_yuv420p(@, frame.w, frame.h)]
        PROVE  FrameHolds(frame')
    <3>1. frame' = FrameOf("planar", frame.w, frame.h, frame.flip, frame.mirror,
                           yvu420s_yuv420p(frame.data, frame.w, frame.h))
      BY <2>2, <2>3 DEF FrameOf
    <3> QED
      BY <2>2, <2>3, <3>1, ConvertedKept, FrameMade
  <2>4. ASSUME frame.layout = "planar",
               frame' = [frame EXCEPT !.layout = "nv21",
                                      !.data = yuv420p_yvu420s(@, frame.w, frame.h)]
        PROVE  FrameHolds(frame')
    <3>1. frame' = FrameOf("nv21", frame.w, frame.h, frame.flip, frame.mirror,
                           yuv420p_yvu420s(frame.data, frame.w, frame.h))
      BY <2>2, <2>4 DEF FrameOf
    <3> QED
      BY <2>2, <2>4, <3>1, ConvertedKept, FrameMade
  <2>5. ASSUME frame.layout = "planar", NEW flip \in BOOLEAN, NEW mirror \in BOOLEAN,
               frame' = [frame EXCEPT
                            !.flip = (@ /= flip), !.mirror = (@ /= mirror),
                            !.data = ImageYUV420_flip(@, frame.w, frame.h, flip, mirror)]
        PROVE  FrameHolds(frame')
    <3> DEFINE data == ImageYUV420_flip(frame.data, frame.w, frame.h, flip, mirror)
               a == frame.flip /= flip
               b == frame.mirror /= mirror
    <3>1. a \in BOOLEAN /\ b \in BOOLEAN
      OBVIOUS
    <3>2. frame' = FrameOf("planar", frame.w, frame.h, a, b, data)
      BY <2>2, <2>5 DEF FrameOf
    <3>3. PixelsKept(FrameOf("planar", frame.w, frame.h, a, b, data))
      BY <2>2, <2>5, TurnedKept
    <3> HIDE DEF a, b, data
    <3> QED
      BY <2>2, <3>1, <3>2, <3>3, FrameMade
  <2>6. FrameHolds(frame') /\ shown' = NoShow
    BY <1>5, <2>3, <2>4, <2>5 DEF Convert
  <2> QED
    BY <2>6, NoShowHolds DEF FramesInv
<1>6. ASSUME SaveAsBmp
      PROVE  FramesInv'
  <2>1. /\ frame.layout /= "none" /\ frame' = frame
        /\ shown' = Picture("save_as_bmp", frame.w, frame.h, frame.flip, frame.mirror,
                            upsampled(PlanarData(frame), frame.w, frame.h))
    BY <1>6 DEF SaveAsBmp, Shows, Picture, PlanarData
  <2>2. PictureHolds(shown')
    BY <1>1, <2>1, PicturesShown, PictureMade
  <2> QED
    BY <1>1, <2>1, <2>2 DEF FramesInv
<1>7. ASSUME ToPlanes
      PROVE  FramesInv'
  <2>1. /\ frame.layout = "planar" /\ frame' = frame
        /\ shown' = Picture("ImageYUV420ToRGB3Planar", frame.w, frame.h, frame.flip,
                            frame.mirror,
                            ImageYUV420ToRGB3Planar(frame.data, frame.w, frame.h))
    BY <1>7 DEF ToPlanes, Shows, Picture
  <2>2. PictureHolds(shown')
    BY <1>1, <2>1, PicturesShown, PictureMade
  <2> QED
    BY <1>1, <2>1, <2>2 DEF FramesInv
<1>8. CASE UNCHANGED imageVars
  BY <1>1, <1>8 DEF imageVars, FramesInv
<1> QED
  BY <1>2, <1>3, <1>4, <1>5, <1>6, <1>7, <1>8 DEF ImageNext, FrameNext

\* The invariant says what the run checks of it.
LEMMA FramesKept == FramesInv => ConversionsKeepPixels
<1> SUFFICES ASSUME FramesInv
             PROVE  ConversionsKeepPixels
  OBVIOUS
<1>1. FrameHolds(frame) /\ PictureHolds(shown)
  BY DEF FramesInv
<1>2. ASSUME frame.layout /= "none", NEW k \in 0 .. frame.w * frame.h - 1
      PROVE  /\ frame.data[k] = Luma(OriginPixel(k, frame))
             /\ frame.data[UAt(k, frame)] = Us[OriginSquare(k, frame)]
             /\ frame.data[VAt(k, frame)] = Vs[OriginSquare(k, frame)]
             /\ IF frame.layout = "planar"
                THEN /\ UAt(k, frame) = frame.w * frame.h + Square(k, frame.w)
                     /\ VAt(k, frame) = frame.w * frame.h + (frame.w * frame.h) \div 4
                                          + Square(k, frame.w)
                ELSE /\ UAt(k, frame) = frame.w * frame.h + 2 * Square(k, frame.w) + 1
                     /\ VAt(k, frame) = frame.w * frame.h + 2 * Square(k, frame.w)
  <2>1. FrameSize(frame.w, frame.h) /\ PixelsKept(frame)
    BY <1>1, <1>2, SizesAre DEF FrameHolds
  <2>2. Square(k, frame.w) \in 0 .. (frame.w \div 2) * (frame.h \div 2) - 1
    BY <1>2, <2>1, SquareIs
  <2> DEFINE n == frame.w * frame.h
             D == (frame.w \div 2) * (frame.h \div 2)
             s == Square(k, frame.w)
  <2>3. n \in Nat /\ n \div 4 = D /\ D \in Nat
    BY <2>1, FrameParts
  <2>4. /\ s \in Int /\ n + (D + s) = n + D + s /\ n + (2 * s + 1) = n + 2 * s + 1
    <3> HIDE DEF n, D, s
    <3> QED
      BY <2>2, <2>3 DEF D, s
  <2>5. /\ UAt(k, frame) = n + (IF frame.layout = "planar" THEN s ELSE 2 * s + 1)
        /\ VAt(k, frame) = n + (IF frame.layout = "planar" THEN n \div 4 + s ELSE 2 * s)
    BY DEF UAt, VAt
  <2>6. IF frame.layout = "planar"
        THEN UAt(k, frame) = n + s /\ VAt(k, frame) = n + n \div 4 + s
        ELSE UAt(k, frame) = n + 2 * s + 1 /\ VAt(k, frame) = n + 2 * s
    <3> HIDE DEF n, D, s
    <3> QED
      BY <2>3, <2>4, <2>5
  <2> QED
    BY <1>2, <2>1, <2>6 DEF PixelsKept
<1>3. ASSUME shown.by /= "", NEW k \in 0 .. shown.w * shown.h - 1
      PROVE  LET y == Luma(OriginPixel(k, shown))
                 u == Us[OriginSquare(k, shown)] - 128
                 v == Vs[OriginSquare(k, shown)] - 128
                 reversed == shown.by = "ImageYUV420ToRGB3Planar"
             IN  /\ Near(shown.pixels[k][IF reversed THEN 3 ELSE 1], Red(y, v))
                 /\ Near(shown.pixels[k][2], Green(y, u, v))
                 /\ Near(shown.pixels[k][IF reversed THEN 1 ELSE 3], Blue(y, u))
  <2>1. ColoursShown(shown)
    BY <1>1, <1>3 DEF PictureHolds
  <2> DEFINE rgb == shown.pixels[k]
             x == IF shown.by = "ImageYUV420ToRGB3Planar" THEN <<rgb[3], rgb[2], rgb[1]>>
                  ELSE rgb
             c == OriginSquare(k, shown)
             y == Luma(OriginPixel(k, shown))
  <2>2. NearColour(x, y, Us[c], Vs[c])
    BY <1>3, <2>1 DEF ColoursShown
  <2>3. /\ x[1] = rgb[IF shown.by = "ImageYUV420ToRGB3Planar" THEN 3 ELSE 1]
        /\ x[2] = rgb[2]
        /\ x[3] = rgb[IF shown.by = "ImageYUV420ToRGB3Planar" THEN 1 ELSE 3]
    OBVIOUS
  <2> HIDE DEF rgb, x, c, y
  <2> QED
    BY <2>2, <2>3 DEF NearColour, rgb, c, y
<1>4. /\ frame.layout /= "none" =>
           \A k \in 0 .. frame.w * frame.h - 1 :
              LET n == frame.w * frame.h
                  s == Square(k, frame.w)
                  u == IF frame.layout = "planar" THEN n + s ELSE n + 2 * s + 1
                  v == IF frame.layout = "planar" THEN n + n \div 4 + s ELSE n + 2 * s
              IN  /\ frame.data[k] = Luma(OriginPixel(k, frame))
                  /\ frame.data[u] = Us[OriginSquare(k, frame)]
                  /\ frame.data[v] = Vs[OriginSquare(k, frame)]
  BY <1>2
<1> QED
  BY <1>3, <1>4 DEF ConversionsKeepPixels, Square, Red, Green, Blue

(***************************************************************************)
(* The frame always holds the pixels of its source, turned around as its   *)
(* flags say, where its layout has them (yvu420s_yuv420p, yuv420p_yvu420s, *)
(* ImageYUV420_flip, ReadYUV420File); and a picture shows their colours.   *)
(***************************************************************************)
THEOREM FramesInvariant == ImageSpec => []FramesInv
BY FramesInit, FramesNext, PTL DEF ImageSpec

(***************************************************************************)
(* However often a frame is turned around and its layout changed, at any   *)
(* even width and height, every pixel keeps its luma and its chromas, and  *)
(* the converters of ImageFormat_Conversion.cpp show its colour.           *)
(***************************************************************************)
THEOREM ConversionsKeepPixelsCorrect == ImageSpec => []ConversionsKeepPixels
BY FramesInvariant, FramesKept, PTL

-----------------------------------------------------------------------------
(***************************************************************************)
(* Rows of a file and bytes of an image.                                   *)
(***************************************************************************)
LEMMA Stride ==
    ASSUME NEW w \in Nat \ {0}
    PROVE  /\ WIDTH_BYTES(24 * w) \in Nat \ {0}
           /\ padding(w) + 3 * w = WIDTH_BYTES(24 * w)
           /\ 3 * w <= WIDTH_BYTES(24 * w)
<1>1. PICK a \in Nat, r \in 0 .. 3 : w = 4 * a + r
  <2>1. w \div 4 \in Nat /\ w % 4 \in 0 .. 3 /\ w = 4 * (w \div 4) + (w % 4)
    OBVIOUS
  <2> QED
    BY <2>1
<1>2. WIDTH_BYTES(24 * w) = ((96 * a + 24 * r + 31) \div 32) * 4
  BY <1>1 DEF WIDTH_BYTES
<1>3. (3 * w) % 4 = (3 * r) % 4
  BY <1>1
<1> QED
  BY <1>1, <1>2, <1>3 DEF padding

\* Byte k of an image: its row, its pixel, its colour.
LEMMA ByteIs ==
    ASSUME NEW w \in Nat \ {0}, NEW h \in Nat \ {0}, NEW k \in 0 .. 3 * w * h - 1
    PROVE  /\ k \div (3 * w) \in 0 .. h - 1 /\ (k % (3 * w)) \div 3 \in 0 .. w - 1
           /\ k % 3 \in 0 .. 2 /\ k \div 3 \in 0 .. w * h - 1
           /\ k = 3 * ((k \div (3 * w)) * w + (k % (3 * w)) \div 3) + (k % 3)
<1> DEFINE v == 3 * w
           i == k \div v
           r == k % v
<1>1. v \in Nat \ {0} /\ v = 3 * w /\ v * h = 3 * w * h /\ 3 * w * h = 3 * (w * h)
      /\ w * h \in Nat
  OBVIOUS
<1> HIDE DEF v
<1>2. i \in 0 .. h - 1 /\ r \in 0 .. v - 1 /\ k = i * v + r
  <2>1. k \in 0 .. v * h - 1 /\ k \in Nat
    BY <1>1
  <2> QED
    BY <1>1, <2>1, RowsAre, DivParts
<1> HIDE DEF i, r
<1>3. r \div 3 \in 0 .. w - 1 /\ r = 3 * (r \div 3) + (r % 3) /\ r % 3 \in 0 .. 2
  BY <1>1, <1>2
<1>4. i * v = 3 * (i * w) /\ i * w \in Int
  BY <1>1, <1>2
<1>5. k % 3 = r % 3
  <2> DEFINE a == i * w
  <2>1. a \in Int /\ k = 3 * a + r
    BY <1>2, <1>4
  <2> HIDE DEF a
  <2> QED
    BY <1>1, <1>2, <2>1
<1>6. k \div 3 \in 0 .. w * h - 1
  <2> DEFINE n == w * h
  <2>1. n \in Nat /\ k \in 0 .. 3 * n - 1
    BY <1>1
  <2> HIDE DEF n
  <2>2. k \div 3 \in 0 .. n - 1
    BY <2>1
  <2> QED
    BY <2>2 DEF n
<1>7. k = 3 * (i * w + r \div 3) + (r % 3)
  BY <1>2, <1>3, <1>4
<1> QED
  BY <1>2, <1>3, <1>5, <1>6, <1>7 DEF i, r, v

\* The byte of colour c of pixel j of row i, and its parts.
LEMMA ByteAt ==
    ASSUME NEW w \in Nat \ {0}, NEW h \in Nat \ {0}, NEW i \in 0 .. h - 1, NEW j \in 0 .. w - 1,
           NEW c \in 0 .. 2
    PROVE  LET k == 3 * (i * w + j) + c
           IN  /\ k \in 0 .. 3 * w * h - 1
               /\ k = 3 * w * i + (3 * j + c)
               /\ k \div (3 * w) = i /\ k % (3 * w) = 3 * j + c
               /\ (3 * j + c) \div 3 = j /\ (3 * j + c) % 3 = c /\ 3 * j + c \in 0 .. 3 * w - 1
               /\ k % 3 = c /\ k \div 3 = i * w + j
<1> DEFINE v == 3 * w
           m == i * w
           k == 3 * (m + j) + c
           n == w * h
<1>1. /\ v \in Nat \ {0} /\ v = 3 * w /\ 3 * w * h = 3 * n /\ i * v = 3 * m /\ m \in Nat
      /\ 3 * w * i = i * v
  OBVIOUS
<1>2. m + j \in 0 .. n - 1
  BY PlaceIs
<1> HIDE DEF v, m, n
<1>3. n \in Nat
  BY DEF n
<1>4. /\ k = i * v + (3 * j + c) /\ 3 * j + c \in 0 .. v - 1
      /\ (3 * j + c) \div 3 = j /\ (3 * j + c) % 3 = c
      /\ k % 3 = c /\ k \div 3 = m + j
  BY <1>1, <1>2, <1>3
<1>5. k \div v = i /\ k % v = 3 * j + c
  <2> HIDE DEF k
  <2>1. 3 * j + c \in 0 .. v - 1 /\ i \in Int /\ k = i * v + (3 * j + c)
    BY <1>4
  <2> QED
    BY <1>1, <2>1, DivIs
<1>6. k \in 0 .. 3 * n - 1
  BY <1>2, <1>3
<1> QED
  BY <1>1, <1>4, <1>5, <1>6 DEF v, m, n

\* A byte of the file after its header: its row and its column.
LEMMA FilePlaceIs ==
    ASSUME NEW w \in Nat \ {0}, NEW h \in Nat \ {0}, NEW i \in 0 .. h - 1, NEW j \in 0 .. w - 1,
           NEW c \in 0 .. 2, NEW s \in Nat \ {0}, 3 * w <= s,
           NEW x, x = i * s + 3 * j + c, NEW n, n = s * h
    PROVE  x \in 0 .. n - 1 /\ x \div s = i /\ x % s = 3 * j + c /\ 3 * j + c < 3 * w
<1>1. 3 * j + c \in 0 .. s - 1 /\ 3 * j + c < 3 * w
  OBVIOUS
<1> DEFINE r == 3 * j + c
<1>2. r \in 0 .. s - 1
  BY <1>1
<1>3. i * s + r = x
  OBVIOUS
<1> HIDE DEF r
<1>4. i * s + r \in 0 .. s * h - 1 /\ (i * s + r) \div s = i /\ (i * s + r) % s = r
  BY <1>2, PlaceIs
<1> QED
  BY <1>1, <1>3, <1>4 DEF r

-----------------------------------------------------------------------------
(***************************************************************************)
(* Words and headers.                                                      *)
(***************************************************************************)
LEMMA FunctionIsASeq ==
    ASSUME NEW n \in Nat, NEW f \in [1 .. n -> Int]
    PROVE  f \in Seq(Int) /\ Len(f) = n
OBVIOUS

LEMMA Joined ==
    ASSUME NEW s \in Seq(Int), NEW t \in Seq(Int)
    PROVE  /\ s \o t \in Seq(Int) /\ Len(s \o t) = Len(s) + Len(t)
           /\ \A i \in 1 .. Len(s) : (s \o t)[i] = s[i]
           /\ \A i \in 1 .. Len(t) : (s \o t)[Len(s) + i] = t[i]
<1>1. /\ s \o t \in Seq(Int) /\ Len(s \o t) = Len(s) + Len(t)
      /\ \A i \in 1 .. Len(s) + Len(t) : (s \o t)[i] = IF i <= Len(s) THEN s[i]
                                                       ELSE t[i - Len(s)]
  BY ConcatProperties
<1>2. Len(s) \in Nat /\ Len(t) \in Nat
  OBVIOUS
<1>3. ASSUME NEW i \in 1 .. Len(t)
      PROVE  /\ Len(s) + i \in 1 .. Len(s) + Len(t) /\ ~(Len(s) + i <= Len(s))
             /\ (Len(s) + i) - Len(s) = i
  BY <1>2
<1>4. ASSUME NEW i \in 1 .. Len(s)
      PROVE  i \in 1 .. Len(s) + Len(t) /\ i <= Len(s)
  BY <1>2
<1> QED
  BY <1>1, <1>3, <1>4

LEMMA ShortIs ==
    ASSUME NEW v \in Int
    PROVE  /\ write_u_short_int(v) \in Seq(Int) /\ Len(write_u_short_int(v)) = 2
           /\ write_u_short_int(v)[1] = v % 256 /\ write_u_short_int(v)[2] = v \div 256
BY DEF write_u_short_int

LEMMA LongIs ==
    ASSUME NEW v \in Int
    PROVE  /\ write_u_long_int(v) \in Seq(Int) /\ Len(write_u_long_int(v)) = 4
           /\ write_u_long_int(v)[1] = (v % 65536) % 256
           /\ write_u_long_int(v)[2] = (v % 65536) \div 256
           /\ write_u_long_int(v)[3] = ((v \div 65536) % 65536) % 256
           /\ write_u_long_int(v)[4] = ((v \div 65536) % 65536) \div 256
<1> DEFINE a == v % 65536
           b == (v \div 65536) % 65536
           x == write_u_short_int(a)
           y == write_u_short_int(b)
           s == write_u_long_int(v)
<1>1. s = x \o y
  BY DEF write_u_long_int
<1>2. a \in Int /\ b \in Int
  OBVIOUS
<1> HIDE DEF a, b, s
<1>3. /\ x \in Seq(Int) /\ Len(x) = 2 /\ x[1] = a % 256 /\ x[2] = a \div 256
      /\ y \in Seq(Int) /\ Len(y) = 2 /\ y[1] = b % 256 /\ y[2] = b \div 256
  BY <1>2, ShortIs, ZenonT(60)
<1> HIDE DEF x, y
<1>4. /\ x \o y \in Seq(Int) /\ Len(x \o y) = Len(x) + Len(y)
      /\ \A i \in 1 .. Len(x) : (x \o y)[i] = x[i]
      /\ \A i \in 1 .. Len(y) : (x \o y)[Len(x) + i] = y[i]
  BY <1>3, Joined, ZenonT(60)
<1>5. /\ s \in Seq(Int) /\ Len(s) = 4 /\ s[1] = x[1] /\ s[2] = x[2]
      /\ s[2 + 1] = y[1] /\ s[2 + 2] = y[2]
  BY <1>1, <1>3, <1>4
<1>6. /\ s \in Seq(Int) /\ Len(s) = 4
      /\ s[1] = a % 256 /\ s[2] = a \div 256 /\ s[3] = b % 256 /\ s[4] = b \div 256
  BY <1>3, <1>5
<1> QED
  BY <1>6 DEF a, b, s

\* A file that goes on where another stops, and the words it has at a place.
Starts(s, t) == \A i \in 1 .. Len(s) : t[i] = s[i]
HasLong(f, at, v) == \A i \in 1 .. 4 : f[at + i] = write_u_long_int(v)[i]
HasShort(f, at, v) == \A i \in 1 .. 2 : f[at + i] = write_u_short_int(v)[i]
Bytes(n) == {s \in Seq(Int) : Len(s) = n}

LEMMA AppendedLong ==
    ASSUME NEW k \in Nat, NEW s \in Bytes(k), NEW v \in Int,
           NEW t, t = s \o write_u_long_int(v)
    PROVE  t \in Bytes(k + 4) /\ Starts(s, t) /\ HasLong(t, k, v)
<1> DEFINE y == write_u_long_int(v)
<1>1. y \in Seq(Int) /\ Len(y) = 4 /\ s \in Seq(Int) /\ Len(s) = k
  BY LongIs DEF Bytes
<1>2. t = s \o y
  OBVIOUS
<1> HIDE DEF y
<1>3. /\ s \o y \in Seq(Int) /\ Len(s \o y) = Len(s) + Len(y)
      /\ \A i \in 1 .. Len(s) : (s \o y)[i] = s[i]
      /\ \A i \in 1 .. Len(y) : (s \o y)[Len(s) + i] = y[i]
  BY <1>1, Joined
<1> QED
  BY <1>1, <1>2, <1>3 DEF Bytes, Starts, HasLong, y

LEMMA AppendedShort ==
    ASSUME NEW k \in Nat, NEW s \in Bytes(k), NEW v \in Int,
           NEW t, t = s \o write_u_short_int(v)
    PROVE  t \in Bytes(k + 2) /\ Starts(s, t) /\ HasShort(t, k, v)
<1> DEFINE y == write_u_short_int(v)
<1>1. y \in Seq(Int) /\ Len(y) = 2 /\ s \in Seq(Int) /\ Len(s) = k
  BY ShortIs DEF Bytes
<1>2. t = s \o y
  OBVIOUS
<1> HIDE DEF y
<1>3. /\ s \o y \in Seq(Int) /\ Len(s \o y) = Len(s) + Len(y)
      /\ \A i \in 1 .. Len(s) : (s \o y)[i] = s[i]
      /\ \A i \in 1 .. Len(y) : (s \o y)[Len(s) + i] = y[i]
  BY <1>1, Joined
<1> QED
  BY <1>1, <1>2, <1>3 DEF Bytes, Starts, HasShort, y

LEMMA StartsOn ==
    ASSUME NEW k \in Nat, NEW m \in Nat, k <= m, NEW s \in Bytes(k), NEW t \in Bytes(m),
           NEW u, Starts(s, t), Starts(t, u)
    PROVE  Starts(s, u)
BY DEF Starts, Bytes

LEMMA WordsKept ==
    ASSUME NEW k \in Nat, NEW s \in Bytes(k), NEW t, Starts(s, t), NEW at \in Nat, NEW v
    PROVE  /\ at + 4 <= k /\ HasLong(s, at, v) => HasLong(t, at, v)
           /\ at + 2 <= k /\ HasShort(s, at, v) => HasShort(t, at, v)
<1>1. ASSUME NEW i \in Nat \ {0}, at + i <= k
      PROVE  t[at + i] = s[at + i]
  BY <1>1 DEF Starts, Bytes
<1>2. ASSUME at + 4 <= k, NEW i \in 1 .. 4
      PROVE  i \in Nat \ {0} /\ at + i <= k
  BY <1>2
<1>3. ASSUME at + 2 <= k, NEW i \in 1 .. 2
      PROVE  i \in Nat \ {0} /\ at + i <= k
  BY <1>3
<1> QED
  BY <1>1, <1>2, <1>3 DEF HasLong, HasShort

LEMMA ReadBack ==
    ASSUME NEW v \in Nat, v < 65536 * 65536
    PROVE  (((v % 65536) % 256) + 256 * ((v % 65536) \div 256))
             + 65536 * ((((v \div 65536) % 65536) % 256)
                          + 256 * (((v \div 65536) % 65536) \div 256)) = v
<1>1. ASSUME NEW z \in Nat PROVE (z % 256) + 256 * (z \div 256) = z
  OBVIOUS
<1>2. /\ v % 65536 \in Nat /\ (v \div 65536) % 65536 \in Nat
      /\ v = (v % 65536) + 65536 * ((v \div 65536) % 65536)
  OBVIOUS
<1> QED
  BY <1>1, <1>2

\* What either writer puts first, and what the readers look at of it.
FileHeader(f, w, h) ==
    /\ f[1] = 66 /\ f[2] = 77
    /\ HasLong(f, 10, 54) /\ HasLong(f, 18, w) /\ HasLong(f, 22, h) /\ HasShort(f, 28, 24)

LEMMA HeaderIs ==
    ASSUME NEW n \in Int, NEW w \in Int, NEW h \in Int, NEW m \in Int, NEW r \in Int
    PROVE  /\ Header(n, w, h, m, r) \in Bytes(54)
           /\ FileHeader(Header(n, w, h, m, r), w, h)
<1> DEFINE zero == 0
           offset == 54
           info == 40
           planes == 1
           bits == 24
<1>0. zero \in Int /\ offset \in Int /\ info \in Int /\ planes \in Int /\ bits \in Int
  OBVIOUS
<1> DEFINE s1 == <<66, 77>>
           s2 == s1 \o write_u_long_int(n)
           s3 == s2 \o write_u_long_int(zero)
           s4 == s3 \o write_u_long_int(offset)
           s5 == s4 \o write_u_long_int(info)
           s6 == s5 \o write_u_long_int(w)
           s7 == s6 \o write_u_long_int(h)
           s8 == s7 \o write_u_short_int(planes)
           s9 == s8 \o write_u_short_int(bits)
           s10 == s9 \o write_u_long_int(zero)
           s11 == s10 \o write_u_long_int(m)
           s12 == s11 \o write_u_long_int(r)
           s13 == s12 \o write_u_long_int(r)
           s14 == s13 \o write_u_long_int(zero)
           s15 == s14 \o write_u_long_int(zero)
<1>1. Header(n, w, h, m, r) = s15
  BY DEF Header
<1> HIDE DEF zero, offset, info, planes, bits
<1>2. s1 \in Bytes(2) /\ s1[1] = 66 /\ s1[2] = 77
  BY DEF Bytes
<1> HIDE DEF s1
<1>3. s2 \in Bytes(6) /\ Starts(s1, s2)
  <2> DEFINE t == s2
  <2>1. t = s1 \o write_u_long_int(n)
    OBVIOUS
  <2> HIDE DEF t
  <2>2. t \in Bytes(2 + 4) /\ Starts(s1, t)
    BY <1>0, <1>2, <2>1, AppendedLong, ZenonT(60)
  <2> QED
    BY <2>2 DEF t
<1> HIDE DEF s2
<1>4. s3 \in Bytes(10) /\ Starts(s2, s3)
  <2> DEFINE t == s3
  <2>1. t = s2 \o write_u_long_int(zero)
    OBVIOUS
  <2> HIDE DEF t
  <2>2. t \in Bytes(6 + 4) /\ Starts(s2, t)
    BY <1>0, <1>3, <2>1, AppendedLong, ZenonT(60)
  <2> QED
    BY <2>2 DEF t
<1> HIDE DEF s3
<1>5. s4 \in Bytes(14) /\ Starts(s3, s4) /\ HasLong(s4, 10, offset)
  <2> DEFINE t == s4
  <2>1. t = s3 \o write_u_long_int(offset)
    OBVIOUS
  <2> HIDE DEF t
  <2>2. t \in Bytes(10 + 4) /\ Starts(s3, t) /\ HasLong(t, 10, offset)
    BY <1>0, <1>4, <2>1, AppendedLong, ZenonT(60)
  <2> QED
    BY <2>2 DEF t
<1> HIDE DEF s4
<1>6. s5 \in Bytes(18) /\ Starts(s4, s5)
  <2> DEFINE t == s5
  <2>1. t = s4 \o write_u_long_int(info)
    OBVIOUS
  <2> HIDE DEF t
  <2>2. t \in Bytes(14 + 4) /\ Starts(s4, t)
    BY <1>0, <1>5, <2>1, AppendedLong, ZenonT(60)
  <2> QED
    BY <2>2 DEF t
<1> HIDE DEF s5
<1>7. s6 \in Bytes(22) /\ Starts(s5, s6) /\ HasLong(s6, 18, w)
  <2> DEFINE t == s6
  <2>1. t = s5 \o write_u_long_int(w)
    OBVIOUS
  <2> HIDE DEF t
  <2>2. t \in Bytes(18 + 4) /\ Starts(s5, t) /\ HasLong(t, 18, w)
    BY <1>0, <1>6, <2>1, AppendedLong, ZenonT(60)
  <2> QED
    BY <2>2 DEF t
<1> HIDE DEF s6
<1>8. s7 \in Bytes(26) /\ Starts(s6, s7) /\ HasLong(s7, 22, h)
  <2> DEFINE t == s7
  <2>1. t = s6 \o write_u_long_int(h)
    OBVIOUS
  <2> HIDE DEF t
  <2>2. t \in Bytes(22 + 4) /\ Starts(s6, t) /\ HasLong(t, 22, h)
    BY <1>0, <1>7, <2>1, AppendedLong, ZenonT(60)
  <2> QED
    BY <2>2 DEF t
<1> HIDE DEF s7
<1>9. s8 \in Bytes(28) /\ Starts(s7, s8)
  <2> DEFINE t == s8
  <2>1. t = s7 \o write_u_short_int(planes)
    OBVIOUS
  <2> HIDE DEF t
  <2>2. t \in Bytes(26 + 2) /\ Starts(s7, t)
    BY <1>0, <1>8, <2>1, AppendedShort, ZenonT(60)
  <2> QED
    BY <2>2 DEF t
<1> HIDE DEF s8
<1>10. s9 \in Bytes(30) /\ Starts(s8, s9) /\ HasShort(s9, 28, bits)
  <2> DEFINE t == s9
  <2>1. t = s8 \o write_u_short_int(bits)
    OBVIOUS
  <2> HIDE DEF t
  <2>2. t \in Bytes(28 + 2) /\ Starts(s8, t) /\ HasShort(t, 28, bits)
    BY <1>0, <1>9, <2>1, AppendedShort, ZenonT(60)
  <2> QED
    BY <2>2 DEF t
<1> HIDE DEF s9
<1>11. s10 \in Bytes(34) /\ Starts(s9, s10)
  <2> DEFINE t == s10
  <2>1. t = s9 \o write_u_long_int(zero)
    OBVIOUS
  <2> HIDE DEF t
  <2>2. t \in Bytes(30 + 4) /\ Starts(s9, t)
    BY <1>0, <1>10, <2>1, AppendedLong, ZenonT(60)
  <2> QED
    BY <2>2 DEF t
<1> HIDE DEF s10
<1>12. s11 \in Bytes(38) /\ Starts(s10, s11)
  <2> DEFINE t == s11
  <2>1. t = s10 \o write_u_long_int(m)
    OBVIOUS
  <2> HIDE DEF t
  <2>2. t \in Bytes(34 + 4) /\ Starts(s10, t)
    BY <1>0, <1>11, <2>1, AppendedLong, ZenonT(60)
  <2> QED
    BY <2>2 DEF t
<1> HIDE DEF s11
<1>13. s12 \in Bytes(42) /\ Starts(s11, s12)
  <2> DEFINE t == s12
  <2>1. t = s11 \o write_u_long_int(r)
    OBVIOUS
  <2> HIDE DEF t
  <2>2. t \in Bytes(38 + 4) /\ Starts(s11, t)
    BY <1>0, <1>12, <2>1, AppendedLong, ZenonT(60)
  <2> QED
    BY <2>2 DEF t
<1> HIDE DEF s12
<1>14. s13 \in Bytes(46) /\ Starts(s12, s13)
  <2> DEFINE t == s13
  <2>1. t = s12 \o write_u_long_int(r)
    OBVIOUS
  <2> HIDE DEF t
  <2>2. t \in Bytes(42 + 4) /\ Starts(s12, t)
    BY <1>0, <1>13, <2>1, AppendedLong, ZenonT(60)
  <2> QED
    BY <2>2 DEF t
<1> HIDE DEF s13
<1>15. s14 \in Bytes(50) /\ Starts(s13, s14)
  <2> DEFINE t == s14
  <2>1. t = s13 \o write_u_long_int(zero)
    OBVIOUS
  <2> HIDE DEF t
  <2>2. t \in Bytes(46 + 4) /\ Starts(s13, t)
    BY <1>0, <1>14, <2>1, AppendedLong, ZenonT(60)
  <2> QED
    BY <2>2 DEF t
<1> HIDE DEF s14
<1>16. s15 \in Bytes(54) /\ Starts(s14, s15)
  <2> DEFINE t == s15
  <2>1. t = s14 \o write_u_long_int(zero)
    OBVIOUS
  <2> HIDE DEF t
  <2>2. t \in Bytes(50 + 4) /\ Starts(s14, t)
    BY <1>0, <1>15, <2>1, AppendedLong, ZenonT(60)
  <2> QED
    BY <2>2 DEF t
<1> HIDE DEF s15
<1>17. Starts(s13, s15) /\ Starts(s12, s15) /\ Starts(s11, s15)
  BY <1>12, <1>13, <1>14, <1>15, <1>16, StartsOn
<1>18. Starts(s10, s15) /\ Starts(s9, s15) /\ Starts(s8, s15)
  BY <1>9, <1>10, <1>11, <1>12, <1>17, StartsOn
<1>19. Starts(s7, s15) /\ Starts(s6, s15) /\ Starts(s5, s15)
  BY <1>6, <1>7, <1>8, <1>9, <1>18, StartsOn
<1>20. Starts(s4, s15) /\ Starts(s3, s15) /\ Starts(s2, s15) /\ Starts(s1, s15)
  BY <1>2, <1>3, <1>4, <1>5, <1>6, <1>19, StartsOn
<1>21. s15[1] = 66 /\ s15[2] = 77
  BY <1>2, <1>20 DEF Starts, Bytes
<1>22. HasLong(s15, 10, offset)
  BY <1>5, <1>20, WordsKept
<1>23. HasLong(s15, 18, w) /\ HasLong(s15, 22, h)
  BY <1>7, <1>8, <1>19, WordsKept
<1>24. HasShort(s15, 28, bits)
  BY <1>10, <1>18, WordsKept
<1>25. FileHeader(s15, w, h)
  BY <1>21, <1>22, <1>23, <1>24 DEF FileHeader, offset, bits
<1> QED
  BY <1>1, <1>16, <1>25

-----------------------------------------------------------------------------
(***************************************************************************)
(* The files of the two writers: a header, then the rows from the bottom.  *)
(***************************************************************************)
Colour == 0 .. 255
ImageSize(w, h) == w \in Nat \ {0} /\ h \in Nat \ {0}
\* The sizes the integers of the code can hold: OpenBMPFile counts the bytes of a
\* row in 16 bits, and bmp_io.cpp those of a file and of an array in an int.
Fits(w, h) ==
    /\ WIDTH_BYTES(24 * w) < 65536
    /\ 54 + WIDTH_BYTES(24 * w) * h <= 2147483647
    /\ 4 * w * h <= 2147483647
SizesFit ==
    /\ \A w \in Widths, h \in Heights : Fits(w, h)
    /\ \A s \in FrameSizes : Fits(s[1], s[2])

RowStart(i, w) == i * WIDTH_BYTES(24 * w)
\* Byte c of pixel j of row i from the bottom, in an image from the top.
FromTop(i, j, c, w, h) == 3 * ((h - 1 - i) * w + j) + (2 - c)
FileSize(w, h) == 54 + WIDTH_BYTES(24 * w) * h
FileOf(f, w, h, rgb) ==
    /\ f \in Bytes(FileSize(w, h)) /\ FileHeader(f, w, h)
    /\ \A i \in 0 .. h - 1, j \in 0 .. w - 1, c \in 0 .. 2 :
          f[54 + (RowStart(i, w) + 3 * j + c) + 1] = rgb[FromTop(i, j, c, w, h)]

\* The rows of a file, from its bytes by row and column; and what they are of rgb.
RowsOf(data, byte, w, h) ==
    /\ data = [k \in 1 .. WIDTH_BYTES(24 * w) * h |-> data[k]]
    /\ \A k \in 1 .. WIDTH_BYTES(24 * w) * h :
          LET i == (k - 1) \div WIDTH_BYTES(24 * w)
              c == (k - 1) % WIDTH_BYTES(24 * w)
          IN  data[k] = IF c < 3 * w THEN byte[<<i, c>>] ELSE 0
BytesOf(byte, w, h, rgb) ==
    \A i \in 0 .. h - 1, j \in 0 .. w - 1, c \in 0 .. 2 :
        byte[<<i, 3 * j + c>>] = rgb[FromTop(i, j, c, w, h)]
DataOf(data, w, h, rgb) ==
    /\ data \in [1 .. WIDTH_BYTES(24 * w) * h -> Int]
    /\ \A i \in 0 .. h - 1, j \in 0 .. w - 1, c \in 0 .. 2 :
          data[(RowStart(i, w) + 3 * j + c) + 1] = rgb[FromTop(i, j, c, w, h)]
PlanesOf(planes, w, h, rgb) ==
    \A p \in 0 .. w * h - 1, c \in 0 .. 2 : planes[c + 1][p] = rgb[3 * p + c]
RgbOf(w, h) == [0 .. 3 * w * h - 1 -> Colour]
IsRgb(rgb, w, h) == rgb = [k \in 0 .. 3 * w * h - 1 |-> rgb[k]]

LEMMA FileMade ==
    ASSUME NEW w, NEW h, ImageSize(w, h), NEW head \in Bytes(54), FileHeader(head, w, h),
           NEW data, NEW rgb, DataOf(data, w, h, rgb)
    PROVE  FileOf(head \o data, w, h, rgb)
<1> DEFINE s == WIDTH_BYTES(24 * w)
           n == s * h
           f == head \o data
<1>1. s \in Nat \ {0} /\ 3 * w <= s /\ w \in Nat \ {0} /\ h \in Nat \ {0}
  BY Stride DEF ImageSize
<1>2. n \in Nat
  <2> HIDE DEF s
  <2> QED
    BY <1>1
<1> HIDE DEF n
<1>0. data \in [1 .. n -> Int]
  BY DEF DataOf, n
<1>3. data \in Seq(Int) /\ Len(data) = n
  BY <1>0, <1>2, FunctionIsASeq
<1>4. head \in Seq(Int) /\ Len(head) = 54
  BY DEF Bytes
<1>5. /\ f \in Seq(Int) /\ Len(f) = 54 + n
      /\ \A x \in 1 .. 54 : f[x] = head[x]
      /\ \A x \in 1 .. n : f[54 + x] = data[x]
  <2>1. /\ f \in Seq(Int) /\ Len(f) = Len(head) + Len(data)
        /\ \A x \in 1 .. Len(head) : f[x] = head[x]
        /\ \A x \in 1 .. Len(data) : f[Len(head) + x] = data[x]
    <3>1. ASSUME NEW a \in Seq(Int), NEW b \in Seq(Int)
          PROVE  /\ a \o b \in Seq(Int) /\ Len(a \o b) = Len(a) + Len(b)
                 /\ \A x \in 1 .. Len(a) : (a \o b)[x] = a[x]
                 /\ \A x \in 1 .. Len(b) : (a \o b)[Len(a) + x] = b[x]
      BY Joined
    <3> QED
      BY <1>3, <1>4, <3>1, ZenonT(60)
  <2> HIDE DEF f
  <2> QED
    BY <1>3, <1>4, <2>1
<1>6. f \in Bytes(FileSize(w, h))
  BY <1>5 DEF Bytes, FileSize, n
<1>7. Starts(head, f)
  BY <1>4, <1>5 DEF Starts
<1> HIDE DEF f
<1>8. FileHeader(f, w, h)
  <2>1. HasLong(f, 10, 54) /\ HasLong(f, 18, w) /\ HasLong(f, 22, h)
    BY <1>7, WordsKept DEF FileHeader
  <2>2. HasShort(f, 28, 24)
    BY <1>7, WordsKept DEF FileHeader
  <2>3. f[1] = 66 /\ f[2] = 77
    BY <1>4, <1>7 DEF FileHeader, Starts
  <2> QED
    BY <2>1, <2>2, <2>3 DEF FileHeader
<1>9. ASSUME NEW i \in 0 .. h - 1, NEW j \in 0 .. w - 1, NEW c \in 0 .. 2
      PROVE  f[54 + (RowStart(i, w) + 3 * j + c) + 1] = rgb[FromTop(i, j, c, w, h)]
  <2> DEFINE x == RowStart(i, w) + 3 * j + c
  <2>1. x \in 0 .. n - 1
    <3>1. x = i * s + 3 * j + c /\ n = s * h
      BY DEF RowStart, n
    <3> HIDE DEF s, x
    <3> QED
      BY <1>1, <3>1, FilePlaceIs
  <2>2. data[x + 1] = rgb[FromTop(i, j, c, w, h)]
    BY DEF DataOf
  <2> HIDE DEF x
  <2>3. x + 1 \in 1 .. n /\ 54 + (x + 1) = 54 + x + 1
    BY <1>2, <2>1
  <2>4. f[54 + (x + 1)] = data[x + 1]
    BY <1>5, <2>3 DEF f
  <2>5. f[54 + x + 1] = rgb[FromTop(i, j, c, w, h)]
    BY <2>2, <2>3, <2>4
  <2> QED
    BY <2>5 DEF x
<1> QED
  BY <1>6, <1>8, <1>9 DEF FileOf, f

LEMMA FromTopIs ==
    ASSUME NEW w, NEW h, ImageSize(w, h), NEW i \in 0 .. h - 1, NEW j \in 0 .. w - 1,
           NEW c \in 0 .. 2
    PROVE  /\ FromTop(i, j, c, w, h) \in 0 .. 3 * w * h - 1
           /\ h - 1 - i \in 0 .. h - 1 /\ (h - 1 - i) * w + j \in 0 .. w * h - 1
<1>1. h - 1 - i \in 0 .. h - 1 /\ 2 - c \in 0 .. 2 /\ w \in Nat \ {0} /\ h \in Nat \ {0}
  BY DEF ImageSize
<1> DEFINE t == h - 1 - i
           e == 2 - c
<1> HIDE DEF t, e
<1>2. t \in 0 .. h - 1 /\ e \in 0 .. 2
  BY <1>1 DEF t, e
<1>3. 3 * (t * w + j) + e \in 0 .. 3 * w * h - 1 /\ t * w + j \in 0 .. w * h - 1
  BY <1>1, <1>2, ByteAt, PlaceIs
<1> QED
  BY <1>1, <1>3 DEF FromTop, t, e

LEMMA ColumnIs ==
    ASSUME NEW w \in Nat \ {0}, NEW c \in Nat, c < 3 * w
    PROVE  c \div 3 \in 0 .. w - 1 /\ c % 3 \in 0 .. 2 /\ c = 3 * (c \div 3) + (c % 3)
OBVIOUS

LEMMA RowIs ==
    ASSUME NEW s \in Nat \ {0}, NEW h \in Nat \ {0}, NEW n, n = s * h, NEW k \in 1 .. n
    PROVE  (k - 1) \div s \in 0 .. h - 1 /\ (k - 1) % s \in 0 .. s - 1
<1>1. n \in Nat
  OBVIOUS
<1>2. k - 1 \in 0 .. n - 1
  BY <1>1
<1> QED
  BY <1>2, RowsAre

LEMMA RowsMade ==
    ASSUME NEW w, NEW h, ImageSize(w, h), NEW rgb \in RgbOf(w, h), NEW data, NEW byte,
           RowsOf(data, byte, w, h), BytesOf(byte, w, h, rgb)
    PROVE  DataOf(data, w, h, rgb)
<1> DEFINE s == WIDTH_BYTES(24 * w)
           n == s * h
           val(i, c) == IF c < 3 * w THEN byte[<<i, c>>] ELSE 0
<1>1. s \in Nat \ {0} /\ 3 * w <= s /\ w \in Nat \ {0} /\ h \in Nat \ {0}
  BY Stride DEF ImageSize
<1>2. /\ data = [k \in 1 .. n |-> data[k]]
      /\ \A k \in 1 .. n : data[k] = val((k - 1) \div s, (k - 1) % s)
  BY DEF RowsOf
<1>3. n = s * h
  OBVIOUS
<1>4. \A i \in 0 .. h - 1 : RowStart(i, w) = i * s
  BY DEF RowStart
<1> HIDE DEF s, n
<1>5. n \in Nat
  BY <1>1, <1>3
<1>6. ASSUME NEW i \in 0 .. h - 1, NEW c \in 0 .. s - 1
      PROVE  val(i, c) \in Int
  <2>1. CASE c < 3 * w
    <3> DEFINE j == c \div 3
               e == c % 3
    <3>1. j \in 0 .. w - 1 /\ e \in 0 .. 2 /\ c = 3 * j + e
      BY <1>1, <2>1, ColumnIs
    <3> HIDE DEF j, e
    <3>2. byte[<<i, 3 * j + e>>] = rgb[FromTop(i, j, e, w, h)]
      BY <3>1 DEF BytesOf
    <3>3. FromTop(i, j, e, w, h) \in 0 .. 3 * w * h - 1
      BY <3>1, FromTopIs
    <3>4. rgb[FromTop(i, j, e, w, h)] \in Colour
      BY <3>3 DEF RgbOf
    <3>5. byte[<<i, c>>] \in Int
      BY <3>1, <3>2, <3>4 DEF Colour
    <3> QED
      BY <2>1, <3>5
  <2>2. CASE ~(c < 3 * w)
    BY <2>2
  <2> QED
    BY <2>1, <2>2
<1>7. data \in [1 .. n -> Int]
  <2>1. ASSUME NEW k \in 1 .. n PROVE data[k] \in Int
    <3>1. (k - 1) \div s \in 0 .. h - 1 /\ (k - 1) % s \in 0 .. s - 1
      BY <1>1, <1>3, RowIs
    <3> HIDE DEF val
    <3> QED
      BY <1>2, <1>6, <3>1
  <2> QED
    BY <1>2, <2>1
<1>8. ASSUME NEW i \in 0 .. h - 1, NEW j \in 0 .. w - 1, NEW c \in 0 .. 2
      PROVE  data[(RowStart(i, w) + 3 * j + c) + 1] = rgb[FromTop(i, j, c, w, h)]
  <2> DEFINE x == RowStart(i, w) + 3 * j + c
  <2>1. x = i * s + 3 * j + c
    BY <1>4
  <2> HIDE DEF x
  <2>2. x \in 0 .. n - 1 /\ x \div s = i /\ x % s = 3 * j + c /\ 3 * j + c < 3 * w
    BY <1>1, <1>3, <2>1, FilePlaceIs
  <2>3. x + 1 \in 1 .. n /\ (x + 1) - 1 = x
    BY <1>5, <2>2
  <2>4. data[x + 1] = val(i, 3 * j + c)
    <3> HIDE DEF val
    <3> QED
      BY <1>2, <2>2, <2>3
  <2>5. data[x + 1] = byte[<<i, 3 * j + c>>]
    BY <2>2, <2>4
  <2> QED
    BY <2>5 DEF BytesOf, x
<1> QED
  BY <1>7, <1>8 DEF DataOf, n, s

\* bmp_io.cpp writes from three planes.
LEMMA PlanesWritten ==
    ASSUME NEW w, NEW h, ImageSize(w, h), NEW rgb \in RgbOf(w, h), NEW planes,
           PlanesOf(planes, w, h, rgb)
    PROVE  FileOf(bmp_write(w, h, planes), w, h, rgb)
<1> DEFINE s == WIDTH_BYTES(24 * w)
           n == s * h
           bgr == <<planes[3], planes[2], planes[1]>>
           data == bmp_write_data(w, h, planes[1], planes[2], planes[3])
           byte == [x \in (0 .. h - 1) \X (0 .. s - 1) |->
                       bgr[(x[2] % 3) + 1][(h - x[1] - 1) * w + x[2] \div 3]]
<1>1. /\ s \in Nat \ {0} /\ padding(w) + 3 * w = s /\ 3 * w <= s
      /\ w \in Nat \ {0} /\ h \in Nat \ {0}
  BY Stride DEF ImageSize
<1>2. n = s * h /\ h * s = n
  <2> HIDE DEF s
  <2> QED
    BY <1>1
<1> HIDE DEF s, n
<1>3. ASSUME NEW k \in 1 .. n
      PROVE  <<(k - 1) \div s, (k - 1) % s>> \in (0 .. h - 1) \X (0 .. s - 1)
  <2>1. (k - 1) \div s \in 0 .. h - 1 /\ (k - 1) % s \in 0 .. s - 1
    BY <1>1, <1>2, RowIs
  <2> QED
    BY <2>1
<1>4. data = [k \in 1 .. n |->
                 LET i == (k - 1) \div s
                     c == (k - 1) % s
                 IN  IF c < 3 * w THEN bgr[(c % 3) + 1][(h - i - 1) * w + c \div 3] ELSE 0]
  <2>1. data = [k \in 1 .. h * (padding(w) + 3 * w) |->
                   LET i == (k - 1) \div (padding(w) + 3 * w)
                       c == (k - 1) % (padding(w) + 3 * w)
                   IN  IF c < 3 * w THEN bgr[(c % 3) + 1][(h - i - 1) * w + c \div 3]
                       ELSE 0]
    BY DEF bmp_write_data
  <2> HIDE DEF data, bgr
  <2> QED
    BY <1>1, <1>2, <2>1
<1>5. RowsOf(data, byte, w, h)
  <2>1. /\ data = [k \in 1 .. n |-> data[k]]
        /\ \A k \in 1 .. n :
              LET i == (k - 1) \div s
                  c == (k - 1) % s
              IN  data[k] = IF c < 3 * w THEN byte[<<i, c>>] ELSE 0
    <3> HIDE DEF data, bgr
    <3> QED
      BY <1>3, <1>4
  <2> HIDE DEF data, byte
  <2> QED
    BY <2>1 DEF RowsOf, n, s
<1>6. ASSUME NEW i \in 0 .. h - 1, NEW j \in 0 .. w - 1, NEW c \in 0 .. 2
      PROVE  byte[<<i, 3 * j + c>>] = rgb[FromTop(i, j, c, w, h)]
  <2> DEFINE p == (h - 1 - i) * w + j
             m == 3 * j + c
  <2>1. p \in 0 .. w * h - 1
    BY FromTopIs
  <2>2. m \in 0 .. s - 1 /\ m % 3 = c /\ m \div 3 = j
    BY <1>1
  <2>3. h - i - 1 = h - 1 - i
    BY <1>1
  <2> HIDE DEF m
  <2>4. byte[<<i, m>>] = bgr[c + 1][p]
    <3> HIDE DEF bgr
    <3> QED
      BY <2>2, <2>3
  <2>5. 2 - c \in 0 .. 2 /\ bgr[c + 1] = planes[(2 - c) + 1]
    <3>1. bgr[1] = planes[3] /\ bgr[2] = planes[2] /\ bgr[3] = planes[1]
      OBVIOUS
    <3> HIDE DEF bgr
    <3>2. CASE c = 0
      BY <3>1, <3>2
    <3>3. CASE c = 1
      BY <3>1, <3>3
    <3>4. CASE c = 2
      BY <3>1, <3>4
    <3> QED
      BY <3>2, <3>3, <3>4
  <2> HIDE DEF p, bgr, byte
  <2>6. planes[(2 - c) + 1][p] = rgb[3 * p + (2 - c)]
    BY <2>1, <2>5 DEF PlanesOf
  <2> QED
    BY <2>4, <2>5, <2>6 DEF FromTop, p, m
<1> HIDE DEF data, byte
<1>7. BytesOf(byte, w, h, rgb)
  BY <1>6 DEF BytesOf
<1>8. DataOf(data, w, h, rgb)
  BY <1>5, <1>7, RowsMade
<1> DEFINE head == bmp_write_header(w, h)
<1>9. head \in Bytes(54) /\ FileHeader(head, w, h)
  <2> DEFINE size == 3 * w * h + 54
             zero == 0
  <2>1. size \in Int /\ zero \in Int /\ head = Header(size, w, h, zero, zero)
    BY <1>1 DEF bmp_write_header
  <2>2. w \in Int /\ h \in Int
    BY <1>1
  <2> HIDE DEF size, zero, head
  <2> QED
    BY <2>1, <2>2, HeaderIs
<1> HIDE DEF head
<1>10. FileOf(head \o data, w, h, rgb)
  BY <1>8, <1>9, FileMade
<1> QED
  BY <1>10 DEF bmp_write, head, data

\* bmp.cpp writes from an array of pixels, turning it around first.
LEMMA PixelsWritten ==
    ASSUME NEW w, NEW h, ImageSize(w, h), NEW rgb \in RgbOf(w, h)
    PROVE  FileOf(save_bmp(rgb, w, h), w, h, rgb)
<1> DEFINE s == WIDTH_BYTES(24 * w)
           n == s * h
           temp == ChangeRows(rgb, w, h)
           byte == [x \in (0 .. h - 1) \X (0 .. s - 1) |-> temp[3 * w * x[1] + x[2]]]
           data == [k \in 1 .. n |->
                       LET c == (k - 1) % s
                       IN  IF c < 3 * w THEN temp[3 * w * ((k - 1) \div s) + c] ELSE 0]
<1>1. s \in Nat \ {0} /\ 3 * w <= s /\ w \in Nat \ {0} /\ h \in Nat \ {0}
  BY Stride DEF ImageSize
<1>2. n = s * h
  OBVIOUS
<1> HIDE DEF s, n
<1>3. ASSUME NEW k \in 1 .. n
      PROVE  <<(k - 1) \div s, (k - 1) % s>> \in (0 .. h - 1) \X (0 .. s - 1)
  <2>1. (k - 1) \div s \in 0 .. h - 1 /\ (k - 1) % s \in 0 .. s - 1
    BY <1>1, <1>2, RowIs
  <2> QED
    BY <2>1
<1>4. RowsOf(data, byte, w, h)
  <2>1. /\ data = [k \in 1 .. n |-> data[k]]
        /\ \A k \in 1 .. n :
              LET i == (k - 1) \div s
                  c == (k - 1) % s
              IN  data[k] = IF c < 3 * w THEN byte[<<i, c>>] ELSE 0
    <3> HIDE DEF temp
    <3> QED
      BY <1>3
  <2> HIDE DEF data, byte
  <2> QED
    BY <2>1 DEF RowsOf, n, s
<1>5. ASSUME NEW i \in 0 .. h - 1, NEW j \in 0 .. w - 1, NEW c \in 0 .. 2
      PROVE  byte[<<i, 3 * j + c>>] = rgb[FromTop(i, j, c, w, h)]
  <2> DEFINE m == 3 * j + c
             k == 3 * w * i + m
             p == (h - 1 - i) * w + j
  <2>1. m \in 0 .. s - 1
    BY <1>1
  <2>2. /\ k \in 0 .. 3 * w * h - 1 /\ k \div (3 * w) = i /\ k % (3 * w) = m
        /\ m \div 3 = j /\ k % 3 = c
    BY <1>1, ByteAt
  <2> HIDE DEF m
  <2>3. byte[<<i, m>>] = temp[k]
    <3> HIDE DEF temp
    <3> QED
      BY <2>1
  <2> HIDE DEF k
  <2>4. temp[k] = rgb[p * 3 + 2 - c]
    BY <2>2 DEF ChangeRows
  <2>5. p \in 0 .. w * h - 1
    BY FromTopIs
  <2>6. p * 3 + 2 - c = 3 * p + (2 - c)
    <3> HIDE DEF p
    <3>1. p \in Int
      BY <2>5
    <3> QED
      BY <3>1
  <2> HIDE DEF p, temp, byte
  <2> QED
    BY <2>3, <2>4, <2>6 DEF FromTop, p, m
<1> HIDE DEF data, byte
<1>6. BytesOf(byte, w, h, rgb)
  BY <1>5 DEF BytesOf
<1>7. DataOf(data, w, h, rgb)
  BY <1>4, <1>6, RowsMade
<1> DEFINE full == 54 + n
           dpi == 72
           head == Header(full, w, h, n, dpi)
<1>8. head \in Bytes(54) /\ FileHeader(head, w, h)
  <2>1. n \in Int /\ full \in Int /\ dpi \in Int
    BY <1>1, <1>2
  <2>2. w \in Int /\ h \in Int
    BY <1>1
  <2> HIDE DEF full, dpi
  <2> QED
    BY <2>1, <2>2, HeaderIs
<1> HIDE DEF head
<1>9. FileOf(head \o data, w, h, rgb)
  BY <1>7, <1>8, FileMade
<1> QED
  BY <1>9 DEF save_bmp, head, data, s, n

-----------------------------------------------------------------------------
(***************************************************************************)
(* What the disk has of a file, and what the readers find there.           *)
(***************************************************************************)
DiskOf(f, w, h, rgb) ==
    /\ f \in Seq(Int) /\ Len(f) <= FileSize(w, h)
    /\ Len(f) >= 54 => FileHeader(f, w, h)
    /\ \A i \in 0 .. h - 1, j \in 0 .. w - 1, c \in 0 .. 2 :
          LET at == 54 + (RowStart(i, w) + 3 * j + c)
          IN  at < Len(f) => f[at + 1] = rgb[FromTop(i, j, c, w, h)]

\* A file whose last bytes never reached the disk.
Prefix(file, cut) == SubSeq(file, 1, Len(file) - cut)

LEMMA PrefixIs ==
    ASSUME NEW n \in Nat, NEW file \in Bytes(n), NEW cut \in Nat,
           NEW f, f = Prefix(file, cut)
    PROVE  /\ f \in Seq(Int) /\ Len(f) <= n /\ Len(f) \in Nat
           /\ cut = 0 => Len(f) = n
           /\ \A x \in 1 .. Len(f) : f[x] = file[x]
<1>1. file \in Seq(Int) /\ Len(file) = n
  BY DEF Bytes
<1> DEFINE m == n - cut
<1>2. \A x \in 1 .. m : file[x] \in Int
  BY <1>1, ElementOfSeq
<1>3. f = SubSeq(file, 1, m) /\ m \in Int /\ m <= n
  BY <1>1 DEF Prefix
<1>4. /\ f \in Seq(Int) /\ Len(f) = IF 1 <= m THEN m - 1 + 1 ELSE 0
      /\ \A x \in 1 .. m - 1 + 1 : f[x] = file[1 + x - 1]
  <2> DEFINE one == 1
  <2>1. one \in Int /\ f = SubSeq(file, one, m) /\ \A x \in one .. m : file[x] \in Int
    BY <1>2, <1>3
  <2> HIDE DEF one, m
  <2>2. /\ SubSeq(file, one, m) \in Seq(Int)
        /\ Len(SubSeq(file, one, m)) = IF one <= m THEN m - one + 1 ELSE 0
        /\ \A x \in 1 .. m - one + 1 : SubSeq(file, one, m)[x] = file[one + x - 1]
    BY <1>3, <2>1, SubSeqProperties
  <2> QED
    BY <2>1, <2>2 DEF one
<1> HIDE DEF m
<1>5. Len(f) = IF 1 <= m THEN m ELSE 0
  BY <1>3, <1>4
<1>6. ASSUME NEW x \in 1 .. Len(f)
      PROVE  f[x] = file[x]
  <2>1. x \in 1 .. m - 1 + 1 /\ 1 + x - 1 = x
    BY <1>3, <1>5
  <2> QED
    BY <1>4, <2>1
<1>7. cut = 0 => Len(f) = n
  BY <1>5 DEF m
<1> QED
  BY <1>3, <1>4, <1>5, <1>6, <1>7

LEMMA FileSizeIs ==
    ASSUME NEW w, NEW h, ImageSize(w, h)
    PROVE  FileSize(w, h) \in Nat /\ FileSize(w, h) >= 54
<1>1. WIDTH_BYTES(24 * w) \in Nat /\ h \in Nat
  BY Stride DEF ImageSize
<1> DEFINE s == WIDTH_BYTES(24 * w)
<1> HIDE DEF s
<1>2. 54 + s * h \in Nat /\ 54 + s * h >= 54
  BY <1>1 DEF s
<1> QED
  BY <1>2 DEF FileSize, s

\* Whatever a file's end lacks, the rest of it is as it was written.
LEMMA DiskMade ==
    ASSUME NEW w, NEW h, ImageSize(w, h), NEW rgb, NEW file, FileOf(file, w, h, rgb),
           NEW cut \in Nat, NEW f, f = Prefix(file, cut)
    PROVE  /\ DiskOf(f, w, h, rgb)
           /\ cut = 0 => Len(f) = FileSize(w, h)
<1> DEFINE n == FileSize(w, h)
<1>1. n \in Nat /\ file \in Bytes(n)
  BY FileSizeIs DEF FileOf
<1> HIDE DEF n
<1>2. /\ f \in Seq(Int) /\ Len(f) <= n /\ Len(f) \in Nat
      /\ cut = 0 => Len(f) = n
      /\ \A x \in 1 .. Len(f) : f[x] = file[x]
  BY <1>1, PrefixIs
<1>3. ASSUME Len(f) >= 54
      PROVE  FileHeader(f, w, h)
  <2>1. \A x \in 1 .. Len(f) : f[x] = file[x]
    BY <1>2
  <2>2. ASSUME NEW at \in Nat, at + 4 <= 54, NEW v, HasLong(file, at, v)
        PROVE  HasLong(f, at, v)
    <3>1. ASSUME NEW x \in 1 .. 4 PROVE at + x \in 1 .. Len(f)
      BY <1>2, <1>3, <2>2
    <3> QED
      BY <2>1, <2>2, <3>1 DEF HasLong
  <2>3. ASSUME NEW at \in Nat, at + 2 <= 54, NEW v, HasShort(file, at, v)
        PROVE  HasShort(f, at, v)
    <3>1. ASSUME NEW x \in 1 .. 2 PROVE at + x \in 1 .. Len(f)
      BY <1>2, <1>3, <2>3
    <3> QED
      BY <2>1, <2>3, <3>1 DEF HasShort
  <2>4. FileHeader(file, w, h)
    BY DEF FileOf
  <2>5. f[1] = 66 /\ f[2] = 77
    <3>1. 1 \in 1 .. Len(f) /\ 2 \in 1 .. Len(f)
      BY <1>2, <1>3
    <3> QED
      BY <2>1, <2>4, <3>1 DEF FileHeader
  <2> DEFINE a == 10
             b == 18
             c == 22
             d == 28
  <2>6. /\ a \in Nat /\ b \in Nat /\ c \in Nat /\ d \in Nat
        /\ a + 4 <= 54 /\ b + 4 <= 54 /\ c + 4 <= 54 /\ d + 2 <= 54
    OBVIOUS
  <2>7. HasLong(file, a, 54) /\ HasLong(file, b, w) /\ HasLong(file, c, h) /\ HasShort(file, d, 24)
    BY <2>4 DEF FileHeader
  <2> HIDE DEF a, b, c, d
  <2>8. HasLong(f, a, 54) /\ HasLong(f, b, w) /\ HasLong(f, c, h) /\ HasShort(f, d, 24)
    BY <2>2, <2>3, <2>6, <2>7
  <2> QED
    BY <2>5, <2>8 DEF FileHeader, a, b, c, d
<1>4. ASSUME NEW i \in 0 .. h - 1, NEW j \in 0 .. w - 1, NEW c \in 0 .. 2,
             54 + (RowStart(i, w) + 3 * j + c) < Len(f)
      PROVE  f[54 + (RowStart(i, w) + 3 * j + c) + 1] = rgb[FromTop(i, j, c, w, h)]
  <2> DEFINE x == RowStart(i, w) + 3 * j + c
             s == WIDTH_BYTES(24 * w)
  <2>1. file[54 + x + 1] = rgb[FromTop(i, j, c, w, h)]
    BY DEF FileOf
  <2>2. x \in Nat
    <3>1. s \in Nat /\ i * s = RowStart(i, w)
      BY Stride DEF ImageSize, RowStart
    <3>2. i * s \in Nat
      <4> HIDE DEF s
      <4> QED
        BY <3>1
    <3> QED
      BY <3>1, <3>2 DEF ImageSize
  <2> HIDE DEF x
  <2>3. 54 + x < Len(f)
    BY <1>4 DEF x
  <2>4. 54 + x + 1 \in 1 .. Len(f)
    BY <1>2, <2>2, <2>3
  <2>5. f[54 + x + 1] = file[54 + x + 1]
    BY <1>2, <2>4
  <2> QED
    BY <2>1, <2>5 DEF x
<1>5. \A i \in 0 .. h - 1, j \in 0 .. w - 1, c \in 0 .. 2 :
         LET at == 54 + (RowStart(i, w) + 3 * j + c)
         IN  at < Len(f) => f[at + 1] = rgb[FromTop(i, j, c, w, h)]
  BY <1>4
<1>6. DiskOf(f, w, h, rgb)
  BY <1>2, <1>3, <1>5 DEF DiskOf, n
<1> QED
  BY <1>2, <1>6 DEF n

LEMMA LongRead ==
    ASSUME NEW f \in Seq(Int), NEW at \in Nat, at + 4 <= Len(f),
           NEW v \in Nat, v < 65536 * 65536, HasLong(f, at, v)
    PROVE  read_u_long_int(f, at) = v
<1>1. /\ write_u_long_int(v)[1] = (v % 65536) % 256
      /\ write_u_long_int(v)[2] = (v % 65536) \div 256
      /\ write_u_long_int(v)[3] = ((v \div 65536) % 65536) % 256
      /\ write_u_long_int(v)[4] = ((v \div 65536) % 65536) \div 256
  BY LongIs
<1>2. /\ f[at + 1] = write_u_long_int(v)[1] /\ f[at + 2] = write_u_long_int(v)[2]
      /\ f[at + 3] = write_u_long_int(v)[3] /\ f[at + 4] = write_u_long_int(v)[4]
  BY DEF HasLong
<1>3. /\ fgetc(f, at) = f[at + 1] /\ fgetc(f, at + 1) = f[at + 2]
      /\ fgetc(f, at + 2) = f[at + 3] /\ fgetc(f, at + 2 + 1) = f[at + 4]
  <2>1. /\ at < Len(f) /\ at + 1 < Len(f) /\ at + 2 < Len(f) /\ at + 2 + 1 < Len(f)
        /\ at + 1 + 1 = at + 2 /\ at + 2 + 1 = at + 3 /\ at + 2 + 1 + 1 = at + 4
    OBVIOUS
  <2> QED
    BY <2>1 DEF fgetc
<1>4. read_u_long_int(f, at) = (f[at + 1] + 256 * f[at + 2])
                                 + 65536 * (f[at + 3] + 256 * f[at + 4])
  BY <1>3, SMTT(30) DEF read_u_long_int, read_u_short_int
<1>5. (((v % 65536) % 256) + 256 * ((v % 65536) \div 256))
        + 65536 * ((((v \div 65536) % 65536) % 256)
                     + 256 * (((v \div 65536) % 65536) \div 256)) = v
  BY ReadBack
<1> QED
  BY <1>1, <1>2, <1>4, <1>5

LEMMA ShortRead ==
    ASSUME NEW f \in Seq(Int), NEW at \in Nat, at + 2 <= Len(f), NEW v \in Nat,
           HasShort(f, at, v)
    PROVE  read_u_short_int(f, at) = v
<1>1. write_u_short_int(v)[1] = v % 256 /\ write_u_short_int(v)[2] = v \div 256
  BY ShortIs
<1>2. \A i \in 1 .. 2 : f[at + i] = write_u_short_int(v)[i]
  BY DEF HasShort
<1>3. f[at + 1] = v % 256 /\ f[at + 2] = v \div 256
  BY <1>1, <1>2
<1>4. fgetc(f, at) = f[at + 1] /\ fgetc(f, at + 1) = f[at + 2]
  <2>1. at < Len(f) /\ at + 1 < Len(f) /\ at + 1 + 1 = at + 2
    OBVIOUS
  <2> QED
    BY <2>1 DEF fgetc
<1>5. read_u_short_int(f, at) = f[at + 1] + 256 * f[at + 2]
  BY <1>4 DEF read_u_short_int
<1>6. (v % 256) + 256 * (v \div 256) = v
  OBVIOUS
<1> QED
  BY <1>3, <1>5, <1>6

LEMMA HeaderRead ==
    ASSUME NEW f \in Seq(Int), Len(f) >= 54, NEW w \in Nat, NEW h \in Nat,
           w < 65536 * 65536, h < 65536 * 65536, FileHeader(f, w, h)
    PROVE  /\ fgetc(f, 0) = 66 /\ fgetc(f, 1) = 77
           /\ read_u_long_int(f, 10) = 54 /\ read_u_long_int(f, 18) = w
           /\ read_u_long_int(f, 22) = h /\ read_u_short_int(f, 28) = 24
<1>1. Len(f) \in Nat
  OBVIOUS
<1>2. fgetc(f, 0) = 66 /\ fgetc(f, 1) = 77
  <2>1. 0 < Len(f) /\ 1 < Len(f) /\ 0 + 1 = 1 /\ 1 + 1 = 2
    BY <1>1
  <2> QED
    BY <2>1 DEF fgetc, FileHeader
<1> DEFINE a == 10
           b == 18
           c == 22
           d == 54
<1>3. /\ a \in Nat /\ b \in Nat /\ c \in Nat /\ d \in Nat
      /\ a + 4 <= Len(f) /\ b + 4 <= Len(f) /\ c + 4 <= Len(f) /\ d < 65536 * 65536
  BY <1>1
<1>4. HasLong(f, a, d) /\ HasLong(f, b, w) /\ HasLong(f, c, h)
  BY DEF FileHeader
<1> HIDE DEF a, b, c, d
<1>5. read_u_long_int(f, a) = d /\ read_u_long_int(f, b) = w /\ read_u_long_int(f, c) = h
  BY <1>3, <1>4, LongRead
<1> DEFINE e == 28
           bits == 24
<1>6. e \in Nat /\ e + 2 <= Len(f) /\ bits \in Nat
  BY <1>1
<1>7. HasShort(f, e, bits)
  BY DEF FileHeader
<1> HIDE DEF e, bits
<1>8. read_u_short_int(f, e) = bits
  BY <1>6, <1>7, ShortRead
<1> QED
  BY <1>2, <1>5, <1>8 DEF a, b, c, d, e, bits

LEMMA FitsIs ==
    ASSUME NEW w, NEW h, ImageSize(w, h), Fits(w, h)
    PROVE  /\ w \in Nat /\ h \in Nat /\ w < 65536 * 65536 /\ h < 65536 * 65536
           /\ WIDTH_BYTES(24 * w) % 65536 = WIDTH_BYTES(24 * w)
<1> DEFINE s == WIDTH_BYTES(24 * w)
           n == s * h
<1>1. w \in Nat \ {0} /\ h \in Nat \ {0}
  BY DEF ImageSize
<1>2. s \in Nat \ {0} /\ 3 * w <= s
  BY <1>1, Stride
<1>3. s < 65536 /\ 54 + n <= 2147483647
  BY DEF Fits
<1> HIDE DEF s
<1>4. w < 65536 * 65536 /\ s % 65536 = s
  BY <1>1, <1>2, <1>3
<1>5. n \in Nat /\ h <= n
  BY <1>1, <1>2
<1> HIDE DEF n
<1>6. h < 65536 * 65536
  BY <1>1, <1>3, <1>5
<1> QED
  BY <1>1, <1>4, <1>6 DEF s

\* The row, pixel and colour from which byte k of the image is read.
LEMMA FromTopBack ==
    ASSUME NEW w, NEW h, ImageSize(w, h), NEW k \in 0 .. 3 * w * h - 1
    PROVE  LET i == h - 1 - k \div (3 * w)
               j == (k % (3 * w)) \div 3
               c == 2 - (k % 3)
           IN  /\ i \in 0 .. h - 1 /\ j \in 0 .. w - 1 /\ c \in 0 .. 2
               /\ FromTop(i, j, c, w, h) = k
               /\ i = h - 1 /\ j = w - 1 /\ c = 2 => k = 3 * (w - 1)
<1> DEFINE q == k \div (3 * w)
           j == (k % (3 * w)) \div 3
           r == k % 3
<1>1. w \in Nat \ {0} /\ h \in Nat \ {0}
  BY DEF ImageSize
<1>2. q \in 0 .. h - 1 /\ j \in 0 .. w - 1 /\ r \in 0 .. 2 /\ k = 3 * (q * w + j) + r
  BY <1>1, ByteIs
<1> HIDE DEF q, j, r
<1>3. h - 1 - (h - 1 - q) = q /\ 2 - (2 - r) = r /\ h - 1 - q \in 0 .. h - 1 /\ 2 - r \in 0 .. 2
  BY <1>1, <1>2
<1>4. FromTop(h - 1 - q, j, 2 - r, w, h) = 3 * (q * w + j) + r
  BY <1>3 DEF FromTop
<1>5. ASSUME h - 1 - q = h - 1, j = w - 1, 2 - r = 2
      PROVE  k = 3 * (w - 1)
  <2>1. q = 0 /\ r = 0
    BY <1>1, <1>2, <1>5
  <2>2. q * w = 0
    BY <1>1, <2>1
  <2> QED
    BY <1>1, <1>2, <1>5, <2>1, <2>2
<1> QED
  BY <1>2, <1>3, <1>4, <1>5 DEF q, j, r

\* Places in the file grow with the rows and with the pixels of a row.
Place(i, j, c, w) == 54 + RowStart(i, w) + 3 * j + c

LEMMA PlaceGrows ==
    ASSUME NEW w, NEW h, ImageSize(w, h), NEW i \in 0 .. h - 1, NEW j \in 0 .. w - 1
    PROVE  /\ \A c \in 0 .. 2 : /\ Place(i, j, c, w) \in Nat
                                /\ Place(i, j, c, w) = 54 + (RowStart(i, w) + 3 * j + c)
                                /\ Place(i, j, c, w) < FileSize(w, h)
           /\ j < w - 1 => Place(i, j + 1, 0, w) = Place(i, j, 2, w) + 1
           /\ i < h - 1 => Place(i + 1, 0, 0, w) > Place(i, j, 2, w)
<1> DEFINE s == WIDTH_BYTES(24 * w)
           a == i * s
           n == s * h
<1>1. s \in Nat \ {0} /\ 3 * w <= s /\ w \in Nat \ {0} /\ h \in Nat \ {0}
  BY Stride DEF ImageSize
<1> HIDE DEF s
<1>2. a \in Nat /\ (i + 1) * s = a + s /\ n \in Nat
  BY <1>1
<1>3. ASSUME NEW c \in 0 .. 2 PROVE a + 3 * j + c < n
  <2> DEFINE x == i * s + 3 * j + c
  <2>1. x \in 0 .. n - 1
    <3>1. x = i * s + 3 * j + c /\ n = s * h
      OBVIOUS
    <3> HIDE DEF x, n
    <3> QED
      BY <1>1, <3>1, FilePlaceIs
  <2> HIDE DEF n
  <2> QED
    BY <1>2, <2>1
<1>4. RowStart(i, w) = a /\ RowStart(i + 1, w) = a + s /\ FileSize(w, h) = 54 + n
  BY <1>2 DEF RowStart, FileSize, s
<1> HIDE DEF a, n
<1>5. ASSUME NEW c \in 0 .. 2
      PROVE  /\ Place(i, j, c, w) \in Nat
             /\ Place(i, j, c, w) = 54 + (RowStart(i, w) + 3 * j + c)
             /\ Place(i, j, c, w) < FileSize(w, h)
  BY <1>1, <1>2, <1>3, <1>4 DEF Place
<1>6. j < w - 1 => Place(i, j + 1, 0, w) = Place(i, j, 2, w) + 1
  BY <1>1, <1>2, <1>4 DEF Place
<1>7. Place(i + 1, 0, 0, w) > Place(i, j, 2, w)
  BY <1>1, <1>2, <1>4 DEF Place
<1> QED
  BY <1>5, <1>6, <1>7

LEMMA ByteRead ==
    ASSUME NEW w, NEW h, ImageSize(w, h), NEW rgb \in RgbOf(w, h), NEW f,
           DiskOf(f, w, h, rgb),
           NEW i \in 0 .. h - 1, NEW j \in 0 .. w - 1, NEW c \in 0 .. 2
    PROVE  /\ Place(i, j, c, w) < Len(f) =>
                 /\ f[Place(i, j, c, w) + 1] = rgb[FromTop(i, j, c, w, h)]
                 /\ fgetc(f, Place(i, j, c, w)) = rgb[FromTop(i, j, c, w, h)]
                 /\ fgetc(f, Place(i, j, c, w)) /= EOF
           /\ ~(Place(i, j, c, w) < Len(f)) => fgetc(f, Place(i, j, c, w)) = EOF
<1>1. Place(i, j, c, w) = 54 + (RowStart(i, w) + 3 * j + c)
  BY PlaceGrows
<1>2. ASSUME Place(i, j, c, w) < Len(f)
      PROVE  /\ f[Place(i, j, c, w) + 1] = rgb[FromTop(i, j, c, w, h)]
             /\ fgetc(f, Place(i, j, c, w)) = rgb[FromTop(i, j, c, w, h)]
             /\ fgetc(f, Place(i, j, c, w)) /= EOF
  <2>1. f[Place(i, j, c, w) + 1] = rgb[FromTop(i, j, c, w, h)]
    BY <1>1, <1>2 DEF DiskOf
  <2>2. FromTop(i, j, c, w, h) \in 0 .. 3 * w * h - 1
    BY FromTopIs
  <2>3. rgb[FromTop(i, j, c, w, h)] \in 0 .. 255
    BY <2>2 DEF RgbOf, Colour
  <2>4. fgetc(f, Place(i, j, c, w)) = rgb[FromTop(i, j, c, w, h)]
    BY <1>2, <2>1 DEF fgetc
  <2>5. EOF = -1
    BY DEF EOF
  <2> QED
    BY <2>1, <2>3, <2>4, <2>5
<1>3. ~(Place(i, j, c, w) < Len(f)) => fgetc(f, Place(i, j, c, w)) = EOF
  BY DEF fgetc
<1> QED
  BY <1>2, <1>3

\* bmp_read: it refuses a file whose end is missing, or finds all but one byte.
LEMMA ToolsRead ==
    ASSUME NEW w, NEW h, ImageSize(w, h), Fits(w, h), NEW rgb \in RgbOf(w, h), NEW f,
           DiskOf(f, w, h, rgb), Len(f) >= 54
    PROVE  LET r == bmp_read(f)
           IN  \/ r = Refused("bmp_read") /\ Len(f) < FileSize(w, h)
               \/ /\ r = Image("bmp_read", w, h, r.rgb)
                  /\ IsRgb(r.rgb, w, h)
                  /\ \A k \in 0 .. 3 * w * h - 1 :
                        \/ r.rgb[k] = rgb[k]
                        \/ /\ k = 3 * (w - 1) /\ r.rgb[k] = EOF
                           /\ Len(f) < FileSize(w, h)
<1> DEFINE s == WIDTH_BYTES(24 * w)
           header == bmp_read_header(f)
           data == bmp_read_data(f, 54, w, h)
           byte(i, j, c) == fgetc(f, Place(i, j, c, w))
           image == data.rgb
<1>1. /\ w \in Nat /\ h \in Nat /\ w < 65536 * 65536 /\ h < 65536 * 65536
      /\ w \in Nat \ {0} /\ h \in Nat \ {0}
  BY FitsIs DEF ImageSize
<1>2. f \in Seq(Int) /\ Len(f) <= FileSize(w, h) /\ FileHeader(f, w, h)
  BY DEF DiskOf
<1>3. Len(f) \in Nat /\ FileSize(w, h) \in Nat
  BY <1>2, FileSizeIs
<1>4. header.ok /\ header.psize = 54 /\ header.xsize = w /\ header.ysize = h
  <2>1. /\ fgetc(f, 0) = 66 /\ fgetc(f, 1) = 77
        /\ read_u_long_int(f, 10) = 54 /\ read_u_long_int(f, 18) = w
        /\ read_u_long_int(f, 22) = h
    BY <1>1, <1>2, HeaderRead
  <2> QED
    BY <2>1 DEF bmp_read_header
<1>5. bmp_read(f) = IF data.ok THEN Image("bmp_read", w, h, image) ELSE Refused("bmp_read")
  <2> HIDE DEF header
  <2>1. bmp_read(f) = LET d == bmp_read_data(f, header.psize, header.xsize, header.ysize)
                      IN  IF header.ok /\ d.ok
                          THEN Image("bmp_read", header.xsize, header.ysize, d.rgb)
                          ELSE Refused("bmp_read")
    BY DEF bmp_read, header
  <2> HIDE DEF data
  <2> QED
    BY <1>4, <2>1 DEF data
<1>6. /\ data.ok <=> /\ \A i \in 0 .. h - 1, j \in 0 .. w - 1, c \in 0 .. 1 :
                           byte(i, j, c) /= EOF
                     /\ byte(h - 1, 0, 2) /= EOF
      /\ image = [k \in 0 .. 3 * w * h - 1 |->
                     byte(h - 1 - k \div (3 * w), (k % (3 * w)) \div 3, 2 - (k % 3))]
  <2>1. padding(w) + 3 * w = s
    BY <1>1, Stride
  <2> QED
    BY <2>1 DEF bmp_read_data, Place, RowStart
<1> HIDE DEF data, header, image, s, byte
<1>7. ASSUME NEW i \in 0 .. h - 1, NEW j \in 0 .. w - 1, NEW c \in 0 .. 2
      PROVE  /\ byte(i, j, c) = rgb[FromTop(i, j, c, w, h)] \/ byte(i, j, c) = EOF
             /\ byte(i, j, c) = EOF <=> ~(Place(i, j, c, w) < Len(f))
             /\ Place(i, j, c, w) \in Nat /\ Place(i, j, c, w) < FileSize(w, h)
  BY ByteRead, PlaceGrows DEF byte
<1>8. ASSUME data.ok, NEW k \in 0 .. 3 * w * h - 1
      PROVE  \/ image[k] = rgb[k]
             \/ k = 3 * (w - 1) /\ image[k] = EOF /\ Len(f) < FileSize(w, h)
  <2> DEFINE i == h - 1 - k \div (3 * w)
             j == (k % (3 * w)) \div 3
             c == 2 - (k % 3)
  <2>1. /\ i \in 0 .. h - 1 /\ j \in 0 .. w - 1 /\ c \in 0 .. 2
        /\ FromTop(i, j, c, w, h) = k
        /\ i = h - 1 /\ j = w - 1 /\ c = 2 => k = 3 * (w - 1)
    BY FromTopBack
  <2>2. image[k] = byte(i, j, c)
    BY <1>6
  <2> HIDE DEF i, j, c
  <2>3. CASE byte(i, j, c) /= EOF
    BY <1>7, <2>1, <2>2, <2>3
  <2>4. CASE byte(i, j, c) = EOF
    <3>1. c = 2
      <4>1. c \notin 0 .. 1
        BY <1>6, <1>8, <2>1, <2>4
      <4> QED
        BY <2>1, <4>1
    <3>2. ~(Place(i, j, 2, w) < Len(f)) /\ Len(f) < FileSize(w, h)
      BY <1>3, <1>7, <2>1, <2>4, <3>1
    <3>3. j = w - 1
      <4> SUFFICES ASSUME j /= w - 1
                   PROVE  FALSE
        OBVIOUS
      <4>1. j + 1 \in 0 .. w - 1 /\ j < w - 1 /\ 0 \in 0 .. 1 /\ 0 \in 0 .. 2
        BY <1>1, <2>1
      <4>2. byte(i, j + 1, 0) /= EOF
        BY <1>6, <1>8, <2>1, <4>1
      <4>3. Place(i, j + 1, 0, w) < Len(f)
        BY <1>7, <2>1, <4>1, <4>2
      <4>4. Place(i, j + 1, 0, w) = Place(i, j, 2, w) + 1 /\ Place(i, j, 2, w) \in Nat
        BY <2>1, <4>1, PlaceGrows
      <4> QED
        BY <1>3, <3>2, <4>3, <4>4
    <3>4. i = h - 1
      <4> SUFFICES ASSUME i /= h - 1
                   PROVE  FALSE
        OBVIOUS
      <4>1. i + 1 \in 0 .. h - 1 /\ i < h - 1 /\ 0 \in 0 .. 1 /\ 0 \in 0 .. w - 1
        BY <1>1, <2>1
      <4>2. byte(i + 1, 0, 0) /= EOF
        BY <1>6, <1>8, <4>1
      <4>3. Place(i + 1, 0, 0, w) < Len(f) /\ Place(i + 1, 0, 0, w) \in Nat
        BY <1>7, <4>1, <4>2
      <4>4. Place(i + 1, 0, 0, w) > Place(i, j, 2, w) /\ Place(i, j, 2, w) \in Nat
        BY <2>1, <4>1, PlaceGrows
      <4> QED
        BY <1>3, <3>2, <4>3, <4>4
    <3> QED
      BY <2>1, <2>2, <2>4, <3>1, <3>2, <3>3, <3>4
  <2> QED
    BY <2>3, <2>4
<1>9. ASSUME ~data.ok
      PROVE  Len(f) < FileSize(w, h)
  <2>1. PICK i \in 0 .. h - 1, j \in 0 .. w - 1, c \in 0 .. 2 : byte(i, j, c) = EOF
    <3>1. 0 \in 0 .. w - 1 /\ h - 1 \in 0 .. h - 1 /\ 2 \in 0 .. 2
      BY <1>1
    <3>2. \A c \in 0 .. 1 : c \in 0 .. 2
      OBVIOUS
    <3> QED
      BY <1>6, <1>9, <3>1, <3>2
  <2> QED
    BY <1>3, <1>7, <2>1
<1>10. CASE data.ok
  <2>1. bmp_read(f) = Image("bmp_read", w, h, image)
    BY <1>5, <1>10
  <2>2. bmp_read(f).rgb = image
    BY <2>1 DEF Image
  <2>3. IsRgb(image, w, h)
    BY <1>6 DEF IsRgb
  <2> QED
    BY <1>8, <1>10, <2>1, <2>2, <2>3
<1>11. CASE ~data.ok
  BY <1>5, <1>9, <1>11
<1> QED
  BY <1>10, <1>11

\* OpenBMPFile: it gives back the image of a whole file, and only its size of another.
UpsideDown(f, start, widthByteNum, width, height) ==
    LET upsideDown(at) == IF start + at < Len(f) THEN f[start + at + 1] ELSE Uninitialized
    IN  [k \in 0 .. 3 * width * height - 1 |->
            upsideDown((k \div (3 * width)) * widthByteNum + (k % (3 * width)))]

LEMMA OpenRead ==
    ASSUME NEW w, NEW h, ImageSize(w, h), Fits(w, h), NEW rgb \in RgbOf(w, h), NEW f,
           DiskOf(f, w, h, rgb), Len(f) >= 54
    PROVE  LET r == OpenBMPFile(f)
           IN  /\ r = Image("OpenBMPFile", w, h, r.rgb)
               /\ IsRgb(r.rgb, w, h)
               /\ Len(f) = FileSize(w, h) => \A k \in 0 .. 3 * w * h - 1 : r.rgb[k] = rgb[k]
<1> DEFINE s == WIDTH_BYTES(24 * w)
           raw == UpsideDown(f, 54, s, w, h)
           image == ChangeRows(raw, w, h)
<1>1. /\ w \in Nat /\ h \in Nat /\ w < 65536 * 65536 /\ h < 65536 * 65536
      /\ w \in Nat \ {0} /\ h \in Nat \ {0} /\ s % 65536 = s
  BY FitsIs DEF ImageSize
<1>2. f \in Seq(Int) /\ Len(f) <= FileSize(w, h) /\ FileHeader(f, w, h)
  BY DEF DiskOf
<1>3. Len(f) \in Nat /\ FileSize(w, h) \in Nat
  BY <1>2, FileSizeIs
<1>4. /\ fgetc(f, 0) = 66 /\ fgetc(f, 1) = 77
      /\ read_u_long_int(f, 10) = 54 /\ read_u_long_int(f, 18) = w
      /\ read_u_long_int(f, 22) = h /\ read_u_short_int(f, 28) = 24
  BY <1>1, <1>2, HeaderRead
<1>5. OpenBMPFile(f) = Image("OpenBMPFile", w, h, image)
  <2> DEFINE W == read_u_long_int(f, 18)
             H == read_u_long_int(f, 22)
             S == WIDTH_BYTES(W * read_u_short_int(f, 28)) % 65536
             R == UpsideDown(f, read_u_long_int(f, 10), S, W, H)
  <2>1. OpenBMPFile(f) = IF fgetc(f, 0) = 66 /\ fgetc(f, 1) = 77
                         THEN Image("OpenBMPFile", W, H, ChangeRows(R, W, H))
                         ELSE Refused("OpenBMPFile")
    BY DEF OpenBMPFile, UpsideDown
  <2>2. w * 24 = 24 * w
    BY <1>1
  <2>3. S = s
    BY <1>1, <1>4, <2>2
  <2>4. R = raw /\ W = w /\ H = h
    BY <1>4, <2>3
  <2> HIDE DEF R, W, H, raw
  <2> QED
    BY <1>4, <2>1, <2>4
<1>6. /\ IsRgb(image, w, h)
      /\ \A k \in 0 .. 3 * w * h - 1 :
            image[k] = raw[((h - 1 - k \div (3 * w)) * w + (k % (3 * w)) \div 3) * 3 + 2 - (k % 3)]
  <2> HIDE DEF raw
  <2> QED
    BY DEF ChangeRows, IsRgb
<1>7. \A m \in 0 .. 3 * w * h - 1 :
        LET at == (m \div (3 * w)) * s + (m % (3 * w))
        IN  raw[m] = IF 54 + at < Len(f) THEN f[54 + at + 1] ELSE Uninitialized
  <2> HIDE DEF s
  <2> QED
    BY DEF UpsideDown
<1> HIDE DEF raw, image
<1>8. ASSUME NEW k \in 0 .. 3 * w * h - 1, Len(f) = FileSize(w, h)
      PROVE  image[k] = rgb[k]
  <2> DEFINE i == h - 1 - k \div (3 * w)
             j == (k % (3 * w)) \div 3
             r == k % 3
             c == 2 - r
             m == 3 * (i * w + j) + c
             at == Place(i, j, c, w)
  <2>1. i \in 0 .. h - 1 /\ j \in 0 .. w - 1 /\ c \in 0 .. 2 /\ FromTop(i, j, c, w, h) = k
    BY FromTopBack
  <2>2. image[k] = raw[(i * w + j) * 3 + 2 - r]
    BY <1>6
  <2>3. r \in 0 .. 2
    <3>1. k \in Nat
      BY <1>1
    <3> QED
      BY <3>1
  <2> HIDE DEF i, j, r
  <2>4. (i * w + j) * 3 + 2 - r = m
    BY <1>1, <2>1, <2>3
  <2>5. m \in 0 .. 3 * w * h - 1 /\ m \div (3 * w) = i /\ m % (3 * w) = 3 * j + c
    <3>1. i \in 0 .. h - 1 /\ j \in 0 .. w - 1 /\ c \in 0 .. 2
      BY <2>1
    <3>2. w \in Nat \ {0} /\ h \in Nat \ {0}
      BY <1>1
    <3> HIDE DEF c
    <3> QED
      BY <3>1, <3>2, ByteAt
  <2> HIDE DEF c, m
  <2>6. 54 + (i * s + (3 * j + c)) = at
    <3>0. s \in Int /\ i \in Int
      <4>1. s \in Int
        BY <1>1, Stride
      <4>2. i \in Int
        BY <1>1, <2>1
      <4> QED
        BY <4>1, <4>2
    <3> HIDE DEF s
    <3>1. i * s \in Int
      BY <3>0
    <3>2. at = 54 + i * s + 3 * j + c
      BY DEF Place, RowStart, s
    <3> QED
      BY <2>1, <3>1, <3>2
  <2>7. raw[m] = IF at < Len(f) THEN f[at + 1] ELSE Uninitialized
    <3> HIDE DEF s, at
    <3> QED
      BY <1>7, <2>5, <2>6
  <2>8. at < Len(f)
    BY <1>8, <2>1, PlaceGrows
  <2>9. f[at + 1] = rgb[k]
    BY <2>1, <2>8, ByteRead
  <2> QED
    BY <2>2, <2>4, <2>7, <2>8, <2>9
<1>9. OpenBMPFile(f).rgb = image
  BY <1>5 DEF Image
<1> QED
  BY <1>5, <1>6, <1>8, <1>9

-----------------------------------------------------------------------------
(***************************************************************************)
(* The images that the callers give to the writers.                        *)
(***************************************************************************)
LEMMA PixelAt ==
    ASSUME NEW w, NEW h, ImageSize(w, h), NEW p \in 0 .. w * h - 1, NEW c \in 0 .. 2
    PROVE  3 * p + c \in 0 .. 3 * w * h - 1 /\ (3 * p + c) \div 3 = p /\ (3 * p + c) % 3 = c
<1> DEFINE n == w * h
<1>1. n \in Nat /\ 3 * w * h = 3 * n
  BY DEF ImageSize
<1> HIDE DEF n
<1>2. p \in 0 .. n - 1
  BY DEF n
<1> QED
  BY <1>1, <1>2

LEMMA PixelParts ==
    ASSUME NEW w, NEW h, ImageSize(w, h), NEW k \in 0 .. 3 * w * h - 1
    PROVE  k % 3 \in 0 .. 2 /\ (k % 3) + 1 \in 1 .. 3 /\ k \div 3 \in 0 .. w * h - 1
<1>1. k % 3 \in 0 .. 2 /\ k \div 3 \in 0 .. w * h - 1
  BY ByteIs DEF ImageSize
<1> DEFINE r == k % 3
<1> HIDE DEF r
<1>2. r \in 0 .. 2
  BY <1>1 DEF r
<1>3. r + 1 \in 1 .. 3
  BY <1>2
<1> QED
  BY <1>1, <1>3 DEF r

LEMMA ByteIsColour ==
    ASSUME NEW k \in Int
    PROVE  Byte(k) \in Colour
BY DEF Byte, Colour

LEMMA PackedIs ==
    ASSUME NEW w, NEW h, ImageSize(w, h), NEW planes,
           \A c \in 1 .. 3, p \in 0 .. w * h - 1 : planes[c][p] \in Colour
    PROVE  Packed(planes, w, h) \in RgbOf(w, h) /\ PlanesOf(planes, w, h, Packed(planes, w, h))
<1> DEFINE rgb == Packed(planes, w, h)
<1>1. /\ rgb = [k \in 0 .. 3 * w * h - 1 |-> rgb[k]]
      /\ \A k \in 0 .. 3 * w * h - 1 : rgb[k] = planes[(k % 3) + 1][k \div 3]
  BY DEF Packed
<1> HIDE DEF rgb
<1>2. ASSUME NEW k \in 0 .. 3 * w * h - 1
      PROVE  rgb[k] \in Colour
  BY <1>1, PixelParts
<1>3. ASSUME NEW p \in 0 .. w * h - 1, NEW c \in 0 .. 2
      PROVE  planes[c + 1][p] = rgb[3 * p + c]
  <2> DEFINE k == 3 * p + c
  <2>1. k \in 0 .. 3 * w * h - 1 /\ k \div 3 = p /\ k % 3 = c
    BY PixelAt
  <2> HIDE DEF k
  <2>2. rgb[k] = planes[c + 1][p]
    BY <1>1, <2>1
  <2> QED
    BY <2>2 DEF k
<1>4. rgb \in RgbOf(w, h)
  BY <1>1, <1>2 DEF RgbOf
<1> QED
  BY <1>3, <1>4 DEF PlanesOf, rgb

LEMMA InterleavedIs ==
    ASSUME NEW w, NEW h, ImageSize(w, h), NEW pixels,
           \A p \in 0 .. w * h - 1, c \in 1 .. 3 : pixels[p][c] \in Colour
    PROVE  Interleaved(pixels, w, h) \in RgbOf(w, h)
<1> DEFINE rgb == Interleaved(pixels, w, h)
<1>1. /\ rgb = [k \in 0 .. 3 * w * h - 1 |-> rgb[k]]
      /\ \A k \in 0 .. 3 * w * h - 1 : rgb[k] = pixels[k \div 3][(k % 3) + 1]
  BY DEF Interleaved
<1> HIDE DEF rgb
<1>2. ASSUME NEW k \in 0 .. 3 * w * h - 1
      PROVE  rgb[k] \in Colour
  BY <1>1, PixelParts
<1>3. rgb \in RgbOf(w, h)
  BY <1>1, <1>2 DEF RgbOf
<1> QED
  BY <1>3 DEF rgb

\* SaveImage and SaveImage_3plane.
LEMMA ColoursMade ==
    ASSUME NEW w, NEW h, ImageSize(w, h)
    PROVE  LET rgb == [k \in 0 .. 3 * w * h - 1 |-> Byte(k)]
               plane(c) == [k \in 0 .. w * h - 1 |-> Byte(3 * k + c)]
           IN  /\ rgb \in RgbOf(w, h) /\ PlanesOf(SaveImage(rgb, w, h), w, h, rgb)
               /\ PlanesOf(SaveImage_3plane(plane(0), plane(1), plane(2)), w, h, rgb)
<1> DEFINE rgb == [k \in 0 .. 3 * w * h - 1 |-> Byte(k)]
           plane(c) == [k \in 0 .. w * h - 1 |-> Byte(3 * k + c)]
<1>1. rgb \in RgbOf(w, h) /\ \A k \in 0 .. 3 * w * h - 1 : rgb[k] = Byte(k)
  <2>1. \A k \in 0 .. 3 * w * h - 1 : Byte(k) \in Colour
    BY ByteIsColour DEF ImageSize
  <2> QED
    BY <2>1 DEF RgbOf
<1>2. PlanesOf(SaveImage(rgb, w, h), w, h, rgb)
  <2> DEFINE planes == SaveImage(rgb, w, h)
  <2> HIDE DEF rgb
  <2>1. ASSUME NEW p \in 0 .. w * h - 1, NEW c \in 0 .. 2
        PROVE  planes[c + 1][p] = rgb[3 * p + c]
    <3>1. c + 1 \in 1 .. 3 /\ 3 * p + (c + 1) - 1 = 3 * p + c
      BY DEF ImageSize
    <3>2. planes[c + 1][p] = rgb[3 * p + (c + 1) - 1]
      BY <3>1 DEF SaveImage
    <3> QED
      BY <3>1, <3>2
  <2> QED
    BY <2>1 DEF PlanesOf
<1>3. PlanesOf(SaveImage_3plane(plane(0), plane(1), plane(2)), w, h, rgb)
  <2>1. ASSUME NEW p \in 0 .. w * h - 1, NEW c \in 0 .. 2
        PROVE  SaveImage_3plane(plane(0), plane(1), plane(2))[c + 1][p] = rgb[3 * p + c]
    <3>1. rgb[3 * p + c] = Byte(3 * p + c)
      <4>1. 3 * p + c \in 0 .. 3 * w * h - 1
        BY PixelAt
      <4> HIDE DEF rgb
      <4> QED
        BY <1>1, <4>1
    <3>2. plane(0)[p] = Byte(3 * p + 0) /\ plane(1)[p] = Byte(3 * p + 1)
          /\ plane(2)[p] = Byte(3 * p + 2)
      OBVIOUS
    <3>3. c = 0 \/ c = 1 \/ c = 2
      OBVIOUS
    <3> HIDE DEF rgb, plane
    <3> QED
      BY <3>1, <3>2, <3>3 DEF SaveImage_3plane
  <2> HIDE DEF rgb, plane
  <2> QED
    BY <2>1 DEF PlanesOf
<1> QED
  BY <1>1, <1>2, <1>3

\* SaveImage_gray and, of an image with bytes between its rows, SaveImage_gray2.
LEMMA GrayMade ==
    ASSUME NEW w, NEW h, ImageSize(w, h), NEW P, P \in Nat, P >= w
    PROVE  LET gray == [k \in 0 .. 3 * w * h - 1 |-> Byte(k \div 3)]
               plain == [k \in 0 .. w * h - 1 |-> Byte(k)]
               pitched == [x \in 0 .. P * h - 1 |->
                              IF x % P < w THEN Byte((x \div P) * w + (x % P)) ELSE 255]
           IN  /\ gray \in RgbOf(w, h)
               /\ PlanesOf(SaveImage_gray(plain, w, h), w, h, gray)
               /\ PlanesOf(SaveImage_gray2(pitched, w, h, P), w, h, gray)
<1> DEFINE gray == [k \in 0 .. 3 * w * h - 1 |-> Byte(k \div 3)]
           plain == [k \in 0 .. w * h - 1 |-> Byte(k)]
           pitched == [x \in 0 .. P * h - 1 |->
                          IF x % P < w THEN Byte((x \div P) * w + (x % P)) ELSE 255]
<1>1. w \in Nat \ {0} /\ h \in Nat \ {0} /\ P \in Nat \ {0}
  BY DEF ImageSize
<1>2. gray \in RgbOf(w, h) /\ \A k \in 0 .. 3 * w * h - 1 : gray[k] = Byte(k \div 3)
  <2>1. ASSUME NEW k \in 0 .. 3 * w * h - 1
        PROVE  Byte(k \div 3) \in Colour
    <3>1. k \in Int
      BY <1>1
    <3>2. k \div 3 \in Int
      BY <3>1
    <3> QED
      BY <3>2, ByteIsColour
  <2> QED
    BY <2>1 DEF RgbOf
<1> HIDE DEF gray
<1>3. ASSUME NEW p \in 0 .. w * h - 1, NEW c \in 0 .. 2
      PROVE  gray[3 * p + c] = Byte(p)
  <2> DEFINE k == 3 * p + c
  <2>1. k \in 0 .. 3 * w * h - 1 /\ k \div 3 = p
    BY PixelAt
  <2> HIDE DEF k
  <2>2. gray[k] = Byte(p)
    BY <1>2, <2>1
  <2> QED
    BY <2>2 DEF k
<1>4. ASSUME NEW planes, NEW plane, planes = <<plane, plane, plane>>,
             \A p \in 0 .. w * h - 1 : plane[p] = Byte(p)
      PROVE  PlanesOf(planes, w, h, gray)
  <2>1. ASSUME NEW p \in 0 .. w * h - 1, NEW c \in 0 .. 2
        PROVE  planes[c + 1][p] = Byte(p)
    <3>1. c = 0 \/ c = 1 \/ c = 2
      OBVIOUS
    <3> QED
      BY <1>4, <3>1
  <2> QED
    BY <1>3, <2>1 DEF PlanesOf
<1>5. PlanesOf(SaveImage_gray(plain, w, h), w, h, gray)
  <2> DEFINE plane == [k \in 0 .. w * h - 1 |-> plain[k]]
  <2>1. SaveImage_gray(plain, w, h) = <<plane, plane, plane>>
    BY DEF SaveImage_gray
  <2>2. \A p \in 0 .. w * h - 1 : plane[p] = Byte(p)
    OBVIOUS
  <2> HIDE DEF plane, plain
  <2> QED
    BY <1>4, <2>1, <2>2
<1>6. PlanesOf(SaveImage_gray2(pitched, w, h, P), w, h, gray)
  <2> DEFINE plane == [k \in 0 .. w * h - 1 |-> pitched[(k \div w) * P + (k % w)]]
  <2>1. SaveImage_gray2(pitched, w, h, P) = <<plane, plane, plane>>
    BY DEF SaveImage_gray2
  <2>2. \A x \in 0 .. P * h - 1 :
           pitched[x] = IF x % P < w THEN Byte((x \div P) * w + (x % P)) ELSE 255
    OBVIOUS
  <2>3. \A k \in 0 .. w * h - 1 : plane[k] = pitched[(k \div w) * P + (k % w)]
    <3> HIDE DEF pitched
    <3> QED
      OBVIOUS
  <2> HIDE DEF plane, pitched
  <2>4. ASSUME NEW p \in 0 .. w * h - 1
        PROVE  plane[p] = Byte(p)
    <3> DEFINE i == p \div w
               j == p % w
               x == i * P + j
    <3>1. i \in 0 .. h - 1 /\ j \in 0 .. w - 1 /\ p = i * w + j
      <4>1. p \in Nat
        BY <1>1
      <4> QED
        BY <1>1, <4>1, RowsAre, DivParts
    <3>2. plane[p] = pitched[x]
      BY <2>3
    <3> HIDE DEF i, j
    <3>3. j \in 0 .. P - 1 /\ j < w
      BY <1>1, <3>1
    <3>4. x \in 0 .. P * h - 1 /\ x \div P = i /\ x % P = j
      BY <1>1, <3>1, <3>3, PlaceIs
    <3> HIDE DEF x
    <3>5. pitched[x] = Byte(i * w + j)
      BY <2>2, <3>3, <3>4
    <3> QED
      BY <3>1, <3>2, <3>5
  <2> QED
    BY <1>4, <2>1, <2>4
<1> QED
  BY <1>2, <1>5, <1>6 DEF gray

\* SaveImage_gray2_u16 stretches its values to bytes.
LEMMA LowestIs ==
    ASSUME NEW S \in SUBSET Nat, S /= {}
    PROVE  Min2(S) \in S /\ \A x \in S : Min2(S) <= x
<1>1. \E n \in S : \A m \in S : n <= m
  BY LeastElement
<1> QED
  BY <1>1 DEF Min2

LEMMA HighestIs ==
    ASSUME NEW b \in Nat, NEW S \in SUBSET (0 .. b), S /= {}
    PROVE  Max2(S) \in S /\ \A x \in S : Max2(S) >= x
<1> DEFINE T == {b - x : x \in S}
<1>1. T \in SUBSET Nat /\ T /= {}
  <2>1. \A x \in S : b - x \in Nat
    OBVIOUS
  <2>2. \A y \in T : y \in Nat
    BY <2>1
  <2>3. PICK x \in S : TRUE
    OBVIOUS
  <2>4. b - x \in T
    OBVIOUS
  <2> HIDE DEF T
  <2> QED
    BY <2>2, <2>4
<1>2. PICK n \in T : \A m \in T : n <= m
  <2> HIDE DEF T
  <2> QED
    BY <1>1, LeastElement
<1>3. PICK y \in S : n = b - y
  OBVIOUS
<1>4. \A x \in S : y >= x
  <2>1. \A x \in S : b - x \in T
    OBVIOUS
  <2> HIDE DEF T
  <2>2. \A x \in S : b - y <= b - x
    BY <1>2, <1>3, <2>1
  <2> QED
    BY <2>2
<1> QED
  BY <1>3, <1>4 DEF Max2

LEMMA Stretched ==
    ASSUME NEW low \in Nat, NEW high \in Nat, NEW v \in low .. high, high /= low
    PROVE  (255 * (v - low)) \div (high - low) \in 0 .. 255
<1> DEFINE a == v - low
           d == high - low
<1>1. d \in Nat \ {0} /\ a \in 0 .. d
  OBVIOUS
<1> HIDE DEF a, d
<1> DEFINE n == 255 * a
<1>2. n \in Nat /\ n <= 255 * d
  BY <1>1
<1> HIDE DEF n
<1> DEFINE q == n \div d
<1>3. q \in Nat /\ n % d >= 0 /\ n % d \in Int /\ n = q * d + (n % d)
  BY <1>1, <1>2, DivParts
<1> HIDE DEF q
<1>4. q * d \in Int /\ q * d <= 255 * d
  BY <1>1, <1>2, <1>3
<1>5. ASSUME q > 255 PROVE FALSE
  <2>1. q * d >= 256 * d
    BY <1>1, <1>3, <1>5
  <2> QED
    BY <1>1, <1>4, <2>1
<1>6. q \in 0 .. 255
  BY <1>3, <1>5
<1> QED
  BY <1>6 DEF q, n, a, d

AreDepths(in, n) == \A x \in 0 .. n - 1 : in[x] \in Nat /\ in[x] < 65536

LEMMA DepthMade ==
    ASSUME NEW w, NEW h, ImageSize(w, h), NEW P, P \in Nat, P >= w, NEW in,
           AreDepths(in, P * h), NEW z \in Colour
    PROVE  LET planes == SaveImage_gray2_u16(in, w, h, P, z)
           IN  /\ Packed(planes, w, h) \in RgbOf(w, h)
               /\ PlanesOf(planes, w, h, Packed(planes, w, h))
<1> DEFINE values == {in[i * P + j] : i \in 0 .. h - 1, j \in 0 .. w - 1} \ {32768}
           minV == IF values = {} THEN 65535 ELSE Min2(values)
           maxV == IF values = {} THEN 0 ELSE Max2(values)
           value(k) == in[(k \div w) * P + (k % w)]
           plane == [k \in 0 .. w * h - 1 |->
                        LET v == in[(k \div w) * P + (k % w)]
                        IN  IF v = 32768 THEN 255
                            ELSE IF maxV = minV THEN z
                            ELSE (255 * (v - minV)) \div (maxV - minV)]
           planes == SaveImage_gray2_u16(in, w, h, P, z)
<1>1. w \in Nat \ {0} /\ h \in Nat \ {0} /\ P \in Nat \ {0}
  BY DEF ImageSize
<1>2. planes = <<plane, plane, plane>>
  BY DEF SaveImage_gray2_u16
<1>3. \A k \in 0 .. w * h - 1 :
         plane[k] = IF value(k) = 32768 THEN 255
                    ELSE IF maxV = minV THEN z
                    ELSE (255 * (value(k) - minV)) \div (maxV - minV)
  <2> HIDE DEF minV, maxV, values
  <2> QED
    OBVIOUS
<1>4. ASSUME NEW i \in 0 .. h - 1, NEW j \in 0 .. w - 1
      PROVE  /\ in[i * P + j] \in Nat /\ in[i * P + j] < 65536
             /\ in[i * P + j] \in values \/ in[i * P + j] = 32768
  <2>1. i * P + j \in 0 .. P * h - 1
    <3>1. j \in 0 .. P - 1
      BY <1>1
    <3> QED
      BY <1>1, <3>1, PlaceIs
  <2>2. in[i * P + j] \in Nat /\ in[i * P + j] < 65536
    BY <2>1 DEF AreDepths
  <2> QED
    BY <2>2
<1>5. \A v \in values : v \in Nat /\ v < 65536
  BY <1>4
<1>6. \A v \in values : minV \in Nat /\ maxV \in Nat /\ v \in minV .. maxV
  <2> HIDE DEF values
  <2> SUFFICES ASSUME NEW v \in values
               PROVE  minV \in Nat /\ maxV \in Nat /\ v \in minV .. maxV
    OBVIOUS
  <2>1. values \in SUBSET Nat /\ values /= {} /\ v \in Nat
    BY <1>5
  <2>2. minV \in Nat /\ minV <= v
    <3>1. Min2(values) \in values /\ \A x \in values : Min2(values) <= x
      BY <2>1, LowestIs
    <3>2. minV = Min2(values)
      BY <2>1
    <3> HIDE DEF minV, maxV
    <3>3. Min2(values) \in Nat
      BY <2>1, <3>1
    <3> QED
      BY <3>1, <3>2, <3>3
  <2>3. maxV \in Nat /\ maxV >= v
    <3> DEFINE b == 65536
    <3>1. b \in Nat /\ \A x \in values : x \in Nat /\ x <= b
      BY <1>5
    <3> HIDE DEF b
    <3>2. values \in SUBSET (0 .. b)
      BY <3>1
    <3> QED
      <4>1. Max2(values) \in values /\ \A x \in values : Max2(values) >= x
        BY <2>1, <3>1, <3>2, HighestIs
      <4> QED
        BY <2>1, <4>1
  <2> HIDE DEF minV, maxV
  <2> QED
    BY <2>1, <2>2, <2>3
<1> HIDE DEF values, minV, maxV, plane, planes
<1>7. ASSUME NEW k \in 0 .. w * h - 1
      PROVE  plane[k] \in Colour
  <2>1. k \div w \in 0 .. h - 1 /\ k % w \in 0 .. w - 1
    BY <1>1, RowsAre
  <2>2. value(k) \in values \/ value(k) = 32768
    BY <1>4, <2>1
  <2> HIDE DEF value
  <2>3. CASE value(k) = 32768
    <3>1. plane[k] = 255
      BY <1>3, <2>3
    <3> QED
      BY <3>1 DEF Colour
  <2>4. CASE value(k) /= 32768 /\ maxV = minV
    BY <1>3, <2>4
  <2>5. CASE value(k) /= 32768 /\ maxV /= minV
    <3>1. plane[k] = (255 * (value(k) - minV)) \div (maxV - minV)
      BY <1>3, <2>5
    <3>2. minV \in Nat /\ maxV \in Nat /\ value(k) \in minV .. maxV
      BY <1>6, <2>2, <2>5
    <3> DEFINE v == value(k)
               q == (255 * (v - minV)) \div (maxV - minV)
    <3>3. plane[k] = q /\ v \in minV .. maxV
      BY <3>1, <3>2
    <3> HIDE DEF v
    <3>4. q \in 0 .. 255
      BY <2>5, <3>2, <3>3, Stretched
    <3> HIDE DEF q
    <3> QED
      BY <3>3, <3>4 DEF Colour
  <2> QED
    BY <2>3, <2>4, <2>5
<1>8. \A c \in 1 .. 3, p \in 0 .. w * h - 1 : planes[c][p] \in Colour
  <2>1. \A c \in 1 .. 3 : planes[c] = plane
    BY <1>2
  <2> QED
    BY <1>7, <2>1
<1>9. Packed(planes, w, h) \in RgbOf(w, h) /\ PlanesOf(planes, w, h, Packed(planes, w, h))
  BY <1>8, PackedIs
<1> QED
  BY <1>9 DEF planes

\* The inputs of SaveImage_gray2_u16 are 16-bit values.
LEMMA ValueIs ==
    ASSUME NEW x \in Int
    PROVE  (100 * x) % 65536 \in Nat /\ (100 * x) % 65536 < 65536
OBVIOUS

LEMMA TestMade ==
    ASSUME NEW w, NEW h, ImageSize(w, h)
    PROVE  LET planes == bmp_write_test(w, h)
           IN  /\ Packed(planes, w, h) \in RgbOf(w, h)
               /\ PlanesOf(planes, w, h, Packed(planes, w, h))
<1> DEFINE planes == bmp_write_test(w, h)
<1>1. \A c \in 1 .. 3, p \in 0 .. w * h - 1 : planes[c][p] = 255 \/ planes[c][p] = 0
  BY DEF bmp_write_test
<1> HIDE DEF planes
<1>2. \A c \in 1 .. 3, p \in 0 .. w * h - 1 : planes[c][p] \in Colour
  BY <1>1 DEF Colour
<1>3. Packed(planes, w, h) \in RgbOf(w, h) /\ PlanesOf(planes, w, h, Packed(planes, w, h))
  BY <1>2, PackedIs
<1> QED
  BY <1>3 DEF planes

-----------------------------------------------------------------------------
(***************************************************************************)
(* The disk holds what the last writer left of the image it was given, and *)
(* the last reader found what the disk holds.                              *)
(***************************************************************************)
Given(whole, w, h, rgb) == [whole |-> whole, w |-> w, h |-> h, rgb |-> rgb]
FileHolds(f, g) ==
    /\ g = Given(g.whole, g.w, g.h, g.rgb)
    /\ ImageSize(g.w, g.h) /\ Fits(g.w, g.h) /\ g.rgb \in RgbOf(g.w, g.h)
    /\ DiskOf(f, g.w, g.h, g.rgb)
    /\ g.whole => Len(f) = FileSize(g.w, g.h)
DiskHolds(f, g) ==
    \/ f = << >> /\ ~g.whole
    \/ FileHolds(f, g)
ReadOf(by, bgr, lost, w, h, rgb) ==
    [ok |-> TRUE, by |-> by, bgr |-> bgr, lost |-> lost, w |-> w, h |-> h, rgb |-> rgb]
\* The bytes of a pixel the output buffers never got.
Kept(bytes, lost, k) == IF k % 3 \in lost THEN Uninitialized ELSE bytes[k]
\* Whole, an image is what was written but for the bytes that other buffers gave; or,
\* read by bmp_read, all but one byte of it.
ReadHolds(r, g) ==
    /\ r = ReadOf(r.by, r.bgr, r.lost, g.w, g.h, r.rgb)
    /\ r.bgr \in BOOLEAN /\ IsRgb(r.rgb, g.w, g.h) /\ r.lost \subseteq {0, 2}
    /\ g.whole => \A k \in 0 .. 3 * g.w * g.h - 1 :
                     r.rgb[k] = Kept(Colours(g.rgb, r.bgr), r.lost, k)
    /\ r.by = "bmp_read" /\ r.lost = {} =>
          \A k \in 0 .. 3 * g.w * g.h - 1 :
             \/ Colours(r.rgb, r.bgr)[k] = g.rgb[k]
             \/ k = 3 * (g.w - 1) /\ Colours(r.rgb, r.bgr)[k] = EOF
GotHolds(r, f, g) ==
    \/ r = Refused(r.by) /\ (g.whole => r.by = "")
    \/ FileHolds(f, g) /\ ReadHolds(r, g)
FilesInv == DiskHolds(disk, given) /\ GotHolds(got, disk, given)

\* Exchanging red and blue, twice the identity.
Mirrored(k) == k + 2 - 2 * (k % 3)

LEMMA MirroredIs ==
    ASSUME NEW w, NEW h, ImageSize(w, h), NEW k \in 0 .. 3 * w * h - 1
    PROVE  /\ Mirrored(k) \in 0 .. 3 * w * h - 1 /\ Mirrored(Mirrored(k)) = k
           /\ k % 3 = 2 => Mirrored(k) = k - 2
           /\ k % 3 = 1 => Mirrored(k) = k
           /\ k % 3 = 0 => Mirrored(k) = k + 2
           /\ k % 3 \in 0 .. 2
<1> DEFINE n == w * h
<1>1. n \in Nat /\ 3 * w * h = 3 * n
  BY DEF ImageSize
<1> HIDE DEF n
<1>2. k \in 0 .. 3 * n - 1
  BY <1>1
<1> DEFINE q == k \div 3
           r == k % 3
<1>3. q \in 0 .. n - 1 /\ r \in 0 .. 2 /\ k = 3 * q + r
  BY <1>1, <1>2
<1>4. Mirrored(k) = k + 2 - 2 * r
  BY DEF Mirrored
<1> HIDE DEF q, r
<1>5. Mirrored(k) = 3 * q + (2 - r)
  BY <1>3, <1>4
<1>6. (3 * q + (2 - r)) % 3 = 2 - r
  BY <1>3
<1>7. Mirrored(Mirrored(k)) = (3 * q + (2 - r)) + 2 - 2 * (2 - r)
  BY <1>5, <1>6 DEF Mirrored
<1>8. Mirrored(Mirrored(k)) = k
  BY <1>3, <1>7
<1>9. Mirrored(k) \in 0 .. 3 * n - 1
  BY <1>1, <1>3, <1>5
<1>10. /\ r = 2 => Mirrored(k) = k - 2
       /\ r = 1 => Mirrored(k) = k
       /\ r = 0 => Mirrored(k) = k + 2
  BY <1>2, <1>3, <1>4
<1> QED
  BY <1>1, <1>3, <1>8, <1>9, <1>10 DEF r

LEMMA MirrorsPlace ==
    ASSUME NEW k \in Nat
    PROVE  Mirrored(k) % 3 = 2 - (k % 3)
<1> DEFINE q == k \div 3
           r == k % 3
<1>1. q \in Nat /\ r \in 0 .. 2 /\ k = 3 * q + r
  OBVIOUS
<1>2. Mirrored(k) = k + 2 - 2 * r
  BY DEF Mirrored
<1> HIDE DEF q, r
<1>3. Mirrored(k) = 3 * q + (2 - r)
  BY <1>1, <1>2
<1>4. (3 * q + (2 - r)) % 3 = 2 - r
  BY <1>1
<1> QED
  BY <1>3, <1>4 DEF r

LEMMA ColoursIs ==
    ASSUME NEW w, NEW h, NEW rgb, IsRgb(rgb, w, h), NEW bgr
    PROVE  /\ IsRgb(Colours(rgb, bgr), w, h)
           /\ \A k \in 0 .. 3 * w * h - 1 :
                 Colours(rgb, bgr)[k] = IF bgr THEN rgb[Mirrored(k)] ELSE rgb[k]
<1>1. DOMAIN rgb = 0 .. 3 * w * h - 1
  BY DEF IsRgb
<1> QED
  BY <1>1 DEF Colours, Mirrored, IsRgb

\* What convertRGB2BGR makes of the bytes, in place or in a fresh buffer.
Exchanged(rgb, fresh) ==
    convertRGB2BGR(rgb, IF fresh THEN [k \in DOMAIN rgb |-> Uninitialized] ELSE rgb)
LostBy(lost, fresh) == {2 - c : c \in lost} \cup (IF fresh THEN {0} ELSE {})

LEMMA Swapped ==
    ASSUME NEW w, NEW h, ImageSize(w, h), NEW rgb, IsRgb(rgb, w, h), NEW fresh \in BOOLEAN
    PROVE  LET out == Exchanged(rgb, fresh)
           IN  /\ IsRgb(out, w, h)
               /\ \A k \in 0 .. 3 * w * h - 1 :
                     out[k] = IF fresh /\ k % 3 = 0 THEN Uninitialized ELSE rgb[Mirrored(k)]
<1> DEFINE out == Exchanged(rgb, fresh)
           target == IF fresh THEN [k \in DOMAIN rgb |-> Uninitialized] ELSE rgb
<1>1. DOMAIN rgb = 0 .. 3 * w * h - 1
  BY DEF IsRgb
<1>2. \A k \in 0 .. 3 * w * h - 1 : target[k] = IF fresh THEN Uninitialized ELSE rgb[k]
  BY <1>1
<1> HIDE DEF target
<1>3. out = convertRGB2BGR(rgb, target)
  BY DEF Exchanged, target
<1>4. /\ IsRgb(out, w, h)
      /\ \A k \in 0 .. 3 * w * h - 1 :
            out[k] = CASE k % 3 = 2 -> rgb[k - 2] [] k % 3 = 1 -> rgb[k]
                       [] OTHER -> target[k + 2]
  BY <1>1, <1>3 DEF convertRGB2BGR, IsRgb
<1> HIDE DEF out
<1>5. ASSUME NEW k \in 0 .. 3 * w * h - 1
      PROVE  out[k] = IF fresh /\ k % 3 = 0 THEN Uninitialized ELSE rgb[Mirrored(k)]
  <2> DEFINE r == k % 3
             m == Mirrored(k)
  <2>1. /\ r \in 0 .. 2 /\ m \in 0 .. 3 * w * h - 1
        /\ r = 2 => m = k - 2
        /\ r = 1 => m = k
        /\ r = 0 => m = k + 2
    BY MirroredIs
  <2>2. out[k] = CASE r = 2 -> rgb[k - 2] [] r = 1 -> rgb[k] [] OTHER -> target[k + 2]
    BY <1>4
  <2> HIDE DEF r, m
  <2>3. target[m] = IF fresh THEN Uninitialized ELSE rgb[m]
    BY <1>2, <2>1
  <2>4. out[k] = IF fresh /\ r = 0 THEN Uninitialized ELSE rgb[m]
    BY <2>1, <2>2, <2>3
  <2> QED
    BY <2>4 DEF r, m
<1> QED
  BY <1>4, <1>5 DEF out

\* convertRGB2BGR keeps what is known of the image, in its other order of colours.
LEMMA SwapKept ==
    ASSUME NEW g, ImageSize(g.w, g.h), g.rgb \in RgbOf(g.w, g.h), NEW r, ReadHolds(r, g),
           NEW fresh \in BOOLEAN,
           NEW next, next = ReadOf(r.by, ~r.bgr, LostBy(r.lost, fresh), g.w, g.h,
                                   Exchanged(r.rgb, fresh))
    PROVE  ReadHolds(next, g)
<1> DEFINE w == g.w
           h == g.h
           given0 == g.rgb
           rgb == r.rgb
           lost == r.lost
           out == Exchanged(rgb, fresh)
           bgr == r.bgr
           swap == ~bgr
           lost2 == LostBy(lost, fresh)
<1>1. IsRgb(rgb, w, h) /\ bgr \in BOOLEAN /\ lost \subseteq {0, 2}
  BY DEF ReadHolds
<1>2. IsRgb(given0, w, h)
  BY DEF RgbOf, IsRgb
<1>3. ImageSize(w, h)
  OBVIOUS
<1>4. /\ g.whole => \A k \in 0 .. 3 * w * h - 1 : rgb[k] = Kept(Colours(given0, bgr), lost, k)
      /\ r.by = "bmp_read" /\ lost = {} =>
            \A k \in 0 .. 3 * w * h - 1 :
               \/ Colours(rgb, bgr)[k] = given0[k]
               \/ k = 3 * (w - 1) /\ Colours(rgb, bgr)[k] = EOF
  BY DEF ReadHolds
<1>5. next.by = r.by /\ next.bgr = swap /\ next.rgb = out /\ next.lost = lost2
      /\ next = ReadOf(next.by, next.bgr, next.lost, w, h, next.rgb) /\ swap \in BOOLEAN
  BY DEF ReadOf
<1>6. swap <=> ~bgr
  OBVIOUS
<1>7. /\ lost2 \subseteq {0, 2} /\ (lost2 = {} => lost = {} /\ ~fresh)
      /\ \A c \in 0 .. 2 : c \in lost2 <=> (2 - c) \in lost \/ (fresh /\ c = 0)
  BY <1>1 DEF LostBy
<1> HIDE DEF w, h, given0, rgb, bgr, swap, lost, lost2
<1>8. /\ IsRgb(out, w, h)
      /\ \A k \in 0 .. 3 * w * h - 1 :
            out[k] = IF fresh /\ k % 3 = 0 THEN Uninitialized ELSE rgb[Mirrored(k)]
  BY <1>1, <1>3, Swapped
<1> HIDE DEF out
<1>9. ASSUME NEW k \in 0 .. 3 * w * h - 1
      PROVE  /\ g.whole => out[k] = Kept(Colours(given0, swap), lost2, k)
             /\ ~fresh => Colours(out, swap)[k] = Colours(rgb, bgr)[k]
  <2> DEFINE m == Mirrored(k)
             a == k % 3
             b == m % 3
  <2>1. /\ m \in 0 .. 3 * w * h - 1 /\ Mirrored(m) = k
        /\ a \in 0 .. 2 /\ b = 2 - a
    BY <1>3, MirroredIs, MirrorsPlace
  <2> HIDE DEF m
  <2>2. /\ out[k] = IF fresh /\ a = 0 THEN Uninitialized ELSE rgb[m]
        /\ ~fresh => out[m] = rgb[k]
    BY <1>8, <2>1 DEF m
  <2>3. /\ Colours(given0, bgr)[m] = IF bgr THEN given0[k] ELSE given0[m]
        /\ Colours(given0, swap)[k] = IF swap THEN given0[m] ELSE given0[k]
    BY <1>2, <2>1, ColoursIs DEF m
  <2>4. Colours(rgb, bgr)[k] = IF bgr THEN rgb[m] ELSE rgb[k]
    BY <1>1, ColoursIs DEF m
  <2>5. Colours(out, swap)[k] = IF swap THEN out[m] ELSE out[k]
    BY <1>8, ColoursIs DEF m
  <2>6. g.whole => rgb[m] = IF b \in lost THEN Uninitialized ELSE Colours(given0, bgr)[m]
    BY <1>4, <2>1 DEF Kept
  <2>7. Kept(Colours(given0, swap), lost2, k)
          = IF a \in lost2 THEN Uninitialized ELSE Colours(given0, swap)[k]
    BY DEF Kept
  <2> HIDE DEF a, b
  <2>8. a \in lost2 <=> b \in lost \/ (fresh /\ a = 0)
    BY <1>7, <2>1
  <2>9. Colours(given0, bgr)[m] = Colours(given0, swap)[k]
    BY <1>1, <1>6, <2>3
  <2>10. g.whole => out[k] = Kept(Colours(given0, swap), lost2, k)
    BY <2>2, <2>6, <2>7, <2>8, <2>9
  <2>11. ~fresh => Colours(out, swap)[k] = Colours(rgb, bgr)[k]
    BY <1>1, <1>6, <2>2, <2>4, <2>5
  <2> QED
    BY <2>10, <2>11
<1>10. /\ g.whole => \A k \in 0 .. 3 * w * h - 1 :
                        out[k] = Kept(Colours(given0, swap), lost2, k)
       /\ r.by = "bmp_read" /\ lost2 = {} =>
             \A k \in 0 .. 3 * w * h - 1 :
                \/ Colours(out, swap)[k] = given0[k]
                \/ k = 3 * (w - 1) /\ Colours(out, swap)[k] = EOF
  BY <1>4, <1>7, <1>9
<1>11. /\ next = ReadOf(next.by, next.bgr, next.lost, w, h, next.rgb)
       /\ next.bgr \in BOOLEAN /\ IsRgb(next.rgb, w, h) /\ next.lost \subseteq {0, 2}
       /\ g.whole => \A k \in 0 .. 3 * w * h - 1 :
                       next.rgb[k] = Kept(Colours(given0, next.bgr), next.lost, k)
       /\ next.by = "bmp_read" /\ next.lost = {} =>
             \A k \in 0 .. 3 * w * h - 1 :
                \/ Colours(next.rgb, next.bgr)[k] = given0[k]
                \/ k = 3 * (w - 1) /\ Colours(next.rgb, next.bgr)[k] = EOF
  BY <1>5, <1>7, <1>8, <1>10
<1> QED
  BY <1>11 DEF ReadHolds, w, h, given0

LEMMA NothingLost ==
    ASSUME NEW bytes, NEW k
    PROVE  Kept(bytes, {}, k) = bytes[k]
BY DEF Kept

\* What either reader finds of a file.
LEMMA ReadKept ==
    ASSUME NEW f, NEW g, DiskHolds(f, g), NEW r,
           r = bmp_read(f) \/ (Len(f) >= 54 /\ r = OpenBMPFile(f))
    PROVE  GotHolds(r, f, g)
<1>1. ASSUME ~(Len(f) >= 54), ~g.whole
      PROVE  GotHolds(r, f, g)
  <2>1. ~bmp_read_header(f).ok
    BY <1>1 DEF bmp_read_header
  <2>2. r = Refused("bmp_read")
    BY <1>1, <2>1 DEF bmp_read
  <2>3. r.by = "bmp_read"
    BY <2>2 DEF Refused
  <2> QED
    BY <1>1, <2>2, <2>3 DEF GotHolds
<1>2. CASE f = << >> /\ ~g.whole
  <2>1. ~(Len(f) >= 54)
    BY <1>2
  <2> QED
    BY <1>1, <1>2, <2>1
<1>3. CASE FileHolds(f, g)
  <2> DEFINE w == g.w
             h == g.h
             rgb == g.rgb
             n == FileSize(w, h)
  <2>1. /\ ImageSize(w, h) /\ Fits(w, h) /\ rgb \in RgbOf(w, h) /\ DiskOf(f, w, h, rgb)
        /\ g.whole => Len(f) = n
    BY <1>3 DEF FileHolds
  <2>2. n \in Nat /\ n >= 54 /\ Len(f) \in Nat /\ IsRgb(rgb, w, h)
    <3>1. n \in Nat /\ n >= 54
      BY <2>1, FileSizeIs
    <3>2. f \in Seq(Int)
      BY <2>1 DEF DiskOf
    <3>3. IsRgb(rgb, w, h)
      BY <2>1 DEF RgbOf, IsRgb
    <3> QED
      BY <3>1, <3>2, <3>3
  <2> HIDE DEF w, h, rgb, n
  <2>3. ASSUME NEW x, IsRgb(x, w, h), NEW k \in 0 .. 3 * w * h - 1
        PROVE  Colours(x, FALSE)[k] = x[k]
    <3> DEFINE straight == FALSE
    <3>1. ~straight
      OBVIOUS
    <3> HIDE DEF straight
    <3>2. Colours(x, straight)[k] = x[k]
      BY <2>3, <3>1, ColoursIs
    <3> QED
      BY <3>2 DEF straight
  <2>4. ASSUME ~(Len(f) >= 54)
        PROVE  GotHolds(r, f, g)
    BY <1>1, <2>1, <2>2, <2>4
  <2>5. ASSUME Len(f) >= 54, r = bmp_read(f), r = Refused("bmp_read"), Len(f) < n
        PROVE  GotHolds(r, f, g)
    <3>1. r.by = "bmp_read"
      BY <2>5 DEF Refused
    <3>2. ~g.whole
      BY <2>1, <2>2, <2>5
    <3> QED
      BY <2>5, <3>1, <3>2 DEF GotHolds
  <2>6. ASSUME r = Image("bmp_read", w, h, r.rgb), IsRgb(r.rgb, w, h),
               \A k \in 0 .. 3 * w * h - 1 :
                  \/ r.rgb[k] = rgb[k]
                  \/ k = 3 * (w - 1) /\ r.rgb[k] = EOF /\ Len(f) < n
        PROVE  GotHolds(r, f, g)
    <3>1. /\ r = ReadOf(r.by, r.bgr, r.lost, w, h, r.rgb)
          /\ r.lost = {} /\ r.by = "bmp_read" /\ r.bgr = FALSE
      BY <2>6 DEF Image, ReadOf
    <3>2. ASSUME g.whole, NEW k \in 0 .. 3 * w * h - 1
          PROVE  r.rgb[k] = Colours(rgb, r.bgr)[k]
      <4>1. ~(Len(f) < n)
        BY <2>1, <2>2, <3>2
      <4>2. r.rgb[k] = rgb[k]
        BY <2>6, <4>1
      <4>3. Colours(rgb, FALSE)[k] = rgb[k]
        BY <2>2, <2>3
      <4> QED
        BY <3>1, <4>2, <4>3
    <3>3. ASSUME NEW k \in 0 .. 3 * w * h - 1
          PROVE  \/ Colours(r.rgb, r.bgr)[k] = rgb[k]
                 \/ k = 3 * (w - 1) /\ Colours(r.rgb, r.bgr)[k] = EOF
      <4>1. Colours(r.rgb, FALSE)[k] = r.rgb[k]
        BY <2>3, <2>6
      <4>2. Colours(r.rgb, r.bgr)[k] = r.rgb[k]
        BY <3>1, <4>1
      <4> QED
        BY <2>6, <4>2
    <3>4. r.bgr \in BOOLEAN /\ r.lost \subseteq {0, 2}
      BY <3>1
    <3>5. \A k \in 0 .. 3 * w * h - 1 :
             Kept(Colours(rgb, r.bgr), r.lost, k) = Colours(rgb, r.bgr)[k]
      BY <3>1, NothingLost
    <3>6. ReadHolds(r, g)
      BY <2>6, <3>1, <3>2, <3>3, <3>4, <3>5 DEF ReadHolds, w, h, rgb
    <3> QED
      BY <1>3, <3>6 DEF GotHolds
  <2>7. ASSUME Len(f) >= 54, r = OpenBMPFile(f)
        PROVE  GotHolds(r, f, g)
    <3>1. /\ r = Image("OpenBMPFile", w, h, r.rgb) /\ IsRgb(r.rgb, w, h)
          /\ Len(f) = n => \A k \in 0 .. 3 * w * h - 1 : r.rgb[k] = rgb[k]
      BY <2>1, <2>7, OpenRead DEF n
    <3>2. /\ r = ReadOf(r.by, r.bgr, r.lost, w, h, r.rgb)
          /\ r.lost = {} /\ r.by /= "bmp_read" /\ r.bgr = FALSE /\ r.bgr \in BOOLEAN
      <4>1. r.by = "OpenBMPFile" /\ r.bgr = FALSE /\ r.lost = {}
        BY <3>1 DEF Image
      <4> QED
        BY <3>1, <4>1 DEF Image, ReadOf
    <3>3. ASSUME g.whole, NEW k \in 0 .. 3 * w * h - 1
          PROVE  r.rgb[k] = Colours(rgb, r.bgr)[k]
      <4>1. r.rgb[k] = rgb[k]
        BY <2>1, <3>1, <3>3
      <4>2. Colours(rgb, FALSE)[k] = rgb[k]
        BY <2>2, <2>3
      <4> QED
        BY <3>2, <4>1, <4>2
    <3>4. r.lost \subseteq {0, 2}
      BY <3>2
    <3>5. \A k \in 0 .. 3 * w * h - 1 :
             Kept(Colours(rgb, r.bgr), r.lost, k) = Colours(rgb, r.bgr)[k]
      BY <3>2, NothingLost
    <3>6. ReadHolds(r, g)
      BY <3>1, <3>2, <3>3, <3>4, <3>5 DEF ReadHolds, w, h, rgb
    <3> QED
      BY <1>3, <3>6 DEF GotHolds
  <2>8. ASSUME Len(f) >= 54, r = bmp_read(f)
        PROVE  GotHolds(r, f, g)
    <3>1. \/ r = Refused("bmp_read") /\ Len(f) < n
          \/ /\ r = Image("bmp_read", w, h, r.rgb) /\ IsRgb(r.rgb, w, h)
             /\ \A k \in 0 .. 3 * w * h - 1 :
                   \/ r.rgb[k] = rgb[k]
                   \/ k = 3 * (w - 1) /\ r.rgb[k] = EOF /\ Len(f) < n
      BY <2>1, <2>8, ToolsRead DEF n
    <3> QED
      BY <2>5, <2>6, <2>8, <3>1
  <2> QED
    BY <2>4, <2>7, <2>8
<1> QED
  BY <1>2, <1>3 DEF DiskHolds

LEMMA StoredHolds ==
    ASSUME NEW w, NEW h, ImageSize(w, h), Fits(w, h), NEW rgb \in RgbOf(w, h), NEW file,
           FileOf(file, w, h, rgb), Stored(w, h, rgb, file)
    PROVE  FilesInv'
<1>1. PICK cut \in Cuts : /\ disk' = Prefix(file, cut)
                          /\ given' = Given(cut = 0, w, h, rgb)
                          /\ got' = Refused("")
  BY DEF Stored, Prefix, Given
<1>2. cut \in Nat
  BY ImageFilesAssumption
<1>3. DiskOf(disk', w, h, rgb) /\ (cut = 0 => Len(disk') = FileSize(w, h))
  BY <1>1, <1>2, DiskMade, ZenonT(60)
<1>4. /\ given' = Given((given').whole, (given').w, (given').h, (given').rgb)
      /\ ((given').whole <=> cut = 0)
      /\ (given').w = w /\ (given').h = h /\ (given').rgb = rgb
  BY <1>1 DEF Given
<1>5. FileHolds(disk', given')
  BY <1>3, <1>4 DEF FileHolds
<1>6. got' = Refused((got').by) /\ (got').by = ""
  BY <1>1 DEF Refused
<1> QED
  BY <1>5, <1>6 DEF FilesInv, DiskHolds, GotHolds

LEMMA FilesInit == ImageInit => FilesInv
<1> SUFFICES ASSUME ImageInit
             PROVE  FilesInv
  OBVIOUS
<1>1. disk = << >> /\ ~given.whole /\ got = Refused("")
  BY DEF ImageInit
<1>2. got = Refused(got.by)
  BY <1>1 DEF Refused
<1> QED
  BY <1>1, <1>2 DEF FilesInv, DiskHolds, GotHolds

LEMMA DepthWritten ==
    ASSUME NEW w, NEW h, ImageSize(w, h), Fits(w, h), WriteDepth(w, h)
    PROVE  FilesInv'
<1> DEFINE P == w + Pitch
           depths(flat, z) == SaveImage_gray2_u16(Depths(P * h, flat), w, h, P, z)
<1>1. P \in Nat /\ P >= w /\ h \in Nat
  BY ImageFilesAssumption DEF ImageSize
<1>2. PICK flat \in BOOLEAN, z \in {0, 255} :
         Stored(w, h, Packed(depths(flat, z), w, h), bmp_write(w, h, depths(flat, z)))
  BY DEF WriteDepth
<1> HIDE DEF P
<1>3. AreDepths(Depths(P * h, flat), P * h)
  <2> DEFINE n == P * h
  <2>1. n \in Int
    BY <1>1
  <2> HIDE DEF n
  <2>2. ASSUME NEW x \in 0 .. n - 1
        PROVE  Depths(n, flat)[x] \in Nat /\ Depths(n, flat)[x] < 65536
    <3>1. x \in Int
      BY <2>1
    <3>2. (100 * x) % 65536 \in Nat /\ (100 * x) % 65536 < 65536
      BY <3>1, ValueIs
    <3> QED
      BY <3>2 DEF Depths
  <2>3. AreDepths(Depths(n, flat), n)
    BY <2>2 DEF AreDepths
  <2> QED
    BY <2>3 DEF n
<1>4. z \in Colour
  BY DEF Colour
<1> DEFINE planes == depths(flat, z)
           rgb == Packed(planes, w, h)
<1>5. rgb \in RgbOf(w, h) /\ PlanesOf(planes, w, h, rgb)
  BY <1>1, <1>3, <1>4, DepthMade
<1>6. Stored(w, h, rgb, bmp_write(w, h, planes))
  BY <1>2
<1> HIDE DEF planes, rgb
<1> QED
  BY <1>5, <1>6, PlanesWritten, StoredHolds

\* Each caller of a writer.
LEMMA WritersHold ==
    ASSUME NEW w, NEW h, ImageSize(w, h), Fits(w, h),
           WriteColours(w, h) \/ WriteGray(w, h) \/ WriteDepth(w, h) \/ WriteTest(w, h)
    PROVE  FilesInv'
<1>1. w \in Nat \ {0} /\ h \in Nat \ {0}
  BY DEF ImageSize
<1>2. ASSUME WriteColours(w, h)
      PROVE  FilesInv'
  <2> DEFINE rgb == [k \in 0 .. 3 * w * h - 1 |-> Byte(k)]
             plane(c) == [k \in 0 .. w * h - 1 |-> Byte(3 * k + c)]
             one == SaveImage(rgb, w, h)
             three == SaveImage_3plane(plane(0), plane(1), plane(2))
  <2>1. rgb \in RgbOf(w, h) /\ PlanesOf(one, w, h, rgb) /\ PlanesOf(three, w, h, rgb)
    BY ColoursMade
  <2>2. \/ Stored(w, h, rgb, bmp_write(w, h, one))
        \/ Stored(w, h, rgb, bmp_write(w, h, three))
        \/ Stored(w, h, rgb, save_bmp(rgb, w, h))
    BY <1>2 DEF WriteColours
  <2> HIDE DEF rgb, plane, one, three
  <2> QED
    BY <2>1, <2>2, PlanesWritten, PixelsWritten, StoredHolds
<1>3. ASSUME WriteGray(w, h)
      PROVE  FilesInv'
  <2> DEFINE P == w + Pitch
             gray == [k \in 0 .. 3 * w * h - 1 |-> Byte(k \div 3)]
             plain == [k \in 0 .. w * h - 1 |-> Byte(k)]
             pitched == [x \in 0 .. P * h - 1 |->
                            IF x % P < w THEN Byte((x \div P) * w + (x % P)) ELSE 255]
             one == SaveImage_gray(plain, w, h)
             two == SaveImage_gray2(pitched, w, h, P)
  <2>1. P \in Nat /\ P >= w
    BY <1>1, ImageFilesAssumption
  <2>2. \/ Stored(w, h, gray, bmp_write(w, h, one))
        \/ Stored(w, h, gray, bmp_write(w, h, two))
    BY <1>3 DEF WriteGray
  <2> HIDE DEF P
  <2>3. gray \in RgbOf(w, h) /\ PlanesOf(one, w, h, gray) /\ PlanesOf(two, w, h, gray)
    BY <2>1, GrayMade
  <2> HIDE DEF gray, plain, pitched, one, two
  <2> QED
    BY <2>2, <2>3, PlanesWritten, StoredHolds
<1>4. ASSUME WriteDepth(w, h)
      PROVE  FilesInv'
  BY <1>4, DepthWritten
<1>5. ASSUME WriteTest(w, h)
      PROVE  FilesInv'
  <2> DEFINE planes == bmp_write_test(w, h)
             rgb == Packed(planes, w, h)
  <2>1. rgb \in RgbOf(w, h) /\ PlanesOf(planes, w, h, rgb)
    BY TestMade
  <2>2. Stored(w, h, rgb, bmp_write(w, h, planes))
    BY <1>5 DEF WriteTest
  <2> HIDE DEF planes, rgb
  <2> QED
    BY <2>1, <2>2, PlanesWritten, StoredHolds
<1> QED
  BY <1>2, <1>3, <1>4, <1>5

LEMMA FilesNext ==
    ASSUME SizesFit, FramesInv, FilesInv, [ImageNext]_imageVars
    PROVE  FilesInv'
<1>1. DiskHolds(disk, given) /\ GotHolds(got, disk, given)
  BY DEF FilesInv
<1>2. ASSUME NEW w \in Widths, NEW h \in Heights,
             WriteColours(w, h) \/ WriteGray(w, h) \/ WriteDepth(w, h) \/ WriteTest(w, h)
      PROVE  FilesInv'
  <2>1. ImageSize(w, h) /\ Fits(w, h)
    BY ImageFilesAssumption DEF ImageSize, SizesFit
  <2> QED
    BY <1>2, <2>1, WritersHold
<1>3. ASSUME ReadFile, UNCHANGED <<disk, given>>
      PROVE  FilesInv'
  <2>1. got' = bmp_read(disk) \/ (Len(disk) >= 54 /\ got' = OpenBMPFile(disk))
    BY <1>3 DEF ReadFile
  <2>2. GotHolds(got', disk, given)
    BY <1>1, <2>1, ReadKept
  <2> QED
    BY <1>1, <1>3, <2>2 DEF FilesInv
<1>4. ASSUME SwapColours, UNCHANGED <<disk, given>>
      PROVE  FilesInv'
  <2>1. /\ got.ok
        /\ \E fresh \in BOOLEAN :
              got' = [got EXCEPT !.rgb = Exchanged(got.rgb, fresh), !.bgr = ~got.bgr,
                                 !.lost = LostBy(got.lost, fresh)]
    <3>1. \/ got' = [got EXCEPT !.rgb = Exchanged(got.rgb, FALSE), !.bgr = ~got.bgr,
                                !.lost = LostBy(got.lost, FALSE)]
          \/ got' = [got EXCEPT !.rgb = Exchanged(got.rgb, TRUE), !.bgr = ~got.bgr,
                                !.lost = LostBy(got.lost, TRUE)]
      <4>1. /\ LostBy(got.lost, FALSE) = {2 - c : c \in got.lost}
            /\ LostBy(got.lost, TRUE) = {2 - c : c \in got.lost} \cup {0}
        BY DEF LostBy
      <4>2. /\ Exchanged(got.rgb, FALSE) = convertRGB2BGR(got.rgb, got.rgb)
            /\ Exchanged(got.rgb, TRUE)
                 = convertRGB2BGR(got.rgb, [k \in DOMAIN got.rgb |-> Uninitialized])
        BY DEF Exchanged
      <4> QED
        BY <1>4, <4>1, <4>2 DEF SwapColours
    <3> QED
      BY <1>4, <3>1 DEF SwapColours
  <2>2. got /= Refused(got.by)
    BY <2>1 DEF Refused
  <2>3. FileHolds(disk, given) /\ ReadHolds(got, given)
    BY <1>1, <2>2 DEF GotHolds
  <2>4. ImageSize(given.w, given.h) /\ given.rgb \in RgbOf(given.w, given.h)
    BY <2>3 DEF FileHolds
  <2>5. got = ReadOf(got.by, got.bgr, got.lost, given.w, given.h, got.rgb)
    BY <2>3 DEF ReadHolds
  <2>6. PICK fresh \in BOOLEAN :
              got' = [got EXCEPT !.rgb = Exchanged(got.rgb, fresh), !.bgr = ~got.bgr,
                                 !.lost = LostBy(got.lost, fresh)]
    BY <2>1
  <2>7. got' = ReadOf(got.by, ~got.bgr, LostBy(got.lost, fresh), given.w, given.h,
                      Exchanged(got.rgb, fresh))
    <3> DEFINE out == Exchanged(got.rgb, fresh)
               swap == ~got.bgr
               lost2 == LostBy(got.lost, fresh)
    <3>1. got' = [got EXCEPT !.rgb = out, !.bgr = swap, !.lost = lost2]
      BY <2>6
    <3> HIDE DEF out, swap, lost2
    <3> DEFINE r == got
               next == got'
               by == got.by
               bgr == got.bgr
               lost == got.lost
               w == given.w
               h == given.h
               rgb == got.rgb
    <3>2. /\ r = ReadOf(by, bgr, lost, w, h, rgb)
          /\ next = [r EXCEPT !.rgb = out, !.bgr = swap, !.lost = lost2]
      BY <2>5, <3>1
    <3> HIDE DEF r, next, by, bgr, lost, w, h, rgb
    <3>3. next = ReadOf(by, swap, lost2, w, h, out)
      BY <3>2 DEF ReadOf
    <3> QED
      BY <3>3 DEF out, swap, lost2, next, by, w, h
  <2>8. ReadHolds(got', given)
    BY <2>3, <2>4, <2>7, SwapKept
  <2> QED
    BY <1>1, <1>4, <2>3, <2>8 DEF FilesInv, GotHolds
<1>5. ASSUME SaveAsBmp
      PROVE  FilesInv'
  <2> DEFINE w == frame.w
             h == frame.h
             pixels == upsampled(PlanarData(frame), w, h)
             rgb == Interleaved(pixels, w, h)
  <2>1. frame.layout /= "none" /\ Stored(w, h, rgb, save_bmp(rgb, w, h))
    BY <1>5 DEF SaveAsBmp, PlanarData
  <2>2. FrameHolds(frame) /\ <<w, h>> \in FrameSizes
    BY <2>1 DEF FramesInv, FrameHolds
  <2>3. ImageSize(w, h) /\ Fits(w, h)
    <3>1. <<w, h>>[1] = w /\ <<w, h>>[2] = h
      OBVIOUS
    <3>2. FrameSize(w, h)
      BY <2>2, SizesAre
    <3> QED
      BY <2>2, <3>1, <3>2 DEF SizesFit, ImageSize, FrameSize
  <2>4. \A k \in 0 .. w * h - 1, c \in 1 .. 3 : pixels[k][c] \in Colour
    BY <2>1, <2>2, PicturesShown DEF Colour
  <2> HIDE DEF w, h, pixels
  <2>5. rgb \in RgbOf(w, h)
    BY <2>3, <2>4, InterleavedIs
  <2> HIDE DEF rgb
  <2> QED
    BY <2>1, <2>3, <2>5, PixelsWritten, StoredHolds
<1>6. ASSUME UNCHANGED <<disk, given, got>>
      PROVE  FilesInv'
  BY <1>1, <1>6 DEF FilesInv
<1>7. ASSUME FileNext
      PROVE  FilesInv'
  BY <1>2, <1>3, <1>4, <1>7 DEF FileNext
<1>8. ASSUME FrameNext
      PROVE  FilesInv'
  BY <1>5, <1>6, <1>8 DEF FrameNext, Load, Readout, Convert, ToPlanes
<1>9. CASE UNCHANGED imageVars
  BY <1>6, <1>9 DEF imageVars
<1> QED
  BY <1>7, <1>8, <1>9 DEF ImageNext

LEMMA FilesKept == FilesInv => WrittenIsRead /\ TruncatedIsRefused
<1> SUFFICES ASSUME FilesInv
             PROVE  WrittenIsRead /\ TruncatedIsRefused
  OBVIOUS
<1> DEFINE w == given.w
           h == given.h
<1>1. CASE got = Refused(got.by) /\ (given.whole => got.by = "")
  <2>1. got = Refused(got.by)
    BY <1>1
  <2>2. ~got.ok
    BY <2>1 DEF Refused
  <2> QED
    BY <1>1, <2>2 DEF WrittenIsRead, TruncatedIsRefused
<1>2. CASE FileHolds(disk, given) /\ ReadHolds(got, given)
  <2>1. IsRgb(given.rgb, w, h)
    BY <1>2 DEF FileHolds, RgbOf, IsRgb
  <2>2. /\ got = ReadOf(got.by, got.bgr, got.lost, w, h, got.rgb)
        /\ got.bgr \in BOOLEAN /\ IsRgb(got.rgb, w, h)
        /\ given.whole => \A k \in 0 .. 3 * w * h - 1 :
                             got.rgb[k] = Kept(Colours(given.rgb, got.bgr), got.lost, k)
        /\ got.by = "bmp_read" /\ got.lost = {} =>
              \A k \in 0 .. 3 * w * h - 1 :
                 \/ Colours(got.rgb, got.bgr)[k] = given.rgb[k]
                 \/ k = 3 * (w - 1) /\ Colours(got.rgb, got.bgr)[k] = EOF
    BY <1>2 DEF ReadHolds
  <2>3. got.ok /\ got.w = w /\ got.h = h
    BY <2>2 DEF ReadOf
  <2>4. ASSUME given.whole
        PROVE  got.rgb = [k \in DOMAIN given.rgb |->
                            IF k % 3 \in got.lost THEN Uninitialized
                            ELSE Colours(given.rgb, got.bgr)[k]]
    <3> DEFINE bytes == Colours(given.rgb, got.bgr)
               lost == got.lost
               rgb == got.rgb
    <3>1. /\ \A k \in 0 .. 3 * w * h - 1 : rgb[k] = Kept(bytes, lost, k)
          /\ IsRgb(rgb, w, h) /\ DOMAIN given.rgb = 0 .. 3 * w * h - 1
      BY <2>1, <2>2, <2>4 DEF IsRgb
    <3> HIDE DEF bytes, lost, rgb
    <3>2. rgb = [k \in DOMAIN given.rgb |-> IF k % 3 \in lost THEN Uninitialized ELSE bytes[k]]
      BY <3>1 DEF IsRgb, Kept
    <3> QED
      BY <3>2 DEF bytes, lost, rgb
  <2>5. ASSUME got.by = "bmp_read", ~got.bgr, got.lost = {}, NEW k \in DOMAIN got.rgb
        PROVE  got.rgb[k] = given.rgb[k] \/ (k = 3 * (w - 1) /\ got.rgb[k] = EOF)
    <3>1. k \in 0 .. 3 * w * h - 1
      BY <2>2, <2>5 DEF IsRgb
    <3>2. Colours(got.rgb, got.bgr)[k] = got.rgb[k]
      BY <2>2, <2>5, <3>1, ColoursIs
    <3> QED
      BY <2>2, <2>5, <3>1, <3>2
  <2>6. WrittenIsRead
    BY <2>3, <2>4 DEF WrittenIsRead
  <2>7. TruncatedIsRefused
    BY <2>3, <2>5 DEF TruncatedIsRefused
  <2> QED
    BY <2>6, <2>7
<1> QED
  BY <1>1, <1>2 DEF FilesInv, GotHolds

(***************************************************************************)
(* The disk is what the last writer left of its image, and every result of *)
(* bmp_read (bmp_io.cpp) and OpenBMPFile (hdr/bmp.cpp) agrees with it, for *)
(* the sizes whose rows fit the 16-bit stride of OpenBMPFile               *)
(* (hdr/bmp.cpp:213) and whose bytes an int can count (bmp_io.cpp:82).     *)
(***************************************************************************)
THEOREM FilesInvariant ==
    ASSUME SizesFit
    PROVE  ImageSpec => []FilesInv
<1>1. ImageInit => FilesInv
  BY FilesInit
<1>2. FramesInv /\ FilesInv /\ [ImageNext]_imageVars => FilesInv'
  BY FilesNext
<1> QED
  BY <1>1, <1>2, FramesInvariant, PTL DEF ImageSpec

(***************************************************************************)
(* What bmp_write or save_bmp was given, by any of its callers, bmp_read   *)
(* and OpenBMPFile give back byte by byte, unless the end of the file was  *)
(* lost, however often convertRGB2BGR exchanges its colours in place; into *)
(* another buffer it loses the first byte of every pixel, and that only.   *)
(***************************************************************************)
THEOREM WrittenIsReadCorrect ==
    ASSUME SizesFit
    PROVE  ImageSpec => []WrittenIsRead
BY FilesInvariant, FilesKept, PTL

(***************************************************************************)
(* A file that lost bytes of its pixels bmp_read refuses, but when all it  *)
(* lost of them is one red byte, whose test looks at the first element of  *)
(* the array instead (bmp_io.cpp:194); what it accepts agrees with what    *)
(* was written in every other byte.                                        *)
(***************************************************************************)
THEOREM TruncatedIsRefusedCorrect ==
    ASSUME SizesFit
    PROVE  ImageSpec => []TruncatedIsRefused
BY FilesInvariant, FilesKept, PTL

=============================================================================
