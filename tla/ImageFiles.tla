----------------------------- MODULE ImageFiles -----------------------------
(***************************************************************************)
(* The image tools of the system tests (systest-cases/depth_bokeh/         *)
(* bmp_io.cpp, ImageFormat_Conversion.cpp, hdr/bmp.cpp, hdr/util.cpp): two *)
(* BMP writers, two BMP readers and the conversions between YUV layouts    *)
(* and RGB.  Buffers are functions over 0 .. n - 1, a file is a sequence   *)
(* of bytes.  A loop over rows and columns is a function of the index it   *)
(* writes to.                                                              *)
(***************************************************************************)
EXTENDS Integers, Sequences

CONSTANTS Widths, Heights,        \* sizes of the BMP images
          FrameSizes,             \* <<width, height>> of the YUV frames, both even
          Pitch,                  \* bytes a row of a pitched gray image has more
          Cuts                    \* how many of its last bytes a file may lack

ASSUME ImageFilesAssumption ==
    /\ Widths \subseteq Nat \ {0} /\ Heights \subseteq Nat \ {0} /\ Pitch \in Nat
    /\ 0 \in Cuts /\ Cuts \subseteq Nat
    /\ FrameSizes \subseteq Nat \X Nat
    /\ \A s \in FrameSizes : s[1] % 2 = 0 /\ s[2] % 2 = 0 /\ s[1] > 0 /\ s[2] > 0

VARIABLES disk,     \* the bytes of the BMP file
          given,    \* history: the image the last writer was given
          got,      \* what the last reader returned
          frame,    \* a YUV frame in memory
          shown     \* the RGB image last made of it

imageVars == <<disk, given, got, frame, shown>>

EOF == -1
Uninitialized == -2
Clip(v) == IF v < 0 THEN 0 ELSE IF v > 255 THEN 255 ELSE v
Min2(S) == CHOOSE x \in S : \A y \in S : x <= y
Max2(S) == CHOOSE x \in S : \A y \in S : x >= y

-----------------------------------------------------------------------------
(***************************************************************************)
(* Words, headers and rows of a BMP file (byte_swap is always 1).          *)
(***************************************************************************)
write_u_short_int(v) == <<v % 256, v \div 256>>
write_u_long_int(v) ==
    write_u_short_int(v % 65536) \o write_u_short_int((v \div 65536) % 65536)

fgetc(f, at) == IF at < Len(f) THEN f[at + 1] ELSE EOF
read_u_short_int(f, at) == fgetc(f, at) + 256 * fgetc(f, at + 1)
read_u_long_int(f, at) == read_u_short_int(f, at) + 65536 * read_u_short_int(f, at + 2)

\* Rows are padded to words of four bytes: in bmp_io.cpp, and in bmp.cpp.
padding(xsize) == (4 - ((3 * xsize) % 4)) % 4
WIDTH_BYTES(bits) == ((bits + 31) \div 32) * 4

\* bmp_write_header; the two writers differ in the sizes they declare.
Header(fileSize, w, h, imageSize, resolution) ==
    <<66, 77>> \o write_u_long_int(fileSize) \o write_u_long_int(0)
      \o write_u_long_int(54) \o write_u_long_int(40)
      \o write_u_long_int(w) \o write_u_long_int(h)
      \o write_u_short_int(1) \o write_u_short_int(24) \o write_u_long_int(0)
      \o write_u_long_int(imageSize) \o write_u_long_int(resolution)
      \o write_u_long_int(resolution) \o write_u_long_int(0) \o write_u_long_int(0)
bmp_write_header(xsize, ysize) == Header(3 * xsize * ysize + 54, xsize, ysize, 0, 0)

\* Rows from the bottom up, a pixel as blue, green, red.
bmp_write_data_flat(xsize, ysize, R, G, B) ==                       \* mutant
    [k \in 1 .. ysize * 3 * xsize |->
        LET i == (k - 1) \div (3 * xsize)
            c == (k - 1) % (3 * xsize)
        IN  <<B, G, R>>[(c % 3) + 1][(ysize - i - 1) * xsize + c \div 3]]
bmp_write_data(xsize, ysize, R, G, B) ==
    LET scanline == padding(xsize) + 3 * xsize
    IN  [k \in 1 .. ysize * scanline |->
            LET i == (k - 1) \div scanline
                c == (k - 1) % scanline
            IN  IF c < 3 * xsize
                THEN <<B, G, R>>[(c % 3) + 1][(ysize - i - 1) * xsize + c \div 3]
                ELSE 0]

bmp_write(w, h, planes) ==
    bmp_write_header(w, h) \o bmp_write_data(w, h, planes[1], planes[2], planes[3])

\* bmp.cpp: turns the rows and the pixels around, both ways.
ChangeRows(in, width, height) ==
    [k \in 0 .. 3 * width * height - 1 |->
        LET i == height - 1 - k \div (3 * width)
            j == (k % (3 * width)) \div 3
        IN  in[(i * width + j) * 3 + 2 - (k % 3)]]

save_bmp(rgb, width, height) ==
    LET widthByteNum == WIDTH_BYTES(24 * width)
        dwImageSize == widthByteNum * height
        temp == ChangeRows(rgb, width, height)
    IN  Header(54 + dwImageSize, width, height, dwImageSize, 72)
          \o [k \in 1 .. dwImageSize |->
                 LET c == (k - 1) % widthByteNum
                 IN  IF c < 3 * width
                     THEN temp[3 * width * ((k - 1) \div widthByteNum) + c]
                     ELSE 0]

-----------------------------------------------------------------------------
(***************************************************************************)
(* The callers of bmp_write: the planes each makes of its input.           *)
(***************************************************************************)
SaveImage(in, W, H) ==
    [c \in 1 .. 3 |-> [k \in 0 .. W * H - 1 |-> in[3 * k + c - 1]]]
SaveImage_3plane(R, G, B) == <<R, G, B>>
SaveImage_gray(in, W, H) ==
    LET plane == [k \in 0 .. W * H - 1 |-> in[k]] IN <<plane, plane, plane>>
SaveImage_gray2(in, W, H, P) ==
    LET plane == [k \in 0 .. W * H - 1 |-> in[(k \div W) * P + (k % W)]]
    IN  <<plane, plane, plane>>

\* 32768 marks a pixel without a value; the others are stretched to 0 .. 255.
\* When they are all equal the division is by zero, with any result z.
SaveImage_gray2_u16(in, W, H, P, z) ==
    LET values == {in[i * P + j] : i \in 0 .. H - 1, j \in 0 .. W - 1} \ {32768}
        minV == IF values = {} THEN 65535 ELSE Min2(values)
        maxV == IF values = {} THEN 0 ELSE Max2(values)
        plane == [k \in 0 .. W * H - 1 |->
                     LET v == in[(k \div W) * P + (k % W)]
                     IN  IF v = 32768 THEN 255
                         ELSE IF maxV = minV THEN z
                         ELSE (255 * (v - minV)) \div (maxV - minV)]
    IN  <<plane, plane, plane>>

\* bmp_write_test: three wedges.
bmp_write_test(xsize, ysize) ==
    LET wedge(k) ==
            LET j == ysize - k \div xsize
                i == k % xsize
            IN  IF j >= i THEN 1
                ELSE IF (xsize - 1) * j + (ysize - 1) * i <= (xsize - 1) * (ysize - 1)
                     THEN 2 ELSE 3
    IN  [c \in 1 .. 3 |->
            [k \in 0 .. xsize * ysize - 1 |-> IF wedge(k) = c THEN 255 ELSE 0]]

-----------------------------------------------------------------------------
(***************************************************************************)
(* The two readers: an image whose rows start at the top, or a refusal.    *)
(* "lost" (history): which bytes of a pixel convertRGB2BGR never wrote.    *)
(***************************************************************************)
Refused(by) == [ok |-> FALSE, by |-> by, bgr |-> FALSE, lost |-> {},
                w |-> 0, h |-> 0, rgb |-> << >>]
Image(by, w, h, rgb) ==
    [ok |-> TRUE, by |-> by, bgr |-> FALSE, lost |-> {}, w |-> w, h |-> h, rgb |-> rgb]

bmp_read_header(f) ==
    [ok |-> Len(f) >= 54 /\ fgetc(f, 0) = 66 /\ fgetc(f, 1) = 77,
     psize |-> read_u_long_int(f, 10),
     xsize |-> read_u_long_int(f, 18), ysize |-> read_u_long_int(f, 22)]

\* The end of the file is noticed at a blue and at a green byte; for a red one
\* the code looks at the first element of the array, *indexr.
bmp_read_data_blind(f, start, xsize, ysize) ==                      \* mutant
    LET scanline == padding(xsize) + 3 * xsize
        byte(i, j, c) == fgetc(f, start + i * scanline + 3 * j + c)
    IN  [ok |-> \A i \in 0 .. ysize - 1, j \in 0 .. xsize - 1 : byte(i, j, 0) /= EOF,
         rgb |-> [k \in 0 .. 3 * xsize * ysize - 1 |->
                     byte(ysize - 1 - k \div (3 * xsize),
                          (k % (3 * xsize)) \div 3, 2 - (k % 3))]]
bmp_read_data(f, start, xsize, ysize) ==
    LET scanline == padding(xsize) + 3 * xsize
        byte(i, j, c) == fgetc(f, start + i * scanline + 3 * j + c)
    IN  [ok |-> /\ \A i \in 0 .. ysize - 1, j \in 0 .. xsize - 1, c \in 0 .. 1 :
                      byte(i, j, c) /= EOF
                /\ byte(ysize - 1, 0, 2) /= EOF,
         rgb |-> [k \in 0 .. 3 * xsize * ysize - 1 |->
                     byte(ysize - 1 - k \div (3 * xsize),
                          (k % (3 * xsize)) \div 3, 2 - (k % 3))]]

bmp_read(f) ==
    LET header == bmp_read_header(f)
        data == bmp_read_data(f, header.psize, header.xsize, header.ysize)
    IN  IF header.ok /\ data.ok
        THEN Image("bmp_read", header.xsize, header.ysize, data.rgb)
        ELSE Refused("bmp_read")

\* The results of fread are ignored: what the file lacks is what malloc found.
\* The stride is kept in 16 bits.
OpenBMPFile(f) ==
    LET width == read_u_long_int(f, 18)
        height == read_u_long_int(f, 22)
        widthByteNum == WIDTH_BYTES(width * read_u_short_int(f, 28)) % 65536
        start == read_u_long_int(f, 10)
        upsideDown(at) == IF start + at < Len(f) THEN f[start + at + 1] ELSE Uninitialized
    IN  IF fgetc(f, 0) = 66 /\ fgetc(f, 1) = 77
        THEN Image("OpenBMPFile", width, height,
                   ChangeRows([k \in 0 .. 3 * width * height - 1 |->
                                  upsideDown((k \div (3 * width)) * widthByteNum
                                               + (k % (3 * width)))],
                              width, height))
        ELSE Refused("OpenBMPFile")

\* The first byte of an output pixel is the third the output held before, which is
\* the input's only when both are one buffer.
convertRGB2BGR(in, out) ==
    [k \in DOMAIN in |-> CASE k % 3 = 2 -> in[k - 2]
                          [] k % 3 = 1 -> in[k]
                          [] OTHER -> out[k + 2]]

-----------------------------------------------------------------------------
(***************************************************************************)
(* YUV frames: a plane of luma, then chroma at half the resolution, as     *)
(* interleaved pairs V U (nv21, "yvu420s"), pairs U V (nv12), or as one    *)
(* plane of each (yuv420p).                                                *)
(***************************************************************************)
yvu420s_yuv420p(in, width, height) ==
    LET n == width * height
        pair(s) == n + (s \div (width \div 2)) * width + 2 * (s % (width \div 2))
    IN  [k \in 0 .. (n * 3) \div 2 - 1 |->
            IF k < n THEN in[k]
            ELSE IF k < (n * 5) \div 4 THEN in[pair(k - n) + 1]
            ELSE in[pair(k - (n * 5) \div 4)]]

yuv420p_yvu420s(in, width, height) ==
    LET n == width * height
        s == width \div 2
        at(p) == (p \div s) * s + (p % s)
    IN  [k \in 0 .. (n * 3) \div 2 - 1 |->
            IF k < n THEN in[k]
            ELSE IF (k - n) % 2 = 0 THEN in[n + n \div 4 + at((k - n) \div 2)]
            ELSE in[n + at((k - n) \div 2)]]

\* ReadYUV420File: the file has pairs U V, the result is planar.
ReadYUV420File(file, nWidth, nHeight) ==
    LET n == nWidth * nHeight
    IN  [k \in 0 .. (n * 3) \div 2 - 1 |->
            IF k < n THEN file[k]
            ELSE IF k < n + n \div 4 THEN file[n + 2 * (k - n)]
            ELSE file[n + 2 * (k - n - n \div 4) + 1]]

\* flip_flag turns the columns around, mirror_flag the rows.
Turned(i, size, flag) == IF flag THEN size - 1 - i ELSE i
ImageYUV420_flip_luma(in, w, h, flip, mirror) ==                    \* mutant
    [k \in 0 .. (w * h * 3) \div 2 - 1 |->
        IF k < w * h
        THEN in[Turned(k \div w, h, mirror) * w + Turned(k % w, w, flip)]
        ELSE in[k]]
ImageYUV420_flip(in, w, h, flip, mirror) ==
    LET n == w * h
        chroma(k) == (Turned(k \div (w \div 2), h \div 2, mirror) * w) \div 2
                       + Turned(k % (w \div 2), w \div 2, flip)
    IN  [k \in 0 .. (n * 3) \div 2 - 1 |->
            IF k < n THEN in[Turned(k \div w, h, mirror) * w + Turned(k % w, w, flip)]
            ELSE IF k < n + n \div 4 THEN in[n + chroma(k - n)]
            ELSE in[n + n \div 4 + chroma(k - n - n \div 4)]]

\* One pixel of three converters, as <<red, green, blue>>.
yuv2rgb(y, u, v) ==
    <<Clip(y + (v * 359 + 128) \div 256 - 180),
      Clip(y - (u * 88 + 128) \div 256 - (v * 183 + 128) \div 256 + 136),
      Clip(y + (u * 454 + 128) \div 256 - 227)>>
YCbCr2RGB(y, cb, cr) ==
    <<Clip(y + (1402 * (cr - 128)) \div 1000),
      Clip((100000 * y - 34410 * (cb - 128) - 71414 * (cr - 128)) \div 100000),
      Clip(y + (1772 * (cb - 128)) \div 1000)>>
Rgb3Planar(y, u, v) ==
    <<Clip(y + (1370705 * (v - 128)) \div 1000000),
      Clip((1000000 * y - 698001 * (v - 128) - 337633 * (u - 128)) \div 1000000),
      Clip(y + (1732446 * (u - 128)) \div 1000000)>>

\* The loops around them: three components for each pixel.  The first plane of
\* ImageYUV420ToRGB3Planar gets the blue.
upsampled(yuv420p, w, h) ==
    [k \in 0 .. w * h - 1 |->
        LET at == (((k \div w) \div 2) * w) \div 2 + ((k % w) \div 2)
        IN  yuv2rgb(yuv420p[k], yuv420p[at + w * h], yuv420p[at + (w * h * 5) \div 4])]
ImageYUV420ToRGB3Planar(yuv420p, w, h) ==
    [k \in 0 .. w * h - 1 |->
        LET at == ((k \div w) \div 2) * (w \div 2) + ((k % w) \div 2)
            rgb == Rgb3Planar(yuv420p[k], yuv420p[w * h + at],
                              yuv420p[w * h + (w * h) \div 4 + at])
        IN  <<rgb[3], rgb[2], rgb[1]>>]
ReadoutYUV420(nv12, w, h, flip, mirror) ==
    [k \in 0 .. w * h - 1 |->
        LET ii == Turned(k \div w, h, mirror)
            jj == Turned(k % w, w, flip)
            at == ((ii \div 2) * (w \div 2) + jj \div 2) * 2
        IN  YCbCr2RGB(nv12[ii * w + jj], nv12[w * h + at], nv12[w * h + at + 1])]

-----------------------------------------------------------------------------
(***************************************************************************)
(* The BMP tools at work.  An input has a different byte at every place;   *)
(* of a file, what its writer puts last may be missing, the results of     *)
(* fputc and fwrite being ignored.                                         *)
(***************************************************************************)
NoShow == [by |-> "", w |-> 0, h |-> 0, flip |-> FALSE, mirror |-> FALSE, pixels |-> << >>]

ImageInit ==
    /\ disk = << >>
    /\ given = [whole |-> FALSE, w |-> 0, h |-> 0, rgb |-> << >>]
    /\ got = Refused("")
    /\ frame = [layout |-> "none", w |-> 0, h |-> 0, flip |-> FALSE, mirror |-> FALSE,
                data |-> << >>]
    /\ shown = NoShow

Byte(k) == (37 * k + 11) % 256
Packed(planes, w, h) == [k \in 0 .. 3 * w * h - 1 |-> planes[(k % 3) + 1][k \div 3]]
Interleaved(pixels, w, h) == [k \in 0 .. 3 * w * h - 1 |-> pixels[k \div 3][(k % 3) + 1]]

Stored(w, h, rgb, file) ==
    \E cut \in Cuts :
        /\ disk' = SubSeq(file, 1, Len(file) - cut)
        /\ given' = [whole |-> cut = 0, w |-> w, h |-> h, rgb |-> rgb]
        /\ got' = Refused("")

WriteColours(w, h) ==
    LET rgb == [k \in 0 .. 3 * w * h - 1 |-> Byte(k)]
        plane(c) == [k \in 0 .. w * h - 1 |-> Byte(3 * k + c)]
    IN  \/ Stored(w, h, rgb, bmp_write(w, h, SaveImage(rgb, w, h)))
        \/ Stored(w, h, rgb,
                  bmp_write(w, h, SaveImage_3plane(plane(0), plane(1), plane(2))))
        \/ Stored(w, h, rgb, save_bmp(rgb, w, h))

\* The bytes between the rows of a pitched image are 255.
WriteGray(w, h) ==
    LET gray == [k \in 0 .. 3 * w * h - 1 |-> Byte(k \div 3)]
        P == w + Pitch
        pitched == [x \in 0 .. P * h - 1 |->
                       IF x % P < w THEN Byte((x \div P) * w + (x % P)) ELSE 255]
    IN  \/ Stored(w, h, gray, bmp_write(w, h, SaveImage_gray([k \in 0 .. w * h - 1 |->
                                                                Byte(k)], w, h)))
        \/ Stored(w, h, gray, bmp_write(w, h, SaveImage_gray2(pitched, w, h, P)))

\* 16-bit values: a ramp whose first has no value, or all of them the same.
Depths(size, flat) ==
    [x \in 0 .. size - 1 |->
        IF flat THEN 700 ELSE IF x = 0 THEN 32768 ELSE (100 * x) % 65536]
WriteDepth(w, h) ==
    \E flat \in BOOLEAN, z \in {0, 255} :
        LET P == w + Pitch
            planes == SaveImage_gray2_u16(Depths(P * h, flat), w, h, P, z)
        IN  Stored(w, h, Packed(planes, w, h), bmp_write(w, h, planes))

WriteTest(w, h) ==
    LET planes == bmp_write_test(w, h)
    IN  Stored(w, h, Packed(planes, w, h), bmp_write(w, h, planes))

ReadFile ==
    \/ got' = bmp_read(disk)
    \/ Len(disk) >= 54 /\ got' = OpenBMPFile(disk)

\* In place, or into a buffer that malloc just gave.
SwapColours ==
    /\ got.ok
    /\ \/ got' = [got EXCEPT !.rgb = convertRGB2BGR(@, @), !.bgr = ~@,
                             !.lost = {2 - c : c \in @}]
       \/ LET fresh == [k \in DOMAIN got.rgb |-> Uninitialized]
          IN  got' = [got EXCEPT !.rgb = convertRGB2BGR(@, fresh), !.bgr = ~@,
                                 !.lost = {2 - c : c \in @} \cup {0}]

FileNext ==
    /\ \/ \E w \in Widths, h \in Heights :
              WriteColours(w, h) \/ WriteGray(w, h) \/ WriteDepth(w, h) \/ WriteTest(w, h)
       \/ (ReadFile \/ SwapColours) /\ UNCHANGED <<disk, given>>
    /\ UNCHANGED <<frame, shown>>

-----------------------------------------------------------------------------
(***************************************************************************)
(* The YUV tools at work, on a source with strong colours: a luma for each *)
(* pixel, two chromas for each square of four.                             *)
(***************************************************************************)
Luma(k) == (17 * k + 40) % 256
Us == <<1, 90, 128, 254>>
Vs == <<2, 129, 253, 127>>
Source(w, h, firsts, seconds) ==
    [k \in 0 .. (w * h * 3) \div 2 - 1 |->
        LET p == k - w * h
            cell == ((p \div 2) % 4) + 1
        IN  IF p < 0 THEN Luma(k) ELSE IF p % 2 = 0 THEN firsts[cell] ELSE seconds[cell]]

ReadNV21File(file, w, h) == [k \in 0 .. (w * h * 3) \div 2 - 1 |-> file[k]]

Loaded(layout, w, h, data) ==
    frame' = [layout |-> layout, w |-> w, h |-> h, flip |-> FALSE, mirror |-> FALSE,
              data |-> data]
Load(w, h) ==
    /\ \/ Loaded("nv21", w, h, ReadNV21File(Source(w, h, Vs, Us), w, h))
       \/ Loaded("planar", w, h, ReadYUV420File(Source(w, h, Us, Vs), w, h))
    /\ shown' = NoShow
    /\ UNCHANGED <<disk, given, got>>

Convert ==
    /\ \/ /\ frame.layout = "nv21"
          /\ frame' = [frame EXCEPT !.layout = "planar",
                                    !.data = yvu420s_yuv420p(@, frame.w, frame.h)]
       \/ /\ frame.layout = "planar"
          /\ frame' = [frame EXCEPT !.layout = "nv21",
                                    !.data = yuv420p_yvu420s(@, frame.w, frame.h)]
       \/ /\ frame.layout = "planar"
          /\ \E flip, mirror \in BOOLEAN :
                frame' = [frame EXCEPT
                             !.flip = (@ /= flip), !.mirror = (@ /= mirror),
                             !.data = ImageYUV420_flip(@, frame.w, frame.h, flip, mirror)]
    /\ shown' = NoShow
    /\ UNCHANGED <<disk, given, got>>

Shows(by, w, h, flip, mirror, pixels) ==
    shown' = [by |-> by, w |-> w, h |-> h, flip |-> flip, mirror |-> mirror,
              pixels |-> pixels]

\* save_as_bmp takes an nv21 frame, yuv420tobmp and ImageYUV420ToRGB3Planar a planar
\* one, ReadoutYUV420 a file of pairs U V.
SaveAsBmp ==
    LET w == frame.w
        h == frame.h
        yuv420p == IF frame.layout = "planar" THEN frame.data
                   ELSE yvu420s_yuv420p(frame.data, w, h)
        rgb == upsampled(yuv420p, w, h)
    IN  /\ frame.layout /= "none"
        /\ Shows("save_as_bmp", w, h, frame.flip, frame.mirror, rgb)
        /\ Stored(w, h, Interleaved(rgb, w, h), save_bmp(Interleaved(rgb, w, h), w, h))
        /\ UNCHANGED frame
ToPlanes ==
    /\ frame.layout = "planar"
    /\ Shows("ImageYUV420ToRGB3Planar", frame.w, frame.h, frame.flip, frame.mirror,
             ImageYUV420ToRGB3Planar(frame.data, frame.w, frame.h))
    /\ UNCHANGED <<disk, given, got, frame>>
Readout(w, h) ==
    /\ \E flip, mirror \in BOOLEAN :
          Shows("ReadoutYUV420", w, h, flip, mirror,
                ReadoutYUV420(Source(w, h, Us, Vs), w, h, flip, mirror))
    /\ UNCHANGED <<disk, given, got, frame>>

FrameNext ==
    \/ \E s \in FrameSizes : Load(s[1], s[2]) \/ Readout(s[1], s[2])
    \/ Convert
    \/ SaveAsBmp
    \/ ToPlanes

ImageNext == FileNext \/ FrameNext
ImageSpec == ImageInit /\ [][ImageNext]_imageVars

-----------------------------------------------------------------------------
\* The rgb array of an image, or of its copy with red and blue exchanged.
Colours(rgb, bgr) ==
    [k \in DOMAIN rgb |-> IF bgr THEN rgb[k + 2 - 2 * (k % 3)] ELSE rgb[k]]

(***************************************************************************)
(* What either writer of BMP files was given by any of its callers, either *)
(* reader gives back, unless the end of the file never reached the disk,   *)
(* while the rows fit the 16-bit stride of OpenBMPFile (hdr/bmp.cpp:213).  *)
(* Exchanging the colours in place keeps every byte; into another buffer   *)
(* (hdr/bmp.cpp:45-48) it keeps all but the first of each pixel, which     *)
(* stays what that buffer held.                                            *)
(***************************************************************************)
WrittenIsRead ==
    given.whole /\ got.by /= "" =>
        /\ got.ok /\ got.w = given.w /\ got.h = given.h
        /\ got.rgb = [k \in DOMAIN given.rgb |->
                         IF k % 3 \in got.lost THEN Uninitialized
                         ELSE Colours(given.rgb, got.bgr)[k]]

(***************************************************************************)
(* bmp_read refuses a file that lacks bytes of a pixel, with one exception *)
(* it cannot see, for the test of a red byte looks at the first of the     *)
(* array (bmp_io.cpp:194): the red of the last pixel of the top row.  What *)
(* it accepts, the padding of the last row missing or not, has the other   *)
(* bytes of the image (as long as no other buffer took the place of some). *)
(***************************************************************************)
TruncatedIsRefused ==
    got.ok /\ got.by = "bmp_read" /\ ~got.bgr /\ got.lost = {} =>
        /\ got.w = given.w /\ got.h = given.h
        /\ \A k \in DOMAIN got.rgb :
              got.rgb[k] = given.rgb[k] \/ (k = 3 * (got.w - 1) /\ got.rgb[k] = EOF)

\* Where pixel k of a picture turned around comes from: its place, its square.
OriginPixel(k, p) == Turned(k \div p.w, p.h, p.mirror) * p.w + Turned(k % p.w, p.w, p.flip)
OriginSquare(k, p) ==
    LET q == OriginPixel(k, p)
    IN  ((((q \div p.w) \div 2) * (p.w \div 2) + ((q % p.w) \div 2)) % 4) + 1
Near(a, b) == -8 <= a - b /\ a - b <= 8

(***************************************************************************)
(* However often a frame is turned around and its layout changed, every    *)
(* pixel keeps its luma and its two chromas; and each converter makes of   *)
(* it the colour of the BT.601 formula, within eight levels.               *)
(***************************************************************************)
ConversionsKeepPixels ==
    /\ frame.layout /= "none" =>
         LET n == frame.w * frame.h
         IN  \A k \in 0 .. n - 1 :
               LET square == ((k \div frame.w) \div 2) * (frame.w \div 2)
                               + ((k % frame.w) \div 2)
                   u == IF frame.layout = "planar" THEN n + square ELSE n + 2 * square + 1
                   v == IF frame.layout = "planar" THEN n + n \div 4 + square
                        ELSE n + 2 * square
               IN  /\ frame.data[k] = Luma(OriginPixel(k, frame))
                   /\ frame.data[u] = Us[OriginSquare(k, frame)]
                   /\ frame.data[v] = Vs[OriginSquare(k, frame)]
    /\ shown.by /= "" =>
         \A k \in 0 .. shown.w * shown.h - 1 :
            LET y == Luma(OriginPixel(k, shown))
                u == Us[OriginSquare(k, shown)] - 128
                v == Vs[OriginSquare(k, shown)] - 128
                red == Clip(y + (1402 * v) \div 1000)
                green == Clip(y - (344 * u + 714 * v) \div 1000)
                blue == Clip(y + (1772 * u) \div 1000)
                reversed == shown.by = "ImageYUV420ToRGB3Planar"
            IN  /\ Near(shown.pixels[k][IF reversed THEN 3 ELSE 1], red)
                /\ Near(shown.pixels[k][2], green)
                /\ Near(shown.pixels[k][IF reversed THEN 1 ELSE 3], blue)
=============================================================================
