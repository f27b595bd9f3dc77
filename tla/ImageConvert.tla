---------------------------- MODULE ImageConvert ----------------------------
(***************************************************************************)
(* The conversion of a camera's image, in any of its formats, to an image  *)
(* of four bytes per pixel (u32) or three (u8x3):                          *)
(* src/src/imagesource/image_convert.c.  What is written to a byte is the  *)
(* sequence of input bytes it is the average of, or computed from; an      *)
(* alpha byte is written with none.                                        *)
(***************************************************************************)
EXTENDS Integers, Sequences, FiniteSets, TLC

CONSTANTS
  Formats,     \* formats that are asked for, supported or not
  Widths, Heights,   \* even
  Pads,        \* what a row of an image is longer than its pixels
  Levels       \* brightness, Cb and Cr of pixels

VARIABLES
  format, to,  \* the input's format, and "u32" or "u8x3"
  width, height, pad,
  sample,      \* [y1, y2, u, v]: two pixels' values, in the formats that have them
  pc, x, y,
  out,         \* byte of the image -> sequence of bytes of the input
  narrow,      \* the same for the u8x3 image made of a u32 image
  rgb          \* the colours last computed from sample

vars == <<format, to, width, height, pad, sample, pc, x, y, out, narrow, rgb>>
inputVars == <<format, to, width, height, pad, sample>>

Bayer == {"BAYER_GBRG", "BAYER_GBRG16", "BAYER_RGGB", "BAYER_RGGB16"}
Gray == {"GRAY8", "GRAY", "GRAY16"}
Direct == to = "u8x3" /\ format \in {"BAYER_GBRG", "YUYV"}
Supported == Bayer \union Gray \union {"RGB", "BGRA", "RGBA", "YUYV", "YU12"}

-----------------------------------------------------------------------------
(* Colours of pixels with a brightness and two colour differences.         *)

Clamp(v) == IF v < 0 THEN 0 ELSE IF v > 255 THEN 255 ELSE v

\* Mutant of FromYuyv: the differences exchanged.
FromYuyv_Exchanged(b, u, v) ==
  << Clamp(b + ((u - 128) * 359) \div 256),
     Clamp(b - ((u - 128) * 183 + (v - 128) * 88) \div 256),
     Clamp(b + ((v - 128) * 454) \div 256) >>

FromYuyv(b, u, v) ==
  << Clamp(b + ((v - 128) * 359) \div 256),
     Clamp(b - ((v - 128) * 183 + (u - 128) * 88) \div 256),
     Clamp(b + ((u - 128) * 454) \div 256) >>

\* A conversion to int cuts off the fraction.
Truncate(num, den) == IF num >= 0 THEN num \div den ELSE -((-num) \div den)

FromYu12(b, cb, cr) ==
  LET Channel(sum, offset) == Clamp(Truncate(1000 * Truncate(sum, 256000) + offset, 1000)) IN
  << Channel(298082 * b + 408583 * cr, -222921),
     Channel(298082 * b - 100291 * cb - 208120 * cr, 135576),
     Channel(298082 * b + 516412 * cb, -276836) >>

-----------------------------------------------------------------------------
(* The 2x2 block of a Bayer pattern at <<x, y>>, and the blocks around it. *)

\* Mutant of BlockAt: the right edge not handled.
BlockAt_Beyond(dy, dx) ==
  LET row == IF (dy < 0 /\ y < 2) \/ (dy > 0 /\ y + 2 >= height) THEN y ELSE y + 2 * dy
      col == IF dx < 0 /\ x < 2 THEN x ELSE x + 2 * dx IN
  row * width + col

\* X00 .. X22: where a block begins; beyond an edge, this block stands in.
BlockAt(dy, dx) ==
  LET row == IF (dy < 0 /\ y < 2) \/ (dy > 0 /\ y + 2 >= height) THEN y ELSE y + 2 * dy
      col == IF (dx < 0 /\ x < 2) \/ (dx > 0 /\ x + 2 >= width) THEN x ELSE x + 2 * dx IN
  row * width + col

\* The bytes of red, green and blue, for the pixel in each row and column of the block.
Rggb ==
  LET X00 == BlockAt(-1, -1)  X01 == BlockAt(-1, 0)
      X10 == BlockAt(0, -1)   X11 == BlockAt(0, 0)   X12 == BlockAt(0, 1)
      X21 == BlockAt(1, 0)    X22 == BlockAt(1, 1)   w == width IN
  <<<< << <<X11>>,
          <<X01 + w, X10 + 1, X11 + 1, X11 + w>>,
          <<X00 + w + 1, X10 + w + 1, X10 + w + 1, X11 + w + 1>> >>,
       << <<X11, X12>>, <<X11 + 1>>, <<X01 + w + 1, X11 + w + 1>> >> >>,
    << << <<X11, X21>>, <<X11 + w>>, <<X10 + w + 1, X11 + w + 1>> >>,
       << <<X11, X12, X21, X22>>, <<X11 + 1, X11 + w, X12 + w, X21 + 1>>,
          <<X11 + w + 1>> >> >>>>

\* Mutant of Gbrg: green of the bottom left pixel from the block's own column.
Gbrg_OwnColumn ==
  LET X01 == BlockAt(-1, 0)   X02 == BlockAt(-1, 1)
      X10 == BlockAt(0, -1)   X11 == BlockAt(0, 0)   X12 == BlockAt(0, 1)
      X20 == BlockAt(1, -1)   X21 == BlockAt(1, 0)   w == width IN
  <<<< << <<X01 + w, X11 + w>>, <<X11>>, <<X10 + 1, X11 + 1>> >>,
       << <<X01 + w, X02 + w, X01 + w, X12 + w>>,
          <<X01 + w + 1, X11, X12, X11 + w + 1>>, <<X11 + 1>> >> >>,
    << << <<X11 + w>>, <<X11, X11 + w + 1, X11 + w + 1, X21>>,
          <<X10 + 1, X11 + 1, X20 + 1, X21 + 1>> >>,
       << <<X11 + w, X12 + w>>, <<X11 + w + 1>>, <<X11 + 1, X21 + 1>> >> >>>>

Gbrg ==
  LET X01 == BlockAt(-1, 0)   X02 == BlockAt(-1, 1)
      X10 == BlockAt(0, -1)   X11 == BlockAt(0, 0)   X12 == BlockAt(0, 1)
      X20 == BlockAt(1, -1)   X21 == BlockAt(1, 0)   w == width IN
  <<<< << <<X01 + w, X11 + w>>, <<X11>>, <<X10 + 1, X11 + 1>> >>,
       << <<X01 + w, X02 + w, X01 + w, X12 + w>>,
          <<X01 + w + 1, X11, X12, X11 + w + 1>>, <<X11 + 1>> >> >>,
    << << <<X11 + w>>, <<X11, X10 + w + 1, X11 + w + 1, X21>>,
          <<X10 + 1, X11 + 1, X20 + 1, X21 + 1>> >>,
       << <<X11 + w, X12 + w>>, <<X11 + w + 1>>, <<X11 + 1, X21 + 1>> >> >>>>

\* Of a 16-bit sample the first byte, the high one, is taken.
HighBytes(bytes) == [i \in DOMAIN bytes |-> 2 * bytes[i]]

-----------------------------------------------------------------------------
\* Mutant of Bytes: the image has no longer rows than its pixels.
Bytes_Unpadded(px, py, channels) ==
  IF Direct
  THEN [b \in {3 * (py * width + px) + c : c \in 0 .. 2} |->
          channels[b - 3 * (py * width + px) + 1]]
  ELSE LET base == 4 * (py * width + px) IN
       [b \in base .. base + 3 |-> IF b = base + 3 THEN <<>> ELSE channels[b - base + 1]]

\* What writing a pixel writes.
Bytes(px, py, channels) ==
  IF Direct
  THEN LET base == py * (3 * width + pad) + 3 * px IN
       [b \in base .. base + 2 |-> channels[b - base + 1]]
  ELSE LET base == 4 * (py * (width + pad) + px) IN
       [b \in base .. base + 3 |-> IF b = base + 3 THEN <<>> ELSE channels[b - base + 1]]

\* The loops over x and y, by dx and dy.
Onward(dx, dy) ==
  IF x + dx < width THEN x' = x + dx /\ UNCHANGED <<y, pc>>
  ELSE /\ x' = 0
       /\ IF y + dy < height THEN y' = y + dy /\ UNCHANGED pc
          ELSE /\ y' = 0
               /\ pc' = IF to = "u8x3" /\ ~Direct THEN "narrow" ELSE "done"

DebayerBlock ==
  /\ pc = "convert" /\ format \in Bayer
  /\ LET block == IF format \in {"BAYER_RGGB", "BAYER_RGGB16"} THEN Rggb ELSE Gbrg
         Taken(bytes) == IF format \in {"BAYER_RGGB16", "BAYER_GBRG16"} THEN HighBytes(bytes)
                         ELSE bytes
         Pixel(dy, dx) == Bytes(x + dx, y + dy,
                                [c \in 1 .. 3 |-> Taken(block[dy + 1][dx + 1][c])]) IN
     out' = Pixel(0, 0) @@ Pixel(0, 1) @@ Pixel(1, 0) @@ Pixel(1, 1) @@ out
  /\ Onward(2, 2)
  /\ UNCHANGED <<inputVars, narrow, rgb>>

\* The formats whose pixels are copied.
CopyPixel ==
  /\ pc = "convert" /\ format \in Gray \union {"RGB", "BGRA", "RGBA"}
  /\ LET at == y * width + x
         channels == CASE format \in {"GRAY8", "GRAY"} -> << <<at>>, <<at>>, <<at>> >>
                       [] format = "GRAY16" -> << <<2 * at>>, <<2 * at>>, <<2 * at>> >>
                       [] format = "RGB" -> << <<3 * at>>, <<3 * at + 1>>, <<3 * at + 2>> >>
                       [] format = "BGRA" -> << <<4 * at + 2>>, <<4 * at + 1>>, <<4 * at>> >>
                       [] format = "RGBA" -> << <<4 * at>>, <<4 * at + 1>>, <<4 * at + 2>> >> IN
     out' = Bytes(x, y, channels) @@ out
  /\ Onward(1, 1)
  /\ UNCHANGED <<inputVars, narrow, rgb>>

\* Each colour of a pixel from its brightness and two differences.
Computed(b, cb, cr) == << <<b, cr>>, <<b, cb, cr>>, <<b, cb>> >>

YuyvPair ==
  /\ pc = "convert" /\ format = "YUYV"
  /\ LET at == y * 2 * width + 2 * x IN
     out' = Bytes(x, y, Computed(at, at + 1, at + 3))
            @@ Bytes(x + 1, y, Computed(at + 2, at + 1, at + 3)) @@ out
  /\ rgb' = {<<sample.y1, FromYuyv(sample.y1, sample.u, sample.v)>>,
             <<sample.y2, FromYuyv(sample.y2, sample.u, sample.v)>>}
  /\ Onward(2, 1)
  /\ UNCHANGED <<inputVars, narrow>>

\* Mutant of Yu12Pixel: the rows of differences as long as those of brightness.
Yu12Pixel_FullRows ==
  /\ pc = "convert" /\ format = "YU12"
  /\ LET size == width * height
         half == (y \div 2) * width + x \div 2 IN
     out' = Bytes(x, y, Computed(y * width + x, size + half, size + size \div 4 + half)) @@ out
  /\ rgb' = {<<sample.y1, FromYu12(sample.y1, sample.u, sample.v)>>}
  /\ Onward(1, 1)
  /\ UNCHANGED <<inputVars, narrow>>

\* Three planes; a difference counts for 2x2 pixels.
Yu12Pixel ==
  /\ pc = "convert" /\ format = "YU12"
  /\ LET size == width * height
         half == (y \div 2) * (width \div 2) + x \div 2 IN
     out' = Bytes(x, y, Computed(y * width + x, size + half, size + size \div 4 + half)) @@ out
  /\ rgb' = {<<sample.y1, FromYu12(sample.y1, sample.u, sample.v)>>}
  /\ Onward(1, 1)
  /\ UNCHANGED <<inputVars, narrow>>

Unsupported ==
  /\ pc = "convert" /\ format \notin Supported
  /\ pc' = "none"
  /\ UNCHANGED <<inputVars, x, y, out, narrow, rgb>>

\* The last resort: by way of a u32 image, leaving alpha out.
NarrowPixel ==
  /\ pc = "narrow"
  /\ LET base == y * (3 * width + pad) + 3 * x IN
     narrow' = [b \in base .. base + 2 |-> out[4 * (y * (width + pad) + x) + b - base]]
               @@ narrow
  /\ IF x + 1 < width THEN x' = x + 1 /\ UNCHANGED <<y, pc>>
     ELSE /\ x' = 0
          /\ IF y + 1 < height THEN y' = y + 1 /\ UNCHANGED pc
             ELSE UNCHANGED y /\ pc' = "done"
  /\ UNCHANGED <<inputVars, out, rgb>>

Init ==
  /\ format \in Formats /\ to \in {"u32", "u8x3"}
  /\ width \in Widths /\ height \in Heights /\ pad \in Pads
  /\ sample \in [y1 : Levels, y2 : Levels, u : Levels, v : Levels]
  /\ format \notin {"YUYV", "YU12"} => \A f \in DOMAIN sample : sample[f] = 0
  /\ pc = "convert" /\ x = 0 /\ y = 0
  /\ out = <<>> /\ narrow = <<>> /\ rgb = {}

Next ==
  \/ DebayerBlock \/ CopyPixel \/ YuyvPair \/ Yu12Pixel \/ Unsupported \/ NarrowPixel

Spec == Init /\ [][Next]_vars

-----------------------------------------------------------------------------
(* What the bytes of each format say.                                      *)

Pixels == (0 .. width - 1) \X (0 .. height - 1)
Near(p, q) == p[1] - q[1] \in -1 .. 1 /\ p[2] - q[2] \in -1 .. 1

PixelNo(n) == <<n % width, n \div width>>

\* The colour in front of a pixel of the sensor: 1 red, 2 green, 3 blue.
Filter(p) ==
  LET swapped == format \in {"BAYER_GBRG", "BAYER_GBRG16"}
      row == IF swapped THEN 1 - (p[2] % 2) ELSE p[2] % 2 IN
  IF p[1] % 2 # row THEN 2 ELSE IF row = 0 THEN 1 ELSE 3

\* Which pixel's sample begins at a byte of a Bayer pattern.
Sensor(byte) == IF format \in {"BAYER_RGGB16", "BAYER_GBRG16"} THEN PixelNo(byte \div 2)
                ELSE PixelNo(byte)

\* Which pixels, and which of 1 red, 2 green, 3 blue, 4 alpha, or 1 brightness, 2 Cb,
\* 3 Cr, a byte of another format is about.
About(byte) ==
  LET size == width * height
      Quad(n) == {<<2 * (n % (width \div 2)) + dx, 2 * (n \div (width \div 2)) + dy>> :
                    dx \in {0, 1}, dy \in {0, 1}} IN
  CASE format \in {"GRAY8", "GRAY"} -> <<{PixelNo(byte)}, {1, 2, 3}>>
    [] format = "GRAY16" -> <<{PixelNo(byte \div 2)}, IF byte % 2 = 0 THEN {1, 2, 3} ELSE {}>>
    [] format = "RGB" -> <<{PixelNo(byte \div 3)}, {(byte % 3) + 1}>>
    [] format = "RGBA" -> <<{PixelNo(byte \div 4)}, {(byte % 4) + 1}>>
    [] format = "BGRA" -> <<{PixelNo(byte \div 4)}, {<<3, 2, 1, 4>>[(byte % 4) + 1]}>>
    [] format = "YUYV" ->
         IF byte % 2 = 0 THEN <<{PixelNo(byte \div 2)}, {1}>>
         ELSE <<{PixelNo(2 * (byte \div 4)), PixelNo(2 * (byte \div 4) + 1)},
                {IF byte % 4 = 1 THEN 2 ELSE 3}>>
    [] format = "YU12" ->
         IF byte < size THEN <<{PixelNo(byte)}, {1}>>
         ELSE IF byte < size + size \div 4 THEN <<Quad(byte - size), {2}>>
         ELSE <<Quad(byte - size - size \div 4), {3}>>

\* The bytes that a channel of a pixel was made of.
Made(p, c) ==
  LET base == IF to = "u32" THEN 4 * (p[2] * (width + pad) + p[1])
              ELSE p[2] * (3 * width + pad) + 3 * p[1] IN
  (IF to = "u32" \/ Direct THEN out ELSE narrow)[base + c - 1]

\* Every byte of every pixel of the result is written and none besides, whatever the
\* length of its rows (image_convert_u32, image_convert_u8x3).
EveryPixelWritten ==
  pc = "done" =>
    DOMAIN (IF to = "u32" \/ Direct THEN out ELSE narrow) =
      IF to = "u32" THEN {4 * (p[2] * (width + pad) + p[1]) + c : p \in Pixels, c \in 0 .. 3}
      ELSE {p[2] * (3 * width + pad) + 3 * p[1] + c : p \in Pixels, c \in 0 .. 2}

\* A colour the sensor saw at a pixel is kept; any other is averaged over pixels next to
\* it that saw it, each but the diagonal ones counted.  In the other formats a
\* channel is made of the bytes that are about it and its pixel
\* (debayer_rggb_to_u32 .. gray16_to_u32).
ColoursFromTheirPixels ==
  pc = "done" =>
    \A p \in Pixels, c \in 1 .. 3 :
      LET made == Made(p, c)
          bytes == {made[i] : i \in DOMAIN made} IN
      IF format \in Bayer
      THEN LET seen == {Sensor(b) : b \in bytes} IN
           /\ \A q \in seen : q \in Pixels /\ Near(p, q) /\ Filter(q) = c
           /\ Filter(p) = c => seen = {p} /\ Len(made) = 1
           /\ \A q \in Pixels : Filter(q) = c /\ Near(p, q) /\ (q[1] = p[1] \/ q[2] = p[2])
                                /\ Filter(p) # c => q \in seen
           /\ format \in {"BAYER_RGGB16", "BAYER_GBRG16"} => \A b \in bytes : b % 2 = 0
      ELSE LET parts == IF format \in {"YUYV", "YU12"}
                        THEN <<{1, 3}, {1, 2, 3}, {1, 2}>>[c] ELSE {c} IN
           /\ \A b \in bytes : p \in About(b)[1] /\ About(b)[2] \intersect parts # {}
           /\ \A part \in parts : \E b \in bytes : part \in About(b)[2]

\* Computed colours are bytes, and those of the television standard but for rounding:
\* no brightness overflows into darkness and no colour into another
\* (convert_yuyv_to_u32, convert_yuyv_to_u8x3, convert_yu12_to_u32).
ComputedColoursAreTrue ==
  \A e \in rgb :
    LET cb == sample.u - 128
        cr == sample.v - 128
        exact == IF format = "YUYV"
                 THEN <<1000 * e[1] + 1402 * cr, 1000 * e[1] - 344 * cb - 714 * cr,
                        1000 * e[1] + 1772 * cb>>
                 ELSE LET b == 1164 * (e[1] - 16) IN
                      <<b + 1596 * cr, b - 392 * cb - 813 * cr, b + 2017 * cb>> IN
    \A c \in 1 .. 3 :
      /\ e[2][c] \in 0 .. 255
      /\ 1000 * e[2][c] - 1000 * Clamp(exact[c] \div 1000) \in -2000 .. 2000
=============================================================================
