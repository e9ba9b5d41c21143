-------------------------- MODULE ColorConversion --------------------------
(***************************************************************************)
(* The colour conversions of libtensorflow_demo: rgb2yuv.cc writes a       *)
(* YUV420SP buffer of ImageUtils.getYUVByteSize bytes, yuv2rgb.cc reads it *)
(* back at full size, at half size or as RGB 565, and reads the three      *)
(* planes of a camera image with the strides the camera names.  With       *)
(* halfSize the latter is given only the Y plane and reads it like a       *)
(* YUV420SP buffer, past its end; the app never asks for it.  They do no   *)
(* error checking: that every access stays inside its array, that the      *)
(* 8-bit sums do not wrap and that a pixel gets the chroma of its own      *)
(* block follows from the index arithmetic alone.                          *)
(*                                                                         *)
(* One step is one pixel.  A buffer begins with what the caller left in    *)
(* it, as the arrays are reused from frame to frame.                       *)
(***************************************************************************)
EXTENDS Integers, Sequences, FiniteSetsExt

CONSTANTS
  Sizes,     \* image sizes <<width, height>>
  Palette,   \* colours <<r, g, b>> of ARGB 8888 pixels
  Palette565,\* colours of RGB 565 pixels, 5, 6 and 5 bits
  Samples,   \* the values of Y, U and V that are converted one by one
  Paddings,  \* bytes a camera leaves between two rows of a plane
  Leftover,  \* what a buffer holds before it is written
  Beyond     \* bytes that may lie behind an array

ASSUME ColourAssumption ==
  /\ Sizes \subseteq (Nat \ {0}) \X (Nat \ {0})
  /\ Palette \subseteq (0..255) \X (0..255) \X (0..255)
  /\ Palette565 \subseteq (0..31) \X (0..63) \X (0..31)
  /\ Samples \subseteq 0..255 /\ Paddings \subseteq Nat /\ Leftover \in 0..255
  /\ Beyond \subseteq 0..255

VARIABLES
  stage,    \* "idle", "encode", "encoded", "decode", "decoded", "crashed", "sample"
  size,     \* <<width, height>>
  format,   \* of the input pixels: "8888" or "565"
  image,    \* the input pixels
  yuv,      \* the YUV420SP buffer
  layout,   \* how it is read back, and the strides of a camera's planes
  out,      \* the output pixels
  p,        \* the pixel in turn
  touched,  \* the positions of Y and of UV bytes the last step accessed
  sample    \* a single <<Y, U, V>> given to YUV2RGB

colourVars == <<stage, size, format, image, yuv, layout, out, p, touched, sample>>

width  == size[1]
height == size[2]

UVSizeTruncated(w, h) == (w \div 2) * (h \div 2) * 2  \* mutant: odd sizes are cut

(* ImageUtils.getYUVByteSize *)
YSize(w, h)       == w * h
UVSize(w, h)      == ((w + 1) \div 2) * ((h + 1) \div 2) * 2
YUVByteSize(w, h) == YSize(w, h) + UVSize(w, h)

ySize  == YSize(width, height)
Pixels == 0..(ySize - 1)
X(k)   == k % width
Y(k)   == k \div width

NoSample   == <<16, 128, 128>>
SemiPlanar == [kind |-> "SP", pixel |-> 2, pad |-> 0]

ColourInit ==
  /\ stage = "idle" /\ size = <<1, 1>> /\ format = "8888"
  /\ image = <<>> /\ yuv = <<>> /\ layout = SemiPlanar
  /\ out = <<>> /\ p = 0 /\ touched = <<{}, {}>> /\ sample = NoSample

-----------------------------------------------------------------------------
(* ConvertRGB565ToYUV420SP fills the low bits with a copy of the high ones;
   << and | become * and +, as the bits do not overlap. *)
Stretch5(v) == v * 8 + v \div 4
Stretch6(v) == v * 4 + v \div 16
Unpack(f, c) == IF f = "8888" THEN c
                ELSE <<Stretch5(c[1]), Stretch6(c[2]), Stretch5(c[3])>>

(* WriteYUV.  >> is a floor division; the byte that is stored keeps 8 bits. *)
Luma(c)   == (66 * c[1] + 129 * c[2] + 25 * c[3] + 128) \div 256 + 16
ShareV(c) == (112 * c[1] - 94 * c[2] - 18 * c[3] + 128) \div 1024 + 32
ShareU(c) == (-38 * c[1] - 74 * c[2] + 112 * c[3] + 128) \div 1024 + 32

UVOffsetTruncated(w, x, y) ==  \* mutant: odd widths are rounded down
  2 * ((y \div 2) * (w \div 2) + x \div 2)

UVOffset(w, x, y) == 2 * ((y \div 2) * ((w + 1) \div 2) + x \div 2)

FirstInRow(x, y) == x % 2 = 0  \* mutant: cleared again by the second row

FirstOfBlock(x, y) == x % 2 = 0 /\ y % 2 = 0

(* convertARGB8888ToYUV420SP, convertRGB565ToYUV420SP: the call. *)
BeginEncode ==
  /\ stage = "idle"
  /\ size' \in Sizes
  /\ \/ format' = "8888" /\ image' \in [Pixels' -> Palette]
     \/ format' = "565" /\ image' \in [Pixels' -> Palette565]
  /\ yuv' = [k \in 0..(YUVByteSize(width', height') - 1) |-> Leftover]
  /\ stage' = "encode" /\ p' = 0
  /\ UNCHANGED <<layout, out, touched, sample>>

(* One round of the loop with WriteYUV. *)
WriteYUV ==
  /\ stage = "encode" /\ p \in Pixels
  /\ LET c == Unpack(format, image[p])
         o == ySize + UVOffset(width, X(p), Y(p))
         cleared == IF FirstOfBlock(X(p), Y(p))
                      THEN [yuv EXCEPT ![o] = 0, ![o + 1] = 0] ELSE yuv
     IN  /\ yuv' = [cleared EXCEPT ![p]     = Luma(c) % 256,
                                   ![o]     = (@ + ShareV(c)) % 256,
                                   ![o + 1] = (@ + ShareU(c)) % 256]
         /\ touched' = <<{p}, {o - ySize, o + 1 - ySize}>>
  /\ p' = p + 1
  /\ UNCHANGED <<stage, size, format, image, layout, out, sample>>

EndEncode ==
  /\ stage = "encode" /\ p \notin Pixels
  /\ stage' = "encoded"
  /\ UNCHANGED <<size, format, image, yuv, layout, out, p, touched, sample>>

-----------------------------------------------------------------------------
(* YUV2RGB: the three channels, clamped to 18 bits. *)
kMaxChannelValue == 262143
Clamp(v) == Min({kMaxChannelValue, Max({0, v})})

ChannelsAsCommented(nY, nU, nV) ==  \* mutant: the formulas of the comment
  LET y == Max({nY - 16, 0})
      u == nU - 128
      v == nV - 128
  IN  <<Clamp(1192 * y + 2066 * u),
        Clamp(1192 * y - 833 * v - 400 * u),
        Clamp(1192 * y + 1634 * v)>>

Channels(nY, nU, nV) ==
  LET y == Max({nY - 16, 0})
      u == nU - 128
      v == nV - 128
  IN  <<Clamp(1192 * y + 1634 * v),
        Clamp(1192 * y - 833 * v - 400 * u),
        Clamp(1192 * y + 2066 * u)>>

Pack8888(c) == <<(c[1] \div 1024) % 256, (c[2] \div 1024) % 256, (c[3] \div 1024) % 256>>
Pack565(c)  == <<(c[1] \div 8192) % 32, (c[2] \div 4096) % 64, (c[3] \div 8192) % 32>>

(* YUV2RGB of a single sample. *)
ConvertSample ==
  /\ stage = "idle"
  /\ \E nY, nU, nV \in Samples : sample' = <<nY, nU, nV>>
  /\ stage' = "sample"
  /\ UNCHANGED <<size, format, image, yuv, layout, out, p, touched>>

(* The planes of a camera image with the same samples: external, after the
   layout that android.media.Image documents.  The last row of a plane ends
   with its last sample. *)
Columns    == (width + 1) \div 2
Rows       == (height + 1) \div 2
YStride    == width + layout.pad
UVStride   == Columns * layout.pixel + layout.pad
YCapacity  == YStride * (height - 1) + width
UVCapacity == UVStride * (Rows - 1) + layout.pixel * (Columns - 1) + 1
PlaneY(at) ==
  IF at % YStride < width THEN yuv[(at \div YStride) * width + (at % YStride)]
                          ELSE Leftover
PlaneUV(at, chroma) ==
  LET row == at \div UVStride
      col == at % UVStride
  IN  IF col % layout.pixel = 0 /\ col \div layout.pixel < Columns
        THEN yuv[ySize + 2 * (row * Columns + col \div layout.pixel) + chroma]
        ELSE Leftover

(* The call of one of the readers. *)
BeginDecode ==
  /\ stage = "encoded"
  /\ \/ \E kind \in {"SP", "565", "half"} : layout' = [layout EXCEPT !.kind = kind]
     \/ \E pixel \in {1, 2}, pad \in Paddings :
          layout' = [kind |-> "planes", pixel |-> pixel, pad |-> pad]
     \/ \E pad \in Paddings :
          layout' = [kind |-> "halfPlanes", pixel |-> 1, pad |-> pad]
  /\ stage' = "decode" /\ p' = 0 /\ touched' = <<{}, {}>>
  /\ UNCHANGED <<size, format, image, yuv, out, sample>>

(* One round of the loop of ConvertYUV420ToARGB8888. *)
ReadPlanes ==
  /\ stage = "decode" /\ layout.kind = "planes" /\ p \in Pixels
  /\ LET atY  == YStride * Y(p) + X(p)
         atUV == UVStride * (Y(p) \div 2) + (X(p) \div 2) * layout.pixel
     IN  /\ touched' = <<{atY}, {atUV}>>
         /\ out' = Append(out, Pack8888(Channels(PlaneY(atY), PlaneUV(atUV, 1),
                                                 PlaneUV(atUV, 0))))
  /\ p' = p + 1
  /\ UNCHANGED <<stage, size, format, image, yuv, layout, sample>>

SPOffset(x, y) == (y \div 2) * width + 2 * (x \div 2)

(* One round of the loop of ConvertYUV420SPToARGB8888 or ...ToRGB565. *)
ReadSP ==
  /\ stage = "decode" /\ layout.kind \in {"SP", "565"} /\ p \in Pixels
  /\ LET o == ySize + SPOffset(X(p), Y(p))
         c == Channels(yuv[p], yuv[o + 1], yuv[o])
     IN  /\ touched' = <<{p}, {o - ySize, o + 1 - ySize}>>
         /\ out' = Append(out, IF layout.kind = "SP" THEN Pack8888(c) ELSE Pack565(c))
  /\ p' = p + 1
  /\ UNCHANGED <<stage, size, format, image, yuv, layout, sample>>

(* One round of ConvertYUV420SPToARGB8888HalfSize; pY moves by 2 for every
   pixel and by the stride after every row. *)
halfWidth  == width \div 2
HalfPixels == 0..(YSize(halfWidth, height \div 2) - 1)
ReadHalf ==
  /\ stage = "decode" /\ layout.kind = "half" /\ p \in HalfPixels
  /\ LET row == p \div halfWidth
         at  == 2 * p + row * width
         o   == ySize + 2 * p
         nY  == (yuv[at] + yuv[at + 1] + yuv[at + width] + yuv[at + width + 1]) \div 4
     IN  /\ touched' = <<{at, at + 1, at + width, at + width + 1}, {2 * p, 2 * p + 1}>>
         /\ out' = Append(out, Pack8888(Channels(nY, yuv[o + 1], yuv[o])))
  /\ p' = p + 1
  /\ UNCHANGED <<stage, size, format, image, yuv, layout, sample>>

(* The same reader on the Y plane of a camera, whose row stride it is not
   told: it takes its chroma from behind the Y samples.  What it reads there
   is padding or lies beyond the array, and is then any byte or a fault. *)
BytesAt(k) == IF k < YCapacity THEN {PlaneY(k)} ELSE Beyond
ReadHalfPlanes ==
  /\ stage = "decode" /\ layout.kind = "halfPlanes" /\ p \in HalfPixels
  /\ LET row == p \div halfWidth
         at  == 2 * p + row * width
         o   == ySize + 2 * p
         nY  == (PlaneY(at) + PlaneY(at + 1) + PlaneY(at + width)
                   + PlaneY(at + width + 1)) \div 4
     IN  /\ touched' = <<{at, at + 1, at + width, at + width + 1}, {2 * p, 2 * p + 1}>>
         /\ \/ /\ \E nV \in BytesAt(o), nU \in BytesAt(o + 1) :
                    out' = Append(out, Pack8888(Channels(nY, nU, nV)))
               /\ p' = p + 1 /\ UNCHANGED stage
            \/ /\ o + 1 >= YCapacity
               /\ stage' = "crashed" /\ UNCHANGED <<out, p>>
  /\ UNCHANGED <<size, format, image, yuv, layout, sample>>

EndDecode ==
  /\ stage = "decode"
  /\ p \notin (IF layout.kind \in {"half", "halfPlanes"} THEN HalfPixels ELSE Pixels)
  /\ stage' = "decoded"
  /\ UNCHANGED <<size, format, image, yuv, layout, out, p, touched, sample>>

(* The call returns, or the process that crashed is started again; only the
   buffers the caller owns are left. *)
Return ==
  /\ stage \in {"decoded", "crashed", "sample"}
  /\ stage' = "idle" /\ size' = <<1, 1>> /\ format' = "8888"
  /\ image' = <<>> /\ yuv' = <<>> /\ layout' = SemiPlanar
  /\ out' = <<>> /\ p' = 0 /\ touched' = <<{}, {}>> /\ sample' = NoSample

Encode     == BeginEncode \/ WriteYUV \/ EndEncode
Decode     == BeginDecode \/ ReadPlanes \/ ReadSP \/ ReadHalf \/ ReadHalfPlanes
              \/ EndDecode
ColourNext == Encode \/ Decode \/ ConvertSample \/ Return
ColourSpec == ColourInit /\ [][ColourNext]_colourVars

-----------------------------------------------------------------------------
Byte == 0..255

(* What is stored fits its width: bytes in the buffers, 18 bits in a channel
   before it is shifted. *)
ColourTypeOK ==
  /\ stage \in {"idle", "encode", "encoded", "decode", "decoded", "crashed", "sample"}
  /\ p \in 0..ySize
  /\ \A k \in DOMAIN yuv : yuv[k] \in Byte
  /\ \A k \in DOMAIN out : out[k] \in Byte \X Byte \X Byte
  /\ LET c == Channels(sample[1], sample[2], sample[3])
     IN  \A k \in 1..3 : c[k] \in 0..kMaxChannelValue

(* No conversion accesses a byte outside the Y or the UV part of a buffer of
   getYUVByteSize bytes, or outside the planes a camera hands out, whose
   last rows are not padded; odd sizes included.  The one exception is the
   halfSize branch of convertYUV420ToARGB8888: its luma is in the Y plane
   whatever the padding, but its chroma is looked for in the UVSize bytes
   behind the Y samples, of which the array has only YCapacity - ySize, and
   nothing else makes a conversion fault. *)
YBytes  == IF layout.kind \in {"planes", "halfPlanes"} THEN YCapacity ELSE ySize
UVBytes == IF layout.kind = "planes" THEN UVCapacity ELSE UVSize(width, height)
InBoundsUnlessHalfPlanes ==
  /\ \A k \in touched[1] : k \in 0..(YBytes - 1)
  /\ \A k \in touched[2] : k \in 0..(UVBytes - 1)
  /\ stage = "crashed" => /\ layout.kind = "halfPlanes"
                          /\ \E k \in touched[2] : ySize + k >= YCapacity

(* The image in the terms of WriteYUV, and sums over the pixels of a block
   that the image has: a block at an odd edge is cut. *)
Colour(m) == Unpack(format, image[m])
Lumas     == [m \in Pixels |-> Luma(Colour(m))]
SharesU   == [m \in Pixels |-> ShareU(Colour(m))]
SharesV   == [m \in Pixels |-> ShareV(Colour(m))]
RawU(c)   == -38 * c[1] - 74 * c[2] + 112 * c[3]
RawV(c)   == 112 * c[1] - 94 * c[2] - 18 * c[3]
RawsU     == [m \in Pixels |-> RawU(Colour(m))]
RawsV     == [m \in Pixels |-> RawV(Colour(m))]

Corner(f, x, y) == IF x < width /\ y < height THEN f[y * width + x] ELSE 0
BlockSum(f, a, b) ==
  Corner(f, 2 * a, 2 * b)     + Corner(f, 2 * a + 1, 2 * b) +
  Corner(f, 2 * a, 2 * b + 1) + Corner(f, 2 * a + 1, 2 * b + 1)

(* "U and V are the average values of all 4 pixels in the block": for every
   whole block the bytes are the average, less than 4 below it, although they
   are accumulated in 8 bits on top of what the buffer held before and each
   of the four shares is rounded down.  The blocks at an odd edge, which have
   fewer pixels, are left out: they hold a half or a quarter. *)
ChromaIsAverage ==
  stage = "encoded" =>
    \A a \in 0..(width \div 2 - 1), b \in 0..(height \div 2 - 1) :
      LET o == ySize + 2 * (b * Columns + a)
      IN  /\ BlockSum(RawsV, a, b) + 512 - 1024 * (yuv[o] - 128) \in 0..4095
          /\ BlockSum(RawsU, a, b) + 512 - 1024 * (yuv[o + 1] - 128) \in 0..4095

(* What was encoded is read back with the chroma of its own block and the
   luma of its own pixels, through the planes of a camera for every size,
   and from the semi-planar buffer for even sizes: for odd ones the readers
   of yuv2rgb.cc take a row of chroma to be width bytes where the writer
   rounds up.  Nothing is claimed of the halfSize branch for planes, which
   never looks at the U and V planes. *)
OwnColour(k) ==
  LET half == layout.kind = "half"
      a  == IF half THEN k % halfWidth ELSE X(k) \div 2
      b  == IF half THEN k \div halfWidth ELSE Y(k) \div 2
      nY == IF half THEN BlockSum(Lumas, a, b) \div 4 ELSE Lumas[k]
      c  == Channels(nY, BlockSum(SharesU, a, b), BlockSum(SharesV, a, b))
  IN  IF layout.kind = "565" THEN Pack565(c) ELSE Pack8888(c)

DecodedFromOwnBlock ==
  layout.kind = "planes" \/ (layout.kind # "halfPlanes" /\ width % 2 = 0 /\ height % 2 = 0)
  =>
    \A k \in DOMAIN out : out[k] = OwnColour(k - 1)

(* The integer arithmetic of YUV2RGB stays within one and a half steps of
   ITU-R BT.601, clamped to 8 bits, which the masking could destroy; and RGB
   565 has the high bits of the same channels. *)
Limited(v) == Min({255000, Max({0, v})})
Near(c, v) == 1000 * c - Limited(v) \in -1500..1500
SamplesAreBT601 ==
  LET y == Max({sample[1] - 16, 0})
      u == sample[2] - 128
      v == sample[3] - 128
      c == Pack8888(Channels(sample[1], sample[2], sample[3]))
      d == Pack565(Channels(sample[1], sample[2], sample[3]))
  IN  /\ Near(c[1], 1164 * y + 1596 * v)
      /\ Near(c[2], 1164 * y - 813 * v - 391 * u)
      /\ Near(c[3], 1164 * y + 2018 * u)
      /\ d = <<c[1] \div 8, c[2] \div 4, c[3] \div 8>>
=============================================================================
