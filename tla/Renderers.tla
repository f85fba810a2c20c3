------------------------------ MODULE Renderers ------------------------------
(***************************************************************************)
(* One display list, two ways to pixels: gostui-compositor/src/render and  *)
(* the rasteriser of gostui-render, drawing frame after frame while the    *)
(* window is resized and the client commits buffers it may lie about.      *)
(*                                                                         *)
(* The program runs one of the two renderers; here both draw every frame,  *)
(* so that their pictures can be compared.  A pixel has one colour channel *)
(* and alpha, both a byte wide; the code treats its three channels alike.  *)
(* The list has an item of each kind in the order of Picture's: the        *)
(* background, a client, a panel, a line of text.  The scale is 1, as in   *)
(* try_draw, so that physical and logical pixels are the same.             *)
(*                                                                         *)
(* GL is external: it blends premultiplied colours and rounds, and what    *)
(* was in a framebuffer before the frame is not known.  smithay checks a   *)
(* buffer's layout before it is imported.                                  *)
(***************************************************************************)
EXTENDS Geometry

CONSTANTS WindowSizes, \* the sizes the window takes
          Buffers,     \* what the client commits
          Themes,      \* the colours of background, panel and text
          Glyphs,      \* the coverage of the pixels of a line of text
          Garbage,     \* what a framebuffer may hold before a frame
          MaxCommits   \* bound of the model

VARIABLES
  size,    \* the size of the window
  theme,   \* its colours, of a process
  buffer,  \* the client's current buffer
  commits, \* how many it has committed
  canvas,  \* Cpu.canvas: a size and pixels, or nothing
  texture, \* Cpu.texture: the picture uploaded last, or nothing
  shown,   \* what the frame on the screen was drawn from
  screen   \* that frame, by each renderer

renderVars == <<size, theme, buffer, commits, canvas, texture, shown, screen>>

Byte == 0..255

Colour == [c : Byte, a : Byte]

Pixel(c, a) == [c |-> c, a |-> a]

Blank == Pixel(0, 0)

ASSUME BoundAssumption == MaxCommits \in Nat
ASSUME WindowSizesAssumption == WindowSizes \subseteq [w : Nat, h : Nat]
ASSUME ThemesAssumption ==
  Themes \subseteq [background : Colour, panel : Colour, text : Byte]
ASSUME GarbageAssumption == Garbage \subseteq Colour

\* A line of text is one pixel high, and so is the panel it is on.
ASSUME GlyphsAssumption ==
  \A q \in DOMAIN Glyphs : q.x \in Int /\ q = Point(q.x, 0) /\ Glyphs[q] \in Byte

\* A client may claim any size, stride, offset and geometry; the length of a
\* pool is what was mapped.
ClientBuffer ==
  [kind : {"none", "shm", "dmabuf"}, w : Int, h : Int, stride : Int, offset : Int, len : Nat,
   format : {"argb", "xrgb"}, geometry : [x : Int, y : Int], body : Colour, shadow : Colour]

ASSUME BuffersAssumption == Buffers \subseteq ClientBuffer

Points(s) == {Point(x, y) : x \in 0..(s.w - 1), y \in 0..(s.h - 1)}

Offset(p, by) == Point(p.x + by.x, p.y + by.y)

Less(p, by) == Point(p.x - by.x, p.y - by.y)

Filled(s, px) == [p \in Points(s) |-> px]

----------------------------------------------------------------------------
(* The display list                                                        *)

Fill(rect, colour) == [kind |-> "fill", rect |-> rect, colour |-> colour]

\* Glyphs in the text's colour, each pixel with its own coverage.
Image(at, colour, coverage) ==
  [kind |-> "image", at |-> at,
   pixels |-> [q \in DOMAIN coverage |-> Pixel(colour, coverage[q])]]

\* Variant: the window is taken to start at the corner of its buffer.
BufferOffset_Corner(b) == Point(0, 0)

\* Where the window starts in its buffer: a client with decorations of its
\* own reports an inset geometry, or nonsense.
BufferOffset(b) == Point(Most(b.geometry.x, 0), Most(b.geometry.y, 0))

Surface(rect, b) ==
  [kind |-> "surface", rect |-> rect, src |-> BufferOffset(b), buffer |-> b]

\* The tile between two margins and above the bar, as Picture lays them out.
TileOf(s) == Rect(1, 0, s.w - 2, s.h - 1)

ListOf(in) ==
  << Fill(Rect(0, 0, in.size.w, in.size.h), in.theme.background),
     Surface(TileOf(in.size), in.buffer),
     Fill(Rect(0, in.size.h - 1, in.size.w, 1), in.theme.panel),
     Image(Point(in.size.w - 2, in.size.h - 1), in.theme.text, Glyphs) >>

----------------------------------------------------------------------------
(* The client's buffer                                                     *)

\* The colour of a pixel, premultiplied: outside the geometry the client
\* draws its shadow.  Without an alpha channel the byte there is rubbish.
Content(b, q) ==
  IF q.x < b.geometry.x \/ q.y < b.geometry.y THEN b.shadow ELSE b.body

\* Variant: the bytes before the first row are not counted.
Readable_NoOffset(b) ==
  /\ b.kind = "shm" /\ b.w > 0 /\ b.h > 0 /\ b.stride > 0 /\ b.offset >= 0
  /\ b.w * 4 <= b.stride
  /\ b.h * b.stride <= b.len

\* blend_client: what does not add up, or is not in shared memory, is skipped.
Readable(b) ==
  /\ b.kind = "shm" /\ b.w > 0 /\ b.h > 0 /\ b.stride > 0 /\ b.offset >= 0
  /\ b.w * 4 <= b.stride
  /\ b.h * b.stride + b.offset <= b.len

Skip(slot) == Point(Least(slot.src.x, slot.buffer.w), Least(slot.src.y, slot.buffer.h))

\* The pixels of the buffer that are looked at, and the bytes they are at.
Looked(slot) ==
  {q \in Points(slot.buffer) : q.x >= Skip(slot).x /\ q.y >= Skip(slot).y}

BytesRead(slot) ==
  IF ~Readable(slot.buffer) THEN {}
  ELSE UNION {LET at == slot.buffer.offset + q.y * slot.buffer.stride + q.x * 4
              IN  at..(at + 3) : q \in Looked(slot)}

\* Variant: the client is believed.
Straight_Unclamped(px, opaque) ==
  IF opaque \/ px.a = 255 THEN Pixel(px.c, 255)
  ELSE IF px.a = 0 THEN Blank
  ELSE Pixel((px.c * 255 + px.a \div 2) \div px.a, px.a)

\* un: straight alpha again; a client may claim more colour than alpha.
Straight(px, opaque) ==
  IF opaque \/ px.a = 255 THEN Pixel(px.c, 255)
  ELSE IF px.a = 0 THEN Blank
  ELSE Pixel(Least((px.c * 255 + px.a \div 2) \div px.a, 255), px.a)

----------------------------------------------------------------------------
(* The CPU path                                                            *)

Mix(s, d, a) == (s * a + d * (255 - a) + 127) \div 255

\* blend: source over, rounded.
Blend(dst, src) ==
  IF src.a = 255 THEN src
  ELSE Pixel(Mix(src.c, dst.c, src.a), Least(src.a + Mix(0, dst.a, src.a), 255))

\* Canvas::fill_rect: overwrites, whatever the colour's alpha; clipped.
FillRect(pixels, rect, colour) ==
  [p \in DOMAIN pixels |-> IF ContainsPoint(rect, p) THEN colour ELSE pixels[p]]

\* Canvas::blend_image: clipped to the canvas.
BlendImage(pixels, image) ==
  [p \in DOMAIN pixels |->
     LET q == Less(p, image.at)
     IN  IF q \in DOMAIN image.pixels THEN Blend(pixels[p], image.pixels[q]) ELSE pixels[p]]

\* Variant: a buffer of the old size is drawn in full.
Shows_WholeBuffer(slot, q) == q \in Looked(slot)

\* blend_rgba: of what is looked at, only what falls on the tile.
Shows(slot, q) == q \in Looked(slot) /\ ContainsPoint(slot.rect, Offset(Less(q, Skip(slot)), slot.rect))

BlendClient(pixels, slot) ==
  IF ~Readable(slot.buffer) THEN pixels
  ELSE [p \in DOMAIN pixels |->
          LET q == Offset(Less(p, slot.rect), Skip(slot))
          IN  IF Shows(slot, q)
              THEN Blend(pixels[p], Straight(Content(slot.buffer, q), slot.buffer.format = "xrgb"))
              ELSE pixels[p]]

\* prepare, one item of the list.
Paint(pixels, item) ==
  CASE item.kind = "fill"    -> FillRect(pixels, item.rect, item.colour)
    [] item.kind = "image"   -> BlendImage(pixels, item)
    [] item.kind = "surface" -> BlendClient(pixels, item)

CpuPicture(pixels, in) ==
  LET list == ListOf(in)
      after[i \in 0..Len(list)] == IF i = 0 THEN pixels ELSE Paint(after[i - 1], list[i])
  IN  after[Len(list)]

----------------------------------------------------------------------------
(* The GL path                                                             *)

\* premultiply: rounded, like the blend of the other path.
Premultiply(px) ==
  IF px.a = 255 THEN px ELSE Pixel((px.c * px.a + 127) \div 255, px.a)

\* GL: a premultiplied colour over another, saturating and rounded.
GlBlend(dst, px) ==
  Pixel(Least((px.c * 255 + dst.c * (255 - px.a) + 127) \div 255, 255),
        Least((px.a * 255 + dst.a * (255 - px.a) + 127) \div 255, 255))

\* Variant: textures only for what has one; the rest of the list moves up.
TexturesOf_Compact(list) ==
  LET textured == SelectSeq(list, LAMBDA item : item.kind # "fill")
  IN  [i \in DOMAIN list |-> IF i <= Len(textured) THEN textured[i] ELSE << >>]

\* Gles::prepare: one slot for every item of the list, nothing for a fill.
TexturesOf(list) ==
  [i \in DOMAIN list |-> IF list[i].kind = "fill" THEN << >> ELSE list[i]]

\* Imported, or a hole in the picture.
Imported(b) == b.kind = "dmabuf" \/ Readable(b)

\* draw_solid: the theme's straight colour, as GL takes it.
DrawFill(picture, item) ==
  [p \in DOMAIN picture |->
     IF ContainsPoint(item.rect, p) THEN GlBlend(picture[p], item.colour) ELSE picture[p]]

DrawImage(picture, item, tex) ==
  [p \in DOMAIN picture |->
     LET q == Less(p, item.at)
     IN  IF q \in DOMAIN tex.pixels THEN GlBlend(picture[p], Premultiply(tex.pixels[q]))
         ELSE picture[p]]

\* The buffer at its own size, from where the window starts, cut at the tile.
Visible(slot) ==
  Rect(slot.rect.x, slot.rect.y,
       Least(slot.buffer.w - slot.src.x, slot.rect.w), Least(slot.buffer.h - slot.src.y, slot.rect.h))

DrawClient(picture, slot) ==
  IF ~Imported(slot.buffer) THEN picture
  ELSE [p \in DOMAIN picture |->
          LET px == Content(slot.buffer, Offset(Less(p, slot.rect), slot.src))
          IN  IF ContainsPoint(Visible(slot), p)
              THEN GlBlend(picture[p], IF slot.buffer.format = "xrgb" THEN Pixel(px.c, 255) ELSE px)
              ELSE picture[p]]

\* Gles::draw: an item with its texture, or without one.
DrawItem(picture, item, tex) ==
  CASE item.kind = "fill" -> DrawFill(picture, item)
    [] item.kind = "image" /\ tex # << >> /\ tex.kind = "image" -> DrawImage(picture, item, tex)
    [] item.kind = "surface" /\ tex # << >> -> DrawClient(picture, item)
    [] OTHER -> picture

GlPicture(picture, in) ==
  LET list     == ListOf(in)
      textures == TexturesOf(list)
      after[i \in 0..Len(list)] ==
        IF i = 0 THEN picture ELSE DrawItem(after[i - 1], list[i], textures[i])
  IN  after[Len(list)]

----------------------------------------------------------------------------
(* Frames                                                                  *)

Inputs == [size |-> size, theme |-> theme, buffer |-> buffer]

\* Canvas::new: nothing for a window without an area.
NewCanvas(s) == IF IsValid(s) THEN [size |-> s, pixels |-> Filled(s, Blank)] ELSE << >>

\* Variant: as long as there is room for the pixels.
Fits_Room(c, s) == c # << >> /\ c.size.w * c.size.h >= s.w * s.h

Fits(c, s) == c # << >> /\ c.size = s

\* Cpu::prepare: the canvas of the last frame, if it fits, or a new one.
Prepared ==
  LET base == IF Fits(canvas, size) THEN canvas ELSE NewCanvas(size)
  IN  IF base = << >> THEN << >>
      ELSE [base EXCEPT !.pixels = CpuPicture(@, Inputs)]

\* What is there after a texture was drawn over it, opaque as it is.
Presented(tex) == IF tex = << >> THEN << >> ELSE tex.pixels

\* try_draw: both prepare, upload, draw and submit.
DrawFrame ==
  /\ canvas' = Prepared
  /\ texture' = IF Prepared = << >> THEN texture ELSE Prepared
  /\ shown' = Inputs
  /\ \E g \in Garbage :
       screen' = [cpu |-> Presented(texture'), gl |-> GlPicture(Filled(size, g), Inputs)]
  /\ UNCHANGED <<size, theme, buffer, commits>>

\* The upload, or anything after it, fails: the canvas is painted already.
FrameDropped ==
  /\ canvas' = Prepared
  /\ texture' \in {texture, IF Prepared = << >> THEN texture ELSE Prepared}
  /\ UNCHANGED <<size, theme, buffer, commits, shown, screen>>

Resize == /\ size' \in WindowSizes
          /\ UNCHANGED <<theme, buffer, commits, canvas, texture, shown, screen>>

\* on_commit_buffer_handler keeps the buffer for the next frame.
Commit == /\ commits < MaxCommits /\ commits' = commits + 1
          /\ buffer' \in Buffers
          /\ UNCHANGED <<size, theme, canvas, texture, shown, screen>>

RenderInit ==
  /\ size \in WindowSizes /\ theme \in Themes
  /\ buffer \in {b \in Buffers : b.kind = "none"}
  /\ commits = 0 /\ canvas = << >> /\ texture = << >>
  /\ shown = << >> /\ screen = << >>

RenderNext == DrawFrame \/ FrameDropped \/ Resize \/ Commit

RenderSpec == RenderInit /\ [][RenderNext]_renderVars

----------------------------------------------------------------------------
(* Type and safety                                                         *)

Channels(picture) == \A p \in DOMAIN picture : picture[p].c \in Byte /\ picture[p].a \in Byte

\* A canvas is as large as it says, and colours are bytes.
RenderTypeOK ==
  /\ size \in WindowSizes /\ theme \in Themes /\ buffer \in Buffers
  /\ canvas # << >> => DOMAIN canvas.pixels = Points(canvas.size) /\ Channels(canvas.pixels)
  /\ screen # << >> => Channels(screen.cpu) /\ Channels(screen.gl)

HasPicture == shown # << >> /\ IsValid(shown.size)

\* GL blends every fill: only an opaque desktop hides what was there.
Cleared == shown.theme.background.a = 255

\* cpu.rs:28-31: the canvas is kept between frames, and the framebuffer is
\* never cleared; still a frame shows nothing of the frames before it (in the
\* GL path as long as the theme's desktop is opaque).
PictureIsFresh ==
  HasPicture =>
    /\ screen.cpu = CpuPicture(Filled(shown.size, Blank), shown)
    /\ Cleared => screen.gl = GlPicture(Filled(shown.size, Blank), shown)

\* text.rs:560-564: before a client answers a configure its buffer has the
\* old size; in neither path does any of it leave the tile.
ClientStaysInItsTile ==
  HasPicture =>
    LET empty == [shown EXCEPT !.buffer.kind = "none"]
    IN  \A p \in Points(shown.size) :
          ~ContainsPoint(TileOf(shown.size), p) =>
             /\ screen.cpu[p] = CpuPicture(Filled(shown.size, Blank), empty)[p]
             /\ Cleared => screen.gl[p] = GlPicture(Filled(shown.size, Blank), empty)[p]

\* text.rs:80-87: what lies outside the window's geometry has no influence on
\* the picture, in either path.
ShadowsAreNeverShown ==
  HasPicture =>
    LET other == [shown EXCEPT !.buffer.shadow = Pixel(255 - @.c, 255)]
    IN  /\ screen.cpu = CpuPicture(Filled(shown.size, Blank), other)
        /\ Cleared => screen.gl = GlPicture(Filled(shown.size, Blank), other)

\* cpu.rs:67-85: whatever width, height, stride, offset and pool a client
\* claims, no byte outside the pool is read.
ReadsStayInPool ==
  HasPicture =>
    \A b \in BytesRead(Surface(TileOf(shown.size), shown.buffer)) : b \in 0..(shown.buffer.len - 1)

\* What holds between any two steps: the canvas, the texture and the last frame
\* are pictures of sizes the window had, and the frame is its inputs' own.
RenderInv ==
  /\ RenderTypeOK
  /\ canvas # << >> => /\ canvas.size \in WindowSizes
                       /\ canvas = [size |-> canvas.size, pixels |-> canvas.pixels]
                       /\ canvas.pixels \in [Points(canvas.size) -> Colour]
  /\ texture # << >> => texture.pixels \in [Points(texture.size) -> Colour]
  /\ shown # << >> => shown \in [size : WindowSizes, theme : Themes, buffer : Buffers]
  /\ PictureIsFresh

\* Of a client's memory exactly the window is shown, on exactly its tile.
ClientsShowTheirOwn ==
  RenderTypeOK /\ ClientStaysInItsTile /\ ShadowsAreNeverShown /\ ReadsStayInPool

\* The colours are what they can be: no more colour than alpha.
Honest(b) == b.body.c <= b.body.a

Opaque(th) == th.background.a = 255 /\ th.panel.a = 255

\* gles.rs:200-203, text.rs:510-513: with opaque fills, a client that both can
\* read and no lies, the pictures differ by rounding: one step of 255.
PathsAgreeWithinRounding ==
  HasPicture /\ Opaque(shown.theme) /\ shown.buffer.kind # "dmabuf" /\ Honest(shown.buffer) =>
    \A p \in Points(shown.size) :
      screen.cpu[p].c \in (screen.gl[p].c - 1)..(screen.gl[p].c + 1)

----------------------------------------------------------------------------
(* What the comments say and the code does not keep                        *)

\* text.rs:510-513 `it broke the pixel-for-pixel agreement that is the only
\* thing keeping the two paths honest about each other': text looks the same
\* in both.
TextAgreesExactly ==
  HasPicture /\ Opaque(shown.theme) =>
    \A x \in 0..(shown.size.w - 1) :
      screen.cpu[Point(x, shown.size.h - 1)].c = screen.gl[Point(x, shown.size.h - 1)].c

\* text.rs:5-7 `a solid rectangle, which both the GPU and the CPU path can
\* produce independently and still agree on'.
SolidsAgree ==
  HasPicture => screen.cpu[Point(0, shown.size.h - 1)].c = screen.gl[Point(0, shown.size.h - 1)].c

\* gles.rs draws the list and never clears: with a desktop colour that has an
\* alpha, which no theme is refused for, the frame before shows through.
GlIsAlwaysFresh ==
  HasPicture => screen.gl = GlPicture(Filled(shown.size, Blank), shown)
=============================================================================
