------------------------------ MODULE TextCache ------------------------------
(***************************************************************************)
(* Strings, cut to their boxes, rasterised once and remembered:            *)
(* gostui-render/src/text.rs, frame after frame.                           *)
(*                                                                         *)
(* The fonts are external: a character has an advance in thirds of the     *)
(* font size, a newline in a title starts another line, and shaping adds   *)
(* the advances up.  Pixels are left out; an image is the text it shows,   *)
(* its size and its colour.  Fills and surfaces pass through resolve as    *)
(* they are, and are no part of a frame here.                              *)
(***************************************************************************)
EXTENDS Geometry, FiniteSets, Sequences

CONSTANTS Lists(_),   \* what a frame may hold, strings with their boxes, by
                      \* how many frames there were before it
          Advance,    \* of each character, in thirds of the font size
          Scales,     \* the output scale, of a process
          CacheLimit, \* CACHE_LIMIT
          MaxFrames   \* bound of the model

ASSUME LimitAssumption == CacheLimit \in Nat \ {0}
ASSUME FramesAssumption == MaxFrames \in Nat
ASSUME ScalesAssumption == Scales \subseteq Nat \ {0}

Ellipsis == "..."

Newline == "newline"

\* No character is narrower than nothing, and an ellipsis is one.
ASSUME AdvanceAssumption ==
  Ellipsis \in DOMAIN Advance /\ \A ch \in DOMAIN Advance : Advance[ch] \in Nat

\* A string of any size, in a box that may be none.
IsRun(run) ==
  /\ run.text \in Seq(DOMAIN Advance \cup {Newline}) /\ run.size \in Int
  /\ run.align \in {"start", "centre", "end"}
  /\ run.area.x \in Int /\ run.area.y \in Int /\ run.area.w \in Int /\ run.area.h \in Int

\* A frame is a list of them.
ASSUME ListsAssumption ==
  \A n \in 0..MaxFrames : \A runs \in Lists(n) :
    Len(runs) \in Nat /\ DOMAIN runs = 1..Len(runs) /\ \A i \in DOMAIN runs : IsRun(runs[i])

VARIABLES
  fontless, \* TextRenderer.fontless
  scale,
  cache,    \* TextRenderer.cache: keys to images and when they were wanted
  clock,    \* TextRenderer.clock
  frames,   \* how many frames there were
  before,   \* the runs of the frame before the last
  list,     \* the runs of the last frame
  out,      \* what resolve made of them, run by run
  made      \* how many images the last frame rasterised

textVars == <<fontless, scale, cache, clock, frames, before, list, out, made>>

NoImage == << >>

----------------------------------------------------------------------------
(* The fonts                                                               *)

\* Rounded up, to whole pixels.
Ceil(n, d) == (n + d - 1) \div d

\* Where the lines of a string begin.
Starts(text) == {1} \cup {i + 1 : i \in {j \in DOMAIN text : text[j] = Newline}}

\* How wide the line of each character is up to there.
Widths(text) ==
  LET w[i \in 0..Len(text)] ==
        IF i = 0 THEN 0 ELSE IF text[i] = Newline THEN 0 ELSE w[i - 1] + Advance[text[i]]
  IN  w

\* measure: the widest line.
Measure(text, size_px) ==
  LET widths == {Widths(text)[i] : i \in 0..Len(text)}
  IN  Ceil(size_px * (CHOOSE w \in widths : \A v \in widths : v <= w), 3)

\* Line by line, 1.4 of the font size each.
Height(text, size_px) == Ceil(14 * size_px * Cardinality(Starts(text)), 10)

----------------------------------------------------------------------------
(* Cutting                                                                 *)

\* The first n characters, and the ellipsis.
Cut(text, n) == Append(SubSeq(text, 1, n), Ellipsis)

\* Variant: the room the ellipsis takes is forgotten.
WidthFits_Bare(text, n, size_px, max_w) == Measure(SubSeq(text, 1, n), size_px) <= max_w

WidthFits(text, n, size_px, max_w) == Measure(Cut(text, n), size_px) <= max_w

\* Variant: a probe that does not fit rules out its neighbour as well.
Search_Hasty(text, size_px, max_w) ==
  LET best[between \in (0..Len(text)) \X (0..Len(text))] ==
        LET lo  == between[1]
            hi  == between[2]
            mid == (lo + hi + 1) \div 2
        IN  IF lo >= hi THEN lo
            ELSE IF WidthFits(text, mid, size_px, max_w) THEN best[<<mid, hi>>]
            ELSE best[<<lo, Most(mid - 2, 0)>>]
  IN  best[<<0, Len(text)>>]

\* The binary search between nothing and everything.
Search(text, size_px, max_w) ==
  LET best[between \in (0..Len(text)) \X (0..Len(text))] ==
        LET lo  == between[1]
            hi  == between[2]
            mid == (lo + hi + 1) \div 2
        IN  IF lo >= hi THEN lo
            ELSE IF WidthFits(text, mid, size_px, max_w) THEN best[<<mid, hi>>]
            ELSE best[<<lo, mid - 1>>]
  IN  best[<<0, Len(text)>>]

\* fit: all of it, or as much as leaves room for an ellipsis, or nothing.
Fit(text, size_px, max_w) ==
  IF Measure(text, size_px) <= max_w THEN text
  ELSE IF Measure(<<Ellipsis>>, size_px) > max_w THEN << >>
  ELSE Cut(text, Search(text, size_px, max_w))

----------------------------------------------------------------------------
(* The cache                                                               *)

SizePx(run) == run.size * scale

MaxW(run) == run.area.w * scale

\* Variant: the width is not part of the key.
KeyOf_NoWidth(run) == [text |-> run.text, size_px |-> SizePx(run), colour |-> run.colour]

KeyOf(run) ==
  [text |-> run.text, size_px |-> SizePx(run), colour |-> run.colour, max_w |-> MaxW(run)]

\* What can be drawn at all.
IsDrawable(run) == ~fontless /\ run.text # << >> /\ run.size > 0 /\ MaxW(run) > 0

\* An image without pixels is none.
Rasterised(run) ==
  LET text == Fit(run.text, SizePx(run), MaxW(run))
      w    == Measure(text, SizePx(run))
  IN  IF text = << >> \/ w = 0 THEN NoImage
      ELSE [text |-> text, width |-> w, height |-> Height(text, SizePx(run)), colour |-> run.colour]

Oldest(entries) ==
  CHOOSE k \in DOMAIN entries : \A l \in DOMAIN entries : entries[k].used <= entries[l].used

\* Variant: one more than the limit.
Evicted_Late(entries) ==
  IF Cardinality(DOMAIN entries) > CacheLimit
  THEN [k \in DOMAIN entries \ {Oldest(entries)} |-> entries[k]] ELSE entries

Evicted(entries) ==
  IF Cardinality(DOMAIN entries) >= CacheLimit
  THEN [k \in DOMAIN entries \ {Oldest(entries)} |-> entries[k]] ELSE entries

\* remember: the least recently used makes room first.
Remember(entries, key, image, now) ==
  LET kept == Evicted(entries)
  IN  [k \in DOMAIN kept \cup {key} |->
         IF k = key THEN [image |-> image, used |-> now] ELSE kept[k]]

\* Variant: the oldest is the one that was made first.
Touched_Never(entries, key, now) == entries

Touched(entries, key, now) == [entries EXCEPT ![key].used = now]

\* place: centred from top to bottom, aligned from side to side.
Place(run, image) ==
  LET free_x == MaxW(run) - image.width
  IN  [image |-> image,
       x |-> run.area.x * scale + (CASE run.align = "start"  -> 0
                                     [] run.align = "centre" -> Quot(free_x, 2)
                                     [] run.align = "end"    -> free_x),
       y |-> run.area.y * scale + Quot(run.area.h * scale - image.height, 2)]

\* rasterise and place, one run of a frame.
OneRun(st, run) ==
  LET key   == KeyOf(run)
      now   == st.clock + 1
      fresh == Rasterised(run)
  IN  IF ~IsDrawable(run) THEN [st EXCEPT !.out = Append(@, NoImage)]
      ELSE IF key \in DOMAIN st.cache
      THEN [st EXCEPT !.clock = now, !.cache = Touched(@, key, now),
                      !.out = Append(@, Place(run, st.cache[key].image))]
      ELSE IF fresh = NoImage THEN [st EXCEPT !.clock = now, !.out = Append(@, NoImage)]
      ELSE [st EXCEPT !.clock = now, !.cache = Remember(@, key, fresh, now),
                      !.out = Append(@, Place(run, fresh)), !.made = @ + 1]

\* How far a frame has come, after each of its runs.
Frame(runs) ==
  LET st[i \in 0..Len(runs)] ==
        IF i = 0 THEN [cache |-> cache, clock |-> clock, out |-> << >>, made |-> 0]
        ELSE OneRun(st[i - 1], runs[i])
  IN  st

Resolve(runs) ==
  LET st == Frame(runs)[Len(runs)]
  IN  /\ frames < MaxFrames /\ frames' = frames + 1
      /\ cache' = st.cache /\ clock' = st.clock /\ out' = st.out /\ made' = st.made
      /\ before' = list /\ list' = runs
      /\ UNCHANGED <<fontless, scale>>

\* clear_cache; what was drawn before says nothing of the next frame.
ClearCache ==
  /\ cache' = << >>
  /\ before' = << >> /\ list' = << >> /\ out' = << >>
  /\ UNCHANGED <<fontless, scale, clock, frames, made>>

TextInit ==
  /\ fontless \in BOOLEAN /\ scale \in Scales
  /\ cache = << >> /\ clock = 0 /\ frames = 0
  /\ before = << >> /\ list = << >> /\ out = << >> /\ made = 0

TextNext == ClearCache \/ \E runs \in Lists(frames) : Resolve(runs)

TextSpec == TextInit /\ [][TextNext]_textVars

----------------------------------------------------------------------------
(* Type and safety                                                         *)

Shown == {i \in DOMAIN list : out[i] # NoImage}

\* D-039, text.rs:472-478: through any number of frames the cache is no
\* larger than its limit; no two entries were wanted last at the same time.
TextTypeOK ==
  /\ fontless \in BOOLEAN /\ scale \in Scales
  /\ Cardinality(DOMAIN cache) <= CacheLimit
  /\ \A k, l \in DOMAIN cache : /\ cache[k].used \in 1..clock
                                /\ cache[k].used = cache[l].used => k = l
  /\ Len(out) = Len(list)

\* text.rs:146-151: a picture from the cache, made for one box, is the one
\* this box would have had, whatever was drawn and dropped in between.
CachedPictureIsRight ==
  \A i \in DOMAIN list :
    /\ i \in Shown => out[i].image = Rasterised(list[i])
    /\ i \notin Shown => ~IsDrawable(list[i]) \/ Rasterised(list[i]) = NoImage

\* text.rs:166-167 `rasterised once for as long as it keeps appearing': a
\* frame that shows what the last one showed rasterises nothing, as long as
\* one frame fits the cache.
StillPictureCostsNothing ==
  /\ list # << >> /\ before = list
  /\ Cardinality({KeyOf(list[i]) : i \in Shown}) <= CacheLimit
  => made = 0

\* The cache never shows what would not be drawn afresh, never outgrows its
\* limit, and is of use.
CacheIsRight == TextTypeOK /\ CachedPictureIsRight /\ StillPictureCostsNothing

\* All of the text, or as much as fits with the ellipsis, none longer.
IsLongest(run, text) ==
  LET fitting == {n \in 0..Len(run.text) : Measure(Cut(run.text, n), SizePx(run)) <= MaxW(run)}
  IN  IF Measure(run.text, SizePx(run)) <= MaxW(run) THEN text = run.text
      ELSE \E n \in fitting : text = Cut(run.text, n) /\ \A m \in fitting : m <= n

\* text.rs:302-303: of a name in one line the longest beginning that leaves
\* room for the ellipsis is drawn: the binary search never stops short.
NamesAreCutLate ==
  \A i \in Shown :
    Cardinality(Starts(list[i].text)) = 1 => IsLongest(list[i], out[i].image.text)

\* text.rs:51-53, from side to side: a chip's title stays on its chip.
TextStaysInItsWidth ==
  \A i \in Shown :
    LET area == list[i].area
    IN  /\ out[i].x >= area.x * scale
        /\ out[i].x + out[i].image.width <= Right(area) * scale

\* A name is as long as its box allows, and no longer.
NamesFitTheirBoxes == NamesAreCutLate /\ TextStaysInItsWidth

----------------------------------------------------------------------------
(* What the comments say and the code does not keep                        *)

\* text.rs:51-53 `it is never allowed to escape': nor above or below.
TextStaysInItsBox ==
  \A i \in Shown :
    LET area == list[i].area
    IN  /\ out[i].y >= area.y * scale
        /\ out[i].y + out[i].image.height <= Bottom(area) * scale

\* text.rs:302 `The longest beginning of text that fits', of any title a
\* client may set.
TitlesAreCutLate == \A i \in Shown : IsLongest(list[i], out[i].image.text)
=============================================================================
