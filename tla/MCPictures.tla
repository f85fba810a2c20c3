----------------------------- MODULE MCPictures ------------------------------
(***************************************************************************)
(* The two renderers and the text cache for TLC.  They share no state, so  *)
(* each is explored while the other is as it began.                        *)
(*                                                                         *)
(* The renderers draw windows of a few pixels, one without an area, and    *)
(* buffers that are larger, smaller or other than they claim.  Buffers of  *)
(* every shape are committed to one window, once; a few are committed one  *)
(* after the other while the window is resized.  The texts are a few       *)
(* titles in frame after frame, and every word up to four letters in a     *)
(* frame of its own.                                                       *)
(***************************************************************************)
EXTENDS Renderers, TextCache, TLC

FewSizes == {Size(4, 3), Size(3, 4), Size(0, 2)}
Colours(b, p, t) == [background |-> b, panel |-> p, text |-> t]
Solid  == Colours(Pixel(30, 255), Pixel(200, 255), 128)
Glass  == Colours(Pixel(30, 255), Pixel(100, 129), 128)
Hazy   == Colours(Pixel(30, 129), Pixel(200, 255), 128)
AnyTheme == {Solid, Glass, Hazy}
AnyGlyphs == Point(0, 0) :> 255 @@ Point(1, 0) :> 77 @@ Point(2, 0) :> 0
AnyGarbage == {Blank, Pixel(99, 255)}
Shm(w, h, stride, offset, len, format, geometry, body) ==
  [kind |-> "shm", w |-> w, h |-> h, stride |-> stride, offset |-> offset, len |-> len,
   format |-> format, geometry |-> geometry, body |-> body, shadow |-> Pixel(9, 60)]

Sound(w, h, format, geometry, body) ==
  Shm(w, h, w * 4 + 4, 8, h * (w * 4 + 4) + 8, format, geometry, body)

Bodies == {Pixel(90, 255), Pixel(100, 129), Pixel(1, 3), Pixel(0, 0), Pixel(255, 77)}

Nothing == [Sound(1, 1, "argb", Point(0, 0), Pixel(0, 0)) EXCEPT !.kind = "none"]

AnyBuffers ==
  {Nothing}
  \cup {Sound(w, h, f, g, b) : w \in {1, 4}, h \in {1, 3}, f \in {"argb", "xrgb"},
                               g \in {Point(0, 0), Point(1, 0), Point(2, 5), Point(-1, 1)},
                               b \in Bodies}
  \cup {[Sound(2, 2, "argb", Point(0, 0), b) EXCEPT !.kind = "dmabuf"] : b \in Bodies}
  \cup {Shm(w, h, s, o, l, "argb", Point(0, 0), Pixel(90, 255)) :
          w \in {-1, 0, 2}, h \in {0, 2}, s \in {-8, 7, 8, 12}, o \in {-4, 0, 4}, l \in {15, 16, 20, 24}}

FewBuffers == {Nothing} \cup
  {Sound(w, h, "argb", Point(1, 0), Pixel(100, 129)) : w \in {2, 4}, h \in {1, 3}}

Committed == AnyBuffers \cup FewBuffers

Run(text, w, h, px, align) ==
  [text |-> text, area |-> Rect(10, 10, w, h), size |-> px, colour |-> "ink", align |-> align]

Name == <<"m", "i", "m">>

\* One caption in three boxes, one that never fits, and the time.
FrameRuns ==
  {Run(Name, 30, 20, 9, "start"), Run(Name, 18, 20, 9, "centre"), Run(Name, 15, 20, 9, "end"),
   Run(Name, 3, 20, 9, "start"), Run(<<"i", "i">>, 30, 20, 9, "end")}

Advances == "m" :> 3 @@ "i" :> 1 @@ "accent" :> 0 @@ Ellipsis :> 2

Letters == {"m", "i", "accent", Newline}

Words == UNION {[1..n -> Letters] : n \in 0..4}

WordRuns == {Run(text, w, 2, 3, "centre") : text \in Words, w \in {0, 1, 2, 4, 5, 8}}

WordLists  == {<<r>> : r \in WordRuns}
FrameLists == UNION {[1..n -> FrameRuns] : n \in 1..2}

\* A word in the first frame, or frames of titles.
FewLists(n) == IF n = 0 THEN WordLists \cup FrameLists ELSE FrameLists

----------------------------------------------------------------------------
\* A translucent panel or desktop matters to the shell's own colours alone.
GlassAlone == theme \in {Glass, Hazy} => buffer = Nothing /\ size = Size(4, 3)

\* A buffer of any shape is the first and the last of a window that is not
\* resized and was not drawn yet.
AnyShapeOnce ==
  /\ buffer' \in FewBuffers \/ buffer' = buffer
       \/ (commits = 0 /\ canvas = << >> /\ shown = << >> /\ size = Size(4, 3))
  /\ buffer \notin FewBuffers => UNCHANGED <<buffer, commits, size>>

\* No frame follows a word.
AfterAWord == list \in FrameLists \cup {<< >>} \/ list' = << >>

Frames == TextInit /\ scale = 1 /\ fontless
Texts  == RenderInit /\ size = Size(4, 3) /\ theme = Solid

PicturesInit == RenderInit /\ TextInit /\ GlassAlone /\ (Frames \/ Texts)

PicturesNext ==
  \/ Frames /\ RenderNext /\ AnyShapeOnce /\ GlassAlone' /\ UNCHANGED textVars
  \/ Texts /\ TextNext /\ AfterAWord /\ UNCHANGED renderVars

PicturesSpec == PicturesInit /\ [][PicturesNext]_<<renderVars, textVars>>
=============================================================================
