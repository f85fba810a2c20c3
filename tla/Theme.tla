-------------------------------- MODULE Theme --------------------------------
(***************************************************************************)
(* Appearance as data and its two safeguards: gostui-core/src/theme.rs.    *)
(* A theme is a record; sanitising it raises what is too small and says    *)
(* what it raised; colours that a 16-bit framebuffer cannot tell apart are *)
(* reported.  Colours are read from and written to hex strings here too.   *)
(*                                                                         *)
(* A hex string is a sequence of the characters parse_hex tells apart: the *)
(* numbers 0 to 15 are the digits, the others have names.                  *)
(***************************************************************************)
EXTENDS ShellOps, FiniteSets

----------------------------------------------------------------------------
(* Colours                                                                 *)

Rgba(r, g, b, a) == <<r, g, b, a>>

Digit == 0..15
Hash  == 16
Plus  == 17
OtherAscii == 18
NonAscii   == 19
Character  == 0..NonAscii

NoColour == << >>

\* Variant: what a character stands for is worked out and never checked.
Byte_Unchecked(hi, lo) == {16 * hi + lo}

\* u8::from_str_radix(_, 16) on two characters: a leading plus is allowed.
Byte(hi, lo) == IF hi \in Digit /\ lo \in Digit THEN {16 * hi + lo}
                ELSE IF hi = Plus /\ lo \in Digit THEN {lo}
                ELSE {}

\* The hash in front is left out, if it is there.
Unhashed(s) == IF s # << >> /\ s[1] = Hash THEN Tail(s) ELSE s

\* The bytes of a string, two characters each.
BytesOf(t) == [i \in 1..(Len(t) \div 2) |-> Byte(t[2 * i - 1], t[2 * i])]

\* rrggbb or rrggbbaa; NoColour when it is neither.
FromDigits(t) ==
  LET bytes == BytesOf(t)
  IN  IF Len(t) \notin {6, 8} \/ NonAscii \in {t[i] : i \in 1..Len(t)} THEN NoColour
      ELSE IF \E i \in DOMAIN bytes : bytes[i] = {} THEN NoColour
      ELSE [i \in 1..4 |-> IF i <= Len(bytes) THEN CHOOSE v \in bytes[i] : TRUE ELSE 255]

\* A colour as a user writes it, with a hash or without.
ParseHex(s) == FromDigits(Unhashed(s))

\* Variant: the alpha is never written.
ToHex_Opaque(c) ==
  <<Hash>> \o [i \in 1..6 |-> IF i % 2 = 1 THEN c[(i + 1) \div 2] \div 16 ELSE c[i \div 2] % 16]

\* An opaque colour is written without its alpha.
ToHex(c) ==
  <<Hash>> \o [i \in 1..(IF c[4] = 255 THEN 6 ELSE 8) |->
                IF i % 2 = 1 THEN c[(i + 1) \div 2] \div 16 ELSE c[i \div 2] % 16]

\* To the nearest step of 5, 6 and 5 bits.
Quantise565(c) == <<(c[1] * 31 + 127) \div 255, (c[2] * 63 + 127) \div 255,
                    (c[3] * 31 + 127) \div 255>>

AbsDiff(a, b) == IF a > b THEN a - b ELSE b - a

Distance565(a, b) ==
  LET p == Quantise565(a)
      q == Quantise565(b)
  IN  AbsDiff(p[1], q[1]) + AbsDiff(p[2], q[2]) + AbsDiff(p[3], q[3])

BuiltinPalette ==
  [desktop     |-> Rgba(11, 18, 32, 255),    bar         |-> Rgba(20, 32, 51, 255),
   bar_edge    |-> Rgba(30, 58, 143, 255),   chip        |-> Rgba(36, 55, 79, 255),
   card        |-> Rgba(27, 42, 68, 255),    card_active |-> Rgba(34, 53, 85, 255),
   accent      |-> Rgba(34, 200, 232, 255),  accent_alt  |-> Rgba(181, 211, 52, 255),
   tile        |-> Rgba(45, 68, 96, 255),    text        |-> Rgba(230, 237, 245, 255),
   text_dim    |-> Rgba(141, 162, 186, 255), focus_ring  |-> Rgba(34, 200, 232, 255)]

PaletteRoles == DOMAIN BuiltinPalette

\* The roles that share an edge on the screen.
Neighbours ==
  {<<"desktop", "bar">>, <<"desktop", "card">>, <<"bar", "chip">>,
   <<"card", "card_active">>, <<"card", "tile">>, <<"card_active", "tile">>,
   <<"bar", "bar_edge">>}

TextNeighbours ==
  {<<"text", "bar">>, <<"text", "card">>, <<"text_dim", "card">>, <<"text_dim", "tile">>}

LowContrast(palette, pairs) == {n \in pairs : Distance565(palette[n[1]], palette[n[2]]) < 2}

LowContrastPairs(palette) == LowContrast(palette, Neighbours)

LowContrastTextPairs(palette) == LowContrast(palette, TextNeighbours)

----------------------------------------------------------------------------
(* Sizes                                                                   *)

BuiltinMetrics ==
  [top_bar |-> MinTouchTarget, bottom_bar |-> MinTouchTarget, card_header |-> MinTouchTarget,
   card_width |-> 260, card_gap |-> 12, card_pad |-> 12, tile_unit |-> 96,
   tile_gap |-> 12, inner_gap |-> 4, outer_gap |-> 0, focus_width |-> 2]

BarHeights(m) == [top |-> m.top_bar, bottom |-> m.bottom_bar]

GapsOf(m) == Gaps(m.outer_gap, m.inner_gap)

\* The smallest a target may be under a finger, and under a pointer.
Floor(pointing) == IF pointing = "touch" THEN MinTouchTarget ELSE 16

Touchable == {"top_bar", "bottom_bar", "card_header", "card_width", "tile_unit"}

\* Variant: the tiles are left as small as the theme says.
MetricFloor_TinyTiles(field, pointing) ==
  IF field \in Touchable \ {"tile_unit"} THEN Floor(pointing)
  ELSE IF field = "focus_width" THEN 1 ELSE 0

\* What each field is raised to: targets to the floor, gaps to zero, the
\* focus ring to something visible.
MetricFloor(field, pointing) ==
  IF field \in Touchable THEN Floor(pointing)
  ELSE IF field = "focus_width" THEN 1 ELSE 0

\* Metrics::sanitised, the metrics ...
SanitisedMetrics(m, pointing) == [f \in DOMAIN m |-> Most(m[f], MetricFloor(f, pointing))]

BuiltinFonts == [size_bar |-> 14, size_tile |-> 12, size_card |-> 14, size_tile_value |-> 20]

MinFontSize == 6

SanitisedFonts(f) == [k \in DOMAIN f |-> Most(f[k], MinFontSize)]

\* The height of a line of text, rounded up.
LineHeight(size) == IF size <= 0 THEN 0 ELSE (size * 3 + 1) \div 2

\* ... and the adjustments, for metrics as for fonts: what was raised.
Adjusted(before, after) == {f \in DOMAIN before : before[f] # after[f]}

Builtin == [name |-> "GOST", palette |-> BuiltinPalette,
            metrics |-> BuiltinMetrics, fonts |-> BuiltinFonts]

\* Variant: the sizes are corrected and the fonts forgotten.
Sanitised_FontsAsWritten(t, pointing) ==
  [t EXCEPT !.metrics = SanitisedMetrics(@, pointing)]

\* Theme::sanitised: colours are reported, never corrected.
Sanitised(t, pointing) ==
  [name |-> t.name, palette |-> t.palette,
   metrics |-> SanitisedMetrics(t.metrics, pointing), fonts |-> SanitisedFonts(t.fonts)]

\* Its report.
Report(t, pointing) ==
  [adjustments |-> Adjusted(t.metrics, SanitisedMetrics(t.metrics, pointing))
                     \cup Adjusted(t.fonts, SanitisedFonts(t.fonts)),
   low_contrast |-> LowContrastPairs(t.palette)]
=============================================================================
