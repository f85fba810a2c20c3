----------------------------- MODULE SettingsOps ------------------------------
(***************************************************************************)
(* The two files a user writes by hand, config.toml and theme.toml, and    *)
(* what becomes of them: gostui-config/src/lib.rs and theme.rs.            *)
(*                                                                         *)
(* A file is what reading and parsing it can tell apart: "missing",        *)
(* "unreadable" (any other I/O error), "garbage" (no TOML, a key that does *)
(* not exist, a value of the wrong type) or "text" with the fields that    *)
(* are written in it.  A field that is not written is not in the domain.   *)
(* A file without a version reads as one of version 0: both are accepted.  *)
(***************************************************************************)
EXTENDS Theme

SchemaVersion == 1

NoError == "none"

File(kind) == [kind |-> kind]

\* What reading and parsing a file of either sort gives, up to the fields.
ErrorIn(file) ==
  CASE file.kind = "unreadable" -> "io"
    [] file.kind = "garbage"    -> "parse"
    [] file.kind = "text" /\ file.version > SchemaVersion -> "version"
    [] OTHER -> NoError

Usable(file) == file.kind = "text" /\ ErrorIn(file) = NoError

\* What is written over what is built in.
Merged(builtin, written) ==
  [f \in DOMAIN builtin |-> IF f \in DOMAIN written THEN written[f] ELSE builtin[f]]

\* What can be read of a table is what has a name in it, with a value of its
\* type; of the rest deny_unknown_fields makes "garbage".
Reads(written, builtin, values) ==
  DOMAIN written \subseteq DOMAIN builtin /\ \A f \in DOMAIN written : written[f] \in values

\* A file that has no text to read.
IsUnread(file) == file \in {File("missing"), File("unreadable"), File("garbage")}

----------------------------------------------------------------------------
(* theme.toml                                                              *)

ThemeText(version, palette, metrics, fonts) ==
  [kind |-> "text", version |-> version, name |-> "written",
   palette |-> palette, metrics |-> metrics, fonts |-> fonts]

IsThemeFile(file) ==
  \/ IsUnread(file)
  \/ /\ DOMAIN file = {"kind", "version", "name", "palette", "metrics", "fonts"}
     /\ file.kind = "text" /\ file.version \in Nat
     /\ Reads(file.palette, BuiltinPalette, Seq(Character))
     /\ Reads(file.metrics, BuiltinMetrics, Int)
     /\ Reads(file.fonts, BuiltinFonts, Int)

\* Variant: the first bad colour takes all the others with it.
IntoPalette_AllOrNothing(written) ==
  IF \E r \in DOMAIN written : ParseHex(written[r]) = NoColour THEN BuiltinPalette
  ELSE Merged(BuiltinPalette, [r \in DOMAIN written |-> ParseHex(written[r])])

\* colour: a string that is no colour costs its role and nothing else.
IntoPalette(written) ==
  Merged(BuiltinPalette, [r \in {x \in DOMAIN written : ParseHex(written[x]) # NoColour}
                            |-> ParseHex(written[r])])

ColourProblems(written) == {r \in DOMAIN written : ParseHex(written[r]) = NoColour}

\* ThemeFile::into_theme.
IntoTheme(file) ==
  [name    |-> file.name,
   palette |-> IntoPalette(file.palette),
   metrics |-> Merged(BuiltinMetrics, file.metrics),
   fonts   |-> Merged(BuiltinFonts, file.fonts)]

\* ThemeFile::from_theme: every field is written.
FromTheme(t) ==
  [kind |-> "text", version |-> SchemaVersion, name |-> t.name,
   palette |-> [r \in PaletteRoles |-> ToHex(t.palette[r])],
   metrics |-> t.metrics, fonts |-> t.fonts]

\* theme::load: the theme, and everything worth logging.
LoadTheme(file, pointing) ==
  LET written == IF Usable(file) THEN IntoTheme(file) ELSE Builtin
  IN  [theme  |-> Sanitised(written, pointing),
       report |-> [file    |-> ErrorIn(file),
                   colours |-> IF Usable(file) THEN ColourProblems(file.palette) ELSE {},
                   core    |-> Report(written, pointing)]]

\* ThemeReport::is_clean.
IsClean(report) ==
  report = [file |-> NoError, colours |-> {},
            core |-> [adjustments |-> {}, low_contrast |-> {}]]

----------------------------------------------------------------------------
(* config.toml                                                             *)

ConfigDefault == [font_size |-> 14, inner_gap |-> 4, outer_gap |-> 0, split_permille |-> 500]

ConfigText(version, fields) == [kind |-> "text", version |-> version, fields |-> fields]

IsConfigFile(file) ==
  \/ IsUnread(file)
  \/ /\ DOMAIN file = {"kind", "version", "fields"}
     /\ file.kind = "text" /\ file.version \in Nat
     /\ Reads(file.fields, ConfigDefault, Int)

\* Variant: what could be read of a newer file is kept.
LoadConfig_Halfway(file) ==
  [config  |-> IF file.kind = "text" THEN Merged(ConfigDefault, file.fields) ELSE ConfigDefault,
   problem |-> ErrorIn(file)]

\* Config::load_or_default: all of the file or none of it.
LoadConfig(file) ==
  [config  |-> IF Usable(file) THEN Merged(ConfigDefault, file.fields) ELSE ConfigDefault,
   problem |-> ErrorIn(file)]

\* Config::to_toml, of a configuration of this version.
FromConfig(c) == ConfigText(SchemaVersion, c)
=============================================================================
