------------------------------- MODULE Startup --------------------------------
(***************************************************************************)
(* The command line and the two files of a user, before, at and after the  *)
(* start of the shell: gostui-compositor/src/main.rs and backend/mod.rs,   *)
(* the state winit::run begins with, and load and save of gostui-config.   *)
(*                                                                         *)
(* The user edits the files, types a command and runs it.  A command opens *)
(* a window, writes pictures, prints the diagnostic, or is refused with a  *)
(* code.  Argument strings are the members of small sets: what parse takes *)
(* them for is all that is told apart.                                     *)
(***************************************************************************)
EXTENDS SettingsOps, SequencesExt

CONSTANTS ThemeFiles,   \* what theme.toml may be
          ConfigFiles,  \* what config.toml may be
          Options,      \* the groups of arguments a user may type
          MaxOptions    \* bound of the model: groups in one command

ASSUME OptionsAssumption == MaxOptions \in Nat

\* What a file may be is what reading it can tell apart.
ASSUME ReadableAssumption == /\ \A file \in ThemeFiles : IsThemeFile(file)
                             /\ \A file \in ConfigFiles : IsConfigFile(file)

VARIABLES
  theme_file, config_file,
  typed,    \* the groups typed so far, the command to be
  process,  \* what the command has come to
  history   \* the files and the arguments it began with

startupVars == <<theme_file, config_file, typed, process, history>>

----------------------------------------------------------------------------
(* main::run                                                               *)

Args(groups) == FlattenSeq(groups)

Given(args, flag) == flag \in {args[i] : i \in DOMAIN args}

\* The argument after the first occurrence of a flag, if there is one.
After(args, flag) ==
  LET i == CHOOSE i \in DOMAIN args : args[i] = flag /\ \A j \in 1..(i - 1) : args[j] # flag
  IN  IF i < Len(args) THEN {args[i + 1]} ELSE {}

WinitNames == {"winit", "nested"}
UdevNames  == {"udev", "drm", "tty"}
GlesNames  == {"gles", "gles2", "gpu"}
CpuNames   == {"pixman", "cpu", "software"}

\* What is taken for a number of frames (u64) and of seconds (f64).
Counts  == {"0", "3"}
Seconds == {"0", "3", "inf"}

Exit(code) == [state |-> "exited", code |-> code]

\* The names of Backend::parse and RendererKind::parse, the two numbers, and
\* that only one of the two may end the run.
BadBackend(args)  == After(args, "--backend") \cap (WinitNames \cup UdevNames) = {}
BadFrames(args)   == Given(args, "--frames") /\ After(args, "--frames") \cap Counts = {}
BadRenderer(args) == Given(args, "--renderer")
                       /\ After(args, "--renderer") \cap (GlesNames \cup CpuNames) = {}
BadIdle(args)     == Given(args, "--idle-test")
                       /\ After(args, "--idle-test") \cap (Seconds \ {"0"}) = {}

\* Variant: a run that two things would end is started.
BadPair_Allowed(args) == FALSE

BadPair(args) == Given(args, "--frames") /\ Given(args, "--idle-test")

UsageError(args) == \/ BadBackend(args) \/ BadFrames(args) \/ BadRenderer(args)
                    \/ BadIdle(args) \/ BadPair(args)

\* Duration::from_secs_f64 of a number of seconds no duration can hold.
Overflows(args) == Given(args, "--idle-test") /\ "inf" \in After(args, "--idle-test")
                   /\ ~BadBackend(args) /\ ~BadFrames(args) /\ ~BadRenderer(args)

----------------------------------------------------------------------------
(* The diagnostic                                                          *)

\* The two outputs it simulates, at scale 1, less 40 units for each bar.
Simulated == {Size(1920, 1080), Size(720, 1600)}

DiagnosticArea(size) == Rect(0, 40, size.w, Most(size.h - 80, 0))

\* The tiles it prints for an output.
DiagnosticTiles(config, size) ==
  LET gaps == Gaps(config.outer_gap, config.inner_gap)
      area == DiagnosticArea(size)
  IN  Tile(area, TileLimit(area, gaps), FromPermille(config.split_permille), gaps)

\* The tiles of a window of that size that is full of windows.
ShellTiles(theme, size) ==
  LET area == Zones(Rect(0, 0, size.w, size.h), BarHeights(theme.metrics)).apps
      gaps == GapsOf(theme.metrics)
  IN  Tile(area, TileLimit(area, gaps), EvenSplit, gaps)

Diagnostic(config) ==
  [state |-> "exited", code |-> 0, problem |-> config.problem,
   tiles |-> [size \in Simulated |-> DiagnosticTiles(config.config, size)]]

----------------------------------------------------------------------------
(* The user and the process                                                *)

NotStarted == [state |-> "none"]

\* The user edits a file, running shell or not.
Edit == /\ \/ theme_file' \in ThemeFiles /\ UNCHANGED config_file
           \/ config_file' \in ConfigFiles /\ UNCHANGED theme_file
        /\ UNCHANGED <<typed, process, history>>

Type == /\ process = NotStarted /\ Len(typed) < MaxOptions
        /\ \E o \in Options : typed' = Append(typed, o)
        /\ UNCHANGED <<theme_file, config_file, process, history>>

\* A run begins with what the files are now.
Began(p) == /\ process = NotStarted /\ process' = p
            /\ history' = [theme_file |-> theme_file, config_file |-> config_file]
            /\ UNCHANGED <<theme_file, config_file, typed>>

\* After the end of one command the next is typed.
Prompt == /\ process.state = "exited"
          /\ process' = NotStarted /\ typed' = << >>
          /\ history' = [theme_file |-> theme_file, config_file |-> config_file]
          /\ UNCHANGED <<theme_file, config_file>>

\* The state the nested window opens with (load_theme always takes the user
\* for one with a pointer).
Opened(args) ==
  LET loaded == LoadTheme(theme_file, "pointer")
  IN  [state |-> "window", theme |-> loaded.theme, report |-> loaded.report,
       renderer |-> IF Given(args, "--renderer") /\ After(args, "--renderer") \cap CpuNames # {}
                    THEN "cpu" ELSE "gles",
       exit_after |-> IF Given(args, "--frames") THEN After(args, "--frames") ELSE {},
       idle_test  |-> IF Given(args, "--idle-test") THEN After(args, "--idle-test") ELSE {}]

\* Help before anything else, then pictures, then a backend, then the
\* diagnostic.
Help == /\ Given(Args(typed), "--help") /\ Began(Exit(0))

Pictures ==
  LET args == Args(typed)
  IN  /\ ~Given(args, "--help") /\ Given(args, "--png")
      /\ Began(Exit(IF After(args, "--png") = {} THEN 2 ELSE 0))

Refuse ==
  LET args == Args(typed)
  IN  /\ ~Given(args, "--help") /\ ~Given(args, "--png") /\ Given(args, "--backend")
      /\ Began(IF Overflows(args) THEN [state |-> "exited", code |-> 101] ELSE Exit(2))
      /\ UsageError(args) \/ Overflows(args)

\* A window may also fail to open; there is no udev yet.
OpenWindow ==
  LET args == Args(typed)
  IN  /\ ~Given(args, "--help") /\ ~Given(args, "--png") /\ Given(args, "--backend")
      /\ ~UsageError(args) /\ ~Overflows(args)
      /\ \/ Began(Exit(1))
         \/ After(args, "--backend") \cap WinitNames # {} /\ Began(Opened(args))

Diagnose ==
  LET args == Args(typed)
  IN  /\ ~Given(args, "--help") /\ ~Given(args, "--png") /\ ~Given(args, "--backend")
      /\ Began(Diagnostic(LoadConfig(config_file)))

\* The loop ends; EventLoop says with which code.
CloseShell == /\ process.state = "window" /\ \E code \in {0, 1} : process' = Exit(code)
              /\ UNCHANGED <<theme_file, config_file, typed, history>>

\* theme::save and Config::save, as AtomicWrite shows them: the whole file or
\* none of it.  (Nothing calls them yet.)
Save == /\ process.state = "window"
        /\ \/ theme_file' = FromTheme(process.theme) /\ UNCHANGED config_file
           \/ config_file' = FromConfig(LoadConfig(config_file).config) /\ UNCHANGED theme_file
        /\ UNCHANGED <<typed, process, history>>

StartupInit == /\ theme_file \in ThemeFiles /\ config_file \in ConfigFiles
               /\ typed = << >> /\ process = NotStarted
               /\ history = [theme_file |-> theme_file, config_file |-> config_file]

StartupNext == Edit \/ Type \/ Prompt \/ Help \/ Pictures \/ Refuse \/ OpenWindow \/ Diagnose \/ CloseShell \/ Save

StartupSpec == StartupInit /\ [][StartupNext]_startupVars

----------------------------------------------------------------------------
(* Type and safety                                                         *)

\* A process has come to a window or to one of the codes of run, and the
\* colours of a running theme are bytes.
StartupTypeOK ==
  /\ process.state = "window" => process.theme.palette \in [PaletteRoles -> [1..4 -> 0..255]]
  /\ process.state \in {"none", "window", "exited"}
  /\ process.state = "exited" => process.code \in {0, 1, 2, 101}
  /\ typed \in Seq(Options) /\ Len(typed) <= MaxOptions

\* What a field of the running theme was, before it was raised: what a usable
\* file says of it, or what is built in.
Wanted(file, part, builtin) ==
  IF Usable(file) /\ part \in DOMAIN file THEN Merged(builtin, file[part]) ELSE builtin

\* gostui-config/src/theme.rs:12-16: a theme never silently fails to apply.
\* A running shell has what the file says, field by field, but for the sizes,
\* colours and files its report names, and the report names no other.
NothingFailsSilently ==
  process.state = "window" =>
    LET file == history.theme_file
        t    == process.theme
        r    == process.report
        sizes == Wanted(file, "metrics", BuiltinMetrics)
        fonts == Wanted(file, "fonts", BuiltinFonts)
        written == IF Usable(file) THEN DOMAIN file.palette ELSE {}
    IN  /\ (r.file # NoError) = (file.kind \notin {"missing", "text"}
                                 \/ (file.kind = "text" /\ file.version > SchemaVersion))
        /\ \A f \in DOMAIN sizes : (t.metrics[f] # sizes[f]) = (f \in r.core.adjustments)
        /\ \A f \in DOMAIN fonts : (t.fonts[f] # fonts[f]) = (f \in r.core.adjustments)
        /\ \A c \in PaletteRoles :
             IF c \in written \ r.colours
             THEN t.palette[c] = ParseHex(file.palette[c])
             ELSE t.palette[c] = BuiltinPalette[c]
        /\ r.colours \subseteq written
        /\ file.kind = "missing" => t = Builtin /\ r.file = NoError

\* theme.rs (core) `sanitised': whatever the file asked for, everything to be
\* hit is large enough, no gap is negative, the ring is visible, text is text.
RunningThemeIsUsable ==
  process.state = "window" =>
    /\ \A f \in DOMAIN process.theme.metrics : process.theme.metrics[f] >= 0
    /\ \A f \in Touchable : process.theme.metrics[f] >= 16
    /\ process.theme.metrics.focus_width > 0
    /\ \A f \in DOMAIN process.theme.fonts : process.theme.fonts[f] >= 6

\* gostui-config/src/theme.rs:252-256 and 340: the file a running theme is
\* saved to reads back as that theme, and there is nothing to report of it.
SavedThemeReadsBack ==
  process.state = "window" =>
    LET again == LoadTheme(FromTheme(process.theme), "pointer")
    IN  /\ again.theme = process.theme
        /\ again.report.file = NoError /\ again.report.colours = {}
        /\ again.report.core.adjustments = {}
        /\ (again.report.core.low_contrast = {}) = IsClean(again.report)

\* The running theme, its file and the report of what is between them agree.
ThemeIsTrueToItsFile ==
  StartupTypeOK /\ NothingFailsSilently /\ RunningThemeIsUsable /\ SavedThemeReadsBack

\* gostui-config/src/lib.rs:9-12: settings are all of a file or the defaults,
\* and a file that is there and is not used is a problem that is told.
SettingsAreWholeOrDefault ==
  LET loaded == LoadConfig(config_file)
  IN  /\ loaded.problem # NoError => loaded.config = ConfigDefault
      /\ loaded.config # ConfigDefault =>
           /\ config_file.kind = "text" /\ config_file.version <= SchemaVersion
           /\ \A f \in DOMAIN config_file.fields : loaded.config[f] = config_file.fields[f]
      /\ (loaded.problem = NoError /\ config_file.kind = "text") =>
            LoadConfig(FromConfig(loaded.config)).config = loaded.config

\* main.rs:30-104: a command that asked for help, for two ends at once or for
\* something that does not exist opens no window, and a window has the end
\* and the renderer it was asked for.
WindowIsWhatWasAsked ==
  process.state = "window" =>
    /\ ~Given(Args(typed), "--help") /\ ~Given(Args(typed), "--png")
    /\ process.exit_after = {} \/ process.idle_test = {}
    /\ Given(Args(typed), "--frames") = (process.exit_after # {})
    /\ Given(Args(typed), "--idle-test") = (process.idle_test # {})
    /\ process.exit_after \subseteq Counts /\ process.idle_test \subseteq Seconds \ {"0"}
    /\ Given(Args(typed), "--renderer") =>
         After(Args(typed), "--renderer") \subseteq
           (IF process.renderer = "cpu" THEN CpuNames ELSE GlesNames)

\* A process starts as its command line and its settings say, or not at all.
StartIsWhatWasAsked == WindowIsWhatWasAsked /\ SettingsAreWholeOrDefault

----------------------------------------------------------------------------
(* What the comments say and the code does not keep                        *)

\* main.rs:132 `Both bars are 40 logical units tall': the tiles the diagnostic
\* prints are those of the shell it describes, when nothing is configured.
DiagnosticIsTheShell ==
  process.state = "exited" /\ "tiles" \in DOMAIN process /\ history.config_file.kind = "missing"
    => \A size \in Simulated : process.tiles[size] = ShellTiles(Builtin, size)

\* main.rs:84 `a number of seconds greater than zero' is what --idle-test
\* needs, and backend/mod.rs:58 `a normal error path, not a panic'.
NeverPanics == process.state = "exited" => process.code # 101

\* theme.rs:36 (core) `silently accepting a typo would leave the user staring
\* at a theme that did not apply': a colour in the theme was two hex digits
\* for each channel, or it is in the report.
TyposAreReported ==
  process.state = "window" /\ Usable(history.theme_file) =>
    \A c \in DOMAIN history.theme_file.palette :
      LET s == history.theme_file.palette[c]
      IN  (\E i \in DOMAIN s : s[i] \notin Digit \cup {Hash}) => c \in process.report.colours
=============================================================================
