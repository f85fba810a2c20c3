------------------------------ MODULE MCFiles -------------------------------
(***************************************************************************)
(* What the shell reads and writes, for TLC: the atomic replacement of a   *)
(* file, the start of a process with its theme, its settings and its       *)
(* arguments, and the desktop entries.  They share no state, so each is    *)
(* explored while the others are as they began.                            *)
(*                                                                         *)
(* No inode and no text is special to AtomicWrite.  The theme files are    *)
(* right, half right and wrong, the commands those a user may type; the    *)
(* desktop files have a few lines, and their Exec values every quoting and *)
(* every field code.                                                       *)
(***************************************************************************)
EXTENDS AtomicWrite, Startup, Launcher

Symmetry == Permutations(Files) \cup Permutations(Contents)

NoFields == << >>
One(f, v) == [x \in {f} |-> v]
Two(f, v, g, w) == [x \in {f, g} |-> IF x = f THEN v ELSE w]

Red    == <<Hash, 15, 15, 0, 0, 0, 0>>
Bare   == <<1, 2, 3, 4, 5, 6, 7, 8>>
Short  == <<Hash, 15, 15, 0>>
NotHex == <<Hash, OtherAscii, 0, 0, 0, 0, 0>>
Foreign == <<Hash, 15, 15, 0, 0, 0, NonAscii>>
Long   == <<Hash, 15, 15, 0, 0, 0, 0, 9>>

Signed == <<Hash, Plus, 15, 0, 0, 0, 0>>
Missing == File("missing")

NewTheme(p, m, f) == ThemeText(SchemaVersion, p, m, f)

TextThemes ==
  {ThemeText(0, NoFields, NoFields, NoFields),
   ThemeText(2, One("accent", Red), Two("tile_unit", 99, "card_gap", 20), NoFields),
   NewTheme(Two("accent", Red, "card", Signed), NoFields, NoFields),
   NewTheme(Two("accent", Bare, "card", Short), Two("tile_unit", 3, "inner_gap", -1), NoFields),
   NewTheme(Two("tile", NotHex, "card_active", Red),
            Two("card_width", 900, "focus_width", 0), Two("size_tile", 2, "size_bar", 30)),
   NewTheme(Two("chip", Long, "bar", Foreign), NoFields, Two("size_card", 5, "size_bar", 6))}

Broken == {Missing, File("unreadable"), File("garbage")}

AnyTheme == TextThemes \cup Broken

AnyConfig == {Missing, ConfigText(2, One("inner_gap", 9)), ConfigText(1, One("outer_gap", 3))}

AnyOption ==
  {<<"--help">>, <<"--png">>, <<"--png", "f">>, <<"--backend">>, <<"--backend", "winit">>,
   <<"--backend", "tty">>, <<"--backend", "x">>, <<"--frames", "3">>, <<"--frames", "x">>,
   <<"--idle-test", "3">>, <<"--idle-test", "0">>, <<"--renderer", "cpu">>,
   <<"--renderer", "gpu">>, <<"--renderer", "x">>, <<"--frames">>, <<"--idle-test", "inf">>}

EntryGroup == Group("Desktop Entry")
NameKey    == Key(<<"Name">>, <<"n">>)

\* For reading: groups, keys, and lines that say nothing.
EntryLines ==
  {EntryGroup, Group("Action"), NameKey, Key(<<"Name">>, <<"m">>), Key(<<"Name[]", Language("ca")>>, <<"p">>),
   Key(<<"Name[]", Language("de")>>, <<"d">>), Key(<<"Name[]", Tag("ca", "ES", "valencia")>>, <<"v">>),
   Key(<<"TryExec">>, <<"lost">>), Key(<<"TryExec">>, <<"found">>),
   Key(<<"Hidden">>, <<"true">>), Key(<<"Hidden">>, <<"no">>), Key(<<"OnlyShowIn">>, <<"Other">>),
   Key(<<"NotShowIn">>, <<"GostUI", "Other">>), Comment, Malformed}

\* For launching: every pair and triple of what an Exec value is made of.
EntryHeader == <<EntryGroup, NameKey, Key(<<"Icon">>, <<"i">>), Key(<<"TryExec">>, <<"lost">>)>>

Pieces == {<<"a">>, <<Space>>, <<Quote>>, <<Percent>>, <<"f">>, <<"F">>, <<Percent, "u">>,
           <<Percent, "i">>, <<Percent, "c">>, <<Percent, "d">>, <<Percent, "k">>, <<Backslash>>}
Execs  == {p \o q \o r \o s : p \in Pieces, q \in Pieces, r \in Pieces, s \in {<<Space, "a">>, <<Quote>>}}
ExecLines  == {Key(<<"Exec">>, e) : e \in Execs}

Names == {<<Percent, "F">>, <<"a", Space, Quote, "b">>, <<Backslash, Dollar>>, << >>}
With(files, uris) == Context(files, uris, None, None, << <<"k">> >>)
NothingOpened  == {With(<< >>, << >>)}
FilesOpened == NothingOpened \cup {With(<<f, <<"b">> >>, << >>) : f \in Names}
                 \cup {With(<< >>, << <<Percent, "x">> >>)}
                 \cup {[With(<< >>, << >>) EXCEPT !.icon = << <<"x">> >>, !.name = << << >> >>]}

AnyCharacter == {Space, Quote, Backslash, Dollar, Percent} \cup {"a", "b", "c", "d", "f", "F", "i", "k",
                 "m", "n", "u", "x"}

Programs == {<<"found">>}
AnyLocale == {Tag("ca", "ES", ""), Tag("ca", "ES", "valencia"), Tag("ca", "", "valencia"), Language("ca")}

AnyHeader == {<< >>, EntryHeader}
AnyLine == EntryLines \cup ExecLines \cup {EntryHeader[i] : i \in DOMAIN EntryHeader}

\* A command after the header of four lines, or up to four lines of any other kind.
EntryOrCommand(before) ==
  IF before = EntryHeader THEN ExecLines ELSE IF Len(before) <= 3 THEN EntryLines ELSE {}

----------------------------------------------------------------------------
FilesIdle    == Init /\ names[Path] = NoFile
StartupIdle  == StartupInit /\ theme_file = Missing /\ config_file = Missing
LauncherIdle == LauncherInit /\ content = << >>

\* Any theme with the plain command, any command without files, and any
\* settings without a command (or the plain one).
FilesOrArguments ==
  LET plain == typed \in {<< >>, << <<"--backend", "winit">> >>}
  IN  \/ theme_file = Missing /\ config_file = Missing
      \/ plain /\ config_file \in {Missing, FromConfig(ConfigDefault)}
      \/ plain /\ theme_file = Missing

\* Only an entry with a command is given files.
FilesForCommands == opened # None /\ entry.exec = None => opened[1] \in NothingOpened

AllInit == /\ Init /\ StartupInit /\ LauncherInit
           /\ \/ StartupIdle /\ LauncherIdle
              \/ FilesIdle /\ LauncherIdle
              \/ FilesIdle /\ StartupIdle

AllNext ==
  \/ StartupIdle /\ LauncherIdle /\ Next /\ UNCHANGED <<startupVars, launcherVars>>
  \/ FilesIdle /\ LauncherIdle /\ StartupNext /\ FilesOrArguments' /\ UNCHANGED <<vars, launcherVars>>
  \/ FilesIdle /\ StartupIdle /\ LauncherNext /\ FilesForCommands' /\ UNCHANGED <<vars, startupVars>>

AllSpec == AllInit /\ [][AllNext]_<<vars, startupVars, launcherVars>>
=============================================================================
