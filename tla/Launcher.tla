------------------------------ MODULE Launcher -------------------------------
(***************************************************************************)
(* Desktop entries, from the file to the arguments of a process:           *)
(* gostui-desktop-entry/src/lib.rs over ExecLine.  Files come from every   *)
(* package on the system; the entry is read, shown in a menu or not, and   *)
(* launched with what the user dropped on it.  The compositor does not     *)
(* call this crate yet; its caller is the menu the crate was written for.  *)
(*                                                                         *)
(* A line is what trim, strip_prefix and split_once make of it.  unescape  *)
(* is part of a line's value here, which is a sequence of characters for   *)
(* Exec and one word for any other key; lists are sequences of words.      *)
(***************************************************************************)
EXTENDS ExecLine, Vec

CONSTANTS FileLines,\* the lines there may be in a file
          Headers,  \* the lines a file may begin with
          Lines(_), \* bound of the model: those that may follow the ones before
          MaxLines, \* bound of the model
          Contexts, \* what the user may open
          Desktops, \* what the menu may be shown by
          Locales,  \* the tags of users' locales
          OnPath    \* the programs there are

Text == Seq(Characters)

ASSUME BoundAssumption == MaxLines \in Nat

\* A key is a name, or a name in a language; what a command is made of is text.
ASSUME LinesAssumption ==
  \A line \in FileLines :
    \/ line.kind \in {"group", "comment", "malformed"}
    \/ /\ line.kind = "key"
       /\ \/ line.key = <<line.key[1]>> /\ line.key[1] # "Name[]"
          \/ line.key = <<"Name[]", line.key[2]>>
       /\ line.key \in {<<"Name">>, <<"Icon">>, <<"Exec">>} => line.value \in Text
       /\ line.key \in {<<"OnlyShowIn">>, <<"NotShowIn">>} => line.value \in Seq(STRING)

ASSUME HeadersAssumption == \A lines \in Headers : lines \in Seq(FileLines) /\ Len(lines) <= MaxLines

ASSUME ContextsAssumption ==
  Contexts \subseteq [files : Seq(Text), uris : Seq(Text), icon : Seq(Text), name : Seq(Text),
                      desktop_file : Seq(Text)]

ASSUME LocalesAssumption ==
  \A tag \in Locales : tag = [lang |-> tag.lang, country |-> tag.country, modifier |-> tag.modifier]

VARIABLES
  content, \* the file, line by line
  entry,  \* what parse made of it
  opened, \* what it was launched with, or nothing
  argv    \* and as what

launcherVars == <<content, entry, opened, argv>>

None == << >>

----------------------------------------------------------------------------
(* The file                                                                *)

Group(name)     == [kind |-> "group", name |-> name]
Key(key, value) == [kind |-> "key", key |-> key, value |-> value]
Comment         == [kind |-> "comment"]
Malformed       == [kind |-> "malformed"]

MissingDesktopEntryGroup == [parse_error |-> "missing group"]
MissingName == [parse_error |-> "missing name"]

BeforeFile == [in_group |-> FALSE, seen_group |-> FALSE, keys |-> << >>]

\* Variant: every group of that name counts.
Enters_Any(st, name) == name = "Desktop Entry"

Enters(st, name) == name = "Desktop Entry" /\ ~st.seen_group

\* Variant: a line that says nothing ends the group.
Skipped_Leaves(st) == [st EXCEPT !.in_group = FALSE]

Skipped(st) == st

\* Variant: the earlier value stays.
WithKey_First(keys, line) ==
  [k \in DOMAIN keys \cup {line.key} |-> IF k \in DOMAIN keys THEN keys[k] ELSE line.value]

\* Of a key that is there twice the later value stays.
WithKey(keys, line) ==
  [k \in DOMAIN keys \cup {line.key} |-> IF k = line.key THEN line.value ELSE keys[k]]

ReadLine(st, line) ==
  CASE line.kind = "group" ->
         [st EXCEPT !.in_group = Enters(st, line.name), !.seen_group = @ \/ Enters(st, line.name)]
    [] line.kind = "key" ->
         IF st.in_group THEN [st EXCEPT !.keys = WithKey(@, line)] ELSE st
    [] line.kind \in {"comment", "malformed"} -> Skipped(st)

Lookup(keys, key, default) == IF key \in DOMAIN keys THEN keys[key] ELSE default

\* boolean: true, and nothing else.
Boolean(keys, key) == Lookup(keys, key, << >>) = <<"true">>

\* A locale tag: lang_COUNTRY@modifier.
Tag(lang, country, modifier) == [lang |-> lang, country |-> country, modifier |-> modifier]
Language(lang) == Tag(lang, "", "")

LocaleOf(key) == key[2]

\* All the lines of a file.
ReadLines(lines) ==
  LET after[i \in 0..Len(lines)] == IF i = 0 THEN BeforeFile ELSE ReadLine(after[i - 1], lines[i])
  IN  after[Len(lines)]

Named(keys) == {k \in DOMAIN keys : k[1] = "Name[]"}

Plain(keys) == [k \in {l[1] : l \in DOMAIN keys \ Named(keys)} |-> keys[<<k>>]]

Optional(keys, key) == IF key \in DOMAIN keys THEN <<keys[key]>> ELSE None

\* The entry that these keys are: a name in a language is kept beside the name.
EntryOf(keys) ==
  LET plain == Plain(keys)
  IN  IF "Name" \notin DOMAIN plain THEN MissingName
      ELSE [name |-> plain["Name"],
            localized_names |-> [l \in {LocaleOf(k) : k \in Named(keys)} |-> keys[<<"Name[]", l>>]],
            exec |-> Optional(plain, "Exec"),
            icon |-> Optional(plain, "Icon"),
            try_exec |-> Optional(plain, "TryExec"),
            no_display |-> Boolean(plain, "NoDisplay"),
            hidden |-> Boolean(plain, "Hidden"),
            only_show_in |-> Lookup(plain, "OnlyShowIn", << >>),
            not_show_in |-> Lookup(plain, "NotShowIn", << >>)]

Parse(lines) ==
  LET st == ReadLines(lines)
  IN  IF st.seen_group THEN EntryOf(st.keys) ELSE MissingDesktopEntryGroup

----------------------------------------------------------------------------
(* The entry                                                               *)

\* Variant: a language without its country is not looked for.
NameForLocale_WholeTag(e, tag) ==
  IF tag \in DOMAIN e.localized_names THEN e.localized_names[tag] ELSE e.name

\* name_for_locale: the whole tag without its encoding, what stands before
\* the country, no language.
NameForLocale(e, tag) ==
  LET known == DOMAIN e.localized_names
  IN  IF tag \in known THEN e.localized_names[tag]
      ELSE IF tag.country # "" /\ Language(tag.lang) \in known
      THEN e.localized_names[Language(tag.lang)]
      ELSE e.name

ShouldDisplay(e, desktop) ==
  /\ ~e.hidden /\ ~e.no_display
  /\ desktop \notin Elements(e.not_show_in)
  /\ e.only_show_in = << >> \/ desktop \in Elements(e.only_show_in)

\* The entry's own icon and name, unless the caller has better ones.
Completed(e, ctx) ==
  [ctx EXCEPT !.icon = IF @ = None THEN e.icon ELSE @,
              !.name = IF @ = None THEN <<e.name>> ELSE @]

Command(e, ctx) ==
  LET args == Tokenize(e.exec[1])
  IN  IF e.exec = None THEN None
      ELSE IF IsError(args) THEN args ELSE Expand(args.args, Completed(e, ctx))

----------------------------------------------------------------------------
(* From file to process                                                    *)

IsEntry == "name" \in DOMAIN entry

\* The file has one line more, and is read again.
ReadFile(line) ==
  /\ Len(content) < MaxLines
  /\ content' = Append(content, line) /\ entry' = Parse(content')
  /\ opened' = None /\ argv' = None

OtherFile == /\ content' \in Headers /\ entry' = Parse(content')
             /\ opened' = None /\ argv' = None

Launch(ctx) ==
  /\ IsEntry /\ opened' = <<ctx>> /\ argv' = Command(entry, ctx)
  /\ UNCHANGED <<content, entry>>

LauncherInit ==
  /\ content \in Headers /\ entry = Parse(content)
  /\ opened = None /\ argv = None

LauncherNext == \/ OtherFile
                \/ \E line \in Lines(content) \cap FileLines : ReadFile(line)
                \/ \E ctx \in Contexts : Launch(ctx)

LauncherSpec == LauncherInit /\ [][LauncherNext]_launcherVars

----------------------------------------------------------------------------
(* Type and safety                                                         *)

\* A launched entry gave arguments, an error or nothing, and never an empty
\* command.
LauncherTypeOK ==
  /\ Len(content) <= MaxLines
  /\ opened # None => \/ entry.exec = None /\ argv = None
                      \/ entry.exec # None /\ (IsError(argv) <=> argv.args = << >>)

\* lib.rs:104-106 `one bad line must not hide an application': lines that say
\* nothing, wherever they are, change nothing of the entry.
BadLinesHideNothing ==
  entry = Parse(Retain(content, {line \in Elements(content) : line.kind \notin {"comment", "malformed"}}))

IsHeader(line) == line.kind = "group" /\ line.name = "Desktop Entry"

\* The lines of the entry's own group: the first header of that name and what
\* follows it up to the next group.
Own(lines) ==
  {i \in DOMAIN lines :
     \E j \in 1..i : /\ IsHeader(lines[j]) /\ \A k \in 1..(j - 1) : ~IsHeader(lines[k])
                     /\ \A k \in (j + 1)..i : lines[k].kind # "group"}

\* lib.rs:92-93: whatever follows the next group header, another group of the
\* same name included, is no part of the entry.
LaterGroupsAreNotRead ==
  LET own == Own(content) IN own # {} => entry = Parse(SubSeq(content, Min(own), Max(own)))

\* What the file says of a key, and its last word on it.
Said(key) == {i \in Own(content) : content[i].kind = "key" /\ content[i].key = key}
LastWord(key) == content[Max(Said(key))].value

\* lib.rs:96-103 and 167-178: whatever a file says of itself, and however
\* often, the last word in its own group on each of four keys hides it from a
\* menu; an entry that none of them hides and whose program is there, or is not
\* asked for (lib.rs:62 TryExec), is in the menu.
ShownAsItSays ==
  LET says(name) == Said(<<name>>) # {} /\ LastWord(<<name>>) = <<"true">>
      list(name) == IF Said(<<name>>) = {} THEN {} ELSE Elements(LastWord(<<name>>))
      hides(d)   == \/ says("Hidden") \/ says("NoDisplay") \/ d \in list("NotShowIn")
                    \/ list("OnlyShowIn") # {} /\ d \notin list("OnlyShowIn")
      tried      == Said(<<"TryExec">>) = {} \/ LastWord(<<"TryExec">>) \in OnPath
  IN  IsEntry => \A d \in Desktops : /\ hides(d) => ~ShouldDisplay(entry, d)
                                     /\ ~hides(d) /\ tried => ShouldDisplay(entry, d)

\* lib.rs:150-158: a user is shown the name for exactly his locale, if there is
\* one.  Without a modifier the name in his language is next, and only then the
\* untranslated one; with a modifier it is one of the names in his language or
\* the untranslated one.  Which of them came last in the file does not matter.
NearestNameIsShown ==
  LET name(tag) == <<"Name[]", tag>>
  IN  IsEntry => \A tag \in Locales :
        LET shown == NameForLocale(entry, tag)
        IN  IF Said(name(tag)) # {} THEN shown = LastWord(name(tag))
            ELSE IF tag.modifier = ""
            THEN shown = IF Said(name(Language(tag.lang))) # {}
                         THEN LastWord(name(Language(tag.lang))) ELSE LastWord(<<"Name">>)
            ELSE \/ shown = LastWord(<<"Name">>)
                 \/ \E i \in Own(content) :
                      /\ content[i].kind = "key" /\ content[i].key[1] = "Name[]"
                      /\ content[i].key[2].lang = tag.lang
                      /\ shown = LastWord(content[i].key)

\* What a desktop file says, line by line, and how the menu takes it.
EntriesAreRead ==
  /\ LauncherTypeOK /\ BadLinesHideNothing /\ LaterGroupsAreNotRead
  /\ ShownAsItSays /\ NearestNameIsShown

\* What is opened under names that mean nothing to anybody.
FileMark(n) == <<"file", n>>
UriMark(n)  == <<"uri", n>>

Inert(ctx) ==
  [ctx EXCEPT !.files = [n \in DOMAIN @ |-> <<FileMark(n)>>],
              !.uris = [n \in DOMAIN @ |-> <<UriMark(n)>>]]

FileMarks(ctx) == {FileMark(n) : n \in DOMAIN ctx.files}
UriMarks(ctx)  == {UriMark(n) : n \in DOMAIN ctx.uris}

ASSUME MarksAssumption ==
  \A ctx \in Contexts : \A c \in Characters \cup {"--icon"} : c \notin FileMarks(ctx) \cup UriMarks(ctx)

\* A text, and arguments, with the names put back.
WithName(c, ctx) ==
  IF c \in FileMarks(ctx) THEN ctx.files[c[2]]
  ELSE IF c \in UriMarks(ctx) THEN ctx.uris[c[2]]
  ELSE <<c>>

InText(text, ctx) == FlattenSeq([i \in DOMAIN text |-> WithName(text[i], ctx)])

WithNames(args, ctx) == [a \in DOMAIN args |-> InText(args[a], ctx)]

\* exec.rs:11-12 `A filename containing %F must stay a filename': the command
\* for files of any name (none has an empty one) is the command for inert
\* ones, with the names put in.
FileNamesAreNotRead ==
  opened # None /\ entry.exec # None /\ << >> \notin Elements(opened[1].files \o opened[1].uris) =>
    LET inert == Command(entry, Inert(opened[1]))
    IN  argv = [inert EXCEPT !.args = WithNames(@, opened[1])]

\* The argument has a code for a file: an f or u behind a percent that is not
\* the second of a pair.
Asks(arg) ==
  \E i \in 1..(Len(arg) - 1) :
    /\ arg[i + 1] \in {"f", "u"}
    /\ Cardinality({j \in 1..i : \A l \in j..i : arg[l] = Percent}) % 2 = 1

\* exec.rs:177-180: with nothing to open, an argument that asks for a file is
\* left out as a whole; the rest of the command is what it would be without it.
NoFileNoArgument ==
  opened # None /\ entry.exec # None /\ opened[1].files = << >> /\ opened[1].uris = << >> =>
    LET args == Tokenize(entry.exec[1])
    IN  ~IsError(args) /\ ~IsError(argv) =>
          argv = Expand(Retain(args.args, {a \in Elements(args.args) : ~Asks(a)}),
                        Completed(entry, opened[1]))

\* How the specification writes an argument: in quotes, escaped.
Quoted(arg) ==
  <<Quote>> \o FlattenSeq([i \in DOMAIN arg |->
                 IF arg[i] \in Escapable THEN <<Backslash, arg[i]>> ELSE <<arg[i]>>]) \o <<Quote>>

\* exec.rs:6-7: any arguments, empty ones and such with blanks, quotes and
\* backslashes, come out as they were written.
ArgumentsReadBack ==
  opened # None =>
    LET args == opened[1].files
        line == FlattenSeq([i \in DOMAIN args |-> Quoted(args[i]) \o <<Space>>])
    IN  args # << >> => Tokenize(line) = Ok(args)

\* What holds between any two steps: the entry is what the file says, and the
\* command what the entry says.
LauncherInv ==
  /\ content \in Seq(FileLines) /\ Len(content) <= MaxLines /\ entry = Parse(content)
  /\ \/ opened = None /\ argv = None
     \/ \E ctx \in Contexts : IsEntry /\ opened = <<ctx>> /\ argv = Command(entry, ctx)

\* The command an entry runs is the one its Exec line and the files opened with
\* it say, and no file's name adds to it.
CommandsAreRead == FileNamesAreNotRead /\ NoFileNoArgument /\ ArgumentsReadBack

----------------------------------------------------------------------------
(* What the comments say and the code does not keep                        *)

\* lib.rs:62 `if set and not found on PATH, the entry should be hidden'.
TryExecHides ==
  IsEntry /\ entry.try_exec # None /\ entry.try_exec[1] \notin OnPath => \A d \in Desktops : ~ShouldDisplay(entry, d)

\* lib.rs:152 `Falls back through the tag's prefixes and then to the
\* untranslated name': a name in the user's language is found.
NameFallsBack ==
  IsEntry =>
    \A tag \in Locales :
      Language(tag.lang) \in DOMAIN entry.localized_names =>
        NameForLocale(entry, tag) \in {entry.localized_names[l] : l \in DOMAIN entry.localized_names}
=============================================================================
