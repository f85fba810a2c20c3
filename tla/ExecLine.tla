------------------------------ MODULE ExecLine -------------------------------
(***************************************************************************)
(* What an Exec= value says to run: gostui-desktop-entry/src/exec.rs.      *)
(* First the value is split into arguments, by the quoting of the Desktop  *)
(* Entry Specification; then each field code is replaced by what the user  *)
(* opens.                                                                  *)
(*                                                                         *)
(* A string is a sequence of characters, and of the characters only those  *)
(* are told apart that the code tells apart.  An error is a value of its   *)
(* own beside the arguments, of which there are none then.                 *)
(***************************************************************************)
EXTENDS SequencesExt, FiniteSetsExt

CONSTANT Characters \* what values and names are made of

Space == "space"
Quote == "quote"
Backslash == "backslash"
Dollar == "dollar"     \* like the backtick, a character a backslash escapes
Percent == "percent"

ASSUME CharactersAssumption == {Space, Quote, Backslash, Dollar, Percent} \subseteq Characters

Escapable == {Quote, Backslash, Dollar}

Deprecated == {"d"}

Ok(args)    == [error |-> "", args |-> args]
Error(what) == [error |-> what, args |-> << >>]

UnterminatedQuote == Error("unterminated quote")
UnknownFieldCode == Error("unknown field code")
Empty == Error("empty")

IsError(result) == result.error # ""

\* Variant: nothing to run is run.
NonEmpty_Never(args) == Ok(args)

NonEmpty(args) == IF args = << >> THEN Empty ELSE Ok(args)

----------------------------------------------------------------------------
(* Splitting                                                               *)

\* Where the reader is: outside quotes, inside, or behind a backslash there.
Start == [mode |-> "outside", args |-> << >>, current |-> << >>, has_current |-> FALSE]

Push(st, chars) == [st EXCEPT !.current = @ \o chars, !.has_current = TRUE]

EndArgument(st) ==
  IF st.has_current
  THEN [st EXCEPT !.args = Append(@, st.current), !.current = << >>, !.has_current = FALSE]
  ELSE st

\* Variant: an argument begins with its first character, not with its quote.
OpenQuote_Silent(st) == [st EXCEPT !.mode = "quoted"]

OpenQuote(st) == [st EXCEPT !.mode = "quoted", !.has_current = TRUE]

\* One character.
Read(st, c) ==
  CASE st.mode = "outside" /\ c = Space -> EndArgument(st)
    [] st.mode = "outside" /\ c = Quote -> OpenQuote(st)
    [] st.mode = "outside" /\ c \notin {Space, Quote} -> Push(st, <<c>>)
    [] st.mode = "quoted" /\ c = Quote -> [st EXCEPT !.mode = "outside"]
    [] st.mode = "quoted" /\ c = Backslash -> [st EXCEPT !.mode = "escape"]
    [] st.mode = "quoted" /\ c \notin {Quote, Backslash} -> Push(st, <<c>>)
    [] st.mode = "escape" ->
         [Push(st, IF c \in Escapable THEN <<c>> ELSE <<Backslash, c>>) EXCEPT !.mode = "quoted"]

\* A string of them.
ReadAll(start, exec) ==
  LET after[i \in 0..Len(exec)] == IF i = 0 THEN start ELSE Read(after[i - 1], exec[i])
  IN  after[Len(exec)]

Tokenize(exec) ==
  LET st   == ReadAll(Start, exec)
      args == EndArgument(st).args
  IN  IF st.mode # "outside" THEN UnterminatedQuote
      ELSE NonEmpty(args)

----------------------------------------------------------------------------
(* Field codes                                                             *)

\* What the codes stand for; an optional string is a sequence of at most one.
Context(files, uris, icon, name, desktop_file) ==
  [files |-> files, uris |-> uris, icon |-> icon, name |-> name, desktop_file |-> desktop_file]

UrisOf(ctx) == IF ctx.uris = << >> THEN ctx.files ELSE ctx.uris

Begin == [expanded |-> << >>, dropped |-> FALSE, code |-> FALSE, unknown |-> FALSE]

Put(st, chars) == [st EXCEPT !.expanded = @ \o chars, !.code = FALSE]

\* Variant: a code with nothing to stand for is left out of its argument.
PutFirst_Truncates(st, values) == IF values = << >> THEN Put(st, << >>) ELSE Put(st, values[1])

\* The one thing the user opens, or the whole argument goes.
PutFirst(st, values) ==
  IF values = << >> THEN [Put(st, << >>) EXCEPT !.dropped = TRUE] ELSE Put(st, values[1])

\* One character of an argument.
Substitute(st, c, ctx) ==
  IF ~st.code THEN (IF c = Percent THEN [st EXCEPT !.code = TRUE] ELSE Put(st, <<c>>))
  ELSE CASE c = Percent -> Put(st, <<Percent>>)
         [] c = "f" -> PutFirst(st, ctx.files)
         [] c = "u" -> PutFirst(st, UrisOf(ctx))
         [] c = "c" -> Put(st, IF ctx.name = << >> THEN << >> ELSE ctx.name[1])
         [] c = "k" -> Put(st, IF ctx.desktop_file = << >> THEN << >> ELSE ctx.desktop_file[1])
         [] c \in {"F", "U", "i"} -> [Put(st, << >>) EXCEPT !.dropped = TRUE]
         [] c \in Deprecated -> Put(st, << >>)
         [] OTHER -> [Put(st, << >>) EXCEPT !.unknown = TRUE]

\* All of them.
Substituted(arg, ctx) ==
  LET after[i \in 0..Len(arg)] == IF i = 0 THEN Begin ELSE Substitute(after[i - 1], arg[i], ctx)
  IN  after[Len(arg)]

\* The arguments one argument becomes; a lone percent at the end stays.
Expanded(arg, ctx) ==
  LET st   == Substituted(arg, ctx)
      text == IF st.code THEN Append(st.expanded, Percent) ELSE st.expanded
  IN  CASE ~Contains(arg, Percent) -> Ok(<<arg>>)
        [] arg = <<Percent, "F">> -> Ok(ctx.files)
        [] arg = <<Percent, "U">> -> Ok(UrisOf(ctx))
        [] arg = <<Percent, "i">> ->
             Ok(IF ctx.icon = << >> THEN << >> ELSE << <<"--icon">>, ctx.icon[1] >>)
        [] OTHER -> IF st.unknown THEN UnknownFieldCode
                    ELSE Ok(IF st.dropped \/ text = << >> THEN << >> ELSE <<text>>)

\* All arguments, or the first error.
Each(args, ctx) ==
  IF \E i \in DOMAIN args : IsError(Expanded(args[i], ctx)) THEN UnknownFieldCode
  ELSE NonEmpty(FlattenSeq([i \in DOMAIN args |-> Expanded(args[i], ctx).args]))

\* Variant: what a code stood for is looked at once more.
Expand_Twice(args, ctx) ==
  IF IsError(Each(args, ctx)) THEN Each(args, ctx) ELSE Each(Each(args, ctx).args, ctx)

Expand(args, ctx) == Each(args, ctx)
=============================================================================
