----------------------------- MODULE FilesProofs ------------------------------
(***************************************************************************)
(* The files of a user.  atomic::write implements AtomicFile, for any      *)
(* number of processes, readers and files.                                 *)
(*                                                                         *)
(* The argument: the file the name leads to, and the one it leads to on    *)
(* disk, is never the temporary file of a writer, and writers touch        *)
(* nothing else; and a temporary file that is about to be renamed is on    *)
(* disk as a whole.                                                        *)
(*                                                                         *)
(* A shell starts with what its files and its arguments say, whatever      *)
(* they are: a window is what was opened with the file of that moment, and *)
(* everything said of a running theme follows from how it was loaded.      *)
(*                                                                         *)
(* And a desktop entry is what its own group says last, and a command what *)
(* its Exec line says, for files of any length and lines of any kind.      *)
(* Both readers go from left to right, so everything is an induction over  *)
(* the sequence read: of lines for what was said of a key, of characters   *)
(* for where the reader is between the quotes or behind a percent, and of  *)
(* arguments for what the command becomes.                                 *)
(***************************************************************************)
EXTENDS AtomicWrite, Startup, Launcher, CoreProofs, FiniteSetTheorems, TLAPS

\* The file, now and on disk, holds a whole text that is on disk already.
TargetsWhole ==
  \A f \in {names[Path], diskNames[Path]} \ {NoFile} :
    data[f] \in Contents /\ diskData[f] = data[f]

\* A temporary file is nobody else's, neither now nor after a power cut.
TempsApart ==
  /\ \A w \in Writers : names[w] # NoFile =>
       /\ names[w] # names[Path] /\ names[w] # diskNames[Path]
       /\ \A r \in Readers : reading[r] # names[w]
       /\ \A v \in Writers : names[v] = names[w] => v = w
  /\ \A w \in Writers : diskNames[w] # NoFile =>
       /\ diskNames[w] # diskNames[Path]
       /\ \A v \in Writers : diskNames[v] = diskNames[w] => v = w

\* How far the text of a save has come.
TempsWritten ==
  \A w \in Writers :
    /\ fd[w] # NoFile => fd[w] = names[w]
    /\ pc[w] = "written" => data[fd[w]] = text[w]
    /\ pc[w] = "synced" => /\ names[w] # NoFile
                           /\ data[names[w]] = text[w] /\ diskData[names[w]] = text[w]

\* What a reader has open is whole.
ReadersSafe == \A r \in Readers : reading[r] # NoFile => data[reading[r]] \in Contents

Inv == TypeOK /\ TargetsWhole /\ TempsApart /\ TempsWritten /\ ReadersSafe

USE PathAssumption, NoneAssumption

LEMMA InitInv == Init => Inv
<1> SUFFICES ASSUME Init PROVE Inv
  OBVIOUS
<1> USE DEF Init
<1>1. TypeOK
  BY DEF TypeOK, Steps
<1>2. TargetsWhole
  BY DEF TargetsWhole
<1>3. TempsApart
  BY DEF TempsApart
<1>4. TempsWritten /\ ReadersSafe
  BY DEF TempsWritten, ReadersSafe
<1> QED BY <1>1, <1>2, <1>3, <1>4 DEF Inv

LEMMA CreateInv == ASSUME Inv, NEW w \in Writers, Create(w) PROVE Inv'
<1> USE DEF Inv, TypeOK, Create, TempOf, Goto
<1>1. PICK f \in Files :
        /\ IF names[w] = NoFile THEN f \notin InUse ELSE f = names[w]
        /\ names' = [names EXCEPT ![w] = f]
        /\ fd' = [fd EXCEPT ![w] = f]
        /\ data' = [data EXCEPT ![f] = Torn]
        /\ diskData' = IF names[w] = NoFile THEN [diskData EXCEPT ![f] = Torn] ELSE diskData
  OBVIOUS
<1>2. PICK c \in Contents : text' = [text EXCEPT ![w] = c]
  OBVIOUS
<1>3. /\ f # names[Path] /\ f # diskNames[Path] /\ \A r \in Readers : f # reading[r]
      /\ \A v \in Writers \ {w} : f # names[v] /\ f # fd[v]
  <2>1. CASE names[w] = NoFile
    BY <1>1, <2>1 DEF InUse
  <2>2. CASE names[w] # NoFile
    BY <1>1, <2>2 DEF TempsApart, TempsWritten
  <2> QED BY <2>1, <2>2
<1>4. TypeOK'
  BY <1>1, <1>2 DEF Steps
<1>5. TargetsWhole' /\ ReadersSafe'
  BY <1>1, <1>3 DEF TargetsWhole, ReadersSafe
<1>6. TempsApart'
  BY <1>1, <1>3 DEF TempsApart
<1>7. TempsWritten'
  <2> SUFFICES ASSUME NEW v \in Writers
               PROVE  /\ fd'[v] # NoFile => fd'[v] = names'[v]
                      /\ pc'[v] = "written" => data'[fd'[v]] = text'[v]
                      /\ pc'[v] = "synced" => /\ names'[v] # NoFile
                                              /\ data'[names'[v]] = text'[v]
                                              /\ diskData'[names'[v]] = text'[v]
    BY DEF TempsWritten
  <2>1. CASE v = w
    BY <1>1, <2>1
  <2>2. CASE v # w
    BY <1>1, <1>2, <1>3, <2>2 DEF TempsWritten
  <2> QED BY <2>1, <2>2
<1> QED BY <1>4, <1>5, <1>6, <1>7

LEMMA WriteAllInv == ASSUME Inv, NEW w \in Writers, WriteAll(w) PROVE Inv'
<1> USE DEF Inv, TypeOK, WriteAll, Goto, Proceed, Return
<1> DEFINE f == fd[w]
<1>1. /\ f \in Files /\ f = names[w] /\ text[w] \in Contents
      /\ f # names[Path] /\ f # diskNames[Path] /\ \A r \in Readers : f # reading[r]
      /\ \A v \in Writers \ {w} : f # names[v] /\ f # fd[v]
  BY DEF TempsWritten, TempsApart
<1>2. TypeOK'
  BY <1>1 DEF Steps
<1>3. TargetsWhole' /\ ReadersSafe' /\ TempsApart'
  BY <1>1 DEF TargetsWhole, ReadersSafe, TempsApart
<1>4. TempsWritten'
  <2> SUFFICES ASSUME NEW v \in Writers
               PROVE  /\ fd'[v] # NoFile => fd'[v] = names'[v]
                      /\ pc'[v] = "written" => data'[fd'[v]] = text'[v]
                      /\ pc'[v] = "synced" => /\ names'[v] # NoFile
                                              /\ data'[names'[v]] = text'[v]
                                              /\ diskData'[names'[v]] = text'[v]
    BY DEF TempsWritten
  <2>1. CASE v = w
    BY <1>1, <2>1
  <2>2. CASE v # w
    BY <1>1, <2>2 DEF TempsWritten
  <2> QED BY <2>1, <2>2
<1> QED BY <1>2, <1>3, <1>4

LEMMA SyncAllInv == ASSUME Inv, NEW w \in Writers, SyncAll(w) PROVE Inv'
<1> USE DEF Inv, TypeOK, SyncAll, Goto, Proceed, Return
<1> DEFINE f == fd[w]
<1>1. /\ f \in Files /\ f = names[w] /\ data[f] = text[w]
      /\ f # names[Path] /\ f # diskNames[Path]
      /\ \A v \in Writers \ {w} : f # names[v] /\ f # fd[v]
  BY DEF TempsWritten, TempsApart
<1>2. TypeOK'
  BY <1>1 DEF Steps
<1>3. TargetsWhole' /\ ReadersSafe' /\ TempsApart'
  BY <1>1 DEF TargetsWhole, ReadersSafe, TempsApart
<1>4. TempsWritten'
  <2> SUFFICES ASSUME NEW v \in Writers
               PROVE  /\ fd'[v] # NoFile => fd'[v] = names'[v]
                      /\ pc'[v] = "written" => data'[fd'[v]] = text'[v]
                      /\ pc'[v] = "synced" => /\ names'[v] # NoFile
                                              /\ data'[names'[v]] = text'[v]
                                              /\ diskData'[names'[v]] = text'[v]
    BY DEF TempsWritten
  <2>1. CASE v = w
    BY <1>1, <2>1
  <2>2. CASE v # w
    BY <1>1, <2>2 DEF TempsWritten
  <2> QED BY <2>1, <2>2
<1> QED BY <1>2, <1>3, <1>4

LEMMA RenameInv == ASSUME Inv, NEW w \in Writers, Rename(w) PROVE Inv'
<1> USE DEF Inv, TypeOK, Rename, TempOf, Goto, Proceed
<1>1. TypeOK'
  BY DEF Steps
<1>2. TargetsWhole' /\ ReadersSafe'
  BY DEF TargetsWhole, ReadersSafe, TempsWritten
<1>3. TempsApart'
  BY DEF TempsApart
<1>4. TempsWritten'
  BY DEF TempsWritten
<1> QED BY <1>1, <1>2, <1>3, <1>4

LEMMA OtherInv ==
  ASSUME Inv, NEW w \in Writers, CreateFails(w) \/ RemoveTemp(w) \/ SyncDir(w)
  PROVE  Inv'
<1> USE DEF Inv, TypeOK, CreateFails, RemoveTemp, SyncDir, TempOf, Goto, Return
<1>1. TypeOK'
  BY DEF Steps
<1>2. TargetsWhole' /\ ReadersSafe'
  BY DEF TargetsWhole, ReadersSafe
<1>3. TempsApart'
  BY DEF TempsApart
<1>4. TempsWritten'
  BY DEF TempsWritten
<1> QED BY <1>1, <1>2, <1>3, <1>4

LEMMA WorldInv ==
  ASSUME Inv,
         \/ \E r \in Readers : Open(r) \/ CloseFile(r)
         \/ \E f \in Files : WriteBackData(f)
         \/ WriteBackNames \/ PowerCut
  PROVE  Inv'
<1> USE DEF Inv, TypeOK, writerVars
<1>1. CASE \E r \in Readers : Open(r) \/ CloseFile(r)
  BY <1>1 DEF Open, CloseFile, TargetsWhole, TempsApart, TempsWritten, ReadersSafe
<1>2. CASE \E f \in Files : WriteBackData(f)
  BY <1>2 DEF WriteBackData, TargetsWhole, TempsApart, TempsWritten, ReadersSafe
<1>3. CASE WriteBackNames
  BY <1>3 DEF WriteBackNames, TargetsWhole, TempsApart, TempsWritten, ReadersSafe
<1>4. CASE PowerCut
  BY <1>4 DEF PowerCut, Steps, TargetsWhole, TempsApart, TempsWritten, ReadersSafe
<1> QED BY <1>1, <1>2, <1>3, <1>4

LEMMA NextInv == Inv /\ [Next]_vars => Inv'
<1> SUFFICES ASSUME Inv, [Next]_vars PROVE Inv'
  OBVIOUS
<1>1. CASE \E w \in Writers : WriterStep(w)
  BY <1>1, CreateInv, WriteAllInv, SyncAllInv, RenameInv, OtherInv DEF WriterStep
<1>2. CASE UNCHANGED vars
  BY <1>2 DEF vars, writerVars, Inv, TypeOK, TargetsWhole, TempsApart, TempsWritten, ReadersSafe
<1> QED BY <1>1, <1>2, WorldInv DEF Next

THEOREM SpecInv == Spec => []Inv
<1>1. Inv /\ [Next]_vars => Inv'
  BY NextInv
<1> QED BY <1>1, InitInv, PTL DEF Spec

\* Names, files and texts keep their types, and a writer has a file open
\* exactly between File::create and the end of its block (atomic.rs:30-36).
THEOREM TypeCorrect == Spec => []TypeOK
<1>1. Inv => TypeOK
  BY DEF Inv
<1> QED BY <1>1, SpecInv, PTL

----------------------------------------------------------------------------
(* The refinement                                                          *)

LEMMA InitRefines == Init => Abstract!Init
BY DEF Init, Abstract!Init, Value, Saved

\* Only a rename and a power cut change what a reader finds, and only a flush
\* of the directory changes what a power cut would leave.
LEMMA WriterRefines ==
  ASSUME Inv, NEW w \in Writers, WriterStep(w)
  PROVE  \/ Value' = Value /\ Saved' = Saved
         \/ Value' = Value /\ Saved' = Value
         \/ /\ Value' = text[w] /\ text[w] \in Contents /\ Saved' = Saved
            /\ pc[w] = "synced" /\ pc'[w] = "renamed"
<1> USE DEF Inv, TypeOK, TempOf, Goto, Proceed, Return, Value, Saved
<1>1. CASE Create(w)
  <2>1. PICK f \in Files :
          /\ IF names[w] = NoFile THEN f \notin InUse ELSE f = names[w]
          /\ names' = [names EXCEPT ![w] = f]
          /\ data' = [data EXCEPT ![f] = Torn]
          /\ diskData' = IF names[w] = NoFile THEN [diskData EXCEPT ![f] = Torn] ELSE diskData
    BY <1>1 DEF Create
  <2>2. f # names[Path] /\ f # diskNames[Path]
    BY <2>1 DEF TempsApart, InUse
  <2> QED BY <1>1, <2>1, <2>2 DEF Create
<1>2. CASE WriteAll(w) \/ SyncAll(w)
  <2>1. fd[w] \in Files /\ fd[w] # names[Path] /\ fd[w] # diskNames[Path]
    BY <1>2 DEF WriteAll, SyncAll, TempsWritten, TempsApart
  <2> QED BY <1>2, <2>1 DEF WriteAll, SyncAll
<1>3. CASE Rename(w)
  BY <1>3 DEF Rename, TempsWritten
<1>4. CASE CreateFails(w) \/ RemoveTemp(w)
  BY <1>4 DEF CreateFails, RemoveTemp
<1>5. CASE SyncDir(w)
  BY <1>5 DEF SyncDir, TargetsWhole
<1> QED BY <1>1, <1>2, <1>3, <1>4, <1>5 DEF WriterStep

LEMMA WorldRefines ==
  ASSUME Inv,
         \/ \E r \in Readers : Open(r) \/ CloseFile(r)
         \/ \E f \in Files : WriteBackData(f)
         \/ WriteBackNames \/ PowerCut
  PROVE  \/ Value' = Value /\ Saved' = Saved
         \/ Value' = Value /\ Saved' = Value
         \/ Value' = Saved /\ Saved' = Saved
<1> USE DEF Inv, TypeOK, writerVars, Value, Saved
<1>1. CASE \E r \in Readers : Open(r) \/ CloseFile(r)
  BY <1>1 DEF Open, CloseFile
<1>2. CASE \E f \in Files : WriteBackData(f)
  BY <1>2 DEF WriteBackData, TargetsWhole
<1>3. CASE WriteBackNames
  BY <1>3 DEF WriteBackNames, TargetsWhole
<1>4. CASE PowerCut
  BY <1>4 DEF PowerCut
<1> QED BY <1>1, <1>2, <1>3, <1>4

LEMMA StepRefines == Inv /\ [Next]_vars => [Abstract!Next]_<<Value, Saved>>
<1> SUFFICES ASSUME Inv, [Next]_vars PROVE [Abstract!Next]_<<Value, Saved>>
  OBVIOUS
<1> USE DEF Abstract!Next, Abstract!Replace, Abstract!Persist, Abstract!PowerCut
<1>1. CASE \E w \in Writers : WriterStep(w)
  <2>1. PICK w \in Writers : WriterStep(w)
    BY <1>1
  <2>2. \/ Value' = Value /\ Saved' = Saved
        \/ Value' = Value /\ Saved' = Value
        \/ Value' \in Contents /\ Saved' = Saved
    BY <2>1, WriterRefines
  <2> QED BY <2>2
<1>2. CASE UNCHANGED vars
  BY <1>2 DEF vars, Value, Saved
<1>3. CASE ~(\E w \in Writers : WriterStep(w)) /\ Next
  <2>1. \/ Value' = Value /\ Saved' = Saved
        \/ Value' = Value /\ Saved' = Value
        \/ Value' = Saved /\ Saved' = Saved
    BY <1>3, WorldRefines DEF Next
  <2> QED BY <2>1
<1> QED BY <1>1, <1>2, <1>3

\* write, with its temporary file and its two flushes, is a file replaced in
\* one step that a power cut never tears (atomic.rs:3-11): whatever fails, and
\* whoever else saves the same file.
THEOREM WriteIsAtomic == Spec => ReplacesAtomically
<1>1. Init => Abstract!Init
  BY InitRefines
<1>2. Inv /\ [Next]_vars => [Abstract!Next]_<<Value, Saved>>
  BY StepRefines
<1> QED BY <1>1, <1>2, SpecInv, PTL DEF Spec, ReplacesAtomically, Abstract!Spec

\* A save that fails leaves the old text, and one that succeeds leaves its own
\* (atomic.rs:30-45).
THEOREM FailedSavesChangeNothing == Spec => OnlyASaveReplaces
<1> DEFINE A == Value' # Value =>
       \/ Value' = Saved
       \/ \E w \in Writers : /\ pc[w] = "synced" /\ pc'[w] = "renamed"
                             /\ Value' = text[w]
<1>1. ASSUME Inv, Next PROVE A
  <2>1. CASE \E w \in Writers : WriterStep(w)
    <3>1. PICK w \in Writers : WriterStep(w)
      BY <2>1
    <3> QED BY <1>1, <3>1, WriterRefines
  <2>2. CASE ~(\E w \in Writers : WriterStep(w))
    BY <1>1, <2>2, WorldRefines DEF Next
  <2> QED BY <2>1, <2>2
<1>2. Inv /\ [Next]_vars => [A]_vars
  BY <1>1
<1> HIDE DEF A
<1>3. Spec => [][A]_vars
  BY <1>2, SpecInv, PTL DEF Spec
<1> QED BY <1>3 DEF OnlyASaveReplaces, A

\* What a reader has open does not change under it (atomic.rs:4-6).
THEOREM ReadersSeeWholeTexts == Spec => OpenFileIsFrozen
<1> DEFINE A == \A r \in Readers :
       reading[r] # NoFile /\ reading'[r] = reading[r]
         => data[reading[r]] \in Contents /\ data'[reading[r]] = data[reading[r]]
<1>1. ASSUME Inv, Next, NEW r \in Readers, reading[r] # NoFile, reading'[r] = reading[r]
      PROVE  data[reading[r]] \in Contents /\ data'[reading[r]] = data[reading[r]]
  <2>1. data[reading[r]] \in Contents /\ reading[r] \in Files
    BY <1>1 DEF Inv, ReadersSafe, TypeOK
  <2>2. CASE \E w \in Writers : Create(w)
    <3>1. PICK w \in Writers, f \in Files :
            /\ IF names[w] = NoFile THEN f \notin InUse ELSE f = names[w]
            /\ data' = [data EXCEPT ![f] = Torn]
      BY <2>2 DEF Create, TempOf
    <3>2. f # reading[r]
      BY <1>1, <3>1 DEF InUse, Inv, TempsApart
    <3> QED BY <2>1, <3>1, <3>2 DEF Inv, TypeOK
  <2>3. CASE \E w \in Writers : WriteAll(w)
    <3>1. PICK w \in Writers : WriteAll(w)
      BY <2>3
    <3>2. fd[w] # reading[r] /\ fd[w] \in Files
      BY <1>1, <3>1 DEF WriteAll, Inv, TypeOK, TempsWritten, TempsApart
    <3> QED BY <1>1, <2>1, <3>1, <3>2 DEF WriteAll, Inv, TypeOK
  <2>4. CASE PowerCut
    BY <1>1, <2>4 DEF PowerCut
  <2>5. CASE ~PowerCut /\ \A w \in Writers : ~Create(w) /\ ~WriteAll(w)
    BY <1>1, <2>1, <2>5
    DEF Next, WriterStep, CreateFails, SyncAll, Rename, RemoveTemp, SyncDir, Open, CloseFile,
        WriteBackData, WriteBackNames
  <2> QED BY <2>2, <2>3, <2>4, <2>5
<1>2. Inv /\ [Next]_vars => [A]_vars
  BY <1>1
<1> HIDE DEF A
<1>3. Spec => [][A]_vars
  BY <1>2, SpecInv, PTL DEF Spec
<1> QED BY <1>3 DEF OpenFileIsFrozen, A

\* atomic.rs:4-6 and :21-25 together: a text is read whole or not at all, and
\* only a save that went through replaces it.
THEOREM TextsAreNeverTorn == Spec => TextsStayWhole
BY FailedSavesChangeNothing, ReadersSeeWholeTexts DEF TextsStayWhole

----------------------------------------------------------------------------
(* Colours                                                                 *)

Colours == [1..4 -> 0..255]

LEMMA NoColourIsNone == NoColour \notin Colours
<1>1. \A c \in Colours : DOMAIN c = 1..4
  BY DEF Colours
<1>2. DOMAIN NoColour # 1..4
  BY DEF NoColour
<1> QED BY <1>1, <1>2

LEMMA BuiltinIsColours == BuiltinPalette \in [PaletteRoles -> Colours]
<1>1. \A c \in PaletteRoles : BuiltinPalette[c] \in Colours
  BY DEF PaletteRoles, BuiltinPalette, Rgba, Colours
<1>2. BuiltinPalette = [c \in PaletteRoles |-> BuiltinPalette[c]]
  BY DEF PaletteRoles, BuiltinPalette
<1> QED BY <1>1, <1>2

LEMMA ByteIsOne ==
  ASSUME NEW hi \in Character, NEW lo \in Character, Byte(hi, lo) # {}
  PROVE  \E v \in 0..255 : Byte(hi, lo) = {v}
<1>1. \/ hi \in Digit /\ lo \in Digit /\ Byte(hi, lo) = {16 * hi + lo}
      \/ lo \in Digit /\ Byte(hi, lo) = {lo}
  BY DEF Byte
<1>2. lo \in Digit => lo \in 0..255
  BY DEF Digit
<1>3. hi \in Digit /\ lo \in Digit => 16 * hi + lo \in 0..255
  BY DEF Digit
<1> QED BY <1>1, <1>2, <1>3

LEMMA TwoDigits ==
  ASSUME NEW v \in 0..255
  PROVE  Byte(v \div 16, v % 16) = {v}
<1>1. v \div 16 \in 0..15 /\ v % 16 \in 0..15
  OBVIOUS
<1>2. 16 * (v \div 16) + (v % 16) = v
  OBVIOUS
<1> QED BY <1>1, <1>2 DEF Byte, Digit

LEMMA UnhashedText ==
  ASSUME NEW s \in Seq(Character)
  PROVE  Unhashed(s) \in Seq(Character)
BY DEF Unhashed

\* What a string is read as is a colour, or nothing.
LEMMA ParsedIsColour ==
  ASSUME NEW s \in Seq(Character), ParseHex(s) # NoColour
  PROVE  ParseHex(s) \in Colours
<1> DEFINE t == Unhashed(s)
<1> DEFINE bytes == BytesOf(t)
<1> DEFINE c == [i \in 1..4 |-> IF i <= Len(bytes) THEN CHOOSE v \in bytes[i] : TRUE ELSE 255]
<1>1. Len(t) \in Nat /\ \A i \in 1..Len(t) : t[i] \in Character
  BY UnhashedText
<1>2. /\ Len(t) \in {6, 8} /\ ParseHex(s) = c
      /\ \A i \in DOMAIN bytes : bytes[i] # {}
  BY Zenon DEF ParseHex, FromDigits
<1> HIDE DEF t
<1>3. Len(bytes) = Len(t) \div 2 /\ DOMAIN bytes = 1..(Len(t) \div 2)
  BY <1>2 DEF BytesOf
<1>4. \A i \in 1..(Len(t) \div 2) : \E v \in 0..255 : bytes[i] = {v}
  <2> TAKE i \in 1..(Len(t) \div 2)
  <2>1. 2 * i - 1 \in 1..Len(t) /\ 2 * i \in 1..Len(t)
    BY <1>2
  <2>2. t[2 * i - 1] \in Character /\ t[2 * i] \in Character
    BY <1>1, <2>1
  <2>3. bytes[i] = Byte(t[2 * i - 1], t[2 * i])
    BY DEF BytesOf
  <2>4. bytes[i] # {}
    BY <1>2, <1>3
  <2> HIDE DEF bytes
  <2>5. Byte(t[2 * i - 1], t[2 * i]) # {}
    BY <2>3, <2>4
  <2>6. \E v \in 0..255 : Byte(t[2 * i - 1], t[2 * i]) = {v}
    BY <2>2, <2>5, ByteIsOne, Zenon
  <2> QED BY <2>3, <2>6, Zenon
<1> HIDE DEF bytes
<1>5. \A i \in 1..4 : c[i] \in 0..255
  <2> TAKE i \in 1..4
  <2>1. CASE i <= Len(bytes)
    <3>1. i \in 1..(Len(t) \div 2)
      BY <1>2, <1>3, <2>1
    <3>2. PICK v \in 0..255 : bytes[i] = {v}
      BY <1>4, <3>1
    <3>3. (CHOOSE x \in bytes[i] : TRUE) = v
      BY <3>2
    <3> QED BY <2>1, <3>2, <3>3
  <2>2. CASE ~(i <= Len(bytes))
    BY <2>2
  <2> QED BY <2>1, <2>2
<1>6. c \in Colours
  BY <1>5 DEF Colours
<1> QED BY <1>2, <1>6

\* The digits of a colour, two for each channel that is written.
LEMMA HexDigits ==
  ASSUME NEW c \in Colours
  PROVE  \E h \in Seq(Digit) :
           /\ ToHex(c) = <<Hash>> \o h
           /\ Len(h) = IF c[4] = 255 THEN 6 ELSE 8
           /\ \A i \in 1..(Len(h) \div 2) : h[2 * i - 1] = c[i] \div 16 /\ h[2 * i] = c[i] % 16
<1> DEFINE n == IF c[4] = 255 THEN 6 ELSE 8
<1> DEFINE h == [i \in 1..n |-> IF i % 2 = 1 THEN c[(i + 1) \div 2] \div 16 ELSE c[i \div 2] % 16]
<1>1. \A i \in 1..4 : c[i] \in 0..255
  BY DEF Colours
<1>2. n \in {6, 8}
  OBVIOUS
<1>3. ToHex(c) = <<Hash>> \o h
  BY DEF ToHex
<1> HIDE DEF n
<1>4. \A i \in 1..n : h[i] \in Digit
  <2> TAKE i \in 1..n
  <2>1. CASE i % 2 = 1
    <3>1. (i + 1) \div 2 \in 1..4
      BY <1>2, <2>1
    <3>2. c[(i + 1) \div 2] \in 0..255 /\ h[i] = c[(i + 1) \div 2] \div 16
      BY <1>1, <2>1, <3>1
    <3> HIDE DEF h
    <3> QED BY <3>2 DEF Digit
  <2>2. CASE i % 2 # 1
    <3>1. i \div 2 \in 1..4
      BY <1>2, <2>2
    <3>2. c[i \div 2] \in 0..255 /\ h[i] = c[i \div 2] % 16
      BY <1>1, <2>2, <3>1
    <3> HIDE DEF h
    <3> QED BY <3>2 DEF Digit
  <2> QED BY <2>1, <2>2
<1>5. \A i \in 1..(n \div 2) : h[2 * i - 1] = c[i] \div 16 /\ h[2 * i] = c[i] % 16
  <2> TAKE i \in 1..(n \div 2)
  <2>1. /\ 2 * i - 1 \in 1..n /\ (2 * i - 1) % 2 = 1 /\ ((2 * i - 1) + 1) \div 2 = i
        /\ 2 * i \in 1..n /\ (2 * i) % 2 # 1 /\ (2 * i) \div 2 = i
    BY <1>2
  <2> QED BY <2>1
<1>6. h \in [1..n -> Digit]
  BY <1>4
<1> HIDE DEF h
<1>7. h \in Seq(Digit) /\ Len(h) = n
  BY <1>2, <1>6
<1>8. /\ Len(h) = IF c[4] = 255 THEN 6 ELSE 8
      /\ \A i \in 1..(Len(h) \div 2) : h[2 * i - 1] = c[i] \div 16 /\ h[2 * i] = c[i] % 16
  BY <1>5, <1>7 DEF n
<1> QED BY <1>3, <1>7, <1>8, Zenon

\* A colour that was written is the colour that is read.
LEMMA HexReadsBack ==
  ASSUME NEW c \in Colours
  PROVE  ToHex(c) \in Seq(Character) /\ ParseHex(ToHex(c)) = c
<1>1. PICK h \in Seq(Digit) :
        /\ ToHex(c) = <<Hash>> \o h
        /\ Len(h) = IF c[4] = 255 THEN 6 ELSE 8
        /\ \A i \in 1..(Len(h) \div 2) : h[2 * i - 1] = c[i] \div 16 /\ h[2 * i] = c[i] % 16
  BY HexDigits
<1> DEFINE s == ToHex(c)
<1> DEFINE bytes == BytesOf(h)
<1> DEFINE n == Len(h)
<1>2. \A i \in 1..4 : c[i] \in 0..255
  BY DEF Colours
<1>3. n \in {6, 8}
  BY <1>1
<1>4. s \in Seq(Character) /\ Unhashed(s) = h
  <2>1. h \in Seq(Character) /\ Hash \in Character
    BY DEF Character, Digit, NonAscii, Hash
  <2>2. /\ s \in Seq(Character) /\ Len(s) = Len(h) + 1 /\ s[1] = Hash
        /\ \A i \in 1..Len(h) : s[i + 1] = h[i]
    <3>1. s = <<Hash>> \o h
      BY <1>1
    <3> HIDE DEF s
    <3>2. <<Hash>> \in Seq(Character) /\ Len(<<Hash>>) = 1 /\ <<Hash>>[1] = Hash
      BY <2>1
    <3> QED BY <2>1, <3>1, <3>2
  <2> HIDE DEF s
  <2>3. s # << >>
    BY <2>1, <2>2
  <2>4. /\ Tail(s) \in Seq(Character) /\ Len(Tail(s)) = Len(h)
        /\ \A i \in 1..Len(h) : Tail(s)[i] = h[i]
    BY <2>1, <2>2, <2>3
  <2>5. Tail(s) = h
    BY <2>1, <2>4
  <2> QED BY <2>2, <2>3, <2>5 DEF Unhashed
<1>5. NonAscii \notin {h[i] : i \in 1..Len(h)}
  BY DEF NonAscii, Digit
<1>6. DOMAIN bytes = 1..(n \div 2) /\ Len(bytes) = n \div 2
  BY <1>3 DEF BytesOf
<1>7. \A i \in DOMAIN bytes : bytes[i] = {c[i]}
  <2> SUFFICES ASSUME NEW i \in 1..(n \div 2) PROVE bytes[i] = {c[i]}
    BY <1>6
  <2>1. i \in 1..4
    <3> HIDE DEF n
    <3> QED BY <1>3
  <2>2. bytes[i] = Byte(c[i] \div 16, c[i] % 16)
    BY <1>1 DEF BytesOf
  <2>3. c[i] \in 0..255
    BY <1>2, <2>1
  <2>4. Byte(c[i] \div 16, c[i] % 16) = {c[i]}
    BY <2>3, TwoDigits
  <2> HIDE DEF bytes
  <2> QED BY <2>2, <2>4
<1> DEFINE d == [i \in 1..4 |-> IF i <= Len(bytes) THEN CHOOSE v \in bytes[i] : TRUE ELSE 255]
<1> HIDE DEF bytes
<1>8. \A i \in DOMAIN bytes : bytes[i] # {}
  BY <1>7
<1>9. FromDigits(h) = d
  BY <1>3, <1>5, <1>8, Zenon DEF FromDigits, bytes
<1>10. \A i \in 1..4 : d[i] = c[i]
  <2> TAKE i \in 1..4
  <2>1. CASE i <= n \div 2
    <3>1. i \in DOMAIN bytes /\ i <= Len(bytes)
      BY <1>3, <1>6, <2>1
    <3>2. (CHOOSE v \in bytes[i] : TRUE) = c[i]
      BY <1>7, <3>1
    <3> QED BY <3>1, <3>2
  <2>2. CASE ~(i <= n \div 2)
    <3>1. ~(i <= Len(bytes)) /\ i = 4 /\ c[4] = 255
      BY <1>1, <1>3, <1>6, <2>2
    <3> QED BY <3>1
  <2> QED BY <2>1, <2>2
<1>11. d = c
  <2>1. DOMAIN d = 1..4 /\ c \in [1..4 -> 0..255]
    BY DEF Colours
  <2> HIDE DEF d
  <2>2. c = [i \in 1..4 |-> c[i]]
    BY <2>1
  <2>3. d = [i \in 1..4 |-> d[i]]
    BY DEF d
  <2> QED BY <1>10, <2>2, <2>3
<1> QED BY <1>4, <1>9, <1>11 DEF ParseHex

----------------------------------------------------------------------------
(* Themes                                                                  *)

\* A theme as a shell runs it, with every part there is.
IsTheme(t) ==
  /\ t = [name |-> t.name, palette |-> t.palette, metrics |-> t.metrics, fonts |-> t.fonts]
  /\ t.palette \in [PaletteRoles -> Colours]
  /\ t.metrics \in [DOMAIN BuiltinMetrics -> Int]
  /\ t.fonts \in [DOMAIN BuiltinFonts -> Int]

LEMMA BuiltinSizes ==
  /\ BuiltinMetrics \in [DOMAIN BuiltinMetrics -> Int]
  /\ BuiltinFonts \in [DOMAIN BuiltinFonts -> Int]
  /\ \A f \in DOMAIN BuiltinMetrics : BuiltinMetrics[f] >= MetricFloor(f, "pointer")
  /\ \A f \in DOMAIN BuiltinFonts : BuiltinFonts[f] >= MinFontSize
  /\ DOMAIN BuiltinMetrics \cap DOMAIN BuiltinFonts = {}
<1>1. BuiltinMetrics \in [DOMAIN BuiltinMetrics -> Int]
  BY DEF BuiltinMetrics, MinTouchTarget
<1>2. BuiltinFonts \in [DOMAIN BuiltinFonts -> Int]
  BY DEF BuiltinFonts
<1>3. \A f \in DOMAIN BuiltinMetrics : BuiltinMetrics[f] >= MetricFloor(f, "pointer")
  BY DEF BuiltinMetrics, MinTouchTarget, MetricFloor, Floor, Touchable
<1>4. \A f \in DOMAIN BuiltinFonts : BuiltinFonts[f] >= MinFontSize
  BY DEF BuiltinFonts, MinFontSize
<1>5. DOMAIN BuiltinMetrics \cap DOMAIN BuiltinFonts = {}
  BY DEF BuiltinMetrics, BuiltinFonts
<1> QED BY <1>1, <1>2, <1>3, <1>4, <1>5

\* What is written over what is built in has the same fields.
LEMMA MergedSizes ==
  ASSUME NEW D, NEW X, NEW builtin \in [D -> X], NEW written, Reads(written, builtin, X)
  PROVE  Merged(builtin, written) \in [D -> X]
BY DEF Merged, Reads

LEMMA MergedWhole ==
  ASSUME NEW builtin, NEW X, NEW written \in [DOMAIN builtin -> X]
  PROVE  Merged(builtin, written) = written
BY DEF Merged

\* Sanitised: what was raised is at its floor, and the rest as it was.
LEMMA FloorIsNat ==
  ASSUME NEW f
  PROVE  /\ MetricFloor(f, "pointer") \in Nat
         /\ f \in Touchable => MetricFloor(f, "pointer") = 16
         /\ f = "focus_width" => MetricFloor(f, "pointer") = 1
BY DEF MetricFloor, Floor, Touchable

LEMMA SanitisedMetricsFacts ==
  ASSUME NEW D, NEW m \in [D -> Int]
  PROVE  LET s == SanitisedMetrics(m, "pointer")
         IN  /\ s \in [D -> Int]
             /\ \A f \in D : s[f] >= MetricFloor(f, "pointer") /\ s[f] >= 0
             /\ (\A f \in D : m[f] >= MetricFloor(f, "pointer")) => s = m
<1>1. \A f \in D : m[f] \in Int /\ MetricFloor(f, "pointer") \in Nat
  BY FloorIsNat
<1> QED BY <1>1 DEF SanitisedMetrics, Most

LEMMA SanitisedFontsFacts ==
  ASSUME NEW D, NEW m \in [D -> Int]
  PROVE  LET s == SanitisedFonts(m)
         IN  /\ s \in [D -> Int]
             /\ \A f \in D : s[f] >= MinFontSize
             /\ (\A f \in D : m[f] >= MinFontSize) => s = m
<1>1. \A f \in D : m[f] \in Int
  OBVIOUS
<1> QED BY <1>1 DEF SanitisedFonts, Most, MinFontSize

\* The palette of a file, role by role.
LEMMA PaletteFacts ==
  ASSUME NEW written, Reads(written, BuiltinPalette, Seq(Character))
  PROVE  /\ IntoPalette(written) \in [PaletteRoles -> Colours]
         /\ \A c \in PaletteRoles :
              IntoPalette(written)[c] = IF c \in DOMAIN written \ ColourProblems(written)
                                        THEN ParseHex(written[c]) ELSE BuiltinPalette[c]
<1> DEFINE good == {x \in DOMAIN written : ParseHex(written[x]) # NoColour}
<1> DEFINE parsed == [r \in good |-> ParseHex(written[r])]
<1>1. IntoPalette(written) = Merged(BuiltinPalette, parsed)
  BY DEF IntoPalette
<1>2. good = DOMAIN written \ ColourProblems(written)
  BY DEF ColourProblems
<1>3. \A c \in good : ParseHex(written[c]) \in Colours
  BY ParsedIsColour DEF Reads
<1>4. Merged(BuiltinPalette, parsed)
        = [c \in PaletteRoles |-> IF c \in good THEN ParseHex(written[c]) ELSE BuiltinPalette[c]]
  BY DEF Merged, PaletteRoles
<1> HIDE DEF good, parsed
<1>5. \A c \in PaletteRoles : BuiltinPalette[c] \in Colours
  BY BuiltinIsColours
<1> QED BY <1>1, <1>2, <1>3, <1>4, <1>5

\* A usable file is one with a text, and its theme is a theme.
LEMMA UsableFile ==
  ASSUME NEW file, IsThemeFile(file), Usable(file)
  PROVE  /\ DOMAIN file = {"kind", "version", "name", "palette", "metrics", "fonts"}
         /\ Reads(file.palette, BuiltinPalette, Seq(Character))
         /\ Reads(file.metrics, BuiltinMetrics, Int)
         /\ Reads(file.fonts, BuiltinFonts, Int)
         /\ file.kind = "text" /\ file.version \in Nat /\ file.version <= SchemaVersion
         /\ ErrorIn(file) = NoError
BY DEF IsThemeFile, Usable, IsUnread, File, ErrorIn, SchemaVersion, NoError

\* What the shell starts from: the file's theme, or the one that is built in.
Written(file) == IF Usable(file) THEN IntoTheme(file) ELSE Builtin

LEMMA WrittenIsTheme ==
  ASSUME NEW file, IsThemeFile(file)
  PROVE  IsTheme(Written(file))
<1>1. CASE Usable(file)
  <2>1. IntoPalette(file.palette) \in [PaletteRoles -> Colours]
    BY <1>1, UsableFile, PaletteFacts
  <2>2. Merged(BuiltinMetrics, file.metrics) \in [DOMAIN BuiltinMetrics -> Int]
    BY <1>1, UsableFile, BuiltinSizes, MergedSizes, Zenon
  <2>3. Merged(BuiltinFonts, file.fonts) \in [DOMAIN BuiltinFonts -> Int]
    BY <1>1, UsableFile, BuiltinSizes, MergedSizes, Zenon
  <2>4. IsTheme(IntoTheme(file))
    BY <2>1, <2>2, <2>3 DEF IntoTheme, IsTheme
  <2> QED BY <1>1, <2>4 DEF Written
<1>2. CASE ~Usable(file)
  <2>1. IsTheme(Builtin)
    BY BuiltinIsColours, BuiltinSizes DEF Builtin, IsTheme
  <2> QED BY <1>2, <2>1 DEF Written
<1> QED BY <1>1, <1>2

\* What running it raises, and what it leaves alone.
LEMMA SanitisedFacts ==
  ASSUME NEW t, IsTheme(t)
  PROVE  LET s == Sanitised(t, "pointer")
         IN  /\ IsTheme(s)
             /\ s.name = t.name /\ s.palette = t.palette
             /\ s.metrics = SanitisedMetrics(t.metrics, "pointer")
             /\ s.fonts = SanitisedFonts(t.fonts)
             /\ \A f \in DOMAIN BuiltinMetrics : s.metrics[f] >= MetricFloor(f, "pointer")
                                                  /\ s.metrics[f] >= 0
             /\ \A f \in DOMAIN BuiltinFonts : s.fonts[f] >= MinFontSize
<1> DEFINE m == SanitisedMetrics(t.metrics, "pointer")
<1> DEFINE k == SanitisedFonts(t.fonts)
<1>1. /\ t.metrics \in [DOMAIN BuiltinMetrics -> Int] /\ t.fonts \in [DOMAIN BuiltinFonts -> Int]
      /\ t.palette \in [PaletteRoles -> Colours]
      /\ t = [name |-> t.name, palette |-> t.palette, metrics |-> t.metrics, fonts |-> t.fonts]
  BY DEF IsTheme
<1>2. /\ m \in [DOMAIN BuiltinMetrics -> Int]
      /\ \A f \in DOMAIN BuiltinMetrics : m[f] >= MetricFloor(f, "pointer") /\ m[f] >= 0
  BY <1>1, SanitisedMetricsFacts, Zenon
<1>3. /\ k \in [DOMAIN BuiltinFonts -> Int]
      /\ \A f \in DOMAIN BuiltinFonts : k[f] >= MinFontSize
  BY <1>1, SanitisedFontsFacts, Zenon
<1>4. Sanitised(t, "pointer") = [name |-> t.name, palette |-> t.palette, metrics |-> m, fonts |-> k]
  BY DEF Sanitised
<1> HIDE DEF m, k
<1>5. IsTheme(Sanitised(t, "pointer"))
  BY <1>1, <1>2, <1>3, <1>4 DEF IsTheme
<1> QED BY <1>2, <1>3, <1>4, <1>5 DEF m, k

\* A sanitised theme is sanitised.
LEMMA SanitisedOnce ==
  ASSUME NEW t, IsTheme(t),
         \A f \in DOMAIN BuiltinMetrics : t.metrics[f] >= MetricFloor(f, "pointer"),
         \A f \in DOMAIN BuiltinFonts : t.fonts[f] >= MinFontSize
  PROVE  /\ Sanitised(t, "pointer") = t
         /\ Report(t, "pointer").adjustments = {}
<1>1. /\ t.metrics \in [DOMAIN BuiltinMetrics -> Int] /\ t.fonts \in [DOMAIN BuiltinFonts -> Int]
      /\ t = [name |-> t.name, palette |-> t.palette, metrics |-> t.metrics, fonts |-> t.fonts]
  BY DEF IsTheme
<1>2. SanitisedMetrics(t.metrics, "pointer") = t.metrics
  BY <1>1, SanitisedMetricsFacts, Zenon
<1>3. SanitisedFonts(t.fonts) = t.fonts
  BY <1>1, SanitisedFontsFacts, Zenon
<1>4. Sanitised(t, "pointer") = t
  BY <1>1, <1>2, <1>3 DEF Sanitised
<1>5. \A m : Adjusted(m, m) = {}
  BY DEF Adjusted
<1>6. Report(t, "pointer").adjustments = {}
  BY <1>2, <1>3, <1>5 DEF Report
<1> QED BY <1>4, <1>6

\* A theme that is saved and read again.
LEMMA SavedFile ==
  ASSUME NEW t, IsTheme(t)
  PROVE  /\ IsThemeFile(FromTheme(t)) /\ Usable(FromTheme(t))
         /\ IntoTheme(FromTheme(t)) = t /\ ColourProblems(FromTheme(t).palette) = {}
<1> DEFINE file == FromTheme(t)
<1> DEFINE hex == [r \in PaletteRoles |-> ToHex(t.palette[r])]
<1>1. /\ t.metrics \in [DOMAIN BuiltinMetrics -> Int] /\ t.fonts \in [DOMAIN BuiltinFonts -> Int]
      /\ t.palette \in [PaletteRoles -> Colours]
      /\ t = [name |-> t.name, palette |-> t.palette, metrics |-> t.metrics, fonts |-> t.fonts]
  BY DEF IsTheme
<1>2. file = [kind |-> "text", version |-> SchemaVersion, name |-> t.name,
              palette |-> hex, metrics |-> t.metrics, fonts |-> t.fonts]
  BY DEF FromTheme
<1>3. \A r \in PaletteRoles : /\ hex[r] \in Seq(Character) /\ ParseHex(hex[r]) = t.palette[r]
                              /\ ParseHex(hex[r]) # NoColour
  BY <1>1, HexReadsBack, NoColourIsNone
<1>4. DOMAIN hex = PaletteRoles
  OBVIOUS
<1> HIDE DEF hex, file
<1>5. Reads(hex, BuiltinPalette, Seq(Character))
  BY <1>3, <1>4 DEF Reads, PaletteRoles
<1>6. Reads(t.metrics, BuiltinMetrics, Int) /\ Reads(t.fonts, BuiltinFonts, Int)
  BY <1>1 DEF Reads
<1>7. /\ DOMAIN file = {"kind", "version", "name", "palette", "metrics", "fonts"}
      /\ file.kind = "text" /\ file.version = 1 /\ file.name = t.name
      /\ file.palette = hex /\ file.metrics = t.metrics /\ file.fonts = t.fonts
  BY <1>2 DEF SchemaVersion
<1>8. IsThemeFile(file)
  BY <1>1, <1>5, <1>6, <1>7 DEF IsThemeFile
<1>9. Usable(file)
  BY <1>7 DEF Usable, ErrorIn, SchemaVersion, NoError
<1>10. ColourProblems(hex) = {}
  BY <1>3, <1>4 DEF ColourProblems
<1>11. IntoPalette(hex) = t.palette
  <2>1. \A c \in PaletteRoles : IntoPalette(hex)[c] = t.palette[c]
    BY <1>3, <1>4, <1>5, <1>10, PaletteFacts
  <2>2. IntoPalette(hex) \in [PaletteRoles -> Colours]
    BY <1>5, PaletteFacts
  <2> QED BY <1>1, <2>1, <2>2
<1>12. Merged(BuiltinMetrics, t.metrics) = t.metrics /\ Merged(BuiltinFonts, t.fonts) = t.fonts
  BY <1>1, MergedWhole
<1>13. IntoTheme(file) = t
  BY <1>1, <1>7, <1>11, <1>12 DEF IntoTheme
<1> QED BY <1>7, <1>8, <1>9, <1>10, <1>13 DEF file

LEMMA LoadFacts ==
  ASSUME NEW file
  PROVE  LET l == LoadTheme(file, "pointer")
         IN  /\ l.theme = Sanitised(Written(file), "pointer")
             /\ l.report.file = ErrorIn(file)
             /\ l.report.colours = IF Usable(file) THEN ColourProblems(file.palette) ELSE {}
             /\ l.report.core = Report(Written(file), "pointer")
             /\ l.report = [file |-> l.report.file, colours |-> l.report.colours,
                            core |-> l.report.core]
BY DEF LoadTheme, Written

----------------------------------------------------------------------------
(* What a loaded theme is                                                  *)

\* A usable theme, of any file.
LEMMA LoadedIsUsable ==
  ASSUME NEW file, IsThemeFile(file)
  PROVE  LET t == LoadTheme(file, "pointer").theme
         IN  /\ IsTheme(t)
             /\ \A f \in DOMAIN BuiltinMetrics : t.metrics[f] >= MetricFloor(f, "pointer")
                                                  /\ t.metrics[f] >= 0
             /\ \A f \in DOMAIN BuiltinFonts : t.fonts[f] >= MinFontSize
<1>1. LoadTheme(file, "pointer").theme = Sanitised(Written(file), "pointer")
  BY LoadFacts
<1> QED BY <1>1, WrittenIsTheme, SanitisedFacts, Zenon

\* Saved and read again it is the same, and there is nothing to correct.
LEMMA SavedReadsBack ==
  ASSUME NEW t, IsTheme(t),
         \A f \in DOMAIN BuiltinMetrics : t.metrics[f] >= MetricFloor(f, "pointer"),
         \A f \in DOMAIN BuiltinFonts : t.fonts[f] >= MinFontSize
  PROVE  LET again == LoadTheme(FromTheme(t), "pointer")
         IN  /\ again.theme = t
             /\ again.report.file = NoError /\ again.report.colours = {}
             /\ again.report.core.adjustments = {}
             /\ (again.report.core.low_contrast = {}) = IsClean(again.report)
<1> DEFINE file == FromTheme(t)
<1> DEFINE again == LoadTheme(file, "pointer")
<1>1. /\ IsThemeFile(file) /\ Usable(file) /\ IntoTheme(file) = t
      /\ ColourProblems(file.palette) = {} /\ ErrorIn(file) = NoError
  BY SavedFile DEF Usable
<1>2. Written(file) = t
  BY <1>1 DEF Written
<1>3. /\ again.theme = Sanitised(t, "pointer") /\ again.report.file = NoError
      /\ again.report.colours = {} /\ again.report.core = Report(t, "pointer")
      /\ again.report = [file |-> NoError, colours |-> {}, core |-> Report(t, "pointer")]
  BY <1>1, <1>2, LoadFacts
<1> HIDE DEF again
<1>4. Sanitised(t, "pointer") = t /\ Report(t, "pointer").adjustments = {}
  BY SanitisedOnce
<1>5. (again.report.core.low_contrast = {}) = IsClean(again.report)
  <2>1. PICK low : Report(t, "pointer") = [adjustments |-> {}, low_contrast |-> low]
    BY <1>4 DEF Report
  <2>2. again.report = [file |-> NoError, colours |-> {}, core |-> [adjustments |-> {}, low_contrast |-> low]]
    BY <1>3, <2>1
  <2>3. again.report.core.low_contrast = low
    BY <2>2
  <2>4. IsClean(again.report) <=> low = {}
    <3>1. CASE low = {}
      BY <2>2, <3>1 DEF IsClean
    <3>2. CASE low # {}
      BY <2>3, <3>2 DEF IsClean
    <3> QED BY <3>1, <3>2
  <2>5. IsClean(again.report) \in BOOLEAN
    BY DEF IsClean
  <2> QED BY <2>3, <2>4, <2>5
<1> QED BY <1>3, <1>4, <1>5 DEF again

\* Nothing of a file is left out of the theme without a word in the report.
LEMMA LoadedIsReported ==
  ASSUME NEW file, IsThemeFile(file)
  PROVE  LET t == LoadTheme(file, "pointer").theme
             r == LoadTheme(file, "pointer").report
             sizes == Wanted(file, "metrics", BuiltinMetrics)
             fonts == Wanted(file, "fonts", BuiltinFonts)
             written == IF Usable(file) THEN DOMAIN file.palette ELSE {}
         IN  /\ (r.file # NoError) = (file.kind \notin {"missing", "text"}
                                      \/ (file.kind = "text" /\ file.version > SchemaVersion))
             /\ \A f \in DOMAIN sizes : (t.metrics[f] # sizes[f]) = (f \in r.core.adjustments)
             /\ \A f \in DOMAIN fonts : (t.fonts[f] # fonts[f]) = (f \in r.core.adjustments)
             /\ \A c \in PaletteRoles :
                  IF c \in written \ r.colours
                  THEN t.palette[c] = ParseHex(file.palette[c])
                  ELSE t.palette[c] = BuiltinPalette[c]
             /\ r.colours \subseteq written
             /\ file.kind = "missing" => t = Builtin /\ r.file = NoError
<1> DEFINE t == LoadTheme(file, "pointer").theme
<1> DEFINE r == LoadTheme(file, "pointer").report
<1> DEFINE w == Written(file)
<1> DEFINE sizes == Wanted(file, "metrics", BuiltinMetrics)
<1> DEFINE fonts == Wanted(file, "fonts", BuiltinFonts)
<1> DEFINE written == IF Usable(file) THEN DOMAIN file.palette ELSE {}
<1>1. /\ t = Sanitised(w, "pointer") /\ r.file = ErrorIn(file) /\ r.core = Report(w, "pointer")
      /\ r.colours = IF Usable(file) THEN ColourProblems(file.palette) ELSE {}
  BY LoadFacts
<1>2. IsTheme(w)
  BY WrittenIsTheme
<1>3. /\ t.palette = w.palette /\ t.metrics = SanitisedMetrics(w.metrics, "pointer")
      /\ t.fonts = SanitisedFonts(w.fonts)
  BY <1>1, <1>2, SanitisedFacts
<1>4. /\ sizes = w.metrics /\ fonts = w.fonts
      /\ DOMAIN sizes = DOMAIN BuiltinMetrics /\ DOMAIN fonts = DOMAIN BuiltinFonts
  <2>1. sizes = w.metrics /\ fonts = w.fonts
    <3>1. CASE Usable(file)
      <4>1. "metrics" \in DOMAIN file /\ "fonts" \in DOMAIN file
        BY <3>1, UsableFile
      <4>2. w.metrics = Merged(BuiltinMetrics, file.metrics) /\ w.fonts = Merged(BuiltinFonts, file.fonts)
        BY <3>1 DEF Written, IntoTheme
      <4> QED BY <3>1, <4>1, <4>2 DEF Wanted
    <3>2. CASE ~Usable(file)
      BY <3>2 DEF Wanted, Written, Builtin
    <3> QED BY <3>1, <3>2
  <2> QED BY <1>2, <2>1 DEF IsTheme
<1> HIDE DEF t, r, w, sizes, fonts
<1>5. r.core.adjustments = {f \in DOMAIN sizes : sizes[f] # t.metrics[f]}
                             \cup {f \in DOMAIN fonts : fonts[f] # t.fonts[f]}
  BY <1>1, <1>3, <1>4 DEF Report, Adjusted
<1>6. /\ \A f \in DOMAIN sizes : (t.metrics[f] # sizes[f]) = (f \in r.core.adjustments)
      /\ \A f \in DOMAIN fonts : (t.fonts[f] # fonts[f]) = (f \in r.core.adjustments)
  <2>1. DOMAIN sizes \cap DOMAIN fonts = {}
    BY <1>4, BuiltinSizes
  <2> QED BY <1>5, <2>1
<1>7. /\ \A c \in PaletteRoles :
           IF c \in written \ r.colours
           THEN t.palette[c] = ParseHex(file.palette[c])
           ELSE t.palette[c] = BuiltinPalette[c]
      /\ r.colours \subseteq written
  <2>1. CASE Usable(file)
    <3>1. r.colours = ColourProblems(file.palette) /\ written = DOMAIN file.palette
      BY <1>1, <2>1
    <3>2. w.palette = IntoPalette(file.palette)
      BY <2>1 DEF w, Written, IntoTheme
    <3>3. ColourProblems(file.palette) \subseteq DOMAIN file.palette
      BY DEF ColourProblems
    <3> QED BY <1>3, <2>1, <3>1, <3>2, <3>3, UsableFile, PaletteFacts
  <2>2. CASE ~Usable(file)
    BY <1>1, <1>3, <2>2 DEF w, Written, Builtin
  <2> QED BY <2>1, <2>2
<1>8. /\ (r.file # NoError) = (file.kind \notin {"missing", "text"}
                               \/ (file.kind = "text" /\ file.version > SchemaVersion))
  BY <1>1 DEF ErrorIn, NoError, IsThemeFile, IsUnread, File
<1>9. file.kind = "missing" => t = Builtin /\ r.file = NoError
  <2> SUFFICES ASSUME file.kind = "missing" PROVE t = Builtin /\ r.file = NoError
    OBVIOUS
  <2>1. r.file = NoError /\ ~Usable(file)
    BY <1>1 DEF ErrorIn, NoError, Usable
  <2>2. w = Builtin /\ w.metrics = BuiltinMetrics /\ w.fonts = BuiltinFonts
    BY <2>1 DEF w, Written, Builtin
  <2>3. Sanitised(w, "pointer") = w
    BY <1>2, <2>2, BuiltinSizes, SanitisedOnce
  <2> QED BY <1>1, <2>1, <2>2, <2>3
<1> QED BY <1>6, <1>7, <1>8, <1>9 DEF t, r, sizes, fonts

----------------------------------------------------------------------------
(* Settings                                                                *)

\* All of a file or the defaults, with the fields there are.
LEMMA SettingsFacts ==
  ASSUME NEW file, IsConfigFile(file)
  PROVE  LET loaded == LoadConfig(file)
         IN  /\ IsConfigFile(FromConfig(loaded.config))
             /\ loaded.problem # NoError => loaded.config = ConfigDefault
             /\ loaded.config # ConfigDefault =>
                  /\ file.kind = "text" /\ file.version <= SchemaVersion
                  /\ \A f \in DOMAIN file.fields : loaded.config[f] = file.fields[f]
             /\ LoadConfig(FromConfig(loaded.config)).config = loaded.config
<1> DEFINE c == LoadConfig(file).config
<1>1. ConfigDefault \in [DOMAIN ConfigDefault -> Int]
  BY DEF ConfigDefault
<1>2. /\ c = IF Usable(file) THEN Merged(ConfigDefault, file.fields) ELSE ConfigDefault
      /\ LoadConfig(file).problem = ErrorIn(file)
  BY DEF LoadConfig
<1>3. Usable(file) => /\ file.kind = "text" /\ file.version <= SchemaVersion
                      /\ Reads(file.fields, ConfigDefault, Int)
  BY DEF Usable, ErrorIn, IsConfigFile, IsUnread, File, NoError, SchemaVersion
<1> HIDE DEF c
<1>4. c \in [DOMAIN ConfigDefault -> Int]
  <2>1. CASE Usable(file)
    BY <1>1, <1>2, <1>3, <2>1, MergedSizes, Zenon
  <2>2. CASE ~Usable(file)
    BY <1>1, <1>2, <2>2
  <2> QED BY <2>1, <2>2
<1>5. Usable(file) => \A f \in DOMAIN file.fields : c[f] = file.fields[f]
  BY <1>2, <1>3 DEF Reads, Merged
<1> DEFINE saved == FromConfig(c)
<1>6. saved = [kind |-> "text", version |-> 1, fields |-> c]
  BY DEF FromConfig, ConfigText, SchemaVersion
<1> HIDE DEF saved
<1>7. /\ DOMAIN saved = {"kind", "version", "fields"} /\ saved.kind = "text"
      /\ saved.version = 1 /\ saved.fields = c
  BY <1>6
<1>8. Reads(c, ConfigDefault, Int)
  BY <1>4 DEF Reads
<1>9. IsConfigFile(saved)
  BY <1>7, <1>8 DEF IsConfigFile
<1>10. Usable(saved)
  BY <1>7 DEF Usable, ErrorIn, SchemaVersion, NoError
<1>11. LoadConfig(saved).config = Merged(ConfigDefault, c)
  BY <1>7, <1>10 DEF LoadConfig
<1>12. Merged(ConfigDefault, c) = c
  BY <1>4, MergedWhole
<1>13. LoadConfig(file).problem # NoError => ~Usable(file)
  BY <1>2 DEF Usable
<1> QED BY <1>2, <1>3, <1>5, <1>9, <1>11, <1>12, <1>13 DEF c, saved

----------------------------------------------------------------------------
(* The process                                                             *)

\* The window a command opened with the file there was.
Window(file, args) ==
  LET loaded == LoadTheme(file, "pointer")
  IN  [state |-> "window", theme |-> loaded.theme, report |-> loaded.report,
       renderer |-> IF Given(args, "--renderer") /\ After(args, "--renderer") \cap CpuNames # {}
                    THEN "cpu" ELSE "gles",
       exit_after |-> IF Given(args, "--frames") THEN After(args, "--frames") ELSE {},
       idle_test  |-> IF Given(args, "--idle-test") THEN After(args, "--idle-test") ELSE {}]

\* What a command said that opened one.
AskedFor(args) == /\ ~Given(args, "--help") /\ ~Given(args, "--png") /\ Given(args, "--backend")
                  /\ ~UsageError(args) /\ ~Overflows(args)

\* What every step preserves: files are what may be read, and a window is the
\* one that was asked for, with the theme of the file it began with.
StartInv ==
  /\ IsThemeFile(theme_file) /\ IsConfigFile(config_file) /\ IsThemeFile(history.theme_file)
  /\ typed \in Seq(Options) /\ Len(typed) <= MaxOptions
  /\ \/ process = NotStarted
     \/ process.state = "exited" /\ process.code \in {0, 1, 2, 101}
     \/ process = Window(history.theme_file, Args(typed)) /\ AskedFor(Args(typed))

LEMMA WindowFields ==
  ASSUME NEW file, NEW args
  PROVE  LET w == Window(file, args)
         IN  /\ w.state = "window"
             /\ w.theme = LoadTheme(file, "pointer").theme
             /\ w.report = LoadTheme(file, "pointer").report
             /\ w.renderer = IF Given(args, "--renderer") /\ After(args, "--renderer") \cap CpuNames # {}
                             THEN "cpu" ELSE "gles"
             /\ w.exit_after = IF Given(args, "--frames") THEN After(args, "--frames") ELSE {}
             /\ w.idle_test = IF Given(args, "--idle-test") THEN After(args, "--idle-test") ELSE {}
BY DEF Window

\* A process that runs is a window.
LEMMA RunningIsWindow ==
  ASSUME StartInv, process.state = "window"
  PROVE  process = Window(history.theme_file, Args(typed)) /\ AskedFor(Args(typed))
BY DEF StartInv, NotStarted

LEMMA StartInitInv == StartupInit => StartInv
BY ReadableAssumption, OptionsAssumption DEF StartupInit, StartInv

LEMMA EditInv == StartInv /\ Edit => StartInv'
BY ReadableAssumption DEF Edit, StartInv, Window, Args

LEMMA TypeInv == StartInv /\ Type => StartInv'
<1> SUFFICES ASSUME StartInv, Type PROVE StartInv'
  OBVIOUS
<1>1. PICK o \in Options : typed' = Append(typed, o)
  BY DEF Type
<1>2. typed' \in Seq(Options) /\ Len(typed') <= MaxOptions
  BY <1>1, OptionsAssumption DEF Type, StartInv
<1> QED BY <1>2 DEF Type, StartInv

LEMMA BeginInv ==
  ASSUME StartInv, NEW p, Began(p),
         \/ p.state = "exited" /\ p.code \in {0, 1, 2, 101}
         \/ p = Window(theme_file, Args(typed)) /\ AskedFor(Args(typed))
  PROVE  StartInv'
<1>1. /\ process' = p /\ theme_file' = theme_file /\ config_file' = config_file
      /\ typed' = typed /\ history'.theme_file = theme_file
  BY DEF Began
<1>2. Window(theme_file, Args(typed)) = Window(history'.theme_file, Args(typed'))
  BY <1>1
<1> QED BY <1>1, <1>2 DEF StartInv

LEMMA PromptInv == StartInv /\ Prompt => StartInv'
<1> SUFFICES ASSUME StartInv, Prompt PROVE StartInv'
  OBVIOUS
<1>1. << >> \in Seq(Options) /\ Len(<< >>) = 0
  OBVIOUS
<1> QED BY <1>1, OptionsAssumption DEF Prompt, StartInv

LEMMA CommandInv == StartInv /\ (Help \/ Pictures \/ Refuse \/ OpenWindow \/ Diagnose) => StartInv'
<1> SUFFICES ASSUME StartInv, Help \/ Pictures \/ Refuse \/ OpenWindow \/ Diagnose PROVE StartInv'
  OBVIOUS
<1>1. \A code : Exit(code).state = "exited" /\ Exit(code).code = code
  BY DEF Exit
<1>2. CASE Help
  BY <1>1, <1>2, BeginInv DEF Help
<1>3. CASE Pictures
  <2>1. PICK code \in {0, 2} : Began(Exit(code))
    BY <1>3 DEF Pictures
  <2> QED BY <1>1, <2>1, BeginInv
<1>4. CASE Refuse
  <2>1. \/ Began([state |-> "exited", code |-> 101])
        \/ Began(Exit(2))
    BY <1>4 DEF Refuse
  <2> QED BY <1>1, <2>1, BeginInv
<1>5. CASE OpenWindow
  <2>1. AskedFor(Args(typed))
    BY <1>5 DEF OpenWindow, AskedFor
  <2>2. Opened(Args(typed)) = Window(theme_file, Args(typed))
    BY DEF Opened, Window
  <2>3. Began(Exit(1)) \/ Began(Opened(Args(typed)))
    BY <1>5 DEF OpenWindow
  <2> QED BY <1>1, <2>1, <2>2, <2>3, BeginInv
<1>6. CASE Diagnose
  <2>1. /\ Diagnostic(LoadConfig(config_file)).state = "exited"
        /\ Diagnostic(LoadConfig(config_file)).code = 0
    BY DEF Diagnostic
  <2> QED BY <1>6, <2>1, BeginInv DEF Diagnose
<1> QED BY <1>2, <1>3, <1>4, <1>5, <1>6

LEMMA CloseInv == StartInv /\ CloseShell => StartInv'
<1> SUFFICES ASSUME StartInv, CloseShell PROVE StartInv'
  OBVIOUS
<1>1. PICK code \in {0, 1} : process' = Exit(code)
  BY DEF CloseShell
<1>2. process'.state = "exited" /\ process'.code = code
  BY <1>1 DEF Exit
<1> QED BY <1>2 DEF CloseShell, StartInv

LEMMA SaveInv == StartInv /\ Save => StartInv'
<1> SUFFICES ASSUME StartInv, Save PROVE StartInv'
  OBVIOUS
<1>1. /\ typed' = typed /\ process' = process /\ history' = history
      /\ process = Window(history.theme_file, Args(typed)) /\ AskedFor(Args(typed))
  BY RunningIsWindow DEF Save
<1>2. IsThemeFile(theme_file')
  <2>1. IsTheme(process.theme)
    BY <1>1, WindowFields, LoadedIsUsable DEF StartInv
  <2>2. IsThemeFile(FromTheme(process.theme))
    BY <2>1, SavedFile
  <2> QED BY <2>2 DEF Save, StartInv
<1>3. IsConfigFile(config_file')
  <2>1. IsConfigFile(FromConfig(LoadConfig(config_file).config))
    BY SettingsFacts DEF StartInv
  <2> QED BY <2>1 DEF Save, StartInv
<1> QED BY <1>1, <1>2, <1>3 DEF StartInv

THEOREM StartSpecInv == StartupSpec => []StartInv
<1>1. StartInv /\ [StartupNext]_startupVars => StartInv'
  <2> SUFFICES ASSUME StartInv, [StartupNext]_startupVars PROVE StartInv'
    OBVIOUS
  <2>1. CASE UNCHANGED startupVars
    BY <2>1 DEF startupVars, StartInv
  <2> QED BY <2>1, EditInv, TypeInv, PromptInv, CommandInv, CloseInv, SaveInv DEF StartupNext
<1> QED BY <1>1, StartInitInv, PTL DEF StartupSpec

----------------------------------------------------------------------------
(* The theorems                                                            *)

\* gostui-config/src/theme.rs:12-16, 252-256: whatever stands in theme.toml, a
\* running theme is its file's but for what the report names, it can be used,
\* and it reads back from the file it is saved to.
THEOREM ThemesStayTrue == StartupSpec => []ThemeIsTrueToItsFile
<1>1. ASSUME StartInv PROVE ThemeIsTrueToItsFile
  <2> DEFINE file == history.theme_file
  <2>1. CASE process.state = "window"
    <3>1. /\ IsThemeFile(file) /\ process.theme = LoadTheme(file, "pointer").theme
          /\ process.report = LoadTheme(file, "pointer").report
      BY <1>1, <2>1, RunningIsWindow, WindowFields DEF StartInv
    <3>2. /\ IsTheme(process.theme)
          /\ \A f \in DOMAIN BuiltinMetrics : process.theme.metrics[f] >= MetricFloor(f, "pointer")
                                               /\ process.theme.metrics[f] >= 0
          /\ \A f \in DOMAIN BuiltinFonts : process.theme.fonts[f] >= MinFontSize
      BY <3>1, LoadedIsUsable
    <3>3. StartupTypeOK
      <4>1. process.theme.palette \in [PaletteRoles -> [1..4 -> 0..255]]
        BY <3>2 DEF IsTheme, Colours
      <4> QED BY <1>1, <2>1, <4>1 DEF StartupTypeOK, StartInv
    <3>4. NothingFailsSilently
      BY <3>1, LoadedIsReported DEF NothingFailsSilently
    <3>5. RunningThemeIsUsable
      <4>1. /\ DOMAIN process.theme.metrics = DOMAIN BuiltinMetrics
            /\ DOMAIN process.theme.fonts = DOMAIN BuiltinFonts
        BY <3>2 DEF IsTheme
      <4>2. Touchable \subseteq DOMAIN BuiltinMetrics /\ "focus_width" \in DOMAIN BuiltinMetrics
        BY DEF Touchable, BuiltinMetrics
      <4>3. \A f \in Touchable : process.theme.metrics[f] >= 16
        BY <3>2, <4>2, FloorIsNat
      <4>4. process.theme.metrics.focus_width > 0
        <5>1. process.theme.metrics["focus_width"] >= 1
          BY <3>2, <4>2, FloorIsNat
        <5>2. process.theme.metrics["focus_width"] \in Int
          BY <3>2, <4>2 DEF IsTheme
        <5> QED BY <5>1, <5>2
      <4> QED BY <3>2, <4>1, <4>3, <4>4 DEF RunningThemeIsUsable, MinFontSize
    <3>6. SavedThemeReadsBack
      BY <3>2, SavedReadsBack DEF SavedThemeReadsBack
    <3> QED BY <3>3, <3>4, <3>5, <3>6 DEF ThemeIsTrueToItsFile
  <2>2. CASE process.state # "window"
    <3>1. /\ process.state \in {"none", "exited"}
          /\ process.state = "exited" => process.code \in {0, 1, 2, 101}
      <4>1. CASE process = NotStarted
        BY <4>1 DEF NotStarted
      <4>2. CASE process.state = "exited" /\ process.code \in {0, 1, 2, 101}
        BY <4>2
      <4> QED BY <1>1, <2>2, <4>1, <4>2, WindowFields DEF StartInv
    <3>2. StartupTypeOK
      BY <1>1, <2>2, <3>1 DEF StartupTypeOK, StartInv
    <3> QED BY <2>2, <3>2 DEF ThemeIsTrueToItsFile, NothingFailsSilently, RunningThemeIsUsable,
                              SavedThemeReadsBack
  <2> QED BY <2>1, <2>2
<1> QED BY <1>1, StartSpecInv, PTL

\* main.rs:30-104 and gostui-config/src/lib.rs:9-12: whatever is typed, a
\* window is the one that was asked for, and settings are all of a file or the
\* defaults.
THEOREM StartsAreAsAsked == StartupSpec => []StartIsWhatWasAsked
<1>1. ASSUME StartInv PROVE StartIsWhatWasAsked
  <2>1. WindowIsWhatWasAsked
    <3> SUFFICES ASSUME process.state = "window" PROVE WindowIsWhatWasAsked
      BY DEF WindowIsWhatWasAsked
    <3> DEFINE args == Args(typed)
    <3>1. /\ AskedFor(args)
          /\ process.renderer = IF Given(args, "--renderer") /\ After(args, "--renderer") \cap CpuNames # {}
                                THEN "cpu" ELSE "gles"
          /\ process.exit_after = IF Given(args, "--frames") THEN After(args, "--frames") ELSE {}
          /\ process.idle_test = IF Given(args, "--idle-test") THEN After(args, "--idle-test") ELSE {}
      BY <1>1, RunningIsWindow, WindowFields
    <3>2. \A flag : After(args, flag) = {} \/ \E x : After(args, flag) = {x}
      BY DEF After
    <3> HIDE DEF args
    <3>3. /\ ~Given(args, "--help") /\ ~Given(args, "--png")
          /\ ~BadFrames(args) /\ ~BadRenderer(args) /\ ~BadIdle(args) /\ ~BadPair(args)
      BY <3>1 DEF AskedFor, UsageError
    <3>4. Given(args, "--frames") => After(args, "--frames") # {} /\ After(args, "--frames") \subseteq Counts
      BY <3>2, <3>3 DEF BadFrames
    <3>5. Given(args, "--idle-test") => /\ After(args, "--idle-test") # {}
                                        /\ After(args, "--idle-test") \subseteq Seconds \ {"0"}
      BY <3>2, <3>3 DEF BadIdle
    <3>6. Given(args, "--renderer") =>
            After(args, "--renderer") \subseteq
              (IF process.renderer = "cpu" THEN CpuNames ELSE GlesNames)
      BY <3>1, <3>2, <3>3 DEF BadRenderer
    <3>7. /\ process.exit_after = {} \/ process.idle_test = {}
          /\ process.exit_after \subseteq Counts /\ process.idle_test \subseteq Seconds \ {"0"}
      BY <3>1, <3>3, <3>4, <3>5 DEF BadPair
    <3>8. /\ Given(args, "--frames") = (process.exit_after # {})
          /\ Given(args, "--idle-test") = (process.idle_test # {})
      <4>1. Given(args, "--frames") \in BOOLEAN /\ Given(args, "--idle-test") \in BOOLEAN
        BY DEF Given
      <4> QED BY <3>1, <3>4, <3>5, <4>1
    <3> QED BY <3>3, <3>6, <3>7, <3>8, Zenon DEF WindowIsWhatWasAsked, args
  <2>2. SettingsAreWholeOrDefault
    BY <1>1, SettingsFacts DEF SettingsAreWholeOrDefault, StartInv
  <2> QED BY <2>1, <2>2 DEF StartIsWhatWasAsked
<1> QED BY <1>1, StartSpecInv, PTL


----------------------------------------------------------------------------
(* Sequences, one element after the other                                  *)

\* Induction over the sequences of a set, with the property given as a set.
LEMMA AppendInduction ==
  ASSUME NEW X, NEW P, << >> \in P, \A s \in Seq(X), x \in X : s \in P => Append(s, x) \in P
  PROVE  \A s \in Seq(X) : s \in P
<1> DEFINE T == {n \in Nat : \A s \in Seq(X) : Len(s) = n => s \in P}
<1>1. 0 \in T
  <2>1. \A s \in Seq(X) : Len(s) = 0 => s = << >>
    OBVIOUS
  <2> QED BY <2>1
<1>2. ASSUME NEW n \in Nat, n \in T PROVE n + 1 \in T
  <2> SUFFICES ASSUME NEW s \in Seq(X), Len(s) = n + 1 PROVE s \in P
    OBVIOUS
  <2>1. s # << >>
    OBVIOUS
  <2>2. PICK t \in Seq(X), x \in X : s = Append(t, x)
    BY <2>1, SequenceEmptyOrAppend
  <2>3. Len(t) = n
    BY <2>2
  <2>4. t \in P
    BY <1>2, <2>3
  <2> QED BY <2>2, <2>4
<1>3. Nat \subseteq T
  <2> HIDE DEF T
  <2> QED BY <1>1, <1>2, SetInduction
<1> SUFFICES ASSUME NEW s \in Seq(X) PROVE s \in P
  OBVIOUS
<1>4. Len(s) \in T
  <2> HIDE DEF T
  <2> QED BY <1>3
<1> QED BY <1>4

\* Flattening goes from left to right.
LEMMA FlattenFacts ==
  ASSUME NEW X
  PROVE  /\ FlattenSeq(<< >>) = << >>
         /\ \A f \in Seq(Seq(X)) : FlattenSeq(f) \in Seq(X)
         /\ \A f \in Seq(Seq(X)), s \in Seq(X) : FlattenSeq(Append(f, s)) = FlattenSeq(f) \o s
<1>1. FlattenSeq(<< >>) = << >>
  BY DEF FlattenSeq
<1>2. ASSUME NEW f \in Seq(Seq(X)), FlattenSeq(f) \in Seq(X), NEW s \in Seq(X)
      PROVE  FlattenSeq(Append(f, s)) = FlattenSeq(f) \o s
  <2> DEFINE n == Len(f)
  <2> DEFINE h == Append(f, s)
  <2>1. /\ n \in Nat /\ Len(h) = n + 1 /\ n + 1 \in Nat \ {0} /\ h[n + 1] = s
        /\ \A i \in 1..n : h[i] = f[i]
    OBVIOUS
  <2> HIDE DEF n, h
  <2>2. PICK g : /\ g[1] = h[1] /\ \A i \in 1..(n + 1) : i # 1 => g[i] = g[i - 1] \o h[i]
                 /\ FlattenSeq(h) = g[n + 1]
    BY <2>1, FlattenStep
  <2>3. CASE n = 0
    <3>1. f = << >>
      BY <2>3 DEF n
    <3>2. FlattenSeq(h) = s
      BY <2>1, <2>2, <2>3
    <3>3. FlattenSeq(f) \o s = s
      BY <3>1, <1>1, ConcatEmptySeq
    <3> QED BY <3>2, <3>3 DEF h
  <2>4. CASE n # 0
    <3>1. PICK k : /\ k[1] = f[1] /\ \A i \in 1..n : i # 1 => k[i] = k[i - 1] \o f[i]
                   /\ FlattenSeq(f) = k[n]
      BY <2>1, <2>4, FlattenStep DEF n
    <3> DEFINE T == {i \in Nat : i \in 1..n => g[i] = k[i]}
    <3>2. 0 \in T
      OBVIOUS
    <3>3. ASSUME NEW i \in Nat, i \in T PROVE i + 1 \in T
      <4> SUFFICES ASSUME i + 1 \in 1..n PROVE g[i + 1] = k[i + 1]
        OBVIOUS
      <4>1. CASE i = 0
        BY <4>1, <2>1, <2>2, <3>1
      <4>2. CASE i # 0
        <5>1. i \in 1..n /\ i + 1 \in 1..(n + 1) /\ i + 1 # 1 /\ (i + 1) - 1 = i
          BY <4>2, <2>1
        <5>2. g[i] = k[i]
          BY <5>1, <3>3
        <5>3. g[i + 1] = g[i] \o h[i + 1] /\ k[i + 1] = k[i] \o f[i + 1]
          BY <5>1, <2>2, <3>1
        <5> QED BY <5>2, <5>3, <2>1
      <4> QED BY <4>1, <4>2
    <3>4. Nat \subseteq T
      <4> HIDE DEF T
      <4> QED BY <3>2, <3>3, SetInduction
    <3>5. n \in T /\ n \in 1..n
      <4> HIDE DEF T
      <4> QED BY <3>4, <2>1, <2>4
    <3>6. g[n] = k[n]
      BY <3>5
    <3>7. g[n + 1] = g[n] \o h[n + 1]
      <4>1. n + 1 \in 1..(n + 1) /\ n + 1 # 1 /\ (n + 1) - 1 = n
        BY <2>1, <2>4
      <4> QED BY <4>1, <2>2
    <3> QED BY <3>1, <3>6, <3>7, <2>1, <2>2 DEF h
  <2> QED BY <2>3, <2>4
<1> DEFINE P == {f \in Seq(Seq(X)) : FlattenSeq(f) \in Seq(X)}
<1>3. << >> \in P
  <2>1. << >> \in Seq(Seq(X)) /\ << >> \in Seq(X)
    OBVIOUS
  <2> QED BY <1>1, <2>1, Zenon
<1>4. ASSUME NEW f \in Seq(Seq(X)), NEW s \in Seq(X), f \in P PROVE Append(f, s) \in P
  <2>1. FlattenSeq(Append(f, s)) = FlattenSeq(f) \o s
    BY <1>2, <1>4
  <2>2. FlattenSeq(f) \o s \in Seq(X)
    BY <1>4
  <2>3. Append(f, s) \in Seq(Seq(X))
    OBVIOUS
  <2> QED BY <2>1, <2>2, <2>3, Zenon
<1>5. \A f \in Seq(Seq(X)) : f \in P
  <2> HIDE DEF P
  <2> QED BY <1>3, <1>4, AppendInduction
<1> QED BY <1>1, <1>2, <1>5

\* The function in ReadLines is written with exists.
LEMMA ReadLinesStep ==
  ASSUME NEW X, NEW s \in Seq(X)
  PROVE  \E f : /\ f[0] = BeforeFile
                /\ \A n \in 1..Len(s) : f[n] = ReadLine(f[n - 1], s[n])
                /\ ReadLines(s) = f[Len(s)]
<1> DEFINE Rec(f, n) == IF n = 0 THEN BeforeFile ELSE ReadLine(f[n - 1], s[n])
<1> DEFINE Runs(f, m) == f = [n \in 0..m |-> Rec(f, n)]
<1> DEFINE T == {m \in Nat : \E f : Runs(f, m)}
<1>1. 0 \in T
  <2>1. Runs([n \in 0..0 |-> BeforeFile], 0)
    OBVIOUS
  <2> QED BY <2>1
<1>2. ASSUME NEW m \in Nat, m \in T PROVE m + 1 \in T
  <2>1. PICK f : Runs(f, m)
    BY <1>2
  <2>2. DOMAIN f = 0..m /\ \A n \in 0..m : f[n] = Rec(f, n)
    BY <2>1
  <2> DEFINE e == Rec(f, m + 1)
  <2> DEFINE g == [n \in 0..(m + 1) |-> IF n = m + 1 THEN e ELSE f[n]]
  <2> HIDE DEF e
  <2>3. g[m + 1] = e /\ \A n \in 0..m : g[n] = f[n]
    OBVIOUS
  <2>4. g = [n \in 0..(m + 1) |-> g[n]]
    OBVIOUS
  <2> HIDE DEF g
  <2>5. ASSUME NEW n \in 0..(m + 1) PROVE g[n] = Rec(g, n)
    <3>1. CASE n = m + 1
      <4>1. n # 0 /\ n - 1 = m /\ m \in 0..m
        BY <3>1
      <4>2. g[n - 1] = f[n - 1]
        BY <4>1, <2>3
      <4> QED BY <3>1, <4>1, <4>2, <2>3, Zenon DEF e
    <3>2. CASE n # m + 1
      <4>1. n \in 0..m /\ (n # 0 => n - 1 \in 0..m)
        BY <3>2
      <4>2. f[n] = Rec(f, n) /\ g[n] = f[n] /\ (n # 0 => g[n - 1] = f[n - 1])
        BY <2>2, <2>3, <4>1
      <4> QED BY <4>2, Zenon
    <3> QED BY <3>1, <3>2
  <2>6. Runs(g, m + 1)
    BY <2>4, <2>5, Zenon
  <2>7. m + 1 \in Nat
    OBVIOUS
  <2> HIDE DEF Runs, g
  <2> QED BY <2>6, <2>7
<1>3. Nat \subseteq T
  <2> HIDE DEF T
  <2> QED BY <1>1, <1>2, SetInduction
<1>4. \E f : Runs(f, Len(s))
  BY <1>3, Len(s) \in Nat
<1> DEFINE h == CHOOSE f : Runs(f, Len(s))
<1>5. Runs(h, Len(s))
  BY <1>4
<1>6. ReadLines(s) = h[Len(s)]
  BY DEF ReadLines
<1>7. \A n \in 0..Len(s) : h[n] = Rec(h, n)
  BY <1>5
<1> HIDE DEF h
<1>8. 0 \in 0..Len(s) /\ \A n \in 1..Len(s) : n \in 0..Len(s) /\ n # 0
  BY Len(s) \in Nat
<1>9. h[0] = BeforeFile
  BY <1>7, <1>8, Zenon
<1>10. \A n \in 1..Len(s) : h[n] = ReadLine(h[n - 1], s[n])
  BY <1>7, <1>8, Zenon
<1> QED BY <1>6, <1>9, <1>10, Zenon

\* A file is read line by line.
LEMMA ReadLinesFacts ==
  ASSUME NEW X, NEW s \in Seq(X), NEW x \in X
  PROVE  ReadLines(<< >>) = BeforeFile /\ ReadLines(Append(s, x)) = ReadLine(ReadLines(s), x)
<1>1. ReadLines(<< >>) = BeforeFile
  <2>1. << >> \in Seq(X) /\ Len(<< >>) = 0
    OBVIOUS
  <2>2. \E f : f[0] = BeforeFile /\ ReadLines(<< >>) = f[Len(<< >>)]
    BY <2>1, ReadLinesStep, Zenon
  <2> QED BY <2>1, <2>2, Zenon
<1> DEFINE t == Append(s, x)
<1> DEFINE m == Len(s)
<1>2. /\ t \in Seq(X) /\ m \in Nat /\ Len(t) = m + 1 /\ t[m + 1] = x
      /\ \A n \in 1..m : t[n] = s[n]
  OBVIOUS
<1> HIDE DEF t
<1>3. PICK f : /\ f[0] = BeforeFile
               /\ \A n \in 1..Len(s) : f[n] = ReadLine(f[n - 1], s[n])
               /\ ReadLines(s) = f[Len(s)]
  BY ReadLinesStep
<1>4. PICK g : /\ g[0] = BeforeFile
               /\ \A n \in 1..Len(t) : g[n] = ReadLine(g[n - 1], t[n])
               /\ ReadLines(t) = g[Len(t)]
  BY <1>2, ReadLinesStep
<1> HIDE DEF m
<1> DEFINE T == {n \in Nat : n \in 0..m => g[n] = f[n]}
<1>5. 0 \in T
  BY <1>3, <1>4
<1>6. ASSUME NEW n \in Nat, n \in T PROVE n + 1 \in T
  <2> SUFFICES ASSUME n + 1 \in 0..m PROVE g[n + 1] = f[n + 1]
    OBVIOUS
  <2> DEFINE k == n + 1
  <2>1. n \in 0..m /\ k \in 1..Len(s) /\ k \in 1..Len(t) /\ k - 1 = n
    BY <1>2 DEF m
  <2>2. g[n] = f[n]
    BY <2>1, <1>6
  <2>3. t[k] = s[k]
    BY <2>1, <1>2 DEF m
  <2> HIDE DEF k
  <2>4. g[k] = ReadLine(g[k - 1], t[k]) /\ f[k] = ReadLine(f[k - 1], s[k])
    BY <2>1, <1>3, <1>4, Zenon
  <2>5. g[k] = f[k]
    BY <2>1, <2>2, <2>3, <2>4, Zenon
  <2> QED BY <2>5 DEF k
<1>7. m \in T
  <2>1. Nat \subseteq T
    <3> HIDE DEF T
    <3> QED BY <1>5, <1>6, SetInduction
  <2> HIDE DEF T
  <2> QED BY <2>1, <1>2
<1>8. g[m] = f[m]
  BY <1>7, <1>2
<1> DEFINE k == m + 1
<1>9. k \in 1..Len(t) /\ k - 1 = m /\ Len(t) = k
  BY <1>2
<1>10. t[k] = x
  BY <1>2
<1> HIDE DEF k
<1>11. g[k] = ReadLine(g[k - 1], t[k])
  BY <1>4, <1>9, Zenon
<1>12. ReadLines(t) = ReadLine(ReadLines(s), x)
  BY <1>3, <1>4, <1>8, <1>9, <1>10, <1>11, Zenon DEF m
<1> QED BY <1>1, <1>12 DEF t

\* The function in ReadAll is written with exists.
LEMMA ReadAllStep ==
  ASSUME NEW X, NEW s \in Seq(X), NEW B, NEW before \in B
  PROVE  \E f : /\ f[0] = before
                /\ \A n \in 1..Len(s) : f[n] = Read(f[n - 1], s[n])
                /\ ReadAll(before, s) = f[Len(s)]
<1> DEFINE Rec(f, n) == IF n = 0 THEN before ELSE Read(f[n - 1], s[n])
<1> DEFINE Runs(f, m) == f = [n \in 0..m |-> Rec(f, n)]
<1> DEFINE T == {m \in Nat : \E f : Runs(f, m)}
<1>1. 0 \in T
  <2>1. Runs([n \in 0..0 |-> before], 0)
    OBVIOUS
  <2> QED BY <2>1
<1>2. ASSUME NEW m \in Nat, m \in T PROVE m + 1 \in T
  <2>1. PICK f : Runs(f, m)
    BY <1>2
  <2>2. DOMAIN f = 0..m /\ \A n \in 0..m : f[n] = Rec(f, n)
    BY <2>1
  <2> DEFINE e == Rec(f, m + 1)
  <2> DEFINE g == [n \in 0..(m + 1) |-> IF n = m + 1 THEN e ELSE f[n]]
  <2> HIDE DEF e
  <2>3. g[m + 1] = e /\ \A n \in 0..m : g[n] = f[n]
    OBVIOUS
  <2>4. g = [n \in 0..(m + 1) |-> g[n]]
    OBVIOUS
  <2> HIDE DEF g
  <2>5. ASSUME NEW n \in 0..(m + 1) PROVE g[n] = Rec(g, n)
    <3>1. CASE n = m + 1
      <4>1. n # 0 /\ n - 1 = m /\ m \in 0..m
        BY <3>1
      <4>2. g[n - 1] = f[n - 1]
        BY <4>1, <2>3
      <4> QED BY <3>1, <4>1, <4>2, <2>3, Zenon DEF e
    <3>2. CASE n # m + 1
      <4>1. n \in 0..m /\ (n # 0 => n - 1 \in 0..m)
        BY <3>2
      <4>2. f[n] = Rec(f, n) /\ g[n] = f[n] /\ (n # 0 => g[n - 1] = f[n - 1])
        BY <2>2, <2>3, <4>1
      <4> QED BY <4>2, Zenon
    <3> QED BY <3>1, <3>2
  <2>6. Runs(g, m + 1)
    BY <2>4, <2>5, Zenon
  <2>7. m + 1 \in Nat
    OBVIOUS
  <2> HIDE DEF Runs, g
  <2> QED BY <2>6, <2>7
<1>3. Nat \subseteq T
  <2> HIDE DEF T
  <2> QED BY <1>1, <1>2, SetInduction
<1>4. \E f : Runs(f, Len(s))
  BY <1>3, Len(s) \in Nat
<1> DEFINE h == CHOOSE f : Runs(f, Len(s))
<1>5. Runs(h, Len(s))
  BY <1>4
<1>6. ReadAll(before, s) = h[Len(s)]
  BY DEF ReadAll
<1>7. \A n \in 0..Len(s) : h[n] = Rec(h, n)
  BY <1>5
<1> HIDE DEF h
<1>8. 0 \in 0..Len(s) /\ \A n \in 1..Len(s) : n \in 0..Len(s) /\ n # 0
  BY Len(s) \in Nat
<1>9. h[0] = before
  BY <1>7, <1>8, Zenon
<1>10. \A n \in 1..Len(s) : h[n] = Read(h[n - 1], s[n])
  BY <1>7, <1>8, Zenon
<1> QED BY <1>6, <1>9, <1>10, Zenon

\* A command is read character by character.
LEMMA ReadAllFacts ==
  ASSUME NEW X, NEW s \in Seq(X), NEW x \in X, NEW B, NEW before \in B
  PROVE  ReadAll(before, << >>) = before /\ ReadAll(before, Append(s, x)) = Read(ReadAll(before, s), x)
<1>1. ReadAll(before, << >>) = before
  <2> DEFINE t == << >>
  <2>1. t \in Seq(X) /\ Len(t) = 0
    OBVIOUS
  <2> HIDE DEF t
  <2>2. PICK f : /\ f[0] = before
                 /\ \A n \in 1..Len(t) : f[n] = Read(f[n - 1], t[n])
                 /\ ReadAll(before, t) = f[Len(t)]
    BY <2>1, ReadAllStep
  <2> QED BY <2>1, <2>2 DEF t
<1> DEFINE t == Append(s, x)
<1> DEFINE m == Len(s)
<1>2. /\ t \in Seq(X) /\ m \in Nat /\ Len(t) = m + 1 /\ t[m + 1] = x
      /\ \A n \in 1..m : t[n] = s[n]
  OBVIOUS
<1> HIDE DEF t
<1>3. PICK f : /\ f[0] = before
               /\ \A n \in 1..Len(s) : f[n] = Read(f[n - 1], s[n])
               /\ ReadAll(before, s) = f[Len(s)]
  BY ReadAllStep
<1>4. PICK g : /\ g[0] = before
               /\ \A n \in 1..Len(t) : g[n] = Read(g[n - 1], t[n])
               /\ ReadAll(before, t) = g[Len(t)]
  BY <1>2, ReadAllStep
<1> HIDE DEF m
<1> DEFINE T == {n \in Nat : n \in 0..m => g[n] = f[n]}
<1>5. 0 \in T
  BY <1>3, <1>4
<1>6. ASSUME NEW n \in Nat, n \in T PROVE n + 1 \in T
  <2> SUFFICES ASSUME n + 1 \in 0..m PROVE g[n + 1] = f[n + 1]
    OBVIOUS
  <2> DEFINE k == n + 1
  <2>1. n \in 0..m /\ k \in 1..Len(s) /\ k \in 1..Len(t) /\ k - 1 = n
    BY <1>2 DEF m
  <2>2. g[n] = f[n]
    BY <2>1, <1>6
  <2>3. t[k] = s[k]
    BY <2>1, <1>2 DEF m
  <2> HIDE DEF k
  <2>4. g[k] = Read(g[k - 1], t[k]) /\ f[k] = Read(f[k - 1], s[k])
    BY <2>1, <1>3, <1>4, Zenon
  <2>5. g[k] = f[k]
    BY <2>1, <2>2, <2>3, <2>4, Zenon
  <2> QED BY <2>5 DEF k
<1>7. m \in T
  <2>1. Nat \subseteq T
    <3> HIDE DEF T
    <3> QED BY <1>5, <1>6, SetInduction
  <2> HIDE DEF T
  <2> QED BY <2>1, <1>2
<1>8. g[m] = f[m]
  BY <1>7, <1>2
<1> DEFINE k == m + 1
<1>9. k \in 1..Len(t) /\ k - 1 = m /\ Len(t) = k
  BY <1>2
<1>10. t[k] = x
  BY <1>2
<1> HIDE DEF k
<1>11. g[k] = Read(g[k - 1], t[k])
  BY <1>4, <1>9, Zenon
<1>12. ReadAll(before, t) = Read(ReadAll(before, s), x)
  BY <1>3, <1>4, <1>8, <1>9, <1>10, <1>11, Zenon DEF m
<1> QED BY <1>1, <1>12 DEF t

\* The function in Substituted is written with exists.
LEMMA SubstitutedStep ==
  ASSUME NEW ctx, NEW X, NEW s \in Seq(X)
  PROVE  \E f : /\ f[0] = Begin
                /\ \A n \in 1..Len(s) : f[n] = Substitute(f[n - 1], s[n], ctx)
                /\ Substituted(s, ctx) = f[Len(s)]
<1> DEFINE Rec(f, n) == IF n = 0 THEN Begin ELSE Substitute(f[n - 1], s[n], ctx)
<1> DEFINE Runs(f, m) == f = [n \in 0..m |-> Rec(f, n)]
<1> DEFINE T == {m \in Nat : \E f : Runs(f, m)}
<1>1. 0 \in T
  <2>1. Runs([n \in 0..0 |-> Begin], 0)
    OBVIOUS
  <2> QED BY <2>1
<1>2. ASSUME NEW m \in Nat, m \in T PROVE m + 1 \in T
  <2>1. PICK f : Runs(f, m)
    BY <1>2
  <2>2. DOMAIN f = 0..m /\ \A n \in 0..m : f[n] = Rec(f, n)
    BY <2>1
  <2> DEFINE e == Rec(f, m + 1)
  <2> DEFINE g == [n \in 0..(m + 1) |-> IF n = m + 1 THEN e ELSE f[n]]
  <2> HIDE DEF e
  <2>3. g[m + 1] = e /\ \A n \in 0..m : g[n] = f[n]
    OBVIOUS
  <2>4. g = [n \in 0..(m + 1) |-> g[n]]
    OBVIOUS
  <2> HIDE DEF g
  <2>5. ASSUME NEW n \in 0..(m + 1) PROVE g[n] = Rec(g, n)
    <3>1. CASE n = m + 1
      <4>1. n # 0 /\ n - 1 = m /\ m \in 0..m
        BY <3>1
      <4>2. g[n - 1] = f[n - 1]
        BY <4>1, <2>3
      <4> QED BY <3>1, <4>1, <4>2, <2>3, Zenon DEF e
    <3>2. CASE n # m + 1
      <4>1. n \in 0..m /\ (n # 0 => n - 1 \in 0..m)
        BY <3>2
      <4>2. f[n] = Rec(f, n) /\ g[n] = f[n] /\ (n # 0 => g[n - 1] = f[n - 1])
        BY <2>2, <2>3, <4>1
      <4> QED BY <4>2, Zenon
    <3> QED BY <3>1, <3>2
  <2>6. Runs(g, m + 1)
    BY <2>4, <2>5, Zenon
  <2>7. m + 1 \in Nat
    OBVIOUS
  <2> HIDE DEF Runs, g
  <2> QED BY <2>6, <2>7
<1>3. Nat \subseteq T
  <2> HIDE DEF T
  <2> QED BY <1>1, <1>2, SetInduction
<1>4. \E f : Runs(f, Len(s))
  BY <1>3, Len(s) \in Nat
<1> DEFINE h == CHOOSE f : Runs(f, Len(s))
<1>5. Runs(h, Len(s))
  BY <1>4
<1>6. Substituted(s, ctx) = h[Len(s)]
  BY DEF Substituted
<1>7. \A n \in 0..Len(s) : h[n] = Rec(h, n)
  BY <1>5
<1> HIDE DEF h
<1>8. 0 \in 0..Len(s) /\ \A n \in 1..Len(s) : n \in 0..Len(s) /\ n # 0
  BY Len(s) \in Nat
<1>9. h[0] = Begin
  BY <1>7, <1>8, Zenon
<1>10. \A n \in 1..Len(s) : h[n] = Substitute(h[n - 1], s[n], ctx)
  BY <1>7, <1>8, Zenon
<1> QED BY <1>6, <1>9, <1>10, Zenon

\* And so is an argument.
LEMMA SubstitutedFacts ==
  ASSUME NEW ctx, NEW X, NEW s \in Seq(X), NEW x \in X
  PROVE  Substituted(<< >>, ctx) = Begin /\ Substituted(Append(s, x), ctx) = Substitute(Substituted(s, ctx), x, ctx)
<1>1. Substituted(<< >>, ctx) = Begin
  <2>1. << >> \in Seq(X) /\ Len(<< >>) = 0
    OBVIOUS
  <2>2. \E f : f[0] = Begin /\ Substituted(<< >>, ctx) = f[Len(<< >>)]
    BY <2>1, SubstitutedStep, Zenon
  <2> QED BY <2>1, <2>2, Zenon
<1> DEFINE t == Append(s, x)
<1> DEFINE m == Len(s)
<1>2. /\ t \in Seq(X) /\ m \in Nat /\ Len(t) = m + 1 /\ t[m + 1] = x
      /\ \A n \in 1..m : t[n] = s[n]
  OBVIOUS
<1> HIDE DEF t
<1>3. PICK f : /\ f[0] = Begin
               /\ \A n \in 1..Len(s) : f[n] = Substitute(f[n - 1], s[n], ctx)
               /\ Substituted(s, ctx) = f[Len(s)]
  BY SubstitutedStep
<1>4. PICK g : /\ g[0] = Begin
               /\ \A n \in 1..Len(t) : g[n] = Substitute(g[n - 1], t[n], ctx)
               /\ Substituted(t, ctx) = g[Len(t)]
  BY <1>2, SubstitutedStep
<1> HIDE DEF m
<1> DEFINE T == {n \in Nat : n \in 0..m => g[n] = f[n]}
<1>5. 0 \in T
  BY <1>3, <1>4
<1>6. ASSUME NEW n \in Nat, n \in T PROVE n + 1 \in T
  <2> SUFFICES ASSUME n + 1 \in 0..m PROVE g[n + 1] = f[n + 1]
    OBVIOUS
  <2> DEFINE k == n + 1
  <2>1. n \in 0..m /\ k \in 1..Len(s) /\ k \in 1..Len(t) /\ k - 1 = n
    BY <1>2 DEF m
  <2>2. g[n] = f[n]
    BY <2>1, <1>6
  <2>3. t[k] = s[k]
    BY <2>1, <1>2 DEF m
  <2> HIDE DEF k
  <2>4. g[k] = Substitute(g[k - 1], t[k], ctx) /\ f[k] = Substitute(f[k - 1], s[k], ctx)
    BY <2>1, <1>3, <1>4, Zenon
  <2>5. g[k] = f[k]
    BY <2>1, <2>2, <2>3, <2>4, Zenon
  <2> QED BY <2>5 DEF k
<1>7. m \in T
  <2>1. Nat \subseteq T
    <3> HIDE DEF T
    <3> QED BY <1>5, <1>6, SetInduction
  <2> HIDE DEF T
  <2> QED BY <2>1, <1>2
<1>8. g[m] = f[m]
  BY <1>7, <1>2
<1> DEFINE k == m + 1
<1>9. k \in 1..Len(t) /\ k - 1 = m /\ Len(t) = k
  BY <1>2
<1>10. t[k] = x
  BY <1>2
<1> HIDE DEF k
<1>11. g[k] = Substitute(g[k - 1], t[k], ctx)
  BY <1>4, <1>9, Zenon
<1>12. Substituted(t, ctx) = Substitute(Substituted(s, ctx), x, ctx)
  BY <1>3, <1>4, <1>8, <1>9, <1>10, <1>11, Zenon DEF m
<1> QED BY <1>1, <1>12 DEF t

\* Retain, one element after the other.
LEMMA RetainAppend ==
  ASSUME NEW S, NEW X, NEW s \in Seq(X), NEW x \in X
  PROVE  /\ Retain(<< >>, S) = << >>
         /\ Retain(Append(s, x), S) = IF x \in S THEN Append(Retain(s, S), x) ELSE Retain(s, S)
<1>1. Retain(<< >>, S) = << >>
  <2> DEFINE t == << >>
  <2>1. t \in Seq(X) /\ Len(t) = 0
    OBVIOUS
  <2> HIDE DEF t
  <2>2. PICK f : /\ f[0] = << >>
                 /\ \A n \in 1..Len(t) : f[n] = IF t[n] \in S THEN Append(f[n - 1], t[n]) ELSE f[n - 1]
                 /\ Retain(t, S) = f[Len(t)]
    BY <2>1, RetainStep
  <2> QED BY <2>1, <2>2 DEF t
<1> DEFINE t == Append(s, x)
<1> DEFINE m == Len(s)
<1>2. /\ t \in Seq(X) /\ m \in Nat /\ Len(t) = m + 1 /\ t[m + 1] = x
      /\ \A n \in 1..m : t[n] = s[n]
  OBVIOUS
<1> HIDE DEF t
<1>3. PICK f : /\ f[0] = << >>
               /\ \A n \in 1..Len(s) : f[n] = IF s[n] \in S THEN Append(f[n - 1], s[n]) ELSE f[n - 1]
               /\ Retain(s, S) = f[Len(s)]
  BY RetainStep
<1>4. PICK g : /\ g[0] = << >>
               /\ \A n \in 1..Len(t) : g[n] = IF t[n] \in S THEN Append(g[n - 1], t[n]) ELSE g[n - 1]
               /\ Retain(t, S) = g[Len(t)]
  BY <1>2, RetainStep
<1> HIDE DEF m
<1> DEFINE T == {n \in Nat : n \in 0..m => g[n] = f[n]}
<1>5. 0 \in T
  BY <1>3, <1>4
<1>6. ASSUME NEW n \in Nat, n \in T PROVE n + 1 \in T
  <2> SUFFICES ASSUME n + 1 \in 0..m PROVE g[n + 1] = f[n + 1]
    OBVIOUS
  <2> DEFINE k == n + 1
  <2>1. n \in 0..m /\ k \in 1..Len(s) /\ k \in 1..Len(t) /\ k - 1 = n
    BY <1>2 DEF m
  <2>2. g[n] = f[n]
    BY <2>1, <1>6
  <2>3. t[k] = s[k]
    BY <2>1, <1>2 DEF m
  <2> HIDE DEF k
  <2>4. /\ g[k] = IF t[k] \in S THEN Append(g[k - 1], t[k]) ELSE g[k - 1]
       /\ f[k] = IF s[k] \in S THEN Append(f[k - 1], s[k]) ELSE f[k - 1]
    BY <2>1, <1>3, <1>4, Zenon
  <2>5. g[k] = f[k]
    BY <2>1, <2>2, <2>3, <2>4
  <2> QED BY <2>5 DEF k
<1>7. m \in T
  <2>1. Nat \subseteq T
    <3> HIDE DEF T
    <3> QED BY <1>5, <1>6, SetInduction
  <2> HIDE DEF T
  <2> QED BY <2>1, <1>2
<1>8. g[m] = f[m]
  BY <1>7, <1>2
<1> DEFINE k == m + 1
<1>9. k \in 1..Len(t) /\ k - 1 = m /\ Len(t) = k
  BY <1>2
<1>10. t[k] = x
  BY <1>2
<1> HIDE DEF k
<1>11. g[k] = IF t[k] \in S THEN Append(g[k - 1], t[k]) ELSE g[k - 1]
  BY <1>4, <1>9, Zenon
<1>12. Retain(t, S) = IF x \in S THEN Append(Retain(s, S), x) ELSE Retain(s, S)
  BY <1>3, <1>4, <1>8, <1>9, <1>10, <1>11, Zenon DEF m
<1> QED BY <1>1, <1>12 DEF t

----------------------------------------------------------------------------
(* Reading a desktop file                                                  *)

LEMMA Greatest ==
  ASSUME NEW n \in Nat, NEW S, S \subseteq 1..n, S # {}
  PROVE  Max(S) \in S /\ \A i \in S : i <= Max(S)
<1> DEFINE T == {n - i : i \in S}
<1>1. T \subseteq Nat /\ T # {}
  <2>1. \A i \in S : i \in 1..n /\ n - i \in Nat
    OBVIOUS
  <2>2. PICK i \in S : TRUE
    OBVIOUS
  <2>3. n - i \in T
    OBVIOUS
  <2> QED BY <2>1, <2>3
<1>2. PICK k \in T : \A j \in T : k <= j
  BY <1>1, SmallestNat
<1>3. PICK m \in S : k = n - m
  BY <1>2
<1>4. \A i \in S : m >= i
  <2> SUFFICES ASSUME NEW i \in S PROVE m >= i
    OBVIOUS
  <2>1. n - i \in T
    OBVIOUS
  <2>2. n - m <= n - i
    BY <2>1, <1>2, <1>3
  <2> QED BY <2>2
<1>5. Max(S) \in S /\ \A i \in S : Max(S) >= i
  BY <1>4 DEF Max
<1> QED BY <1>5

LEMMA BadLinesRead ==
  ASSUME NEW s \in Seq(FileLines), NEW S,
         \A line \in Elements(s) : line \notin S => line.kind \in {"comment", "malformed"}
  PROVE  ReadLines(Retain(s, S)) = ReadLines(s)
<1> DEFINE E == Elements(s)
<1>1. s \in Seq(E) /\ E \subseteq FileLines
  <2>1. Len(s) \in Nat /\ s \in [1..Len(s) -> FileLines]
    OBVIOUS
  <2>2. \A i \in 1..Len(s) : s[i] \in E
    BY DEF Elements
  <2>3. E \subseteq FileLines
    BY <2>1 DEF Elements
  <2> HIDE DEF E
  <2>4. s \in [1..Len(s) -> E]
    BY <2>1, <2>2
  <2> QED BY <2>1, <2>3, <2>4, SeqDef
<1> DEFINE P == {t \in Seq(E) : ReadLines(Retain(t, S)) = ReadLines(t)}
<1> HIDE DEF E
<1>2. << >> \in P
  <2>1. << >> \in Seq(E) /\ \E x \in FileLines \cup {0} : TRUE
    OBVIOUS
  <2>2. << >> \in Seq({0}) /\ 0 \in {0}
    OBVIOUS
  <2>3. Retain(<< >>, S) = << >>
    BY <2>2, RetainAppend
  <2> QED BY <2>1, <2>3
<1>3. ASSUME NEW t \in Seq(E), NEW x \in E, t \in P PROVE Append(t, x) \in P
  <2>1. Append(t, x) \in Seq(E) /\ ReadLines(Retain(t, S)) = ReadLines(t)
    BY <1>3
  <2>2. ReadLines(Append(t, x)) = ReadLine(ReadLines(t), x)
    BY ReadLinesFacts
  <2>3. CASE x \in S
    <3>1. Retain(Append(t, x), S) = Append(Retain(t, S), x)
      BY <2>3, RetainAppend
    <3>2. Retain(t, S) \in Seq(E)
      BY RetainFacts
    <3>3. ReadLines(Append(Retain(t, S), x)) = ReadLine(ReadLines(Retain(t, S)), x)
      BY <3>2, ReadLinesFacts
    <3> QED BY <2>1, <2>2, <3>1, <3>3
  <2>4. CASE x \notin S
    <3>1. Retain(Append(t, x), S) = Retain(t, S)
      BY <2>4, RetainAppend
    <3>2. x.kind \in {"comment", "malformed"}
      BY <2>4 DEF E
    <3>3. ReadLine(ReadLines(t), x) = ReadLines(t)
      BY <3>2 DEF ReadLine, Skipped
    <3> QED BY <2>1, <2>2, <3>1, <3>3
  <2> QED BY <2>3, <2>4
<1>4. \A t \in Seq(E) : t \in P
  <2> HIDE DEF P
  <2> QED BY <1>2, <1>3, AppendInduction
<1> QED BY <1>1, <1>4

\* The entry's own group grows with the file until the next group begins.
LEMMA OwnFacts ==
  /\ Own(<< >>) = {}
  /\ \A s \in Seq(FileLines), x \in FileLines :
       /\ Own(s) \subseteq 1..Len(s)
       /\ Own(Append(s, x)) = Own(s) \cup
            {i \in {Len(s) + 1} : \/ Len(s) \in Own(s) /\ x.kind # "group"
                                  \/ IsHeader(x) /\ \A j \in 1..Len(s) : ~IsHeader(s[j])}
<1>1. Own(<< >>) = {}
  BY DEF Own
<1> SUFFICES ASSUME NEW s \in Seq(FileLines), NEW x \in FileLines
             PROVE  /\ Own(s) \subseteq 1..Len(s)
                    /\ Own(Append(s, x)) = Own(s) \cup
                         {i \in {Len(s) + 1} : \/ Len(s) \in Own(s) /\ x.kind # "group"
                                               \/ IsHeader(x) /\ \A j \in 1..Len(s) : ~IsHeader(s[j])}
  BY <1>1
<1> DEFINE n == Len(s)
<1> DEFINE t == Append(s, x)
<1> DEFINE In(l, i) == \E j \in 1..i : /\ IsHeader(l[j]) /\ \A k \in 1..(j - 1) : ~IsHeader(l[k])
                                       /\ \A k \in (j + 1)..i : l[k].kind # "group"
<1>2. /\ n \in Nat /\ DOMAIN s = 1..n /\ DOMAIN t = 1..(n + 1) /\ t[n + 1] = x
      /\ \A i \in 1..n : t[i] = s[i]
  OBVIOUS
<1>3. Own(s) = {i \in 1..n : In(s, i)} /\ Own(t) = {i \in 1..(n + 1) : In(t, i)}
  BY <1>2 DEF Own
<1> HIDE DEF n, t
<1>4. ASSUME NEW i \in 1..n PROVE In(t, i) <=> In(s, i)
  <2>1. \A k \in 1..i : t[k] = s[k]
    BY <1>2
  <2>2. \A j \in 1..i : /\ j \in 1..i /\ \A k \in 1..(j - 1) : k \in 1..i
                        /\ \A k \in (j + 1)..i : k \in 1..i
    OBVIOUS
  <2>3. ASSUME NEW j \in 1..i
        PROVE  /\ IsHeader(t[j]) <=> IsHeader(s[j])
               /\ (\A k \in 1..(j - 1) : ~IsHeader(t[k])) <=> \A k \in 1..(j - 1) : ~IsHeader(s[k])
               /\ (\A k \in (j + 1)..i : t[k].kind # "group") <=> \A k \in (j + 1)..i : s[k].kind # "group"
    <3>1. IsHeader(t[j]) <=> IsHeader(s[j])
      BY <2>1
    <3>2. (\A k \in 1..(j - 1) : ~IsHeader(t[k])) <=> \A k \in 1..(j - 1) : ~IsHeader(s[k])
      BY <2>1, <2>2
    <3>3. (\A k \in (j + 1)..i : t[k].kind # "group") <=> \A k \in (j + 1)..i : s[k].kind # "group"
      BY <2>1, <2>2
    <3> QED BY <3>1, <3>2, <3>3
  <2> QED BY <2>3, Zenon
<1>5. In(t, n + 1) <=> \/ n \in Own(s) /\ x.kind # "group"
                       \/ IsHeader(x) /\ \A j \in 1..n : ~IsHeader(s[j])
  <2>1. ASSUME In(t, n + 1)
        PROVE  \/ n \in Own(s) /\ x.kind # "group"
               \/ IsHeader(x) /\ \A j \in 1..n : ~IsHeader(s[j])
    <3>1. PICK j \in 1..(n + 1) : /\ IsHeader(t[j]) /\ \A k \in 1..(j - 1) : ~IsHeader(t[k])
                                  /\ \A k \in (j + 1)..(n + 1) : t[k].kind # "group"
      BY <2>1
    <3>2. CASE j = n + 1
      BY <3>1, <3>2, <1>2
    <3>3. CASE j # n + 1
      <4>1. j \in 1..n /\ n \in 1..n /\ n + 1 \in (j + 1)..(n + 1)
        BY <3>3, <1>2
      <4>2. x.kind # "group"
        BY <3>1, <4>1, <1>2
      <4>3. In(t, n)
        <5>1. \A k \in (j + 1)..n : k \in (j + 1)..(n + 1)
          BY <1>2
        <5> QED BY <5>1, <4>1, <3>1
      <4>4. In(s, n)
        BY <4>1, <4>3, <1>4
      <4> QED BY <4>1, <4>2, <4>4, <1>3
    <3> QED BY <3>2, <3>3
  <2>2. ASSUME n \in Own(s), x.kind # "group" PROVE In(t, n + 1)
    <3>1. n \in 1..n /\ In(t, n)
      BY <2>2, <1>3, <1>4
    <3>2. PICK j \in 1..n : /\ IsHeader(t[j]) /\ \A k \in 1..(j - 1) : ~IsHeader(t[k])
                            /\ \A k \in (j + 1)..n : t[k].kind # "group"
      BY <3>1
    <3>3. \A k \in (j + 1)..(n + 1) : k \in (j + 1)..n \/ k = n + 1
      BY <1>2
    <3>4. j \in 1..(n + 1) /\ \A k \in (j + 1)..(n + 1) : t[k].kind # "group"
      BY <3>2, <3>3, <2>2, <1>2
    <3> QED BY <3>2, <3>4
  <2>3. ASSUME IsHeader(x), \A j \in 1..n : ~IsHeader(s[j]) PROVE In(t, n + 1)
    <3>1. n + 1 \in 1..(n + 1) /\ (n + 1) - 1 = n /\ ((n + 1) + 1)..(n + 1) = {}
      BY <1>2
    <3>2. IsHeader(t[n + 1]) /\ \A k \in 1..n : ~IsHeader(t[k])
      BY <2>3, <1>2
    <3> QED BY <3>1, <3>2
  <2> QED BY <2>1, <2>2, <2>3
<1> HIDE DEF In
<1>6. 1..(n + 1) = 1..n \cup {n + 1} /\ n + 1 \notin 1..n
  BY <1>2
<1>7. Own(t) = Own(s) \cup {i \in {n + 1} : In(t, i)}
  BY <1>3, <1>4, <1>6
<1>8. {i \in {n + 1} : In(t, i)} =
        {i \in {n + 1} : \/ n \in Own(s) /\ x.kind # "group"
                         \/ IsHeader(x) /\ \A j \in 1..n : ~IsHeader(s[j])}
  BY <1>5
<1> QED BY <1>3, <1>7, <1>8 DEF n, t

\* What the entry's own group says of a key, and whether there is one.
Sayings(s, k) == {i \in Own(s) : s[i].kind = "key" /\ s[i].key = k}
Headed(s) == \E j \in 1..Len(s) : IsHeader(s[j])

\* A file read is what its own group says, and last says, of every key.
ReadAsSaid(s) ==
  LET st == ReadLines(s)
  IN  /\ st = [in_group |-> st.in_group, seen_group |-> st.seen_group, keys |-> st.keys]
      /\ st.in_group \in BOOLEAN /\ st.seen_group \in BOOLEAN
      /\ st.in_group <=> Len(s) \in Own(s)
      /\ st.seen_group <=> Headed(s)
      /\ st.keys = [k \in DOMAIN st.keys |-> st.keys[k]]
      /\ \A k : k \in DOMAIN st.keys <=> Sayings(s, k) # {}
      /\ \A k \in DOMAIN st.keys : st.keys[k] = s[Max(Sayings(s, k))].value

LEMMA SayingsGrow ==
  ASSUME NEW s \in Seq(FileLines), NEW x \in FileLines, NEW k
  PROVE  /\ Sayings(s, k) \subseteq 1..Len(s)
         /\ Sayings(Append(s, x), k) = Sayings(s, k) \cup
              {i \in {Len(s) + 1} : Len(s) \in Own(s) /\ x.kind = "key" /\ x.key = k}
<1> DEFINE n == Len(s)
<1> DEFINE t == Append(s, x)
<1>1. n \in Nat /\ t[n + 1] = x /\ \A i \in 1..n : t[i] = s[i]
  OBVIOUS
<1>2. /\ Own(s) \subseteq 1..n
      /\ Own(t) = Own(s) \cup {i \in {n + 1} : \/ n \in Own(s) /\ x.kind # "group"
                                               \/ IsHeader(x) /\ \A j \in 1..n : ~IsHeader(s[j])}
  BY OwnFacts
<1> HIDE DEF n, t
<1>3. Sayings(s, k) \subseteq 1..n
  BY <1>2 DEF Sayings
<1>4. \A i \in Own(s) : t[i] = s[i]
  BY <1>1, <1>2
<1>5. x.kind = "key" => ~IsHeader(x) /\ x.kind # "group"
  BY DEF IsHeader
<1>6. ASSUME NEW i
      PROVE  i \in Sayings(t, k) <=>
               i \in Sayings(s, k) \cup {j \in {n + 1} : n \in Own(s) /\ x.kind = "key" /\ x.key = k}
  <2>1. i \in Own(s) => (i \in Sayings(t, k) <=> i \in Sayings(s, k)) /\ i # n + 1
    BY <1>1, <1>2, <1>4 DEF Sayings
  <2>2. i \notin Own(s) /\ i # n + 1 => i \notin Own(t) /\ i \notin Sayings(s, k) /\ i \notin Sayings(t, k)
    BY <1>2 DEF Sayings
  <2>3. n + 1 \notin Own(s) /\ n + 1 \notin Sayings(s, k)
    BY <1>1, <1>2, <1>3
  <2>4. n + 1 \in Sayings(t, k) <=> n \in Own(s) /\ x.kind = "key" /\ x.key = k
    BY <1>1, <1>2, <1>5, <2>3 DEF Sayings
  <2> QED BY <2>1, <2>2, <2>3, <2>4
<1>7. Sayings(t, k) = Sayings(s, k) \cup {j \in {n + 1} : n \in Own(s) /\ x.kind = "key" /\ x.key = k}
  BY <1>6, Zenon
<1> QED BY <1>3, <1>7 DEF n, t

\* The keys there are and the last word on each.
KeysAsSaid(s) ==
  /\ \A k : k \in DOMAIN ReadLines(s).keys <=> Sayings(s, k) # {}
  /\ \A k \in DOMAIN ReadLines(s).keys : ReadLines(s).keys[k] = s[Max(Sayings(s, k))].value

\* A line that says nothing of a key in the entry's own group.
LEMMA KeysStay ==
  ASSUME NEW s \in Seq(FileLines), NEW x \in FileLines, ReadAsSaid(s), NEW t,
         t = Append(s, x), ~(Len(s) \in Own(s) /\ x.kind = "key"),
         ReadLines(t).keys = ReadLines(s).keys
  PROVE  KeysAsSaid(t)
<1> DEFINE keys == ReadLines(s).keys
<1>1. \A k : Sayings(t, k) = Sayings(s, k) /\ Sayings(s, k) \subseteq 1..Len(s)
  <2> TAKE k
  <2>1. {i \in {Len(s) + 1} : Len(s) \in Own(s) /\ x.kind = "key" /\ x.key = k} = {}
    OBVIOUS
  <2>2. /\ Sayings(s, k) \subseteq 1..Len(s)
        /\ Sayings(t, k) = Sayings(s, k) \cup
             {i \in {Len(s) + 1} : Len(s) \in Own(s) /\ x.kind = "key" /\ x.key = k}
    BY SayingsGrow
  <2> QED BY <2>1, <2>2
<1>2. /\ \A k : k \in DOMAIN keys <=> Sayings(s, k) # {}
      /\ \A k \in DOMAIN keys : keys[k] = s[Max(Sayings(s, k))].value
  BY DEF ReadAsSaid
<1>3. \A k \in DOMAIN keys : keys[k] = t[Max(Sayings(t, k))].value
  <2> TAKE k \in DOMAIN keys
  <2>1. Len(s) \in Nat
    OBVIOUS
  <2>2. Sayings(s, k) # {} /\ Sayings(s, k) \subseteq 1..Len(s)
    BY <1>1, <1>2
  <2>3. Max(Sayings(s, k)) \in Sayings(s, k)
    BY <2>1, <2>2, Greatest
  <2>4. Max(Sayings(s, k)) \in 1..Len(s) /\ Max(Sayings(t, k)) = Max(Sayings(s, k))
    BY <2>2, <2>3, <1>1
  <2>5. t[Max(Sayings(s, k))] = s[Max(Sayings(s, k))]
    BY <2>4
  <2> QED BY <2>4, <2>5, <1>2
<1> QED BY <1>1, <1>2, <1>3 DEF KeysAsSaid

LEMMA FileReads ==
  \A s \in Seq(FileLines) : ReadAsSaid(s)
<1> DEFINE P == {s \in Seq(FileLines) : ReadAsSaid(s)}
<1>1. << >> \in P
  <2>1. ReadLines(<< >>) = BeforeFile
    <3>1. << >> \in Seq({0}) /\ 0 \in {0}
      OBVIOUS
    <3> QED BY <3>1, ReadLinesFacts
  <2>2. Own(<< >>) = {}
    BY OwnFacts
  <2>3. \A k : Sayings(<< >>, k) = {}
    BY <2>2 DEF Sayings
  <2>4. ~Headed(<< >>)
    BY DEF Headed
  <2> DEFINE st == ReadLines(<< >>)
  <2>5. /\ st = [in_group |-> st.in_group, seen_group |-> st.seen_group, keys |-> st.keys]
        /\ st.in_group = FALSE /\ st.seen_group = FALSE /\ st.keys = << >>
    BY <2>1 DEF BeforeFile
  <2> HIDE DEF st
  <2>6. DOMAIN st.keys = {} /\ st.keys = [k \in DOMAIN st.keys |-> st.keys[k]]
    <3>1. DOMAIN << >> = {} /\ << >> = [k \in DOMAIN << >> |-> << >>[k]]
      OBVIOUS
    <3> QED BY <3>1, <2>5
  <2>7. ReadAsSaid(<< >>)
    BY <2>2, <2>3, <2>4, <2>5, <2>6 DEF ReadAsSaid, st
  <2> QED BY <2>7
<1>2. ASSUME NEW s \in Seq(FileLines), NEW x \in FileLines, s \in P PROVE Append(s, x) \in P
  <2> DEFINE n == Len(s)
  <2> DEFINE t == Append(s, x)
  <2> DEFINE st == ReadLines(s)
  <2>1. /\ n \in Nat /\ t \in Seq(FileLines) /\ Len(t) = n + 1 /\ t[n + 1] = x
        /\ \A i \in 1..n : t[i] = s[i]
    OBVIOUS
  <2>2. ReadLines(t) = ReadLine(st, x)
    BY ReadLinesFacts
  <2>3. ReadAsSaid(s)
    BY <1>2
  <2>4. /\ Own(s) \subseteq 1..n
        /\ Own(t) = Own(s) \cup {i \in {n + 1} : \/ n \in Own(s) /\ x.kind # "group"
                                                 \/ IsHeader(x) /\ \A j \in 1..n : ~IsHeader(s[j])}
    BY OwnFacts
  <2>5. /\ st = [in_group |-> st.in_group, seen_group |-> st.seen_group, keys |-> st.keys]
        /\ st.in_group \in BOOLEAN /\ st.seen_group \in BOOLEAN
        /\ st.in_group <=> n \in Own(s)
        /\ st.seen_group <=> Headed(s)
        /\ st.keys = [k \in DOMAIN st.keys |-> st.keys[k]]
    BY <2>3 DEF ReadAsSaid
  <2>6. Headed(t) <=> Headed(s) \/ IsHeader(x)
    <3>1. 1..(n + 1) = 1..n \cup {n + 1}
      BY <2>1
    <3> QED BY <3>1, <2>1 DEF Headed
  <2>7. n + 1 \notin Own(s)
    BY <2>1, <2>4
  <2>8. n + 1 \in Own(t) <=> \/ n \in Own(s) /\ x.kind # "group"
                             \/ IsHeader(x) /\ ~Headed(s)
    <3>1. Headed(s) <=> ~\A j \in 1..n : ~IsHeader(s[j])
      BY DEF Headed
    <3> QED BY <2>4, <2>7, <3>1
  <2>9. t = Append(s, x)
    OBVIOUS
  <2> HIDE DEF st, n, t
  <2>10. CASE x.kind = "group"
    <3> DEFINE enters == Enters(st, x.name)
    <3>1. ReadLines(t) = [st EXCEPT !.in_group = enters, !.seen_group = @ \/ enters]
      BY <2>2, <2>10 DEF ReadLine
    <3>2. enters <=> IsHeader(x) /\ ~Headed(s)
      BY <2>5, <2>10 DEF Enters, IsHeader
    <3>3. enters \in BOOLEAN
      BY DEF Enters
    <3> HIDE DEF enters
    <3>4. ReadLines(t) = [in_group |-> enters, seen_group |-> st.seen_group \/ enters, keys |-> st.keys]
      BY <3>1, <2>5
    <3>5. ReadLines(t).keys = st.keys
      BY <3>4
    <3>6. /\ \A k : k \in DOMAIN ReadLines(t).keys <=> Sayings(t, k) # {}
          /\ \A k \in DOMAIN ReadLines(t).keys : ReadLines(t).keys[k] = t[Max(Sayings(t, k))].value
      <4>1. ~(Len(s) \in Own(s) /\ x.kind = "key")
        BY <2>10
      <4>2. ReadLines(t).keys = ReadLines(s).keys
        BY <3>5 DEF st
      <4>3. KeysAsSaid(t)
        BY <2>3, <2>9, <4>1, <4>2, KeysStay
      <4> QED BY <4>3 DEF KeysAsSaid
    <3>7. enters <=> n + 1 \in Own(t)
      BY <3>2, <2>8, <2>10
    <3>8. st.seen_group \/ enters <=> Headed(t)
      BY <3>2, <2>5, <2>6
    <3>9. ReadAsSaid(t)
      BY <3>3, <3>4, <3>5, <3>6, <3>7, <3>8, <2>1, <2>5 DEF ReadAsSaid
    <3> QED BY <3>9, <2>1 DEF t
  <2>11. CASE x.kind \in {"comment", "malformed"} \/ (x.kind = "key" /\ ~st.in_group)
    <3>1. ReadLines(t) = st
      BY <2>2, <2>11 DEF ReadLine, Skipped
    <3>2. x.kind # "group" /\ ~IsHeader(x)
      BY <2>11 DEF IsHeader
    <3>3. ~(n \in Own(s) /\ x.kind = "key")
      BY <2>5, <2>11
    <3>4. /\ \A k : k \in DOMAIN ReadLines(t).keys <=> Sayings(t, k) # {}
          /\ \A k \in DOMAIN ReadLines(t).keys : ReadLines(t).keys[k] = t[Max(Sayings(t, k))].value
      <4>1. ~(Len(s) \in Own(s) /\ x.kind = "key")
        BY <3>3 DEF n
      <4>2. ReadLines(t).keys = ReadLines(s).keys
        BY <3>1 DEF st
      <4>3. KeysAsSaid(t)
        BY <2>3, <2>9, <4>1, <4>2, KeysStay
      <4> QED BY <4>3 DEF KeysAsSaid
    <3>5. ReadAsSaid(t)
      BY <3>1, <3>2, <3>4, <2>1, <2>5, <2>6, <2>8 DEF ReadAsSaid
    <3> QED BY <3>5, <2>1 DEF t
  <2>12. CASE x.kind = "key" /\ st.in_group
    <3> DEFINE keys == st.keys
    <3> DEFINE new == WithKey(keys, x)
    <3>1. ReadLines(t) = [st EXCEPT !.keys = new]
      BY <2>2, <2>12 DEF ReadLine
    <3>2. /\ DOMAIN new = DOMAIN keys \cup {x.key} /\ new[x.key] = x.value
          /\ \A k \in DOMAIN keys : k # x.key => new[k] = keys[k]
          /\ new = [k \in DOMAIN new |-> new[k]]
      BY DEF WithKey
    <3> HIDE DEF new
    <3>3. ReadLines(t) = [in_group |-> TRUE, seen_group |-> st.seen_group, keys |-> new]
      BY <3>1, <2>5, <2>12
    <3>4. n \in Own(s) /\ ~IsHeader(x)
      BY <2>5, <2>12 DEF IsHeader
    <3>5. \A k : /\ Sayings(s, k) \subseteq 1..n
                 /\ Sayings(t, k) = IF k = x.key THEN Sayings(s, k) \cup {n + 1} ELSE Sayings(s, k)
      <4> TAKE k
      <4>1. /\ Sayings(s, k) \subseteq 1..n
            /\ Sayings(t, k) = Sayings(s, k) \cup
                 {i \in {n + 1} : n \in Own(s) /\ x.kind = "key" /\ x.key = k}
        BY SayingsGrow DEF n, t
      <4> QED BY <4>1, <3>4, <2>12
    <3>6. \A k : k \in DOMAIN keys <=> Sayings(s, k) # {}
      BY <2>3 DEF ReadAsSaid, st
    <3>7. \A k : k \in DOMAIN new <=> Sayings(t, k) # {}
      BY <3>2, <3>5, <3>6
    <3>8. ASSUME NEW k \in DOMAIN new PROVE new[k] = t[Max(Sayings(t, k))].value
      <4>1. CASE k = x.key
        <5>1. Sayings(t, k) \subseteq 1..(n + 1) /\ n + 1 \in Sayings(t, k) /\ n + 1 \in Nat
          BY <4>1, <3>5, <2>1
        <5>2. Max(Sayings(t, k)) \in Sayings(t, k) /\ n + 1 <= Max(Sayings(t, k))
          BY <5>1, Greatest
        <5>3. Max(Sayings(t, k)) = n + 1
          BY <5>1, <5>2, <2>1
        <5> QED BY <5>3, <4>1, <3>2, <2>1
      <4>2. CASE k # x.key
        <5>1. k \in DOMAIN keys /\ Sayings(t, k) = Sayings(s, k) /\ Sayings(s, k) \subseteq 1..n
              /\ Sayings(s, k) # {}
          BY <4>2, <3>2, <3>5, <3>6
        <5>2. Max(Sayings(s, k)) \in 1..n
          BY <5>1, <2>1, Greatest
        <5>3. keys[k] = s[Max(Sayings(s, k))].value
          BY <5>1, <2>3 DEF ReadAsSaid, st
        <5> QED BY <5>1, <5>2, <5>3, <4>2, <3>2, <2>1
      <4> QED BY <4>1, <4>2
    <3>9. n + 1 \in Own(t) /\ (Headed(t) <=> Headed(s))
      BY <2>6, <2>8, <2>12, <3>4
    <3>10. ReadAsSaid(t)
      BY <3>2, <3>3, <3>7, <3>8, <3>9, <2>1, <2>5 DEF ReadAsSaid
    <3> QED BY <3>10, <2>1 DEF t
  <2>13. x.kind \in {"group", "comment", "malformed", "key"}
    BY LinesAssumption
  <2> QED BY <2>5, <2>10, <2>11, <2>12, <2>13
<1>3. \A s \in Seq(FileLines) : s \in P
  <2> HIDE DEF P
  <2> QED BY <1>1, <1>2, AppendInduction
<1> QED BY <1>3

\* The own group is a stretch of the file that begins with its header.
LEMMA OwnIsAStretch ==
  ASSUME NEW s \in Seq(FileLines), Own(s) # {}
  PROVE  /\ Min(Own(s)) \in 1..Len(s) /\ Max(Own(s)) \in 1..Len(s) /\ Min(Own(s)) <= Max(Own(s))
         /\ Own(s) = Min(Own(s))..Max(Own(s))
         /\ IsHeader(s[Min(Own(s))])
         /\ \A k \in (Min(Own(s)) + 1)..Max(Own(s)) : s[k].kind # "group"
<1> DEFINE n == Len(s)
<1>1. n \in Nat /\ DOMAIN s = 1..n
  OBVIOUS
<1>2. PICK i \in Own(s) : TRUE
  OBVIOUS
<1>3. PICK a \in 1..i : /\ IsHeader(s[a]) /\ \A k \in 1..(a - 1) : ~IsHeader(s[k])
                        /\ \A k \in (a + 1)..i : s[k].kind # "group"
  BY <1>2 DEF Own
<1>4. i \in 1..n /\ a \in 1..n
  BY <1>1, <1>2, <1>3 DEF Own
<1> HIDE DEF n
<1>5. ASSUME NEW e \in 1..n PROVE e \in Own(s) <=> a <= e /\ \A k \in (a + 1)..e : s[k].kind # "group"
  <2>1. ASSUME e \in Own(s) PROVE a <= e /\ \A k \in (a + 1)..e : s[k].kind # "group"
    <3>1. PICK j \in 1..e : /\ IsHeader(s[j]) /\ \A k \in 1..(j - 1) : ~IsHeader(s[k])
                            /\ \A k \in (j + 1)..e : s[k].kind # "group"
      BY <2>1 DEF Own
    <3>2. ~(j < a) /\ ~(a < j)
      <4>1. j < a => j \in 1..(a - 1)
        BY <1>4
      <4>2. a < j => a \in 1..(j - 1)
        BY <1>4
      <4> QED BY <4>1, <4>2, <3>1, <1>3
    <3>3. j = a
      BY <3>2, <1>4
    <3> QED BY <3>1, <3>3
  <2>2. ASSUME a <= e, \A k \in (a + 1)..e : s[k].kind # "group" PROVE e \in Own(s)
    <3>1. a \in 1..e /\ e \in DOMAIN s
      BY <2>2, <1>1, <1>4
    <3> QED BY <3>1, <2>2, <1>3 DEF Own
  <2> QED BY <2>1, <2>2
<1>6. Own(s) \subseteq 1..n
  BY <1>1 DEF Own
<1> DEFINE b == Max(Own(s))
<1>7. b \in Own(s) /\ \A e \in Own(s) : e <= b
  BY <1>1, <1>6, Greatest
<1>8. b \in 1..n /\ a <= b /\ \A k \in (a + 1)..b : s[k].kind # "group"
  BY <1>5, <1>6, <1>7
<1> HIDE DEF b
<1>9. \A e \in Int : e \in Own(s) <=> e \in a..b
  <2> SUFFICES ASSUME NEW e \in Int PROVE e \in Own(s) <=> e \in a..b
    OBVIOUS
  <2>1. e \in Own(s) => e \in a..b
    BY <1>5, <1>6, <1>7
  <2>2. ASSUME e \in a..b PROVE e \in Own(s)
    <3>1. e \in 1..n /\ a <= e /\ \A k \in (a + 1)..e : k \in (a + 1)..b
      BY <2>2, <1>1, <1>4, <1>8
    <3> QED BY <3>1, <1>5, <1>8
  <2> QED BY <2>1, <2>2
<1>10. Own(s) = a..b
  <2>1. Own(s) \subseteq Int /\ a..b \subseteq Int
    BY <1>6
  <2> QED BY <2>1, <1>9
<1>11. Min(Own(s)) = a
  <2>1. a \in Own(s) /\ \A y \in Own(s) : a <= y
    BY <1>4, <1>8, <1>10
  <2>2. Min(Own(s)) \in Own(s) /\ \A y \in Own(s) : Min(Own(s)) <= y
    <3>1. \E x \in Own(s) : \A y \in Own(s) : x <= y
      BY <2>1
    <3> QED BY <3>1 DEF Min
  <2> QED BY <2>1, <2>2, <1>6, <1>4
<1> QED BY <1>3, <1>4, <1>8, <1>10, <1>11 DEF n, b

\* What is said last of a key is said within the group, whatever surrounds it.
LEMMA GroupReadsAlone ==
  ASSUME NEW s \in Seq(FileLines), Own(s) # {}
  PROVE  LET t == SubSeq(s, Min(Own(s)), Max(Own(s)))
         IN  /\ t \in Seq(FileLines) /\ Headed(t) /\ Headed(s)
             /\ ReadLines(t).keys = ReadLines(s).keys
<1> DEFINE a == Min(Own(s))
<1> DEFINE b == Max(Own(s))
<1> DEFINE t == SubSeq(s, a, b)
<1>1. /\ a \in 1..Len(s) /\ b \in 1..Len(s) /\ a <= b /\ Own(s) = a..b
      /\ IsHeader(s[a]) /\ \A k \in (a + 1)..b : s[k].kind # "group"
  BY OwnIsAStretch
<1> HIDE DEF a, b
<1> DEFINE m == b - a + 1
<1>2. /\ t \in Seq(FileLines) /\ Len(t) = m /\ m \in Nat \ {0} /\ DOMAIN t = 1..m
      /\ \A i \in 1..m : t[i] = s[a + i - 1] /\ a + i - 1 \in a..b
  <2>1. Len(s) \in Nat /\ a \in Nat /\ b \in Nat /\ a >= 1 /\ b <= Len(s) /\ a <= b
    BY <1>1
  <2>2. t \in Seq(FileLines) /\ Len(t) = m /\ m \in Nat \ {0}
    BY <2>1
  <2>3. DOMAIN t = 1..m
    BY <2>2
  <2>4. ASSUME NEW i \in 1..m PROVE t[i] = s[a + i - 1] /\ a + i - 1 \in a..b
    BY <2>1
  <2> QED BY <2>2, <2>3, <2>4
<1> HIDE DEF t, m
<1>3. IsHeader(t[1])
  <2>1. 1 \in 1..m /\ a + 1 - 1 = a
    BY <1>1, <1>2
  <2> QED BY <1>1, <1>2, <2>1
<1>4. \A k \in 2..m : t[k].kind # "group"
  <2> TAKE k \in 2..m
  <2>1. k \in 1..m /\ a + k - 1 \in (a + 1)..b
    BY <1>1, <1>2 DEF m
  <2> QED BY <2>1, <1>1, <1>2
<1>5. Own(t) = 1..m
  <2>1. Own(t) \subseteq 1..m
    BY <1>2 DEF Own
  <2>2. ASSUME NEW i \in 1..m PROVE i \in Own(t)
    <3>1. 1 \in 1..i /\ i \in DOMAIN t /\ 1..(1 - 1) = {} /\ \A k \in (1 + 1)..i : k \in 2..m
      BY <1>2
    <3> QED BY <3>1, <1>3, <1>4 DEF Own
  <2> QED BY <2>1, <2>2
<1>6. \A k : Sayings(s, k) \subseteq a..b /\ Sayings(t, k) = {i \in 1..m : a + i - 1 \in Sayings(s, k)}
  BY <1>1, <1>2, <1>5 DEF Sayings
<1>7. \A k : Sayings(t, k) # {} <=> Sayings(s, k) # {}
  <2> TAKE k
  <2>1. ASSUME NEW i \in Sayings(s, k) PROVE Sayings(t, k) # {}
    <3>1. i \in a..b
      BY <1>6
    <3>2. i - a + 1 \in 1..m /\ a + (i - a + 1) - 1 = i
      BY <3>1, <1>1 DEF m
    <3> QED BY <3>2, <1>6
  <2>2. Sayings(t, k) # {} => Sayings(s, k) # {}
    BY <1>6
  <2> QED BY <2>1, <2>2
<1>8. ASSUME NEW k, Sayings(s, k) # {}
      PROVE  t[Max(Sayings(t, k))].value = s[Max(Sayings(s, k))].value
  <2> DEFINE u == Max(Sayings(t, k))
  <2> DEFINE v == Max(Sayings(s, k))
  <2>1. u \in Sayings(t, k) /\ \A i \in Sayings(t, k) : i <= u
    <3>1. Sayings(t, k) \subseteq 1..m /\ Sayings(t, k) # {}
      BY <1>6, <1>7, <1>8
    <3> QED BY <3>1, <1>2, Greatest
  <2>2. v \in Sayings(s, k) /\ \A i \in Sayings(s, k) : i <= v
    <3>1. Sayings(s, k) \subseteq 1..Len(s) /\ Len(s) \in Nat
      BY <1>1, <1>6
    <3> QED BY <3>1, <1>8, Greatest
  <2> HIDE DEF u, v
  <2>3. u \in 1..m /\ a + u - 1 \in Sayings(s, k) /\ v \in a..b
    BY <2>1, <2>2, <1>6
  <2>4. v - a + 1 \in Sayings(t, k)
    <3>1. v - a + 1 \in 1..m /\ a + (v - a + 1) - 1 = v
      BY <2>3, <1>1 DEF m
    <3> QED BY <3>1, <2>2, <1>6
  <2>5. v = a + u - 1
    <3>1. a + u - 1 <= v /\ v - a + 1 <= u
      BY <2>1, <2>2, <2>3, <2>4
    <3> QED BY <3>1, <2>3, <1>1
  <2> QED BY <2>3, <2>5, <1>2 DEF u, v
<1>9. ReadLines(t).keys = ReadLines(s).keys
  <2> DEFINE f == ReadLines(t).keys
  <2> DEFINE g == ReadLines(s).keys
  <2>1. /\ f = [k \in DOMAIN f |-> f[k]]
        /\ \A k : k \in DOMAIN f <=> Sayings(t, k) # {}
        /\ \A k \in DOMAIN f : f[k] = t[Max(Sayings(t, k))].value
    BY <1>2, FileReads DEF ReadAsSaid
  <2>2. /\ g = [k \in DOMAIN g |-> g[k]]
        /\ \A k : k \in DOMAIN g <=> Sayings(s, k) # {}
        /\ \A k \in DOMAIN g : g[k] = s[Max(Sayings(s, k))].value
    BY FileReads DEF ReadAsSaid
  <2> HIDE DEF f, g
  <2>3. DOMAIN f = DOMAIN g
    BY <2>1, <2>2, <1>7
  <2>4. \A k \in DOMAIN f : f[k] = g[k]
    BY <2>1, <2>2, <2>3, <1>8
  <2>5. f = g
    BY <2>1, <2>2, <2>3, <2>4
  <2> QED BY <2>5 DEF f, g
<1>10. Headed(t) /\ Headed(s)
  BY <1>1, <1>2, <1>3 DEF Headed
<1> QED BY <1>2, <1>9, <1>10 DEF t, a, b

\* A plain key is there when the file says something of it.
LEMMA PlainFacts ==
  ASSUME NEW s \in Seq(FileLines), NEW name, name # "Name[]"
  PROVE  /\ name \in DOMAIN Plain(ReadLines(s).keys) <=> Sayings(s, <<name>>) # {}
         /\ name \in DOMAIN Plain(ReadLines(s).keys) =>
              Plain(ReadLines(s).keys)[name] = s[Max(Sayings(s, <<name>>))].value
<1> DEFINE keys == ReadLines(s).keys
<1>1. /\ \A k : k \in DOMAIN keys <=> Sayings(s, k) # {}
      /\ \A k \in DOMAIN keys : keys[k] = s[Max(Sayings(s, k))].value
  BY FileReads DEF ReadAsSaid
<1>2. ASSUME NEW k \in DOMAIN keys PROVE k = <<"Name[]", k[2]>> \/ (k = <<k[1]>> /\ k[1] # "Name[]")
  <2>1. PICK i \in Sayings(s, k) : TRUE
    BY <1>1
  <2>2. i \in DOMAIN s /\ s[i].kind = "key" /\ s[i].key = k
    BY <2>1 DEF Sayings, Own
  <2>3. s[i] \in FileLines
    BY <2>2
  <2> QED BY <2>2, <2>3, LinesAssumption
<1> HIDE DEF keys
<1>3. DOMAIN Plain(keys) = {l[1] : l \in DOMAIN keys \ Named(keys)}
  BY DEF Plain
<1>4. name \in DOMAIN Plain(keys) => <<name>> \in DOMAIN keys
  <2> SUFFICES ASSUME name \in DOMAIN Plain(keys) PROVE <<name>> \in DOMAIN keys
    OBVIOUS
  <2>1. PICK l \in DOMAIN keys \ Named(keys) : name = l[1]
    BY <1>3
  <2>2. l[1] # "Name[]"
    BY <2>1
  <2>3. l = <<l[1]>>
    BY <2>2, <1>2
  <2> QED BY <2>1, <2>3
<1>5. <<name>> \in DOMAIN keys => name \in DOMAIN Plain(keys)
  <2> SUFFICES ASSUME <<name>> \in DOMAIN keys PROVE name \in DOMAIN Plain(keys)
    OBVIOUS
  <2>1. <<name>>[1] = name
    OBVIOUS
  <2>2. <<name>> \in DOMAIN keys \ Named(keys)
    BY <2>1 DEF Named
  <2> QED BY <2>1, <2>2, <1>3
<1>6. name \in DOMAIN Plain(keys) => Plain(keys)[name] = keys[<<name>>]
  BY DEF Plain
<1> QED BY <1>1, <1>4, <1>5, <1>6 DEF keys

----------------------------------------------------------------------------
(* From file to menu                                                       *)

LEMMA LauncherInvHolds == LauncherSpec => []LauncherInv
<1>1. LauncherInit => LauncherInv
  BY HeadersAssumption DEF LauncherInit, LauncherInv
<1>2. ASSUME LauncherInv, [LauncherNext]_launcherVars PROVE LauncherInv'
  <2>1. CASE OtherFile
    BY <2>1, HeadersAssumption DEF OtherFile, LauncherInv
  <2>2. ASSUME NEW line \in Lines(content) \cap FileLines, ReadFile(line) PROVE LauncherInv'
    <3>1. content' \in Seq(FileLines) /\ Len(content') <= MaxLines
      BY <1>2, <2>2, BoundAssumption DEF ReadFile, LauncherInv
    <3> QED BY <3>1, <2>2 DEF ReadFile, LauncherInv
  <2>3. ASSUME NEW ctx \in Contexts, Launch(ctx) PROVE LauncherInv'
    BY <1>2, <2>3 DEF Launch, LauncherInv, IsEntry
  <2>4. CASE UNCHANGED launcherVars
    BY <1>2, <2>4 DEF launcherVars, LauncherInv, IsEntry
  <2> QED BY <1>2, <2>1, <2>2, <2>3, <2>4 DEF LauncherNext
<1> QED BY <1>1, <1>2, PTL DEF LauncherSpec

\* An entry is what the own group of a file says.
LEMMA EntryFacts ==
  ASSUME LauncherInv, IsEntry
  PROVE  /\ content \in Seq(FileLines) /\ Headed(content)
         /\ "Name" \in DOMAIN Plain(ReadLines(content).keys)
         /\ entry = EntryOf(ReadLines(content).keys)
<1>1. content \in Seq(FileLines) /\ entry = Parse(content)
  BY DEF LauncherInv
<1>2. ReadLines(content).seen_group <=> Headed(content)
  BY <1>1, FileReads DEF ReadAsSaid
<1>3. ReadLines(content).seen_group
  BY <1>1 DEF Parse, MissingDesktopEntryGroup, IsEntry
<1>4. entry = EntryOf(ReadLines(content).keys)
  BY <1>1, <1>3 DEF Parse
<1>5. "Name" \in DOMAIN Plain(ReadLines(content).keys)
  BY <1>4 DEF EntryOf, MissingName, IsEntry
<1> QED BY <1>1, <1>2, <1>3, <1>4, <1>5

LEMMA CommandIsTyped ==
  ASSUME NEW e, NEW ctx
  PROVE  \/ e.exec = None /\ Command(e, ctx) = None
         \/ e.exec # None /\ (IsError(Command(e, ctx)) <=> Command(e, ctx).args = << >>)
<1>1. \A args : IsError(NonEmpty(args)) <=> NonEmpty(args).args = << >>
  BY DEF NonEmpty, IsError, Empty, Ok, Error
<1>2. /\ IsError(UnterminatedQuote) /\ UnterminatedQuote.args = << >>
      /\ IsError(UnknownFieldCode) /\ UnknownFieldCode.args = << >>
  BY DEF IsError, UnterminatedQuote, UnknownFieldCode, Error
<1>3. \A exec : IsError(Tokenize(exec)) <=> Tokenize(exec).args = << >>
  BY <1>1, <1>2 DEF Tokenize
<1>4. \A args, c : IsError(Expand(args, c)) <=> Expand(args, c).args = << >>
  BY <1>1, <1>2 DEF Expand, Each
<1> HIDE DEF IsError
<1>5. CASE e.exec = None
  BY <1>5 DEF Command
<1>6. CASE e.exec # None
  BY <1>6, <1>3, <1>4 DEF Command
<1> QED BY <1>5, <1>6

LEMMA TypedWhenLaunched == LauncherInv => LauncherTypeOK
<1> SUFFICES ASSUME LauncherInv PROVE LauncherTypeOK
  OBVIOUS
<1>1. CASE opened = None
  BY <1>1 DEF LauncherInv, LauncherTypeOK
<1>2. CASE opened # None
  <2>1. PICK ctx \in Contexts : argv = Command(entry, ctx)
    BY <1>2 DEF LauncherInv
  <2> QED BY <2>1, CommandIsTyped DEF LauncherInv, LauncherTypeOK
<1> QED BY <1>1, <1>2

LEMMA BadLinesHidden == LauncherInv => BadLinesHideNothing
<1> SUFFICES ASSUME LauncherInv PROVE BadLinesHideNothing
  OBVIOUS
<1> DEFINE S == {line \in Elements(content) : line.kind \notin {"comment", "malformed"}}
<1>1. content \in Seq(FileLines) /\ entry = Parse(content)
  BY DEF LauncherInv
<1>2. \A line \in Elements(content) : line \notin S => line.kind \in {"comment", "malformed"}
  OBVIOUS
<1> HIDE DEF S
<1>3. ReadLines(Retain(content, S)) = ReadLines(content)
  BY <1>1, <1>2, BadLinesRead
<1> QED BY <1>1, <1>3 DEF BadLinesHideNothing, Parse, S

LEMMA LaterGroups == LauncherInv => LaterGroupsAreNotRead
<1> SUFFICES ASSUME LauncherInv, Own(content) # {}
             PROVE  entry = Parse(SubSeq(content, Min(Own(content)), Max(Own(content))))
  BY DEF LaterGroupsAreNotRead
<1> DEFINE t == SubSeq(content, Min(Own(content)), Max(Own(content)))
<1>1. content \in Seq(FileLines) /\ entry = Parse(content)
  BY DEF LauncherInv
<1>2. /\ t \in Seq(FileLines) /\ Headed(t) /\ Headed(content)
      /\ ReadLines(t).keys = ReadLines(content).keys
  BY <1>1, GroupReadsAlone
<1> HIDE DEF t
<1>3. ReadLines(content).seen_group /\ ReadLines(t).seen_group
  BY <1>1, <1>2, FileReads DEF ReadAsSaid
<1>4. entry = Parse(t)
  BY <1>1, <1>2, <1>3 DEF Parse
<1> QED BY <1>4 DEF t

\* A list is empty when it has no words.
LEMMA ListFacts ==
  ASSUME NEW list \in Seq(STRING)
  PROVE  Elements(list) = {} <=> list = << >>
<1>1. list = << >> <=> Len(list) = 0
  OBVIOUS
<1>2. Len(list) \in Nat
  OBVIOUS
<1>3. Len(list) = 0 <=> 1..Len(list) = {}
  <2>1. Len(list) # 0 => 1 \in 1..Len(list)
    BY <1>2
  <2> QED BY <2>1
<1>4. Elements(list) = {} <=> 1..Len(list) = {}
  BY DEF Elements
<1> QED BY <1>1, <1>3, <1>4

LEMMA ShownAsSaid == LauncherInv => ShownAsItSays
<1> DEFINE says(name) == Said(<<name>>) # {} /\ LastWord(<<name>>) = <<"true">>
<1> DEFINE list(name) == IF Said(<<name>>) = {} THEN {} ELSE Elements(LastWord(<<name>>))
<1> DEFINE hides(d) == \/ says("Hidden") \/ says("NoDisplay") \/ d \in list("NotShowIn")
                       \/ list("OnlyShowIn") # {} /\ d \notin list("OnlyShowIn")
<1> SUFFICES ASSUME LauncherInv, IsEntry, NEW d \in Desktops
             PROVE  ShouldDisplay(entry, d) <=> ~hides(d)
  BY DEF ShownAsItSays
<1> DEFINE plain == Plain(ReadLines(content).keys)
<1>1. content \in Seq(FileLines) /\ "Name" \in DOMAIN plain /\ entry = EntryOf(ReadLines(content).keys)
  BY EntryFacts
<1>2. \A key : Said(key) = Sayings(content, key)
  BY DEF Said, Sayings
<1>3. \A name : name # "Name[]" =>
        /\ name \in DOMAIN plain <=> Said(<<name>>) # {}
        /\ name \in DOMAIN plain => plain[name] = LastWord(<<name>>)
  BY <1>1, <1>2, PlainFacts DEF LastWord
<1>4. ASSUME NEW name \in {"OnlyShowIn", "NotShowIn"}, name \in DOMAIN plain
      PROVE  plain[name] \in Seq(STRING)
  <2> DEFINE S == Said(<<name>>)
  <2>0. Len(content) \in Nat /\ DOMAIN content = 1..Len(content)
    BY <1>1
  <2>1. S # {} /\ S \subseteq 1..Len(content)
    BY <2>0, <1>3, <1>4 DEF Said, Own
  <2>2. Max(S) \in S
    BY <2>0, <2>1, Greatest
  <2>3. content[Max(S)].kind = "key" /\ content[Max(S)].key = <<name>>
    BY <2>2 DEF Said
  <2>3a. content[Max(S)] \in FileLines
    <3> HIDE DEF S
    <3>1. content \in Seq(FileLines) /\ Max(S) \in 1..Len(content)
      BY <1>1, <2>1, <2>2
    <3> QED BY <3>1
  <2>4. content[Max(S)].value \in Seq(STRING)
    BY <2>3, <2>3a, LinesAssumption
  <2> QED BY <2>4, <1>3, <1>4 DEF LastWord
<1> HIDE DEF plain
<1>5. /\ entry.no_display <=> Boolean(plain, "NoDisplay")
      /\ entry.hidden <=> Boolean(plain, "Hidden")
      /\ entry.only_show_in = Lookup(plain, "OnlyShowIn", << >>)
      /\ entry.not_show_in = Lookup(plain, "NotShowIn", << >>)
  BY <1>1 DEF EntryOf, plain
<1>6. \A name \in {"Hidden", "NoDisplay"} : Boolean(plain, name) <=> says(name)
  BY <1>3 DEF Boolean, Lookup
<1>7. ASSUME NEW name \in {"OnlyShowIn", "NotShowIn"}
      PROVE  /\ Elements(Lookup(plain, name, << >>)) = list(name)
             /\ list(name) = {} <=> Lookup(plain, name, << >>) = << >>
  <2>1. Elements(<< >>) = {}
    BY DEF Elements
  <2>2. CASE name \in DOMAIN plain
    BY <2>2, <1>3, <1>4, ListFacts DEF Lookup
  <2>3. CASE name \notin DOMAIN plain
    BY <2>1, <2>3, <1>3 DEF Lookup
  <2> QED BY <2>2, <2>3
<1> HIDE DEF says, list
<1> QED BY <1>5, <1>6, <1>7 DEF ShouldDisplay

\* A key with two parts is a name in a language.
LEMMA NamesInLanguages ==
  ASSUME NEW s \in Seq(FileLines), NEW k, k[1] = "Name[]", Sayings(s, k) # {}
  PROVE  k = <<"Name[]", k[2]>>
<1>1. PICK i \in Sayings(s, k) : TRUE
  OBVIOUS
<1>2. i \in DOMAIN s /\ s[i].kind = "key" /\ s[i].key = k
  BY <1>1 DEF Sayings, Own
<1>3. s[i] \in FileLines
  BY <1>2
<1> QED BY <1>2, <1>3, LinesAssumption

LEMMA NearestName == LauncherInv => NearestNameIsShown
<1> DEFINE name(tag) == <<"Name[]", tag>>
<1> DEFINE Spoken(shown, l) ==
             \E i \in Own(content) : /\ content[i].kind = "key" /\ content[i].key[1] = "Name[]"
                                     /\ content[i].key[2].lang = l.lang
                                     /\ shown = LastWord(content[i].key)
<1> SUFFICES ASSUME LauncherInv, IsEntry, NEW tag \in Locales
             PROVE  LET shown == NameForLocale(entry, tag)
                    IN  IF Said(name(tag)) # {} THEN shown = LastWord(name(tag))
                        ELSE IF tag.modifier = ""
                        THEN shown = IF Said(name(Language(tag.lang))) # {}
                                     THEN LastWord(name(Language(tag.lang)))
                                     ELSE LastWord(<<"Name">>)
                        ELSE shown = LastWord(<<"Name">>) \/ Spoken(shown, tag)
  BY DEF NearestNameIsShown
<1> DEFINE keys == ReadLines(content).keys
<1>1. content \in Seq(FileLines) /\ "Name" \in DOMAIN Plain(keys) /\ entry = EntryOf(keys)
  BY EntryFacts
<1>2. \A key : Said(key) = Sayings(content, key)
  BY DEF Said, Sayings
<1>3. \A k : /\ k \in DOMAIN keys <=> Said(k) # {}
             /\ k \in DOMAIN keys => keys[k] = LastWord(k)
  BY <1>1, <1>2, FileReads DEF ReadAsSaid, LastWord
<1>4. Plain(keys)["Name"] = LastWord(<<"Name">>)
  BY <1>1, <1>2, PlainFacts DEF LastWord
<1> HIDE DEF keys
<1>5. ASSUME NEW k \in DOMAIN keys, k[1] = "Name[]" PROVE k = name(k[2])
  <2>1. Sayings(content, k) # {}
    BY <1>2, <1>3
  <2> QED BY <2>1, <1>1, <1>5, NamesInLanguages
<1>6. /\ entry.name = LastWord(<<"Name">>)
      /\ entry.localized_names = [l \in {LocaleOf(k) : k \in Named(keys)} |-> keys[name(l)]]
  BY <1>1, <1>4 DEF EntryOf
<1>7. \A l : /\ l \in DOMAIN entry.localized_names <=> Said(name(l)) # {}
             /\ l \in DOMAIN entry.localized_names => entry.localized_names[l] = LastWord(name(l))
  <2> TAKE l
  <2>1. name(l)[1] = "Name[]" /\ name(l)[2] = l
    OBVIOUS
  <2>2. name(l) \in DOMAIN keys => l \in DOMAIN entry.localized_names
    BY <2>1, <1>6 DEF Named, LocaleOf
  <2>3. ASSUME l \in DOMAIN entry.localized_names PROVE name(l) \in DOMAIN keys
    <3>1. PICK k \in Named(keys) : l = LocaleOf(k)
      BY <2>3, <1>6
    <3>2. k \in DOMAIN keys /\ k[1] = "Name[]" /\ k[2] = l
      BY <3>1 DEF Named, LocaleOf
    <3> QED BY <3>2, <1>5
  <2>4. l \in DOMAIN entry.localized_names => entry.localized_names[l] = keys[name(l)]
    BY <1>6
  <2> QED BY <2>2, <2>3, <2>4, <1>3
<1>8. tag.modifier = "" /\ tag.country = "" => tag = Language(tag.lang)
  BY LocalesAssumption DEF Language, Tag
<1>9. Said(name(Language(tag.lang))) # {} => Spoken(LastWord(name(Language(tag.lang))), tag)
  <2> HAVE Said(name(Language(tag.lang))) # {}
  <2>1. PICK i \in Own(content) : content[i].kind = "key" /\ content[i].key = name(Language(tag.lang))
    BY DEF Said
  <2>2. name(Language(tag.lang))[1] = "Name[]" /\ name(Language(tag.lang))[2].lang = tag.lang
    BY DEF Language, Tag
  <2> QED BY <2>1, <2>2
<1> HIDE DEF name, Spoken
<1>10. NameForLocale(entry, tag) =
         IF Said(name(tag)) # {} THEN LastWord(name(tag))
         ELSE IF tag.country # "" /\ Said(name(Language(tag.lang))) # {}
         THEN LastWord(name(Language(tag.lang)))
         ELSE LastWord(<<"Name">>)
  BY <1>6, <1>7 DEF NameForLocale
<1> QED BY <1>8, <1>9, <1>10

THEOREM EntriesReadRight == LauncherSpec => []EntriesAreRead
<1>1. LauncherInv => EntriesAreRead
  BY TypedWhenLaunched, BadLinesHidden, LaterGroups, ShownAsSaid, NearestName DEF EntriesAreRead
<1> QED BY <1>1, LauncherInvHolds, PTL

----------------------------------------------------------------------------
(* Reading a command                                                       *)

ReadState == [mode : {"outside", "quoted", "escape"}, args : Seq(Text), current : Text, has_current : BOOLEAN]

LEMMA ReadTyped ==
  ASSUME NEW st \in ReadState, NEW c \in Characters
  PROVE  Read(st, c) \in ReadState
<1> USE DEF ReadState
<1>1. \A chars \in Text : Push(st, chars) \in ReadState
  <2> TAKE chars \in Text
  <2>1. st.current \o chars \in Text
    BY DEF Text
  <2> QED BY <2>1 DEF Push
<1>2. <<c>> \in Text /\ <<Backslash, c>> \in Text
  BY CharactersAssumption DEF Text
<1>3. EndArgument(st) \in ReadState /\ OpenQuote(st) \in ReadState
  <2>1. << >> \in Text /\ Append(st.args, st.current) \in Seq(Text)
    BY DEF Text
  <2> QED BY <2>1 DEF EndArgument, OpenQuote
<1>4. [Push(st, IF c \in Escapable THEN <<c>> ELSE <<Backslash, c>>) EXCEPT !.mode = "quoted"] \in ReadState
  BY <1>1, <1>2
<1>5. /\ [st EXCEPT !.mode = "outside"] \in ReadState
      /\ [st EXCEPT !.mode = "escape"] \in ReadState
  OBVIOUS
<1>6. st.mode \in {"outside", "quoted", "escape"}
  OBVIOUS
<1> HIDE DEF ReadState
<1>7. CASE st.mode = "outside"
  BY <1>1, <1>2, <1>3, <1>7 DEF Read
<1>8. CASE st.mode = "quoted"
  BY <1>1, <1>2, <1>5, <1>8 DEF Read
<1>9. CASE st.mode = "escape"
  BY <1>4, <1>9 DEF Read
<1> QED BY <1>6, <1>7, <1>8, <1>9

LEMMA ReadSteps ==
  ASSUME NEW st \in ReadState
  PROVE  /\ ReadAll(st, << >>) = st
         /\ \A s \in Text, x \in Characters : ReadAll(st, Append(s, x)) = Read(ReadAll(st, s), x)
<1>1. ASSUME NEW s \in Seq(Characters), NEW x \in Characters
      PROVE  ReadAll(st, << >>) = st /\ ReadAll(st, Append(s, x)) = Read(ReadAll(st, s), x)
  BY ReadAllFacts
<1>2. << >> \in Seq(Characters) /\ Space \in Characters
  BY CharactersAssumption
<1> QED BY <1>1, <1>2 DEF Text

LEMMA ReadAllTyped ==
  ASSUME NEW st \in ReadState
  PROVE  \A s \in Text : ReadAll(st, s) \in ReadState
<1> DEFINE P == {s \in Text : ReadAll(st, s) \in ReadState}
<1>1. << >> \in P
  <2>1. << >> \in Text
    BY DEF Text
  <2>2. ReadAll(st, << >>) = st
    BY ReadSteps
  <2> QED BY <2>1, <2>2
<1>2. ASSUME NEW s \in Seq(Characters), NEW x \in Characters, s \in P PROVE Append(s, x) \in P
  <2>1. ReadAll(st, Append(s, x)) = Read(ReadAll(st, s), x)
    BY ReadSteps DEF Text
  <2>2. Append(s, x) \in Text
    BY DEF Text
  <2> QED BY <1>2, <2>1, <2>2, ReadTyped
<1>3. \A s \in Seq(Characters) : s \in P
  <2> HIDE DEF P
  <2> QED BY <1>1, <1>2, AppendInduction
<1> QED BY <1>3 DEF Text

LEMMA StartTyped == Start \in ReadState
<1>1. << >> \in Text /\ << >> \in Seq(Text)
  BY DEF Text
<1> QED BY <1>1 DEF Start, ReadState

LEMMA TokensTyped ==
  ASSUME NEW exec \in Text, ~IsError(Tokenize(exec))
  PROVE  Tokenize(exec).args \in Seq(Text) /\ Tokenize(exec) = Ok(Tokenize(exec).args)
<1> DEFINE st == ReadAll(Start, exec)
<1>1. st \in ReadState
  BY StartTyped, ReadAllTyped
<1>2. Tokenize(exec) = IF st.mode # "outside" THEN UnterminatedQuote ELSE NonEmpty(EndArgument(st).args)
  BY DEF Tokenize
<1> HIDE DEF st
<1>3. EndArgument(st).args \in Seq(Text)
  BY <1>1 DEF EndArgument, ReadState
<1> DEFINE args == EndArgument(st).args
<1> HIDE DEF args
<1>4. IsError(UnterminatedQuote) /\ IsError(Empty)
  BY DEF IsError, UnterminatedQuote, Empty, Error
<1>5. Tokenize(exec) = NonEmpty(args)
  BY <1>2, <1>4 DEF args
<1>6. Tokenize(exec) = Ok(args)
  BY <1>4, <1>5 DEF NonEmpty
<1>7. args \in Seq(Text)
  BY <1>3 DEF args
<1>8. Ok(args).args = args
  BY DEF Ok
<1> QED BY <1>6, <1>7, <1>8

\* Reading goes on where it was.
LEMMA ReadOn ==
  ASSUME NEW st \in ReadState, NEW s \in Text, NEW t \in Text
  PROVE  ReadAll(st, s \o t) = ReadAll(ReadAll(st, s), t)
<1> DEFINE r == ReadAll(st, s)
<1> DEFINE P == {u \in Text : ReadAll(st, s \o u) = ReadAll(r, u)}
<1>0. r \in ReadState
  BY ReadAllTyped
<1>1. << >> \in P
  <2>1. << >> \in Text /\ s \o << >> = s
    BY ConcatEmptySeq DEF Text
  <2>2. ReadAll(r, << >>) = r
    BY <1>0, ReadSteps
  <2> QED BY <2>1, <2>2
<1>2. ASSUME NEW u \in Seq(Characters), NEW x \in Characters, u \in P PROVE Append(u, x) \in P
  <2>1. s \o u \in Text /\ s \o Append(u, x) = Append(s \o u, x) /\ Append(u, x) \in Text /\ u \in Text
    BY DEF Text
  <2>2. ReadAll(st, Append(s \o u, x)) = Read(ReadAll(st, s \o u), x)
    BY <2>1, ReadSteps
  <2> HIDE DEF r
  <2>3. ReadAll(r, Append(u, x)) = Read(ReadAll(r, u), x)
    BY <2>1, <1>0, ReadSteps
  <2> QED BY <1>2, <2>1, <2>2, <2>3
<1>3. \A u \in Seq(Characters) : u \in P
  <2> HIDE DEF P
  <2> QED BY <1>1, <1>2, AppendInduction
<1> QED BY <1>3 DEF Text

LEMMA ReadOne ==
  ASSUME NEW st \in ReadState, NEW c \in Characters
  PROVE  ReadAll(st, <<c>>) = Read(st, c)
<1>1. << >> \in Text /\ <<c>> = Append(<< >>, c)
  BY DEF Text
<1>2. ReadAll(st, Append(<< >>, c)) = Read(ReadAll(st, << >>), c) /\ ReadAll(st, << >>) = st
  BY <1>1, ReadSteps
<1> QED BY <1>1, <1>2

\* What every element becomes, one after the other.
Pieces(g, s) == [i \in DOMAIN s |-> g[s[i]]]

LEMMA PiecesFacts ==
  ASSUME NEW X, NEW Y, NEW g \in [X -> Seq(Y)]
  PROVE  /\ FlattenSeq(Pieces(g, << >>)) = << >>
         /\ \A s \in Seq(X) : FlattenSeq(Pieces(g, s)) \in Seq(Y)
         /\ \A s \in Seq(X), x \in X :
              FlattenSeq(Pieces(g, Append(s, x))) = FlattenSeq(Pieces(g, s)) \o g[x]
<1> DEFINE pieces(s) == Pieces(g, s)
<1>1. ASSUME NEW s \in Seq(X)
      PROVE  /\ pieces(s) \in Seq(Seq(Y)) /\ Len(pieces(s)) = Len(s)
             /\ \A i \in 1..Len(s) : pieces(s)[i] = g[s[i]]
  <2>1. Len(s) \in Nat /\ DOMAIN s = 1..Len(s) /\ \A i \in 1..Len(s) : s[i] \in X
    OBVIOUS
  <2>2. pieces(s) \in [1..Len(s) -> Seq(Y)] /\ \A i \in 1..Len(s) : pieces(s)[i] = g[s[i]]
    BY <2>1 DEF Pieces
  <2>3. pieces(s) \in Seq(Seq(Y)) /\ Len(pieces(s)) = Len(s)
    <3> DEFINE q == pieces(s)
    <3> DEFINE Z == Seq(Y)
    <3> DEFINE n == Len(s)
    <3>1. q \in [1..n -> Z] /\ n \in Nat
      BY <2>1, <2>2
    <3> HIDE DEF q, Z, n
    <3>2. q \in Seq(Z)
      BY <3>1, SeqDef
    <3>3. Len(q) = n
      BY <3>1, <3>2
    <3> QED BY <3>2, <3>3 DEF q, Z, n
  <2> QED BY <2>1, <2>2, <2>3
<1>2. pieces(<< >>) = << >>
  BY DEF Pieces
<1> HIDE DEF pieces
<1>3. ASSUME NEW s \in Seq(X), NEW x \in X PROVE pieces(Append(s, x)) = Append(pieces(s), g[x])
  <2> DEFINE t == Append(s, x)
  <2> DEFINE p == pieces(s)
  <2> DEFINE e == g[x]
  <2>1. /\ t \in Seq(X) /\ Len(s) \in Nat /\ Len(t) = Len(s) + 1
        /\ t[Len(s) + 1] = x /\ \A i \in 1..Len(s) : t[i] = s[i]
    OBVIOUS
  <2>2. /\ p \in Seq(Seq(Y)) /\ Len(p) = Len(s) /\ e \in Seq(Y)
        /\ \A i \in 1..Len(s) : p[i] = g[s[i]]
    BY <1>1
  <2> HIDE DEF t, p, e
  <2>3. /\ pieces(t) \in Seq(Seq(Y)) /\ Len(pieces(t)) = Len(s) + 1
        /\ \A i \in 1..(Len(s) + 1) : pieces(t)[i] = g[t[i]]
    BY <1>1, <2>1
  <2> DEFINE q == Append(p, e)
  <2>4. /\ q \in Seq(Seq(Y)) /\ Len(q) = Len(s) + 1 /\ q[Len(s) + 1] = e
        /\ \A i \in 1..Len(s) : q[i] = p[i]
    BY <2>1, <2>2
  <2> HIDE DEF q
  <2>5. \A i \in 1..(Len(s) + 1) : pieces(t)[i] = q[i]
    <3> TAKE i \in 1..(Len(s) + 1)
    <3>1. CASE i = Len(s) + 1
      BY <3>1, <2>1, <2>3, <2>4 DEF e
    <3>2. CASE i # Len(s) + 1
      <4>1. i \in 1..Len(s)
        BY <3>2, <2>1
      <4> QED BY <4>1, <2>1, <2>2, <2>3, <2>4
    <3> QED BY <3>1, <3>2
  <2>6. pieces(t) = q
    <3> DEFINE u == pieces(t)
    <3> DEFINE Z == Seq(Y)
    <3>1. u \in Seq(Z) /\ Len(u) = Len(s) + 1 /\ q \in Seq(Z) /\ Len(q) = Len(s) + 1
      BY <2>3, <2>4
    <3>2. \A i \in 1..(Len(s) + 1) : u[i] = q[i]
      BY <2>5
    <3> HIDE DEF u, Z
    <3>3. u = q
      BY <3>1, <3>2, SeqEqual
    <3> QED BY <3>3 DEF u
  <2> QED BY <2>6 DEF q, p, t, e
<1>4. ASSUME NEW s \in Seq(X) PROVE FlattenSeq(pieces(s)) \in Seq(Y)
  BY <1>1, FlattenFacts
<1>5. ASSUME NEW s \in Seq(X), NEW x \in X
      PROVE  FlattenSeq(pieces(Append(s, x))) = FlattenSeq(pieces(s)) \o g[x]
  <2>1. pieces(s) \in Seq(Seq(Y)) /\ g[x] \in Seq(Y)
    BY <1>1
  <2> QED BY <2>1, <1>3, FlattenFacts
<1>6. FlattenSeq(pieces(<< >>)) = << >>
  BY <1>2, FlattenFacts
<1> QED BY <1>4, <1>5, <1>6 DEF pieces

\* A character within quotes, written as the specification says.
Escape(c) == IF c \in Escapable THEN <<Backslash, c>> ELSE <<c>>
Escaped(arg) == FlattenSeq([i \in DOMAIN arg |-> Escape(arg[i])])

LEMMA EscapedFacts ==
  /\ Escaped(<< >>) = << >>
  /\ \A arg \in Text : Escaped(arg) \in Text
  /\ \A arg \in Text, c \in Characters : Escaped(Append(arg, c)) = Escaped(arg) \o Escape(c)
  /\ \A c \in Characters : Escape(c) \in Text
<1> DEFINE g == [c \in Characters |-> Escape(c)]
<1>1. \A c \in Characters : Escape(c) \in Text
  BY CharactersAssumption DEF Escape, Text
<1>2. g \in [Characters -> Seq(Characters)] /\ \A c \in Characters : g[c] = Escape(c)
  BY <1>1 DEF Text
<1>3. \A arg \in Text : Escaped(arg) = FlattenSeq(Pieces(g, arg))
  <2> TAKE arg \in Text
  <2>1. \A i \in DOMAIN arg : arg[i] \in Characters
    BY DEF Text
  <2>2. [i \in DOMAIN arg |-> Escape(arg[i])] = Pieces(g, arg)
    BY <2>1 DEF Pieces
  <2> QED BY <2>2 DEF Escaped
<1> HIDE DEF g
<1>4. /\ FlattenSeq(Pieces(g, << >>)) = << >>
      /\ \A s \in Seq(Characters) : FlattenSeq(Pieces(g, s)) \in Seq(Characters)
      /\ \A s \in Seq(Characters), x \in Characters :
           FlattenSeq(Pieces(g, Append(s, x))) = FlattenSeq(Pieces(g, s)) \o g[x]
  <2>1. g \in [Characters -> Seq(Characters)]
    BY <1>2
  <2> QED BY <2>1, PiecesFacts, ZenonT(60)
<1>5. << >> \in Text /\ \A s \in Text, x \in Characters : Append(s, x) \in Text
  BY DEF Text
<1> QED BY <1>1, <1>2, <1>3, <1>4, <1>5 DEF Text

\* Where the reader is between two arguments, and within quotes.
Between(args) == [mode |-> "outside", args |-> args, current |-> << >>, has_current |-> FALSE]
Within(args, word) == [mode |-> "quoted", args |-> args, current |-> word, has_current |-> TRUE]

LEMMA BetweenTyped ==
  ASSUME NEW args \in Seq(Text)
  PROVE  Between(args) \in ReadState /\ \A word \in Text : Within(args, word) \in ReadState
<1>1. << >> \in Text
  BY DEF Text
<1> QED BY <1>1 DEF Between, Within, ReadState

LEMMA StateIsItsParts ==
  ASSUME NEW st \in ReadState, NEW r \in ReadState, st.mode = r.mode, st.args = r.args,
         st.current = r.current, st.has_current <=> r.has_current
  PROVE  st = r
<1>1. st.has_current = r.has_current
  BY DEF ReadState
<1> QED BY <1>1 DEF ReadState

LEMMA PushFacts ==
  ASSUME NEW st \in ReadState, NEW chars \in Text
  PROVE  /\ Push(st, chars) \in ReadState
         /\ Push(st, chars).mode = st.mode /\ Push(st, chars).args = st.args
         /\ Push(st, chars).current = st.current \o chars /\ Push(st, chars).has_current
<1>1. st.current \o chars \in Text
  BY DEF ReadState, Text
<1> QED BY <1>1 DEF Push, ReadState

LEMMA WithinParts ==
  ASSUME NEW args, NEW word
  PROVE  /\ Within(args, word).mode = "quoted" /\ Within(args, word).args = args
         /\ Within(args, word).current = word /\ Within(args, word).has_current
         /\ Between(args).mode = "outside" /\ Between(args).args = args
         /\ Between(args).current = << >> /\ ~Between(args).has_current
BY DEF Within, Between

LEMMA ModeFacts ==
  ASSUME NEW st \in ReadState, NEW mode \in {"outside", "quoted", "escape"}
  PROVE  /\ [st EXCEPT !.mode = mode] \in ReadState
         /\ [st EXCEPT !.mode = mode].mode = mode /\ [st EXCEPT !.mode = mode].args = st.args
         /\ [st EXCEPT !.mode = mode].current = st.current
         /\ [st EXCEPT !.mode = mode].has_current = st.has_current
BY DEF ReadState

\* A character within quotes is read as what was written.
LEMMA EscapeRead ==
  ASSUME NEW args \in Seq(Text), NEW word \in Text, NEW c \in Characters
  PROVE  ReadAll(Within(args, word), Escape(c)) = Within(args, Append(word, c))
<1> DEFINE st == Within(args, word)
<1> DEFINE goal == Within(args, Append(word, c))
<1>1. /\ st \in ReadState /\ st.mode = "quoted" /\ st.args = args /\ st.current = word /\ st.has_current
  BY BetweenTyped, WithinParts
<1>2. word \o <<c>> = Append(word, c) /\ Append(word, c) \in Text /\ <<c>> \in Text
  BY DEF Text
<1>3. /\ goal \in ReadState /\ goal.mode = "quoted" /\ goal.args = args
      /\ goal.current = Append(word, c) /\ goal.has_current
  <2> DEFINE more == Append(word, c)
  <2>1. more \in Text
    BY <1>2
  <2> HIDE DEF more
  <2>2. /\ Within(args, more) \in ReadState /\ Within(args, more).mode = "quoted"
        /\ Within(args, more).args = args
        /\ Within(args, more).current = more /\ Within(args, more).has_current
    BY <2>1, BetweenTyped, WithinParts
  <2> QED BY <2>2 DEF more
<1> HIDE DEF st, goal
<1>4. CASE c \in Escapable
  <2>1. Escape(c) = Append(<<Backslash>>, c) /\ <<Backslash>> \in Text /\ Backslash \in Characters
    BY <1>4, CharactersAssumption DEF Escape, Text
  <2> DEFINE behind == [st EXCEPT !.mode = "escape"]
  <2>2. ReadAll(st, <<Backslash>>) = Read(st, Backslash)
    BY <1>1, <2>1, ReadOne
  <2>3. Read(st, Backslash) = behind
    BY <1>1 DEF Read, Backslash, Quote, Space
  <2>4. /\ behind \in ReadState /\ behind.mode = "escape" /\ behind.args = args
        /\ behind.current = word
    BY <1>1, ModeFacts
  <2> HIDE DEF behind
  <2> DEFINE pushed == Push(behind, <<c>>)
  <2>5. /\ pushed \in ReadState /\ pushed.args = args
        /\ pushed.current = Append(word, c) /\ pushed.has_current
    BY <1>2, <2>4, PushFacts
  <2>6. Read(behind, c) = [pushed EXCEPT !.mode = "quoted"]
    BY <2>4, <1>4 DEF Read
  <2> HIDE DEF pushed
  <2>7. /\ [pushed EXCEPT !.mode = "quoted"] \in ReadState
        /\ [pushed EXCEPT !.mode = "quoted"].mode = "quoted"
        /\ [pushed EXCEPT !.mode = "quoted"].args = args
        /\ [pushed EXCEPT !.mode = "quoted"].current = Append(word, c)
        /\ [pushed EXCEPT !.mode = "quoted"].has_current
    BY <2>5, ModeFacts
  <2>8. [pushed EXCEPT !.mode = "quoted"] = goal
    BY <1>3, <2>7, StateIsItsParts
  <2>9. ReadAll(st, Append(<<Backslash>>, c)) = Read(ReadAll(st, <<Backslash>>), c)
    BY <1>1, <2>1, ReadSteps
  <2>10. ReadAll(st, Escape(c)) = goal
    BY <2>1, <2>2, <2>3, <2>6, <2>8, <2>9
  <2> QED BY <2>10 DEF st, goal
<1>5. CASE c \notin Escapable
  <2>1. Escape(c) = <<c>> /\ c \notin {Quote, Backslash}
    BY <1>5 DEF Escape, Escapable
  <2>2. ReadAll(st, <<c>>) = Read(st, c)
    BY <1>1, ReadOne
  <2>3. Read(st, c) = Push(st, <<c>>)
    BY <2>1, <1>1 DEF Read
  <2>4. Push(st, <<c>>) = goal
    <3> DEFINE one == <<c>>
    <3>1. one \in Text /\ word \o one = Append(word, c)
      BY <1>2
    <3> HIDE DEF one
    <3>2. /\ Push(st, one) \in ReadState /\ Push(st, one).mode = "quoted" /\ Push(st, one).args = args
          /\ Push(st, one).current = Append(word, c) /\ Push(st, one).has_current
      BY <1>1, <3>1, PushFacts
    <3>3. Push(st, one) = goal
      BY <1>3, <3>2, StateIsItsParts
    <3> QED BY <3>3 DEF one
  <2> QED BY <2>1, <2>2, <2>3, <2>4 DEF st, goal
<1> QED BY <1>4, <1>5

LEMMA EscapedRead ==
  ASSUME NEW args \in Seq(Text)
  PROVE  \A arg \in Text : ReadAll(Within(args, << >>), Escaped(arg)) = Within(args, arg)
<1> DEFINE st == Within(args, << >>)
<1>0. << >> \in Text /\ st \in ReadState
  <2>1. << >> \in Text
    BY DEF Text
  <2> QED BY <2>1, BetweenTyped
<1> HIDE DEF st
<1> DEFINE P == {arg \in Text : ReadAll(st, Escaped(arg)) = Within(args, arg)}
<1>1. << >> \in P
  BY <1>0, EscapedFacts, ReadSteps DEF st
<1>2. ASSUME NEW arg \in Seq(Characters), NEW c \in Characters, arg \in P PROVE Append(arg, c) \in P
  <2>1. arg \in Text /\ Append(arg, c) \in Text
    BY DEF Text
  <2>2. Escaped(arg) \in Text /\ Escape(c) \in Text /\ Escaped(Append(arg, c)) = Escaped(arg) \o Escape(c)
    BY <2>1, EscapedFacts
  <2>3. ReadAll(st, Escaped(arg) \o Escape(c)) = ReadAll(ReadAll(st, Escaped(arg)), Escape(c))
    BY <1>0, <2>2, ReadOn
  <2>4. ReadAll(Within(args, arg), Escape(c)) = Within(args, Append(arg, c))
    BY <2>1, EscapeRead
  <2> QED BY <1>2, <2>1, <2>2, <2>3, <2>4
<1>3. \A arg \in Seq(Characters) : arg \in P
  <2> HIDE DEF P
  <2> QED BY <1>1, <1>2, AppendInduction
<1> QED BY <1>3 DEF Text, st

\* A whole argument, as the specification writes it.
AsWritten(arg) == Quoted(arg) \o <<Space>>

LEMMA WrittenRead ==
  ASSUME NEW args \in Seq(Text), NEW arg \in Text
  PROVE  AsWritten(arg) \in Text /\ ReadAll(Between(args), AsWritten(arg)) = Between(Append(args, arg))
<1> DEFINE st == Between(args)
<1> DEFINE word == Escaped(arg)
<1>1. /\ st \in ReadState /\ word \in Text /\ << >> \in Text
      /\ Quote \in Characters /\ Space \in Characters
      /\ <<Quote>> \in Text /\ <<Space>> \in Text
  BY BetweenTyped, EscapedFacts, CharactersAssumption DEF Text
<1>2. AsWritten(arg) = ((<<Quote>> \o word) \o <<Quote>>) \o <<Space>>
  BY DEF AsWritten, Quoted, Escaped, Escape
<1>3. ReadAll(st, <<Quote>>) = Within(args, << >>)
  <2>1. ReadAll(st, <<Quote>>) = Read(st, Quote)
    BY <1>1, ReadOne
  <2>2. Read(st, Quote) = OpenQuote(st)
    BY DEF Read, Between, Quote, Space
  <2>3. OpenQuote(st) = Within(args, << >>)
    <3>1. st.args = args /\ st.current = << >>
      BY WithinParts
    <3>2. /\ Within(args, << >>) \in ReadState /\ Within(args, << >>).mode = "quoted"
          /\ Within(args, << >>).args = args /\ Within(args, << >>).current = << >>
          /\ Within(args, << >>).has_current
      BY <1>1, BetweenTyped, WithinParts
    <3> HIDE DEF st
    <3>3. /\ OpenQuote(st) \in ReadState /\ OpenQuote(st).mode = "quoted" /\ OpenQuote(st).args = st.args
          /\ OpenQuote(st).current = st.current /\ OpenQuote(st).has_current
      BY <1>1 DEF OpenQuote, ReadState
    <3> QED BY <3>1, <3>2, <3>3, StateIsItsParts
  <2> QED BY <2>1, <2>2, <2>3
<1>4. ReadAll(Within(args, << >>), word) = Within(args, arg)
  BY EscapedRead
<1> HIDE DEF st, word
<1>5. <<Quote>> \o word \in Text /\ (<<Quote>> \o word) \o <<Quote>> \in Text
  BY <1>1 DEF Text
<1>6. ReadAll(st, <<Quote>> \o word) = Within(args, arg)
  BY <1>1, <1>3, <1>4, ReadOn
<1> DEFINE closed == [Within(args, arg) EXCEPT !.mode = "outside"]
<1>7. closed \in ReadState /\ ReadAll(st, (<<Quote>> \o word) \o <<Quote>>) = closed
  <2>1. Within(args, arg) \in ReadState
    BY BetweenTyped
  <2>2. ReadAll(Within(args, arg), <<Quote>>) = Read(Within(args, arg), Quote)
    BY <1>1, <2>1, ReadOne
  <2>3. Read(Within(args, arg), Quote) = closed
    BY DEF Read, Within, Quote, Space, Backslash
  <2>4. ReadAll(st, (<<Quote>> \o word) \o <<Quote>>) = ReadAll(ReadAll(st, <<Quote>> \o word), <<Quote>>)
    BY <1>1, <1>5, ReadOn
  <2>5. closed \in ReadState
    BY <2>1 DEF ReadState
  <2> QED BY <2>2, <2>3, <2>4, <2>5, <1>6
<1>8. ReadAll(closed, <<Space>>) = Between(Append(args, arg))
  <2>1. ReadAll(closed, <<Space>>) = Read(closed, Space)
    BY <1>1, <1>7, ReadOne
  <2>2. Read(closed, Space) = EndArgument(closed)
    BY DEF Read, Within, Quote, Space
  <2>3. EndArgument(closed) = Between(Append(args, arg))
    BY DEF EndArgument, Within, Between
  <2> QED BY <2>1, <2>2, <2>3
<1> HIDE DEF closed
<1>9. ReadAll(st, AsWritten(arg)) = ReadAll(closed, <<Space>>)
  BY <1>1, <1>2, <1>5, <1>7, ReadOn
<1>10. AsWritten(arg) \in Text
  BY <1>1, <1>2, <1>5 DEF Text
<1> QED BY <1>8, <1>9, <1>10 DEF st

LEMMA LineRead ==
  ASSUME NEW args \in Seq(Text), args # << >>
  PROVE  Tokenize(FlattenSeq([i \in DOMAIN args |-> Quoted(args[i]) \o <<Space>>])) = Ok(args)
<1> DEFINE g == [arg \in Text |-> AsWritten(arg)]
<1> DEFINE line(s) == FlattenSeq(Pieces(g, s))
<1>1. << >> \in Seq(Text)
  OBVIOUS
<1>2. \A arg \in Text : AsWritten(arg) \in Text
  BY <1>1, WrittenRead
<1>3. g \in [Text -> Seq(Characters)] /\ \A arg \in Text : g[arg] = AsWritten(arg)
  BY <1>2 DEF Text
<1>4. FlattenSeq([i \in DOMAIN args |-> Quoted(args[i]) \o <<Space>>]) = line(args)
  <2>1. \A i \in DOMAIN args : args[i] \in Text
    OBVIOUS
  <2>2. [i \in DOMAIN args |-> Quoted(args[i]) \o <<Space>>] = Pieces(g, args)
    BY <2>1 DEF AsWritten, Pieces
  <2> QED BY <2>2
<1> HIDE DEF g
<1>5. /\ line(<< >>) = << >>
      /\ \A s \in Seq(Text) : line(s) \in Seq(Characters)
      /\ \A s \in Seq(Text), x \in Text : line(Append(s, x)) = line(s) \o g[x]
  BY <1>3, PiecesFacts
<1> HIDE DEF line
<1>6. Start = Between(<< >>) /\ Start \in ReadState
  BY StartTyped DEF Start, Between
<1> DEFINE P == {s \in Seq(Text) : ReadAll(Start, line(s)) = Between(s)}
<1>7. << >> \in P
  BY <1>1, <1>5, <1>6, ReadSteps
<1>8. ASSUME NEW s \in Seq(Text), NEW x \in Text, s \in P PROVE Append(s, x) \in P
  <2>1. line(s) \in Text /\ AsWritten(x) \in Text /\ line(Append(s, x)) = line(s) \o AsWritten(x)
    BY <1>2, <1>3, <1>5 DEF Text
  <2>2. ReadAll(Start, line(s) \o AsWritten(x)) = ReadAll(ReadAll(Start, line(s)), AsWritten(x))
    BY <2>1, <1>6, ReadOn
  <2>3. ReadAll(Between(s), AsWritten(x)) = Between(Append(s, x))
    BY WrittenRead
  <2>4. Append(s, x) \in Seq(Text)
    OBVIOUS
  <2> QED BY <1>8, <2>1, <2>2, <2>3, <2>4
<1>9. \A s \in Seq(Text) : s \in P
  <2> HIDE DEF P
  <2> QED BY <1>7, <1>8, AppendInduction
<1>10. ReadAll(Start, line(args)) = Between(args)
  BY <1>9
<1>11. EndArgument(Between(args)).args = args /\ Between(args).mode = "outside"
  BY DEF EndArgument, Between
<1> QED BY <1>4, <1>10, <1>11 DEF Tokenize, NonEmpty

LEMMA ReadBack == LauncherInv => ArgumentsReadBack
<1> SUFFICES ASSUME LauncherInv, opened # None, opened[1].files # << >>
             PROVE  LET args == opened[1].files
                    IN  Tokenize(FlattenSeq([i \in DOMAIN args |-> Quoted(args[i]) \o <<Space>>])) = Ok(args)
  BY DEF ArgumentsReadBack
<1>1. PICK ctx \in Contexts : opened = <<ctx>>
  BY DEF LauncherInv
<1>2. opened[1].files \in Seq(Text)
  BY <1>1, ContextsAssumption
<1> QED BY <1>2, LineRead

----------------------------------------------------------------------------
(* What the codes stand for                                                *)

\* What is opened, over some characters and marks.
ContextOf(Y) ==
  [files : Seq(Seq(Y)), uris : Seq(Seq(Y)), icon : Seq(Seq(Y)), name : Seq(Seq(Y)), desktop_file : Seq(Seq(Y))]

CodeState(Y) == [expanded : Seq(Y), dropped : BOOLEAN, code : BOOLEAN, unknown : BOOLEAN]

LEMMA PutTyped ==
  ASSUME NEW Y, NEW st \in CodeState(Y), NEW chars \in Seq(Y)
  PROVE  /\ Put(st, chars) \in CodeState(Y)
         /\ Put(st, chars).expanded = st.expanded \o chars /\ ~Put(st, chars).code
         /\ Put(st, chars).dropped = st.dropped /\ Put(st, chars).unknown = st.unknown
<1>1. st.expanded \o chars \in Seq(Y)
  BY DEF CodeState
<1> QED BY <1>1 DEF Put, CodeState

LEMMA DropTyped ==
  ASSUME NEW Y, NEW st \in CodeState(Y), NEW r, r = [st EXCEPT !.dropped = TRUE]
  PROVE  /\ r \in CodeState(Y) /\ r.dropped /\ r.expanded = st.expanded
         /\ r.code = st.code /\ r.unknown = st.unknown
BY DEF CodeState

LEMMA UnknownTyped ==
  ASSUME NEW Y, NEW st \in CodeState(Y), NEW r, r = [st EXCEPT !.unknown = TRUE]
  PROVE  /\ r \in CodeState(Y) /\ r.unknown /\ r.expanded = st.expanded
         /\ r.code = st.code /\ r.dropped = st.dropped
BY DEF CodeState

LEMMA CodeTyped ==
  ASSUME NEW Y, NEW st \in CodeState(Y), NEW r, r = [st EXCEPT !.code = TRUE]
  PROVE  /\ r \in CodeState(Y) /\ r.code /\ r.expanded = st.expanded
         /\ r.dropped = st.dropped /\ r.unknown = st.unknown
BY DEF CodeState

\* Putting in the first of a few values, or none.
LEMMA PutFirstTyped ==
  ASSUME NEW Y, NEW st \in CodeState(Y), NEW values \in Seq(Seq(Y))
  PROVE  /\ PutFirst(st, values) \in CodeState(Y)
         /\ ~PutFirst(st, values).code /\ PutFirst(st, values).unknown = st.unknown
         /\ PutFirst(st, values).dropped <=> st.dropped \/ values = << >>
         /\ PutFirst(st, values).expanded = IF values = << >> THEN st.expanded ELSE st.expanded \o values[1]
<1>1. CASE values = << >>
  <2>1. << >> \in Seq(Y) /\ st.expanded \o << >> = st.expanded
    BY ConcatEmptySeq DEF CodeState
  <2> DEFINE put == Put(st, << >>)
  <2> DEFINE none == << >>
  <2>2. none \in Seq(Y) /\ st.expanded \o none = st.expanded /\ put = Put(st, none)
    BY <2>1
  <2> HIDE DEF put, none
  <2>2a. /\ put \in CodeState(Y) /\ put.expanded = st.expanded /\ ~put.code /\ put.unknown = st.unknown
    <3>1. Put(st, none) \in CodeState(Y)
      BY <2>2, PutTyped
    <3>2. Put(st, none).expanded = st.expanded \o none
      BY <2>2, PutTyped
    <3>3. ~Put(st, none).code /\ Put(st, none).unknown = st.unknown
      BY <2>2, PutTyped
    <3> QED BY <2>2, <3>1, <3>2, <3>3
  <2>3. PutFirst(st, values) = [put EXCEPT !.dropped = TRUE]
    BY <1>1 DEF PutFirst, put, none
  <2> DEFINE r == PutFirst(st, values)
  <2> HIDE DEF r
  <2>4. /\ r \in CodeState(Y) /\ r.dropped /\ r.expanded = put.expanded
        /\ r.code = put.code /\ r.unknown = put.unknown
    BY <2>2a, <2>3, DropTyped DEF r
  <2> QED BY <1>1, <2>2a, <2>4 DEF r
<1>2. CASE values # << >>
  <2>1. values[1] \in Seq(Y)
    <3>1. Len(values) # 0 /\ Len(values) \in Nat
      BY <1>2
    <3> QED BY <3>1
  <2>2. PutFirst(st, values) = Put(st, values[1])
    BY <1>2 DEF PutFirst
  <2> DEFINE chars == values[1]
  <2> HIDE DEF chars
  <2>3. chars \in Seq(Y)
    BY <2>1 DEF chars
  <2>4. /\ Put(st, chars) \in CodeState(Y)
        /\ Put(st, chars).expanded = st.expanded \o chars /\ ~Put(st, chars).code
        /\ Put(st, chars).dropped = st.dropped /\ Put(st, chars).unknown = st.unknown
    BY <2>3, PutTyped
  <2>5. PutFirst(st, values) = Put(st, chars)
    BY <2>2 DEF chars
  <2> QED BY <1>2, <2>4, <2>5 DEF chars
<1> QED BY <1>1, <1>2

\* What each code does to the argument, given that the character is one.
LEMMA CodeFacts ==
  ASSUME NEW Y, Characters \subseteq Y, NEW ctx \in ContextOf(Y), NEW st \in CodeState(Y), NEW c \in Characters
  PROVE  /\ Substitute(st, c, ctx) \in CodeState(Y)
         /\ Substitute(st, c, ctx).code <=> ~st.code /\ c = Percent
         /\ st.dropped => Substitute(st, c, ctx).dropped
         /\ st.code /\ c = "f" /\ ctx.files = << >> => Substitute(st, c, ctx).dropped
         /\ st.code /\ c = "u" /\ UrisOf(ctx) = << >> => Substitute(st, c, ctx).dropped
<1> DEFINE new == Substitute(st, c, ctx)
<1> DEFINE goal == /\ new \in CodeState(Y)
                   /\ new.code <=> ~st.code /\ c = Percent
                   /\ st.dropped => new.dropped
                   /\ st.code /\ c = "f" /\ ctx.files = << >> => new.dropped
                   /\ st.code /\ c = "u" /\ UrisOf(ctx) = << >> => new.dropped
<1>0. st.code \in BOOLEAN /\ << >> \in Seq(Y) /\ <<c>> \in Seq(Y) /\ <<Percent>> \in Seq(Y)
  BY CharactersAssumption DEF CodeState
<1>1. /\ ctx.files \in Seq(Seq(Y)) /\ UrisOf(ctx) \in Seq(Seq(Y))
      /\ ctx.name \in Seq(Seq(Y)) /\ ctx.desktop_file \in Seq(Seq(Y))
  BY DEF ContextOf, UrisOf
<1>2. \A values \in Seq(Seq(Y)) : (IF values = << >> THEN << >> ELSE values[1]) \in Seq(Y)
  <2> TAKE values \in Seq(Seq(Y))
  <2>1. values # << >> => 1 \in 1..Len(values)
    OBVIOUS
  <2> QED BY <1>0, <2>1
<1>3. CASE ~st.code /\ c = Percent
  <2>1. new = [st EXCEPT !.code = TRUE]
    BY <1>3 DEF Substitute
  <2> HIDE DEF new
  <2>2. goal
    BY <1>3, <2>1, CodeTyped
  <2> QED BY <2>2 DEF new
<1>4. CASE ~st.code /\ c # Percent
  <2>1. new = Put(st, <<c>>)
    BY <1>4 DEF Substitute
  <2> HIDE DEF new
  <2>2. goal
    BY <1>4, <1>0, <2>1, PutTyped
  <2> QED BY <2>2 DEF new
<1>5. CASE st.code
  <2>1. CASE c = "f" \/ c = "u"
    <3>1. \/ c = "f" /\ new = PutFirst(st, ctx.files)
          \/ c = "u" /\ new = PutFirst(st, UrisOf(ctx))
      BY <1>5, <2>1 DEF Substitute, Percent, Deprecated
    <3> HIDE DEF new
    <3>2. c # Percent
      BY <2>1 DEF Percent
    <3>3. goal
      <4>1. PICK values \in Seq(Seq(Y)) :
              /\ new = PutFirst(st, values)
              /\ c = "f" => values = ctx.files
              /\ c = "u" => values = UrisOf(ctx)
        BY <1>1, <3>1
      <4>2. /\ new \in CodeState(Y) /\ ~new.code /\ (new.dropped <=> st.dropped \/ values = << >>)
        BY <4>1, PutFirstTyped
      <4> QED BY <1>5, <3>2, <4>1, <4>2
    <3> QED BY <3>3 DEF new
  <2>2. CASE c \in {Percent, "c", "k"} \cup Deprecated
    <3>1. PICK chars \in Seq(Y) : new = Put(st, chars)
      <4>1. CASE c = Percent
        BY <4>1, <1>0, <1>5 DEF Substitute, Percent, Deprecated
      <4>2. CASE c = "c"
        BY <4>2, <1>1, <1>2, <1>5 DEF Substitute, Percent, Deprecated
      <4>3. CASE c = "k"
        BY <4>3, <1>1, <1>2, <1>5 DEF Substitute, Percent, Deprecated
      <4>4. CASE c \in Deprecated
        BY <4>4, <1>0, <1>5 DEF Substitute, Percent, Deprecated
      <4> QED BY <2>2, <4>1, <4>2, <4>3, <4>4
    <3>2. c # "f" /\ c # "u"
      BY <2>2 DEF Percent, Deprecated
    <3> HIDE DEF new
    <3>3. goal
      BY <1>5, <3>1, <3>2, PutTyped
    <3> QED BY <3>3 DEF new
  <2>3. CASE c \notin {Percent, "f", "u", "c", "k"} \cup Deprecated
    <3> DEFINE put == Put(st, << >>)
    <3>1. /\ put \in CodeState(Y) /\ ~put.code /\ put.dropped = st.dropped
      BY <1>0, PutTyped
    <3> HIDE DEF put
    <3>2. new = [put EXCEPT !.dropped = TRUE] \/ new = [put EXCEPT !.unknown = TRUE]
      BY <1>5, <2>3 DEF Substitute, Percent, Deprecated, put
    <3> HIDE DEF new
    <3>3. goal
      <4>1. new \in CodeState(Y) /\ new.code = put.code /\ (put.dropped => new.dropped)
        BY <3>1, <3>2, DropTyped, UnknownTyped
      <4> QED BY <1>5, <2>3, <3>1, <4>1
    <3> QED BY <3>3 DEF new
  <2> QED BY <2>1, <2>2, <2>3
<1> QED BY <1>0, <1>3, <1>4, <1>5

LEMMA CodeSteps ==
  ASSUME NEW ctx
  PROVE  /\ Substituted(<< >>, ctx) = Begin
         /\ \A s \in Text, x \in Characters :
              Substituted(Append(s, x), ctx) = Substitute(Substituted(s, ctx), x, ctx)
<1>1. ASSUME NEW s \in Seq(Characters), NEW x \in Characters
      PROVE  /\ Substituted(<< >>, ctx) = Begin
             /\ Substituted(Append(s, x), ctx) = Substitute(Substituted(s, ctx), x, ctx)
  BY SubstitutedFacts
<1>2. << >> \in Seq(Characters) /\ Space \in Characters
  BY CharactersAssumption
<1> QED BY <1>1, <1>2 DEF Text

LEMMA BeginTyped == \A Y : Begin \in CodeState(Y)
<1> TAKE Y
<1>1. << >> \in Seq(Y)
  OBVIOUS
<1> QED BY <1>1 DEF Begin, CodeState

LEMMA CodesTyped ==
  ASSUME NEW Y, Characters \subseteq Y, NEW ctx \in ContextOf(Y)
  PROVE  \A arg \in Text : Substituted(arg, ctx) \in CodeState(Y)
<1> DEFINE P == {arg \in Text : Substituted(arg, ctx) \in CodeState(Y)}
<1>1. << >> \in P
  <2>1. << >> \in Text
    BY DEF Text
  <2> QED BY <2>1, CodeSteps, BeginTyped
<1>2. ASSUME NEW s \in Seq(Characters), NEW x \in Characters, s \in P PROVE Append(s, x) \in P
  <2>1. s \in Text /\ Append(s, x) \in Text
    BY DEF Text
  <2>2. Substituted(Append(s, x), ctx) = Substitute(Substituted(s, ctx), x, ctx)
    BY <2>1, CodeSteps
  <2>3. Substitute(Substituted(s, ctx), x, ctx) \in CodeState(Y)
    BY <1>2, CodeFacts
  <2> QED BY <2>1, <2>2, <2>3
<1>3. \A s \in Seq(Characters) : s \in P
  <2> HIDE DEF P
  <2> QED BY <1>1, <1>2, AppendInduction
<1> QED BY <1>3 DEF Text

\* What one argument becomes.
LEMMA ExpandedTyped ==
  ASSUME NEW Y, Characters \cup {"--icon"} \subseteq Y, NEW ctx \in ContextOf(Y), NEW arg \in Text
  PROVE  Expanded(arg, ctx).args \in Seq(Seq(Y))
<1> DEFINE st == Substituted(arg, ctx)
<1> DEFINE word == IF st.code THEN Append(st.expanded, Percent) ELSE st.expanded
<1>1. st \in CodeState(Y)
  BY CodesTyped
<1> HIDE DEF st
<1>2. word \in Seq(Y)
  <2>1. Percent \in Y /\ st.expanded \in Seq(Y)
    BY <1>1, CharactersAssumption DEF CodeState
  <2> QED BY <2>1
<1>3. /\ ctx.files \in Seq(Seq(Y)) /\ UrisOf(ctx) \in Seq(Seq(Y)) /\ ctx.icon \in Seq(Seq(Y))
  BY DEF ContextOf, UrisOf
<1> HIDE DEF word
<1>4. arg \in Seq(Y)
  <2>1. Seq(Characters) \subseteq Seq(Y)
    BY SeqMonotonic
  <2> QED BY <2>1 DEF Text
<1>5. /\ << >> \in Seq(Seq(Y)) /\ <<arg>> \in Seq(Seq(Y)) /\ <<word>> \in Seq(Seq(Y))
      /\ ctx.icon # << >> => << <<"--icon">>, ctx.icon[1] >> \in Seq(Seq(Y))
  <2>1. ctx.icon # << >> => ctx.icon[1] \in Seq(Y)
    <3>1. ctx.icon # << >> => 1 \in 1..Len(ctx.icon)
      BY <1>3
    <3> QED BY <1>3, <3>1
  <2>2. <<"--icon">> \in Seq(Y)
    OBVIOUS
  <2> QED BY <1>2, <1>4, <2>1, <2>2
<1>6. /\ Expanded(arg, ctx) =
           CASE ~Contains(arg, Percent) -> Ok(<<arg>>)
             [] arg = <<Percent, "F">> -> Ok(ctx.files)
             [] arg = <<Percent, "U">> -> Ok(UrisOf(ctx))
             [] arg = <<Percent, "i">> ->
                  Ok(IF ctx.icon = << >> THEN << >> ELSE << <<"--icon">>, ctx.icon[1] >>)
             [] OTHER -> IF st.unknown THEN UnknownFieldCode
                         ELSE Ok(IF st.dropped \/ word = << >> THEN << >> ELSE <<word>>)
  BY DEF Expanded, st, word
<1>7. UnknownFieldCode.args = << >> /\ \A args : Ok(args).args = args
  BY DEF UnknownFieldCode, Error, Ok
<1>8. \/ Expanded(arg, ctx) = UnknownFieldCode
      \/ \E args \in {<<arg>>, ctx.files, UrisOf(ctx), << >>, <<word>>} : Expanded(arg, ctx) = Ok(args)
      \/ ctx.icon # << >> /\ Expanded(arg, ctx) = Ok(<< <<"--icon">>, ctx.icon[1] >>)
  BY <1>6
<1> QED BY <1>3, <1>5, <1>7, <1>8

\* The percents that stand together before a place.
Run(s, i) == {j \in 1..i : \A l \in j..i : s[l] = Percent}

LEMMA RunFacts ==
  ASSUME NEW s \in Text, NEW x \in Characters, NEW t, t = Append(s, x)
  PROVE  /\ \A i \in 0..Len(s) : Run(t, i) = Run(s, i)
         /\ Run(t, Len(s) + 1) = IF x = Percent THEN Run(s, Len(s)) \cup {Len(s) + 1} ELSE {}
         /\ Run(s, Len(s)) \subseteq 1..Len(s)
         /\ Run(s, 0) = {}
<1> DEFINE n == Len(s)
<1>1. n \in Nat /\ t[n + 1] = x /\ \A i \in 1..n : t[i] = s[i]
  BY DEF Text
<1> HIDE DEF n
<1>2. ASSUME NEW i \in 0..n PROVE Run(t, i) = Run(s, i)
  <2>1. ASSUME NEW j \in 1..i, NEW l \in j..i PROVE t[l] = s[l]
    <3>1. l \in 1..n
      BY <1>1
    <3> QED BY <1>1, <3>1
  <2> QED BY <2>1 DEF Run
<1>3. Run(s, n) \subseteq 1..n /\ Run(s, 0) = {}
  BY <1>1 DEF Run
<1>4. CASE x = Percent
  <2>1. ASSUME NEW j \in 1..n PROVE j \in Run(t, n + 1) <=> j \in Run(s, n)
    <3>1. j \in 1..(n + 1) /\ n + 1 \in j..(n + 1)
      BY <1>1
    <3>2. ASSUME NEW l \in j..n PROVE l \in j..(n + 1) /\ t[l] = s[l]
      <4>1. l \in 1..n
        BY <1>1
      <4>2. t[l] = s[l]
        BY <4>1, <1>1
      <4>3. l \in j..(n + 1)
        <5> HIDE DEF Run
        <5>1. j \in Int /\ n \in Int /\ l \in Int /\ j <= l /\ l <= n
          BY <1>1
        <5> QED BY <5>1
      <4> QED BY <4>2, <4>3
    <3>3. ASSUME NEW l \in j..(n + 1), l # n + 1 PROVE l \in j..n
      BY <3>3, <1>1
    <3> QED BY <3>1, <3>2, <3>3, <1>1, <1>4 DEF Run
  <2>2. n + 1 \in Run(t, n + 1)
    <3>1. n + 1 \in 1..(n + 1) /\ \A l \in (n + 1)..(n + 1) : l = n + 1
      BY <1>1
    <3> QED BY <3>1, <1>1, <1>4 DEF Run
  <2>3. Run(t, n + 1) \subseteq 1..n \cup {n + 1}
    BY <1>1 DEF Run
  <2>4. Run(t, n + 1) = Run(s, n) \cup {n + 1}
    BY <1>3, <2>1, <2>2, <2>3
  <2> QED BY <1>2, <1>3, <1>4, <2>4 DEF n
<1>5. CASE x # Percent
  <2>1. \A j \in 1..(n + 1) : n + 1 \in j..(n + 1)
    BY <1>1
  <2>2. Run(t, n + 1) = {}
    BY <2>1, <1>1, <1>5 DEF Run
  <2> QED BY <1>2, <1>3, <1>5, <2>2 DEF n
<1> QED BY <1>4, <1>5

\* The reader is behind a percent when an odd number of them stands together,
\* and an argument that asks for a file is dropped.
Counted(s, ctx) ==
  /\ IsFiniteSet(Run(s, Len(s)))
  /\ Substituted(s, ctx).code <=> Cardinality(Run(s, Len(s))) % 2 = 1
  /\ Asks(s) => Substituted(s, ctx).dropped

\* With nothing to open a code for a file drops its argument.
LEMMA AskingIsDropped ==
  ASSUME NEW Y, Characters \subseteq Y, NEW ctx \in ContextOf(Y), ctx.files = << >>, ctx.uris = << >>
  PROVE  \A arg \in Text : Asks(arg) => Substituted(arg, ctx).dropped
<1> DEFINE P == {s \in Text : Counted(s, ctx)}
<1>0. Cardinality({}) = 0 /\ IsFiniteSet({})
  BY FS_EmptySet
<1>1. << >> \in P
  <2>1. << >> \in Text /\ Len(<< >>) = 0
    BY DEF Text
  <2>2. Substituted(<< >>, ctx) = Begin /\ ~Begin.code
    BY CodeSteps DEF Begin
  <2>3. Run(<< >>, 0) = {} /\ 1..(0 - 1) = {}
    BY DEF Run
  <2> DEFINE none == << >>
  <2> HIDE DEF none
  <2>4. ~Asks(none)
    BY <2>1, <2>3 DEF Asks, none
  <2>5. Run(none, Len(none)) = {}
    BY <2>1, <2>3 DEF none
  <2>6. ~Substituted(none, ctx).code
    BY <2>2 DEF none
  <2>7. Cardinality(Run(none, Len(none))) % 2 # 1
    <3>1. Cardinality(Run(none, Len(none))) = 0
      BY <1>0, <2>5
    <3> QED BY <3>1
  <2>8. Counted(none, ctx)
    BY <1>0, <2>4, <2>5, <2>6, <2>7 DEF Counted
  <2> QED BY <2>1, <2>8 DEF none
<1>2. ASSUME NEW s \in Seq(Characters), NEW x \in Characters, s \in P PROVE Append(s, x) \in P
  <2> DEFINE t == Append(s, x)
  <2> DEFINE n == Len(s)
  <2> DEFINE st == Substituted(s, ctx)
  <2> DEFINE new == Substituted(t, ctx)
  <2>1. s \in Text /\ t \in Text /\ n \in Nat /\ Len(t) = n + 1 /\ t[n + 1] = x /\ \A i \in 1..n : t[i] = s[i]
    BY DEF Text
  <2>2. Counted(s, ctx)
    BY <1>2
  <2>3. /\ \A i \in 0..n : Run(t, i) = Run(s, i)
        /\ Run(t, n + 1) = IF x = Percent THEN Run(s, n) \cup {n + 1} ELSE {}
        /\ Run(s, n) \subseteq 1..n /\ Run(s, 0) = {}
    BY <2>1, RunFacts
  <2>4. st \in CodeState(Y) /\ new = Substitute(st, x, ctx)
    BY <2>1, CodesTyped, CodeSteps
  <2>5. UrisOf(ctx) = << >>
    BY DEF UrisOf
  <2>6. /\ new.code <=> ~st.code /\ x = Percent
        /\ st.dropped => new.dropped
        /\ st.code /\ x \in {"f", "u"} => new.dropped
    BY <2>4, <2>5, CodeFacts
  <2> DEFINE before == Run(s, n)
  <2>7. /\ IsFiniteSet(before) /\ (st.code <=> Cardinality(before) % 2 = 1)
        /\ Asks(s) => st.dropped
    BY <2>2 DEF Counted
  <2>8. Cardinality(before) \in Nat
    BY <2>7, FS_CardinalityType
  <2> HIDE DEF st, new, t, n
  <2>9. IsFiniteSet(Run(t, n + 1)) /\ (new.code <=> Cardinality(Run(t, n + 1)) % 2 = 1)
    <3>1. CASE x = Percent
      <4>1. n + 1 \notin before /\ Run(t, n + 1) = before \cup {n + 1}
        BY <2>1, <2>3, <3>1
      <4> HIDE DEF before
      <4>2. /\ IsFiniteSet(before \cup {n + 1})
            /\ Cardinality(before \cup {n + 1}) = Cardinality(before) + 1
        BY <2>7, <4>1, FS_AddElement
      <4>3. \A k \in Nat : (k + 1) % 2 = 1 <=> k % 2 # 1
        OBVIOUS
      <4>4. Cardinality(before \cup {n + 1}) % 2 = 1 <=> ~st.code
        BY <2>7, <2>8, <4>2, <4>3
      <4> QED BY <2>6, <3>1, <4>1, <4>2, <4>4
    <3>2. CASE x # Percent
      <4>1. Run(t, n + 1) = {}
        BY <2>3, <3>2
      <4>2. 0 % 2 # 1 /\ Cardinality({}) = 0
        BY <1>0
      <4> QED BY <1>0, <2>6, <3>2, <4>1, <4>2
    <3> QED BY <3>1, <3>2
  <2>10. ASSUME Asks(t) PROVE new.dropped
    <3>1. PICK i \in 1..(Len(t) - 1) : t[i + 1] \in {"f", "u"} /\ Cardinality(Run(t, i)) % 2 = 1
      BY <2>10 DEF Asks, Run
    <3>2. i \in 1..n /\ Run(t, i) = Run(s, i)
      BY <2>1, <2>3, <3>1
    <3>3. CASE i = n
      <4>1. st.code
        BY <3>1, <3>2, <3>3, <2>7
      <4>2. x \in {"f", "u"}
        BY <3>1, <3>3, <2>1
      <4> QED BY <4>1, <4>2, <2>6
    <3>4. CASE i # n
      <4>1. i \in 1..(Len(s) - 1) /\ s[i + 1] = t[i + 1]
        <5>1. i \in Int /\ i >= 1 /\ i <= n /\ i # n /\ n = Len(s)
          BY <3>2, <3>4, <2>1 DEF n
        <5>2. i \in 1..(n - 1) /\ i + 1 \in 1..n
          BY <5>1, <2>1
        <5> QED BY <5>1, <5>2, <2>1
      <4>2. Asks(s)
        BY <3>1, <3>2, <4>1 DEF Asks, Run
      <4> QED BY <4>2, <2>7, <2>6
    <3> QED BY <3>3, <3>4
  <2>11. Counted(t, ctx)
    BY <2>1, <2>9, <2>10 DEF Counted, new
  <2> QED BY <2>1, <2>11 DEF t
<1>3. \A s \in Seq(Characters) : s \in P
  <2> HIDE DEF P
  <2> QED BY <1>1, <1>2, AppendInduction
<1>4. ASSUME NEW arg \in Text, Asks(arg) PROVE Substituted(arg, ctx).dropped
  <2>1. Counted(arg, ctx)
    BY <1>3 DEF Text
  <2> QED BY <1>4, <2>1 DEF Counted
<1> QED BY <1>4

LEMMA AskingSaysNothing ==
  ASSUME NEW Y, Characters \cup {"--icon"} \subseteq Y, NEW ctx \in ContextOf(Y),
         ctx.files = << >>, ctx.uris = << >>, NEW arg \in Text, Asks(arg),
         ~IsError(Expanded(arg, ctx))
  PROVE  Expanded(arg, ctx).args = << >>
<1>1. PICK i \in 1..(Len(arg) - 1) : arg[i + 1] \in {"f", "u"} /\ Cardinality(Run(arg, i)) % 2 = 1
  BY DEF Asks, Run
<1>2. Len(arg) \in Nat /\ i \in 1..Len(arg)
  BY DEF Text
<1>3. Contains(arg, Percent)
  <2>1. Run(arg, i) # {}
    <3>1. Cardinality({}) = 0 /\ 0 % 2 # 1
      BY FS_EmptySet
    <3> QED BY <1>1, <3>1
  <2>2. PICK j \in Run(arg, i) : TRUE
    BY <2>1
  <2>3. i \in j..i /\ arg[i] = Percent
    BY <1>2, <2>2 DEF Run
  <2> QED BY <1>2, <2>3 DEF Contains
<1>4. arg # <<Percent, "i">>
  <2> SUFFICES ASSUME arg = <<Percent, "i">> PROVE FALSE
    OBVIOUS
  <2>1. Len(arg) = 2 /\ arg[2] = "i"
    OBVIOUS
  <2>2. i = 1
    BY <1>1, <2>1
  <2> QED BY <1>1, <2>1, <2>2
<1>5. Substituted(arg, ctx).dropped
  BY AskingIsDropped
<1>6. UrisOf(ctx) = << >>
  BY DEF UrisOf
<1>7. IsError(UnknownFieldCode) /\ \A args : Ok(args).args = args
  BY DEF IsError, UnknownFieldCode, Error, Ok
<1>8. \/ Expanded(arg, ctx) = UnknownFieldCode
      \/ Expanded(arg, ctx) = Ok(<< >>)
  BY <1>3, <1>4, <1>5, <1>6 DEF Expanded
<1> QED BY <1>7, <1>8

\* What all the arguments become, piece by piece.
Become(ctx) == [arg \in Text |-> Expanded(arg, ctx).args]

LEMMA EachFacts ==
  ASSUME NEW Y, Characters \cup {"--icon"} \subseteq Y, NEW ctx \in ContextOf(Y)
  PROVE  /\ Become(ctx) \in [Text -> Seq(Seq(Y))]
         /\ \A args \in Seq(Text) :
              Expand(args, ctx) = IF \E a \in Elements(args) : IsError(Expanded(a, ctx)) THEN UnknownFieldCode
                                  ELSE NonEmpty(FlattenSeq(Pieces(Become(ctx), args)))
<1>1. Become(ctx) \in [Text -> Seq(Seq(Y))]
  BY ExpandedTyped DEF Become
<1>2. ASSUME NEW args \in Seq(Text)
      PROVE  Expand(args, ctx) = IF \E a \in Elements(args) : IsError(Expanded(a, ctx)) THEN UnknownFieldCode
                                 ELSE NonEmpty(FlattenSeq(Pieces(Become(ctx), args)))
  <2>1. DOMAIN args = 1..Len(args) /\ \A i \in DOMAIN args : args[i] \in Text
    OBVIOUS
  <2>2. [i \in DOMAIN args |-> Expanded(args[i], ctx).args] = Pieces(Become(ctx), args)
    BY <2>1 DEF Become, Pieces
  <2>3. (\E i \in DOMAIN args : IsError(Expanded(args[i], ctx)))
          <=> \E a \in Elements(args) : IsError(Expanded(a, ctx))
    BY <2>1 DEF Elements
  <2> QED BY <2>2, <2>3 DEF Expand, Each
<1> QED BY <1>1, <1>2

LEMMA WithoutAsking ==
  ASSUME NEW Y, Characters \cup {"--icon"} \subseteq Y, NEW ctx \in ContextOf(Y),
         ctx.files = << >>, ctx.uris = << >>, NEW args \in Seq(Text), ~IsError(Expand(args, ctx))
  PROVE  Expand(args, ctx) = Expand(Retain(args, {a \in Elements(args) : ~Asks(a)}), ctx)
<1> DEFINE E == Elements(args)
<1> DEFINE R == {a \in E : ~Asks(a)}
<1> DEFINE flat(s) == FlattenSeq(Pieces(Become(ctx), s))
<1>1. args \in Seq(E) /\ E \subseteq Text
  <2>1. Len(args) \in Nat /\ args \in [1..Len(args) -> Text]
    OBVIOUS
  <2>2. \A i \in 1..Len(args) : args[i] \in E
    BY DEF Elements
  <2>3. E \subseteq Text
    BY <2>1 DEF Elements
  <2> HIDE DEF E
  <2>4. args \in [1..Len(args) -> E]
    BY <2>1, <2>2
  <2> QED BY <2>1, <2>3, <2>4, SeqDef
<1>2. \A a \in E : ~IsError(Expanded(a, ctx))
  <2>1. IsError(UnknownFieldCode)
    BY DEF IsError, UnknownFieldCode, Error
  <2> QED BY <2>1, EachFacts
<1> HIDE DEF E
<1>3. \A a \in E : Asks(a) => Become(ctx)[a] = << >>
  BY <1>1, <1>2, AskingSaysNothing DEF Become
<1>4. /\ flat(<< >>) = << >>
      /\ \A s \in Seq(Text) : flat(s) \in Seq(Seq(Y))
      /\ \A s \in Seq(Text), x \in Text : flat(Append(s, x)) = flat(s) \o Become(ctx)[x]
  <2>1. Become(ctx) \in [Text -> Seq(Seq(Y))]
    BY EachFacts
  <2> QED BY <2>1, PiecesFacts
<1> HIDE DEF flat
<1> DEFINE P == {s \in Seq(E) : flat(Retain(s, R)) = flat(s)}
<1>5. << >> \in P
  <2>1. << >> \in Seq(E) /\ << >> \in Seq({0}) /\ 0 \in {0}
    OBVIOUS
  <2>2. Retain(<< >>, R) = << >>
    BY <2>1, RetainAppend
  <2> QED BY <2>1, <2>2
<1>6. ASSUME NEW s \in Seq(E), NEW x \in E, s \in P PROVE Append(s, x) \in P
  <2>1. /\ s \in Seq(Text) /\ x \in Text /\ Retain(s, R) \in Seq(Text) /\ Append(s, x) \in Seq(E)
    <3>1. Seq(E) \subseteq Seq(Text)
      BY <1>1, SeqMonotonic
    <3>2. Retain(s, R) \in Seq(E)
      BY RetainFacts
    <3> QED BY <3>1, <3>2, <1>1
  <2>2. Retain(Append(s, x), R) = IF x \in R THEN Append(Retain(s, R), x) ELSE Retain(s, R)
    BY RetainAppend
  <2>3. flat(Append(s, x)) = flat(s) \o Become(ctx)[x]
    BY <1>4, <2>1
  <2>4. CASE x \in R
    <3>1. flat(Append(Retain(s, R), x)) = flat(Retain(s, R)) \o Become(ctx)[x]
      BY <1>4, <2>1
    <3> QED BY <1>6, <2>1, <2>2, <2>3, <2>4, <3>1
  <2>5. CASE x \notin R
    <3>1. Become(ctx)[x] = << >>
      BY <2>5, <1>3
    <3>2. flat(s) \o << >> = flat(s)
      BY <1>4, <2>1, ConcatEmptySeq
    <3> QED BY <1>6, <2>1, <2>2, <2>3, <2>5, <3>1, <3>2
  <2> QED BY <2>4, <2>5
<1>7. \A s \in Seq(E) : s \in P
  <2> HIDE DEF P
  <2> QED BY <1>5, <1>6, AppendInduction
<1>8. flat(Retain(args, R)) = flat(args)
  BY <1>1, <1>7
<1>9. Retain(args, R) \in Seq(Text) /\ Elements(Retain(args, R)) \subseteq E
  BY RetainFacts DEF E
<1>10. Expand(args, ctx) = NonEmpty(flat(args))
  BY <1>2, EachFacts DEF E, flat
<1>11. Expand(Retain(args, R), ctx) = NonEmpty(flat(Retain(args, R)))
  BY <1>2, <1>9, EachFacts DEF flat
<1> QED BY <1>8, <1>10, <1>11 DEF R, E

\* What an entry's command is made of is text.
LEMMA EntryTyped ==
  ASSUME LauncherInv, IsEntry
  PROVE  /\ entry.name \in Text /\ entry.icon \in Seq(Text)
         /\ entry.exec # None => entry.exec[1] \in Text
<1> DEFINE plain == Plain(ReadLines(content).keys)
<1>1. content \in Seq(FileLines) /\ "Name" \in DOMAIN plain /\ entry = EntryOf(ReadLines(content).keys)
  BY EntryFacts
<1>2. ASSUME NEW name \in {"Name", "Icon", "Exec"}, name \in DOMAIN plain PROVE plain[name] \in Text
  <2> DEFINE S == Sayings(content, <<name>>)
  <2>1. S # {} /\ plain[name] = content[Max(S)].value
    BY <1>1, <1>2, PlainFacts
  <2>2. Len(content) \in Nat /\ DOMAIN content = 1..Len(content)
    BY <1>1
  <2>3. S \subseteq 1..Len(content)
    BY <2>2 DEF Sayings, Own
  <2>4. Max(S) \in S
    BY <2>1, <2>2, <2>3, Greatest
  <2>5. content[Max(S)].kind = "key" /\ content[Max(S)].key = <<name>>
    BY <2>4 DEF Sayings
  <2>6. content[Max(S)] \in FileLines
    <3> HIDE DEF S
    <3>1. content \in Seq(FileLines) /\ Max(S) \in 1..Len(content)
      BY <1>1, <2>3, <2>4
    <3> QED BY <3>1
  <2>7. content[Max(S)].value \in Text
    BY <1>2, <2>5, <2>6, LinesAssumption
  <2> HIDE DEF plain, S
  <2> QED BY <2>1, <2>7
<1> HIDE DEF plain
<1>3. /\ entry.name = plain["Name"] /\ entry.icon = Optional(plain, "Icon")
      /\ entry.exec = Optional(plain, "Exec")
  BY <1>1 DEF EntryOf, plain
<1>4. entry.name \in Text
  BY <1>1, <1>2, <1>3
<1>5. entry.icon \in Seq(Text)
  BY <1>2, <1>3 DEF Optional, None
<1>6. entry.exec # None => entry.exec[1] \in Text
  BY <1>2, <1>3 DEF Optional, None
<1> QED BY <1>4, <1>5, <1>6

\* The characters and what an icon's option is called.
Letters == Characters \cup {"--icon"}

LEMMA CompletedTyped ==
  ASSUME LauncherInv, IsEntry, NEW Y, Characters \subseteq Y, NEW ctx \in ContextOf(Y)
  PROVE  /\ Completed(entry, ctx) \in ContextOf(Y)
         /\ Completed(entry, ctx).files = ctx.files /\ Completed(entry, ctx).uris = ctx.uris
<1> DEFINE e == entry
<1>1. Text \subseteq Seq(Y) /\ Seq(Text) \subseteq Seq(Seq(Y))
  <2>1. Seq(Characters) \subseteq Seq(Y)
    BY SeqMonotonic
  <2>2. Text \subseteq Seq(Y)
    BY <2>1 DEF Text
  <2> HIDE DEF Text
  <2>3. Seq(Text) \subseteq Seq(Seq(Y))
    BY <2>2, SeqMonotonic
  <2> QED BY <2>2, <2>3
<1>2. entry.name \in Text /\ entry.icon \in Seq(Text)
  BY EntryTyped
<1>3. e.name \in Seq(Y) /\ e.icon \in Seq(Seq(Y)) /\ <<e.name>> \in Seq(Seq(Y))
  BY <1>1, <1>2
<1> HIDE DEF e
<1>4. Completed(e, ctx) \in ContextOf(Y) /\ Completed(e, ctx).files = ctx.files /\ Completed(e, ctx).uris = ctx.uris
  <2> DEFINE icon == IF ctx.icon = None THEN e.icon ELSE ctx.icon
  <2> DEFINE name == IF ctx.name = None THEN <<e.name>> ELSE ctx.name
  <2>1. icon \in Seq(Seq(Y)) /\ name \in Seq(Seq(Y))
    BY <1>3 DEF ContextOf
  <2>2. Completed(e, ctx) = [ctx EXCEPT !.icon = icon, !.name = name]
    BY DEF Completed
  <2> HIDE DEF icon, name
  <2> QED BY <2>1, <2>2 DEF ContextOf
<1> QED BY <1>4 DEF e

LEMMA ContextTyped ==
  ASSUME NEW Y, Characters \subseteq Y, NEW ctx \in Contexts
  PROVE  ctx \in ContextOf(Y)
<1>1. Text \subseteq Seq(Y)
  <2>1. Seq(Characters) \subseteq Seq(Y)
    BY SeqMonotonic
  <2> QED BY <2>1 DEF Text
<1>2. Seq(Text) \subseteq Seq(Seq(Y))
  <2> HIDE DEF Text
  <2> QED BY <1>1, SeqMonotonic
<1>3. ctx \in [files : Seq(Text), uris : Seq(Text), icon : Seq(Text), name : Seq(Text), desktop_file : Seq(Text)]
  BY ContextsAssumption
<1> HIDE DEF Text
<1> QED BY <1>2, <1>3 DEF ContextOf

LEMMA NothingAsked == LauncherInv => NoFileNoArgument
<1> SUFFICES ASSUME LauncherInv, opened # None, entry.exec # None, opened[1].files = << >>, opened[1].uris = << >>,
                    NEW args, args = Tokenize(entry.exec[1]), ~IsError(args), ~IsError(argv)
             PROVE  argv = Expand(Retain(args.args, {a \in Elements(args.args) : ~Asks(a)}),
                                  Completed(entry, opened[1]))
  BY DEF NoFileNoArgument
<1>1. PICK ctx \in Contexts : IsEntry /\ opened = <<ctx>> /\ argv = Command(entry, ctx)
  BY DEF LauncherInv
<1>2. opened[1] = ctx /\ ctx.files = << >> /\ ctx.uris = << >>
  BY <1>1
<1> DEFINE whole == Completed(entry, ctx)
<1>3. /\ Characters \subseteq Letters /\ Letters \subseteq Letters
      /\ Characters \cup {"--icon"} \subseteq Letters
  BY DEF Letters
<1>4. whole \in ContextOf(Letters) /\ whole.files = << >> /\ whole.uris = << >>
  BY <1>1, <1>2, <1>3, ContextTyped, CompletedTyped
<1>5. entry.exec[1] \in Text
  BY <1>1, EntryTyped
<1>6. args.args \in Seq(Text)
  BY <1>5, TokensTyped
<1>7. argv = Expand(args.args, whole)
  BY <1>1 DEF Command
<1> HIDE DEF whole
<1>8. Expand(args.args, whole) = Expand(Retain(args.args, {a \in Elements(args.args) : ~Asks(a)}), whole)
  BY <1>3, <1>4, <1>6, <1>7, WithoutAsking
<1> QED BY <1>2, <1>7, <1>8 DEF whole

\* What stands in a command for files under names that mean nothing.
Marked(ctx) == Letters \cup FileMarks(ctx) \cup UriMarks(ctx)

\* No name is empty, and no letter is a name that means nothing.
Openable(ctx) ==
  /\ ctx \in ContextOf(Letters)
  /\ \A n \in DOMAIN ctx.files : ctx.files[n] # << >>
  /\ \A n \in DOMAIN ctx.uris : ctx.uris[n] # << >>
  /\ \A c \in Letters : c \notin FileMarks(ctx) \cup UriMarks(ctx)

LEMMA NameFacts ==
  ASSUME NEW ctx, Openable(ctx)
  PROVE  /\ \A c \in Letters : WithName(c, ctx) = <<c>>
         /\ \A n \in DOMAIN ctx.files : WithName(FileMark(n), ctx) = ctx.files[n]
         /\ \A n \in DOMAIN ctx.uris : WithName(UriMark(n), ctx) = ctx.uris[n]
         /\ \A c \in Marked(ctx) : WithName(c, ctx) \in Seq(Letters) /\ WithName(c, ctx) # << >>
<1>1. ASSUME NEW c \in Letters PROVE WithName(c, ctx) = <<c>>
  <2>1. c \notin FileMarks(ctx) /\ c \notin UriMarks(ctx)
    BY DEF Openable
  <2> QED BY <2>1 DEF WithName
<1>2. ASSUME NEW n \in DOMAIN ctx.files PROVE WithName(FileMark(n), ctx) = ctx.files[n]
  <2>1. FileMark(n) \in FileMarks(ctx) /\ FileMark(n)[2] = n
    BY DEF FileMarks, FileMark
  <2> QED BY <2>1 DEF WithName
<1>3. ASSUME NEW n \in DOMAIN ctx.uris PROVE WithName(UriMark(n), ctx) = ctx.uris[n]
  <2>1. UriMark(n) \in UriMarks(ctx) /\ UriMark(n)[2] = n
    BY DEF UriMarks, UriMark
  <2>2. UriMark(n)[1] = "uri" /\ \A m : FileMark(m)[1] = "file"
    BY DEF UriMark, FileMark
  <2>3. UriMark(n) \notin FileMarks(ctx)
    BY <2>2 DEF FileMarks
  <2> QED BY <2>1, <2>3 DEF WithName
<1>4. ctx.files \in Seq(Seq(Letters)) /\ ctx.uris \in Seq(Seq(Letters))
  BY DEF Openable, ContextOf
<1>5. ASSUME NEW c \in Marked(ctx) PROVE WithName(c, ctx) \in Seq(Letters) /\ WithName(c, ctx) # << >>
  <2>1. CASE c \in Letters
    <3>1. <<c>> \in Seq(Letters) /\ <<c>> # << >>
      BY <2>1
    <3> QED BY <1>1, <2>1, <3>1
  <2>2. CASE c \in FileMarks(ctx)
    <3>1. PICK n \in DOMAIN ctx.files : c = FileMark(n)
      BY <2>2 DEF FileMarks
    <3>2. ctx.files[n] \in Seq(Letters) /\ ctx.files[n] # << >>
      BY <1>4 DEF Openable
    <3> QED BY <1>2, <3>1, <3>2
  <2>3. CASE c \in UriMarks(ctx)
    <3>1. PICK n \in DOMAIN ctx.uris : c = UriMark(n)
      BY <2>3 DEF UriMarks
    <3>2. ctx.uris[n] \in Seq(Letters) /\ ctx.uris[n] # << >>
      BY <1>4 DEF Openable
    <3> QED BY <1>3, <3>1, <3>2
  <2> QED BY <2>1, <2>2, <2>3 DEF Marked
<1> QED BY <1>1, <1>2, <1>3, <1>5

\* Putting the names in goes from left to right, leaves letters as they are,
\* and makes nothing empty.
LEMMA InTextFacts ==
  ASSUME NEW ctx, Openable(ctx)
  PROVE  /\ InText(<< >>, ctx) = << >>
         /\ \A t \in Seq(Marked(ctx)) : InText(t, ctx) \in Seq(Letters)
         /\ \A t \in Seq(Marked(ctx)), c \in Marked(ctx) :
              InText(Append(t, c), ctx) = InText(t, ctx) \o WithName(c, ctx)
         /\ \A t \in Seq(Marked(ctx)) : InText(t, ctx) = << >> <=> t = << >>
<1> DEFINE M == Marked(ctx)
<1> DEFINE w == [c \in M |-> WithName(c, ctx)]
<1>1. w \in [M -> Seq(Letters)] /\ \A c \in M : w[c] = WithName(c, ctx) /\ w[c] # << >>
  BY NameFacts
<1> HIDE DEF w
<1>2. ASSUME NEW t \in Seq(M) PROVE InText(t, ctx) = FlattenSeq(Pieces(w, t))
  <2>1. \A i \in DOMAIN t : t[i] \in M
    OBVIOUS
  <2>2. [i \in DOMAIN t |-> WithName(t[i], ctx)] = Pieces(w, t)
    BY <1>1, <2>1 DEF Pieces
  <2> QED BY <2>2 DEF InText
<1>3. /\ FlattenSeq(Pieces(w, << >>)) = << >>
      /\ \A t \in Seq(M) : FlattenSeq(Pieces(w, t)) \in Seq(Letters)
      /\ \A t \in Seq(M), c \in M : FlattenSeq(Pieces(w, Append(t, c))) = FlattenSeq(Pieces(w, t)) \o w[c]
  <2> DEFINE L == Letters
  <2>1. w \in [M -> Seq(L)]
    BY <1>1
  <2> HIDE DEF L, M
  <2>2. /\ FlattenSeq(Pieces(w, << >>)) = << >>
        /\ \A t \in Seq(M) : FlattenSeq(Pieces(w, t)) \in Seq(L)
        /\ \A t \in Seq(M), c \in M : FlattenSeq(Pieces(w, Append(t, c))) = FlattenSeq(Pieces(w, t)) \o w[c]
    BY <2>1, PiecesFacts
  <2> QED BY <2>2 DEF L
<1>4. << >> \in Seq(M) /\ \A t \in Seq(M), c \in M : Append(t, c) \in Seq(M)
  OBVIOUS
<1>5. InText(<< >>, ctx) = << >>
  BY <1>2, <1>3, <1>4
<1>6. \A t \in Seq(M) : InText(t, ctx) \in Seq(Letters)
  BY <1>2, <1>3
<1>7. ASSUME NEW t \in Seq(M), NEW c \in M
      PROVE  InText(Append(t, c), ctx) = InText(t, ctx) \o WithName(c, ctx)
  <2>1. FlattenSeq(Pieces(w, Append(t, c))) = FlattenSeq(Pieces(w, t)) \o w[c]
    BY <1>3
  <2>2. Append(t, c) \in Seq(M)
    BY <1>4
  <2>3. /\ InText(Append(t, c), ctx) = FlattenSeq(Pieces(w, Append(t, c)))
        /\ InText(t, ctx) = FlattenSeq(Pieces(w, t)) /\ WithName(c, ctx) = w[c]
    BY <2>2, <1>1, <1>2
  <2> QED BY <2>1, <2>3
<1>8. ASSUME NEW t \in Seq(M), t # << >> PROVE InText(t, ctx) # << >>
  <2>1. PICK u \in Seq(M), c \in M : t = Append(u, c)
    BY <1>8, SequenceEmptyOrAppend
  <2> DEFINE a == InText(u, ctx)
  <2> DEFINE b == WithName(c, ctx)
  <2>2. a \in Seq(Letters) /\ b \in Seq(Letters) /\ b # << >> /\ InText(t, ctx) = a \o b
    BY <2>1, <1>6, <1>7, NameFacts
  <2> HIDE DEF a, b
  <2>3. Len(a \o b) = Len(a) + Len(b) /\ Len(a) \in Nat /\ Len(b) \in Nat /\ Len(b) # 0
    BY <2>2
  <2>4. a \o b # << >>
    BY <2>3
  <2> QED BY <2>2, <2>4
<1> QED BY <1>5, <1>6, <1>7, <1>8

LEMMA InTextJoins ==
  ASSUME NEW ctx, Openable(ctx), NEW t \in Seq(Marked(ctx)), NEW u \in Seq(Marked(ctx))
  PROVE  InText(t \o u, ctx) = InText(t, ctx) \o InText(u, ctx)
<1> DEFINE M == Marked(ctx)
<1> DEFINE P == {v \in Seq(M) : InText(t \o v, ctx) = InText(t, ctx) \o InText(v, ctx)}
<1>0. t \in Seq(M) /\ u \in Seq(M) /\ << >> \in Seq(M)
  OBVIOUS
<1>1. << >> \in P
  <2>1. t \o << >> = t /\ InText(t, ctx) \o << >> = InText(t, ctx)
    BY ConcatEmptySeq, InTextFacts
  <2> QED BY <1>0, <2>1, InTextFacts
<1> HIDE DEF M
<1>2. ASSUME NEW v \in Seq(M), NEW c \in M, v \in P PROVE Append(v, c) \in P
  <2>1. t \o Append(v, c) = Append(t \o v, c) /\ t \o v \in Seq(M) /\ Append(v, c) \in Seq(M)
    BY <1>0
  <2>2. /\ InText(Append(t \o v, c), ctx) = InText(t \o v, ctx) \o WithName(c, ctx)
        /\ InText(Append(v, c), ctx) = InText(v, ctx) \o WithName(c, ctx)
    BY <2>1, InTextFacts DEF M
  <2> DEFINE a == InText(t, ctx)
  <2> DEFINE b == InText(v, ctx)
  <2> DEFINE d == WithName(c, ctx)
  <2>3. a \in Seq(Letters) /\ b \in Seq(Letters) /\ d \in Seq(Letters)
    BY <1>0, InTextFacts, NameFacts DEF M
  <2> HIDE DEF a, b, d
  <2>4. (a \o b) \o d = a \o (b \o d)
    <3> DEFINE L == Letters
    <3>1. a \in Seq(L) /\ b \in Seq(L) /\ d \in Seq(L)
      BY <2>3
    <3> HIDE DEF L
    <3> QED BY <3>1, SMT
  <2>5. InText(t \o v, ctx) = a \o b
    BY <1>2 DEF a, b
  <2> QED BY <2>1, <2>2, <2>4, <2>5 DEF a, b, d
<1>3. \A v \in Seq(M) : v \in P
  <2> HIDE DEF P
  <2> QED BY <1>1, <1>2, AppendInduction
<1> QED BY <1>0, <1>3

LEMMA LettersStay ==
  ASSUME NEW ctx, Openable(ctx)
  PROVE  /\ Seq(Letters) \subseteq Seq(Marked(ctx))
         /\ \A t \in Seq(Letters) : InText(t, ctx) = t
<1>1. Letters \subseteq Marked(ctx) /\ Seq(Letters) \subseteq Seq(Marked(ctx))
  <2>1. Letters \subseteq Marked(ctx)
    BY DEF Marked
  <2> QED BY <2>1, SeqMonotonic
<1> DEFINE P == {t \in Seq(Letters) : InText(t, ctx) = t}
<1>2. << >> \in P
  <2>1. << >> \in Seq(Letters)
    OBVIOUS
  <2> QED BY <2>1, InTextFacts
<1>3. ASSUME NEW t \in Seq(Letters), NEW c \in Letters, t \in P PROVE Append(t, c) \in P
  <2>1. t \in Seq(Marked(ctx)) /\ c \in Marked(ctx)
    BY <1>1
  <2>2. InText(Append(t, c), ctx) = t \o <<c>>
    BY <1>3, <2>1, InTextFacts, NameFacts
  <2>3. t \o <<c>> = Append(t, c) /\ Append(t, c) \in Seq(Letters)
    OBVIOUS
  <2> QED BY <2>2, <2>3
<1>4. \A t \in Seq(Letters) : t \in P
  <2> HIDE DEF P
  <2> QED BY <1>2, <1>3, AppendInduction
<1> QED BY <1>1, <1>4

LEMMA InertTyped ==
  ASSUME NEW ctx, Openable(ctx)
  PROVE  /\ Inert(ctx) \in ContextOf(Marked(ctx))
         /\ DOMAIN Inert(ctx).files = DOMAIN ctx.files /\ DOMAIN Inert(ctx).uris = DOMAIN ctx.uris
         /\ \A n \in DOMAIN ctx.files : InText(Inert(ctx).files[n], ctx) = ctx.files[n]
         /\ \A n \in DOMAIN ctx.uris : InText(Inert(ctx).uris[n], ctx) = ctx.uris[n]
         /\ Inert(ctx).files = << >> <=> ctx.files = << >>
         /\ Inert(ctx).uris = << >> <=> ctx.uris = << >>
         /\ Inert(ctx).icon = ctx.icon /\ Inert(ctx).name = ctx.name
         /\ Inert(ctx).desktop_file = ctx.desktop_file
<1> DEFINE M == Marked(ctx)
<1> DEFINE files == [n \in DOMAIN ctx.files |-> <<FileMark(n)>>]
<1> DEFINE uris == [n \in DOMAIN ctx.uris |-> <<UriMark(n)>>]
<1>1. ctx \in ContextOf(Letters)
  BY DEF Openable
<1>2. Inert(ctx) = [ctx EXCEPT !.files = files, !.uris = uris]
  BY DEF Inert
<1>3. /\ \A n \in DOMAIN ctx.files : FileMark(n) \in M
      /\ \A n \in DOMAIN ctx.uris : UriMark(n) \in M
  BY DEF Marked, FileMarks, UriMarks
<1>4. \A c \in M : <<c>> \in Seq(M) /\ InText(<<c>>, ctx) = WithName(c, ctx)
  <2> TAKE c \in M
  <2>1. << >> \in Seq(M) /\ Append(<< >>, c) = <<c>>
    OBVIOUS
  <2>2. << >> \o WithName(c, ctx) = WithName(c, ctx)
    BY NameFacts, ConcatEmptySeq
  <2> DEFINE none == << >>
  <2> DEFINE one == <<c>>
  <2>3. none \in Seq(M) /\ Append(none, c) = one
    BY <2>1
  <2>4. InText(none, ctx) = none
    BY InTextFacts
  <2>5. none \o WithName(c, ctx) = WithName(c, ctx)
    BY <2>2
  <2>6. one \in Seq(M)
    OBVIOUS
  <2> HIDE DEF none, one
  <2>7. InText(Append(none, c), ctx) = InText(none, ctx) \o WithName(c, ctx)
    BY <2>3, InTextFacts
  <2>8. InText(one, ctx) = WithName(c, ctx)
    BY <2>3, <2>4, <2>5, <2>7
  <2> QED BY <2>6, <2>8 DEF one
<1>5. /\ Len(ctx.files) \in Nat /\ DOMAIN ctx.files = 1..Len(ctx.files)
      /\ Len(ctx.uris) \in Nat /\ DOMAIN ctx.uris = 1..Len(ctx.uris)
      /\ ctx.files = << >> <=> Len(ctx.files) = 0
      /\ ctx.uris = << >> <=> Len(ctx.uris) = 0
  BY <1>1 DEF ContextOf
<1>6. /\ files \in Seq(Seq(M)) /\ Len(files) = Len(ctx.files)
      /\ \A n \in DOMAIN ctx.files : files[n] = <<FileMark(n)>>
  <2>1. files \in [1..Len(ctx.files) -> Seq(M)]
    BY <1>3, <1>4, <1>5
  <2> QED BY <2>1, <1>5
<1>7. /\ uris \in Seq(Seq(M)) /\ Len(uris) = Len(ctx.uris)
      /\ \A n \in DOMAIN ctx.uris : uris[n] = <<UriMark(n)>>
  <2>1. uris \in [1..Len(ctx.uris) -> Seq(M)]
    BY <1>3, <1>4, <1>5
  <2> QED BY <2>1, <1>5
<1>8. DOMAIN files = DOMAIN ctx.files /\ DOMAIN uris = DOMAIN ctx.uris
  OBVIOUS
<1>9. Seq(Seq(Letters)) \subseteq Seq(Seq(M))
  BY LettersStay, SeqMonotonic
<1> HIDE DEF files, uris, M
<1>10. /\ Inert(ctx) \in ContextOf(M) /\ Inert(ctx).files = files /\ Inert(ctx).uris = uris
       /\ Inert(ctx).icon = ctx.icon /\ Inert(ctx).name = ctx.name
       /\ Inert(ctx).desktop_file = ctx.desktop_file
  BY <1>1, <1>2, <1>6, <1>7, <1>9 DEF ContextOf
<1>11. ASSUME NEW n \in DOMAIN ctx.files PROVE InText(files[n], ctx) = ctx.files[n]
  <2>1. InText(files[n], ctx) = WithName(FileMark(n), ctx)
    BY <1>3, <1>4, <1>6
  <2> QED BY <2>1, NameFacts
<1>12. ASSUME NEW n \in DOMAIN ctx.uris PROVE InText(uris[n], ctx) = ctx.uris[n]
  <2>1. InText(uris[n], ctx) = WithName(UriMark(n), ctx)
    BY <1>3, <1>4, <1>7
  <2> QED BY <2>1, NameFacts
<1>13. (files = << >> <=> ctx.files = << >>) /\ (uris = << >> <=> ctx.uris = << >>)
  BY <1>5, <1>6, <1>7
<1> QED BY <1>8, <1>10, <1>11, <1>12, <1>13 DEF M

\* Where the reading of an argument is with the files and with names for them.
Same(a, b, ctx) ==
  /\ a \in CodeState(Letters) /\ b \in CodeState(Marked(ctx))
  /\ a.expanded = InText(b.expanded, ctx)
  /\ a.code = b.code /\ a.dropped = b.dropped /\ a.unknown = b.unknown

LEMMA SamePut ==
  ASSUME NEW ctx, Openable(ctx), NEW a, NEW b, Same(a, b, ctx), NEW word \in Seq(Marked(ctx))
  PROVE  Same(Put(a, InText(word, ctx)), Put(b, word), ctx)
<1> DEFINE shown == InText(word, ctx)
<1>1. shown \in Seq(Letters)
  BY InTextFacts
<1>2. a \in CodeState(Letters) /\ b \in CodeState(Marked(ctx)) /\ a.expanded = InText(b.expanded, ctx)
  BY DEF Same
<1>3. b.expanded \in Seq(Marked(ctx))
  BY <1>2 DEF CodeState
<1>4. InText(b.expanded \o word, ctx) = InText(b.expanded, ctx) \o shown
  BY <1>3, InTextJoins
<1> HIDE DEF shown
<1> DEFINE x == Put(a, shown)
<1> DEFINE y == Put(b, word)
<1>5. /\ x \in CodeState(Letters) /\ x.expanded = a.expanded \o shown /\ ~x.code
      /\ x.dropped = a.dropped /\ x.unknown = a.unknown
  <2> DEFINE L == Letters
  <2>1. a \in CodeState(L) /\ shown \in Seq(L)
    BY <1>1, <1>2
  <2> HIDE DEF L
  <2>2. /\ Put(a, shown) \in CodeState(L)
        /\ Put(a, shown).expanded = a.expanded \o shown /\ ~Put(a, shown).code
        /\ Put(a, shown).dropped = a.dropped /\ Put(a, shown).unknown = a.unknown
    BY <2>1, PutTyped
  <2> QED BY <2>2 DEF L
<1>6. /\ y \in CodeState(Marked(ctx)) /\ y.expanded = b.expanded \o word /\ ~y.code
      /\ y.dropped = b.dropped /\ y.unknown = b.unknown
  BY <1>2, PutTyped
<1> HIDE DEF x, y
<1>7. x.code = y.code
  <2>1. x.code \in BOOLEAN /\ y.code \in BOOLEAN
    BY <1>5, <1>6 DEF CodeState
  <2> QED BY <2>1, <1>5, <1>6
<1>8. x.dropped = y.dropped /\ x.unknown = y.unknown
  BY <1>5, <1>6 DEF Same
<1>9. x.expanded = InText(y.expanded, ctx)
  BY <1>2, <1>4, <1>5, <1>6
<1>10. Same(x, y, ctx)
  BY <1>5, <1>6, <1>7, <1>8, <1>9 DEF Same
<1> QED BY <1>10 DEF x, y, shown

LEMMA SameDropped ==
  ASSUME NEW ctx, NEW a, NEW b, Same(a, b, ctx)
  PROVE  Same([a EXCEPT !.dropped = TRUE], [b EXCEPT !.dropped = TRUE], ctx)
<1> DEFINE x == [a EXCEPT !.dropped = TRUE]
<1> DEFINE y == [b EXCEPT !.dropped = TRUE]
<1>1. x = [a EXCEPT !.dropped = TRUE] /\ y = [b EXCEPT !.dropped = TRUE]
  OBVIOUS
<1> HIDE DEF x, y
<1>2. a \in CodeState(Letters) /\ b \in CodeState(Marked(ctx))
  BY DEF Same
<1>3. x \in CodeState(Letters) /\ x.dropped /\ x.expanded = a.expanded /\ x.code = a.code /\ x.unknown = a.unknown
  BY <1>1, <1>2, DropTyped
<1>4. y \in CodeState(Marked(ctx)) /\ y.dropped /\ y.expanded = b.expanded /\ y.code = b.code /\ y.unknown = b.unknown
  BY <1>1, <1>2, DropTyped
<1>5. x.dropped = y.dropped
  <2>1. x.dropped \in BOOLEAN /\ y.dropped \in BOOLEAN
    BY <1>3, <1>4 DEF CodeState
  <2> QED BY <2>1, <1>3, <1>4
<1>6. Same(x, y, ctx)
  BY <1>3, <1>4, <1>5 DEF Same
<1> QED BY <1>6 DEF x, y

LEMMA SameUnknown ==
  ASSUME NEW ctx, NEW a, NEW b, Same(a, b, ctx)
  PROVE  Same([a EXCEPT !.unknown = TRUE], [b EXCEPT !.unknown = TRUE], ctx)
<1> DEFINE x == [a EXCEPT !.unknown = TRUE]
<1> DEFINE y == [b EXCEPT !.unknown = TRUE]
<1>1. x = [a EXCEPT !.unknown = TRUE] /\ y = [b EXCEPT !.unknown = TRUE]
  OBVIOUS
<1> HIDE DEF x, y
<1>2. a \in CodeState(Letters) /\ b \in CodeState(Marked(ctx))
  BY DEF Same
<1>3. x \in CodeState(Letters) /\ x.unknown /\ x.expanded = a.expanded /\ x.code = a.code /\ x.dropped = a.dropped
  BY <1>1, <1>2, UnknownTyped
<1>4. y \in CodeState(Marked(ctx)) /\ y.unknown /\ y.expanded = b.expanded /\ y.code = b.code /\ y.dropped = b.dropped
  BY <1>1, <1>2, UnknownTyped
<1>5. x.unknown = y.unknown
  <2>1. x.unknown \in BOOLEAN /\ y.unknown \in BOOLEAN
    BY <1>3, <1>4 DEF CodeState
  <2> QED BY <2>1, <1>3, <1>4
<1>6. Same(x, y, ctx)
  BY <1>3, <1>4, <1>5 DEF Same
<1> QED BY <1>6 DEF x, y

LEMMA SameCode ==
  ASSUME NEW ctx, NEW a, NEW b, Same(a, b, ctx)
  PROVE  Same([a EXCEPT !.code = TRUE], [b EXCEPT !.code = TRUE], ctx)
<1> DEFINE x == [a EXCEPT !.code = TRUE]
<1> DEFINE y == [b EXCEPT !.code = TRUE]
<1>1. x = [a EXCEPT !.code = TRUE] /\ y = [b EXCEPT !.code = TRUE]
  OBVIOUS
<1> HIDE DEF x, y
<1>2. a \in CodeState(Letters) /\ b \in CodeState(Marked(ctx))
  BY DEF Same
<1>3. x \in CodeState(Letters) /\ x.code /\ x.expanded = a.expanded /\ x.unknown = a.unknown /\ x.dropped = a.dropped
  BY <1>1, <1>2, CodeTyped
<1>4. y \in CodeState(Marked(ctx)) /\ y.code /\ y.expanded = b.expanded /\ y.unknown = b.unknown /\ y.dropped = b.dropped
  BY <1>1, <1>2, CodeTyped
<1>5. x.code = y.code
  <2>1. x.code \in BOOLEAN /\ y.code \in BOOLEAN
    BY <1>3, <1>4 DEF CodeState
  <2> QED BY <2>1, <1>3, <1>4
<1>6. Same(x, y, ctx)
  BY <1>3, <1>4, <1>5 DEF Same
<1> QED BY <1>6 DEF x, y

\* Values, and names that mean nothing for them.
LEMMA SamePutFirst ==
  ASSUME NEW ctx, Openable(ctx), NEW a, NEW b, Same(a, b, ctx), NEW values, NEW marks,
         marks \in Seq(Seq(Marked(ctx))), values = WithNames(marks, ctx)
  PROVE  Same(PutFirst(a, values), PutFirst(b, marks), ctx)
<1>0. Len(marks) \in Nat /\ DOMAIN marks = 1..Len(marks) /\ (marks = << >> <=> Len(marks) = 0)
  OBVIOUS
<1>1. CASE marks = << >>
  <2>1. DOMAIN marks = {}
    BY <1>0, <1>1
  <2>2. values = << >>
    BY <2>1 DEF WithNames
  <2> DEFINE none == << >>
  <2>3. none \in Seq(Marked(ctx)) /\ InText(none, ctx) = none
    BY InTextFacts
  <2>4. PutFirst(a, values) = [Put(a, none) EXCEPT !.dropped = TRUE]
    BY <2>2 DEF PutFirst
  <2>5. PutFirst(b, marks) = [Put(b, none) EXCEPT !.dropped = TRUE]
    BY <1>1 DEF PutFirst
  <2> HIDE DEF none
  <2>6. Same(Put(a, InText(none, ctx)), Put(b, none), ctx)
    BY <2>3, SamePut
  <2>7. Same(Put(a, none), Put(b, none), ctx)
    BY <2>3, <2>6
  <2> QED BY <2>4, <2>5, <2>7, SameDropped
<1>2. CASE marks # << >>
  <2>1. 1 \in 1..Len(marks) /\ marks[1] \in Seq(Marked(ctx))
    BY <1>0, <1>2
  <2>2. values[1] = InText(marks[1], ctx) /\ DOMAIN values = 1..Len(marks)
    BY <1>0, <2>1 DEF WithNames
  <2>3. values # << >>
    <3>1. values = << >> => DOMAIN values = 1..0
      OBVIOUS
    <3> QED BY <2>1, <2>2, <3>1
  <2>4. PutFirst(a, values) = Put(a, values[1]) /\ PutFirst(b, marks) = Put(b, marks[1])
    BY <1>2, <2>3 DEF PutFirst
  <2> QED BY <2>1, <2>2, <2>4, SamePut
<1> QED BY <1>1, <1>2

LEMMA WithNamesFacts ==
  ASSUME NEW ctx, Openable(ctx), NEW args \in Seq(Seq(Marked(ctx)))
  PROVE  /\ WithNames(args, ctx) \in Seq(Seq(Letters)) /\ Len(WithNames(args, ctx)) = Len(args)
         /\ \A i \in 1..Len(args) : WithNames(args, ctx)[i] = InText(args[i], ctx)
         /\ WithNames(args, ctx) = << >> <=> args = << >>
<1> DEFINE w == WithNames(args, ctx)
<1>1. Len(args) \in Nat /\ DOMAIN args = 1..Len(args) /\ \A i \in 1..Len(args) : args[i] \in Seq(Marked(ctx))
  OBVIOUS
<1>2. w \in [1..Len(args) -> Seq(Letters)] /\ \A i \in 1..Len(args) : w[i] = InText(args[i], ctx)
  BY <1>1, InTextFacts DEF WithNames
<1> HIDE DEF w
<1>3. w \in Seq(Seq(Letters)) /\ Len(w) = Len(args)
  <2> DEFINE Z == Seq(Letters)
  <2> DEFINE n == Len(args)
  <2>1. w \in [1..n -> Z] /\ n \in Nat
    BY <1>1, <1>2
  <2> HIDE DEF Z, n
  <2>2. w \in Seq(Z)
    BY <2>1, SeqDef
  <2>3. Len(w) = n
    BY <2>1, <2>2
  <2> QED BY <2>2, <2>3 DEF Z, n
<1>4. w = << >> <=> args = << >>
  BY <1>1, <1>3
<1> QED BY <1>2, <1>3, <1>4 DEF w

LEMMA WithNamesJoins ==
  ASSUME NEW ctx, Openable(ctx), NEW a \in Seq(Seq(Marked(ctx))), NEW b \in Seq(Seq(Marked(ctx)))
  PROVE  WithNames(a \o b, ctx) = WithNames(a, ctx) \o WithNames(b, ctx)
<1> DEFINE c == a \o b
<1> DEFINE x == WithNames(a, ctx)
<1> DEFINE y == WithNames(b, ctx)
<1> DEFINE z == WithNames(c, ctx)
<1>1. /\ c \in Seq(Seq(Marked(ctx))) /\ Len(c) = Len(a) + Len(b) /\ Len(a) \in Nat /\ Len(b) \in Nat
      /\ \A i \in 1..Len(c) : c[i] = IF i <= Len(a) THEN a[i] ELSE b[i - Len(a)]
  OBVIOUS
<1> HIDE DEF c
<1>2. /\ x \in Seq(Seq(Letters)) /\ Len(x) = Len(a) /\ \A i \in 1..Len(a) : x[i] = InText(a[i], ctx)
      /\ y \in Seq(Seq(Letters)) /\ Len(y) = Len(b) /\ \A i \in 1..Len(b) : y[i] = InText(b[i], ctx)
      /\ z \in Seq(Seq(Letters)) /\ Len(z) = Len(c) /\ \A i \in 1..Len(c) : z[i] = InText(c[i], ctx)
  BY <1>1, WithNamesFacts
<1> HIDE DEF x, y, z
<1> DEFINE s == x \o y
<1>3. /\ s \in Seq(Seq(Letters)) /\ Len(s) = Len(c)
      /\ \A i \in 1..Len(c) : s[i] = IF i <= Len(a) THEN x[i] ELSE y[i - Len(a)]
  <2> DEFINE Z == Seq(Letters)
  <2>1. x \in Seq(Z) /\ y \in Seq(Z) /\ s = x \o y
    BY <1>2
  <2> HIDE DEF Z, s
  <2>2. /\ s \in Seq(Z) /\ Len(s) = Len(x) + Len(y)
        /\ \A i \in 1..(Len(x) + Len(y)) : s[i] = IF i <= Len(x) THEN x[i] ELSE y[i - Len(x)]
    <3>1. s \in Seq(Z) /\ Len(s) = Len(x) + Len(y)
      BY <2>1
    <3>2. ASSUME NEW i \in 1..(Len(x) + Len(y)) PROVE s[i] = IF i <= Len(x) THEN x[i] ELSE y[i - Len(x)]
      BY <2>1
    <3> QED BY <3>1, <3>2
  <2>3. Len(x) = Len(a) /\ Len(y) = Len(b) /\ Len(c) = Len(a) + Len(b)
    BY <1>1, <1>2
  <2> QED BY <2>2, <2>3 DEF Z
<1> HIDE DEF s
<1>4. ASSUME NEW i \in 1..Len(c) PROVE s[i] = z[i]
  <2>1. CASE i <= Len(a)
    <3>1. i \in 1..Len(a)
      BY <2>1, <1>1
    <3>2. c[i] = a[i] /\ s[i] = x[i]
      BY <2>1, <1>1, <1>3
    <3> QED BY <3>1, <3>2, <1>2
  <2>2. CASE ~(i <= Len(a))
    <3> DEFINE k == i - Len(a)
    <3>1. k \in 1..Len(b)
      BY <2>2, <1>1
    <3>2. c[i] = b[k] /\ s[i] = y[k]
      BY <2>2, <1>1, <1>3
    <3> HIDE DEF k
    <3> QED BY <3>1, <3>2, <1>2
  <2> QED BY <2>1, <2>2
<1>5. s \in Seq(Seq(Letters)) /\ Len(s) = Len(c) /\ \A i \in 1..Len(c) : s[i] = z[i]
  BY <1>3, <1>4
<1>6. s = z
  BY <1>2, <1>5, SeqEqual
<1> QED BY <1>6 DEF s, x, y, z, c

\* The names that mean nothing stand for the files.
LEMMA NamesStand ==
  ASSUME NEW ctx, Openable(ctx)
  PROVE  /\ Inert(ctx).files \in Seq(Seq(Marked(ctx))) /\ UrisOf(Inert(ctx)) \in Seq(Seq(Marked(ctx)))
         /\ ctx.files = WithNames(Inert(ctx).files, ctx)
         /\ UrisOf(ctx) = WithNames(UrisOf(Inert(ctx)), ctx)
<1> DEFINE i == Inert(ctx)
<1>1. ctx \in ContextOf(Letters) /\ i \in ContextOf(Marked(ctx))
  BY InertTyped DEF Openable
<1>2. /\ DOMAIN i.files = DOMAIN ctx.files /\ DOMAIN i.uris = DOMAIN ctx.uris
      /\ \A n \in DOMAIN ctx.files : InText(i.files[n], ctx) = ctx.files[n]
      /\ \A n \in DOMAIN ctx.uris : InText(i.uris[n], ctx) = ctx.uris[n]
      /\ i.uris = << >> <=> ctx.uris = << >>
  BY InertTyped
<1> HIDE DEF i
<1>3. ctx.files = [n \in DOMAIN ctx.files |-> ctx.files[n]] /\ ctx.uris = [n \in DOMAIN ctx.uris |-> ctx.uris[n]]
  BY <1>1 DEF ContextOf
<1>4. ctx.files = WithNames(i.files, ctx) /\ ctx.uris = WithNames(i.uris, ctx)
  <2>1. WithNames(i.files, ctx) = [n \in DOMAIN ctx.files |-> ctx.files[n]]
    BY <1>2 DEF WithNames
  <2>2. WithNames(i.uris, ctx) = [n \in DOMAIN ctx.uris |-> ctx.uris[n]]
    BY <1>2 DEF WithNames
  <2> QED BY <2>1, <2>2, <1>3
<1>5. i.files \in Seq(Seq(Marked(ctx))) /\ i.uris \in Seq(Seq(Marked(ctx)))
  BY <1>1 DEF ContextOf
<1> QED BY <1>2, <1>4, <1>5 DEF i, UrisOf

LEMMA SameStep ==
  ASSUME NEW ctx, Openable(ctx), NEW a, NEW b, Same(a, b, ctx), NEW c \in Characters
  PROVE  Same(Substitute(a, c, ctx), Substitute(b, c, Inert(ctx)), ctx)
<1> DEFINE i == Inert(ctx)
<1> DEFINE x == Substitute(a, c, ctx)
<1> DEFINE y == Substitute(b, c, i)
<1>0. /\ a.code = b.code /\ a.code \in BOOLEAN /\ c \in Letters /\ Percent \in Letters
      /\ <<c>> \in Seq(Letters) /\ <<Percent>> \in Seq(Letters) /\ << >> \in Seq(Letters)
  <2>1. Percent \in Characters
    BY CharactersAssumption
  <2>2. a.code = b.code /\ a.code \in BOOLEAN
    BY DEF Same, CodeState
  <2> QED BY <2>1, <2>2 DEF Letters
<1>1. \A word \in Seq(Letters) : Same(Put(a, word), Put(b, word), ctx)
  <2> TAKE word \in Seq(Letters)
  <2>1. word \in Seq(Marked(ctx)) /\ InText(word, ctx) = word
    BY LettersStay
  <2>2. Same(Put(a, InText(word, ctx)), Put(b, word), ctx)
    BY <2>1, SamePut
  <2> QED BY <2>1, <2>2
<1>2. /\ Same(PutFirst(a, ctx.files), PutFirst(b, i.files), ctx)
      /\ Same(PutFirst(a, UrisOf(ctx)), PutFirst(b, UrisOf(i)), ctx)
  BY NamesStand, SamePutFirst
<1>3. /\ i.name = ctx.name /\ i.desktop_file = ctx.desktop_file
      /\ ctx.name \in Seq(Seq(Letters)) /\ ctx.desktop_file \in Seq(Seq(Letters))
  BY InertTyped DEF Openable, ContextOf
<1>4. \A values \in Seq(Seq(Letters)) : (IF values = << >> THEN << >> ELSE values[1]) \in Seq(Letters)
  <2> TAKE values \in Seq(Seq(Letters))
  <2>1. values # << >> => 1 \in 1..Len(values)
    OBVIOUS
  <2> QED BY <1>0, <2>1
<1> HIDE DEF i
<1>5. CASE ~a.code
  <2>1. CASE c = Percent
    <3>1. x = [a EXCEPT !.code = TRUE] /\ y = [b EXCEPT !.code = TRUE]
      BY <1>0, <1>5, <2>1 DEF Substitute
    <3> HIDE DEF x, y
    <3>2. Same(x, y, ctx)
      BY <3>1, SameCode
    <3> QED BY <3>2 DEF x, y, i
  <2>2. CASE c # Percent
    <3>1. x = Put(a, <<c>>) /\ y = Put(b, <<c>>)
      BY <1>0, <1>5, <2>2 DEF Substitute
    <3> HIDE DEF x, y
    <3>2. Same(x, y, ctx)
      BY <3>1, <1>0, <1>1
    <3> QED BY <3>2 DEF x, y, i
  <2> QED BY <2>1, <2>2
<1>6. CASE a.code
  <2>1. CASE c \in {"f", "u"}
    <3>1. \/ x = PutFirst(a, ctx.files) /\ y = PutFirst(b, i.files)
          \/ x = PutFirst(a, UrisOf(ctx)) /\ y = PutFirst(b, UrisOf(i))
      BY <1>0, <1>6, <2>1 DEF Substitute, Percent, Deprecated
    <3> HIDE DEF x, y
    <3>2. Same(x, y, ctx)
      BY <3>1, <1>2
    <3> QED BY <3>2 DEF x, y, i
  <2>2. CASE c \in {Percent, "c", "k"} \cup Deprecated
    <3>1. PICK word \in Seq(Letters) : x = Put(a, word) /\ y = Put(b, word)
      <4>1. CASE c = Percent
        BY <4>1, <1>0, <1>6 DEF Substitute, Percent, Deprecated
      <4>2. CASE c = "c"
        BY <4>2, <1>0, <1>3, <1>4, <1>6 DEF Substitute, Percent, Deprecated
      <4>3. CASE c = "k"
        BY <4>3, <1>0, <1>3, <1>4, <1>6 DEF Substitute, Percent, Deprecated
      <4>4. CASE c \in Deprecated
        BY <4>4, <1>0, <1>6 DEF Substitute, Percent, Deprecated
      <4> QED BY <2>2, <4>1, <4>2, <4>3, <4>4
    <3> HIDE DEF x, y
    <3>2. Same(x, y, ctx)
      BY <3>1, <1>1
    <3> QED BY <3>2 DEF x, y, i
  <2>3. CASE c \notin {Percent, "f", "u", "c", "k"} \cup Deprecated
    <3> DEFINE pa == Put(a, << >>)
    <3> DEFINE pb == Put(b, << >>)
    <3>1. Same(pa, pb, ctx)
      BY <1>0, <1>1
    <3>2. \/ x = [pa EXCEPT !.dropped = TRUE] /\ y = [pb EXCEPT !.dropped = TRUE]
          \/ x = [pa EXCEPT !.unknown = TRUE] /\ y = [pb EXCEPT !.unknown = TRUE]
      <4>1. CASE c \in {"F", "U", "i"}
        BY <1>0, <1>6, <2>3, <4>1 DEF Substitute, Percent, Deprecated
      <4>2. CASE c \notin {"F", "U", "i"}
        BY <1>0, <1>6, <2>3, <4>2 DEF Substitute, Percent, Deprecated
      <4> QED BY <4>1, <4>2
    <3> HIDE DEF pa, pb, x, y
    <3>3. Same(x, y, ctx)
      BY <3>1, <3>2, SameDropped, SameUnknown
    <3> QED BY <3>3 DEF x, y, i
  <2> QED BY <2>1, <2>2, <2>3
<1> QED BY <1>0, <1>5, <1>6

LEMMA SameArgument ==
  ASSUME NEW ctx, Openable(ctx)
  PROVE  \A arg \in Text : Same(Substituted(arg, ctx), Substituted(arg, Inert(ctx)), ctx)
<1> DEFINE i == Inert(ctx)
<1> DEFINE P == {arg \in Text : Same(Substituted(arg, ctx), Substituted(arg, i), ctx)}
<1>1. << >> \in P
  <2>1. << >> \in Text
    BY DEF Text
  <2>2. Same(Begin, Begin, ctx)
    <3>1. Begin.expanded = InText(Begin.expanded, ctx)
      BY InTextFacts DEF Begin
    <3> QED BY <3>1, BeginTyped DEF Same
  <2> QED BY <2>1, <2>2, CodeSteps
<1>2. ASSUME NEW s \in Seq(Characters), NEW c \in Characters, s \in P PROVE Append(s, c) \in P
  <2>1. s \in Text /\ Append(s, c) \in Text
    BY DEF Text
  <2>2. /\ Substituted(Append(s, c), ctx) = Substitute(Substituted(s, ctx), c, ctx)
        /\ Substituted(Append(s, c), i) = Substitute(Substituted(s, i), c, i)
    BY <2>1, CodeSteps
  <2>3. Same(Substituted(s, ctx), Substituted(s, i), ctx)
    BY <1>2
  <2>4. Same(Substitute(Substituted(s, ctx), c, ctx), Substitute(Substituted(s, i), c, i), ctx)
    BY <2>3, SameStep
  <2> QED BY <2>1, <2>2, <2>4
<1>3. \A s \in Seq(Characters) : s \in P
  <2> HIDE DEF P
  <2> QED BY <1>1, <1>2, AppendInduction
<1> QED BY <1>3 DEF Text

\* What one argument becomes is what it becomes for names that mean nothing,
\* with the names put in.
LEMMA SameExpanded ==
  ASSUME NEW ctx, Openable(ctx), NEW arg \in Text
  PROVE  /\ Expanded(arg, Inert(ctx)).args \in Seq(Seq(Marked(ctx)))
         /\ Expanded(arg, ctx).args = WithNames(Expanded(arg, Inert(ctx)).args, ctx)
         /\ IsError(Expanded(arg, ctx)) <=> IsError(Expanded(arg, Inert(ctx)))
<1> DEFINE i == Inert(ctx)
<1> DEFINE a == Substituted(arg, ctx)
<1> DEFINE b == Substituted(arg, i)
<1> DEFINE textA == IF a.code THEN Append(a.expanded, Percent) ELSE a.expanded
<1> DEFINE textB == IF b.code THEN Append(b.expanded, Percent) ELSE b.expanded
<1> DEFINE M == Marked(ctx)
<1>1. Same(a, b, ctx)
  BY SameArgument
<1> HIDE DEF a, b
<1>2. textB \in Seq(M) /\ textA = InText(textB, ctx)
  <2>1. /\ b.expanded \in Seq(M) /\ a.expanded = InText(b.expanded, ctx)
        /\ a.expanded \in Seq(Letters) /\ a.code = b.code
    BY <1>1 DEF Same, CodeState
  <2>2. Percent \in Letters /\ Percent \in M
    BY CharactersAssumption DEF Letters, Marked
  <2>3. InText(Append(b.expanded, Percent), ctx) = InText(b.expanded, ctx) \o <<Percent>>
    <3>1. InText(Append(b.expanded, Percent), ctx) = InText(b.expanded, ctx) \o WithName(Percent, ctx)
      BY <2>1, <2>2, InTextFacts
    <3>2. WithName(Percent, ctx) = <<Percent>>
      BY <2>2, NameFacts
    <3> QED BY <3>1, <3>2
  <2>4. a.expanded \o <<Percent>> = Append(a.expanded, Percent)
    BY <2>1, <2>2
  <2>5. Append(b.expanded, Percent) \in Seq(M)
    BY <2>1, <2>2
  <2> QED BY <2>1, <2>3, <2>4, <2>5
<1>3. a.dropped = b.dropped /\ a.unknown = b.unknown
  BY <1>1 DEF Same
<1>4. textA = << >> <=> textB = << >>
  BY <1>2, InTextFacts
<1> DEFINE option == IF ctx.icon = << >> THEN << >> ELSE << <<"--icon">>, ctx.icon[1] >>
<1>5. Expanded(arg, ctx) =
        CASE ~Contains(arg, Percent) -> Ok(<<arg>>)
          [] arg = <<Percent, "F">> -> Ok(ctx.files)
          [] arg = <<Percent, "U">> -> Ok(UrisOf(ctx))
          [] arg = <<Percent, "i">> -> Ok(option)
          [] OTHER -> IF a.unknown THEN UnknownFieldCode
                      ELSE Ok(IF a.dropped \/ textA = << >> THEN << >> ELSE <<textA>>)
  BY DEF Expanded, a, textA, option
<1>6. i.icon = ctx.icon
  BY InertTyped
<1>7. Expanded(arg, i) =
        CASE ~Contains(arg, Percent) -> Ok(<<arg>>)
          [] arg = <<Percent, "F">> -> Ok(i.files)
          [] arg = <<Percent, "U">> -> Ok(UrisOf(i))
          [] arg = <<Percent, "i">> -> Ok(option)
          [] OTHER -> IF b.unknown THEN UnknownFieldCode
                      ELSE Ok(IF b.dropped \/ textB = << >> THEN << >> ELSE <<textB>>)
  BY <1>6 DEF Expanded, b, textB, option
<1>8. UnknownFieldCode.args = << >> /\ IsError(UnknownFieldCode) /\ \A args : Ok(args).args = args /\ ~IsError(Ok(args))
  BY DEF UnknownFieldCode, Error, Ok, IsError
<1>9. /\ << >> \in Seq(Seq(M)) /\ WithNames(<< >>, ctx) = << >>
      /\ \A t \in Seq(M) : <<t>> \in Seq(Seq(M)) /\ WithNames(<<t>>, ctx) = <<InText(t, ctx)>>
      /\ \A t \in Seq(Seq(Letters)) : t \in Seq(Seq(M)) /\ WithNames(t, ctx) = t
  <2>1. << >> \in Seq(Seq(M)) /\ WithNames(<< >>, ctx) = << >>
    BY DEF WithNames
  <2>2. ASSUME NEW t \in Seq(M) PROVE <<t>> \in Seq(Seq(M)) /\ WithNames(<<t>>, ctx) = <<InText(t, ctx)>>
    BY DEF WithNames
  <2>3. ASSUME NEW t \in Seq(Seq(Letters)) PROVE t \in Seq(Seq(M)) /\ WithNames(t, ctx) = t
    <3>1. Seq(Seq(Letters)) \subseteq Seq(Seq(M))
      BY LettersStay, SeqMonotonic
    <3>2. \A n \in DOMAIN t : InText(t[n], ctx) = t[n]
      BY LettersStay
    <3>3. t = [n \in DOMAIN t |-> t[n]]
      OBVIOUS
    <3> QED BY <3>1, <3>2, <3>3 DEF WithNames
  <2> QED BY <2>1, <2>2, <2>3
<1>10. arg \in Seq(Letters) /\ option \in Seq(Seq(Letters)) /\ <<arg>> \in Seq(Seq(Letters))
  <2>1. arg \in Seq(Letters)
    <3>1. Seq(Characters) \subseteq Seq(Letters)
      BY SeqMonotonic DEF Letters
    <3> QED BY <3>1 DEF Text
  <2>2. ctx.icon \in Seq(Seq(Letters))
    BY DEF Openable, ContextOf
  <2>3. ctx.icon # << >> => ctx.icon[1] \in Seq(Letters)
    <3>1. ctx.icon # << >> => 1 \in 1..Len(ctx.icon)
      BY <2>2
    <3> QED BY <2>2, <3>1
  <2>4. <<"--icon">> \in Seq(Letters)
    BY DEF Letters
  <2> QED BY <2>1, <2>3, <2>4
<1>11. /\ i.files \in Seq(Seq(M)) /\ UrisOf(i) \in Seq(Seq(M))
       /\ ctx.files = WithNames(i.files, ctx) /\ UrisOf(ctx) = WithNames(UrisOf(i), ctx)
  BY NamesStand
<1> HIDE DEF textA, textB, option, M, i
<1> DEFINE A == Expanded(arg, ctx)
<1> DEFINE B == Expanded(arg, i)
<1>12. \/ A = UnknownFieldCode /\ B = UnknownFieldCode
       \/ \E t \in Seq(Seq(M)) : A = Ok(WithNames(t, ctx)) /\ B = Ok(t)
  <2> HIDE DEF UnknownFieldCode, Ok, Contains
  <2>1. CASE ~Contains(arg, Percent)
    <3>1. A = Ok(<<arg>>) /\ B = Ok(<<arg>>)
      <4>1. \A x : arg = <<Percent, x>> => Len(arg) = 2 /\ arg[1] = Percent
        OBVIOUS
      <4>2. \A x : arg # <<Percent, x>>
        BY <2>1, <4>1 DEF Contains
      <4> QED BY <2>1, <4>2, <1>5, <1>7
    <3> QED BY <3>1, <1>9, <1>10
  <2>2. CASE Contains(arg, Percent) /\ arg = <<Percent, "F">>
    <3>1. A = Ok(ctx.files) /\ B = Ok(i.files)
      BY <2>2, <1>5, <1>7
    <3> QED BY <3>1, <1>11
  <2>3. CASE Contains(arg, Percent) /\ arg = <<Percent, "U">>
    <3>1. A = Ok(UrisOf(ctx)) /\ B = Ok(UrisOf(i))
      BY <2>3, <1>5, <1>7
    <3> QED BY <3>1, <1>11
  <2>4. CASE Contains(arg, Percent) /\ arg = <<Percent, "i">>
    <3>1. A = Ok(option) /\ B = Ok(option)
      BY <2>4, <1>5, <1>7
    <3> QED BY <3>1, <1>9, <1>10
  <2>5. CASE /\ Contains(arg, Percent) /\ arg # <<Percent, "F">> /\ arg # <<Percent, "U">>
             /\ arg # <<Percent, "i">>
    <3>1. /\ A = IF a.unknown THEN UnknownFieldCode ELSE Ok(IF a.dropped \/ textA = << >> THEN << >> ELSE <<textA>>)
          /\ B = IF b.unknown THEN UnknownFieldCode ELSE Ok(IF b.dropped \/ textB = << >> THEN << >> ELSE <<textB>>)
      BY <2>5, <1>5, <1>7
    <3>2. CASE a.unknown
      BY <3>1, <3>2, <1>3
    <3>3. CASE ~a.unknown /\ (a.dropped \/ textA = << >>)
      <4>1. A = Ok(<< >>) /\ B = Ok(<< >>)
        BY <3>1, <3>3, <1>3, <1>4
      <4> QED BY <4>1, <1>9
    <3>4. CASE ~a.unknown /\ ~(a.dropped \/ textA = << >>)
      <4>1. A = Ok(<<textA>>) /\ B = Ok(<<textB>>)
        BY <3>1, <3>4, <1>3, <1>4
      <4>2. <<textB>> \in Seq(Seq(M)) /\ WithNames(<<textB>>, ctx) = <<textA>>
        BY <1>2, <1>9
      <4> QED BY <4>1, <4>2
    <3> QED BY <3>2, <3>3, <3>4
  <2> QED BY <2>1, <2>2, <2>3, <2>4, <2>5
<1> HIDE DEF A, B
<1>13. B.args \in Seq(Seq(M)) /\ A.args = WithNames(B.args, ctx) /\ (IsError(A) <=> IsError(B))
  <2> HIDE DEF UnknownFieldCode, Ok, IsError
  <2>1. CASE A = UnknownFieldCode /\ B = UnknownFieldCode
    BY <2>1, <1>8, <1>9
  <2>2. ASSUME NEW t \in Seq(Seq(M)), A = Ok(WithNames(t, ctx)), B = Ok(t)
        PROVE  B.args \in Seq(Seq(M)) /\ A.args = WithNames(B.args, ctx) /\ (IsError(A) <=> IsError(B))
    BY <2>2, <1>8
  <2> QED BY <2>1, <2>2, <1>12
<1> QED BY <1>13 DEF A, B, M, i

\* An error has no arguments to put names in.
LEMMA NamesInResults ==
  ASSUME NEW ctx
  PROVE  /\ \A what : Error(what) = [Error(what) EXCEPT !.args = WithNames(@, ctx)]
         /\ \A args : Ok(WithNames(args, ctx)) = [Ok(args) EXCEPT !.args = WithNames(@, ctx)]
<1>1. ASSUME NEW what, NEW a, NEW b
      PROVE  [error |-> what, args |-> b] = [[error |-> what, args |-> a] EXCEPT !.args = b]
  OBVIOUS
<1>2. ASSUME NEW what PROVE Error(what) = [Error(what) EXCEPT !.args = WithNames(@, ctx)]
  <2> DEFINE none == << >>
  <2>1. WithNames(none, ctx) = none
    BY DEF WithNames
  <2>2. Error(what) = [error |-> what, args |-> none]
    BY DEF Error
  <2> HIDE DEF none
  <2>3. Error(what).args = none
    BY <2>2
  <2> QED BY <1>1, <2>1, <2>2, <2>3
<1>3. ASSUME NEW args PROVE Ok(WithNames(args, ctx)) = [Ok(args) EXCEPT !.args = WithNames(@, ctx)]
  <2> DEFINE b == WithNames(args, ctx)
  <2>1. Ok(args).args = args
    BY DEF Ok
  <2> DEFINE e == ""
  <2>2. Ok(args) = [error |-> e, args |-> args] /\ Ok(b) = [error |-> e, args |-> b]
    BY DEF Ok
  <2> HIDE DEF b, e
  <2>3. [error |-> e, args |-> b] = [[error |-> e, args |-> args] EXCEPT !.args = b]
    BY <1>1
  <2>4. Ok(b) = [Ok(args) EXCEPT !.args = b]
    BY <2>2, <2>3, Zenon
  <2> QED BY <2>1, <2>4 DEF b
<1> QED BY <1>2, <1>3

\* So is what all of them become.
LEMMA SameCommand ==
  ASSUME NEW ctx, Openable(ctx), NEW args \in Seq(Text)
  PROVE  Expand(args, ctx) = [Expand(args, Inert(ctx)) EXCEPT !.args = WithNames(@, ctx)]
<1> DEFINE i == Inert(ctx)
<1> DEFINE M == Marked(ctx)
<1> DEFINE flatA(s) == FlattenSeq(Pieces(Become(ctx), s))
<1> DEFINE flatB(s) == FlattenSeq(Pieces(Become(i), s))
<1>1. /\ ctx \in ContextOf(Letters) /\ Characters \cup {"--icon"} \subseteq Letters
      /\ i \in ContextOf(M) /\ Characters \cup {"--icon"} \subseteq M
  BY InertTyped DEF Openable, Letters, Marked
<1>2. /\ \A arg \in Text : Become(i)[arg] \in Seq(Seq(M))
      /\ \A arg \in Text : Become(ctx)[arg] = WithNames(Become(i)[arg], ctx)
      /\ \A arg \in Text : IsError(Expanded(arg, ctx)) <=> IsError(Expanded(arg, i))
  BY SameExpanded DEF Become
<1>3. /\ Expand(args, ctx) = IF \E a \in Elements(args) : IsError(Expanded(a, ctx)) THEN UnknownFieldCode
                             ELSE NonEmpty(flatA(args))
      /\ Expand(args, i) = IF \E a \in Elements(args) : IsError(Expanded(a, i)) THEN UnknownFieldCode
                           ELSE NonEmpty(flatB(args))
  BY <1>1, EachFacts
<1>4. /\ flatA(<< >>) = << >>
      /\ \A s \in Seq(Text) : flatA(s) \in Seq(Seq(Letters))
      /\ \A s \in Seq(Text), x \in Text : flatA(Append(s, x)) = flatA(s) \o Become(ctx)[x]
  <2>1. Become(ctx) \in [Text -> Seq(Seq(Letters))]
    BY <1>1, EachFacts
  <2> QED BY <2>1, PiecesFacts
<1>5. /\ flatB(<< >>) = << >>
      /\ \A s \in Seq(Text) : flatB(s) \in Seq(Seq(M))
      /\ \A s \in Seq(Text), x \in Text : flatB(Append(s, x)) = flatB(s) \o Become(i)[x]
  <2>1. Become(i) \in [Text -> Seq(Seq(M))]
    BY <1>1, EachFacts
  <2> QED BY <2>1, PiecesFacts
<1>6. \A a \in Elements(args) : a \in Text
  BY DEF Elements
<1> HIDE DEF flatA, flatB, i
<1> DEFINE P == {s \in Seq(Text) : flatA(s) = WithNames(flatB(s), ctx)}
<1>7. << >> \in P
  <2>1. << >> \in Seq(Text) /\ WithNames(<< >>, ctx) = << >>
    BY DEF WithNames
  <2> QED BY <2>1, <1>4, <1>5
<1>8. ASSUME NEW s \in Seq(Text), NEW x \in Text, s \in P PROVE Append(s, x) \in P
  <2>1. Append(s, x) \in Seq(Text)
    OBVIOUS
  <2>2. flatB(s) \in Seq(Seq(M)) /\ Become(i)[x] \in Seq(Seq(M))
    BY <1>2, <1>5
  <2>3. WithNames(flatB(s) \o Become(i)[x], ctx) = WithNames(flatB(s), ctx) \o WithNames(Become(i)[x], ctx)
    BY <2>2, WithNamesJoins
  <2>4. flatA(s) = WithNames(flatB(s), ctx) /\ Become(ctx)[x] = WithNames(Become(i)[x], ctx)
    BY <1>2, <1>8
  <2>5. flatA(Append(s, x)) = flatA(s) \o Become(ctx)[x] /\ flatB(Append(s, x)) = flatB(s) \o Become(i)[x]
    BY <1>4, <1>5
  <2> QED BY <2>1, <2>3, <2>4, <2>5
<1>9. \A s \in Seq(Text) : s \in P
  <2> HIDE DEF P
  <2> QED BY <1>7, <1>8, AppendInduction
<1> DEFINE ends == flatB(args)
<1>10. ends \in Seq(Seq(M)) /\ flatA(args) = WithNames(ends, ctx)
  BY <1>5, <1>9
<1>11. ends = flatB(args)
  OBVIOUS
<1> HIDE DEF ends
<1>12. UnknownFieldCode = [UnknownFieldCode EXCEPT !.args = WithNames(@, ctx)]
  BY NamesInResults DEF UnknownFieldCode
<1>13. NonEmpty(WithNames(ends, ctx)) = [NonEmpty(ends) EXCEPT !.args = WithNames(@, ctx)]
  <2>1. CASE ends = << >>
    <3>1. WithNames(ends, ctx) = << >>
      BY <2>1, <1>10, WithNamesFacts
    <3>2. Empty = [Empty EXCEPT !.args = WithNames(@, ctx)]
      BY NamesInResults DEF Empty
    <3> QED BY <2>1, <3>1, <3>2 DEF NonEmpty
  <2>2. CASE ends # << >>
    <3>1. WithNames(ends, ctx) # << >>
      BY <2>2, <1>10, WithNamesFacts
    <3>2. Ok(WithNames(ends, ctx)) = [Ok(ends) EXCEPT !.args = WithNames(@, ctx)]
      BY NamesInResults
    <3> QED BY <2>2, <3>1, <3>2 DEF NonEmpty
  <2> QED BY <2>1, <2>2
<1>14. CASE \E a \in Elements(args) : IsError(Expanded(a, ctx))
  <2>1. \E a \in Elements(args) : IsError(Expanded(a, i))
    BY <1>2, <1>6, <1>14
  <2> QED BY <2>1, <1>3, <1>12, <1>14 DEF i
<1>15. CASE ~\E a \in Elements(args) : IsError(Expanded(a, ctx))
  <2>1. ~\E a \in Elements(args) : IsError(Expanded(a, i))
    BY <1>2, <1>6, <1>15
  <2>2. Expand(args, ctx) = NonEmpty(WithNames(ends, ctx)) /\ Expand(args, i) = NonEmpty(ends)
    BY <2>1, <1>3, <1>10, <1>11, <1>15
  <2> QED BY <2>2, <1>13 DEF i
<1> QED BY <1>14, <1>15

\* What is opened, completed by the entry, has the same files.
LEMMA CompletedOpenable ==
  ASSUME LauncherInv, IsEntry, NEW ctx \in Contexts, << >> \notin Elements(ctx.files \o ctx.uris)
  PROVE  /\ Openable(Completed(entry, ctx))
         /\ Completed(entry, Inert(ctx)) = Inert(Completed(entry, ctx))
         /\ \A args : WithNames(args, Completed(entry, ctx)) = WithNames(args, ctx)
<1> DEFINE whole == Completed(entry, ctx)
<1>0. Characters \subseteq Letters
  BY DEF Letters
<1>1. ctx \in ContextOf(Letters)
  BY <1>0, ContextTyped
<1>2. whole \in ContextOf(Letters) /\ whole.files = ctx.files /\ whole.uris = ctx.uris
  BY <1>0, <1>1, CompletedTyped
<1>3. FileMarks(whole) = FileMarks(ctx) /\ UriMarks(whole) = UriMarks(ctx)
  BY <1>2 DEF FileMarks, UriMarks
<1>4. \A args : WithNames(args, whole) = WithNames(args, ctx)
  <2>1. \A c : WithName(c, whole) = WithName(c, ctx)
    BY <1>2, <1>3 DEF WithName
  <2> QED BY <2>1 DEF WithNames, InText
<1>5. Completed(entry, Inert(ctx)) = Inert(whole)
  <2> DEFINE e == entry
  <2> DEFINE files == [n \in DOMAIN ctx.files |-> <<FileMark(n)>>]
  <2> DEFINE uris == [n \in DOMAIN ctx.uris |-> <<UriMark(n)>>]
  <2> DEFINE icon == IF ctx.icon = None THEN e.icon ELSE ctx.icon
  <2> DEFINE name == IF ctx.name = None THEN <<e.name>> ELSE ctx.name
  <2>1. Inert(ctx) = [ctx EXCEPT !.files = files, !.uris = uris]
    BY DEF Inert
  <2>2. whole = [ctx EXCEPT !.icon = icon, !.name = name]
    BY DEF Completed
  <2>3. Inert(whole) = [whole EXCEPT !.files = files, !.uris = uris]
    BY <1>2 DEF Inert
  <2> HIDE DEF files, uris, whole
  <2>4. Inert(ctx).icon = ctx.icon /\ Inert(ctx).name = ctx.name
    BY <1>1, <2>1 DEF ContextOf
  <2>5. Completed(e, Inert(ctx)) = [Inert(ctx) EXCEPT !.icon = icon, !.name = name]
    BY <2>4 DEF Completed
  <2> HIDE DEF e, icon, name
  <2>6. [[ctx EXCEPT !.files = files, !.uris = uris] EXCEPT !.icon = icon, !.name = name]
          = [[ctx EXCEPT !.icon = icon, !.name = name] EXCEPT !.files = files, !.uris = uris]
    BY <1>1 DEF ContextOf
  <2>7. Completed(e, Inert(ctx)) = Inert(whole)
    BY <2>1, <2>2, <2>3, <2>5, <2>6
  <2> QED BY <2>7 DEF e
<1>6. /\ \A n \in DOMAIN ctx.files : ctx.files[n] # << >>
      /\ \A n \in DOMAIN ctx.uris : ctx.uris[n] # << >>
  <2> DEFINE f == ctx.files
  <2> DEFINE u == ctx.uris
  <2> DEFINE Z == Seq(Letters)
  <2>1. f \in Seq(Z) /\ u \in Seq(Z)
    BY <1>1 DEF ContextOf
  <2> DEFINE j == f \o u
  <2>2. \A i \in 1..Len(j) : j[i] # << >>
    BY DEF Elements
  <2> HIDE DEF f, u, Z
  <2>3. /\ Len(j) = Len(f) + Len(u) /\ Len(f) \in Nat /\ Len(u) \in Nat
        /\ DOMAIN f = 1..Len(f) /\ DOMAIN u = 1..Len(u)
    BY <2>1
  <2>4. ASSUME NEW n \in 1..Len(f) PROVE n \in 1..Len(j) /\ j[n] = f[n]
    BY <2>1, <2>3
  <2>5. ASSUME NEW n \in 1..Len(u) PROVE Len(f) + n \in 1..Len(j) /\ j[Len(f) + n] = u[n]
    BY <2>1, <2>3
  <2> HIDE DEF j
  <2>6. \A n \in DOMAIN f : f[n] # << >>
    BY <2>2, <2>3, <2>4
  <2>7. \A n \in DOMAIN u : u[n] # << >>
    BY <2>2, <2>3, <2>5
  <2> QED BY <2>6, <2>7 DEF f, u
<1>7. \A c \in Letters : c \notin FileMarks(ctx) \cup UriMarks(ctx)
  BY MarksAssumption DEF Letters
<1> HIDE DEF whole
<1>8. Openable(whole)
  BY <1>2, <1>3, <1>6, <1>7 DEF Openable
<1> QED BY <1>4, <1>5, <1>8 DEF whole

LEMMA NamesStayNames == LauncherInv => FileNamesAreNotRead
<1> SUFFICES ASSUME LauncherInv, opened # None, entry.exec # None,
                    << >> \notin Elements(opened[1].files \o opened[1].uris)
             PROVE  LET inert == Command(entry, Inert(opened[1]))
                    IN  argv = [inert EXCEPT !.args = WithNames(@, opened[1])]
  BY DEF FileNamesAreNotRead
<1>1. PICK ctx \in Contexts : IsEntry /\ opened = <<ctx>> /\ argv = Command(entry, ctx)
  BY DEF LauncherInv
<1>2. opened[1] = ctx
  BY <1>1
<1> DEFINE args == Tokenize(entry.exec[1])
<1> DEFINE whole == Completed(entry, ctx)
<1>3. /\ Openable(whole) /\ Completed(entry, Inert(ctx)) = Inert(whole)
      /\ \A as : WithNames(as, whole) = WithNames(as, ctx)
  BY <1>1, <1>2, CompletedOpenable
<1>4. /\ argv = IF IsError(args) THEN args ELSE Expand(args.args, whole)
      /\ Command(entry, Inert(ctx)) = IF IsError(args) THEN args ELSE Expand(args.args, Inert(whole))
  BY <1>1, <1>3 DEF Command
<1>5. entry.exec[1] \in Text
  BY <1>1, EntryTyped
<1> DEFINE inert == Command(entry, Inert(ctx))
<1>6. argv = [inert EXCEPT !.args = WithNames(@, ctx)]
  <2>1. CASE IsError(args)
    <3>1. PICK what : args = Error(what)
      <4>1. \A as : IsError(NonEmpty(as)) => NonEmpty(as) = Empty
        BY DEF NonEmpty, IsError, Ok
      <4>2. args = UnterminatedQuote \/ args = Empty
        BY <2>1, <4>1 DEF Tokenize
      <4> QED BY <4>2 DEF UnterminatedQuote, Empty
    <3>2. Error(what) = [Error(what) EXCEPT !.args = WithNames(@, ctx)]
      BY NamesInResults
    <3>3. argv = args /\ inert = args
      BY <2>1, <1>4
    <3> HIDE DEF args, inert
    <3> QED BY <3>1, <3>2, <3>3
  <2>2. CASE ~IsError(args)
    <3>1. args.args \in Seq(Text)
      BY <1>5, <2>2, TokensTyped
    <3> HIDE DEF whole
    <3>2. Expand(args.args, whole) = [Expand(args.args, Inert(whole)) EXCEPT !.args = WithNames(@, whole)]
      BY <1>3, <3>1, SameCommand
    <3>3. argv = Expand(args.args, whole) /\ inert = Expand(args.args, Inert(whole))
      BY <2>2, <1>4
    <3>4. argv = [inert EXCEPT !.args = WithNames(@, whole)]
      BY <3>2, <3>3
    <3>5. WithNames(inert.args, whole) = WithNames(inert.args, ctx)
      BY <1>3
    <3> HIDE DEF inert, args
    <3> QED BY <3>4, <3>5
  <2> QED BY <2>1, <2>2
<1> QED BY <1>2, <1>6

\* Whatever an entry's Exec line is, and whatever is opened with it, the
\* command is what the two say: no file's name adds an argument or is taken
\* for a code, an argument without its file is left out alone, and what was
\* quoted is read back (exec.rs).
THEOREM CommandsReadRight == LauncherSpec => []CommandsAreRead
<1>1. LauncherInv => CommandsAreRead
  BY NamesStayNames, NothingAsked, ReadBack DEF CommandsAreRead
<1> QED BY <1>1, LauncherInvHolds, PTL
============================================================================
