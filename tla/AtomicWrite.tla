----------------------------- MODULE AtomicWrite -----------------------------
(***************************************************************************)
(* atomic::write of gostui-config/src/atomic.rs, one system call a step,   *)
(* with the file system under it.  Writers are processes that save the     *)
(* same file, Readers are loads of it, and a power cut may come between    *)
(* any two steps.                                                          *)
(*                                                                         *)
(* The file system is external.  A name leads to a file (an inode); names  *)
(* and data each exist twice, as a program sees them and as they are on    *)
(* disk.  Data and names reach the disk whenever the kernel likes, in any  *)
(* order, and at the latest when fsync returns.                            *)
(***************************************************************************)
CONSTANTS Writers, Readers,
          Files,         \* the inodes
          Path,          \* the name that is replaced
          Contents, NoFile, \* the texts, and none
          Torn           \* an empty or half-written text

ASSUME PathAssumption == Path \notin Writers
ASSUME NoneAssumption == NoFile \notin Files \cup Contents /\ Torn \notin Contents \cup {NoFile}

VARIABLES
  pc,         \* where each writer is in write
  text,       \* the text it was given, while the call lasts
  fd,         \* the file it has open for writing
  result,     \* what its last call returned
  reading,    \* the file each reader has open
  names, diskNames,  \* the file each name leads to
  data, diskData     \* the text in each file

writerVars == <<pc, text, fd, result>>
vars == <<writerVars, reading, names, diskNames, data, diskData>>

Steps == {"idle", "created", "written", "synced", "renamed", "refused"}

\* Variant: the process id is left out of the name.
TempOf_Shared(w) == CHOOSE x \in Writers : TRUE

\* temp_path: a sibling named after the process.
TempOf(w) == w

InUse == {names[n] : n \in DOMAIN names} \cup {diskNames[n] : n \in DOMAIN names}
           \cup {reading[r] : r \in Readers} \cup {fd[w] : w \in Writers}

----------------------------------------------------------------------------
(* write                                                                   *)

Goto(w, step) == pc' = [pc EXCEPT ![w] = step]

Return(w, r) ==
  /\ Goto(w, "idle") /\ result' = [result EXCEPT ![w] = r]
  /\ text' = [text EXCEPT ![w] = NoFile]

Proceed(w, step) == Goto(w, step) /\ UNCHANGED <<text, result>>

\* create_dir_all or File::create fails.
CreateFails(w) ==
  /\ pc[w] = "idle" /\ Return(w, "failed")
  /\ UNCHANGED <<fd, reading, names, diskNames, data, diskData>>

\* File::create: a new file, or the one a crash left behind cut to nothing.
Create(w) ==
  LET temp == TempOf(w) IN
  /\ pc[w] = "idle" /\ Goto(w, "created") /\ result' = [result EXCEPT ![w] = "none"]
  /\ \E c \in Contents : text' = [text EXCEPT ![w] = c]
  /\ \E f \in Files :
       /\ IF names[temp] = NoFile THEN f \notin InUse ELSE f = names[temp]
       /\ names' = [names EXCEPT ![temp] = f]
       /\ fd' = [fd EXCEPT ![w] = f]
       /\ data' = [data EXCEPT ![f] = Torn]
       /\ diskData' = IF names[temp] = NoFile THEN [diskData EXCEPT ![f] = Torn] ELSE diskData
  /\ UNCHANGED <<reading, diskNames>>

\* write_all; it may stop half way, and then the file stays.
WriteAll(w) ==
  /\ pc[w] = "created"
  /\ \/ /\ data' = [data EXCEPT ![fd[w]] = text[w]]
        /\ Proceed(w, "written") /\ UNCHANGED fd
     \/ /\ data' = [data EXCEPT ![fd[w]] = Torn]
        /\ fd' = [fd EXCEPT ![w] = NoFile] /\ Return(w, "failed")
  /\ UNCHANGED <<reading, names, diskNames, diskData>>

\* Variant: the text is not flushed before the rename.
SyncAll_Skipped(w) ==
  /\ pc[w] = "written" /\ fd' = [fd EXCEPT ![w] = NoFile]
  /\ Proceed(w, "synced")
  /\ UNCHANGED <<reading, names, diskNames, data, diskData>>

\* Variant: a call that fails here keeps its file open.
SyncAll_Leaks(w) ==
  /\ pc[w] = "written"
  /\ \/ /\ diskData' = [diskData EXCEPT ![fd[w]] = data[fd[w]]]
        /\ fd' = [fd EXCEPT ![w] = NoFile] /\ Proceed(w, "synced")
     \/ Return(w, "failed") /\ UNCHANGED <<fd, diskData>>
  /\ UNCHANGED <<reading, names, diskNames, data>>

\* sync_all, and the file is closed.
SyncAll(w) ==
  /\ pc[w] = "written" /\ fd' = [fd EXCEPT ![w] = NoFile]
  /\ \/ /\ diskData' = [diskData EXCEPT ![fd[w]] = data[fd[w]]]
        /\ Proceed(w, "synced")
     \/ Return(w, "failed") /\ UNCHANGED diskData
  /\ UNCHANGED <<reading, names, diskNames, data>>

\* rename(2), which moves the name in one step or fails.
Rename(w) ==
  LET temp == TempOf(w) IN
  /\ pc[w] = "synced"
  /\ \/ /\ names[temp] # NoFile
        /\ names' = [names EXCEPT ![Path] = names[temp], ![temp] = NoFile]
        /\ Proceed(w, "renamed")
     \/ Proceed(w, "refused") /\ UNCHANGED names
  /\ UNCHANGED <<fd, reading, diskNames, data, diskData>>

\* After a refused rename the temporary file is removed, if that works.
RemoveTemp(w) ==
  /\ pc[w] = "refused" /\ Return(w, "failed")
  /\ names' \in {names, [names EXCEPT ![TempOf(w)] = NoFile]}
  /\ UNCHANGED <<fd, reading, diskNames, data, diskData>>

\* The directory is flushed, if that works; the call succeeded either way.
SyncDir(w) ==
  /\ pc[w] = "renamed" /\ Return(w, "ok")
  /\ diskNames' \in {diskNames, names}
  /\ UNCHANGED <<fd, reading, names, data, diskData>>

----------------------------------------------------------------------------
(* Config::load: open, then read; and the file closes                      *)

Open(r) ==
  /\ reading[r] = NoFile /\ names[Path] # NoFile
  /\ reading' = [reading EXCEPT ![r] = names[Path]]
  /\ UNCHANGED <<writerVars, names, diskNames, data, diskData>>

CloseFile(r) ==
  /\ reading[r] # NoFile /\ reading' = [reading EXCEPT ![r] = NoFile]
  /\ UNCHANGED <<writerVars, names, diskNames, data, diskData>>

----------------------------------------------------------------------------
(* The kernel and the power                                                *)

WriteBackData(f) ==
  /\ diskData' = [diskData EXCEPT ![f] = data[f]]
  /\ UNCHANGED <<writerVars, reading, names, diskNames, data>>

WriteBackNames ==
  /\ diskNames' = names
  /\ UNCHANGED <<writerVars, reading, names, data, diskData>>

\* Everything that runs dies, and what is on disk is what there is.
PowerCut ==
  /\ names' = diskNames /\ data' = diskData
  /\ pc' = [w \in Writers |-> "idle"] /\ fd' = [w \in Writers |-> NoFile]
  /\ result' = [w \in Writers |-> "none"] /\ text' = [w \in Writers |-> NoFile]
  /\ reading' = [r \in Readers |-> NoFile]
  /\ UNCHANGED <<diskNames, diskData>>

Init ==
  /\ pc = [w \in Writers |-> "idle"] /\ result = [w \in Writers |-> "none"]
  /\ fd = [w \in Writers |-> NoFile] /\ text = [w \in Writers |-> NoFile]
  /\ reading = [r \in Readers |-> NoFile]
  /\ \E start \in Files \cup {NoFile} :
       names = [n \in Writers \cup {Path} |-> IF n = Path THEN start ELSE NoFile]
  /\ diskNames = names
  /\ data \in [Files -> Contents \cup {Torn}]
  /\ \A f \in Files : IF f = names[Path] THEN data[f] \in Contents ELSE data[f] = Torn
  /\ diskData = data

WriterStep(w) == CreateFails(w) \/ Create(w) \/ WriteAll(w) \/ SyncAll(w) \/ Rename(w)
                   \/ RemoveTemp(w) \/ SyncDir(w)

Next ==
  \/ \E w \in Writers : WriterStep(w)
  \/ \E r \in Readers : Open(r) \/ CloseFile(r)
  \/ \E f \in Files : WriteBackData(f)
  \/ WriteBackNames
  \/ PowerCut

Spec == Init /\ [][Next]_vars

----------------------------------------------------------------------------
(* Type and safety                                                         *)

\* Names lead to files and files hold texts; a writer has a file open exactly
\* while it writes it, and a text while it runs.
TypeOK ==
  /\ pc \in [Writers -> Steps] /\ text \in [Writers -> Contents \cup {NoFile}]
  /\ result \in [Writers -> {"none", "ok", "failed"}]
  /\ fd \in [Writers -> Files \cup {NoFile}]
  /\ reading \in [Readers -> Files \cup {NoFile}]
  /\ names \in [Writers \cup {Path} -> Files \cup {NoFile}]
  /\ diskNames \in [Writers \cup {Path} -> Files \cup {NoFile}]
  /\ data \in [Files -> Contents \cup {Torn}]
  /\ diskData \in [Files -> Contents \cup {Torn}]
  /\ \A w \in Writers : /\ fd[w] # NoFile <=> pc[w] \in {"created", "written"}
                        /\ text[w] # NoFile <=> pc[w] # "idle"

\* What a reader finds, and what it would find after a power cut.
Value == IF names[Path] = NoFile THEN NoFile ELSE data[names[Path]]
Saved == IF diskNames[Path] = NoFile THEN NoFile ELSE diskData[diskNames[Path]]

\* "A reader either sees the whole old file or the whole new one - never a
\* truncated one" (atomic.rs:4-6), and so does the next start after a power cut
\* (atomic.rs:8-11): write, with its temporary file and its two flushes,
\* implements a file that is replaced in one step.
Abstract == INSTANCE AtomicFile WITH value <- Value, saved <- Saved
ReplacesAtomically == Abstract!Spec

\* A reader reads the file in pieces: the text of the file it opened is whole
\* and stays the same until it closes it, whoever saves meanwhile.
OpenFileIsFrozen ==
  [][\A r \in Readers :
       reading[r] # NoFile /\ reading'[r] = reading[r]
         => data[reading[r]] \in Contents /\ data'[reading[r]] = data[reading[r]]]_vars

\* Short of a power cut the file changes only when a save succeeds, to the text
\* that was saved: a save that fails leaves the old text (atomic.rs:30-45).
OnlyASaveReplaces ==
  [][Value' # Value =>
       \/ Value' = Saved
       \/ \E w \in Writers : /\ pc[w] = "synced" /\ pc'[w] = "renamed"
                             /\ Value' = text[w]]_vars

\* No writer, whether it succeeds, fails or is in the middle of it, comes between
\* a reader and its text, or leaves the file with anything but a whole one.
TextsStayWhole == OpenFileIsFrozen /\ OnlyASaveReplaces

----------------------------------------------------------------------------
(* What the comments say and the code does not keep                        *)

\* "Leaving stray temp files behind would slowly litter the config dir"
\* (atomic.rs:41): a call that returned has left no temporary file.
NoStrayTemp ==
  \A w \in Writers :
    pc[w] = "idle" /\ result[w] \in {"ok", "failed"} => names[TempOf(w)] = NoFile
=============================================================================
