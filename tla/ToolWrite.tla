------------------------------ MODULE ToolWrite ------------------------------
(***************************************************************************)
(* blobl fmt --write and blobl lint --fix over a list of files, of         *)
(* internal/cli: the loop of runTool and replaceFile, against an editor    *)
(* that touches the same files, a kill and a power failure.                *)
(*                                                                         *)
(* The formatter and the fixer are one function from texts to texts.  The  *)
(* file system is external: an entry has the kind, inode, size and time    *)
(* that Lstat reports, its text, and whether that text survives a power    *)
(* failure.  What the editor writes survives; what the tool writes does    *)
(* after the Sync.                                                         *)
(***************************************************************************)
EXTENDS Naturals, Sequences, FiniteSets, Functions

CONSTANTS
  Inputs,    \* the collected files, a sequence in the order of their names
  Texts,     \* the texts a file can have
  NoText,    \* no text: what a failed command makes, what is left of a torn file
  Output,    \* what the command makes of a text, NoText when it fails
  Reported,  \* texts in which lint leaves a warning or an error
  MaxEdits   \* bound: how often the editor touches a file

Files == Range(Inputs)

ASSUME ToolWriteAssumption ==
  /\ Inputs \in Seq(Files) /\ IsInjective(Inputs)
  /\ NoText \notin Texts
  /\ Output \in [Texts -> Texts \cup {NoText}]
  /\ \A t \in Texts : Output[t] \in Texts => Output[Output[t]] = Output[t]
  /\ MaxEdits \in Nat

Sizes == {1, 2}
Kinds == {"regular", "link", "absent"}
Stats == [kind : Kinds, inode : Nat, size : Sizes, time : Nat]
Entries == [stat : Stats, text : Texts \cup {NoText}, durable : BOOLEAN]
\* A temporary file that is new, or none.
NoTemp == [text |-> NoText, durable |-> FALSE]

VARIABLES
  disk,      \* what each path names
  pc,        \* where the tool is
  next,      \* position of its file in Inputs
  original,  \* the text it read
  before,    \* what the first Lstat of replaceFile returned
  temp,      \* its temporary file
  code,      \* exitCode, and the status once the tool is done
  ctx,       \* whether the context is canceled
  edits,     \* how often the editor touched a file
  touched,   \* files the editor touched after the tool read them
  hidden     \* the editor touched the tool's file where no check can see it

tool == <<pc, next, original, before, temp, code>>
editor == <<edits, touched>>
vars == <<disk, tool, ctx, editor, hidden>>

file == Inputs[next]
Steps == {"next", "look", "read", "work", "before", "compare", "create",
          "write", "sync", "recheck", "rename"}

Lstat(p) == disk[p].stat

\* defer os.Remove: whatever ends replaceFile removes its temporary file.
Discarded == NoTemp

Fail ==
  /\ pc' = "done"
  /\ code' = 2
  /\ temp' = Discarded
  /\ UNCHANGED <<next, original, before>>

Advance(status) ==
  /\ pc' = "next"
  /\ next' = next + 1
  /\ code' = status
  /\ temp' = Discarded
  /\ UNCHANGED <<original, before>>

Goto(step) ==
  /\ pc' = step
  /\ UNCHANGED <<next, code>>

\* What the loop does about a file it cannot process.
\* Mutant: it goes on with the next one.
FailOrSkip == Advance(code)
FailFile == Fail

-----------------------------------------------------------------------------
\* runTool: the next file, or the end.
NextFile ==
  /\ pc = "next"
  /\ CASE next > Len(Inputs) ->
            /\ pc' = "done"
            /\ UNCHANGED <<next, original, before, temp, code>>
       [] next <= Len(Inputs) /\ ctx -> Fail
       [] OTHER -> Goto("look") /\ UNCHANGED <<original, before, temp>>
  /\ UNCHANGED <<disk, ctx, editor, hidden>>

\* inputFile.read: rejectSymlinks, then ReadFile, which follows a link that
\* came in between.
Look ==
  /\ pc = "look"
  /\ IF Lstat(file).kind = "regular"
     THEN Goto("read") /\ UNCHANGED <<original, before, temp>>
     ELSE FailFile
  /\ UNCHANGED <<disk, ctx, editor, hidden>>

Read ==
  /\ pc = "read"
  /\ IF Lstat(file).kind = "absent"
     THEN FailFile /\ UNCHANGED editor
     ELSE /\ Goto("work")
          /\ original' = disk[file].text
          /\ touched' = touched \ {file}
          /\ UNCHANGED <<before, temp, edits>>
  /\ UNCHANGED <<disk, ctx, hidden>>

\* Format, or Lint with its diagnostics.
Work ==
  /\ pc = "work"
  /\ CASE Output[original] = NoText -> FailFile
       [] Output[original] = original ->
            Advance(IF original \in Reported THEN 1 ELSE code)
       [] OTHER -> Goto("before") /\ UNCHANGED <<original, before, temp>>
  /\ UNCHANGED <<disk, ctx, editor, hidden>>

-----------------------------------------------------------------------------
\* replaceFile.
Before ==
  /\ pc = "before"
  /\ IF Lstat(file).kind = "regular"
     THEN Goto("compare") /\ before' = Lstat(file) /\ UNCHANGED <<original, temp>>
     ELSE Fail
  /\ UNCHANGED <<disk, ctx, editor, hidden>>

\* Mutant: the text is not read again.
SameTextUnread == TRUE
SameText == disk[file].text = original

Compare ==
  /\ pc = "compare"
  /\ IF Lstat(file).kind # "absent" /\ SameText
     THEN /\ Goto("create")
          /\ hidden' = FALSE
          /\ UNCHANGED <<original, before, temp>>
     ELSE Fail /\ UNCHANGED hidden
  /\ UNCHANGED <<disk, ctx, editor>>

\* Each step on the temporary file may fail.
TempStep(from, to, new) ==
  /\ pc = from
  /\ \/ Goto(to) /\ temp' = new /\ UNCHANGED <<original, before>>
     \/ Fail
  /\ UNCHANGED <<disk, ctx, editor, hidden>>

\* Mutant: the temporary file is closed without a Sync.
SyncedNot == FALSE
Synced == TRUE

\* CreateTemp; WriteString and Chmod; Sync and Close.
Create == TempStep("create", "write", NoTemp)
Write == TempStep("write", "sync", [temp EXCEPT !.text = Output[original]])
Sync == TempStep("sync", "recheck", [temp EXCEPT !.durable = Synced])

\* Mutant: the inode is not compared.
UnchangedFile ==
  LET after == Lstat(file)
  IN after.size = before.size /\ after.time = before.time
\* SameFile, Size and ModTime.
SameFile ==
  LET after == Lstat(file)
  IN /\ after.inode = before.inode
     /\ after.size = before.size
     /\ after.time = before.time

Recheck ==
  /\ pc = "recheck"
  /\ IF Lstat(file).kind = "regular" /\ SameFile
     THEN Goto("rename") /\ UNCHANGED <<original, before, temp>>
     ELSE Fail
  /\ UNCHANGED <<disk, ctx, editor, hidden>>

\* The status of a file that has been written.
StatusOfOutput == IF Output[original] \in Reported THEN 1 ELSE code

Rename ==
  /\ pc = "rename"
  /\ \/ /\ disk' = [disk EXCEPT ![file] =
                     [stat |-> [kind |-> "regular", inode |-> 0, size |-> 1, time |-> 0],
                      text |-> temp.text, durable |-> temp.durable]]
        /\ Advance(StatusOfOutput)
     \/ Fail /\ UNCHANGED disk
  /\ UNCHANGED <<ctx, editor, hidden>>

ToolStep ==
  \/ NextFile \/ Look \/ Read \/ Work
  \/ Before \/ Compare \/ Create \/ Write \/ Sync \/ Recheck \/ Rename

-----------------------------------------------------------------------------
\* The editor, the caller and the machine.
Touched(p, entry) ==
  /\ edits < MaxEdits
  /\ pc \in Steps
  /\ edits' = edits + 1
  /\ disk' = [disk EXCEPT ![p] = entry]
  /\ touched' = touched \cup {p}
  /\ UNCHANGED <<tool, ctx>>

Current(p) == next <= Len(Inputs) /\ p = file
Late(p) == Current(p) /\ pc = "rename"

\* It writes the file in place.  Its clock or its file system may be too coarse
\* for the write to show in the modification time.
Rewrite(p) ==
  \E text \in Texts, size \in Sizes, time \in {Lstat(p).time, edits + 1} :
    /\ Lstat(p).kind = "regular"
    /\ Touched(p, [stat |-> [Lstat(p) EXCEPT !.size = size, !.time = time],
                   text |-> text, durable |-> TRUE])
    /\ hidden' = (hidden \/ Late(p) \/ (Current(p) /\ disk'[p].stat = before))

\* It renames another file or a link to the path, or removes the path.  The
\* inode tells the new file from the old one, whatever its size; its time counts
\* only when it is regular.
Replace(p) ==
  \E text \in Texts, kind \in Kinds, time \in {Lstat(p).time, edits + 1} :
    /\ kind # "regular" => time = edits + 1
    /\ kind = "absent" => text = disk[p].text
    /\ Touched(p, [stat |-> [kind |-> kind, inode |-> edits + 2, size |-> 1, time |-> time],
                   text |-> text, durable |-> TRUE])
    /\ hidden' = (hidden \/ Late(p))

CancelContext ==
  /\ ~ctx /\ pc \in Steps
  /\ ctx' = TRUE
  /\ UNCHANGED <<disk, tool, editor, hidden>>

Kill ==
  /\ pc \in Steps
  /\ pc' = "killed"
  /\ UNCHANGED <<disk, next, original, before, temp, code, ctx, editor, hidden>>

\* Texts that were never synced may be torn.
PowerFailure ==
  /\ pc' = "killed"
  /\ \E torn \in SUBSET {p \in Files : ~disk[p].durable} :
       disk' = [p \in Files |->
                  IF p \in torn THEN [disk[p] EXCEPT !.text = NoText] ELSE disk[p]]
  /\ UNCHANGED <<next, original, before, temp, code, ctx, editor, hidden>>

Environment ==
  \/ \E p \in Files : Rewrite(p) \/ Replace(p)
  \/ CancelContext \/ Kill \/ PowerFailure

Init ==
  /\ disk \in [Files -> {[stat |-> [kind |-> "regular", inode |-> 1, size |-> 1, time |-> 0],
                          text |-> t, durable |-> TRUE] : t \in Texts}]
  /\ pc = "next" /\ next = 1
  /\ original = NoText
  /\ before = [kind |-> "absent", inode |-> 0, size |-> 1, time |-> 0]
  /\ temp = NoTemp
  /\ code = 0
  /\ ctx = FALSE
  /\ edits = 0 /\ touched = {}
  /\ hidden = FALSE

Next == ToolStep \/ Environment

Spec == Init /\ [][Next]_vars

-----------------------------------------------------------------------------
\* Every variable has its type.
TypeOK ==
  /\ disk \in [Files -> Entries]
  /\ pc \in Steps \cup {"done", "killed"}
  /\ next \in 1..Len(Inputs) + 1
  /\ original \in Texts \cup {NoText}
  /\ before \in Stats
  /\ temp \in [text : Texts \cup {NoText}, durable : BOOLEAN]
  /\ code \in 0..2
  /\ ctx \in BOOLEAN
  /\ edits \in 0..MaxEdits
  /\ touched \subseteq Files
  /\ hidden \in BOOLEAN

\* A path never names a file that is torn, whenever the tool is killed or the
\* machine loses its power: replaceFile renames a complete, synced file.
NeverTorn == \A p \in Files : disk[p].text # NoText

\* The tool overwrites only the text it read: an editor's write that either the
\* second reading or the second Lstat of replaceFile can see is never lost.
OverwritesOnlyRead ==
  [][Rename /\ code' # 2 =>
       hidden \/ (Lstat(file).kind = "regular" /\ disk[file].text = original)]_vars

Finished(p) ==
  disk[p].text \in Texts /\ Output[disk[p].text] = disk[p].text /\ disk[p].text \notin Reported

\* Status 0 means that every file nobody touched since it was read is what the
\* command makes of it and has nothing left to report.
ExitTruthful ==
  pc = "done" /\ code = 0 => \A p \in Files \ touched : Finished(p)
=============================================================================
