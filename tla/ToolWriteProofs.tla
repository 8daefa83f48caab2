--------------------------- MODULE ToolWriteProofs ---------------------------
(***************************************************************************)
(* What replaceFile and the loop of runTool guarantee for every list of    *)
(* files, every set of texts and every number of edits.                    *)
(***************************************************************************)
EXTENDS ToolWrite, TLAPS

Busy == Steps \ {"next"}
Replacing == {"before", "compare", "create", "write", "sync", "recheck", "rename"}
Compared == {"create", "write", "sync", "recheck", "rename"}

\* Where the tool is, in the list and in its file.
Position ==
  /\ pc \in Busy => next <= Len(Inputs)
  /\ pc \in Steps => code # 2
  /\ pc \in Replacing =>
       original \in Texts /\ Output[original] \in Texts /\ Output[original] # original
  /\ pc = "work" => original \in Texts
  /\ pc \in Replacing \ {"before"} => before.kind = "regular"

\* Whatever a path names is whole and synced, and so is the temporary file
\* by the time it is renamed.
Whole ==
  /\ \A p \in Files : disk[p].text \in Texts /\ disk[p].durable = TRUE
  /\ pc \in {"sync", "recheck", "rename"} => temp.text = Output[original]
  /\ pc \in {"recheck", "rename"} => temp.durable = TRUE

\* Inodes the editor will use are new.
Inodes ==
  /\ \A p \in Files : disk[p].stat.inode <= edits + 1
  /\ before.inode <= edits + 1

\* As long as Lstat returns what it returned before, the text is the one read.
Seen ==
  /\ pc \in Compared =>
       hidden \/ Lstat(file) # before \/ disk[file].text = original
  /\ pc = "rename" =>
       hidden \/ (Lstat(file).kind = "regular" /\ disk[file].text = original)

Inv == TypeOK /\ Position /\ Whole /\ Inodes /\ Seen

LEMMA LenIsNat == Len(Inputs) \in Nat
  BY ToolWriteAssumption

LEMMA Constants == MaxEdits \in Nat /\ Output \in [Texts -> Texts \cup {NoText}] /\ NoText \notin Texts
  BY ToolWriteAssumption

LEMMA FileIsFile == ASSUME Position, TypeOK, pc \in Busy PROVE file \in Files
<1>1. next \in 1..Len(Inputs)  BY DEF Position, TypeOK
<1>2. DOMAIN Inputs = 1..Len(Inputs)  BY ToolWriteAssumption
<1> QED  BY <1>1, <1>2 DEF file, Range, Files

LEMMA InvInit == Init => Inv
<1> SUFFICES ASSUME Init PROVE Inv  OBVIOUS
<1> DEFINE First(t) == [stat |-> [kind |-> "regular", inode |-> 1, size |-> 1, time |-> 0],
                        text |-> t, durable |-> TRUE]
<1>1. disk \in [Files -> Entries] /\ \A p \in Files : disk[p].text \in Texts /\ disk[p].durable = TRUE
           /\ disk[p].stat.inode <= edits + 1
  <2>1. \A t \in Texts : First(t) \in Entries /\ First(t).text = t /\ First(t).durable = TRUE
                           /\ First(t).stat.inode = 1
    BY DEF Entries, Stats, Kinds, Sizes
  <2>2. disk \in [Files -> {First(t) : t \in Texts}]
    BY DEF Init
  <2>3. edits = 0
    BY DEF Init
  <2> HIDE DEF First
  <2>4. \A p \in Files : \E t \in Texts : disk[p] = First(t)
    BY <2>2
  <2> QED  BY <2>1, <2>2, <2>3, <2>4
<1>2. TypeOK
  <2>1. before \in Stats /\ next \in 1..Len(Inputs) + 1 /\ pc \in Steps
    BY LenIsNat DEF Init, Stats, Kinds, Sizes, Steps
  <2>2. /\ temp = NoTemp /\ original = NoText /\ code = 0 /\ ctx = FALSE
        /\ edits = 0 /\ touched = {} /\ hidden = FALSE
    BY DEF Init
  <2>3. temp \in [text : Texts \cup {NoText}, durable : BOOLEAN]
    BY <2>2 DEF NoTemp
  <2>4. disk \in [Files -> Entries]
    BY <1>1
  <2>5. 0 \in 0..MaxEdits
    BY Constants
  <2>6. ctx \in BOOLEAN /\ hidden \in BOOLEAN /\ touched \subseteq Files
    BY <2>2
  <2>7. original \in Texts \cup {NoText} /\ code \in 0..2 /\ edits \in 0..MaxEdits
    BY <2>2, <2>5
  <2> QED  BY <2>1, <2>3, <2>4, <2>6, <2>7 DEF TypeOK
<1> QED  BY <1>1, <1>2 DEF Init, Inv, Position, Whole, Inodes, Seen, Busy, Replacing, Compared, Steps

\* The steps that leave the files, the editor and the position to others.
LEMMA FailKeeps == ASSUME Inv, Fail, UNCHANGED <<disk, ctx, editor>>, hidden' \in BOOLEAN PROVE Inv'
<1>1. TypeOK'
  BY DEF Inv, Fail, TypeOK, Discarded, NoTemp, editor
<1> QED
  BY <1>1 DEF Inv, Fail, Position, Whole, Inodes, Seen, Busy, Replacing, Compared, Steps, editor

LEMMA AdvanceKeeps ==
  ASSUME Inv, pc \in Busy, NEW status \in {0, 1}, Advance(status), UNCHANGED <<ctx, editor, hidden>>,
         disk' \in [Files -> Entries],
         \A p \in Files : disk'[p].text \in Texts /\ disk'[p].durable = TRUE
                            /\ disk'[p].stat.inode <= edits + 1
  PROVE  Inv'
<1>1. next + 1 \in 1..Len(Inputs) + 1
  BY LenIsNat DEF Inv, TypeOK, Position
<1>2. TypeOK'
  BY <1>1 DEF Inv, Advance, TypeOK, Discarded, NoTemp, editor, Steps
<1> QED
  BY <1>2 DEF Inv, Advance, Position, Whole, Inodes, Seen, Busy, Replacing, Compared, Steps, editor

LEMMA InvTool == ASSUME Inv, ToolStep PROVE Inv'
<1> USE DEF Goto
<1>t. TypeOK /\ Position /\ Len(Inputs) \in Nat  BY LenIsNat DEF Inv
<1>h. hidden \in BOOLEAN /\ code \in 0..2  BY <1>t DEF TypeOK
<1>f. pc \in Busy => file \in Files  BY <1>t, FileIsFile
<1>c. pc \in Busy => code \in {0, 1}  BY <1>t DEF TypeOK, Position, Busy
<1>d. /\ disk \in [Files -> Entries]
      /\ \A p \in Files : disk[p].text \in Texts /\ disk[p].durable = TRUE
                            /\ disk[p].stat.inode <= edits + 1
  BY DEF Inv, TypeOK, Whole, Inodes
<1>1. CASE NextFile
  <2>1. CASE next > Len(Inputs) /\ pc' = "done" /\ UNCHANGED <<next, original, before, temp, code>>
    BY <1>1, <2>1 DEF NextFile, Inv, TypeOK, Position, Whole, Inodes, Seen, Busy, Replacing,
                      Compared, Steps, editor
  <2>2. CASE Fail
    BY <1>1, <2>2, <1>h, FailKeeps DEF NextFile
  <2>3. CASE ~(next > Len(Inputs)) /\ Goto("look") /\ UNCHANGED <<original, before, temp>>
    BY <1>1, <2>3 DEF NextFile, Inv, TypeOK, Position, Whole, Inodes, Seen, Busy, Replacing,
                      Compared, Steps, editor
  <2> QED  BY <1>1, <2>1, <2>2, <2>3 DEF NextFile
<1>2. CASE Look
  <2>1. CASE FailFile
    BY <1>2, <2>1, <1>h, FailKeeps DEF Look, FailFile
  <2>2. CASE Goto("read") /\ UNCHANGED <<original, before, temp>>
    BY <1>2, <2>2 DEF Look, Inv, TypeOK, Position, Whole, Inodes, Seen, Busy, Replacing,
                      Compared, Steps, editor
  <2> QED  BY <1>2, <2>1, <2>2 DEF Look
<1>3. CASE Read
  <2>1. CASE FailFile /\ UNCHANGED editor
    BY <1>3, <2>1, <1>h, FailKeeps DEF Read, FailFile
  <2>2. CASE /\ Goto("work") /\ original' = disk[file].text /\ touched' = touched \ {file}
             /\ UNCHANGED <<before, temp, edits>>
    <3>1. pc = "read" /\ pc \in Busy  BY <1>3 DEF Read, Busy, Steps
    <3>2. original' \in Texts  BY <2>2, <3>1, <1>f, <1>d
    <3>3. TypeOK'
      BY <1>3, <2>2, <3>2 DEF Read, Inv, TypeOK, Steps
    <3> QED
      BY <1>3, <2>2, <3>1, <3>2, <3>3 DEF Read, Inv, TypeOK, Position, Whole, Inodes, Seen, Busy,
                                         Replacing, Compared, Steps
  <2> QED  BY <1>3, <2>1, <2>2 DEF Read
<1>4. CASE Work
  <2>1. CASE FailFile
    BY <1>4, <2>1, <1>h, FailKeeps DEF Work, FailFile
  <2>2. CASE Advance(IF original \in Reported THEN 1 ELSE code)
    <3>1. pc \in Busy  BY <1>4 DEF Work, Busy, Steps
    <3> DEFINE s == IF original \in Reported THEN 1 ELSE code
    <3>2. s \in {0, 1}  BY <3>1, <1>c
    <3>3. UNCHANGED <<disk, ctx, editor, hidden>>  BY <1>4 DEF Work
    <3> HIDE DEF s
    <3>4. Advance(s)  BY <2>2 DEF s
    <3> QED  BY <3>1, <3>2, <3>3, <3>4, <1>d, AdvanceKeeps
  <2>3. CASE /\ Output[original] # NoText /\ Output[original] # original
             /\ Goto("before") /\ UNCHANGED <<original, before, temp>>
    <3>1. original \in Texts /\ pc = "work"  BY <1>4, <1>t DEF Work, Position
    <3>2. Output[original] \in Texts  BY <3>1, <2>3, Constants
    <3> QED
      BY <1>4, <2>3, <3>1, <3>2 DEF Work, Inv, TypeOK, Position, Whole, Inodes, Seen, Busy,
                                   Replacing, Compared, Steps, editor
  <2> QED  BY <1>4, <2>1, <2>2, <2>3 DEF Work
<1>5. CASE Before
  <2>1. CASE Fail
    BY <1>5, <2>1, <1>h, FailKeeps DEF Before
  <2>2. CASE /\ Lstat(file).kind = "regular" /\ Goto("compare")
             /\ before' = Lstat(file) /\ UNCHANGED <<original, temp>>
    <3>1. pc = "before" /\ pc \in Busy  BY <1>5 DEF Before, Busy, Steps
    <3>2. disk[file] \in Entries /\ disk[file].stat.inode <= edits + 1
      BY <3>1, <1>f, <1>d
    <3>3. before' \in Stats /\ before'.inode <= edits + 1
      BY <2>2, <3>2 DEF Lstat, Entries
    <3> QED
      BY <1>5, <2>2, <3>1, <3>3 DEF Before, Inv, TypeOK, Position, Whole, Inodes, Seen, Busy,
                                   Replacing, Compared, Steps, editor
  <2> QED  BY <1>5, <2>1, <2>2 DEF Before
<1>6. CASE Compare
  <2>1. CASE Fail /\ UNCHANGED hidden
    BY <1>6, <2>1, <1>h, FailKeeps DEF Compare
  <2>2. CASE SameText /\ Goto("create") /\ hidden' = FALSE /\ UNCHANGED <<original, before, temp>>
    BY <1>6, <2>2 DEF Compare, SameText, Inv, TypeOK, Position, Whole, Inodes, Seen, Busy,
                      Replacing, Compared, Steps, editor, Lstat, file
  <2> QED  BY <1>6, <2>1, <2>2 DEF Compare
<1>7. CASE Create
  <2>1. CASE Fail
    BY <1>7, <2>1, <1>h, FailKeeps DEF Create, TempStep
  <2>2. CASE Goto("write") /\ temp' = NoTemp /\ UNCHANGED <<original, before>>
    BY <1>7, <2>2 DEF Create, TempStep, NoTemp, Inv, TypeOK, Position, Whole, Inodes, Seen, Busy,
                      Replacing, Compared, Steps, editor, Lstat, file
  <2> QED  BY <1>7, <2>1, <2>2 DEF Create, TempStep
<1>8. CASE Write
  <2>1. CASE Fail
    BY <1>8, <2>1, <1>h, FailKeeps DEF Write, TempStep
  <2>2. CASE /\ Goto("sync") /\ temp' = [temp EXCEPT !.text = Output[original]]
             /\ UNCHANGED <<original, before>>
    BY <1>8, <2>2 DEF Write, TempStep, Inv, TypeOK, Position, Whole, Inodes, Seen, Busy,
                      Replacing, Compared, Steps, editor, Lstat, file
  <2> QED  BY <1>8, <2>1, <2>2 DEF Write, TempStep
<1>9. CASE Sync
  <2>1. CASE Fail
    BY <1>9, <2>1, <1>h, FailKeeps DEF Sync, TempStep
  <2>2. CASE /\ Goto("recheck") /\ temp' = [temp EXCEPT !.durable = Synced]
             /\ UNCHANGED <<original, before>>
    BY <1>9, <2>2 DEF Sync, TempStep, Synced, Inv, TypeOK, Position, Whole, Inodes, Seen, Busy,
                      Replacing, Compared, Steps, editor, Lstat, file
  <2> QED  BY <1>9, <2>1, <2>2 DEF Sync, TempStep
<1>10. CASE Recheck
  <2>1. CASE Fail
    BY <1>10, <2>1, <1>h, FailKeeps DEF Recheck
  <2>2. CASE /\ Lstat(file).kind = "regular" /\ SameFile /\ Goto("rename")
             /\ UNCHANGED <<original, before, temp>>
    <3>1. pc = "recheck" /\ pc \in Busy  BY <1>10 DEF Recheck, Busy, Steps
    <3>2. Lstat(file) \in Stats /\ before \in Stats /\ before.kind = "regular"
      BY <3>1, <1>f, <1>d, <1>t DEF Lstat, Entries, TypeOK, Position, Replacing
    <3>3. Lstat(file) = before
      BY <2>2, <3>2 DEF SameFile, Stats
    <3> QED
      BY <1>10, <2>2, <3>1, <3>3 DEF Recheck, Inv, TypeOK, Position, Whole, Inodes, Seen, Busy,
                                    Replacing, Compared, Steps, editor, Lstat, file
  <2> QED  BY <1>10, <2>1, <2>2 DEF Recheck
<1>11. CASE Rename
  <2>1. CASE Fail /\ UNCHANGED disk
    BY <1>11, <2>1, <1>h, FailKeeps DEF Rename
  <2>2. CASE ~(Fail /\ UNCHANGED disk)
    <3> DEFINE s == StatusOfOutput
               new == [stat |-> [kind |-> "regular", inode |-> 0, size |-> 1, time |-> 0],
                       text |-> temp.text, durable |-> temp.durable]
    <3>1. pc = "rename" /\ pc \in Busy  BY <1>11 DEF Rename, Busy, Steps
    <3>2. disk' = [disk EXCEPT ![file] = new] /\ Advance(s) /\ UNCHANGED <<ctx, editor, hidden>>
      BY <1>11, <2>2 DEF Rename
    <3>3. s \in {0, 1}  BY <3>1, <1>c DEF StatusOfOutput
    <3>4. temp.text \in Texts /\ temp.durable = TRUE
      BY <3>1 DEF Inv, Whole, Position, Replacing
    <3>5. new \in Entries /\ new.text \in Texts /\ new.durable = TRUE /\ new.stat.inode <= edits + 1
      BY <3>4, <1>t DEF Entries, Stats, Kinds, Sizes, TypeOK
    <3> HIDE DEF s, new
    <3>6. /\ disk' \in [Files -> Entries]
          /\ \A p \in Files : disk'[p].text \in Texts /\ disk'[p].durable = TRUE
                                /\ disk'[p].stat.inode <= edits + 1
      BY <3>2, <3>5, <1>d
    <3> QED  BY <3>1, <3>2, <3>3, <3>6, AdvanceKeeps
  <2> QED  BY <2>1, <2>2
<1> QED
  BY <1>1, <1>2, <1>3, <1>4, <1>5, <1>6, <1>7, <1>8, <1>9, <1>10, <1>11 DEF ToolStep

\* What the editor touches is whole, and shows unless it is hidden.
LEMMA TouchedKeeps ==
  ASSUME Inv, NEW p \in Files, NEW entry \in Entries, Touched(p, entry),
         entry.text \in Texts, entry.durable = TRUE, entry.stat.inode <= edits + 2,
         hidden' \in BOOLEAN, hidden => hidden', Late(p) => hidden',
         Current(p) /\ entry.stat = before => hidden'
  PROVE  Inv'
<1>1. /\ disk' \in [Files -> Entries]
      /\ \A q \in Files : disk'[q].text \in Texts /\ disk'[q].durable = TRUE
                            /\ disk'[q].stat.inode <= edits' + 1
  <2>1. disk' = [disk EXCEPT ![p] = entry] /\ edits' = edits + 1 /\ edits \in Nat
    BY Constants DEF Inv, TypeOK, Touched
  <2>2. ASSUME NEW q \in Files
        PROVE  disk'[q].text \in Texts /\ disk'[q].durable = TRUE /\ disk'[q].stat.inode <= edits' + 1
    <3>1. disk[q] \in Entries /\ disk[q].text \in Texts /\ disk[q].durable = TRUE
            /\ disk[q].stat.inode <= edits + 1 /\ disk[q].stat.inode \in Nat
      BY DEF Inv, TypeOK, Whole, Inodes, Entries, Stats
    <3>2. disk'[q] = IF q = p THEN entry ELSE disk[q]
      BY <2>1 DEF Inv, TypeOK
    <3> QED  BY <2>1, <3>1, <3>2
  <2> QED  BY <2>1, <2>2 DEF Inv, TypeOK
<1>2. edits' \in 0..MaxEdits /\ touched' \subseteq Files
  BY Constants DEF Inv, TypeOK, Touched
<1>3. TypeOK'
  BY <1>1, <1>2 DEF Inv, TypeOK, Touched, tool
<1>4. Position'
  BY DEF Inv, Position, Touched, tool
<1>5. Whole' /\ Inodes'
  <2>1. UNCHANGED tool /\ edits' = edits + 1 /\ edits \in Nat /\ before.inode \in Nat
    BY Constants DEF Inv, TypeOK, Touched, Stats
  <2> QED  BY <1>1, <2>1 DEF Inv, Whole, Inodes, tool
<1>6. Seen'
  <2>1. SUFFICES ASSUME pc \in Compared PROVE Seen'
    BY DEF Seen, Compared, Touched, tool
  <2>2. file \in Files /\ file' = file /\ next <= Len(Inputs)
    BY <2>1, FileIsFile DEF Inv, Compared, Busy, Steps, file, Touched, tool, Position
  <2>3. CASE p = file
    BY <2>1, <2>2, <2>3 DEF Inv, TypeOK, Seen, Touched, tool, Current, Late, Lstat
  <2>4. CASE p # file
    BY <2>1, <2>2, <2>4 DEF Inv, TypeOK, Seen, Touched, tool, Lstat
  <2> QED  BY <2>3, <2>4
<1> QED  BY <1>3, <1>4, <1>5, <1>6 DEF Inv

LEMMA InvEnvironment == ASSUME Inv, Environment PROVE Inv'
<1>1. ASSUME NEW p \in Files, Rewrite(p) PROVE Inv'
  <2>1. PICK text \in Texts, size \in Sizes, time \in {Lstat(p).time, edits + 1} :
          /\ Touched(p, [stat |-> [Lstat(p) EXCEPT !.size = size, !.time = time],
                         text |-> text, durable |-> TRUE])
          /\ hidden' = (hidden \/ Late(p) \/ (Current(p) /\ disk'[p].stat = before))
    BY <1>1 DEF Rewrite
  <2> DEFINE entry == [stat |-> [Lstat(p) EXCEPT !.size = size, !.time = time],
                       text |-> text, durable |-> TRUE]
  <2>2. disk[p] \in Entries /\ disk[p].stat.inode <= edits + 1 /\ edits \in Nat
    BY Constants DEF Inv, TypeOK, Inodes
  <2>3. time \in Nat
    BY <2>2 DEF Lstat, Entries, Stats
  <2>4. entry \in Entries /\ entry.text \in Texts /\ entry.durable = TRUE
          /\ entry.stat.inode <= edits + 2
    <3> DEFINE stat == [Lstat(p) EXCEPT !.size = size, !.time = time]
    <3>1. Lstat(p) \in Stats /\ Lstat(p).inode <= edits + 1 /\ Lstat(p).inode \in Nat
      BY <2>2 DEF Entries, Stats, Lstat
    <3>2. stat \in Stats /\ stat.inode = Lstat(p).inode
      BY <3>1, <2>3 DEF Stats
    <3> HIDE DEF stat
    <3>3. stat.inode <= edits + 2
      BY <3>1, <3>2, <2>2
    <3>4. entry = [stat |-> stat, text |-> text, durable |-> TRUE]
      BY DEF stat
    <3> HIDE DEF entry
    <3> QED  BY <3>2, <3>3, <3>4 DEF Entries
  <2> HIDE DEF entry
  <2>5. disk'[p] = entry
    BY <2>1 DEF Inv, TypeOK, Touched, entry
  <2>6. Touched(p, entry)
    BY <2>1 DEF entry
  <2> QED  BY <2>1, <2>4, <2>5, <2>6, TouchedKeeps
<1>2. ASSUME NEW p \in Files, Replace(p) PROVE Inv'
  <2>1. PICK text \in Texts, kind \in Kinds, time \in {Lstat(p).time, edits + 1} :
          /\ Touched(p, [stat |-> [kind |-> kind, inode |-> edits + 2, size |-> 1, time |-> time],
                         text |-> text, durable |-> TRUE])
          /\ hidden' = (hidden \/ Late(p))
    BY <1>2 DEF Replace
  <2> DEFINE entry == [stat |-> [kind |-> kind, inode |-> edits + 2, size |-> 1, time |-> time],
                       text |-> text, durable |-> TRUE]
  <2>2. disk[p] \in Entries /\ before.inode <= edits + 1 /\ before \in Stats /\ edits \in Nat
    BY Constants DEF Inv, TypeOK, Inodes
  <2>3. time \in Nat
    BY <2>2 DEF Lstat, Entries, Stats
  <2>4. entry \in Entries /\ entry.text \in Texts /\ entry.durable = TRUE
          /\ entry.stat.inode = edits + 2
    BY <2>2, <2>3 DEF Entries, Stats, Sizes
  <2> HIDE DEF entry
  <2>5. entry.stat # before
    BY <2>2, <2>4 DEF Stats
  <2>6. Touched(p, entry)
    BY <2>1 DEF entry
  <2>7. hidden' \in BOOLEAN /\ (hidden => hidden') /\ (Late(p) => hidden')
    BY <2>1
  <2>8. entry.stat.inode <= edits + 2
    BY <2>2, <2>4
  <2> QED  BY <2>4, <2>5, <2>6, <2>7, <2>8, TouchedKeeps
<1>3. CASE CancelContext
  BY <1>3 DEF CancelContext, tool, editor, Inv, TypeOK, Position, Whole, Inodes, Seen, Lstat, file
<1>4. CASE Kill
  BY <1>4 DEF Kill, editor, Inv, TypeOK, Position, Whole, Inodes, Seen, Lstat, file, Busy, Replacing,
              Compared, Steps
<1>5. CASE PowerFailure
  <2>1. PICK torn \in SUBSET {p \in Files : ~disk[p].durable} :
          disk' = [p \in Files |->
                     IF p \in torn THEN [disk[p] EXCEPT !.text = NoText] ELSE disk[p]]
    BY <1>5 DEF PowerFailure
  <2>2. torn = {}
    BY <2>1 DEF Inv, Whole
  <2>3. disk' = disk
    BY <2>1, <2>2 DEF Inv, TypeOK
  <2> QED
    BY <1>5, <2>3 DEF PowerFailure, editor, Inv, TypeOK, Position, Whole, Inodes, Seen, Lstat, file,
                      Busy, Replacing, Compared, Steps
<1> QED  BY <1>1, <1>2, <1>3, <1>4, <1>5 DEF Environment

LEMMA InvNext == ASSUME Inv, [Next]_vars PROVE Inv'
<1>1. CASE UNCHANGED vars
  BY <1>1 DEF vars, tool, editor, Inv, TypeOK, Position, Whole, Inodes, Seen, Lstat, file
<1> QED  BY <1>1, InvTool, InvEnvironment DEF Next

THEOREM Invariance == Spec => []Inv
BY InvInit, InvNext, PTL DEF Spec

\* Every variable has its type.
THEOREM TypeCorrect == Spec => []TypeOK
BY Invariance, PTL DEF Inv

\* No kill and no power failure leaves a torn file at a path.
THEOREM NothingTorn == Spec => []NeverTorn
<1>1. Inv => NeverTorn
  BY Constants DEF Inv, Whole, NeverTorn
<1> QED  BY <1>1, Invariance, PTL

\* What the tool overwrites is what it read, unless the edit could not be seen.
THEOREM NoVisibleEditLost == Spec => OverwritesOnlyRead
<1>1. Inv /\ [Next]_vars =>
        [Rename /\ code' # 2 =>
           hidden \/ (Lstat(file).kind = "regular" /\ disk[file].text = original)]_vars
  BY DEF Inv, Seen, Rename
<1> QED  BY <1>1, Invariance, PTL DEF Spec, OverwritesOnlyRead

-----------------------------------------------------------------------------
\* What has been processed is finished, as long as the status is 0.
Settled(p) == p \in touched \/ Finished(p)
Truth ==
  /\ pc \in Busy \ {"look", "read"} => file \in touched \/ disk[file].text = original
  /\ code = 0 => \A k \in 1..Len(Inputs) : k < next => Settled(Inputs[k])
  /\ pc = "done" /\ code = 0 => next > Len(Inputs)

LEMMA DistinctInputs ==
  /\ Files = {Inputs[k] : k \in 1..Len(Inputs)}
  /\ \A k, l \in 1..Len(Inputs) : Inputs[k] = Inputs[l] => k = l
  /\ \A t \in Texts : Output[t] \in Texts => Output[Output[t]] = Output[t]
<1>1. DOMAIN Inputs = 1..Len(Inputs)
  BY ToolWriteAssumption
<1> QED  BY <1>1, ToolWriteAssumption DEF Files, Range, IsInjective

\* A failed tool has status 2.
LEMMA TruthFail == ASSUME Fail PROVE Truth'
BY DEF Fail, Truth, Busy, Steps

\* A file that ends as it was read or as it was written leaves the rest alone.
LEMMA TruthAdvance ==
  ASSUME Inv, Truth, pc \in Busy, NEW status \in {0, 1}, Advance(status), UNCHANGED editor,
         NEW f \in Files, f = file, status = 0 => code = 0 /\ Settled(f)',
         \A p \in Files : p # f => disk'[p] = disk[p]
  PROVE  Truth'
<1>1. next \in 1..Len(Inputs) /\ next' = next + 1 /\ code' = status /\ pc' = "next"
  BY LenIsNat DEF Inv, TypeOK, Position, Advance
<1>2. ASSUME status = 0, NEW k \in 1..Len(Inputs), k < next' PROVE Settled(Inputs[k])'
  <2>1. CASE k = next
    BY <1>2, <2>1 DEF file
  <2>2. CASE k # next
    <3>1. k < next /\ Inputs[k] # file /\ Inputs[k] \in Files
      BY <1>1, <1>2, <2>2, DistinctInputs DEF file
    <3>2. Settled(Inputs[k])
      BY <1>2, <3>1 DEF Truth
    <3> QED  BY <3>1, <3>2 DEF Settled, Finished, editor
  <2> QED  BY <2>1, <2>2
<1> QED  BY <1>1, <1>2 DEF Truth, Busy, Steps

LEMMA TruthTool == ASSUME Inv, Truth, ToolStep PROVE Truth'
<1> USE DEF Goto
<1>f. pc \in Busy => file \in Files /\ next <= Len(Inputs)  BY FileIsFile DEF Inv, Position
<1>c. pc \in Busy => code \in {0, 1}  BY DEF Inv, TypeOK, Position, Busy
<1>s. ASSUME UNCHANGED <<disk, next, code, touched>>
      PROVE  code' = 0 => \A k \in 1..Len(Inputs) : k < next' => Settled(Inputs[k])'
  BY <1>s DEF Truth, Settled, Finished
<1>1. CASE NextFile
  BY <1>1, <1>s, TruthFail DEF NextFile, Truth, Busy, Steps, editor
<1>2. CASE Look
  BY <1>2, <1>s, TruthFail DEF Look, FailFile, Truth, Busy, Steps, editor
<1>3. CASE Read
  <2>1. CASE FailFile /\ UNCHANGED editor
    BY <2>1, TruthFail DEF FailFile
  <2>2. CASE /\ Goto("work") /\ original' = disk[file].text /\ touched' = touched \ {file}
             /\ UNCHANGED <<before, temp, edits>>
    <3>1. pc = "read" /\ pc \in Busy /\ disk' = disk  BY <1>3 DEF Read, Busy, Steps
    <3>2. ASSUME code' = 0, NEW k \in 1..Len(Inputs), k < next' PROVE Settled(Inputs[k])'
      <4>1. Settled(Inputs[k]) /\ next \in 1..Len(Inputs)
        BY <2>2, <3>1, <3>2, <1>f, LenIsNat DEF Truth, Inv, TypeOK
      <4>2. Inputs[k] # file
        BY <2>2, <3>2, <4>1, DistinctInputs DEF file
      <4> QED  BY <2>2, <3>1, <4>1, <4>2 DEF Settled, Finished
    <3>3. disk'[file'].text = original'
      BY <2>2, <3>1 DEF file
    <3> QED  BY <2>2, <3>2, <3>3 DEF Truth
  <2> QED  BY <1>3, <2>1, <2>2 DEF Read
<1>4. CASE Work
  <2>1. CASE FailFile
    BY <2>1, TruthFail DEF FailFile
  <2>2. CASE Output[original] = original /\ Advance(IF original \in Reported THEN 1 ELSE code)
    <3>1. pc = "work" /\ pc \in Busy /\ UNCHANGED <<disk, editor>>  BY <1>4 DEF Work, Busy, Steps
    <3> DEFINE s == IF original \in Reported THEN 1 ELSE code
    <3>2. s \in {0, 1} /\ (s = 0 => code = 0 /\ original \notin Reported)  BY <3>1, <1>c
    <3> HIDE DEF s
    <3>3. Advance(s)  BY <2>2 DEF s
    <3>4. PICK f \in Files : f = file  BY <3>1, <1>f
    <3>5. s = 0 => Settled(f)
      BY <2>2, <3>1, <3>2, <3>4 DEF Truth, Settled, Finished, Inv, Position
    <3>6. s = 0 => Settled(f)'
      BY <3>1, <3>5 DEF Settled, Finished, editor
    <3> QED  BY <3>1, <3>2, <3>3, <3>4, <3>6, TruthAdvance
  <2>3. CASE Goto("before") /\ UNCHANGED <<original, before, temp>>
    BY <1>4, <2>3, <1>s DEF Work, Truth, Busy, Steps, editor, file
  <2> QED  BY <1>4, <2>1, <2>2, <2>3 DEF Work
<1>5. CASE Before \/ Compare \/ Create \/ Write \/ Sync \/ Recheck
  <2>1. CASE Fail  BY <2>1, TruthFail
  <2>2. CASE ~Fail
    <3>1. /\ UNCHANGED <<disk, next, code, touched, original>>
          /\ pc \in Busy \ {"look", "read"} /\ pc' \in Steps
      BY <1>5, <2>2 DEF Before, Compare, Create, Write, Sync, TempStep, Recheck, Busy, Steps, editor
    <3> QED  BY <3>1, <1>s DEF Truth, file, Steps
  <2> QED  BY <2>1, <2>2
<1>6. CASE Rename
  <2>1. CASE Fail  BY <2>1, TruthFail
  <2>2. CASE ~Fail
    <3>1. pc = "rename" /\ pc \in Busy /\ UNCHANGED editor  BY <1>6 DEF Rename, Busy, Steps
    <3> DEFINE s == StatusOfOutput
               new == [stat |-> [kind |-> "regular", inode |-> 0, size |-> 1, time |-> 0],
                       text |-> temp.text, durable |-> temp.durable]
    <3>2. s \in {0, 1} /\ (s = 0 => code = 0 /\ Output[original] \notin Reported)
      BY <3>1, <1>c DEF StatusOfOutput
    <3>3. disk' = [disk EXCEPT ![file] = new] /\ Advance(s)  BY <1>6, <2>2 DEF Rename
    <3>4. new.text = Output[original] /\ original \in Texts /\ Output[original] \in Texts
      BY <3>1 DEF Inv, Whole, Position, Replacing
    <3> HIDE DEF s, new
    <3>5. PICK f \in Files : f = file  BY <3>1, <1>f
    <3>6. disk'[f].text = Output[original] /\ \A p \in Files : p # f => disk'[p] = disk[p]
      BY <3>3, <3>4, <3>5 DEF Inv, TypeOK
    <3>7. s = 0 => Settled(f)'
      BY <3>2, <3>4, <3>6, DistinctInputs DEF Settled, Finished
    <3> QED  BY <3>1, <3>2, <3>3, <3>5, <3>6, <3>7, TruthAdvance
  <2> QED  BY <2>1, <2>2
<1> QED  BY <1>1, <1>2, <1>3, <1>4, <1>5, <1>6 DEF ToolStep

LEMMA TruthEnvironment == ASSUME Inv, Truth, Environment PROVE Truth'
<1>1. ASSUME NEW p \in Files, NEW entry, Touched(p, entry) PROVE Truth'
  <2>1. /\ UNCHANGED <<pc, next, original, code>> /\ touched' = touched \cup {p}
        /\ \A q \in Files : q # p => disk'[q] = disk[q]
    BY <1>1 DEF Touched, tool, Inv, TypeOK
  <2>2. \A q \in Files : Settled(q) => Settled(q)'
    BY <2>1 DEF Settled, Finished
  <2>3. \A k \in 1..Len(Inputs) : Inputs[k] \in Files
    BY DistinctInputs
  <2>4. pc \in Busy \ {"look", "read"} => file' \in touched' \/ disk'[file'].text = original'
    <3>1. pc \in Busy => file \in Files  BY FileIsFile DEF Inv
    <3> QED  BY <2>1, <3>1 DEF Truth, file
  <2> QED  BY <2>1, <2>2, <2>3, <2>4 DEF Truth
<1>2. ASSUME UNCHANGED <<disk, next, original, code, touched>>, pc' = pc \/ pc' = "killed" PROVE Truth'
  BY <1>2 DEF Truth, Settled, Finished, file, Busy, Steps
<1>3. CASE PowerFailure
  <2>1. disk' = disk
    BY <1>3 DEF PowerFailure, Inv, Whole, TypeOK
  <2> QED  BY <1>2, <1>3, <2>1 DEF PowerFailure, editor
<1>4. CASE CancelContext \/ Kill
  BY <1>2, <1>4 DEF CancelContext, Kill, tool, editor
<1>5. CASE \E p \in Files : Rewrite(p) \/ Replace(p)
  BY <1>1, <1>5 DEF Rewrite, Replace
<1> QED  BY <1>3, <1>4, <1>5 DEF Environment

\* Status 0 is told truthfully.
THEOREM StatusTruthful == Spec => []ExitTruthful
<1>1. Init => Truth
  BY DEF Init, Truth, Busy, Steps
<1>2. Inv /\ Truth /\ [Next]_vars => Truth'
  <2>1. Truth /\ UNCHANGED vars => Truth'
    BY DEF vars, tool, editor, Truth, Settled, Finished, file
  <2> QED  BY <2>1, TruthTool, TruthEnvironment DEF Next
<1>3. Inv /\ Truth => ExitTruthful
  <2> SUFFICES ASSUME Inv, Truth, pc = "done", code = 0, NEW p \in Files \ touched PROVE Finished(p)
    BY DEF ExitTruthful
  <2>1. PICK k \in 1..Len(Inputs) : p = Inputs[k]
    BY DistinctInputs
  <2>2. k < next
    BY LenIsNat DEF Truth, Inv, TypeOK
  <2> QED  BY <2>1, <2>2 DEF Truth, Settled
<1> QED  BY <1>1, <1>2, <1>3, Invariance, PTL DEF Spec
=============================================================================
