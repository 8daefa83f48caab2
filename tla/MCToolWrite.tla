----------------------------- MODULE MCToolWrite -----------------------------
\* Both halves of blobl fmt and blobl lint: which files are collected, and what
\* happens to those that were.
EXTENDS ToolWrite, Discovery, TLC

CONSTANTS f1, f2, messy, mixed, tidy, warned, broken

TwoFiles == <<f1, f2>>

\* A text is fixed, and what cannot be fixed is reported.  A text that does not
\* parse, or whose fixes do not converge, is refused.
LintTexts == {messy, mixed, tidy, warned, broken}
LintOutput == [t \in LintTexts |->
  CASE t \in {messy, tidy} -> tidy
    [] t \in {mixed, warned} -> warned
    [] t = broken -> NoText]

-----------------------------------------------------------------------------
\* A tree top/outer/inner/leaf with a file in each but top, that in inner of
\* another kind; an empty directory beside inner, and one beside leaf whose name
\* is skipped.
CONSTANTS top, outer, inner, leaf, empty, modules, fa, fb, fc, fm

ParentTable ==
  LET in(d, entries) == [e \in entries |-> d]
  IN  in(top, {outer}) @@ in(outer, {inner, empty, fa}) @@ in(inner, {leaf, modules, fb})
        @@ in(leaf, {fc}) @@ in(modules, {fm})
ChainTable ==
  LET under(d, entries) == [e \in entries |-> {e} \cup d]
      outers == {outer, top}
  IN  under({}, {top}) @@ under({top}, {outer}) @@ under(outers, {inner, empty})
        @@ under({inner} \cup outers, {leaf, modules})

\* TLC evaluates the two functions once, and what stands for a constant each time.
TreeParent == LET table == ParentTable IN table
TreeChain == LET table == ChainTable IN table

WithoutGit == [Default EXCEPT !.respect = FALSE]
Unloadable == [Default EXCEPT !.readable = FALSE]
Excluding(x) == [Default EXCEPT !.exclude = {x}]

\* Settings in outer and in inner, or none.
MCConfigs ==
  {[d \in Dirs |-> CASE d = outer -> p [] d = inner -> q [] OTHER -> NoDir] :
     p \in {NoDir, Default, WithoutGit, Excluding(inner)},
     q \in {NoDir, Default, WithoutGit, Excluding(leaf), Unloadable}}

\* No rule, one, or one that ignores and one that brings back.
MCRules ==
  {r \in [dir : {top, outer, inner}, git : BOOLEAN, entry : {inner, leaf, fc}, ignore : BOOLEAN] :
     r.dir \in TreeChain[TreeParent[r.entry]] /\ (r.dir = top => r.git)}
MCRuleSets ==
  {{}} \cup {{r} : r \in MCRules}
    \cup {{r, q} : r \in {x \in MCRules : x.ignore}, q \in {x \in MCRules : ~x.ignore}}

\* No two rules of one ignore file are about one entry, and with two rules one
\* directory has settings; an ignore file of the
\* empty directory may be unreadable.
MCWorlds ==
  {w \in [git : SUBSET {outer, inner} \cup {{outer, leaf}}, config : MCConfigs, rules : MCRuleSets,
          broken : {{}, {empty}}, noIgnore : BOOLEAN] :
     /\ \A r, q \in w.rules :
          <<r.dir, r.git, r.entry>> = <<q.dir, q.git, q.entry>> => r = q
     /\ w.broken # {} => w.config[inner] = NoDir
     /\ w.noIgnore => Cardinality(w.rules) = 1 /\ w.git = {}
     /\ leaf \in w.git => Cardinality(w.rules) = 1
     /\ Cardinality(w.rules) = 2 => NoDir \in {w.config[outer], w.config[inner]}}

MCArgs ==
  [kind : {"dir"}, at : {outer, inner, leaf}] \cup [kind : {"files"}, at : {outer, leaf, modules}]
    \cup {[kind |-> "children", at |-> outer], [kind |-> "file", at |-> fc]}

\* Nothing is collected in the half that writes.
NoScan ==
  /\ world = [git |-> {}, config |-> [d \in Dirs |-> NoDir], rules |-> {},
              broken |-> {}, noIgnore |-> FALSE]
  /\ arg = [kind |-> "file", at |-> fc]
  /\ stage = "done" /\ todo = <<>> /\ found = {fc} /\ pruned = FALSE /\ opened = {}

MCScanInit ==
  /\ world \in MCWorlds /\ arg \in MCArgs
  /\ stage = "expand" /\ todo = <<>> /\ found = {} /\ pruned = FALSE /\ opened = {}

\* Nothing is written in the half that scans: its tool is gone.
NoBatch ==
  /\ disk = [f \in Files |->
               [stat |-> [kind |-> "regular", inode |-> 1, size |-> 1, time |-> 0],
                text |-> tidy, durable |-> TRUE]]
  /\ pc = "killed" /\ next = 1 /\ original = NoText
  /\ before = [kind |-> "absent", inode |-> 0, size |-> 1, time |-> 0]
  /\ temp = NoTemp /\ code = 0 /\ ctx = FALSE
  /\ edits = 0 /\ touched = {} /\ hidden = FALSE

ScanOnly == MCScanInit /\ NoBatch

MCNext ==
  \/ Next /\ UNCHANGED scan
  \/ ScanNext /\ UNCHANGED vars

MCSpec == ((Init /\ NoScan) \/ ScanOnly) /\ [][MCNext]_<<vars, scan>>

ScanOnlySpec == ScanOnly /\ [][MCNext]_<<vars, scan>>
=============================================================================
