------------------------------ MODULE Discovery ------------------------------
(***************************************************************************)
(* Which files blobl fmt and blobl lint take: collectInputs, expandPaths   *)
(* and globFS of internal/cli/files.go over the ignore policy of           *)
(* internal/cli/discovery.go and the lookup of settings of                 *)
(* internal/editorconfig/source.go.                                        *)
(*                                                                         *)
(* A tree of directories and files does not change during a command.  What *)
(* gitignore makes of an entry is external: a rule is the verdict of one   *)
(* ignore file on one entry below it.  The two caches of the policy hold   *)
(* what they were filled with, so they are left out.  Symbolic links are   *)
(* never followed and are left out of the tree.                            *)
(***************************************************************************)
EXTENDS Naturals, FiniteSets, SequencesExt

CONSTANTS
  Dirs, Regular, \* the directories and the files of the tree
  Top,           \* the root of the file system
  Parent,        \* the directory of every other entry
  Chain,         \* for each directory, itself and those above it
  Tool,          \* files with an extension of a mapping or of YAML
  Skipped,       \* directories with a name of skippedDirectory
  NoDir          \* no directory

Tree == Dirs \cup Regular

\* The tree is finite, and a directory is not inside itself.
ASSUME DiscoveryAssumption ==
  /\ Top \in Dirs /\ NoDir \notin Tree
  /\ Dirs \cap Regular = {} /\ IsFiniteSet(Tree)
  /\ Parent \in [Tree \ {Top} -> Dirs]
  /\ Chain \in [Dirs -> SUBSET Dirs]
  /\ \A d \in Dirs : Chain[d] = {d} \cup (IF d = Top THEN {} ELSE Chain[Parent[d]])
  /\ \A d \in Dirs \ {Top} : d \notin Chain[Parent[d]]
  /\ Tool \subseteq Regular /\ Skipped \subseteq Dirs \ {Top}

\* Settings of .bloblangrc.json; unreadable when Load refuses them.
Config == [readable : BOOLEAN, respect : BOOLEAN, exclude : SUBSET Tree]
Default == [readable |-> TRUE, respect |-> TRUE, exclude |-> {}]
\* What .gitignore, or else .bloblangignore, of a directory says of an entry.
Rule == [dir : Dirs, git : BOOLEAN, entry : Tree, ignore : BOOLEAN]

VARIABLES
  world,  \* what the tree holds beside its entries, and the flag --no-ignore
  arg,    \* the argument: a file, a directory, a pattern of files or of entries
  stage,  \* the step of collectInputs
  todo,   \* entries the traversal has still to visit, in its order
  found,  \* seen of collectInputs
  pruned, \* pruned of the policy
  opened  \* directories whose settings or ignore files the scan has read

scan == <<world, arg, stage, todo, found, pruned, opened>>

Worlds == [git : SUBSET Dirs,                   \* directories with a .git
           config : [Dirs -> Config \cup {NoDir}],
           rules : SUBSET Rule,
           broken : SUBSET Dirs,                \* whose .bloblangignore is no file
           noIgnore : BOOLEAN]
Args == [kind : {"file"}, at : Regular]
          \cup [kind : {"dir", "files", "children"}, at : Dirs \ {Top}]

Nearest(S) == CHOOSE x \in S : S \subseteq Chain[x]
Topmost(S) == CHOOSE x \in S : \A y \in S : x \in Chain[y]

Children(d) == {e \in Tree \ {Top} : Parent[e] = d}

-----------------------------------------------------------------------------
(* Settings of a directory *)

\* The nearest Git project of a directory without workspace roots.
ResolveSource(d) ==
  LET roots == Chain[d] \cap world.git IN IF roots = {} THEN NoDir ELSE Nearest(roots)

\* The nearest settings file, at the project's root at the highest.
ConfigPath(d) ==
  LET root == ResolveSource(d)
      having == {c \in Chain[d] : /\ world.config[c] # NoDir
                                  /\ root = NoDir \/ root \in Chain[c]}
  IN  IF having = {} THEN NoDir ELSE Nearest(having)

SettingsFor(d) == LET c == ConfigPath(d) IN IF c = NoDir THEN Default ELSE world.config[c]

-----------------------------------------------------------------------------
(* The ignore policy of a scan from base *)

\* Where the rules for an entry of directory d begin.
Boundary(from, d) ==
  LET root == ResolveSource(d)
      configured == {c \in Chain[d] : world.config[c] # NoDir}
      boundary == CASE root # NoDir -> root
                    [] root = NoDir /\ configured # {} -> Topmost(configured)
                    [] OTHER -> from
  IN  IF boundary \in Chain[d] THEN boundary ELSE d

\* dirs of ignored: from the boundary to d.
Levels(from, d) == {c \in Chain[d] : Boundary(from, d) \in Chain[c]}

\* The last matcher with a verdict decides: the deepest directory's, and there
\* .bloblangignore after .gitignore.
IgnoredBy(rules) ==
  /\ rules # {}
  /\ LET dir == Nearest({r.dir : r \in rules})
         last == {r \in rules : r.dir = dir}
     IN  \E r \in last : r.ignore /\ (\A q \in last : q.git \/ q = r)

\* Entry e under the settings of directory d and the rules of levels down to d.
IgnoredEntry(levels, d, e) ==
  LET settings == SettingsFor(d)
      rules == {r \in world.rules :
                  /\ r.entry = e /\ r.dir \in levels \cap Chain[d]
                  /\ r.git => SettingsFor(r.dir).respect /\ settings.respect}
  IN  e \in settings.exclude \/ IgnoredBy(rules)

\* Settings or an ignore file of d that cannot be read fail the command.
Unreadable(d) == ~SettingsFor(d).readable \/ (d \in world.broken /\ ~world.noIgnore)

\* Mutant: an entry is tried under the rules above it, its directories are not.
MutantIgnored(from, e) ==
  IF e \in world.git \/ world.noIgnore
    THEN [verdict |-> "kept", opens |-> {}]
    ELSE LET levels == Levels(from, Parent[e])
         IN  [opens |-> levels,
              verdict |-> IF \E c \in levels : Unreadable(c) THEN "failed"
                          ELSE IF IgnoredEntry(levels, Parent[e], e)
                          THEN "ignored" ELSE "kept"]

\* Mutant: the settings of a directory are read before the directory is tried.
MutantReadsFirst(from, e) ==
  IF e \in world.git \/ world.noIgnore
    THEN [verdict |-> "kept", opens |-> {}]
    ELSE LET levels == Levels(from, Parent[e])
             excluded == {c \in levels \ {Boundary(from, Parent[e])} :
                            IgnoredEntry(levels, Parent[c], c)}
         IN  [opens |-> levels,
              verdict |-> IF \E c \in levels : Unreadable(c) THEN "failed"
                          ELSE IF excluded # {} \/ IgnoredEntry(levels, Parent[e], e)
                          THEN "ignored" ELSE "kept"]

\* ignored: from the boundary down, every directory is tried under the rules
\* above it before its own are read.
Ignored(from, e) ==
  IF e \in world.git \/ world.noIgnore
    THEN [verdict |-> "kept", opens |-> {}]
    ELSE LET d == Parent[e]
             levels == Levels(from, d)
             excluded == {c \in levels \ {Boundary(from, d)} :
                            IgnoredEntry(levels, Parent[c], c)}
             opens == {c \in levels : Chain[c] \cap excluded = {}}
         IN  [opens |-> opens,
              verdict |-> IF \E c \in opens : Unreadable(c) THEN "failed"
                          ELSE IF excluded # {} \/ IgnoredEntry(levels, d, e)
                          THEN "ignored" ELSE "kept"]

\* A literal prefix of a pattern inside a skipped directory of its project.
HardSkippedPrefix(d) ==
  LET root == ResolveSource(d)
  IN  \E c \in Chain[d] \cap Skipped : root = NoDir \/ root \in Chain[c]

-----------------------------------------------------------------------------
\* Where the policy of the argument begins.
base == arg.at

ScanInit ==
  /\ world \in Worlds /\ arg \in Args
  /\ stage = "expand" /\ todo = <<>> /\ found = {} /\ pruned = FALSE /\ opened = {}

FailScan == stage' = "failed" /\ UNCHANGED <<todo, found, pruned>>

\* A literal file is taken whatever the rules say; a directory is walked; a
\* pattern is matched from its base.
Expand ==
  /\ stage = "expand"
  /\ \/ arg.kind = "file" /\ found' = {arg.at} /\ stage' = "done" /\ UNCHANGED todo
     \/ arg.kind = "dir" /\ todo' = <<arg.at>> /\ stage' = "walk" /\ UNCHANGED found
     \/ arg.kind \in {"files", "children"} /\ UNCHANGED found
        /\ IF HardSkippedPrefix(base)
           THEN stage' = "failed" /\ UNCHANGED todo
           ELSE stage' = "glob" /\ todo' = <<arg.at>>
  /\ UNCHANGED <<world, arg, pruned, opened>>

\* ReadDir of globFS: a directory with its entries filtered, from which the
\* pattern takes the files, or whatever the base holds.
ReadDir ==
  /\ stage = "glob" /\ todo # <<>>
  /\ LET d == Head(todo)
         self == Ignored(base, d)
         present == Children(d) \ Skipped
         tried == [e \in present |-> Ignored(base, e)]
         kept == {e \in present : tried[e].verdict = "kept"}
         below == IF self.verdict = "kept" THEN {d} \cup UNION {tried[e].opens : e \in present}
                                           ELSE {}
     IN  /\ opened' = opened \cup self.opens \cup below
         /\ IF self.verdict = "ignored"
            THEN pruned' = TRUE /\ todo' = Tail(todo) /\ UNCHANGED <<stage, found>>
            ELSE IF \/ self.verdict = "failed" \/ Unreadable(d)
                    \/ \E e \in present : tried[e].verdict = "failed"
            THEN FailScan
            ELSE /\ pruned' = (pruned \/ kept # present)
                 /\ found' = found \cup (kept \cap Regular)
                 /\ IF arg.kind = "files"
                    THEN todo' = SetToSeq(kept \cap Dirs) \o Tail(todo) /\ UNCHANGED stage
                    ELSE /\ todo' = SetToSeq(kept \cap Dirs)
                         /\ stage' = IF kept \cap Dirs = {} THEN stage ELSE "walk"
  /\ UNCHANGED <<world, arg>>

\* Mutant: a directory without files is not validated.
MutantVisit ==
  /\ stage = "walk" /\ todo # <<>>
  /\ LET e == Head(todo)
         self == Ignored(base, e)
         enters == e \in Dirs \ Skipped /\ self.verdict = "kept"
     IN  IF self.verdict = "failed" THEN FailScan /\ UNCHANGED opened
         ELSE /\ todo' = (IF enters THEN SetToSeq(Children(e)) ELSE <<>>) \o Tail(todo)
              /\ found' = found \cup (IF self.verdict = "kept" THEN {e} \cap Tool ELSE {})
              /\ opened' = opened \cup self.opens \cup (IF enters THEN {e} ELSE {})
              /\ UNCHANGED <<stage, pruned>>
  /\ UNCHANGED <<world, arg>>

\* The walk of a directory that was named or matched: one entry of WalkDir.
Visit ==
  /\ stage = "walk" /\ todo # <<>>
  /\ LET e == Head(todo)
         self == Ignored(base, e)
         skip == e \in Skipped
         enters == e \in Dirs /\ ~skip /\ self.verdict = "kept"
     IN  /\ opened' = opened \cup (IF skip THEN {} ELSE self.opens)
                             \cup (IF enters THEN {e} ELSE {})
         /\ IF ~skip /\ (self.verdict = "failed" \/ (enters /\ Unreadable(e)))
            THEN FailScan
            ELSE /\ todo' = (IF enters THEN SetToSeq(Children(e)) ELSE <<>>) \o Tail(todo)
                 /\ found' = found \cup (IF self.verdict = "kept" THEN {e} \cap Tool ELSE {})
                 /\ UNCHANGED <<stage, pruned>>
  /\ UNCHANGED <<world, arg>>

\* A pattern that matched nothing is an error unless something was ignored.
Finish ==
  /\ stage \in {"glob", "walk"} /\ todo = <<>>
  /\ stage' = IF stage = "glob" /\ found = {} /\ ~pruned THEN "failed" ELSE "done"
  /\ UNCHANGED <<world, arg, todo, found, pruned, opened>>

ScanNext == Expand \/ ReadDir \/ Visit \/ Finish

ScanSpec == ScanInit /\ [][ScanNext]_scan

-----------------------------------------------------------------------------
(* Properties *)

\* The entries from the base of the scan down to e.
Path(e) == {e} \cup {c \in Chain[IF e \in Dirs THEN e ELSE Parent[e]] : base \in Chain[c]}

\* Git's rule for one entry: excluded itself, or inside an excluded directory
\* of its project.
Excluded[e \in Tree \ {Top}] ==
  /\ e \notin world.git /\ ~world.noIgnore
  /\ LET d == Parent[e]
     IN  \/ IgnoredEntry(Levels(base, d), d, e)
         \/ d # Boundary(base, d) /\ Excluded[d]

\* The files below the base that no excluded or skipped directory hides.
Visible ==
  {f \in Regular : /\ base \in Chain[Parent[f]]
                   /\ \A x \in Path(f) : ~Excluded[x] /\ x \notin Skipped}

\* A walk and a pattern list the same files, whichever directories they prune
\* and in whichever order they meet them: no negation brings back a file of an
\* excluded directory and no pruning loses another.  A skipped directory in the
\* path above the base stops a pattern and not a walk.
ListsVisible ==
  stage = "done" => CASE arg.kind = "file" -> found = {arg.at}
                      [] arg.kind = "files" -> found = Visible
                      [] arg.kind = "dir" -> found = Visible \cap Tool
                      [] OTHER -> found = {f \in Visible : f \in Tool \/ Parent[f] = base}

\* The settings and the ignore files of an excluded directory are never read
\* (docs/cli.md:48), so that what it holds can change nothing and fail nothing:
\* of the directories below the base, and of those above it in its project.  A
\* Git root is a context of its own: named as the base, it is read wherever it is.
ReadsOnlyVisible ==
  stage \in {"done", "failed"} =>
    LET d == Parent[base]
        project == IF base \in world.git THEN {} ELSE Levels(base, d) \ {Boundary(base, d)}
    IN  \A o \in opened : \A c \in Chain[o] \ {Top} :
          base \in Chain[c] \/ c \in project => ~Excluded[c]

\* Settings that cannot be read fail the command when a scan enters their
\* directory, even if it holds no file that would be listed, and a scan fails
\* for nothing else (validateDir, discovery.go:95).
FailsForSettings ==
  /\ stage = "done" => ~\E d \in opened : Unreadable(d)
  /\ stage = "failed" => \/ \E d \in opened : Unreadable(d)
                         \/ arg.kind # "dir" /\ found = {}

\* docs/cli.md:54: a scan honors the patterns in the ignore files of the
\* directories it scans, for every file it lists of the same Git project.
HonorsPatterns ==
  stage = "done" /\ arg.kind # "file" =>
    \A f \in found :
      LET d == Parent[f]
          levels == {c \in Chain[d] : base \in Chain[c] /\ ResolveSource(c) = ResolveSource(d)}
      IN  world.noIgnore \/ ~IgnoredEntry(levels, d, f)
=============================================================================
