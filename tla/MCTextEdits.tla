----------------------------- MODULE MCTextEdits -----------------------------
\* What rewrites texts: Rename, the formatter and the fixes of lint, one of them
\* at a time.
EXTENDS MCRename, Formatting, ToolLint, Functions

-----------------------------------------------------------------------------
(* The formatter *)

CONSTANT Size

\* The sets of MCLayout, which do not depend on the constants they stand for.
Sources == INSTANCE MCLayout WITH gap <- <<>>, absent <- {}

MCTrees == Sources!MCTrees
MCGaps(t) == Sources!MCGaps(t)
MCWidths == 4..26

TextsOf == [t \in MCTrees |-> LET leaves == Sources!Leaves(t) IN [p \in DOMAIN leaves |-> leaves[p].text]]
MCTextAt(t, p) == TextsOf[t][p]

CommasOf == [t \in MCTrees |-> Sources!TrailingCommas(t)]
MCCommaPlaces(t) == CommasOf[t]

Lay(g, gone) == INSTANCE Layout WITH gap <- g, absent <- gone
MCLayoutOf(t, g, gone) == Lay(g, gone)!NodeLayout(t)
MCCloses(t, g, gone) == Lay(g, gone)!InlineCloses(t)

\* Nothing is formatted.
NoLayout ==
  /\ tree = Sources!WithComment /\ width = 0 /\ gap = <<>> /\ out = <<>> /\ written = <<>>
  /\ long = FALSE /\ formatting = "refused"

-----------------------------------------------------------------------------
(* The fixes of lint *)

Rule == INSTANCE MCLintFix

MCHosts == Rule!MCHosts
MCFiles == Rule!MCFiles
MCDisks(h) == Rule!MCDisks(h)
MCImportNames == {"f", "g"}
\* A text is as long as it has imports.
MCBytes(names) == Len(names)
MCImportLists(h) == {Rule!Imports(m.text) : m \in Range(Rule!Regions(h))}
MCEdits(h) == Rule!Edits(h)
MCFixed(h, es) == Rule!ApplyToolEdits(h, es)
MCApplied(h, e) == Rule!Apply(h, e)

\* Nothing is fixed.
NoFixing ==
  /\ host = <<"root =", "x">> /\ disk = <<>> /\ linting = "done" /\ seen = {} /\ fixes = {}
  /\ writes = 0 /\ original = host /\ last = NoVerdict(host, disk)

-----------------------------------------------------------------------------
TextInit ==
  \/ MCInit /\ NoLayout /\ NoFixing
  \/ NoText /\ NoProject /\ FormatInit /\ NoFixing
  \/ NoText /\ NoProject /\ NoLayout /\ LintInit

TextNext ==
  \/ MCNext /\ UNCHANGED <<layoutVars, lintVars>>
  \/ Format /\ UNCHANGED <<vars_, mapVars, lintVars>>
  \/ LintNext /\ UNCHANGED <<vars_, mapVars, layoutVars>>

TextSpec == TextInit /\ [][TextNext]_<<vars_, mapVars, layoutVars, lintVars>>

-----------------------------------------------------------------------------
\* Fixes leave what a mapping does, its imports and its comments alone,
\* however many rounds the loop takes and whichever fixes a user picks
\* (tooling.go:275).
MeaningKept == Rule!Means(host) = Rule!Means(original)

\* What a comment suppresses is not touched, and a fix around it does not
\* bring it back (lint.go:112).
SuppressionKept == Rule!Withheld(host) = Rule!Withheld(original)
=============================================================================
