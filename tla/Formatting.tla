------------------------------ MODULE Formatting ------------------------------
(***************************************************************************)
(* formatText of internal/lsp/formatting.go: the layout of a mapping is    *)
(* rendered, and the result is returned if it has the tokens of the        *)
(* mapping.  The layout is a parameter, see Layout, because the comparison *)
(* is there for what a layout gets wrong.                                  *)
(*                                                                         *)
(* A tree numbers its tokens; the number is the place of the token.        *)
(* Formatting does not change the tree, but the line breaks before its     *)
(* tokens and which trailing commas are there.                             *)
(***************************************************************************)
EXTENDS Rendering

CONSTANTS
  Trees,                \* syntax trees
  Widths,               \* print widths
  Gaps(_),              \* line breaks a source may have before each token of a tree
  TextAt(_, _),         \* the text of a tree at a place
  CommaPlaces(_),       \* the places of the trailing commas of its collections
  LayoutOf(_, _, _),    \* the layout of a tree, given its line breaks and the
                        \* places that are gone
  Closes(_, _, _)       \* the places of the delimiters that close a collection
                        \* on the line it began, given the same

\* Line breaks are numbered like the tokens behind them.
ASSUME GapsAssumption == \A t \in Trees : Gaps(t) \subseteq Seq(Nat)
ASSUME WidthsAssumption == Widths \subseteq Nat

VARIABLES
  tree, width,
  gap,     \* line breaks before the token at a place
  out,     \* places of the tokens that are there, in their order
  written, \* the texts of the tokens of the file
  long,    \* a rendered line is too long although it holds a flattened break
  formatting

layoutVars == <<tree, width, gap, out, written, long, formatting>>

Present == {out[k] : k \in DOMAIN out}
Gone == DOMAIN gap \ Present

-----------------------------------------------------------------------------
\* The tokens of a page as they are read again.
ReadTokens(rendered) ==
  LET breaks == [p \in DOMAIN gap |->
                   LET at == {i \in DOMAIN rendered : rendered[i].place = p}
                   IN  IF at = {} THEN 0 ELSE rendered[CHOOSE i \in at : TRUE].breaks]
      inline == Closes(tree, breaks, Gone)
  IN  [i \in DOMAIN rendered |->
        [text |-> TextAt(tree, rendered[i].place), breaks |-> rendered[i].breaks,
         inline |-> rendered[i].place \in inline]]

\* Mutant: texts are not compared.
MutantPass(p, after, j) == IF j < Len(after) THEN j + 1 ELSE Len(after) + 1

\* How much of the result has been found once the token at p is looked for behind
\* the first j, or one too many.
Pass(p, after, j) ==
  LET same == TextAt(tree, p) = after[j + 1].text
      comma == p \in CommaPlaces(tree) /\ after[j + 1].inline
  IN  CASE j < Len(after) /\ same -> j + 1
        [] j < Len(after) /\ ~same /\ comma -> j
        [] ~(j < Len(after)) \/ (~same /\ ~comma) -> Len(after) + 1

\* equivalentFormatTokens: only a trailing comma right before a delimiter on the
\* line it opened may disappear; every other token must be there, in its order.
Matching(after) ==
  LET found[i \in Nat] == IF i = 0 THEN 0 ELSE Pass(out[i], after, found[i - 1])
  IN  [i \in 0..Len(out) |-> found[i]]

\* The tokens that were found again.
Survivors(match, n) ==
  [k \in 1..n |-> out[CHOOSE i \in DOMAIN out : match[i - 1] = k - 1 /\ match[i] = k]]

BreaksBefore(places, after) ==
  [p \in DOMAIN gap |->
     IF \E k \in DOMAIN places : places[k] = p
     THEN after[CHOOSE k \in DOMAIN places : places[k] = p].breaks ELSE 0]

\* What is bound by \E has one value; TLC computes it once.  A layout is one of
\* Layouts: its groups nest.
Format ==
  /\ formatting \in {"source", "formatted"}
  /\ \E layout \in {LayoutOf(tree, gap, Gone)} \cap Layouts :
     \E page \in {Render(layout, width)} :
     \E after \in {ReadTokens(page.tokens)} :
     \E match \in {Matching(after)} :
       \/ /\ match[Len(out)] = Len(after)
          /\ out' = Survivors(match, Len(after))
          /\ gap' = BreaksBefore(out', after)
          /\ written' = [k \in DOMAIN after |-> after[k].text]
          /\ long' = EndLine(page, width)
          /\ formatting' = IF formatting = "source" THEN "formatted" ELSE "again"
       \/ /\ match[Len(out)] # Len(after)
          /\ formatting' = "refused"
          /\ UNCHANGED <<gap, out, written, long>>
  /\ UNCHANGED <<tree, width>>

FormatInit ==
  /\ tree \in Trees /\ width \in Widths
  /\ gap \in Gaps(tree)
  /\ out = [p \in DOMAIN gap |-> p]
  /\ written = [p \in DOMAIN gap |-> TextAt(tree, p)]
  /\ long = FALSE /\ formatting = "source"

FormatSpec == FormatInit /\ [][Format]_layoutVars

-----------------------------------------------------------------------------
\* Formatting what was formatted changes nothing, and is never refused.
Idempotent ==
  [][formatting = "formatted" => formatting' = "again" /\ gap' = gap /\ out' = out]_layoutVars

\* A line is longer than the width only where it could not be broken: what
\* follows a group up to the next break counts, like the parenthesis behind a
\* collection that a call hugs (layout.go:46).
NoOverfull == ~long

\* A file has the tokens of the source, in their order, without trailing commas
\* at the most, however often it is formatted (formatting.go:59).
OnlyCommasGo ==
  /\ \A j, k \in DOMAIN out : j < k => out[j] < out[k]
  /\ Present \subseteq DOMAIN gap
  /\ Gone \subseteq CommaPlaces(tree)
  /\ written = [k \in DOMAIN out |-> TextAt(tree, out[k])]
=============================================================================
