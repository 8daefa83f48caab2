------------------------------ MODULE Rendering ------------------------------
(***************************************************************************)
(* The renderer of internal/lsp/layout.go: layouts are made of texts,      *)
(* lines and groups, and a group is written on one line if it fits.        *)
(*                                                                         *)
(* A layout is the sequence of its elements, a group before what it holds; *)
(* what is concatenated is one sequence.  A text has the places of its     *)
(* tokens and a width, and no token spans lines.                           *)
(***************************************************************************)
EXTENDS Naturals, Sequences

Elements ==
  [op : {"text", "line", "group"},
   places : Seq(Nat), width : Nat, brokenOnly : BOOLEAN,  \* of a text, or a line in its group
   hard : BOOLEAN, indent : Nat,                          \* of a line
   size : Nat]                                            \* of a group: elements it holds

\* The elements that a group holds are there.
Layouts == {d \in Seq(Elements) : \A i \in DOMAIN d : i + d[i].size <= Len(d)}

Element(w) ==
  [op |-> "text", places |-> <<>>, width |-> w, brokenOnly |-> FALSE,
   hard |-> FALSE, indent |-> 0, size |-> 0]
Text(places, w) == <<[Element(w) EXCEPT !.places = places]>>
Blank(w) == Text(<<>>, w)
Soft(w) == <<[Element(w) EXCEPT !.op = "line"]>>
HardLine == <<[Element(0) EXCEPT !.op = "line", !.hard = TRUE]>>
Nested(d, size) == [i \in DOMAIN d |-> [d[i] EXCEPT !.indent = @ + size]]
Grouped(d) == <<[Element(0) EXCEPT !.op = "group", !.size = Len(d)]>> \o d
BrokenOnly(d) == [i \in DOMAIN d |-> [d[i] EXCEPT !.brokenOnly = TRUE]]

-----------------------------------------------------------------------------
\* What elements are on one line: their tokens, their width, whether a break was
\* flattened; or no such thing.
Empty == [ok |-> TRUE, places |-> <<>>, width |-> 0, breaks |-> FALSE]

\* Mutant: a comma that is not written counts.
MutantAlong(flat, e) ==
  [ok |-> flat.ok /\ ~e.hard,
   places |-> IF e.brokenOnly THEN flat.places ELSE flat.places \o e.places,
   width |-> flat.width + e.width,
   breaks |-> flat.breaks \/ e.op = "line"]

Along(flat, e) ==
  [ok |-> flat.ok /\ ~e.hard,
   places |-> IF e.brokenOnly THEN flat.places ELSE flat.places \o e.places,
   width |-> IF e.brokenOnly THEN flat.width ELSE flat.width + e.width,
   breaks |-> flat.breaks \/ e.op = "line"]

\* flatLayout of the group at i.
FlatLayout(d, i) ==
  LET flat[k \in 0..d[i].size] == IF k = 0 THEN Empty ELSE Along(flat[k - 1], d[i + k])
  IN  flat[d[i].size]

\* The width of an element and of what follows it, which has width w, up to the
\* first line break.
WidthWith(e, w) ==
  CASE e.op = "line" -> 0
    [] e.op = "text" -> e.width + w
    [] e.op = "group" -> w

\* layoutPrefixWidth, and the suffixes of render: the width of the last k elements
\* up to their first line break.
Prefix(d, k) ==
  LET prefix[n \in 0..Len(d)] == IF n = 0 THEN 0 ELSE WidthWith(d[Len(d) - n + 1], prefix[n - 1])
  IN  prefix[k]

\* Mutant: a group is rendered as if nothing followed it.
MutantFollowing(d, i) == 0

\* What follows the group at i.
Following(d, i) == Prefix(d, Len(d) - (i + d[i].size))

-----------------------------------------------------------------------------
\* What has been rendered: how many elements, the column, the tokens with the
\* line breaks before them, line breaks since the last token, whether this line
\* holds a flattened break, and whether one that does was too long.
BlankPage ==
  [at |-> 0, column |-> 0, tokens |-> <<>>, breaks |-> 0, flat |-> FALSE, long |-> FALSE]

Write(page, places, w) ==
  [page EXCEPT
     !.column = @ + w,
     !.tokens = @ \o [i \in DOMAIN places |->
                        [place |-> places[i], breaks |-> IF i = 1 THEN page.breaks ELSE 0]],
     !.breaks = IF places = <<>> THEN @ ELSE 0]

EndLine(page, width) == page.long \/ (page.flat /\ page.column > width)

Fits(page, flat, following, width) == flat.ok /\ page.column + flat.width + following <= width

\* The next element is written, or a group as a whole.
Put(d, page, width) ==
  LET i == page.at + 1
      e == d[i]
      flat == FlatLayout(d, i)
  IN  CASE e.op = "text" -> [Write(page, e.places, e.width) EXCEPT !.at = i]
        [] e.op = "line" ->
             [page EXCEPT !.at = i, !.column = e.indent, !.breaks = @ + 1, !.flat = FALSE,
                          !.long = EndLine(page, width)]
        [] e.op = "group" /\ Fits(page, flat, Following(d, i), width) ->
             [Write(page, flat.places, flat.width) EXCEPT !.at = i + e.size,
                                                          !.flat = @ \/ flat.breaks]
        [] e.op = "group" /\ ~Fits(page, flat, Following(d, i), width) -> [page EXCEPT !.at = i]

\* renderLayout.
Advance(d, page, width) == IF page.at = Len(d) THEN page ELSE Put(d, page, width)

Render(d, width) ==
  LET page[n \in Nat] == IF n = 0 THEN BlankPage ELSE Advance(d, page[n - 1], width)
  IN  page[Len(d)]
=============================================================================
