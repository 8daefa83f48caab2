-------------------------------- MODULE Layout --------------------------------
(***************************************************************************)
(* The layout of mappings: the part of internal/lsp/layout.go that turns a *)
(* syntax tree into texts, lines and groups, with what                     *)
(* internal/lsp/formatting.go says of its tokens.  What is done with a     *)
(* layout is the part of Rendering and Formatting.  The grammar is         *)
(* external.                                                               *)
(***************************************************************************)
EXTENDS Rendering, SequencesExt

CONSTANTS
  Size,   \* the size of an indentation
  gap,    \* line breaks before the token at a place
  absent  \* places of commas that are gone

\* A node has a kind, its children, and when it is a token its text, its width
\* and its place in the source.
Tokens == {"token", "name", "comment"}
IsToken(n) == n.kind \in Tokens
Collections == {"array_literal", "object_literal"}
Lists == Collections \cup {"parenthesized_expr"}
Blocks == {"statement_block", "map_declaration", "match_expr", "if_expr"}
Named(n) == ~IsToken(n) \/ n.text \notin {"{", "}", "[", "]", "(", ")", ",", ".", "=", "->", ":"}
BenthosStatement(n) ==
  n.kind \in {"root_assignment", "let_assignment", "meta_assignment", "map_declaration",
              "if_statement"}

Children(n) == SelectSeq(n.kids, LAMBDA k : ~(IsToken(k) /\ k.place \in absent))

RECURSIVE Leaves(_)
Leaves(n) ==
  LET kids == Children(n)
  IN  IF IsToken(n) THEN <<n>> ELSE FlattenSeq([i \in DOMAIN kids |-> Leaves(kids[i])])

First(n) == Head(Leaves(n)).text
LastOf(n) == Last(Leaves(n)).text
\* Whether the source between a node and the one before it has a line break,
\* and a blank line.
Breaks(n) == gap[Head(Leaves(n)).place]

-----------------------------------------------------------------------------
(* The layout of a tree *)

Literal(n) == Text(<<n.place>>, n.width)

FormatSpace(a, b) ==
  CASE b = "#" -> TRUE
    [] b \in {".", ",", ":", ")", "]"} \/ a \in {".", "!"} -> FALSE
    [] b = "(" -> a # "id"
    [] a \in {"(", "["} -> FALSE
    [] a = "{" /\ b = "}" -> FALSE
    [] OTHER -> TRUE

\* Child i of a collection is its last comma, comments aside.
TrailingComma(n, kids, i) ==
  /\ n.kind \in Collections /\ IsToken(kids[i]) /\ kids[i].text = ","
  /\ \E j \in i + 1..Len(kids) :
       /\ IsToken(kids[j]) /\ kids[j].text \in {"}", "]"}
       /\ \A k \in i + 1..j - 1 : kids[k].kind = "comment"

\* What stands between child i and the child before it.
Separator(n, kids, i) ==
  LET c == kids[i]
      prev == kids[i - 1]
      last == LastOf(prev)
      first == First(c)
      list == n.kind \in Lists
      block == n.kind \in Blocks
      binaryRight == n.kind = "binary_expr" /\ i = Len(kids)
  IN  CASE c.kind = "comment" /\ Breaks(c) = 0 -> Blank(1)
        [] n.kind = "source" ->
             IF Breaks(c) > 1 THEN HardLine \o HardLine ELSE HardLine
        [] prev.kind = "comment" -> HardLine
        [] block /\ (last = "{" \/ first = "}" \/ BenthosStatement(c) \/ c.kind = "match_case") ->
             HardLine
        [] list /\ last = "," /\ first \notin {"}", "]"} -> Soft(1)
        [] list /\ last \in {"{", "[", "("} -> Soft(IF last = "{" /\ first # "}" THEN 1 ELSE 0)
        [] list /\ first \in {"}", "]", ")"} -> Soft(IF first = "}" /\ last # "{" THEN 1 ELSE 0)
        [] binaryRight -> Soft(1)
        [] n.kind = "unary_expr" -> Blank(0)
        [] c.kind = "comment" -> HardLine
        [] ~list /\ Breaks(c) > 0 /\ n.kind \notin {"binary_expr", "field_access"} -> HardLine
        [] FormatSpace(last, first) -> Blank(1)
        [] OTHER -> Blank(0)

\* A call with its arguments: only they are broken, never the receiver.
Arguments(n, kids) ==
  LET open == CHOOSE i \in DOMAIN kids : kids[i].kind = "token" /\ kids[i].text = "("
  IN  SubSeq(kids, open + 1, Len(kids) - 1)

ArgumentSeparator(args, i) ==
  IF i = 1 THEN <<>>
  ELSE CASE args[i - 1].kind = "comment" -> HardLine
         [] args[i - 1].kind # "comment" /\ args[i].kind = "comment" ->
              IF Breaks(args[i]) > 0 THEN HardLine ELSE Blank(1)
         [] IsToken(args[i - 1]) /\ args[i - 1].text = "," -> Soft(1)
         [] OTHER -> <<>>

RECURSIVE NodeLayout(_), CallLayout(_)

\* The arguments up to i.  A lambda without comments groups what precedes its
\* body, so that a long body does not split a short head.
ArgumentLayouts(args) ==
  LET layouts[i \in 0..Len(args)] ==
        IF i = 0 THEN <<>>
        ELSE LET c == args[i]
                 before == layouts[i - 1] \o ArgumentSeparator(args, i)
             IN  IF c.kind = "lambda" /\ Len(c.kids) = 3
                 THEN LET head == Text(<<c.kids[1].place, c.kids[2].place>>, c.kids[1].width + 4)
                      IN  Grouped(before \o head) \o NodeLayout(c.kids[3])
                 ELSE before \o NodeLayout(c)
  IN  layouts[Len(args)]

CallLayout(n) ==
  LET kids == Children(n)
      args == Arguments(n, kids)
      name == CHOOSE k \in Range(kids) : k.kind = "name"
      values == {i \in DOMAIN args : Named(args[i]) /\ args[i].kind # "comment"}
      previous == Last(args)
      lambda == \E i \in DOMAIN args : args[i].kind = "lambda"
      hug == values = {Len(args)} /\ previous.kind \in Collections
      bracket == CHOOSE k \in Range(kids) : k.kind = "token" /\ k.text = "("
      open == Text(<<name.place, bracket.place>>, name.width + 1)
      closing == CASE previous.kind = "comment" -> HardLine
                   [] \/ hug
                      \/ previous.kind = "lambda"
                           /\ Last(previous.kids).kind \in Collections \cup {"if_expr", "match_expr"}
                      -> Blank(0)
                   [] OTHER -> Soft(0)
      close == Literal(Last(kids))
  IN  IF args = <<>> THEN open \o close
      ELSE LET break == IF lambda \/ hug THEN Blank(0) ELSE Soft(0)
               inside == Nested(break \o ArgumentLayouts(args), IF lambda \/ hug THEN 0 ELSE Size)
           IN  Grouped(open \o inside \o closing \o close)

\* A chain of calls breaks after its dots.  Comments between a receiver and its
\* method go behind the dot.
RECURSIVE ChainParts(_)
ChainParts(n) ==
  IF n.kind # "method_call" THEN NodeLayout(n)
  ELSE LET kids == Children(n)
           name == CHOOSE i \in DOMAIN kids : kids[i].kind = "name"
           dot == CHOOSE i \in DOMAIN kids : IsToken(kids[i]) /\ kids[i].text = "."
           comments == SelectSeq(SubSeq(kids, 2, name - 1), LAMBDA k : k.kind = "comment")
           ends == FlattenSeq([i \in DOMAIN comments |-> HardLine \o Literal(comments[i])])
       IN  ChainParts(kids[1]) \o Literal(kids[dot])
             \o Nested((IF comments = <<>> THEN Soft(0) ELSE ends \o HardLine) \o CallLayout(n), Size)

NodeLayout(n) ==
  CASE IsToken(n) -> Literal(n)
    [] n.kind = "method_call" -> Grouped(ChainParts(n))
    [] n.kind = "call_expr" -> CallLayout(n)
    [] OTHER ->
  LET kids == Children(n)
      inside == n.kind \in Lists \cup Blocks
      closes(i) == First(kids[i]) \in {"}", "]", ")"}
      binaryRight(i) == n.kind = "binary_expr" /\ i = Len(kids)
      elseIf(i) == n.kind = "if_expr" /\ kids[i].kind = "if_expr" /\ First(kids[i - 1]) = "else"
      separator(i) ==
        IF (inside /\ ~closes(i)) \/ binaryRight(i)
        THEN Nested(Separator(n, kids, i), Size) ELSE Separator(n, kids, i)
      child(i) ==
        LET plain == NodeLayout(kids[i])
            d == IF TrailingComma(n, kids, i) THEN BrokenOnly(plain) ELSE plain
        IN  IF binaryRight(i) \/ (inside /\ i > 1 /\ ~closes(i) /\ ~elseIf(i))
            THEN Nested(d, Size) ELSE d
      parts == FlattenSeq([i \in DOMAIN kids |->
                 IF i = 1 THEN child(i) ELSE separator(i) \o child(i)])
  IN  IF n.kind \in Lists \cup {"binary_expr", "field_access", "unary_expr"}
      THEN Grouped(parts) ELSE parts

-----------------------------------------------------------------------------
(* The result *)

\* Places of the commas that may go, and of the delimiters that close a
\* collection on the line it began.
RECURSIVE TrailingCommas(_), InlineCloses(_)
TrailingCommas(n) ==
  IF IsToken(n) THEN {}
  ELSE {n.kids[i].place : i \in {j \in DOMAIN n.kids : TrailingComma(n, n.kids, j)}}
         \cup UNION {TrailingCommas(n.kids[i]) : i \in DOMAIN n.kids}

InlineCloses(n) ==
  IF IsToken(n) THEN {}
  ELSE UNION {InlineCloses(n.kids[i]) : i \in DOMAIN n.kids}
         \cup (IF n.kind \in Collections /\ \A l \in Range(Tail(Leaves(n))) : gap[l.place] = 0
               THEN {Last(Leaves(n)).place} ELSE {})
=============================================================================
