------------------------------ MODULE MCLayout ------------------------------
\* Small trees for Layout.
EXTENDS Layout, FiniteSetsExt

T(p, text) == [kind |-> "token", text |-> text, width |-> 1, place |-> p]
Wide(p, w) == [T(p, "id") EXCEPT !.width = w]
Name(p) == [T(p, "id") EXCEPT !.kind = "name"]
Comment(p) == [T(p, "#") EXCEPT !.kind = "comment", !.width = 3]
N(kind, kids) == [kind |-> kind, kids |-> kids]
Assign(p, value) == N("root_assignment", <<T(p, "id"), T(p + 1, "="), value>>)
One(value) == N("source", <<Assign(1, value)>>)

\* root = [v, v, # comment
\* ]
WithComment == One(N("array_literal",
  <<T(3, "["), T(4, "id"), T(5, ","), Wide(6, 2), T(7, ","), Comment(8), T(9, "]")>>))

\* root = f([v, v,]).g(v + v)
Hugged == One(N("method_call",
  <<N("call_expr", <<Name(3), T(4, "("),
       N("array_literal", <<T(5, "["), T(6, "id"), T(7, ","), T(8, "id"), T(9, ","), T(10, "]")>>),
       T(11, ")")>>),
    T(12, "."), Name(13), T(14, "("), N("binary_expr", <<T(15, "id"), T(16, "+"), Wide(17, 2)>>),
    T(18, ")")>>))

\* root = v.map(v -> {v: [v,]})
Lambda == One(N("method_call",
  <<T(3, "id"), T(4, "."), Name(5), T(6, "("),
    N("lambda", <<T(7, "id"), T(8, "->"),
      N("object_literal",
        <<T(9, "{"), N("pair", <<T(10, "id"), T(11, ":"),
                                 N("array_literal", <<T(12, "["), T(13, "id"), T(14, ","), T(15, "]")>>)>>),
          T(16, "}")>>)>>),
    T(17, ")")>>))

\* root = v # comment
\*   .f(v, # comment
\*   [v])
Commented == One(N("method_call",
  <<T(3, "id"), Comment(4), T(5, "."), Name(6), T(7, "("), T(8, "id"), T(9, ","), Comment(10),
    N("array_literal", <<T(11, "["), T(12, "id"), T(13, "]")>>), T(14, ")")>>))

\* root = v.
\*   # comment
\*   f()
Dotted == One(N("method_call",
  <<T(3, "id"), T(4, "."), Comment(5), Name(6), T(7, "("), T(8, ")")>>))

\* root = v # comment
\* root = (v * v) + v
Statements == N("source",
  <<Assign(1, T(3, "id")), Comment(4),
    Assign(5, N("binary_expr",
      <<N("parenthesized_expr", <<T(7, "("), N("binary_expr", <<T(8, "id"), T(9, "*"), Wide(10, 2)>>),
          T(11, ")")>>),
        T(12, "+"), T(13, "id")>>))>>)

\* root = match v { v => [v,] v => v }
Match == One(N("match_expr",
  <<T(3, "match"), T(4, "id"), T(5, "{"),
    N("match_case", <<T(6, "id"), T(7, "=>"),
      N("array_literal", <<T(8, "["), T(9, "id"), T(10, ","), T(11, "]")>>)>>),
    N("match_case", <<T(12, "id"), T(13, "=>"), T(14, "id")>>), T(15, "}")>>))

MCTrees == {WithComment, Hugged, Lambda, Commented, Dotted, Statements, Match}

RECURSIVE Tokens_(_)
Tokens_(n) == IF IsToken(n) THEN <<n>> ELSE FlattenSeq([i \in DOMAIN n.kids |-> Tokens_(n.kids[i])])

\* One line break more, and one blank line, than the comments and the statements need.
MCGaps(t) ==
  LET tokens == Tokens_(t)
      places == 1..Len(tokens)
      forced == {p \in 2..Len(tokens) : tokens[p - 1].kind = "comment"
                    \/ (p < Len(tokens) /\ tokens[p + 1].text = "=")}
      free == {p \in 2..Len(tokens) : tokens[p].text # "=" /\ ~(tokens[p].text = "(" /\ tokens[p-1].kind = "name")}
  IN  {[p \in places |-> IF p \in B THEN 2 ELSE IF p \in A \cup forced THEN 1 ELSE 0] :
         A \in kSubset(0, free) \cup kSubset(1, free), B \in kSubset(0, free) \cup kSubset(1, free)}
=============================================================================
