------------------------------ MODULE MCFixtures ------------------------------
\* Small documents, expectations and outcomes for Fixtures.
EXTENDS Fixtures, TLC

S(tag, text) == [kind |-> "scalar", tag |-> tag, text |-> text]
Alias(i) == [kind |-> "alias", of |-> i]
Seq_(kids) == [kind |-> "sequence", kids |-> kids]
Map_(keys, kids) == [kind |-> "mapping", keys |-> keys, kids |-> kids]

MCScalars ==
  {S("!!int", "1"), S("!!float", "1.0"), S("!!int", "0x1"), S("!!str", "1"), S("!!null", "~"),
   S("!!timestamp", "1"), S("!!binary", "1")}

\* A scalar; containers of two items that are scalars or aliases, of anything.
MCItems == MCScalars \cup {Alias(i) : i \in 1..3}
MCKeys == {<<"a", "b">>, <<"a", "a">>, <<"a", "!!int">>}
MCPairs == {Seq_(<<2, 3>>)} \cup {Map_(k, <<2, 3>>) : k \in MCKeys}
MCNested ==
  {<<top, inner, x, y>> : top \in {Seq_(<<2, 4>>), Map_(<<"a", "b">>, <<2, 4>>)},
                          inner \in {Seq_(<<3>>), Map_(<<"a">>, <<3>>), Seq_(<<>>)},
                          x \in {S("!!int", "1"), Alias(1), Alias(2), Alias(4)},
                          y \in {S("!!int", "1"), Alias(1), Alias(2), Alias(3)}}
MCDocuments ==
  {<<s>> : s \in MCScalars} \cup {<<p, x, y>> : p \in MCPairs, x \in MCItems, y \in MCItems}
  \cup MCNested

MCExpects ==
  [output : BOOLEAN, deleted : {"any", "yes", "no"}, error : {"none", "contains", "execute", "parse"}]

\* Outputs: scalars, and containers like those of the documents.
One == {Number("1"), Number("1.00"), Number("2"), String("1"), Null}
Two(kind, x, y) ==
  Container(kind, IF kind = "sequence" THEN "0" :> x @@ "1" :> y ELSE "a" :> x @@ "b" :> y)
Alone(kind, x) == Container(kind, IF kind = "sequence" THEN "0" :> x ELSE "a" :> x)
Kinds == {"sequence", "mapping"}
MCValues ==
  One \cup {Two(k, x, y) : k \in Kinds, x \in One, y \in One}
  \cup {Two(k, Alone(l, Number("1")), y) : k \in Kinds, l \in Kinds, y \in One}
  \cup {Two(k, Alone(l, Number("1")), Alone(l, Number("1.00"))) : k \in Kinds, l \in Kinds}

Outcome(kind) == [kind |-> kind, unlintable |-> FALSE, value |-> Null, text |-> ""]
MCOutcomes ==
  {Outcome(k) : k \in {"input", "parse", "execute", "output", "deleted"}}
  \cup {[Outcome("bytes") EXCEPT !.text = t] : t \in {"1", "null", "text"}}
  \cup {[Outcome("value") EXCEPT !.value = v] : v \in MCValues}
  \cup {[Outcome("value") EXCEPT !.unlintable = TRUE]}

MCNumberOf == "1" :> 1 @@ "1.0" :> 1 @@ "1.00" :> 1 @@ "2" :> 2
MCReads == "0x1" :> "1"
===============================================================================
