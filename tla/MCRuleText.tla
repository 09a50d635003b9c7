------------------------------ MODULE MCRuleText ------------------------------
(***************************************************************************)
(* Bounded sets of conditions and documents for RuleText.                  *)
(***************************************************************************)
EXTENDS RuleText

Test(field, cmp, val) ==
    [op |-> "test", field |-> field, cmp |-> cmp, val |-> {val}]

Deep == {Test("evt.num", <<">">>, DecNum["1"]), Test("evt.type", <<"=">>, <<"a", "b">>),
         Test("evt.type", <<"!", "=">>, <<"a">>),
         Test("evt.type", <<"in">>, {<<"a">>, <<"a", "b">>})}

Shallow == Deep \cup
    {Test("evt.num", <<"<">>, DecNum["2"]),
     Test("evt.type", <<"contains", " ">>, <<"b">>),
     Test("evt.type", <<"icontains", " ">>, <<"a", "b">>),
     Test("evt.type", <<"startswith", " ">>, <<"b">>),
     Test("evt.type", <<"endswith", " ">>, <<"b">>)}

DocumentedTrees ==
    {Test("evt.num", <<">">>, DecNum["2"]), Test("evt.num", <<">", "=">>, DecNum["2"]),
     Test("proc.pid", <<">">>, DecNum["1"])}

\* Tests the parser reads and no matcher answers as they are meant, and two of
\* the parser's own.
Unsupported ==
    {Test("evt.type", cmp, <<"a">>) : cmp \in NoMatcher \ Range(ListOps)} \cup
    {Test("evt.type", cmp, {<<"a">>}) : cmp \in NoMatcher \cap Range(ListOps)} \cup
    {Test("evt.num", <<">">>, DecNum["1.5"]), Test("evt.num", <<"<">>, DecNum["1.5"]),
     Test("evt.num", <<">", "=">>, DecNum["1"]), Test("evt.num", <<"<", "=">>, DecNum["1"]),
     Test("proc.pid", <<">">>, DecNum["1"]), Test("proc.name", <<"=">>, <<"a">>),
     [op |-> "exists", field |-> "evt.type"]}

Over(E) ==
    E \cup [op : {"not"}, arg : E] \cup [op : {"and", "or"}, l : E, r : E]

Deeper == LET T == {Test("evt.num", <<">">>, DecNum["1"]), Test("evt.type", <<"=">>, <<"a">>)}
          IN [op : {"and", "or"}, l : T, r : Over(Over(T))]
             \cup [op : {"and", "or"}, l : Over(Over(T)), r : T]

SomeTrees == Over(Shallow \cup Unsupported) \cup Over(Over(Deep)) \cup Deeper

\* Spread out; as short as it goes; and with parentheses everywhere, glued to
\* every keyword.
Plain == [blanks |-> TRUE, quotes |-> FALSE, hex |-> FALSE, gluedOr |-> FALSE,
          parens |-> FALSE]

Short == [Plain EXCEPT !.blanks = FALSE, !.quotes = TRUE, !.gluedOr = TRUE]

SomeLayouts == {Plain, Short, [Short EXCEPT !.parens = TRUE, !.hex = TRUE]}

SomeEvents ==
    {[f \in Fields |-> CASE f = "evt.num" -> n [] f = "evt.type" -> t
                         [] f = "proc.pid" -> 2 [] OTHER -> <<"a">>] :
     n \in 1..2, t \in {<<"a">>, <<"b">>, <<"a", "b">>, <<"A", "b">>}}

-------------------------------------------------------------------------------
Leaf(v) == [type |-> "scalar", value |-> v]

List(items) == [type |-> "sequence", items |-> items]

Map(keys, items) == [type |-> "mapping", keys |-> keys, items |-> items]

Flat == {Leaf("x"), List(<<>>), List(<<Leaf("x")>>), List(<<Leaf("x"), Leaf("y")>>),
         Map(<<>>, <<>>), Map(<<"a">>, <<Leaf("x")>>),
         Map(<<"a", "b">>, <<Leaf("x"), Leaf("y")>>),
         Map(<<"a", "a">>, <<Leaf("x"), Leaf("y")>>)}

UpTo2(S) == UNION {[1..n -> S] : n \in 0..2}

Nested ==
    {List(q) : q \in UpTo2(Flat)} \cup
    UNION {{Map(k, q) : k \in [1..n -> {"a", "b"}], q \in [1..n -> Flat]} : n \in 0..2}

SomeDocs == Nested \cup {List(<<d, e>>) : d \in Nested, e \in Flat}

NoDocs == {}
===============================================================================
