-------------------------------- MODULE RuleText ------------------------------
(***************************************************************************)
(* What linx_apd reads as text: the conditions of the rules and the YAML   *)
(* files they stand in.  A text written from a source tree is read in one  *)
(* step, and the properties compare what the program made of it with what  *)
(* the tree says; any other stream of YAML events is read as YamlBuild has *)
(* it, event by event.                                                     *)
(***************************************************************************)
EXTENDS Condition, YamlBuild

CONSTANTS
    Trees,      \* conditions, in the form of Condition's nodes
    Layouts,    \* where their texts have blanks
    Events,     \* events, a value for every field
    Docs        \* YAML documents

VARIABLES
    source,     \* what was read in one step
    meaning     \* what the program made of it

textVars == <<source, meaning, vars>>

-------------------------------------------------------------------------------
(***************************************************************************)
(* Writing a condition: parentheses where the precedence not, and, or asks *)
(* for them, or around every operand that is no test; blanks, quotes and   *)
(* hexadecimal numbers as the layout has it.                               *)
(***************************************************************************)
Around(l) == IF l.blanks THEN <<" ">> ELSE <<>>

Paren(text, l) == <<"(">> \o Around(l) \o text \o Around(l) \o <<")">>

Strength(e) ==
    CASE e.op = "or" -> 1 [] e.op = "and" -> 2 [] OTHER -> 3

Spelling(table, v) == {w \in DOMAIN table : table[w] = v}

WriteNumber(v, l) ==
    LET hex == IF l.hex THEN Spelling(HexNum, v) ELSE {}
    IN <<CHOOSE w \in hex \cup Spelling(DecNum, v) : hex # {} => w \in hex>>

WriteValue(test, l) ==
    LET v == CHOOSE x \in test.val : TRUE IN
    IF test.field \in Numeric THEN WriteNumber(v, l)
    ELSE IF test.cmp \in Range(ListOps)
    THEN Paren(FoldLeft(LAMBDA t, w : IF t = <<>> THEN w ELSE t \o <<",">> \o Around(l) \o w,
                        <<>>, SetToSeq(v)), l)
    ELSE IF l.quotes THEN <<"'">> \o v \o <<"'">> ELSE v

\* A blank separates words where the layout has none of its own.
After(word, text, glued) ==
    IF glued /\ Head(text) = "(" THEN <<word>> \o text ELSE <<word, " ">> \o text

RECURSIVE Write(_, _)

Operand(e, strength, l) ==
    IF Strength(e) < strength \/ (l.parens /\ e.op \in {"not", "and", "or"})
    THEN Paren(Write(e, l), l)
    ELSE Write(e, l)

Write(e, l) ==
    CASE e.op = "test" ->
            <<e.field>>
            \o (IF Head(e.cmp) \in {">", "<", "=", "!"} THEN Around(l) ELSE <<" ">>)
            \o e.cmp \o Around(l) \o WriteValue(e, l)
      [] e.op = "exists" -> <<e.field, " ", "exists">>
      [] e.op = "not" -> After("not", Operand(e.arg, 3, l), ~l.blanks)
      [] e.op = "and" ->
            Operand(e.l, 2, l) \o <<" ">>
                \o After("and", Operand(e.r, 2, l), ~l.blanks)
      [] e.op = "or" ->
            Operand(e.l, 1, l) \o <<" ">>
                \o After("or", Operand(e.r, 1, l), l.gluedOr)

(***************************************************************************)
(* What a condition says of an event, and the conditions that have such a  *)
(* meaning in the code: no test without a matcher, no number with a point, *)
(* no field of a table that has no base.                                   *)
(***************************************************************************)
RECURSIVE Holds(_, _), Tests(_), LosesAnd(_)

Holds(e, event) ==
    CASE e.op = "test" -> \A w \in Operands(e) : Found(e.cmp, event[e.field], w)
      [] e.op = "not" -> ~Holds(e.arg, event)
      [] e.op = "and" -> Holds(e.l, event) /\ Holds(e.r, event)
      [] e.op = "or" -> Holds(e.l, event) \/ Holds(e.r, event)

Tests(e) ==
    CASE e.op \in {"test", "exists"} -> {e}
      [] e.op = "not" -> Tests(e.arg)
      [] e.op \in {"and", "or"} -> Tests(e.l) \cup Tests(e.r)

Supported(test) ==
    /\ test.op = "test" /\ test.cmp \notin NoMatcher
    /\ test.field \in Numeric => \A n \in test.val : n.type = "int"
    /\ TableOf(test.field) \in Bound

(***************************************************************************)
(* The texts the parser does not read as they are written: ">=" and "<=",  *)
(* of which it finds the first character, and "or(" before an operand that *)
(* only begins with the parenthesis, whose "and" it does not see any more. *)
(***************************************************************************)
BeginsWithParen(e) ==
    e.op = "and" /\ LET RECURSIVE First(_)
                        First(x) == IF x.op = "and" THEN First(x.l) ELSE x
                    IN First(e).op = "or"

LosesAnd(e) ==
    CASE e.op \in {"test", "exists"} -> FALSE
      [] e.op = "not" -> LosesAnd(e.arg)
      [] e.op = "and" -> LosesAnd(e.l) \/ LosesAnd(e.r)
      [] e.op = "or" -> LosesAnd(e.l) \/ LosesAnd(e.r) \/ BeginsWithParen(e.r)

Misread(e, l) ==
    \/ \E t \in Tests(e) : t.op = "test" /\ t.cmp \in {<<">", "=">>, <<"<", "=">>}
    \/ l.gluedOr /\ ~l.parens /\ LosesAnd(e)

-------------------------------------------------------------------------------
(***************************************************************************)
(* Writing a document as libyaml reports it, and the tree and the texts it *)
(* stands for.                                                             *)
(***************************************************************************)
RECURSIVE EventsOf(_), TreeOf(_, _), TextAt(_, _), ByIndex(_, _), Regular(_)

ScalarEvent(value) == <<[type |-> "SCALAR", value |-> value]>>

EventsOf(d) ==
    CASE d.type = "scalar" -> ScalarEvent(d.value)
      [] d.type = "sequence" ->
            <<[type |-> "SEQUENCE_START"]>>
            \o FlattenSeq([i \in DOMAIN d.items |-> EventsOf(d.items[i])])
            \o <<[type |-> "SEQUENCE_END"]>>
      [] d.type = "mapping" ->
            <<[type |-> "MAPPING_START"]>>
            \o FlattenSeq([i \in DOMAIN d.items |->
                              ScalarEvent(d.keys[i]) \o EventsOf(d.items[i])])
            \o <<[type |-> "MAPPING_END"]>>

TreeOf(d, key) ==
    CASE d.type = "scalar" -> Node("scalar", key, {d.value}, <<>>)
      [] d.type = "sequence" ->
            Node("sequence", key, {}, [i \in DOMAIN d.items |-> TreeOf(d.items[i], {})])
      [] d.type = "mapping" ->
            Node("mapping", key, {},
                 [i \in DOMAIN d.items |-> TreeOf(d.items[i], {d.keys[i]})])

IsIndex(token) == token \in DOMAIN IndexOf

\* The first of two equal keys counts.  A key applied to a sequence finds the
\* first of its mappings that holds it (linx_yaml_get.c:35 and 44).
TextAt(d, path) ==
    IF path = <<>> THEN IF d.type = "scalar" THEN {d.value} ELSE {}
    ELSE CASE d.type = "scalar" -> {}
           [] d.type = "sequence" /\ IsIndex(Head(path)) ->
                UNION {TextAt(d.items[i], Tail(path)) :
                       i \in {j \in DOMAIN d.items : ToString(j - 1) = Head(path)}}
           [] d.type = "sequence" /\ ~IsIndex(Head(path)) ->
                LET i == SelectInSeq(d.items, LAMBDA x : x.type = "mapping"
                                                         /\ Contains(x.keys, Head(path)))
                IN IF i = 0 THEN {} ELSE TextAt(d.items[i], path)
           [] d.type = "mapping" ->
                LET i == SelectInSeq(d.keys, LAMBDA k : k = Head(path))
                IN IF i = 0 THEN {} ELSE TextAt(d.items[i], Tail(path))

\* No token of the path is a key applied to a sequence.
ByIndex(d, path) ==
    path = <<>> \/
    CASE d.type = "scalar" -> TRUE
      [] d.type = "sequence" ->
            /\ IsIndex(Head(path))
            /\ \A i \in DOMAIN d.items :
                    ToString(i - 1) = Head(path) => ByIndex(d.items[i], Tail(path))
      [] d.type = "mapping" ->
            LET i == SelectInSeq(d.keys, LAMBDA k : k = Head(path))
            IN i > 0 => ByIndex(d.items[i], Tail(path))

Paths == UNION {[1..n -> {"0", "1", "a", "b"}] : n \in 0..3}

\* In no sequence does a scalar follow a mapping or a sequence.
Regular(d) ==
    d.type = "scalar"
    \/ /\ \A i \in DOMAIN d.items : Regular(d.items[i])
       /\ d.type = "sequence" =>
            \A i, j \in DOMAIN d.items :
                i < j /\ d.items[j].type = "scalar" => d.items[i].type = "scalar"

-------------------------------------------------------------------------------
None == [kind |-> "none"]

TextInit == Init /\ source = None /\ meaning = None

ReadCondition ==
    \E tree \in Trees, l \in Layouts :
        /\ source' = [kind |-> "condition", tree |-> tree, layout |-> l]
        /\ meaning' = CompileAst(ConditionToAst(Write(tree, l)))

ReadYaml ==
    \E d \in Docs :
        /\ source' = [kind |-> "yaml", doc |-> d]
        /\ meaning' = YamlLoad(EventsOf(d))

TextNext ==
    /\ source = None
    /\ \/ read = 0 /\ ~done /\ (ReadCondition \/ ReadYaml) /\ UNCHANGED vars
       \/ Next /\ UNCHANGED <<source, meaning>>

TextSpec == TextInit /\ [][TextNext]_textVars

-------------------------------------------------------------------------------
(***************************************************************************)
(* The parser loses and regroups nothing (linx_rule_engine_ast.c:260-390): *)
(* but for the texts that are Misread, a condition behaves like the tree   *)
(* it was written from, whatever its parentheses, negations and blanks, be *)
(* its tests supported or not.  Where all of them are Supported, its       *)
(* matcher (rule_match_func.c) accepts the events of which the condition   *)
(* holds, and runs into no undefined behaviour; a list test does so only   *)
(* because glibc's malloc leaves room for list_count                       *)
(* (linx_rule_engine_match.c:260).                                         *)
(***************************************************************************)
ConditionMeans ==
    source.kind = "condition" /\ ~Misread(source.tree, source.layout) =>
        \A event \in Events :
            /\ Outcomes(meaning, event) = Outcomes(source.tree, event)
            /\ (\A t \in Tests(source.tree) : Supported(t)) =>
                    Outcomes(meaning, event) = {Answer(Holds(source.tree, event))}

(***************************************************************************)
(* The operators and tables src/README.md:1444 and 1454 list as supported  *)
(* are: the matcher of a condition that uses them accepts the events of    *)
(* which it holds.                                                         *)
(***************************************************************************)
DocumentedMeans ==
    source.kind = "condition" =>
        \A event \in Events :
            Outcomes(meaning, event) = {Answer(Holds(source.tree, event))}

(***************************************************************************)
(* linx_yaml_load builds the tree of every regular document, rule files    *)
(* among them, and a path of keys of mappings and indexes of sequences     *)
(* leads linx_yaml_get_string to the text that stands there.  Of a key     *)
(* applied to a sequence it says nothing: the code finds nothing, against  *)
(* the comments at linx_yaml_get.c:35 and 44.                              *)
(***************************************************************************)
YamlFaithful ==
    source.kind = "yaml" /\ Regular(source.doc) =>
        /\ meaning = {TreeOf(source.doc, {})}
        /\ \A path \in Paths :
                ByIndex(source.doc, path) =>
                    GetString(meaning, path) = TextAt(source.doc, path)
===============================================================================
