------------------------------- MODULE Condition ------------------------------
(***************************************************************************)
(* A rule's condition in src/userspace/linx_rule_engine: the parser        *)
(* (rule_engine_ast, rule_engine_lexer), the compiler and the matchers     *)
(* (rule_engine_match), and the field tables they read (linx_hash_map).    *)
(*                                                                         *)
(* A text is a sequence of symbols: a blank, the punctuation ( ) = , > < ! *)
(* and the quote, keywords, field names, numbers and letters.  The lexer   *)
(* tests prefixes of what is left, so a parser takes the rest of the text  *)
(* and returns a pair: the node and what it left.  A numeric field is      *)
(* tested by the numeric operators, a text field by the others.  Field     *)
(* transformers, escapes and field arguments are not modelled.             *)
(***************************************************************************)
EXTENDS Integers, Sequences, SequencesExt

Numeric == {"evt.num", "proc.pid"}

Fields == Numeric \cup {"evt.type", "proc.name"}

TableOf(field) == IF field \in {"evt.num", "evt.type"} THEN "evt" ELSE "proc"

\* What RGX_HEXNUM and RGX_NUMBER match, and the node it becomes: an integer,
\* or a number with a point.
HexNum == "0x2" :> [type |-> "int", value |-> 2]

DecNum == ("1" :> [type |-> "int", value |-> 1])
          @@ ("2" :> [type |-> "int", value |-> 2])
          @@ ("1.5" :> [type |-> "float", tenths |-> 15])

Null == [op |-> "null"]

\* A value that may be absent is a set of at most one: the parser found no
\* value, or the field's table has no base.
Missing == {}

-------------------------------------------------------------------------------
(***************************************************************************)
(* The lexer.                                                              *)
(***************************************************************************)
RECURSIVE Blank(_), Word(_)

Blank(r) == IF r # <<>> /\ Head(r) = " " THEN Blank(Tail(r)) ELSE r

FindStr(r, w) == IsPrefix(w, r)

Skip(r, n) == SubSeq(r, n + 1, Len(r))

\* How many symbols RGX_BARESTR takes.
Word(r) ==
    IF r = <<>> \/ Head(r) \in {" ", "(", ")", "=", ",", "'"} THEN 0
    ELSE 1 + Word(Tail(r))

FindOperator(r, list) == SelectInSeq(list, LAMBDA w : FindStr(r, w))

\* linx_lexer_unary_op leaves out "not".
UnaryOps == << <<"exists">> >>

NumOps == << <<">">>, <<">", "=">>, <<"<">>, <<"<", "=">> >>

StrOps == << <<"=", "=">>, <<"=">>, <<"!", "=">>, <<"glob", " ">>,
             <<"iglob", " ">>, <<"contains", " ">>, <<"icontains", " ">>,
             <<"bcontains", " ">>, <<"startswith", " ">>, <<"bstartswith", " ">>,
             <<"endswith", " ">>, <<"regex", " ">> >>

ListOps == << <<"intersects">>, <<"in">>, <<"pmatch">> >>

-------------------------------------------------------------------------------
(***************************************************************************)
(* Values.  A text is its symbols, a list the set of its texts.            *)
(***************************************************************************)
ParseNum(r) ==
    IF r # <<>> /\ Head(r) \in DOMAIN HexNum
    THEN <<{HexNum[Head(r)]}, Tail(r)>>
    ELSE IF r # <<>> /\ Head(r) \in DOMAIN DecNum
    THEN <<{DecNum[Head(r)]}, Tail(r)>>
    ELSE <<Missing, r>>

\* A quoted text ends at the next quote; RGX_BARESTR must match something.
ParseStr(r0) ==
    LET r == Blank(r0)
        close == SelectInSeq(Tail(r), LAMBDA c : c = "'")
        n == Word(r)
    IN IF r # <<>> /\ Head(r) = "'"
       THEN <<{SubSeq(r, 2, close)}, Skip(r, close + 1)>>
       ELSE IF n > 0 THEN <<{SubSeq(r, 1, n)}, Skip(r, n)>>
       ELSE <<Missing, r>>

CloseList(items, r) ==
    <<{items}, IF FindStr(r, <<")">>) THEN Tail(r) ELSE r>>

RECURSIVE ListItems(_, _)

\* In every text handed to it a comma is followed by an item.
ListItems(items, r0) ==
    LET r == Blank(r0)
        item == ParseStr(Tail(r))
    IN IF FindStr(r, <<",">>)
       THEN ListItems(items \cup item[1], item[2])
       ELSE CloseList(items, r)

ParseList(r0) ==
    LET r == Blank(r0)
        first == ParseStr(Tail(r))
    IN IF ~FindStr(r, <<"(">>) THEN <<Missing, r>>
       ELSE IF first[1] = Missing THEN CloseList({}, first[2])
       ELSE ListItems(first[1], first[2])

-------------------------------------------------------------------------------
(***************************************************************************)
(* The parser.  parse_condition's operators are tried in the order of      *)
(* their tables, so ">" is found where ">=" stands.  Every text handed to  *)
(* it has an operator there; without one it returns an uninitialised node. *)
(***************************************************************************)
ParseCondition(r0, field) ==
    LET r == Blank(r0)
        num == FindOperator(r, NumOps)
        str == FindOperator(r, StrOps)
        lst == FindOperator(r, ListOps)
        op == IF num > 0 THEN NumOps[num] ELSE IF str > 0 THEN StrOps[str]
              ELSE ListOps[lst]
        rest == Skip(r, Len(op))
        v == IF num > 0 THEN ParseNum(Blank(rest))
             ELSE IF str > 0 THEN ParseStr(rest) ELSE ParseList(rest)
    IN IF FindOperator(r, UnaryOps) > 0
       THEN <<[op |-> "exists", field |-> field], Tail(r)>>
       ELSE <<[op |-> "test", cmp |-> op, field |-> field, val |-> v[1]], v[2]>>

RECURSIVE ParseOr(_), ParseAnd(_), ParseNot(_), Nots(_, _), Ands(_, _),
          Ors(_, _)

Embedded(r) ==
    LET e == ParseOr(Blank(r))
        rest == Blank(e[2])
    IN <<e[1], IF FindStr(rest, <<")">>) THEN Tail(rest) ELSE rest>>

ParseCheck(r0) ==
    LET r == Blank(r0) IN
    IF FindStr(r, <<"(">>) THEN Embedded(Tail(r))
    ELSE IF r # <<>> /\ Head(r) \in Fields THEN ParseCondition(Tail(r), Head(r))
    ELSE <<Null, r>>

Negated(e, is_not) == IF is_not THEN [op |-> "not", arg |-> e] ELSE e

Nots(r, is_not) ==
    IF FindStr(r, <<"not", " ">>) THEN Nots(Blank(Skip(r, 1)), ~is_not)
    ELSE IF FindStr(r, <<"not", "(">>)
         THEN LET e == Embedded(Skip(r, 2)) IN <<Negated(e[1], ~is_not), e[2]>>
         ELSE LET e == ParseCheck(r) IN <<Negated(e[1], is_not), e[2]>>

ParseNot(r) == Nots(Blank(r), FALSE)

\* "and" is followed by a blank or by "(" in every text handed to it.
AndOperand(r) ==
    IF FindStr(r, <<"(">>) THEN Embedded(Tail(r)) ELSE ParseNot(r)

Ands(left, r0) ==
    LET r == Blank(r0)
        right == AndOperand(Tail(r))
    IN IF FindStr(r, <<"and">>)
       THEN Ands([op |-> "and", l |-> left, r |-> right[1]], right[2])
       ELSE <<left, r>>

ParseAnd(r) == LET e == ParseNot(r) IN Ands(e[1], e[2])

BadOrOperand(r) ==
    IF FindStr(r, <<"(">>) THEN Embedded(Tail(r)) ELSE ParseNot(r)

OrOperand(r) ==
    IF FindStr(r, <<"(">>) THEN Embedded(Tail(r)) ELSE ParseAnd(r)

Ors(left, r0) ==
    LET r == Blank(r0)
        right == OrOperand(Tail(r))
    IN IF FindStr(r, <<"or">>)
       THEN Ors([op |-> "or", l |-> left, r |-> right[1]], right[2])
       ELSE <<left, r>>

ParseOr(r) == LET e == ParseAnd(r) IN Ors(e[1], e[2])

\* What follows the condition is not looked at.
ConditionToAst(text) == ParseOr(text)[1]

-------------------------------------------------------------------------------
(***************************************************************************)
(* linx_compile_ast: the tree's own shape, or Null where a part of a       *)
(* Boolean operator is.  A test and "exists" always compile, the ones with *)
(* no function in match->func too.                                         *)
(***************************************************************************)
RECURSIVE Compiles(_)

Compiles(e) ==
    CASE e.op = "null" -> FALSE
      [] e.op = "not" -> Compiles(e.arg)
      [] e.op \in {"and", "or"} -> Compiles(e.l) /\ Compiles(e.r)
      [] e.op \in {"test", "exists"} -> TRUE

CompileAst(e) == IF Compiles(e) THEN e ELSE Null

-------------------------------------------------------------------------------
(***************************************************************************)
(* The field tables.  update_field_base gives them their bases in one call *)
(* per event, which stops at the first table that was never created: "fd", *)
(* whose bind_field_fd is not called.                                      *)
(***************************************************************************)
Created == {"evt", "proc", "user", "group"}

Order == <<"evt", "fd", "proc", "user", "group">>

Bound ==
    {Order[i] : i \in {j \in DOMAIN Order : \A k \in 1..j : Order[k] \in Created}}

ValueOf(e, test) ==
    IF test.val = Missing \/ TableOf(test.field) \notin Bound
    THEN Missing
    ELSE {e[test.field]}

-------------------------------------------------------------------------------
(***************************************************************************)
(* The memory of a test's context on a 64-bit machine.  Every context is   *)
(* allocated with the size of a num_context_t, a field_result_t and a long *)
(* double; a list_context_t has a field_result_t and three words, so its   *)
(* list_count lies past what was asked for.  glibc's malloc rounds a chunk *)
(* with its 8 byte header up to a multiple of 16.                          *)
(***************************************************************************)
FieldResult == 64

NumContext == FieldResult + 16

ListContext == FieldResult + 24

Usable(size) == ((size + 8 + 15) \div 16) * 16 - 8

-------------------------------------------------------------------------------
(***************************************************************************)
(* The matchers, as the set of their possible outcomes.  A text matcher    *)
(* that gets no value switches on an uninitialised type and either gives   *)
(* up or follows a null pointer; an operator without a matcher calls an    *)
(* uninitialised function pointer; a list test is only as good as the      *)
(* memory its list_count lies in.                                          *)
(***************************************************************************)
Answer(b) == IF b THEN "yes" ELSE "no"

Undefined == {"yes", "no", "crash"}

\* What a matcher reads as number.int_val: of a long double the low 64 bits,
\* which are negative on x86-64 (-1 stands for them) and 0 on aarch64.
IntVal(n) == IF n.type = "int" THEN {n.value} ELSE {-1, 0}

Lower(text) == [i \in DOMAIN text |-> IF text[i] = "A" THEN "a" ELSE text[i]]

StrStr(text, part) == \E i \in 0..Len(text) : IsPrefix(part, Skip(text, i))

Found(cmp, v, w) ==
    CASE cmp = <<">">> -> v > w
      [] cmp = <<"<">> -> v < w
      [] cmp = <<">", "=">> -> v >= w
      [] cmp = <<"<", "=">> -> v <= w
      [] cmp = <<"=">> -> v = w
      [] cmp = <<"!", "=">> -> v # w
      [] cmp = <<"contains", " ">> -> StrStr(v, w)
      [] cmp = <<"icontains", " ">> -> StrStr(Lower(v), Lower(w))
      [] cmp = <<"startswith", " ">> -> IsPrefix(w, v)
      [] cmp = <<"endswith", " ">> -> IsSuffix(w, v)
      [] cmp = <<"in">> -> v \in w

NoMatcher ==
    {<<"=", "=">>, <<"glob", " ">>, <<"iglob", " ">>, <<"bcontains", " ">>,
     <<"bstartswith", " ">>, <<"regex", " ">>, <<"intersects">>, <<"pmatch">>}

\* What a test compares the field's value with.
Operands(test) ==
    IF test.field \in Numeric THEN UNION {IntVal(n) : n \in test.val} ELSE test.val

TestOutcomes(test, e) ==
    LET v == ValueOf(e, test) IN
    IF test.cmp \in NoMatcher \/ (test.cmp = <<"in">> /\ ListContext > Usable(NumContext))
    THEN Undefined
    ELSE IF v # Missing THEN {Answer(Found(test.cmp, x, y)) : x \in v, y \in Operands(test)}
    ELSE IF test.field \in Numeric THEN {"no"}
    ELSE {Answer(test.cmp = <<"!", "=">>), "crash"}

RECURSIVE Outcomes(_, _)

\* and_matcher and or_matcher stop at the operand that decides; "exists" has
\* no matcher.
Outcomes(m, e) ==
    CASE m.op = "test" -> TestOutcomes(m, e)
      [] m.op = "exists" -> Undefined
      [] m.op = "not" ->
            {IF o = "crash" THEN o ELSE Answer(o = "no") : o \in Outcomes(m.arg, e)}
      [] m.op = "and" ->
            UNION {IF o = "yes" THEN Outcomes(m.r, e) ELSE {o} : o \in Outcomes(m.l, e)}
      [] m.op = "or" ->
            UNION {IF o = "no" THEN Outcomes(m.r, e) ELSE {o} : o \in Outcomes(m.l, e)}
===============================================================================
