--------------------------- MODULE YamlBuildProofs ---------------------------
(***************************************************************************)
(* Proofs about YamlBuild: linx_yaml_load keeps the tree of the reference, *)
(* for streams of any length and any depth.                                *)
(***************************************************************************)
EXTENDS YamlBuild, SequenceTheorems, TLAPS

(***************************************************************************)
(* Sequences whose elements have no type of their own, since a node holds  *)
(* nodes.                                                                  *)
(***************************************************************************)
LEMMA SeqTyped ==
    ASSUME NEW S, NEW q \in Seq(S)
    PROVE  IsSeq(q)
<1>1. Len(q) \in Nat /\ DOMAIN q = 1..Len(q)
      /\ q = [i \in 1..Len(q) |-> q[i]]
  OBVIOUS
<1>2. \A i \in 1..Len(q) : q[i] \in Range(q)
  BY <1>1 DEF Range
<1> QED
  BY <1>1, <1>2 DEF IsSeq

LEMMA SeqParts ==
    ASSUME NEW q, IsSeq(q)
    PROVE  /\ Len(q) \in Nat /\ DOMAIN q = 1..Len(q)
           /\ \A i \in 1..Len(q) : q[i] \in Range(q)
           /\ \A n \in Range(q) : \E i \in 1..Len(q) : n = q[i]
           /\ q # <<>> <=> Len(q) > 0
  BY DEF IsSeq, Range

LEMMA SeqAppended ==
    ASSUME NEW q, IsSeq(q), NEW e
    PROVE  /\ IsSeq(Append(q, e))
           /\ Len(Append(q, e)) = Len(q) + 1
           /\ Append(q, e)[Len(q) + 1] = e
           /\ \A i \in 1..Len(q) : Append(q, e)[i] = q[i]
           /\ Range(Append(q, e)) = Range(q) \cup {e}
<1> DEFINE S == Range(q) \cup {e}
           p == Append(q, e)
<1>1. q \in Seq(S) /\ e \in S
  BY DEF IsSeq
<1>2. /\ p \in Seq(S) /\ Len(p) = Len(q) + 1 /\ p[Len(q) + 1] = e
      /\ \A i \in 1..Len(q) : p[i] = q[i]
  BY <1>1
<1>3. Len(q) \in Nat /\ DOMAIN p = 1..(Len(q) + 1) /\ DOMAIN q = 1..Len(q)
  BY <1>1, <1>2
<1> HIDE DEF p
<1>4. Range(p) = Range(q) \cup {e}
  BY <1>2, <1>3 DEF Range
<1>5. IsSeq(p)
  BY <1>2, SeqTyped
<1> QED
  BY <1>2, <1>4, <1>5 DEF p

LEMMA SeqFront ==
    ASSUME NEW q, IsSeq(q), q # <<>>
    PROVE  /\ IsSeq(Front(q))
           /\ Len(Front(q)) = Len(q) - 1
           /\ \A i \in 1..(Len(q) - 1) : Front(q)[i] = q[i]
           /\ Range(Front(q)) \subseteq Range(q)
           /\ Last(q) = q[Len(q)] /\ Last(q) \in Range(q)
           /\ Front(q) = SubSeq(q, 1, Len(q) - 1)
<1> DEFINE p == Front(q)
<1>1. q \in Seq(Range(q)) /\ Len(q) \in Nat /\ Len(q) > 0
  BY SeqParts DEF IsSeq
<1>2. /\ p \in Seq(Range(q)) /\ Len(p) = Len(q) - 1
      /\ \A i \in 1..(Len(q) - 1) : p[i] = q[i]
  <2> DEFINE m == Len(q) - 1
  <2>1. m \in Int /\ \A i \in 1..m : q[i] \in Range(q)
    BY <1>1, SeqParts
  <2>2. p = SubSeq(q, 1, m)
    BY DEF Front
  <2> HIDE DEF m, p
  <2>3. /\ p \in Seq(Range(q))
        /\ Len(p) = IF 1 <= m THEN m - 1 + 1 ELSE 0
        /\ \A i \in 1..(m - 1 + 1) : p[i] = q[1 + i - 1]
    BY <2>1, <2>2, SubSeqProperties
  <2>4. Len(q) - 1 = m /\ m >= 0 /\ m - 1 + 1 = m
        /\ \A i \in 1..m : 1 + i - 1 = i
    BY <1>1 DEF m
  <2>5. Len(p) = m
    BY <2>1, <2>3, <2>4
  <2>6. \A i \in 1..m : p[i] = q[i]
    BY <2>3, <2>4
  <2> QED
    BY <2>3, <2>4, <2>5, <2>6
<1>3. Last(q) = q[Len(q)] /\ Last(q) \in Range(q)
  BY <1>1, SeqParts DEF Last
<1>4. Front(q) = SubSeq(q, 1, Len(q) - 1)
  BY DEF Front
<1> HIDE DEF p
<1>5. IsSeq(p) /\ Range(p) \subseteq Range(q)
  <2>1. IsSeq(p)
    BY <1>2, SeqTyped
  <2>2. \A i \in DOMAIN p : p[i] \in Range(q)
    BY <1>2
  <2> QED
    BY <2>1, <2>2 DEF Range
<1> QED
  BY <1>2, <1>3, <1>4, <1>5 DEF p

LEMMA SeqUpdated ==
    ASSUME NEW q, IsSeq(q), q # <<>>, NEW e,
           NEW p, p = [q EXCEPT ![Len(q)] = e]
    PROVE  /\ IsSeq(p) /\ Len(p) = Len(q) /\ p[Len(q)] = e
           /\ \A i \in 1..(Len(q) - 1) : p[i] = q[i]
           /\ Range(p) \subseteq Range(q) \cup {e}
<1> DEFINE S == Range(q) \cup {e}
<1>1. q \in Seq(S) /\ e \in S /\ Len(q) \in Nat /\ Len(q) > 0
  BY SeqParts DEF IsSeq
<1>2. /\ p \in Seq(S) /\ Len(p) = Len(q) /\ p[Len(q)] = e
      /\ \A i \in 1..(Len(q) - 1) : p[i] = q[i]
  BY <1>1
<1>3. IsSeq(p)
  BY <1>2, SeqTyped
<1>4. \A i \in DOMAIN p : p[i] \in S
  BY <1>2
<1>5. Range(p) \subseteq S
  BY <1>4 DEF Range
<1> QED
  BY <1>2, <1>3, <1>5

-------------------------------------------------------------------------------
(***************************************************************************)
(* Nodes on the stack: records whose children are filed under keys where   *)
(* the node is a mapping, and under none where it is a sequence.           *)
(***************************************************************************)
Shaped(n) ==
    /\ DOMAIN n = {"type", "key", "value", "children"}
    /\ n.type \in {"mapping", "sequence"}
    /\ IsSeq(n.children)

Keyed(n) == \A c \in Range(n.children) : c.key = {} <=> n.type = "sequence"

StackOK(q) == IsSeq(q) /\ \A n \in Range(q) : Shaped(n) /\ Keyed(n)

LEMMA ChildAdded ==
    ASSUME NEW q, StackOK(q), q # <<>>, NEW node,
           node.key = {} <=> q[Len(q)].type = "sequence"
    PROVE  /\ StackOK(AddChild(q, node))
           /\ Len(AddChild(q, node)) = Len(q)
           /\ \A i \in 1..Len(q) : /\ AddChild(q, node)[i].type = q[i].type
                                   /\ AddChild(q, node)[i].key = q[i].key
<1> DEFINE top == q[Len(q)]
           new == [top EXCEPT !.children = Append(@, node)]
           p == [q EXCEPT ![Len(q)] = new]
<1>1. IsSeq(q) /\ Len(q) \in Nat /\ Len(q) > 0 /\ top \in Range(q)
      /\ \A i \in 1..Len(q) : i < Len(q) + 1 /\ (i = Len(q) \/ i \in 1..(Len(q) - 1))
  BY SeqParts DEF StackOK
<1>2. AddChild(q, node) = p
  BY DEF AddChild
<1>3. Shaped(top) /\ Keyed(top)
  BY <1>1 DEF StackOK
<1> HIDE DEF top
<1>4. /\ DOMAIN new = {"type", "key", "value", "children"}
      /\ new.type = top.type /\ new.key = top.key
      /\ new.children = Append(top.children, node)
  BY <1>3 DEF Shaped
<1> HIDE DEF new
<1>5. IsSeq(new.children) /\ Range(new.children) = Range(top.children) \cup {node}
  BY <1>3, <1>4, SeqAppended DEF Shaped
<1>6. Shaped(new)
  BY <1>3, <1>4, <1>5 DEF Shaped
<1>7. Keyed(new)
  BY <1>3, <1>4, <1>5 DEF Keyed, top
<1>8. /\ IsSeq(p) /\ Len(p) = Len(q) /\ p[Len(q)] = new
      /\ \A i \in 1..(Len(q) - 1) : p[i] = q[i]
      /\ Range(p) \subseteq Range(q) \cup {new}
  BY <1>1, SeqUpdated DEF StackOK
<1> HIDE DEF p
<1>9. StackOK(p)
  BY <1>6, <1>7, <1>8 DEF StackOK
<1>10. ASSUME NEW i \in 1..Len(q)
       PROVE  p[i].type = q[i].type /\ p[i].key = q[i].key
  <2>1. CASE i = Len(q)
    BY <1>4, <1>8, <2>1 DEF top
  <2>2. CASE i \in 1..(Len(q) - 1)
    BY <1>8, <2>2
  <2> QED
    BY <1>1, <2>1, <2>2
<1> QED
  BY <1>2, <1>8, <1>9, <1>10

-------------------------------------------------------------------------------
(***************************************************************************)
(* The inductive invariant.  current_key and in_sequence, one pair for all *)
(* levels, say what is next in the innermost container; the containers     *)
(* around it hold one, so no scalar of theirs can follow, and wait for no  *)
(* value.                                                                  *)
(***************************************************************************)
FrameSet == [next : {"key", "value", "item"}, nested : BOOLEAN]

TypeOf(f) == IF f.next = "item" THEN "sequence" ELSE "mapping"

Levels == \A i \in 1..Len(open) : s.stack[i].type = TypeOf(open[i])

Outer == \A i \in 1..(Len(open) - 1) : open[i].nested /\ open[i].next # "value"

Hung ==
    \A i \in 1..(Len(open) - 1) :
        s.stack[i + 1].key = {} <=> s.stack[i].type = "sequence"

Flags ==
    /\ s.current_key # {} <=> In("value")
    /\ s.in_sequence <=> In("item") /\ ~Innermost.nested

RootKeyed == \A n \in s.root : Keyed(n)

Pending == ~done => result = {}

YamlInv ==
    /\ TypeOK /\ StackOK(s.stack)
    /\ Levels /\ Outer /\ Hung /\ Flags /\ RootKeyed /\ Pending

Fields == {"stack", "current_key", "in_sequence", "root"}

(***************************************************************************)
(* What the steps of linx_yaml_load do to the fields.                      *)
(***************************************************************************)
LEMMA StartFields ==
    ASSUME TypeOK, NEW type, s' = Start(s, type)
    PROVE  /\ DOMAIN s' = Fields
           /\ s'.stack = Append(s.stack, Node(type, s.current_key, {}, <<>>))
           /\ s'.current_key = {}
           /\ s'.in_sequence = (type = "sequence")
           /\ s'.root = s.root
  BY DEF TypeOK, Start, Fields

LEMMA EndFields ==
    ASSUME TypeOK, NEW t, t = End(s)
    PROVE  /\ DOMAIN t = Fields
           /\ t.stack = AddChild(Front(s.stack), Last(s.stack))
           /\ t.current_key = s.current_key
           /\ t.in_sequence = s.in_sequence
           /\ t.root = IF Front(s.stack) = <<>> /\ s.root = {}
                       THEN {Last(s.stack)} ELSE s.root
  BY DEF TypeOK, End, Fields

LEMMA SequenceEndFields ==
    ASSUME TypeOK, s' = SequenceEnd(s)
    PROVE  /\ DOMAIN s' = Fields
           /\ s'.stack = AddChild(Front(s.stack), Last(s.stack))
           /\ s'.current_key = s.current_key
           /\ s'.in_sequence = FALSE
           /\ s'.root = IF Front(s.stack) = <<>> /\ s.root = {}
                        THEN {Last(s.stack)} ELSE s.root
<1> DEFINE t == End(s)
<1>1. s' = [t EXCEPT !.in_sequence = FALSE]
  BY DEF SequenceEnd
<1>2. /\ DOMAIN t = Fields
      /\ t.stack = AddChild(Front(s.stack), Last(s.stack))
      /\ t.current_key = s.current_key
      /\ t.root = IF Front(s.stack) = <<>> /\ s.root = {}
                  THEN {Last(s.stack)} ELSE s.root
  BY EndFields
<1> HIDE DEF t
<1> QED
  BY <1>1, <1>2 DEF Fields

LEMMA ItemFields ==
    ASSUME TypeOK, s.in_sequence, NEW text, s' = Scalar(s, text)
    PROVE  /\ DOMAIN s' = Fields
           /\ s'.stack = AddChild(s.stack, Node("scalar", {}, {text}, <<>>))
           /\ s'.current_key = s.current_key
           /\ s'.in_sequence = s.in_sequence
           /\ s'.root = s.root
  BY DEF TypeOK, Scalar, Fields

LEMMA ValueFields ==
    ASSUME TypeOK, ~s.in_sequence, s.current_key # {}, NEW text,
           s' = Scalar(s, text)
    PROVE  /\ DOMAIN s' = Fields
           /\ s'.stack = AddChild(s.stack, Node("scalar", s.current_key, {text}, <<>>))
           /\ s'.current_key = {}
           /\ s'.in_sequence = s.in_sequence
           /\ s'.root = s.root
  BY DEF TypeOK, Scalar, Fields

LEMMA KeyFields ==
    ASSUME TypeOK, ~s.in_sequence, s.current_key = {}, NEW text,
           s' = Scalar(s, text)
    PROVE  /\ DOMAIN s' = Fields
           /\ s'.stack = s.stack
           /\ s'.current_key = {text}
           /\ s'.in_sequence = s.in_sequence
           /\ s'.root = s.root
  BY DEF TypeOK, Scalar, Fields

LEMMA Steps ==
    /\ Step(s, [type |-> "MAPPING_START"]) = Start(s, "mapping")
    /\ Step(s, [type |-> "SEQUENCE_START"]) = Start(s, "sequence")
    /\ Step(s, [type |-> "MAPPING_END"]) = End(s)
    /\ Step(s, [type |-> "SEQUENCE_END"]) = SequenceEnd(s)
    /\ \A text : Step(s, [type |-> "SCALAR", value |-> text]) = Scalar(s, text)
  BY DEF Step, MappingEnd

(***************************************************************************)
(* libyaml's side: the innermost container after a node in it.             *)
(***************************************************************************)
LEMMA FilledFrames ==
    ASSUME open \in Seq(FrameSet), NEW b \in BOOLEAN
    PROVE  /\ Filled(b) \in Seq(FrameSet) /\ Len(Filled(b)) = Len(open)
           /\ \A i \in 1..Len(open) : TypeOf(Filled(b)[i]) = TypeOf(open[i])
           /\ \A i \in 1..(Len(open) - 1) : Filled(b)[i] = open[i]
           /\ open # <<>> =>
                 /\ Filled(b)[Len(open)].next =
                       IF Innermost.next = "value" THEN "key" ELSE Innermost.next
                 /\ Filled(b)[Len(open)].nested = (Innermost.nested \/ b)
<1>1. CASE open = <<>>
  BY <1>1 DEF Filled
<1>2. CASE open # <<>>
  <2> DEFINE f == Frame(IF Innermost.next = "value" THEN "key" ELSE Innermost.next,
                        Innermost.nested \/ b)
  <2>1. Len(open) \in Nat /\ Len(open) > 0 /\ Innermost \in FrameSet
        /\ \A i \in 1..Len(open) : i = Len(open) \/ i \in 1..(Len(open) - 1)
    BY <1>2 DEF Innermost
  <2>2. f \in FrameSet
    BY <2>1 DEF FrameSet, Frame
  <2>3. f.next = IF Innermost.next = "value" THEN "key" ELSE Innermost.next
    BY DEF Frame
  <2>4. f.nested = (Innermost.nested \/ b)
    BY DEF Frame
  <2>5. TypeOf(f) = TypeOf(Innermost)
    BY <2>3 DEF TypeOf
  <2>6. Filled(b) = [open EXCEPT ![Len(open)] = f]
    BY <1>2 DEF Filled, Innermost
  <2> HIDE DEF f
  <2>7. /\ Filled(b) \in Seq(FrameSet) /\ Len(Filled(b)) = Len(open)
        /\ Filled(b)[Len(open)] = f
        /\ \A i \in 1..(Len(open) - 1) : Filled(b)[i] = open[i]
    BY <2>1, <2>2, <2>6
  <2>8. \A i \in 1..Len(open) : TypeOf(Filled(b)[i]) = TypeOf(open[i])
    BY <2>1, <2>5, <2>7 DEF Innermost
  <2> QED
    BY <2>3, <2>4, <2>7, <2>8
<1> QED
  BY <1>1, <1>2

-------------------------------------------------------------------------------
LEMMA InnermostLevel ==
    ASSUME YamlInv, open # <<>>
    PROVE  /\ Len(open) \in Nat /\ Len(open) > 0 /\ Len(s.stack) = Len(open)
           /\ s.stack # <<>> /\ Innermost \in FrameSet
           /\ s.stack[Len(s.stack)].type = TypeOf(Innermost)
<1>1. /\ open \in Seq(FrameSet) /\ IsSeq(s.stack) /\ Len(s.stack) = Len(open)
      /\ Levels
  BY DEF YamlInv, TypeOK, FrameSet
<1>2. Len(open) \in Nat /\ Len(open) > 0 /\ Innermost \in FrameSet
  BY <1>1 DEF Innermost
<1>3. s.stack # <<>>
  BY <1>1, <1>2, SeqParts
<1> QED
  BY <1>1, <1>2, <1>3 DEF Levels, Innermost

LEMMA FramePushed ==
    ASSUME NEW o \in Seq(FrameSet), NEW f \in FrameSet
    PROVE  /\ Append(o, f) \in Seq(FrameSet)
           /\ Len(Append(o, f)) = Len(o) + 1
           /\ Append(o, f)[Len(o) + 1] = f
           /\ \A i \in 1..Len(o) : Append(o, f)[i] = o[i]
  OBVIOUS

Begins(type, next) ==
    /\ open' = Append(Filled(TRUE), Frame(next, FALSE))
    /\ s' = Start(s, type)

LEMMA StartKeeps ==
    ASSUME YamlInv, ~In("key"),
           NEW type \in {"mapping", "sequence"},
           NEW next, next = IF type = "mapping" THEN "key" ELSE "item",
           Begins(type, next), ~done, UNCHANGED <<done, result>>,
           read' \in 0..MaxEvents
    PROVE  YamlInv'
<1> DEFINE n == Len(open)
           node == Node(type, s.current_key, {}, <<>>)
           f == Frame(next, FALSE)
<1>1. /\ open \in Seq(FrameSet) /\ IsSeq(s.stack) /\ Len(s.stack) = n
      /\ n \in Nat /\ TypeOK /\ StackOK(s.stack)
  BY DEF YamlInv, TypeOK, FrameSet
<1>2. /\ DOMAIN s' = Fields
      /\ s'.stack = Append(s.stack, node)
      /\ s'.current_key = {}
      /\ s'.in_sequence = (type = "sequence")
      /\ s'.root = s.root
  BY <1>1, StartFields DEF Begins
<1>3. /\ f \in FrameSet /\ f.next = next /\ f.nested = FALSE
      /\ TypeOf(f) = type
  BY DEF FrameSet, Frame, TypeOf
<1>4. /\ node.type = type /\ node.key = s.current_key /\ node.children = <<>>
      /\ DOMAIN node = {"type", "key", "value", "children"}
  BY DEF Node
<1>5. Shaped(node) /\ Keyed(node)
  <2>1. IsSeq(<<>>) /\ Range(<<>>) = {}
    BY DEF IsSeq, Range
  <2> QED
    BY <1>4, <2>1 DEF Shaped, Keyed
<1> HIDE DEF node, f
<1>6. /\ IsSeq(s'.stack) /\ Len(s'.stack) = n + 1
      /\ s'.stack[n + 1] = node
      /\ \A i \in 1..n : s'.stack[i] = s.stack[i]
      /\ Range(s'.stack) = Range(s.stack) \cup {node}
  BY <1>1, <1>2, SeqAppended
<1>7. StackOK(s'.stack)
  BY <1>1, <1>5, <1>6 DEF StackOK
<1>8. /\ Filled(TRUE) \in Seq(FrameSet) /\ Len(Filled(TRUE)) = n
      /\ \A i \in 1..n : TypeOf(Filled(TRUE)[i]) = TypeOf(open[i])
      /\ \A i \in 1..(n - 1) : Filled(TRUE)[i] = open[i]
      /\ open # <<>> => /\ Filled(TRUE)[n].next # "value"
                        /\ Filled(TRUE)[n].nested
  BY <1>1, FilledFrames
<1>9. /\ open' \in Seq(FrameSet) /\ Len(open') = n + 1
      /\ open'[n + 1] = f
      /\ \A i \in 1..n : open'[i] = Filled(TRUE)[i]
  <2>1. open' = Append(Filled(TRUE), f)
    BY DEF f, Begins
  <2>2. Filled(TRUE) \in Seq(FrameSet) /\ f \in FrameSet
    BY <1>3, <1>8
  <2>3. /\ Append(Filled(TRUE), f) \in Seq(FrameSet)
        /\ Len(Append(Filled(TRUE), f)) = Len(Filled(TRUE)) + 1
        /\ Append(Filled(TRUE), f)[Len(Filled(TRUE)) + 1] = f
        /\ \A i \in 1..Len(Filled(TRUE)) :
              Append(Filled(TRUE), f)[i] = Filled(TRUE)[i]
    BY <2>2, FramePushed
  <2>4. Len(Filled(TRUE)) = n
    BY <1>8
  <2> QED
    BY <2>1, <2>3, <2>4
<1>10. \A i \in 1..(n + 1) : i = n + 1 \/ i \in 1..n
  BY <1>1
<1>11. Levels'
  <2>1. \A i \in 1..n : s.stack[i].type = TypeOf(open[i])
    BY DEF YamlInv, Levels
  <2>2. \A i \in 1..(n + 1) : s'.stack[i].type = TypeOf(open'[i])
    BY <1>3, <1>4, <1>6, <1>8, <1>9, <1>10, <2>1
  <2> QED
    BY <1>9, <2>2 DEF Levels
<1>12. n > 0 => open # <<>>
  BY <1>1
<1>13. Outer'
  <2>1. \A i \in 1..(n - 1) : open[i].nested /\ open[i].next # "value"
    BY DEF YamlInv, Outer
  <2>2. \A i \in 1..n : n > 0 /\ (i = n \/ i \in 1..(n - 1))
    BY <1>1
  <2>3. \A i \in 1..n : open'[i].nested /\ open'[i].next # "value"
    BY <1>8, <1>9, <1>12, <2>1, <2>2
  <2>4. Len(open') - 1 = n
    BY <1>1, <1>9
  <2> QED
    BY <2>3, <2>4 DEF Outer
<1>14. Hung'
  <2>1. \A i \in 1..(n - 1) : s.stack[i + 1].key = {} <=> s.stack[i].type = "sequence"
    BY DEF YamlInv, Hung
  <2>2. ASSUME NEW i \in 1..n
        PROVE  s'.stack[i + 1].key = {} <=> s'.stack[i].type = "sequence"
    <3>1. CASE i = n
      <4>1. open # <<>> /\ s'.stack[i + 1] = node /\ s'.stack[i] = s.stack[n]
        BY <1>1, <1>6, <1>12, <3>1
      <4>2. s.stack[n].type = TypeOf(Innermost) /\ Innermost \in FrameSet
        BY <1>1, <4>1, InnermostLevel
      <4>3. s.current_key # {} <=> Innermost.next = "value"
        BY <4>1 DEF YamlInv, Flags, In
      <4>4. Innermost.next \in {"value", "item"}
        BY <4>1, <4>2 DEF In, FrameSet
      <4> QED
        BY <1>4, <4>1, <4>2, <4>3, <4>4 DEF TypeOf
    <3>2. CASE i \in 1..(n - 1)
      <4>1. i + 1 \in 1..n /\ i \in 1..n
        BY <1>1, <3>2
      <4> QED
        BY <1>6, <2>1, <3>2, <4>1
    <3> QED
      BY <1>1, <3>1, <3>2
  <2>3. Len(open') - 1 = n
    BY <1>1, <1>9
  <2> QED
    BY <2>2, <2>3 DEF Hung
<1>15. Flags'
  <2>1. open' # <<>> /\ Innermost' = f
    BY <1>1, <1>9 DEF Innermost
  <2> QED
    BY <1>2, <1>3, <2>1 DEF Flags, In
<1>16. TypeOK' /\ RootKeyed' /\ Pending'
  <2>1. \A m \in Range(s'.stack) : Shaped(m)
    BY <1>7 DEF StackOK
  <2>2. TypeOK'
    BY <1>1, <1>2, <1>6, <1>9, <2>1
       DEF TypeOK, Fields, Shaped, FrameSet
  <2> QED
    BY <1>2, <2>2 DEF YamlInv, RootKeyed, Pending
<1> QED
  BY <1>7, <1>11, <1>13, <1>14, <1>15, <1>16 DEF YamlInv

Closes ==
    /\ open' = Front(open)
    /\ DOMAIN s' = Fields
    /\ s'.stack = AddChild(Front(s.stack), Last(s.stack))
    /\ s'.current_key = s.current_key
    /\ s'.in_sequence = FALSE
    /\ s'.root = IF Front(s.stack) = <<>> /\ s.root = {}
                 THEN {Last(s.stack)} ELSE s.root

LEMMA EndKeeps ==
    ASSUME YamlInv, open # <<>>, ~In("value"), Closes,
           ~done, UNCHANGED <<done, result>>, read' \in 0..MaxEvents
    PROVE  YamlInv'
<1> DEFINE n == Len(open)
           q == Front(s.stack)
           node == Last(s.stack)
<1>1. /\ open \in Seq(FrameSet) /\ IsSeq(open) /\ IsSeq(s.stack)
      /\ Len(s.stack) = n /\ TypeOK /\ StackOK(s.stack)
  BY SeqTyped DEF YamlInv, TypeOK, FrameSet
<1>2. n \in Nat /\ n > 0 /\ s.stack # <<>>
  BY InnermostLevel
<1>3. /\ IsSeq(q) /\ Len(q) = n - 1 /\ Range(q) \subseteq Range(s.stack)
      /\ \A i \in 1..(n - 1) : q[i] = s.stack[i]
      /\ node = s.stack[n] /\ node \in Range(s.stack)
  BY <1>1, <1>2, SeqFront
<1>4. /\ IsSeq(open') /\ Len(open') = n - 1 /\ Range(open') \subseteq Range(open)
      /\ \A i \in 1..(n - 1) : open'[i] = open[i]
  BY <1>1, SeqFront DEF Closes
<1>5. open' \in Seq(FrameSet)
  <2>1. \A i \in 1..Len(open') : open'[i] \in FrameSet
    BY <1>1, <1>4
  <2>2. open' = [i \in 1..Len(open') |-> open'[i]] /\ Len(open') \in Nat
    BY <1>4 DEF IsSeq
  <2> QED
    BY <2>1, <2>2
<1>6. StackOK(q) /\ Shaped(node) /\ Keyed(node)
  BY <1>1, <1>3 DEF StackOK
<1>7. /\ StackOK(s'.stack) /\ Len(s'.stack) = n - 1
      /\ \A i \in 1..(n - 1) : /\ s'.stack[i].type = s.stack[i].type
                               /\ s'.stack[i].key = s.stack[i].key
  <2>1. s'.stack = AddChild(q, node)
    BY DEF Closes
  <2>2. CASE q = <<>>
    <3>1. s'.stack = q
      BY <2>1, <2>2 DEF AddChild
    <3> QED
      BY <1>3, <1>6, <3>1
  <2>3. CASE q # <<>>
    <3>1. n - 1 > 0 /\ n - 1 \in 1..(n - 1) /\ (n - 1) + 1 = n
      BY <1>2, <1>3, <2>3, SeqParts
    <3>2. node.key = {} <=> s.stack[n - 1].type = "sequence"
      BY <1>3, <3>1 DEF YamlInv, Hung
    <3>3. q[Len(q)] = s.stack[n - 1]
      BY <1>3, <3>1
    <3> HIDE DEF q, node
    <3>4. /\ StackOK(AddChild(q, node)) /\ Len(AddChild(q, node)) = Len(q)
          /\ \A i \in 1..Len(q) : /\ AddChild(q, node)[i].type = q[i].type
                                  /\ AddChild(q, node)[i].key = q[i].key
      BY <1>6, <2>3, <3>2, <3>3, ChildAdded
    <3> QED
      BY <1>3, <2>1, <3>4
  <2> QED
    BY <2>2, <2>3
<1> HIDE DEF q, node
<1>8. Levels'
  <2>1. \A i \in 1..(n - 1) : s.stack[i].type = TypeOf(open[i])
    BY <1>2 DEF YamlInv, Levels
  <2> QED
    BY <1>4, <1>7, <2>1 DEF Levels
<1>9. \A i \in 1..(n - 2) : i \in 1..(n - 1) /\ i + 1 \in 1..(n - 1)
  BY <1>2
<1>10. (n - 1) - 1 = n - 2
  BY <1>2
<1>11. Outer'
  <2>1. \A i \in 1..(n - 2) : open[i].nested /\ open[i].next # "value"
    BY <1>9 DEF YamlInv, Outer
  <2> QED
    BY <1>4, <1>9, <1>10, <2>1 DEF Outer
<1>12. Hung'
  <2>1. \A i \in 1..(n - 2) : s.stack[i + 1].key = {} <=> s.stack[i].type = "sequence"
    BY <1>9 DEF YamlInv, Hung
  <2> QED
    BY <1>4, <1>7, <1>9, <1>10, <2>1 DEF Hung
<1>13. Flags'
  <2>1. open' # <<>> => Innermost'.nested /\ Innermost'.next # "value"
    <3> SUFFICES ASSUME open' # <<>>
                 PROVE  Innermost'.nested /\ Innermost'.next # "value"
      OBVIOUS
    <3>1. n - 1 > 0 /\ n - 1 \in 1..(n - 1)
      BY <1>2, <1>4, SeqParts
    <3>2. open[n - 1].nested /\ open[n - 1].next # "value"
      BY <3>1 DEF YamlInv, Outer
    <3> QED
      BY <1>4, <3>1, <3>2 DEF Innermost
  <2>2. s'.current_key = {} /\ s'.in_sequence = FALSE
    BY DEF YamlInv, Flags, Closes
  <2> QED
    BY <2>1, <2>2 DEF Flags, In
<1>14. RootKeyed'
  BY <1>6 DEF Closes, YamlInv, RootKeyed, node
<1>15. TypeOK'
  <2>1. IsSeq(s'.stack) /\ \A m \in Range(s'.stack) : Shaped(m)
    BY <1>7 DEF StackOK
  <2> QED
    BY <1>1, <1>4, <1>5, <1>7, <2>1 DEF Closes, TypeOK, Fields, Shaped, FrameSet
<1>16. Pending'
  BY DEF YamlInv, Pending
<1> QED
  BY <1>7, <1>8, <1>11, <1>12, <1>13, <1>14, <1>15, <1>16 DEF YamlInv

Reads(text) ==
    /\ open' = Filled(FALSE)
    /\ s' = Scalar(s, text)

LEMMA ScalarKeeps ==
    ASSUME YamlInv, In("value") \/ (In("item") /\ ~Innermost.nested),
           NEW text \in Texts, Reads(text),
           ~done, UNCHANGED <<done, result>>, read' \in 0..MaxEvents
    PROVE  /\ YamlInv'
           /\ s'.stack = AddChild(s.stack, Node("scalar", s.current_key, {text}, <<>>))
           /\ s'.current_key = {} /\ s'.root = s.root
<1> DEFINE n == Len(open)
           node == Node("scalar", s.current_key, {text}, <<>>)
<1>1. /\ open \in Seq(FrameSet) /\ Len(s.stack) = n
      /\ TypeOK /\ StackOK(s.stack) /\ open # <<>>
  BY DEF YamlInv, TypeOK, FrameSet, In
<1>2. n \in Nat /\ n > 0 /\ s.stack # <<>> /\ Innermost \in FrameSet
      /\ s.stack[n].type = TypeOf(Innermost)
  BY <1>1, InnermostLevel
<1>3. /\ s.in_sequence <=> Innermost.next = "item"
      /\ s.current_key = {} <=> Innermost.next = "item"
      /\ Innermost.next \in {"value", "item"}
      /\ Innermost.next = "item" => ~Innermost.nested
  BY <1>1, <1>2 DEF YamlInv, Flags, In
<1>4. /\ DOMAIN s' = Fields
      /\ s'.stack = AddChild(s.stack, node)
      /\ s'.current_key = {}
      /\ s'.in_sequence = s.in_sequence
      /\ s'.root = s.root
  <2>1. CASE Innermost.next = "item"
    BY <1>1, <1>3, <2>1, ItemFields DEF Reads
  <2>2. CASE Innermost.next = "value"
    BY <1>1, <1>3, <2>2, ValueFields DEF Reads
  <2> QED
    BY <1>3, <2>1, <2>2
<1>5. node.key = {} <=> s.stack[n].type = "sequence"
  BY <1>2, <1>3 DEF Node, TypeOf
<1> HIDE DEF node
<1>6. /\ StackOK(s'.stack) /\ Len(s'.stack) = n
      /\ \A i \in 1..n : /\ s'.stack[i].type = s.stack[i].type
                         /\ s'.stack[i].key = s.stack[i].key
  BY <1>1, <1>2, <1>4, <1>5, ChildAdded
<1>7. /\ open' \in Seq(FrameSet) /\ Len(open') = n
      /\ \A i \in 1..n : TypeOf(open'[i]) = TypeOf(open[i])
      /\ \A i \in 1..(n - 1) : open'[i] = open[i]
      /\ open'[n].next = IF Innermost.next = "value" THEN "key" ELSE Innermost.next
      /\ open'[n].nested = (Innermost.nested \/ FALSE)
  BY <1>1, FilledFrames DEF Reads
<1>8. Levels'
  BY <1>6, <1>7 DEF YamlInv, Levels
<1>9. Outer'
  BY <1>7 DEF YamlInv, Outer
<1>10. Hung'
  <2>1. \A i \in 1..(n - 1) : i \in 1..n /\ i + 1 \in 1..n
    BY <1>2
  <2> QED
    BY <1>6, <1>7, <2>1 DEF YamlInv, Hung
<1>11. Flags'
  <2>1. Innermost' = open'[n] /\ open' # <<>>
    BY <1>2, <1>7 DEF Innermost
  <2> QED
    BY <1>2, <1>3, <1>4, <1>7, <2>1 DEF Flags, In, FrameSet
<1>12. TypeOK'
  <2>1. IsSeq(s'.stack) /\ \A m \in Range(s'.stack) : Shaped(m)
    BY <1>6 DEF StackOK
  <2> QED
    BY <1>1, <1>4, <1>6, <1>7, <2>1 DEF TypeOK, Fields, Shaped, FrameSet
<1>13. RootKeyed' /\ Pending'
  BY <1>4 DEF YamlInv, RootKeyed, Pending
<1> QED
  BY <1>4, <1>6, <1>8, <1>9, <1>10, <1>11, <1>12, <1>13 DEF YamlInv, node

Names(text) ==
    /\ open' = [open EXCEPT ![Len(open)].next = "value"]
    /\ s' = Scalar(s, text)

LEMMA KeyKeeps ==
    ASSUME YamlInv, In("key"), NEW text \in Texts, Names(text),
           ~done, UNCHANGED <<done, result>>, read' \in 0..MaxEvents
    PROVE  /\ YamlInv'
           /\ s'.stack = s.stack /\ s'.current_key = {text} /\ s'.root = s.root
           /\ s.current_key = {}
<1> DEFINE n == Len(open)
<1>1. /\ open \in Seq(FrameSet) /\ Len(s.stack) = n
      /\ TypeOK /\ StackOK(s.stack) /\ open # <<>> /\ Innermost.next = "key"
  BY DEF YamlInv, TypeOK, FrameSet, In
<1>2. n \in Nat /\ n > 0 /\ Innermost \in FrameSet
  BY <1>1, InnermostLevel
<1>3. ~s.in_sequence /\ s.current_key = {}
  BY <1>1 DEF YamlInv, Flags, In
<1>4. /\ DOMAIN s' = Fields
      /\ s'.stack = s.stack
      /\ s'.current_key = {text}
      /\ s'.in_sequence = s.in_sequence
      /\ s'.root = s.root
  BY <1>1, <1>3, KeyFields DEF Names
<1>5. /\ open' \in Seq(FrameSet) /\ Len(open') = n
      /\ \A i \in 1..(n - 1) : open'[i] = open[i]
      /\ open'[n].next = "value"
  <2> DEFINE f == [Innermost EXCEPT !.next = "value"]
  <2>1. f \in FrameSet /\ f.next = "value"
    BY <1>2 DEF FrameSet
  <2>2. open' = [open EXCEPT ![n] = f]
    BY DEF Names, Innermost
  <2> HIDE DEF f
  <2>3. n \in 1..Len(open)
    BY <1>2
  <2>4. /\ open' \in Seq(FrameSet) /\ Len(open') = n /\ open'[n] = f
        /\ \A i \in 1..(n - 1) : open'[i] = open[i]
    BY <1>1, <1>2, <2>1, <2>2, <2>3
  <2> QED
    BY <2>1, <2>4
<1>6. \A i \in 1..n : TypeOf(open'[i]) = TypeOf(open[i])
  <2>1. \A i \in 1..n : i = n \/ i \in 1..(n - 1)
    BY <1>2
  <2>2. TypeOf(open'[n]) = TypeOf(open[n])
    BY <1>1, <1>5 DEF TypeOf, Innermost
  <2> QED
    BY <1>5, <2>1, <2>2
<1>7. Levels' /\ Outer' /\ Hung'
  BY <1>4, <1>5, <1>6 DEF YamlInv, Levels, Outer, Hung
<1>8. Flags'
  <2>1. Innermost' = open'[n] /\ open' # <<>>
    BY <1>2, <1>5 DEF Innermost
  <2> QED
    BY <1>3, <1>4, <1>5, <2>1 DEF Flags, In
<1>9. TypeOK'
  BY <1>1, <1>4, <1>5 DEF TypeOK, Fields, FrameSet
<1>10. StackOK(s'.stack) /\ RootKeyed' /\ Pending'
  BY <1>1, <1>4 DEF YamlInv, RootKeyed, Pending
<1> QED
  BY <1>3, <1>4, <1>7, <1>8, <1>9, <1>10 DEF YamlInv

-------------------------------------------------------------------------------
(***************************************************************************)
(* Every step keeps the invariant and is a step of the reference.          *)
(***************************************************************************)
LEMMA YamlStep ==
    YamlInv /\ [Next]_vars => YamlInv' /\ [Reference!Next]_(Reference!vars)
<1> SUFFICES ASSUME YamlInv, [Next]_vars
             PROVE  YamlInv' /\ [Reference!Next]_(Reference!vars)
  OBVIOUS
<1> USE DEF Reference!Next, Reference!vars
<1>1. ASSUME NEW event, Delivered(event)
      PROVE  /\ s' = Step(s, event) /\ ~done /\ UNCHANGED <<done, result>>
             /\ read' \in 0..MaxEvents
  BY <1>1, YamlAssumption DEF Delivered, YamlInv, TypeOK
<1>2. open # <<>> => /\ s.stack # <<>>
                     /\ s.stack[Len(s.stack)].type = TypeOf(Innermost)
  BY InnermostLevel
<1>3. open = <<>> => s.stack = <<>>
  <2>1. IsSeq(s.stack) /\ Len(s.stack) = Len(open)
    BY DEF YamlInv, TypeOK
  <2> QED
    BY <2>1, SeqParts
<1>4. ASSUME NEW type \in {"mapping", "sequence"}, ~In("key"),
             NEW next, next = IF type = "mapping" THEN "key" ELSE "item",
             Begins(type, next), ~done, UNCHANGED <<done, result>>,
             read' \in 0..MaxEvents
      PROVE  YamlInv' /\ Reference!Open(type)
  <2>1. YamlInv'
    BY <1>4, StartKeeps
  <2>2. /\ s'.stack = Append(s.stack, Node(type, s.current_key, {}, <<>>))
        /\ s'.current_key = {} /\ s'.root = s.root
    BY <1>4, StartFields DEF YamlInv, Begins
  <2>3. \/ s.stack = <<>> \/ s.stack[Len(s.stack)].type = "sequence"
        \/ s.current_key # {}
    <3>1. CASE open = <<>>
      BY <1>3, <3>1
    <3>2. CASE open # <<>>
      <4>1. Innermost \in FrameSet
        BY <3>2, InnermostLevel
      <4>2. Innermost.next \in {"value", "item"}
        BY <1>4, <3>2, <4>1 DEF FrameSet, In
      <4>3. Innermost.next = "value" => s.current_key # {}
        BY <3>2 DEF YamlInv, Flags, In
      <4> QED
        BY <1>2, <3>2, <4>2, <4>3 DEF TypeOf
    <3> QED
      BY <3>1, <3>2
  <2> QED
    BY <1>4, <2>1, <2>2, <2>3 DEF Reference!Open, Reference!Top, Reference!Made, Node
<1>5. CASE MappingStarts
  <2>1. Begins("mapping", "key")
    BY <1>5, <1>1, Steps DEF MappingStarts, Begins
  <2>2. YamlInv' /\ Reference!Open("mapping")
    BY <1>1, <1>4, <1>5, <2>1 DEF MappingStarts
  <2> QED
    BY <2>2
<1>6. CASE SequenceStarts
  <2>1. Begins("sequence", "item")
    BY <1>6, <1>1, Steps DEF SequenceStarts, Begins
  <2>2. YamlInv' /\ Reference!Open("sequence")
    BY <1>1, <1>4, <1>6, <2>1 DEF SequenceStarts
  <2> QED
    BY <2>2
<1>7. ASSUME open # <<>>, ~In("value"), Closes, ~done, UNCHANGED <<done, result>>,
             read' \in 0..MaxEvents
      PROVE  YamlInv' /\ Reference!Close
  <2>1. YamlInv'
    BY <1>7, EndKeeps
  <2>2. s.stack # <<>> /\ s.current_key = {}
    BY <1>2, <1>7 DEF YamlInv, Flags
  <2>3. /\ IsSeq(s.stack) /\ IsSeq(Front(s.stack))
        /\ Front(s.stack) = SubSeq(s.stack, 1, Len(s.stack) - 1)
        /\ Last(s.stack) = s.stack[Len(s.stack)]
        /\ Len(Front(s.stack)) = Len(s.stack) - 1
    BY <2>2, SeqFront DEF YamlInv, TypeOK
  <2>4. Front(s.stack) = <<>> <=> Len(s.stack) = 1
    <3>1. Len(s.stack) \in Nat
      BY <2>3, SeqParts
    <3>2. Front(s.stack) # <<>> <=> Len(Front(s.stack)) > 0
      BY <2>3, SeqParts
    <3>3. Len(Front(s.stack)) = Len(s.stack) - 1 /\ Len(s.stack) > 0
      BY <2>2, <2>3, SeqParts
    <3>4. Len(Front(s.stack)) > 0 <=> Len(s.stack) # 1
      <4> DEFINE n == Len(s.stack)
                 m == Len(Front(s.stack))
      <4>1. n \in Nat /\ m = n - 1 /\ n > 0
        BY <3>1, <3>3
      <4> HIDE DEF n, m
      <4>2. m > 0 <=> n # 1
        BY <4>1
      <4> QED
        BY <4>2 DEF n, m
    <3> QED
      BY <3>2, <3>4, Zenon
  <2>5. s'.stack = Reference!Hang(SubSeq(s.stack, 1, Len(s.stack) - 1), Reference!Top)
    BY <1>7, <2>3 DEF Closes, AddChild, Reference!Hang, Reference!Top
  <2>6. s'.root = IF Len(s.stack) = 1 /\ s.root = {} THEN {Reference!Top} ELSE s.root
    BY <1>7, <2>3, <2>4 DEF Closes, Reference!Top
  <2>7. s'.current_key = s.current_key
    BY <1>7 DEF Closes
  <2> QED
    BY <1>7, <2>1, <2>2, <2>5, <2>6, <2>7 DEF Reference!Close
<1>8. CASE MappingEnds
  <2>1. open # <<>> /\ ~In("value") /\ ~In("item")
    BY <1>8 DEF MappingEnds, In
  <2>2. s.in_sequence = FALSE /\ TypeOK
    BY <2>1 DEF YamlInv, Flags, TypeOK
  <2>3. s' = End(s)
    BY <1>1, <1>8, Steps DEF MappingEnds
  <2>4. Closes
    BY <1>8, <2>2, <2>3, EndFields DEF MappingEnds, Closes
  <2>5. YamlInv' /\ Reference!Close
    BY <1>1, <1>7, <1>8, <2>1, <2>4 DEF MappingEnds
  <2> QED
    BY <2>5
<1>9. CASE SequenceEnds
  <2>1. open # <<>> /\ ~In("value")
    BY <1>9 DEF SequenceEnds, In
  <2>2. s' = SequenceEnd(s)
    BY <1>1, <1>9, Steps DEF SequenceEnds
  <2>3. Closes
    BY <1>9, <2>2, SequenceEndFields DEF SequenceEnds, Closes, YamlInv
  <2>4. YamlInv' /\ Reference!Close
    BY <1>1, <1>7, <1>9, <2>1, <2>3 DEF SequenceEnds
  <2> QED
    BY <2>4
<1>10. ASSUME NEW text \in Texts, KeyRead(text)
       PROVE  YamlInv' /\ Reference!SetKey(text)
  <2>1. /\ In("key") /\ Names(text) /\ ~done /\ UNCHANGED <<done, result>>
        /\ read' \in 0..MaxEvents
    BY <1>1, <1>10, Steps DEF KeyRead, Names
  <2>2. /\ YamlInv'
        /\ s'.stack = s.stack /\ s'.current_key = {text} /\ s'.root = s.root
        /\ s.current_key = {}
    BY <2>1, KeyKeeps
  <2>3. s.stack # <<>> /\ s.stack[Len(s.stack)].type = "mapping"
    BY <1>2, <2>1 DEF In, TypeOf
  <2> QED
    BY <2>1, <2>2, <2>3 DEF Reference!SetKey, Reference!Top
<1>11. ASSUME NEW text \in Texts, ScalarRead(text)
       PROVE  YamlInv' /\ Reference!Leaf(text)
  <2>1. /\ In("value") \/ (In("item") /\ ~Innermost.nested)
        /\ Reads(text) /\ ~done /\ UNCHANGED <<done, result>>
        /\ read' \in 0..MaxEvents
    BY <1>1, <1>11, Steps DEF ScalarRead, Reads
  <2>2. /\ YamlInv'
        /\ s'.stack = AddChild(s.stack, Node("scalar", s.current_key, {text}, <<>>))
        /\ s'.current_key = {} /\ s'.root = s.root
    BY <2>1, ScalarKeeps
  <2>3. s.stack # <<>> /\ s.stack[Len(s.stack)].type = TypeOf(Innermost)
    BY <1>2, <2>1 DEF In
  <2>4. \/ s.stack[Len(s.stack)].type = "sequence" /\ s.current_key = {}
        \/ s.stack[Len(s.stack)].type = "mapping" /\ s.current_key # {}
    BY <2>1, <2>3 DEF In, TypeOf, YamlInv, Flags
  <2>5. s'.stack = Reference!Hang(s.stack, Reference!Made("scalar", {text}))
    BY <2>2 DEF AddChild, Node, Reference!Hang, Reference!Made
  <2> QED
    BY <2>1, <2>2, <2>3, <2>4, <2>5 DEF Reference!Leaf, Reference!Top
<1>12. CASE StreamEnds
  <2>1. Reference!Finish
    BY <1>3, <1>12 DEF StreamEnds, Return, Reference!Finish
  <2>2. YamlInv'
    BY <1>12 DEF StreamEnds, Return, YamlInv, TypeOK, Levels, Outer, Hung, Flags, In,
       Innermost, RootKeyed, Pending
  <2> QED
    BY <2>1, <2>2
<1>13. CASE ParseFails
  <2>1. Reference!Fail
    BY <1>13 DEF ParseFails, Return, Reference!Fail, YamlInv, Pending
  <2>2. YamlInv'
    BY <1>13 DEF ParseFails, Return, YamlInv, TypeOK, Levels, Outer, Hung, Flags, In,
       Innermost, RootKeyed, Pending
  <2> QED
    BY <2>1, <2>2
<1>14. CASE UNCHANGED vars
  <2>1. UNCHANGED Reference!vars
    BY <1>14 DEF vars
  <2>2. YamlInv'
    BY <1>14 DEF vars, YamlInv, TypeOK, Levels, Outer, Hung, Flags, In,
       Innermost, RootKeyed, Pending
  <2> QED
    BY <2>1, <2>2
<1> QED
  BY <1>5, <1>6, <1>8, <1>9, <1>10, <1>11, <1>12, <1>13, <1>14 DEF Next

LEMMA YamlInitial == Init => YamlInv /\ Reference!Init
<1> SUFFICES ASSUME Init PROVE YamlInv /\ Reference!Init
  OBVIOUS
<1>1. /\ open = <<>> /\ s.stack = <<>> /\ s.current_key = {}
      /\ s.in_sequence = FALSE /\ s.root = {} /\ DOMAIN s = Fields
      /\ done = FALSE /\ result = {} /\ read = 0
  BY DEF Init, StackCreate, Fields
<1>2. IsSeq(<<>>) /\ Range(<<>>) = {} /\ Len(<<>>) = 0
  BY DEF IsSeq, Range
<1>3. TypeOK
  <2>1. open \in Seq(FrameSet) /\ read \in 0..MaxEvents
    BY <1>1, YamlAssumption
  <2>2. IsSeq(s.stack) /\ Range(s.stack) = {} /\ Len(s.stack) = Len(open)
    BY <1>1, <1>2
  <2> QED
    BY <1>1, <2>1, <2>2 DEF TypeOK, Fields, FrameSet
<1>4. StackOK(s.stack) /\ Levels /\ Outer /\ Hung
  BY <1>1, <1>2 DEF StackOK, Levels, Outer, Hung
<1>5. Flags /\ RootKeyed /\ Pending
  BY <1>1 DEF Flags, In, RootKeyed, Pending
<1>6. Reference!Init
  BY <1>1 DEF Reference!Init
<1> QED
  BY <1>3, <1>4, <1>5, <1>6 DEF YamlInv

(* The stack of linx_yaml_load follows libyaml's nesting at any depth, and the
   flags that all levels share are right for the innermost one. *)

THEOREM YamlInvariant == Spec => []YamlInv
  BY YamlInitial, YamlStep, PTL DEF Spec

(* Every open container of libyaml has its node on the stack. *)

THEOREM YamlTypes == Spec => []TypeOK
<1>1. YamlInv => TypeOK
  BY DEF YamlInv
<1> QED
  BY <1>1, YamlInvariant, PTL

(* What stands in a mapping has a key and what stands in a sequence has none,
   although there is one current_key for all levels. *)

THEOREM ChildrenKeyed == Spec => []WellKeyed
<1>1. YamlInv => WellKeyed
  BY DEF YamlInv, StackOK, RootKeyed, Keyed, WellKeyed
<1> QED
  BY <1>1, YamlInvariant, PTL

(* linx_yaml_load builds the tree that the stream describes, for regular
   streams of any number of documents, any length and any depth: it implements
   the builder that goes by the containers and has no flags. *)

THEOREM YamlImplementsReference == Spec => ImplementsReference
  BY YamlInitial, YamlStep, YamlInvariant, PTL
     DEF Spec, ImplementsReference, Reference!Spec
==============================================================================
