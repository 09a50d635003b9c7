-------------------------------- MODULE YamlTree ------------------------------
(***************************************************************************)
(* src/userspace/linx_yaml: the tree linx_yaml_load builds from libyaml's  *)
(* events and the path lookups on it.  An absent key, node or text is the  *)
(* empty set, a present one a singleton.                                   *)
(*                                                                         *)
(* The code hangs a node on its parent when it starts and keeps a pointer  *)
(* to it on the stack; here a node is hung on its parent when it ends,     *)
(* which gives the same tree since nothing else is added in between.       *)
(***************************************************************************)
EXTENDS Integers, Sequences, SequencesExt

Node(type, key, value, children) ==
    [type |-> type, key |-> key, value |-> value, children |-> children]

\* in_sequence is uninitialised until a container starts; no document here
\* is a lone scalar.
StackCreate ==
    [stack |-> <<>>, current_key |-> {}, in_sequence |-> FALSE, root |-> {}]

AddChild(stack, node) ==
    IF stack = <<>> THEN stack
    ELSE [stack EXCEPT ![Len(stack)].children = Append(@, node)]

-------------------------------------------------------------------------------
(***************************************************************************)
(* One step of linx_yaml_load per kind of event.                           *)
(***************************************************************************)
Start(s, type) ==
    [s EXCEPT !.stack = Append(@, Node(type, s.current_key, {}, <<>>)),
              !.current_key = {},
              !.in_sequence = (type = "sequence")]

End(s) ==
    LET node == Last(s.stack)
        rest == Front(s.stack)
    IN [s EXCEPT !.stack = AddChild(rest, node),
                 !.root = IF rest = <<>> /\ @ = {} THEN {node} ELSE @]

BadMappingEnd(s) == [End(s) EXCEPT !.in_sequence = TRUE]

\* The sequence around a mapping is forgotten.
MappingEnd(s) == End(s)

SequenceEnd(s) == [End(s) EXCEPT !.in_sequence = FALSE]

Scalar(s, value) ==
    IF s.in_sequence
    THEN [s EXCEPT !.stack = AddChild(@, Node("scalar", {}, {value}, <<>>))]
    ELSE IF s.current_key # {}
    THEN [s EXCEPT !.stack = AddChild(@, Node("scalar", s.current_key, {value}, <<>>)),
                   !.current_key = {}]
    ELSE [s EXCEPT !.current_key = {value}]

Step(s, event) ==
    CASE event.type = "MAPPING_START" -> Start(s, "mapping")
      [] event.type = "SEQUENCE_START" -> Start(s, "sequence")
      [] event.type = "SCALAR" -> Scalar(s, event.value)
      [] event.type = "MAPPING_END" -> MappingEnd(s)
      [] event.type = "SEQUENCE_END" -> SequenceEnd(s)

YamlLoad(events) == FoldLeft(Step, StackCreate, events).root

-------------------------------------------------------------------------------
(***************************************************************************)
(* linx_yaml_get_node_by_path and linx_yaml_get_string.  A token that is   *)
(* no index finds nothing in a sequence: the loop over its mappings looks  *)
(* the key up in the sequence itself.                                      *)
(***************************************************************************)
IndexOf == ("0" :> 0) @@ ("1" :> 1)

FindByKey(node, key) ==
    LET i == SelectInSeq(node.children, LAMBDA c : c.key = {key})
    IN IF i = 0 THEN {} ELSE {node.children[i]}

SequenceByIndex(node, index) ==
    IF index >= Len(node.children) THEN {} ELSE {node.children[index + 1]}

Descend(nodes, token) ==
    UNION {CASE n.type = "mapping" -> FindByKey(n, token)
             [] n.type = "sequence" /\ token \in DOMAIN IndexOf ->
                    SequenceByIndex(n, IndexOf[token])
             [] OTHER -> {} : n \in nodes}

GetNodeByPath(root, path) == FoldLeft(Descend, root, path)

GetString(root, path) ==
    UNION {n.value : n \in GetNodeByPath(root, path)}
===============================================================================
