---------------------------- MODULE YamlReference ----------------------------
(***************************************************************************)
(* What linx_yaml_load promises: the tree of the first document of a       *)
(* stream.  A node goes where the innermost open container says, and what  *)
(* a text is, a key, a value or an item, is read off the type of that      *)
(* container.  The caller gets the whole tree or nothing.                  *)
(***************************************************************************)
EXTENDS Integers, Sequences

CONSTANTS Texts

VARIABLES
    frames,         \* the open containers, outermost first
    key,            \* the key whose value is still to come, as a set
    root,           \* the first document, as a set
    done,
    result          \* what the caller gets

vars == <<frames, key, root, done, result>>

Top == frames[Len(frames)]

Hang(f, node) ==
    IF f = <<>> THEN f
    ELSE [f EXCEPT ![Len(f)].children = Append(@, node)]

Made(type, value) ==
    [type |-> type, key |-> key, value |-> value, children |-> <<>>]

Init == frames = <<>> /\ key = {} /\ root = {} /\ done = FALSE /\ result = {}

-------------------------------------------------------------------------------
Open(type) ==
    /\ ~done
    /\ frames = <<>> \/ Top.type = "sequence" \/ key # {}
    /\ frames' = Append(frames, Made(type, {}))
    /\ key' = {}
    /\ UNCHANGED <<root, done, result>>

SetKey(text) ==
    /\ ~done
    /\ frames # <<>> /\ Top.type = "mapping" /\ key = {}
    /\ key' = {text}
    /\ UNCHANGED <<frames, root, done, result>>

Leaf(text) ==
    /\ ~done
    /\ frames # <<>>
    /\ \/ Top.type = "sequence" /\ key = {}
       \/ Top.type = "mapping" /\ key # {}
    /\ frames' = Hang(frames, Made("scalar", {text}))
    /\ key' = {}
    /\ UNCHANGED <<root, done, result>>

Close ==
    /\ ~done
    /\ frames # <<>> /\ key = {}
    /\ frames' = Hang(SubSeq(frames, 1, Len(frames) - 1), Top)
    /\ root' = IF Len(frames) = 1 /\ root = {} THEN {Top} ELSE root
    /\ UNCHANGED <<key, done, result>>

Finish ==
    /\ ~done
    /\ frames = <<>>
    /\ done' = TRUE
    /\ result' = root
    /\ UNCHANGED <<frames, key, root>>

Fail ==
    /\ ~done
    /\ done' = TRUE
    /\ UNCHANGED <<frames, key, root, result>>

Next ==
    \/ \E type \in {"mapping", "sequence"} : Open(type)
    \/ \E text \in Texts : SetKey(text) \/ Leaf(text)
    \/ Close \/ Finish \/ Fail

Spec == Init /\ [][Next]_vars
==============================================================================
