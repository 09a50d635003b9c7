------------------------------ MODULE YamlBuild ------------------------------
(***************************************************************************)
(* linx_yaml_load while libyaml reads the file: one step per event, by the *)
(* operators of YamlTree.  libyaml is external; it is modelled by what it  *)
(* guarantees, that its events nest, and keeps for itself what is open.    *)
(*                                                                         *)
(* Streams are regular: keys are scalars, a document is a container, there *)
(* are no aliases, and in no sequence does a scalar follow a container.    *)
(***************************************************************************)
EXTENDS YamlTree

CONSTANTS
    Texts,          \* contents of scalars
    MaxEvents       \* bound on the events of a stream

ASSUME YamlAssumption == MaxEvents \in Nat

VARIABLES
    open,           \* libyaml's open containers: what comes next in each, and
                    \* whether a container stood in it
    read,           \* events delivered
    s,              \* linx_yaml_load's stack and root
    done,
    result          \* what linx_yaml_load returned, as a set

vars == <<open, read, s, done, result>>

Init ==
    /\ open = <<>> /\ read = 0
    /\ s = StackCreate
    /\ done = FALSE /\ result = {}

-------------------------------------------------------------------------------
Innermost == open[Len(open)]

In(next) == open # <<>> /\ Innermost.next = next

Frame(next, nested) == [next |-> next, nested |-> nested]

\* The innermost container after a node in it.
Filled(nested) ==
    IF open = <<>> THEN open
    ELSE [open EXCEPT ![Len(open)] =
             Frame(IF @.next = "value" THEN "key" ELSE @.next, @.nested \/ nested)]

Delivered(event) ==
    /\ ~done
    /\ read < MaxEvents
    /\ read' = read + 1
    /\ s' = Step(s, event)
    /\ UNCHANGED <<done, result>>

MappingStarts ==
    /\ ~In("key")
    /\ open' = Append(Filled(TRUE), Frame("key", FALSE))
    /\ Delivered([type |-> "MAPPING_START"])

SequenceStarts ==
    /\ ~In("key")
    /\ open' = Append(Filled(TRUE), Frame("item", FALSE))
    /\ Delivered([type |-> "SEQUENCE_START"])

KeyRead(text) ==
    /\ In("key")
    /\ open' = [open EXCEPT ![Len(open)].next = "value"]
    /\ Delivered([type |-> "SCALAR", value |-> text])

ScalarRead(text) ==
    /\ In("value") \/ (In("item") /\ ~Innermost.nested)
    /\ open' = Filled(FALSE)
    /\ Delivered([type |-> "SCALAR", value |-> text])

MappingEnds ==
    /\ In("key")
    /\ open' = Front(open)
    /\ Delivered([type |-> "MAPPING_END"])

SequenceEnds ==
    /\ In("item")
    /\ open' = Front(open)
    /\ Delivered([type |-> "SEQUENCE_END"])

\* After an error the tree built so far is freed.
Return(error) ==
    /\ ~done
    /\ done' = TRUE
    /\ result' = IF error THEN {} ELSE s.root
    /\ UNCHANGED <<open, read, s>>

StreamEnds == open = <<>> /\ Return(FALSE)

ParseFails == Return(TRUE)

Next ==
    \/ MappingStarts \/ SequenceStarts \/ MappingEnds \/ SequenceEnds
    \/ \E text \in Texts : KeyRead(text) \/ ScalarRead(text)
    \/ StreamEnds \/ ParseFails

Spec == Init /\ [][Next]_vars

-------------------------------------------------------------------------------
(***************************************************************************)
(* Type invariant: every open container of libyaml has its node on the     *)
(* stack.                                                                  *)
(***************************************************************************)
IsSeq(q) == q \in Seq(Range(q))

TypeOK ==
    /\ open \in Seq([next : {"key", "value", "item"}, nested : BOOLEAN])
    /\ read \in 0..MaxEvents
    /\ DOMAIN s = {"stack", "current_key", "in_sequence", "root"}
    /\ IsSeq(s.stack) /\ Len(s.stack) = Len(open)
    /\ \A n \in Range(s.stack) :
          /\ DOMAIN n = {"type", "key", "value", "children"}
          /\ n.type \in {"mapping", "sequence"}
          /\ IsSeq(n.children)
    /\ s.current_key \in {{}} \cup {{text} : text \in Texts}
    /\ s.in_sequence \in BOOLEAN
    /\ done \in BOOLEAN

(***************************************************************************)
(* In the tree, open as it is, what stands in a mapping has a key and what *)
(* stands in a sequence has none, although current_key is one field for    *)
(* all levels: linx_yaml_node_find_by_key finds every value of a mapping   *)
(* under some key, and only values of that mapping.                        *)
(***************************************************************************)
WellKeyed ==
    \A n \in Range(s.stack) \cup s.root : \A c \in Range(n.children) :
        c.key = {} <=> n.type = "sequence"

(***************************************************************************)
(* linx_yaml_load builds what the stream says: current_key and in_sequence *)
(* are one pair of fields for all levels of the nesting, and yet each text *)
(* becomes a key, a value or an item as its container has it, at any       *)
(* depth, and what is returned is the first document, whole, or nothing.   *)
(***************************************************************************)
Reference == INSTANCE YamlReference WITH
    frames <- s.stack, key <- s.current_key, root <- s.root

ImplementsReference == Reference!Spec
==============================================================================
