----------------------------- MODULE DetectProofs -----------------------------
(***************************************************************************)
(* The loading of the rules and the order of the alerts, for any rules,    *)
(* directories, event types and ring size.                                 *)
(***************************************************************************)
EXTENDS Detect, TLAPS

(***************************************************************************)
(* The numbers of the events grow from evt over the slot and the ring to   *)
(* the events to come; an alert is of evt or of an event before it.        *)
(***************************************************************************)
RingOrdered ==
    /\ \A i \in DOMAIN ring :
          ring[i].num <= produced /\ (slot # NULL => slot.num < ring[i].num)
    /\ \A i, j \in DOMAIN ring : i < j => ring[i].num < ring[j].num

SlotNewer ==
    /\ slot # NULL => slot.num <= produced
    /\ evt # NULL => slot # NULL /\ evt.num <= slot.num
    /\ got \/ phase = "rich" => slot # NULL
    /\ (phase = "reading" /\ got) \/ phase = "rich" =>
          (evt # NULL => evt.num < slot.num)
    /\ phase = "match" => evt # NULL

AlertsOlder ==
    /\ \A i \in DOMAIN alerts :
          /\ evt # NULL
          /\ alerts[i].event.num <= evt.num
          /\ phase = "match" => alerts[i].event.num < evt.num
    /\ \A i, j \in DOMAIN alerts :
          i < j => alerts[i].event.num < alerts[j].event.num

(***************************************************************************)
(* An alert names the first rule that accepts its event; there is none     *)
(* while the rules are being loaded.                                       *)
(***************************************************************************)
AlertsRaised ==
    /\ phase = "load" => alerts = <<>>
    /\ \A i \in DOMAIN alerts :
          /\ alerts[i].index \in DOMAIN rule_set
          /\ \A k \in 1..alerts[i].index :
                alerts[i].event.type \in Hits[rule_set[k].match]
                    <=> k = alerts[i].index

(***************************************************************************)
(* The loader: what is done of the open file is in the set.                *)
(***************************************************************************)
Kept(r) ==
    \E i \in DOMAIN rule_set : rule_set[i] = [rule |-> r, match |-> r]

FilesKept ==
    \A f \in 1..(at - 1) : f < at - 1 \/ todo = NULL =>
        \A k \in DOMAIN dir[f] : Tree[dir[f][k]] = "matcher" => Kept(dir[f][k])

OpenFileKept ==
    todo # NULL =>
        /\ at > 1 /\ dir[at - 1] \in Seq(Rules)
        /\ Len(todo) <= Len(dir[at - 1])
        /\ \A j \in 1..Len(todo) :
              todo[j] = dir[at - 1][Len(dir[at - 1]) - Len(todo) + j]
        /\ \A k \in 1..(Len(dir[at - 1]) - Len(todo)) :
              Tree[dir[at - 1][k]] = "matcher" => Kept(dir[at - 1][k])

MatchesOwned == \A i \in DOMAIN rule_set : OwnMatcher(rule_set[i])

LoadInv == FilesKept /\ OpenFileKept /\ MatchesOwned

OrderInv == RingOrdered /\ SlotNewer /\ AlertsOlder /\ AlertsRaised

DetectInv == TypeOK /\ LoadInv /\ OrderInv

LEMMA Dirs == ASSUME TypeOK PROVE dir \in Seq(Seq(Rules) \cup {NULL})
  BY DetectAssumption DEF TypeOK

(***************************************************************************)
(* Sequences: what Append and Tail leave where.                            *)
(***************************************************************************)
LEMMA Appended ==
    ASSUME NEW S, NEW s \in Seq(S), NEW e \in S
    PROVE  /\ Append(s, e) \in Seq(S)
           /\ DOMAIN Append(s, e) = 1..(Len(s) + 1)
           /\ DOMAIN s = 1..Len(s) /\ Len(s) \in Nat
           /\ Len(Append(s, e)) = Len(s) + 1
           /\ Append(s, e)[Len(s) + 1] = e
           /\ \A i \in 1..Len(s) : Append(s, e)[i] = s[i]
  OBVIOUS

LEMMA Elements ==
    ASSUME NEW S, NEW s \in Seq(S)
    PROVE  /\ DOMAIN s = 1..Len(s) /\ Len(s) \in Nat
           /\ \A i \in DOMAIN s : s[i] \in S /\ i \in Nat
  OBVIOUS

LEMMA Tailed ==
    ASSUME NEW S, NEW s \in Seq(S), s # <<>>
    PROVE  /\ Tail(s) \in Seq(S) /\ Head(s) \in S
           /\ Len(s) \in Nat \ {0}
           /\ DOMAIN s = 1..Len(s) /\ DOMAIN Tail(s) = 1..(Len(s) - 1)
           /\ Len(Tail(s)) = Len(s) - 1
           /\ Head(s) = s[1]
           /\ \A i \in 1..(Len(s) - 1) : Tail(s)[i] = s[i + 1]
  OBVIOUS

(***************************************************************************)
(* One rule of the open file: its matcher, if it gets one, and the set.    *)
(***************************************************************************)
Rec == [rule : Rules, match : Rules]

LEMMA RuleAdded ==
    ASSUME TypeOK, AddRule
    PROVE  LET r == Head(todo)
               m == Compiled(r)
           IN  /\ todo \in Seq(Rules) /\ todo # <<>> /\ r \in Rules
               /\ m \in Rules \cup {NULL} /\ match' = m
               /\ Tree[r] = "matcher" => m = r
               /\ m # NULL => Tree[r] # "null"
               /\ m = NULL => rule_set' = rule_set
               /\ m # NULL =>
                     /\ [rule |-> r, match |-> m] \in Rec
                     /\ rule_set' = Append(rule_set, [rule |-> r, match |-> m])
<1>1. todo \in Seq(Rules) /\ todo # <<>>
  BY DEF TypeOK, AddRule
<1>2. Head(todo) \in Rules
  BY <1>1, Tailed
<1>3. /\ Compiled(Head(todo)) \in Rules \cup {NULL}
      /\ Tree[Head(todo)] = "matcher" => Compiled(Head(todo)) = Head(todo)
      /\ Compiled(Head(todo)) # NULL => Tree[Head(todo)] # "null"
  BY <1>2, DetectAssumption DEF TypeOK, Compiled
<1> QED
  BY <1>1, <1>2, <1>3 DEF AddRule, Added, Rec

(***************************************************************************)
(* What linx_rule_set_match_rule raises: the first rule that accepts evt.  *)
(***************************************************************************)
Alert == [rule : Rules, index : Nat, event : Event]

LEMMA AlertNumbers ==
    ASSUME alerts \in Seq(Alert)
    PROVE  \A i \in DOMAIN alerts : alerts[i].event.num \in Nat
<1>1. \A i \in DOMAIN alerts : alerts[i] \in Alert
  BY Elements
<1>2. \A i \in DOMAIN alerts : alerts[i].event \in Event
  BY <1>1 DEF Alert
<1> QED
  BY <1>2 DEF Event

LEMMA AlertAdded ==
    ASSUME DetectInv, MatchRule
    PROVE  \E e \in Alert :
              /\ alerts' = Append(alerts, e)
              /\ e.event = evt
              /\ e.index \in DOMAIN rule_set
              /\ \A k \in 1..e.index :
                    e.event.type \in Hits[rule_set[k].match] <=> k = e.index
<1>1. evt \in Event /\ rule_set \in Seq(Rec)
  BY DEF MatchRule, DetectInv, TypeOK, OrderInv, SlotNewer, Rec
<1>2. PICK n \in Accepting :
         /\ \A j \in Accepting : n <= j
         /\ alerts' = Append(alerts, [rule |-> rule_set[n].rule, index |-> n,
                                      event |-> evt])
  BY DEF MatchRule
<1>3. /\ n \in DOMAIN rule_set /\ DOMAIN rule_set = 1..Len(rule_set)
      /\ Len(rule_set) \in Nat /\ n \in Nat
      /\ evt.type \in Hits[rule_set[n].match]
  BY <1>1 DEF Accepting
<1>4. rule_set[n].rule \in Rules
  <2>1. rule_set[n] \in Rec
    BY <1>1, <1>3, Elements
  <2> QED
    BY <2>1 DEF Rec
<1>5. ASSUME NEW k \in 1..n
      PROVE  evt.type \in Hits[rule_set[k].match] <=> k = n
  <2>1. k \in DOMAIN rule_set
    BY <1>3
  <2>2. CASE k = n
    BY <1>3, <2>2
  <2>3. CASE k # n
    <3>1. ~(n <= k)
      BY <1>3, <2>3
    <3>2. k \notin Accepting
      BY <1>2, <3>1
    <3> QED
      BY <2>1, <2>3, <3>2 DEF Accepting
  <2> QED
    BY <2>2, <2>3
<1> DEFINE e == [rule |-> rule_set[n].rule, index |-> n, event |-> evt]
<1>6. e \in Alert /\ e.event = evt /\ e.index = n
  BY <1>1, <1>3, <1>4 DEF Alert
<1>7. alerts' = Append(alerts, e)
  BY <1>2
<1> HIDE DEF e
<1> QED
  BY <1>3, <1>5, <1>6, <1>7

(***************************************************************************)
(* Every field keeps its type.                                             *)
(***************************************************************************)
LEMMA TypeStep == DetectInv /\ [Next]_vars => TypeOK'
<1> SUFFICES ASSUME DetectInv, [Next]_vars PROVE TypeOK'
  OBVIOUS
<1>1. CASE OpenFile
  BY <1>1, DetectAssumption DEF OpenFile, loadVars, pollVars, richVars,
     DetectInv, TypeOK
<1>2. CASE OpenFails
  BY <1>2, DetectAssumption DEF OpenFails, loadVars, pollVars, richVars,
     DetectInv, TypeOK
<1>3. CASE AddRule
  <2>0. TypeOK /\ rule_set \in Seq(Rec)
    BY DEF DetectInv, TypeOK, Rec
  <2>1. todo' \in Seq(Rules)
    BY <1>3, <2>0, RuleAdded, Tailed DEF AddRule
  <2>2. rule_set' \in Seq(Rec)
    <3>1. CASE Compiled(Head(todo)) = NULL
      BY <1>3, <2>0, <3>1, RuleAdded
    <3>2. CASE Compiled(Head(todo)) # NULL
      BY <1>3, <2>0, <3>2, RuleAdded, Appended
    <3> QED
      BY <3>1, <3>2
  <2>3. match' \in Rules \cup {NULL}
    BY <1>3, <2>0, RuleAdded
  <2> QED
    BY <1>3, <2>0, <2>1, <2>2, <2>3 DEF TypeOK, AddRule, Rec, pollVars,
    richVars
<1>4. CASE FileDone
  BY <1>4, DetectAssumption DEF FileDone, loadVars, pollVars, richVars,
     DetectInv, TypeOK
<1>5. CASE LoadDone
  BY <1>5, DetectAssumption DEF LoadDone, loadVars, pollVars, richVars,
     DetectInv, TypeOK
<1>6. CASE PollBegin
  BY <1>6, DetectAssumption DEF PollBegin, loadVars, pollVars, richVars,
     DetectInv, TypeOK
<1>7. CASE HandleEvent
  BY <1>7, DetectAssumption DEF HandleEvent, loadVars, pollVars, richVars,
     DetectInv, TypeOK
<1>8. CASE HandleTooBig
  BY <1>8, DetectAssumption DEF HandleTooBig, loadVars, pollVars, richVars,
     DetectInv, TypeOK
<1>9. CASE PollEnds
  BY <1>9, DetectAssumption DEF PollEnds, Polled, loadVars, pollVars, richVars,
     DetectInv, TypeOK
<1>10. CASE Rich
  <2>1. slot \in Event
    BY <1>10 DEF Rich, DetectInv, TypeOK, OrderInv, SlotNewer
  <2>2. Params[slot.type] \in Seq({"heap", "slot"})
    BY <2>1, DetectAssumption DEF Event
  <2>3. \A i \in DOMAIN Params[slot.type] :
           Params[slot.type][i] \in {"heap", "slot"}
    BY <2>2
  <2>4. data' \in [1..MaxParams -> {"null", "heap", "slot"}]
    BY <1>10, <2>3 DEF Rich, DetectInv, TypeOK
  <2> QED
    BY <1>10, <2>1, <2>4 DEF Rich, DetectInv, TypeOK, loadVars, pollVars
<1>11. CASE RichUndefined
  BY <1>11, DetectAssumption DEF RichUndefined, loadVars, pollVars, richVars,
     DetectInv, TypeOK
<1>12. CASE MatchRule
  <2>1. PICK e \in Alert : alerts' = Append(alerts, e)
    BY <1>12, AlertAdded
  <2>2. alerts' \in Seq(Alert)
    BY <2>1, Appended DEF DetectInv, TypeOK, Alert
  <2> QED
    BY <1>12, <2>2 DEF MatchRule, DetectInv, TypeOK, Alert, loadVars, pollVars,
                   richVars
<1>13. CASE MatchNothing
  BY <1>13, DetectAssumption DEF MatchNothing, loadVars, pollVars, richVars,
     DetectInv, TypeOK
<1>14. ASSUME NEW t \in Types, NEW b \in BOOLEAN, Submit(t, b)
       PROVE  TypeOK'
  <2>1. [num |-> produced + 1, type |-> t, big |-> b] \in Event
    BY DEF DetectInv, TypeOK, Event
  <2>2. ring' \in Seq(Event)
    BY <1>14, <2>1, Appended DEF Submit, DetectInv, TypeOK
  <2> QED
    BY <1>14, <2>2, DetectAssumption
       DEF Submit, DetectInv, TypeOK, loadVars, richVars
<1>15. CASE UNCHANGED vars
  BY <1>15, DetectAssumption DEF vars, loadVars, pollVars, richVars, DetectInv,
     TypeOK
<1> QED
  BY <1>1, <1>2, <1>3, <1>4, <1>5, <1>6, <1>7, <1>8, <1>9, <1>10, <1>11, <1>12,
     <1>13, <1>14, <1>15
     DEF Next, Load, Loop, Kernel

(***************************************************************************)
(* The kernel numbers events as they enter; the callback takes the oldest. *)
(***************************************************************************)
LEMMA RingStep == DetectInv /\ [Next]_vars => RingOrdered'
<1> SUFFICES ASSUME DetectInv, [Next]_vars PROVE RingOrdered'
  OBVIOUS
<1>1. CASE OpenFile
  BY <1>1, DetectAssumption DEF OpenFile, loadVars, pollVars, richVars,
     DetectInv, TypeOK, OrderInv, RingOrdered, Event
<1>2. CASE OpenFails
  BY <1>2, DetectAssumption DEF OpenFails, loadVars, pollVars, richVars,
     DetectInv, TypeOK, OrderInv, RingOrdered, Event
<1>3. CASE AddRule
  BY <1>3, DetectAssumption DEF AddRule, Added, Compiled, loadVars, pollVars,
     richVars, DetectInv, TypeOK, OrderInv, RingOrdered, Event
<1>4. CASE FileDone
  BY <1>4, DetectAssumption DEF FileDone, loadVars, pollVars, richVars,
     DetectInv, TypeOK, OrderInv, RingOrdered, Event
<1>5. CASE LoadDone
  BY <1>5, DetectAssumption DEF LoadDone, loadVars, pollVars, richVars,
     DetectInv, TypeOK, OrderInv, RingOrdered, Event
<1>6. CASE PollBegin
  BY <1>6, DetectAssumption DEF PollBegin, loadVars, pollVars, richVars,
     DetectInv, TypeOK, OrderInv, RingOrdered, Event
<1>7. CASE HandleEvent
  <2>1. /\ ring \in Seq(Event) /\ ring # <<>> /\ ring' = Tail(ring)
        /\ slot' = Head(ring) /\ UNCHANGED produced
    BY <1>7 DEF HandleEvent, DetectInv, TypeOK
  <2>2. \A i \in DOMAIN ring' : /\ i \in Int /\ 1 < i + 1
                                /\ i + 1 \in DOMAIN ring
                                /\ ring'[i] = ring[i + 1]
    BY <2>1, Tailed
  <2>3. 1 \in DOMAIN ring /\ slot' = ring[1]
    BY <2>1, Tailed
  <2>4. RingOrdered /\ DOMAIN ring \subseteq Int
    BY <2>1 DEF DetectInv, OrderInv
  <2> QED
    BY <2>1, <2>2, <2>3, <2>4 DEF RingOrdered
<1>8. CASE HandleTooBig
  <2>1. /\ ring \in Seq(Event) /\ ring # <<>> /\ ring' = Tail(ring)
        /\ UNCHANGED <<produced, slot>>
    BY <1>8 DEF HandleTooBig, DetectInv, TypeOK
  <2>2. \A i \in DOMAIN ring' : /\ i \in Int /\ i + 1 \in DOMAIN ring
                                /\ ring'[i] = ring[i + 1]
    BY <2>1, Tailed
  <2>3. RingOrdered
    BY DEF DetectInv, OrderInv
  <2> QED
    BY <2>1, <2>2, <2>3 DEF RingOrdered
<1>9. CASE PollEnds
  BY <1>9, DetectAssumption DEF PollEnds, Polled, loadVars, pollVars, richVars,
     DetectInv, TypeOK, OrderInv, RingOrdered, Event
<1>10. CASE Rich
  BY <1>10, DetectAssumption DEF Rich, loadVars, pollVars, richVars, DetectInv,
     TypeOK, OrderInv, RingOrdered, Event
<1>11. CASE RichUndefined
  BY <1>11, DetectAssumption DEF RichUndefined, loadVars, pollVars, richVars,
     DetectInv, TypeOK, OrderInv, RingOrdered, Event
<1>12. CASE MatchRule
  BY <1>12, DetectAssumption DEF MatchRule, Accepting, loadVars, pollVars,
     richVars, DetectInv, TypeOK, OrderInv, RingOrdered, Event
<1>13. CASE MatchNothing
  BY <1>13, DetectAssumption DEF MatchNothing, loadVars, pollVars, richVars,
     DetectInv, TypeOK, OrderInv, RingOrdered, Event
<1>14. ASSUME NEW t \in Types, NEW b \in BOOLEAN, Submit(t, b)
       PROVE  RingOrdered'
  <2> DEFINE e == [num |-> produced + 1, type |-> t, big |-> b]
             n == Len(ring) + 1
  <2>1. e \in Event /\ e.num = produced + 1 /\ produced \in Nat
    BY DetectAssumption DEF DetectInv, TypeOK, Event
  <2>2. /\ ring \in Seq(Event) /\ ring' = Append(ring, e)
        /\ produced' = produced + 1 /\ UNCHANGED slot
    BY <1>14 DEF Submit, DetectInv, TypeOK
  <2> HIDE DEF e
  <2>3. /\ DOMAIN ring = 1..Len(ring) /\ Len(ring) \in Nat
        /\ DOMAIN ring' = 1..n
        /\ \A i \in 1..Len(ring) : ring'[i] = ring[i]
        /\ ring'[n].num = produced + 1
    BY <2>1, <2>2, Appended
  <2>4. \A i \in 1..n : i \in Int /\ (i \in 1..Len(ring) \/ i = n)
    BY <2>3
  <2>5. ASSUME NEW i \in 1..Len(ring)
        PROVE  ring[i].num \in Nat /\ ring[i].num < produced + 1
    <3>1. ring[i] \in Event
      BY <2>2, <2>3, Elements
    <3>2. ring[i].num \in Nat
      BY <3>1 DEF Event
    <3>3. ring[i].num <= produced
      BY <2>3 DEF DetectInv, OrderInv, RingOrdered
    <3> QED
      BY <2>1, <3>2, <3>3
  <2>6. slot # NULL => slot.num \in Nat /\ slot.num < produced + 1
    BY <2>1 DEF DetectInv, TypeOK, OrderInv, SlotNewer, Event
  <2>7. \A i \in 1..n : /\ ring'[i].num <= produced'
                        /\ slot' # NULL => slot'.num < ring'[i].num
    BY <2>1, <2>2, <2>3, <2>4, <2>5, <2>6 DEF DetectInv, OrderInv, RingOrdered
  <2>8. ASSUME NEW i \in 1..n, NEW j \in 1..n, i < j
        PROVE  ring'[i].num < ring'[j].num
    <3>1. i \in 1..Len(ring) /\ ring'[i] = ring[i]
      BY <2>3, <2>8
    <3>2. CASE j = n
      BY <2>3, <2>5, <3>1, <3>2
    <3>3. CASE j \in 1..Len(ring)
      BY <2>3, <2>8, <3>1, <3>3 DEF DetectInv, OrderInv, RingOrdered
    <3> QED
      BY <2>4, <3>2, <3>3
  <2> QED
    BY <2>3, <2>7, <2>8 DEF RingOrdered
<1>15. CASE UNCHANGED vars
  BY <1>15, DetectAssumption DEF vars, loadVars, pollVars, richVars, DetectInv,
     TypeOK, OrderInv, RingOrdered, Event
<1> QED
  BY <1>1, <1>2, <1>3, <1>4, <1>5, <1>6, <1>7, <1>8, <1>9, <1>10, <1>11, <1>12,
     <1>13, <1>14, <1>15
     DEF Next, Load, Loop, Kernel

(***************************************************************************)
(* The slot is newer than evt whenever an event is to be enriched.         *)
(***************************************************************************)
LEMMA SlotStep == DetectInv /\ [Next]_vars => SlotNewer'
<1> SUFFICES ASSUME DetectInv, [Next]_vars PROVE SlotNewer'
  OBVIOUS
<1>1. CASE OpenFile
  BY <1>1, DetectAssumption DEF OpenFile, loadVars, pollVars, richVars,
     DetectInv, TypeOK, OrderInv, RingOrdered, SlotNewer, Event
<1>2. CASE OpenFails
  BY <1>2, DetectAssumption DEF OpenFails, loadVars, pollVars, richVars,
     DetectInv, TypeOK, OrderInv, RingOrdered, SlotNewer, Event
<1>3. CASE AddRule
  BY <1>3, DetectAssumption DEF AddRule, Added, Compiled, loadVars, pollVars,
     richVars, DetectInv, TypeOK, OrderInv, RingOrdered, SlotNewer, Event
<1>4. CASE FileDone
  BY <1>4, DetectAssumption DEF FileDone, loadVars, pollVars, richVars,
     DetectInv, TypeOK, OrderInv, RingOrdered, SlotNewer, Event
<1>5. CASE LoadDone
  BY <1>5, DetectAssumption DEF LoadDone, loadVars, pollVars, richVars,
     DetectInv, TypeOK, OrderInv, RingOrdered, SlotNewer, Event
<1>6. CASE PollBegin
  BY <1>6, DetectAssumption DEF PollBegin, loadVars, pollVars, richVars,
     DetectInv, TypeOK, OrderInv, RingOrdered, SlotNewer, Event
<1>7. CASE HandleEvent
  <2>1. /\ ring \in Seq(Event) /\ ring # <<>> /\ slot' = Head(ring)
        /\ UNCHANGED <<produced, evt, phase>> /\ phase = "reading"
    BY <1>7 DEF HandleEvent, DetectInv, TypeOK, richVars
  <2>2. 1 \in DOMAIN ring /\ slot' = ring[1] /\ slot' \in Event
    BY <2>1, Tailed
  <2>3. slot' # NULL /\ slot'.num <= produced /\ slot'.num \in Nat
    BY <2>2, DetectAssumption DEF DetectInv, OrderInv, RingOrdered, Event
  <2>4. slot # NULL => slot.num < slot'.num
    BY <2>2 DEF DetectInv, OrderInv, RingOrdered
  <2>5. /\ slot # NULL => slot.num \in Nat
        /\ evt # NULL => evt.num \in Nat /\ slot # NULL /\ evt.num <= slot.num
    BY DEF DetectInv, TypeOK, Event, OrderInv, SlotNewer
  <2>6. evt # NULL => evt.num < slot'.num /\ evt.num <= slot'.num
    BY <2>3, <2>4, <2>5
  <2> QED
    BY <2>1, <2>3, <2>6 DEF SlotNewer
<1>8. CASE HandleTooBig
  BY <1>8, DetectAssumption DEF HandleTooBig, loadVars, pollVars, richVars,
     DetectInv, TypeOK, OrderInv, RingOrdered, SlotNewer, Event
<1>9. CASE PollEnds
  BY <1>9, DetectAssumption DEF PollEnds, Polled, loadVars, pollVars, richVars,
     DetectInv, TypeOK, OrderInv, RingOrdered, SlotNewer, Event
<1>10. CASE Rich
  BY <1>10, DetectAssumption DEF Rich, loadVars, pollVars, richVars, DetectInv,
     TypeOK, OrderInv, RingOrdered, SlotNewer, Event
<1>11. CASE RichUndefined
  BY <1>11, DetectAssumption DEF RichUndefined, loadVars, pollVars, richVars,
     DetectInv, TypeOK, OrderInv, RingOrdered, SlotNewer, Event
<1>12. CASE MatchRule
  BY <1>12, DetectAssumption DEF MatchRule, Accepting, loadVars, pollVars,
     richVars, DetectInv, TypeOK, OrderInv, RingOrdered, SlotNewer, Event
<1>13. CASE MatchNothing
  BY <1>13, DetectAssumption DEF MatchNothing, loadVars, pollVars, richVars,
     DetectInv, TypeOK, OrderInv, RingOrdered, SlotNewer, Event
<1>14. ASSUME NEW t \in Types, NEW b \in BOOLEAN, Submit(t, b)
       PROVE  SlotNewer'
  BY <1>14, DetectAssumption DEF Submit, InLoop, loadVars, pollVars, richVars,
     DetectInv, TypeOK, OrderInv, RingOrdered, SlotNewer, Event
<1>15. CASE UNCHANGED vars
  BY <1>15, DetectAssumption DEF vars, loadVars, pollVars, richVars, DetectInv,
     TypeOK, OrderInv, RingOrdered, SlotNewer, Event
<1> QED
  BY <1>1, <1>2, <1>3, <1>4, <1>5, <1>6, <1>7, <1>8, <1>9, <1>10, <1>11, <1>12,
     <1>13, <1>14, <1>15
     DEF Next, Load, Loop, Kernel

(***************************************************************************)
(* Each event is matched at most once and in turn.                         *)
(***************************************************************************)
LEMMA AlertStep == DetectInv /\ [Next]_vars => AlertsOlder'
<1> SUFFICES ASSUME DetectInv, [Next]_vars PROVE AlertsOlder'
  OBVIOUS
<1>1. CASE OpenFile
  BY <1>1, DetectAssumption DEF OpenFile, loadVars, pollVars, richVars,
     DetectInv, TypeOK, OrderInv, SlotNewer, AlertsOlder, Event
<1>2. CASE OpenFails
  BY <1>2, DetectAssumption DEF OpenFails, loadVars, pollVars, richVars,
     DetectInv, TypeOK, OrderInv, SlotNewer, AlertsOlder, Event
<1>3. CASE AddRule
  BY <1>3, DetectAssumption DEF AddRule, Added, Compiled, loadVars, pollVars,
     richVars, DetectInv, TypeOK, OrderInv, SlotNewer, AlertsOlder, Event
<1>4. CASE FileDone
  BY <1>4, DetectAssumption DEF FileDone, loadVars, pollVars, richVars,
     DetectInv, TypeOK, OrderInv, SlotNewer, AlertsOlder, Event
<1>5. CASE LoadDone
  BY <1>5, DetectAssumption DEF LoadDone, loadVars, pollVars, richVars,
     DetectInv, TypeOK, OrderInv, SlotNewer, AlertsOlder, Event
<1>6. CASE PollBegin
  BY <1>6, DetectAssumption DEF PollBegin, loadVars, pollVars, richVars,
     DetectInv, TypeOK, OrderInv, SlotNewer, AlertsOlder, Event
<1>7. CASE HandleEvent
  BY <1>7, DetectAssumption DEF HandleEvent, loadVars, pollVars, richVars,
     DetectInv, TypeOK, OrderInv, SlotNewer, AlertsOlder, Event
<1>8. CASE HandleTooBig
  BY <1>8, DetectAssumption DEF HandleTooBig, loadVars, pollVars, richVars,
     DetectInv, TypeOK, OrderInv, SlotNewer, AlertsOlder, Event
<1>9. CASE PollEnds
  BY <1>9, DetectAssumption DEF PollEnds, Polled, loadVars, pollVars, richVars,
     DetectInv, TypeOK, OrderInv, SlotNewer, AlertsOlder, Event
<1>10. CASE Rich
  <2>1. /\ slot # NULL /\ slot \in Event /\ evt' = slot /\ UNCHANGED alerts
        /\ evt # NULL => evt.num \in Nat /\ evt.num < slot.num
    BY <1>10 DEF Rich, DetectInv, TypeOK, OrderInv, SlotNewer, Event
  <2>2. AlertsOlder /\ alerts \in Seq(Alert) /\ slot.num \in Nat
    BY <2>1 DEF DetectInv, TypeOK, OrderInv, Alert, Event
  <2>3. \A i \in DOMAIN alerts : alerts[i].event.num \in Nat
    BY <2>2, AlertNumbers
  <2>4. \A i \in DOMAIN alerts : alerts[i].event.num < slot.num
    BY <2>1, <2>2, <2>3 DEF AlertsOlder
  <2> QED
    BY <2>1, <2>2, <2>3, <2>4 DEF AlertsOlder
<1>11. CASE RichUndefined
  BY <1>11, DetectAssumption DEF RichUndefined, loadVars, pollVars, richVars,
     DetectInv, TypeOK, OrderInv, SlotNewer, AlertsOlder, Event
<1>12. CASE MatchRule
  <2> DEFINE n == Len(alerts) + 1
  <2>1. /\ evt \in Event /\ evt # NULL /\ phase = "match" /\ phase' = "poll"
        /\ UNCHANGED evt /\ evt.num \in Nat
    BY <1>12 DEF MatchRule, DetectInv, TypeOK, OrderInv, SlotNewer, Event,
    richVars
  <2>2. PICK e \in Alert : alerts' = Append(alerts, e) /\ e.event = evt
    BY <1>12, AlertAdded
  <2>3. alerts \in Seq(Alert) /\ AlertsOlder
    BY DEF DetectInv, TypeOK, OrderInv, Alert
  <2>4. /\ DOMAIN alerts = 1..Len(alerts) /\ DOMAIN alerts' = 1..n
        /\ \A i \in 1..Len(alerts) : alerts'[i] = alerts[i]
        /\ alerts'[n].event = evt /\ Len(alerts) \in Nat
    BY <2>2, <2>3, Appended
  <2>5. \A i \in 1..n : i \in Int /\ (i \in 1..Len(alerts) \/ i = n)
    BY <2>4
  <2>6. \A i \in 1..Len(alerts) :
           alerts[i].event.num \in Nat /\ alerts[i].event.num < evt.num
    BY <2>1, <2>3, <2>4, AlertNumbers DEF AlertsOlder
  <2>7. \A i \in 1..n : alerts'[i].event.num <= evt.num
    BY <2>1, <2>4, <2>5, <2>6
  <2>8. ASSUME NEW i \in 1..n, NEW j \in 1..n, i < j
        PROVE  alerts'[i].event.num < alerts'[j].event.num
    <3>1. i \in 1..Len(alerts) /\ alerts'[i] = alerts[i]
      BY <2>4, <2>8
    <3>2. CASE j = n
      BY <2>4, <2>6, <3>1, <3>2
    <3>3. CASE j \in 1..Len(alerts)
      BY <2>3, <2>4, <2>8, <3>1, <3>3 DEF AlertsOlder
    <3> QED
      BY <2>5, <3>2, <3>3
  <2> QED
    BY <2>1, <2>4, <2>7, <2>8 DEF AlertsOlder
<1>13. CASE MatchNothing
  BY <1>13, DetectAssumption DEF MatchNothing, loadVars, pollVars, richVars,
     DetectInv, TypeOK, OrderInv, SlotNewer, AlertsOlder, Event
<1>14. ASSUME NEW t \in Types, NEW b \in BOOLEAN, Submit(t, b)
       PROVE  AlertsOlder'
  BY <1>14, DetectAssumption DEF Submit, InLoop, loadVars, pollVars, richVars,
     DetectInv, TypeOK, OrderInv, SlotNewer, AlertsOlder, Event
<1>15. CASE UNCHANGED vars
  BY <1>15, DetectAssumption DEF vars, loadVars, pollVars, richVars, DetectInv,
     TypeOK, OrderInv, SlotNewer, AlertsOlder, Event
<1> QED
  BY <1>1, <1>2, <1>3, <1>4, <1>5, <1>6, <1>7, <1>8, <1>9, <1>10, <1>11, <1>12,
     <1>13, <1>14, <1>15
     DEF Next, Load, Loop, Kernel

(***************************************************************************)
(* The rule set does not change under the alerts.                          *)
(***************************************************************************)
LEMMA RaiseStep == DetectInv /\ [Next]_vars => AlertsRaised'
<1> SUFFICES ASSUME DetectInv, [Next]_vars PROVE AlertsRaised'
  OBVIOUS
<1>1. CASE OpenFile
  BY <1>1, DetectAssumption DEF OpenFile, loadVars, pollVars, richVars,
     DetectInv, TypeOK, OrderInv, SlotNewer, AlertsRaised, Event
<1>2. CASE OpenFails
  BY <1>2, DetectAssumption DEF OpenFails, loadVars, pollVars, richVars,
     DetectInv, TypeOK, OrderInv, SlotNewer, AlertsRaised, Event
<1>3. CASE AddRule
  BY <1>3, DetectAssumption DEF AddRule, Added, Compiled, loadVars, pollVars,
     richVars, DetectInv, TypeOK, OrderInv, SlotNewer, AlertsRaised, Event
<1>4. CASE FileDone
  BY <1>4, DetectAssumption DEF FileDone, loadVars, pollVars, richVars,
     DetectInv, TypeOK, OrderInv, SlotNewer, AlertsRaised, Event
<1>5. CASE LoadDone
  BY <1>5, DetectAssumption DEF LoadDone, loadVars, pollVars, richVars,
     DetectInv, TypeOK, OrderInv, SlotNewer, AlertsRaised, Event
<1>6. CASE PollBegin
  BY <1>6, DetectAssumption DEF PollBegin, loadVars, pollVars, richVars,
     DetectInv, TypeOK, OrderInv, SlotNewer, AlertsRaised, Event
<1>7. CASE HandleEvent
  BY <1>7, DetectAssumption DEF HandleEvent, loadVars, pollVars, richVars,
     DetectInv, TypeOK, OrderInv, SlotNewer, AlertsRaised, Event
<1>8. CASE HandleTooBig
  BY <1>8, DetectAssumption DEF HandleTooBig, loadVars, pollVars, richVars,
     DetectInv, TypeOK, OrderInv, SlotNewer, AlertsRaised, Event
<1>9. CASE PollEnds
  BY <1>9, DetectAssumption DEF PollEnds, Polled, loadVars, pollVars, richVars,
     DetectInv, TypeOK, OrderInv, SlotNewer, AlertsRaised, Event
<1>10. CASE Rich
  BY <1>10, DetectAssumption DEF Rich, loadVars, pollVars, richVars, DetectInv,
     TypeOK, OrderInv, SlotNewer, AlertsRaised, Event
<1>11. CASE RichUndefined
  BY <1>11, DetectAssumption DEF RichUndefined, loadVars, pollVars, richVars,
     DetectInv, TypeOK, OrderInv, SlotNewer, AlertsRaised, Event
<1>12. CASE MatchRule
  <2> DEFINE n == Len(alerts) + 1
  <2>1. phase' = "poll" /\ UNCHANGED rule_set
    BY <1>12 DEF MatchRule, loadVars
  <2>2. PICK e \in Alert :
           /\ alerts' = Append(alerts, e)
           /\ e.index \in DOMAIN rule_set
           /\ \A k \in 1..e.index :
                 e.event.type \in Hits[rule_set[k].match] <=> k = e.index
    BY <1>12, AlertAdded
  <2>3. alerts \in Seq(Alert) /\ AlertsRaised
    BY DEF DetectInv, TypeOK, OrderInv, Alert
  <2>4. /\ DOMAIN alerts = 1..Len(alerts) /\ DOMAIN alerts' = 1..n
        /\ \A i \in 1..Len(alerts) : alerts'[i] = alerts[i]
        /\ alerts'[n] = e /\ Len(alerts) \in Nat
    BY <2>2, <2>3, Appended
  <2>5. \A i \in 1..n : i \in 1..Len(alerts) \/ i = n
    BY <2>4
  <2> QED
    BY <2>1, <2>2, <2>3, <2>4, <2>5 DEF AlertsRaised
<1>13. CASE MatchNothing
  BY <1>13, DetectAssumption DEF MatchNothing, loadVars, pollVars, richVars,
     DetectInv, TypeOK, OrderInv, SlotNewer, AlertsRaised, Event
<1>14. ASSUME NEW t \in Types, NEW b \in BOOLEAN, Submit(t, b)
       PROVE  AlertsRaised'
  BY <1>14, DetectAssumption DEF Submit, InLoop, loadVars, pollVars, richVars,
     DetectInv, TypeOK, OrderInv, SlotNewer, AlertsRaised, Event
<1>15. CASE UNCHANGED vars
  BY <1>15, DetectAssumption DEF vars, loadVars, pollVars, richVars, DetectInv,
     TypeOK, OrderInv, SlotNewer, AlertsRaised, Event
<1> QED
  BY <1>1, <1>2, <1>3, <1>4, <1>5, <1>6, <1>7, <1>8, <1>9, <1>10, <1>11, <1>12,
     <1>13, <1>14, <1>15
     DEF Next, Load, Loop, Kernel

(***************************************************************************)
(* The set only grows, and a rule that compiles is in it afterwards.       *)
(***************************************************************************)
LEMMA KeptGrows ==
    ASSUME TypeOK, AddRule
    PROVE  /\ \A r : Kept(r) => Kept(r)'
           /\ \A r : r = Head(todo) /\ Tree[r] = "matcher" => Kept(r)'
<1> DEFINE r == Head(todo)
           m == Compiled(r)
<1>1. CASE m = NULL
  BY <1>1, RuleAdded, DetectAssumption DEF Kept
<1>2. CASE m # NULL
  <2>1. /\ [rule |-> r, match |-> m] \in Rec
        /\ rule_set' = Append(rule_set, [rule |-> r, match |-> m])
        /\ Tree[r] = "matcher" => m = r
    BY <1>2, RuleAdded
  <2>2. rule_set \in Seq(Rec)
    BY DEF TypeOK, Rec
  <2>3. /\ DOMAIN rule_set' = 1..(Len(rule_set) + 1)
        /\ DOMAIN rule_set = 1..Len(rule_set) /\ Len(rule_set) \in Nat
        /\ rule_set'[Len(rule_set) + 1] = [rule |-> r, match |-> m]
        /\ \A i \in 1..Len(rule_set) : rule_set'[i] = rule_set[i]
    BY <2>1, <2>2, Appended
  <2>4. ASSUME NEW q, Kept(q)
        PROVE  Kept(q)'
    <3>1. PICK i \in DOMAIN rule_set : rule_set[i] = [rule |-> q, match |-> q]
      BY <2>4 DEF Kept
    <3>2. i \in DOMAIN rule_set' /\ rule_set'[i] = [rule |-> q, match |-> q]
      BY <2>3, <3>1
    <3> QED
      BY <3>2 DEF Kept
  <2>5. Len(rule_set) + 1 \in DOMAIN rule_set'
    BY <2>3
  <2>6. ASSUME NEW q, q = r, Tree[q] = "matcher"
        PROVE  Kept(q)'
    <3>1. rule_set'[Len(rule_set) + 1] = [rule |-> q, match |-> q]
      BY <2>1, <2>3, <2>6
    <3> QED
      BY <2>5, <3>1 DEF Kept
  <2> QED
    BY <2>4, <2>6
<1> QED
  BY <1>1, <1>2

LEMMA SameFiles ==
    FilesKept /\ UNCHANGED <<dir, at, todo, rule_set>> => FilesKept'
  BY DEF FilesKept, Kept

(***************************************************************************)
(* Loaded files stay in the set.                                           *)
(***************************************************************************)
LEMMA FilesStep == DetectInv /\ [Next]_vars => FilesKept'
<1> SUFFICES ASSUME DetectInv, [Next]_vars PROVE FilesKept'
  OBVIOUS
<1>1. CASE OpenFile
  <2>1. /\ todo = NULL /\ at \in Nat /\ at' = at + 1
        /\ UNCHANGED <<dir, rule_set>> /\ FilesKept
    BY <1>1, Dirs DEF OpenFile, DetectInv, TypeOK, LoadInv
  <2>2. todo' # NULL
    BY <1>1 DEF OpenFile
  <2>3. \A f \in 1..(at' - 1) : f < at' - 1 => f \in 1..(at - 1)
    BY <2>1
  <2>4. \A r : Kept(r)' = Kept(r)
    BY <2>1 DEF Kept
  <2> QED
    BY <2>1, <2>2, <2>3, <2>4 DEF FilesKept
<1>2. CASE OpenFails
  BY <1>2, SameFiles DEF OpenFails, loadVars, DetectInv, LoadInv
<1>3. CASE AddRule
  <2>0. TypeOK /\ FilesKept
    BY DEF DetectInv, LoadInv
  <2>1. todo' \in Seq(Rules) /\ todo # NULL /\ UNCHANGED <<dir, at>>
    BY <1>3, <2>0, RuleAdded, Tailed DEF AddRule
  <2>2. todo' # NULL
    BY <2>1, DetectAssumption
  <2> QED
    BY <1>3, <2>0, <2>1, <2>2, KeptGrows DEF FilesKept
<1>4. CASE FileDone
  <2>1. /\ todo = <<>> /\ todo' = NULL /\ UNCHANGED <<dir, at, rule_set>>
        /\ FilesKept /\ OpenFileKept /\ at \in Int
    BY <1>4 DEF FileDone, DetectInv, TypeOK, LoadInv
  <2>2. todo \in Seq(Rules) /\ Len(todo) = 0
    BY <2>1
  <2>0. todo # NULL
    BY <2>2, DetectAssumption
  <2>3. /\ dir[at - 1] \in Seq(Rules)
        /\ \A k \in 1..(Len(dir[at - 1]) - 0) :
              Tree[dir[at - 1][k]] = "matcher" => Kept(dir[at - 1][k])
    BY <2>0, <2>1, <2>2 DEF OpenFileKept
  <2>4. DOMAIN dir[at - 1] = 1..(Len(dir[at - 1]) - 0)
    BY <2>3
  <2>5. \A f \in 1..(at - 1) : f < at - 1 \/ f = at - 1
    BY <2>1
  <2>6. \A r : Kept(r)' = Kept(r)
    BY <2>1 DEF Kept
  <2> QED
    BY <2>0, <2>1, <2>3, <2>4, <2>5, <2>6 DEF FilesKept
<1>5. CASE LoadDone
  BY <1>5, SameFiles DEF LoadDone, loadVars, DetectInv, LoadInv
<1>6. CASE PollBegin
  BY <1>6, SameFiles DEF PollBegin, loadVars, DetectInv, LoadInv
<1>7. CASE HandleEvent
  BY <1>7, SameFiles DEF HandleEvent, loadVars, DetectInv, LoadInv
<1>8. CASE HandleTooBig
  BY <1>8, SameFiles DEF HandleTooBig, loadVars, DetectInv, LoadInv
<1>9. CASE PollEnds
  BY <1>9, SameFiles DEF PollEnds, loadVars, DetectInv, LoadInv
<1>10. CASE Rich
  BY <1>10, SameFiles DEF Rich, loadVars, DetectInv, LoadInv
<1>11. CASE RichUndefined
  BY <1>11, SameFiles DEF RichUndefined, loadVars, DetectInv, LoadInv
<1>12. CASE MatchRule
  BY <1>12, SameFiles DEF MatchRule, loadVars, DetectInv, LoadInv
<1>13. CASE MatchNothing
  BY <1>13, SameFiles DEF MatchNothing, loadVars, DetectInv, LoadInv
<1>14. ASSUME NEW t \in Types, NEW b \in BOOLEAN, Submit(t, b)
       PROVE  FilesKept'
  BY <1>14, SameFiles DEF Submit, loadVars, DetectInv, LoadInv
<1>15. CASE UNCHANGED vars
  BY <1>15, SameFiles DEF vars, loadVars, DetectInv, LoadInv
<1> QED
  BY <1>1, <1>2, <1>3, <1>4, <1>5, <1>6, <1>7, <1>8, <1>9, <1>10, <1>11, <1>12,
     <1>13, <1>14, <1>15
     DEF Next, Load, Loop, Kernel

(***************************************************************************)
(* The open file enters the set rule by rule.                              *)
(***************************************************************************)
LEMMA OpenStep == DetectInv /\ [Next]_vars => OpenFileKept'
<1> SUFFICES ASSUME DetectInv, [Next]_vars PROVE OpenFileKept'
  OBVIOUS
<1>1. CASE OpenFile
  BY <1>1, DetectAssumption, Dirs DEF OpenFile, loadVars, pollVars, richVars,
     DetectInv, TypeOK, LoadInv, OpenFileKept, Kept
<1>2. CASE OpenFails
  BY <1>2, DetectAssumption, Dirs DEF OpenFails, loadVars, pollVars, richVars,
     DetectInv, TypeOK, LoadInv, OpenFileKept, Kept
<1>3. CASE AddRule
  <2> DEFINE d == dir[at - 1]
  <2>0. TypeOK /\ OpenFileKept
    BY DEF DetectInv, LoadInv
  <2>1. /\ todo \in Seq(Rules) /\ todo # <<>> /\ todo # NULL
        /\ todo' = Tail(todo) /\ UNCHANGED <<dir, at>>
    BY <1>3, <2>0, RuleAdded, DetectAssumption DEF AddRule
  <2>2. /\ at > 1 /\ d \in Seq(Rules) /\ Len(todo) <= Len(d)
        /\ \A j \in 1..Len(todo) : todo[j] = d[Len(d) - Len(todo) + j]
        /\ \A k \in 1..(Len(d) - Len(todo)) :
              Tree[d[k]] = "matcher" => Kept(d[k])
    BY <2>0, <2>1 DEF OpenFileKept
  <2> HIDE DEF d
  <2>3. /\ Len(todo) \in Nat \ {0} /\ Len(d) \in Nat
        /\ Len(todo') = Len(todo) - 1 /\ Head(todo) = todo[1]
        /\ \A j \in 1..(Len(todo) - 1) : todo'[j] = todo[j + 1]
    BY <2>1, <2>2, Tailed
  <2>4. \A j \in 1..Len(todo') : todo'[j] = d[Len(d) - Len(todo') + j]
    <3> SUFFICES ASSUME NEW j \in 1..Len(todo')
                 PROVE  todo'[j] = d[Len(d) - Len(todo') + j]
      OBVIOUS
    <3>1. j + 1 \in 1..Len(todo) /\ todo'[j] = todo[j + 1]
      BY <2>3
    <3>2. todo[j + 1] = d[Len(d) - Len(todo) + (j + 1)]
      BY <2>2, <3>1
    <3>3. Len(d) - Len(todo) + (j + 1) = Len(d) - Len(todo') + j
      BY <2>3
    <3> QED
      BY <3>1, <3>2, <3>3
  <2>5. Head(todo) = d[Len(d) - Len(todo) + 1]
    BY <2>2, <2>3
  <2>6. ASSUME NEW k \in 1..(Len(d) - Len(todo')), Tree[d[k]] = "matcher"
        PROVE  \E i \in DOMAIN rule_set' :
                   rule_set'[i] = [rule |-> d[k], match |-> d[k]]
    <3>0. \A r : Kept(r)' <=> \E i \in DOMAIN rule_set' :
                                 rule_set'[i] = [rule |-> r, match |-> r]
      BY DEF Kept
    <3>1. k \in 1..(Len(d) - Len(todo)) \/ k = Len(d) - Len(todo) + 1
      <4>1. Len(todo) \in Nat /\ Len(d) \in Nat /\ Len(todo') = Len(todo) - 1
        BY <2>3
      <4>2. \A x, y \in Nat : \A z \in 1..(x - (y - 1)) :
               z \in 1..(x - y) \/ z = x - y + 1
        OBVIOUS
      <4> QED
        BY <4>1, <4>2
    <3>2. \A r : Kept(r) => Kept(r)'
      BY <1>3, <2>0, KeptGrows
    <3>3. \A r : r = Head(todo) /\ Tree[r] = "matcher" => Kept(r)'
      BY <1>3, <2>0, KeptGrows
    <3>4. CASE k \in 1..(Len(d) - Len(todo))
      BY <2>2, <2>6, <3>0, <3>2, <3>4
    <3>5. CASE k = Len(d) - Len(todo) + 1
      BY <2>5, <2>6, <3>0, <3>3, <3>5
    <3> QED
      BY <3>1, <3>4, <3>5
  <2>7. Len(todo') <= Len(d)
    BY <2>2, <2>3
  <2> QED
    BY <2>1, <2>2, <2>4, <2>6, <2>7 DEF d, OpenFileKept, Kept
<1>4. CASE FileDone
  BY <1>4, DetectAssumption, Dirs DEF FileDone, loadVars, pollVars, richVars,
     DetectInv, TypeOK, LoadInv, OpenFileKept, Kept
<1>5. CASE LoadDone
  BY <1>5, DetectAssumption, Dirs DEF LoadDone, loadVars, pollVars, richVars,
     DetectInv, TypeOK, LoadInv, OpenFileKept, Kept
<1>6. CASE PollBegin
  BY <1>6, DetectAssumption, Dirs DEF PollBegin, loadVars, pollVars, richVars,
     DetectInv, TypeOK, LoadInv, OpenFileKept, Kept
<1>7. CASE HandleEvent
  BY <1>7, DetectAssumption, Dirs DEF HandleEvent, loadVars, pollVars,
     richVars, DetectInv, TypeOK, LoadInv, OpenFileKept, Kept
<1>8. CASE HandleTooBig
  BY <1>8, DetectAssumption, Dirs DEF HandleTooBig, loadVars, pollVars,
     richVars, DetectInv, TypeOK, LoadInv, OpenFileKept, Kept
<1>9. CASE PollEnds
  BY <1>9, DetectAssumption, Dirs DEF PollEnds, Polled, loadVars, pollVars,
     richVars, DetectInv, TypeOK, LoadInv, OpenFileKept, Kept
<1>10. CASE Rich
  BY <1>10, DetectAssumption, Dirs DEF Rich, loadVars, pollVars, richVars,
     DetectInv, TypeOK, LoadInv, OpenFileKept, Kept
<1>11. CASE RichUndefined
  BY <1>11, DetectAssumption, Dirs DEF RichUndefined, loadVars, pollVars,
     richVars, DetectInv, TypeOK, LoadInv, OpenFileKept, Kept
<1>12. CASE MatchRule
  BY <1>12, DetectAssumption, Dirs DEF MatchRule, Accepting, loadVars,
     pollVars, richVars, DetectInv, TypeOK, LoadInv, OpenFileKept, Kept
<1>13. CASE MatchNothing
  BY <1>13, DetectAssumption, Dirs DEF MatchNothing, loadVars, pollVars,
     richVars, DetectInv, TypeOK, LoadInv, OpenFileKept, Kept
<1>14. ASSUME NEW t \in Types, NEW b \in BOOLEAN, Submit(t, b)
       PROVE  OpenFileKept'
  BY <1>14, DetectAssumption, Dirs DEF Submit, InLoop, loadVars, pollVars,
     richVars, DetectInv, TypeOK, LoadInv, OpenFileKept, Kept
<1>15. CASE UNCHANGED vars
  BY <1>15, DetectAssumption, Dirs DEF vars, loadVars, pollVars, richVars,
     DetectInv, TypeOK, LoadInv, OpenFileKept, Kept
<1> QED
  BY <1>1, <1>2, <1>3, <1>4, <1>5, <1>6, <1>7, <1>8, <1>9, <1>10, <1>11, <1>12,
     <1>13, <1>14, <1>15
     DEF Next, Load, Loop, Kernel

(***************************************************************************)
(* A rule that compiles is added with its own matcher, one with a part     *)
(* that does not parse is not added.                                       *)
(***************************************************************************)
LEMMA MatchesStep == DetectInv /\ [Next]_vars => MatchesOwned'
<1> SUFFICES ASSUME DetectInv, [Next]_vars PROVE MatchesOwned'
  OBVIOUS
<1>1. CASE OpenFile
  BY <1>1, DetectAssumption DEF OpenFile, loadVars, pollVars, richVars,
     DetectInv, TypeOK, LoadInv, MatchesOwned
<1>2. CASE OpenFails
  BY <1>2, DetectAssumption DEF OpenFails, loadVars, pollVars, richVars,
     DetectInv, TypeOK, LoadInv, MatchesOwned
<1>3. CASE AddRule
  <2> DEFINE r == Head(todo)
             m == Compiled(r)
             n == Len(rule_set) + 1
  <2>0. TypeOK /\ MatchesOwned
    BY DEF DetectInv, LoadInv
  <2>1. CASE m = NULL
    <3>1. UNCHANGED rule_set
      BY <1>3, <2>0, <2>1, RuleAdded
    <3> QED
      BY <2>0, <3>1 DEF MatchesOwned
  <2>2. CASE m # NULL
    <3>1. /\ [rule |-> r, match |-> m] \in Rec
          /\ rule_set' = Append(rule_set, [rule |-> r, match |-> m])
          /\ Tree[r] = "matcher" => m = r
          /\ Tree[r] # "null"
      BY <1>3, <2>0, <2>2, RuleAdded
    <3>2. rule_set \in Seq(Rec)
      BY <2>0 DEF TypeOK, Rec
    <3>3. /\ DOMAIN rule_set' = 1..n
          /\ DOMAIN rule_set = 1..Len(rule_set) /\ Len(rule_set) \in Nat
          /\ rule_set'[n] = [rule |-> r, match |-> m]
          /\ \A i \in 1..Len(rule_set) : rule_set'[i] = rule_set[i]
      BY <3>1, <3>2, Appended
    <3>4. \A i \in 1..Len(rule_set) : OwnMatcher(rule_set[i])
      BY <2>0, <3>3 DEF MatchesOwned
    <3>5. OwnMatcher([rule |-> r, match |-> m])
      BY <3>1 DEF OwnMatcher
    <3>6. \A i \in DOMAIN rule_set' : i \in 1..Len(rule_set) \/ i = n
      BY <3>3
    <3> HIDE DEF r, m, n
    <3>7. \A i \in DOMAIN rule_set' : OwnMatcher(rule_set'[i])
      BY <3>3, <3>4, <3>5, <3>6
    <3>8. ASSUME NEW i \in DOMAIN rule_set' PROVE OwnMatcher(rule_set[i])'
      BY <3>7 DEF OwnMatcher
    <3> QED
      BY <3>8 DEF MatchesOwned
  <2> QED
    BY <2>1, <2>2
<1>4. CASE FileDone
  BY <1>4, DetectAssumption DEF FileDone, loadVars, pollVars, richVars,
     DetectInv, TypeOK, LoadInv, MatchesOwned
<1>5. CASE LoadDone
  BY <1>5, DetectAssumption DEF LoadDone, loadVars, pollVars, richVars,
     DetectInv, TypeOK, LoadInv, MatchesOwned
<1>6. CASE PollBegin
  BY <1>6, DetectAssumption DEF PollBegin, loadVars, pollVars, richVars,
     DetectInv, TypeOK, LoadInv, MatchesOwned
<1>7. CASE HandleEvent
  BY <1>7, DetectAssumption DEF HandleEvent, loadVars, pollVars, richVars,
     DetectInv, TypeOK, LoadInv, MatchesOwned
<1>8. CASE HandleTooBig
  BY <1>8, DetectAssumption DEF HandleTooBig, loadVars, pollVars, richVars,
     DetectInv, TypeOK, LoadInv, MatchesOwned
<1>9. CASE PollEnds
  BY <1>9, DetectAssumption DEF PollEnds, Polled, loadVars, pollVars, richVars,
     DetectInv, TypeOK, LoadInv, MatchesOwned
<1>10. CASE Rich
  BY <1>10, DetectAssumption DEF Rich, loadVars, pollVars, richVars, DetectInv,
     TypeOK, LoadInv, MatchesOwned
<1>11. CASE RichUndefined
  BY <1>11, DetectAssumption DEF RichUndefined, loadVars, pollVars, richVars,
     DetectInv, TypeOK, LoadInv, MatchesOwned
<1>12. CASE MatchRule
  BY <1>12, DetectAssumption DEF MatchRule, Accepting, loadVars, pollVars,
     richVars, DetectInv, TypeOK, LoadInv, MatchesOwned
<1>13. CASE MatchNothing
  BY <1>13, DetectAssumption DEF MatchNothing, loadVars, pollVars, richVars,
     DetectInv, TypeOK, LoadInv, MatchesOwned
<1>14. ASSUME NEW t \in Types, NEW b \in BOOLEAN, Submit(t, b)
       PROVE  MatchesOwned'
  BY <1>14, DetectAssumption DEF Submit, InLoop, loadVars, pollVars, richVars,
     DetectInv, TypeOK, LoadInv, MatchesOwned
<1>15. CASE UNCHANGED vars
  BY <1>15, DetectAssumption DEF vars, loadVars, pollVars, richVars, DetectInv,
     TypeOK, LoadInv, MatchesOwned
<1> QED
  BY <1>1, <1>2, <1>3, <1>4, <1>5, <1>6, <1>7, <1>8, <1>9, <1>10, <1>11, <1>12,
     <1>13, <1>14, <1>15
     DEF Next, Load, Loop, Kernel

LEMMA DetectInitial == Init => DetectInv
<1> SUFFICES ASSUME Init PROVE DetectInv
  OBVIOUS
<1>1. TypeOK
  <2>1. dir \in Seq(Seq(Rules) \cup {NULL})
    BY DetectAssumption DEF Init
  <2>2. at \in 1..(Len(dir) + 1)
    BY <2>1 DEF Init
  <2>3. /\ rule_set \in Seq(Rec) /\ ring \in Seq(Event)
        /\ alerts \in Seq(Alert)
    BY DEF Init
  <2>4. data \in [1..MaxParams -> {"null", "heap", "slot"}]
    BY DEF Init
  <2>5. produced \in 0..MaxEvents
    BY DetectAssumption DEF Init
  <2> QED
    BY <2>2, <2>3, <2>4, <2>5 DEF Init, TypeOK, Rec, Alert
<1>2. LoadInv
  BY DEF Init, LoadInv, FilesKept, OpenFileKept, MatchesOwned
<1>3. OrderInv
  BY DEF Init, OrderInv, RingOrdered, SlotNewer, AlertsOlder, AlertsRaised
<1> QED
  BY <1>1, <1>2, <1>3 DEF DetectInv

(***************************************************************************)
(* The invariant is inductive, however the kernel fills the ring while the *)
(* loop polls, enriches and matches.                                       *)
(***************************************************************************)
THEOREM DetectInvariant == Spec => []DetectInv
<1>1. DetectInv /\ [Next]_vars => DetectInv'
  BY TypeStep, RingStep, SlotStep, AlertStep, RaiseStep, FilesStep,
     OpenStep, MatchesStep
     DEF DetectInv, LoadInv, OrderInv
<1> QED
  BY DetectInitial, <1>1, PTL DEF Spec

(* The fields of the loader and of the loop keep their ranges; in particular
   no rule is added without a matcher and nothing but an event is matched. *)

THEOREM DetectTypes == Spec => []TypeOK
<1>1. DetectInv => TypeOK
  BY DEF DetectInv
<1> QED
  BY <1>1, DetectInvariant, PTL

(* Whatever the rules path holds, a rule whose condition compiles is loaded
   with its own matcher, and one with a part that does not parse is not. *)

THEOREM RulesLoaded == Spec => []RulesKept
<1>1. DetectInv => RulesKept
  BY DEF DetectInv, LoadInv, FilesKept, MatchesOwned, RulesKept,
         WellFormedKept, Kept
<1> QED
  BY <1>1, DetectInvariant, PTL

(* Alerts are raised in the order of the ring, at most one for an event, each
   by the first rule that accepts it. *)

THEOREM AlertsOrdered == Spec => []AlertsInOrder
<1>1. DetectInv => AlertsInOrder
  BY DEF DetectInv, OrderInv, AlertsOlder, AlertsRaised, AlertsInOrder
<1> QED
  BY <1>1, DetectInvariant, PTL

(***************************************************************************)
(* The ring holds the events produced last, without a gap; the slot holds  *)
(* the one before them from the moment the callback took it until it is    *)
(* enriched, and evt does until it is matched.                             *)
(***************************************************************************)
ReadInv ==
    /\ \A i \in DOMAIN ring : ring[i].num = LastRead + i
    /\ (phase = "reading" /\ got) \/ phase = "rich" => slot.num = LastRead
    /\ phase = "match" => evt.num = LastRead

LEMMA ReadStep == DetectInv /\ ReadInv /\ [Next]_vars => ReadInv'
<1> SUFFICES ASSUME DetectInv, ReadInv, [Next]_vars PROVE ReadInv'
  OBVIOUS
<1>1. CASE Load \/ UNCHANGED vars
  BY <1>1 DEF Load, OpenFile, OpenFails, AddRule, FileDone, LoadDone, vars,
     pollVars, richVars, ReadInv, LastRead
<1>2. CASE PollBegin \/ PollEnds \/ Rich \/ RichUndefined \/ MatchRule
           \/ MatchNothing
  BY <1>2 DEF PollBegin, PollEnds, Polled, Rich, RichUndefined, MatchRule,
     MatchNothing, pollVars, richVars, ReadInv, LastRead
<1>3. CASE HandleEvent \/ HandleTooBig
  <2>1. /\ ring \in Seq(Event) /\ ring # <<>> /\ ring' = Tail(ring)
        /\ produced' = produced /\ produced \in Nat
    BY <1>3, DetectAssumption DEF HandleEvent, HandleTooBig, DetectInv, TypeOK
  <2>2. /\ Len(ring) \in Nat /\ Len(ring') = Len(ring) - 1
        /\ 1 \in DOMAIN ring /\ Head(ring) = ring[1]
        /\ DOMAIN ring' \subseteq Int
    BY <2>1, Tailed
  <2>3. LastRead' = LastRead + 1 /\ LastRead \in Int
    BY <2>1, <2>2 DEF LastRead
  <2>4. ASSUME NEW i \in DOMAIN ring'
        PROVE  ring'[i].num = LastRead' + i
    <3>1. i + 1 \in DOMAIN ring /\ ring'[i] = ring[i + 1]
      BY <2>1, Tailed
    <3>2. ring[i + 1].num = LastRead + (i + 1)
      BY <3>1 DEF ReadInv
    <3> QED
      BY <2>2, <2>3, <3>1, <3>2
  <2>5. CASE HandleEvent
    <3>1. slot'.num = LastRead' /\ phase' = "reading"
      BY <2>2, <2>3, <2>5 DEF HandleEvent, ReadInv
    <3> QED
      BY <2>4, <3>1 DEF ReadInv
  <2>6. CASE HandleTooBig
    BY <2>4, <2>6 DEF HandleTooBig, ReadInv
  <2> QED
    BY <1>3, <2>5, <2>6
<1>4. ASSUME NEW t \in Types, NEW b \in BOOLEAN, Submit(t, b)
      PROVE  ReadInv'
  <2> DEFINE e == [num |-> produced + 1, type |-> t, big |-> b]
  <2>1. e \in Event /\ e.num = produced + 1 /\ produced \in Nat
    BY DetectAssumption DEF DetectInv, TypeOK, Event
  <2>2. /\ ring \in Seq(Event) /\ ring' = Append(ring, e)
        /\ produced' = produced + 1 /\ UNCHANGED <<phase, slot, got, evt>>
    BY <1>4 DEF Submit, DetectInv, TypeOK, richVars
  <2> HIDE DEF e
  <2>3. /\ DOMAIN ring = 1..Len(ring) /\ Len(ring) \in Nat
        /\ DOMAIN ring' = 1..(Len(ring) + 1) /\ Len(ring') = Len(ring) + 1
        /\ \A i \in 1..Len(ring) : ring'[i] = ring[i]
        /\ ring'[Len(ring) + 1].num = produced + 1
    BY <2>1, <2>2, Appended
  <2>4. LastRead' = LastRead /\ LastRead \in Int
        /\ LastRead + (Len(ring) + 1) = produced + 1
    BY <2>1, <2>2, <2>3 DEF LastRead
  <2>5. ASSUME NEW i \in DOMAIN ring'
        PROVE  ring'[i].num = LastRead' + i
    <3>1. CASE i = Len(ring) + 1
      BY <2>3, <2>4, <3>1
    <3>2. CASE i \in 1..Len(ring)
      BY <2>3, <2>4, <3>2 DEF ReadInv
    <3> QED
      BY <2>3, <3>1, <3>2
  <2> QED
    BY <2>2, <2>4, <2>5 DEF ReadInv
<1> QED
  BY <1>1, <1>2, <1>3, <1>4 DEF Next, Loop, Kernel

(* The event that is enriched, and then matched, is the last one that left the
   ring, and it was not enriched before: whatever the kernel adds meanwhile and
   whichever polls ended on an event that is too large, the slot that
   linx_event_rich reads is never an old one. *)

THEOREM NewestEnriched == Spec => []EnrichedIsNewest
<1>1. Init => ReadInv
  BY DEF Init, ReadInv
<1>2. DetectInv /\ ReadInv => EnrichedIsNewest
  BY DEF DetectInv, OrderInv, SlotNewer, ReadInv, EnrichedIsNewest
<1> QED
  BY <1>1, <1>2, ReadStep, DetectInvariant, PTL DEF Spec

(* Every step of the loop brings the newest event nearer to enrichment, or
   drops it with one that is too large: no handler goes round without taking
   something out of the ring. *)

THEOREM LoopProgress == Spec => LoopAdvances
<1>1. TypeOK /\ [Next]_vars => [Nearer]_vars
  <2> SUFFICES ASSUME TypeOK, Next, InLoop, ToGo > 0, produced' = produced
               PROVE  ToGo' < ToGo \/ phase' = "undefined"
    BY DEF Nearer
  <2>1. /\ ring \in Seq(Event) /\ Len(ring) \in Nat
        /\ ring # <<>> => Len(ring) > 0 /\ Len(Tail(ring)) = Len(ring) - 1
    BY Tailed, Elements DEF TypeOK
  <2>2. CASE Load
    BY <2>2 DEF Load, OpenFile, OpenFails, AddRule, FileDone, LoadDone, InLoop
  <2>3. CASE PollBegin
    BY <2>1, <2>3 DEF PollBegin, ToGo
  <2>4. CASE HandleEvent \/ HandleTooBig
    <3>1. /\ ring # <<>> /\ phase = "reading" /\ ring' = Tail(ring)
          /\ phase' \in {"reading", "poll"} /\ got' \in BOOLEAN
      BY <2>4 DEF HandleEvent, HandleTooBig, TypeOK
    <3>2. ToGo = 4 * Len(ring) + 3
      BY <2>1, <3>1 DEF ToGo
    <3>3. CASE ring' = <<>>
      BY <2>1, <3>1, <3>2, <3>3 DEF ToGo
    <3>4. CASE ring' # <<>>
      <4>1. ToGo' = 4 * Len(ring') + 2 + (IF phase' = "poll" THEN 2 ELSE 1)
        BY <3>1, <3>4 DEF ToGo
      <4> QED
        BY <2>1, <3>1, <3>2, <4>1
    <3> QED
      BY <3>3, <3>4
  <2>5. CASE PollEnds
    BY <2>5 DEF PollEnds, Polled, pollVars, ToGo, TypeOK
  <2>6. CASE Rich \/ RichUndefined
    BY <2>1, <2>6 DEF Rich, RichUndefined, pollVars, ToGo
  <2>7. CASE MatchRule \/ MatchNothing
    BY <2>1, <2>7 DEF MatchRule, MatchNothing, pollVars, ToGo
  <2>8. CASE Kernel
    BY <2>8 DEF Kernel, Submit, TypeOK
  <2> QED
    BY <2>2, <2>3, <2>4, <2>5, <2>6, <2>7, <2>8 DEF Next, Loop
<1> QED
  BY <1>1, DetectTypes, PTL DEF Spec, LoopAdvances

(***************************************************************************)
(* Events are numbered from one on: the first that is looked at is newer   *)
(* than none.                                                              *)
(***************************************************************************)
Numbered ==
    /\ \A i \in DOMAIN ring : ring[i].num > 0
    /\ slot # NULL => slot.num > 0
    /\ evt # NULL => evt.num > 0

LEMMA NumberedStep == TypeOK /\ Numbered /\ [Next]_vars => Numbered'
<1> SUFFICES ASSUME TypeOK, Numbered, [Next]_vars PROVE Numbered'
  OBVIOUS
<1>1. CASE Load \/ PollBegin \/ PollEnds \/ Rich \/ RichUndefined
           \/ MatchRule \/ MatchNothing \/ UNCHANGED vars
  BY <1>1 DEF Load, OpenFile, OpenFails, AddRule, FileDone, LoadDone,
     PollBegin, PollEnds, Rich, RichUndefined, MatchRule, MatchNothing, vars,
     pollVars, richVars, Numbered
<1>2. CASE HandleEvent \/ HandleTooBig
  <2>1. /\ ring \in Seq(Event) /\ ring # <<>> /\ ring' = Tail(ring)
        /\ slot' \in {slot, Head(ring)} /\ UNCHANGED evt
    BY <1>2 DEF HandleEvent, HandleTooBig, TypeOK, richVars
  <2>2. 1 \in DOMAIN ring /\ Head(ring) = ring[1]
    BY <2>1, Tailed
  <2>3. \A i \in DOMAIN ring' : i + 1 \in DOMAIN ring /\ ring'[i] = ring[i + 1]
    BY <2>1, Tailed
  <2> QED
    BY <2>1, <2>2, <2>3 DEF Numbered
<1>3. ASSUME NEW t \in Types, NEW b \in BOOLEAN, Submit(t, b)
      PROVE  Numbered'
  <2> DEFINE e == [num |-> produced + 1, type |-> t, big |-> b]
  <2>1. e \in Event /\ e.num > 0
    BY DetectAssumption DEF TypeOK, Event
  <2>2. ring \in Seq(Event) /\ ring' = Append(ring, e) /\ UNCHANGED <<slot, evt>>
    BY <1>3 DEF Submit, TypeOK, richVars
  <2> HIDE DEF e
  <2>3. \A i \in DOMAIN ring' :
           ring'[i] = e \/ (i \in DOMAIN ring /\ ring'[i] = ring[i])
    BY <2>1, <2>2, Appended
  <2> QED
    BY <2>1, <2>2, <2>3 DEF Numbered
<1> QED
  BY <1>1, <1>2, <1>3 DEF Next, Loop, Kernel

(***************************************************************************)
(* The steps of the feed.  Between the loading and the loop nothing of the *)
(* feed changes but that it is armed.                                      *)
(***************************************************************************)
LEMMA FeedStep ==
    ASSUME DetectInv, Numbered, [Next]_vars
    PROVE  [Feed!Next]_(Feed!vars)
<1>1. CASE OpenFile \/ OpenFails \/ FileDone \/ UNCHANGED vars
  BY <1>1 DEF OpenFile, OpenFails, FileDone, vars, loadVars, pollVars, richVars,
     Feed!vars, Armed
<1>2. CASE LoadDone
  <2>1. UNCHANGED <<rule_set, produced, evt, alerts>> /\ ~Armed
    BY <1>2 DEF LoadDone, loadVars, pollVars, richVars, Armed
  <2>2. CASE phase' = "poll"
    BY <2>1, <2>2 DEF Feed!Next, Feed!Arm, Armed
  <2>3. CASE phase' = "failed"
    BY <2>1, <2>3 DEF Feed!vars, Armed
  <2> QED
    BY <1>2, <2>2, <2>3 DEF LoadDone
<1>3. CASE AddRule
  <2>0. TypeOK
    BY DEF DetectInv
  <2>1. UNCHANGED <<phase, produced, evt, alerts>> /\ ~Armed /\ ~Armed'
    BY <1>3 DEF AddRule, pollVars, richVars, Armed
  <2>2. CASE Compiled(Head(todo)) = NULL
    BY <1>3, <2>0, <2>1, <2>2, RuleAdded DEF Feed!vars, Armed
  <2>3. CASE Compiled(Head(todo)) # NULL
    <3>1. /\ Head(todo) \in Rules /\ Compiled(Head(todo)) \in Rules
          /\ rule_set' = Append(rule_set, [rule |-> Head(todo),
                                           match |-> Compiled(Head(todo))])
      BY <1>3, <2>0, <2>3, RuleAdded
    <3> QED
      BY <2>1, <3>1 DEF Feed!Next, Feed!AddRule, Armed
  <2> QED
    BY <2>2, <2>3
<1>4. CASE PollBegin \/ HandleEvent \/ HandleTooBig \/ PollEnds
           \/ RichUndefined \/ MatchNothing
  BY <1>4 DEF PollBegin, HandleEvent, HandleTooBig, PollEnds, Polled,
     RichUndefined, MatchNothing, loadVars, pollVars, richVars, Feed!vars, Armed
<1>5. CASE Rich
  <2>1. /\ UNCHANGED <<rule_set, produced, alerts>> /\ Armed /\ Armed'
        /\ evt' = slot
    BY <1>5 DEF Rich, loadVars, pollVars, Armed
  <2>2. /\ slot \in Event /\ slot # NULL /\ slot.num <= produced
        /\ evt # NULL => evt.num < slot.num
    BY <1>5 DEF Rich, DetectInv, TypeOK, OrderInv, SlotNewer
  <2>3. slot.num > 0
    BY <2>2 DEF Numbered
  <2> QED
    BY <2>1, <2>2, <2>3 DEF Feed!Next, Feed!Look, Feed!SeenNum, Feed!Event, Event
<1>6. CASE MatchRule
  <2>1. /\ UNCHANGED <<rule_set, produced, evt>> /\ Armed /\ Armed'
    BY <1>6 DEF MatchRule, loadVars, pollVars, richVars, Armed
  <2>2. /\ evt \in Event /\ evt # NULL /\ rule_set \in Seq(Rec)
        /\ alerts \in Seq(Alert)
        /\ \A i \in DOMAIN alerts : alerts[i].event.num < evt.num
    BY <1>6 DEF MatchRule, DetectInv, TypeOK, OrderInv, SlotNewer, AlertsOlder,
       Rec, Alert
  <2>3. Feed!LastAlert < evt.num
    <3>1. CASE alerts = <<>>
      <4>1. evt.num > 0
        BY <2>2 DEF Numbered, DetectInv, OrderInv, SlotNewer, Event
      <4> QED
        BY <3>1, <4>1 DEF Feed!LastAlert
    <3>2. CASE alerts # <<>>
      <4>1. Len(alerts) \in DOMAIN alerts
        BY <2>2, <3>2
      <4> QED
        BY <2>2, <3>2, <4>1 DEF Feed!LastAlert
    <3> QED
      BY <3>1, <3>2
  <2>4. PICK n \in Accepting :
           /\ \A j \in Accepting : n <= j
           /\ alerts' = Append(alerts, [rule |-> rule_set[n].rule, index |-> n,
                                        event |-> evt])
    BY <1>6 DEF MatchRule
  <2>5. /\ n \in DOMAIN rule_set /\ DOMAIN rule_set = 1..Len(rule_set)
        /\ Len(rule_set) \in Nat /\ n \in Nat
        /\ evt.type \in Hits[rule_set[n].match]
    BY <2>2 DEF Accepting
  <2>6. \A k \in 1 .. n - 1 : evt.type \notin Hits[rule_set[k].match]
    <3>1. \A k \in 1 .. n - 1 : k \in DOMAIN rule_set /\ ~(n <= k)
      BY <2>5
    <3> QED
      BY <2>4, <3>1 DEF Accepting
  <2>7. Feed!Raise(n)
    BY <2>1, <2>2, <2>3, <2>4, <2>5, <2>6 DEF Feed!Raise, Feed!Accepts
  <2> QED
    BY <2>5, <2>7 DEF Feed!Next
<1>7. CASE Kernel
  BY <1>7 DEF Kernel, Submit, InLoop, loadVars, richVars, Feed!Next, Feed!Emit,
     Armed
<1> QED
  BY <1>1, <1>2, <1>3, <1>4, <1>5, <1>6, <1>7 DEF Next, Load, Loop

(* The ring, the poll's one slot, the enrichment and the matching implement
   the lossy feed of EventFeed: events are looked at in the order in which the
   kernel emitted them and never again, and each raises at most one alert, of
   the first of the rules that were all loaded before the loop began. *)

THEOREM FeedImplemented == Spec => ImplementsFeed
<1>1. Init => Feed!Init /\ Numbered
  BY DEF Init, Feed!Init, Armed, Numbered
<1> QED
  BY <1>1, FeedStep, NumberedStep, DetectInvariant, DetectTypes, PTL
     DEF Spec, ImplementsFeed, Feed!Spec
===============================================================================
