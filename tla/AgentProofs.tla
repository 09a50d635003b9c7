----------------------------- MODULE AgentProofs ------------------------------
(***************************************************************************)
(* The safety of the agent's life cycle, for any number of messages,       *)
(* alerts, alert workers and signals.                                      *)
(***************************************************************************)
EXTENDS Agent, SequenceTheorems, FiniteSetTheorems, TLAPS

Active == {"check", "stop", "join", "free", "null"}

(***************************************************************************)
(* A handler at work is at an owner, and stops and joins those with pools. *)
(***************************************************************************)
HandlersAt ==
    \A h \in Signals :
        /\ handler[h].at \in Active => handler[h].owner \in Owners
        /\ handler[h].at \in {"stop", "join"} => handler[h].owner \in Pools

(***************************************************************************)
(* Until a signal is taken no handler runs; main holds the alert's lock    *)
(* only with an alert to put behind it.                                    *)
(***************************************************************************)
MainAt ==
    /\ main # "handler" => \A h \in Signals : handler[h] = Idle
    /\ main = "handler" => handler[1].at # "idle"
    /\ main \in {"init", "typed", "parse"} => held = 0
    /\ main = "loop" /\ held = ALERT => alerts < MaxAlerts

\* The log thread has a message in its hands only between pop and write.
LogAt == logger # "got" => got = <<>>

(***************************************************************************)
(* The one handler, from the stage reached last down to the owner it is    *)
(* at: what it has passed is null, what lies before it is untouched, and   *)
(* only owners without a pool are ever raw.                                *)
(***************************************************************************)
H == handler[1]

Untouched(c) ==
    /\ pool[c] \in {"none", "open"}
    /\ inst[c] = "live" <=> pool[c] = "open"

Before(c) ==
    \/ H.at = "idle"
    \/ H.at \in {"check", "stop"} /\ c <= H.owner
    \/ H.at \in {"join", "free", "null"} /\ c < H.owner

Passed(c) ==
    /\ H.at # "idle"
    /\ c <= type
    /\ H.at = "exited" \/ c > H.owner

OneHandler ==
    /\ H.on = 0
    /\ \A c \in Owners : inst[c] = "freed" => H.at = "null" /\ H.owner = c
    /\ H.at \in {"stop", "join", "free"} => inst[H.owner] \in {"live", "raw"}
    /\ \A c \in Pools : inst[c] # "raw"
    /\ \A c \in Pools : Before(c) => Untouched(c)
    /\ H.at = "join" => pool[H.owner] = "closing"
    /\ H.at \in {"free", "null"} /\ H.owner \in Pools => pool[H.owner] = "gone"
    /\ \A c \in Owners : Passed(c) => inst[c] = "null"

(***************************************************************************)
(* A pool that was joined runs nothing.                                    *)
(***************************************************************************)
JoinedIdle ==
    /\ pool[LOG] = "gone" => logger = "ended"
    /\ pool[ALERT] = "gone" => sending = {}
    /\ pool[PROCESS_CACHE] = "gone" => ~cacheBusy

OnceInv ==
    Once => /\ UsersGoneFirst
            /\ fault = "none" => OneHandler /\ JoinedIdle
            /\ ReleasedAtExit

AgentInv == TypeOK /\ HandlersAt /\ MainAt /\ LogAt /\ OnceInv

HandlerRecords ==
    [at : {"idle", "check", "stop", "join", "free", "null", "exited"},
     on : Pools \cup {0}, num : {"INT", "USR1"}, owner : Owners \cup {0}]

(***************************************************************************)
(* The greatest owner up to a stage.                                       *)
(***************************************************************************)
LEMMA GreatestOwner ==
    ASSUME NEW t \in -1 .. ENGINE, UpTo(t) # {}
    PROVE  /\ Max(UpTo(t)) \in Owners
           /\ Max(UpTo(t)) <= t
           /\ \A c \in Owners : c <= t => c <= Max(UpTo(t))
<1> USE DEF ARGS, CONFIG, LOG, HASH_MAP, PROCESS_CACHE, MACHINE_STATUS,
        EVENT_QUEUE, EVENT_RICH, ALERT, RULE_ENGINE, ENGINE
<1>1. \E x \in UpTo(t) : \A y \in UpTo(t) : x >= y
  <2>1. CASE t \in 1 .. 5
    <3>1. t \in UpTo(t)
      BY <2>1 DEF UpTo, Owners
    <3> QED
      BY <3>1 DEF UpTo, Owners
  <2>2. CASE t \in 6 .. 8
    <3>1. 5 \in UpTo(t)
      BY <2>2 DEF UpTo, Owners
    <3> QED
      BY <2>2, <3>1 DEF UpTo, Owners
  <2>3. CASE t = 9
    <3>1. 9 \in UpTo(t)
      BY <2>3 DEF UpTo, Owners
    <3> QED
      BY <2>3, <3>1 DEF UpTo, Owners
  <2>4. CASE t \in 10 .. 11
    <3>1. 10 \in UpTo(t)
      BY <2>4 DEF UpTo, Owners
    <3> QED
      BY <2>4, <3>1 DEF UpTo, Owners
  <2>5. CASE t < 1
    BY <2>5 DEF UpTo, Owners
  <2> QED
    BY <2>1, <2>2, <2>3, <2>4, <2>5
<1>2. Max(UpTo(t)) \in UpTo(t) /\ \A y \in UpTo(t) : Max(UpTo(t)) >= y
  BY <1>1 DEF Max
<1>3. UpTo(t) \subseteq Int
  BY DEF UpTo, Owners
<1> QED
  BY <1>2, <1>3 DEF UpTo, Owners

(***************************************************************************)
(* The cleanup entered at a stage, or going on below an owner: it is at    *)
(* the greatest owner there, or done because there is none.                *)
(***************************************************************************)
LEMMA Entered ==
    ASSUME NEW rec \in HandlerRecords, NEW t \in -1 .. ENGINE
    PROVE  /\ EnterAt(rec, t) \in HandlerRecords
           /\ EnterAt(rec, t).on = rec.on
           /\ EnterAt(rec, t).at \in {"check", "exited"}
           /\ EnterAt(rec, t).at = "check" =>
                 /\ EnterAt(rec, t).owner \in Owners
                 /\ EnterAt(rec, t).owner <= t
                 /\ \A c \in Owners : c <= t => c <= EnterAt(rec, t).owner
           /\ EnterAt(rec, t).at = "exited" => \A c \in Owners : ~(c <= t)
<1>1. CASE UpTo(t) = {}
  <2>1. \A c \in Owners : ~(c <= t)
    BY <1>1 DEF UpTo
  <2> QED
    BY <1>1, <2>1 DEF EnterAt, HandlerRecords
<1>2. CASE UpTo(t) # {}
  <2>1. PICK o \in Owners : /\ o = Max(UpTo(t))
                            /\ o <= t
                            /\ \A c \in Owners : c <= t => c <= o
    BY <1>2, GreatestOwner
  <2>2. EnterAt(rec, t) = [rec EXCEPT !.at = "check", !.owner = o]
    BY <1>2, <2>1 DEF EnterAt
  <2> QED
    BY <2>1, <2>2 DEF HandlerRecords
<1> QED
  BY <1>1, <1>2

(***************************************************************************)
(* The three ways a handler moves leave the other handlers where they are. *)
(***************************************************************************)
LEMMA Advanced ==
    ASSUME TypeOK, HandlersAt, NEW h \in Signals, handler[h].at \in Active,
           NextOwner(h)
    PROVE  /\ handler' \in [Signals -> HandlerRecords]
           /\ \A k \in Signals \ {h} : handler'[k] = handler[k]
           /\ handler'[h].on = handler[h].on
           /\ handler'[h].at \in {"check", "exited"}
           /\ handler'[h].at = "check" =>
                 /\ handler'[h].owner \in Owners
                 /\ handler'[h].owner < handler[h].owner
                 /\ \A c \in Owners :
                       c < handler[h].owner => c <= handler'[h].owner
           /\ handler'[h].at = "exited" =>
                 \A c \in Owners : ~(c < handler[h].owner)
<1>1. handler \in [Signals -> HandlerRecords]
  BY DEF TypeOK, HandlerRecords
<1>2. handler[h].owner \in Owners
  BY DEF HandlersAt
<1> DEFINE t == handler[h].owner - 1
           rec == EnterAt(handler[h], t)
<1>3. /\ Owners \subseteq Int
      /\ t \in -1 .. ENGINE
  BY <1>2 DEF Owners, ARGS, CONFIG, LOG, HASH_MAP, PROCESS_CACHE, ALERT,
     RULE_ENGINE, ENGINE
<1>4. /\ rec \in HandlerRecords
      /\ rec.on = handler[h].on
      /\ rec.at \in {"check", "exited"}
      /\ rec.at = "check" => /\ rec.owner \in Owners
                             /\ rec.owner <= t
                             /\ \A c \in Owners : c <= t => c <= rec.owner
      /\ rec.at = "exited" => \A c \in Owners : ~(c <= t)
  BY <1>1, <1>3, Entered
<1>5. handler' = [handler EXCEPT ![h] = rec]
  BY DEF NextOwner
<1>6. handler'[h] = rec /\ \A k \in Signals \ {h} : handler'[k] = handler[k]
  BY <1>1, <1>5
<1>7. \A c \in Owners : (c <= t) <=> (c < handler[h].owner)
  <2>1. \A x, y \in Int : (x <= y - 1) <=> (x < y)
    OBVIOUS
  <2> QED
    BY <1>2, <1>3, <2>1
<1> HIDE DEF rec, t
<1>8. handler' \in [Signals -> HandlerRecords]
  BY <1>1, <1>4, <1>5
<1>9. rec.at = "check" => rec.owner < handler[h].owner
  BY <1>4, <1>7
<1> QED
  BY <1>4, <1>6, <1>7, <1>8, <1>9

LEMMA Stepped ==
    ASSUME TypeOK, NEW h \in Signals,
           NEW at \in {"idle", "check", "stop", "join", "free", "null", "exited"},
           Step(h, at)
    PROVE  /\ handler' \in [Signals -> HandlerRecords]
           /\ \A k \in Signals \ {h} : handler'[k] = handler[k]
           /\ handler'[h].at = at
           /\ handler'[h].on = handler[h].on
           /\ handler'[h].owner = handler[h].owner
<1>1. handler \in [Signals -> HandlerRecords]
  BY DEF TypeOK, HandlerRecords
<1> QED
  BY <1>1 DEF Step, HandlerRecords

LEMMA Delivered ==
    ASSUME TypeOK, NEW h \in Signals, NEW on \in Pools \cup {0},
           NEW num \in {"INT", "USR1"}, Deliver(h, on, num)
    PROVE  /\ handler' \in [Signals -> HandlerRecords]
           /\ \A k \in Signals \ {h} : handler'[k] = handler[k]
           /\ handler'[h].on = on
           /\ handler'[h].at \in {"check", "exited"}
           /\ handler'[h].at = "check" =>
                 /\ handler'[h].owner \in Owners
                 /\ \A c \in Owners : c <= type => c <= handler'[h].owner
           /\ handler'[h].at = "exited" => \A c \in Owners : ~(c <= type)
<1> DEFINE new == [Idle EXCEPT !.on = on, !.num = num]
           rec == EnterAt(new, type)
<1>1. handler \in [Signals -> HandlerRecords]
  BY DEF TypeOK, HandlerRecords
<1>2. new \in HandlerRecords /\ new.on = on
  BY DEF Idle, HandlerRecords
<1>3. type \in -1 .. ENGINE
  BY DEF TypeOK, Stages, ARGS, ENGINE
<1> HIDE DEF new
<1>4. /\ rec \in HandlerRecords
      /\ rec.on = on
      /\ rec.at \in {"check", "exited"}
      /\ rec.at = "check" => /\ rec.owner \in Owners
                             /\ rec.owner <= type
                             /\ \A c \in Owners : c <= type => c <= rec.owner
      /\ rec.at = "exited" => \A c \in Owners : ~(c <= type)
  BY <1>2, <1>3, Entered
<1>5. handler' = [handler EXCEPT ![h] = rec]
  BY DEF Deliver, new
<1> HIDE DEF rec
<1> QED
  BY <1>1, <1>4, <1>5

(***************************************************************************)
(* What the queues hold stays of their type.                               *)
(***************************************************************************)
LEMMA SequenceTypes ==
    ASSUME NEW S, NEW s \in Seq(S)
    PROVE  /\ \A x \in S : Append(s, x) \in Seq(S)
           /\ s # <<>> => Head(s) \in S /\ Tail(s) \in Seq(S) /\ <<Head(s)>> \in Seq(S)
           /\ \A t \in Seq(S) : s \o t \in Seq(S)
           /\ <<>> \in Seq(S)
<1>1. s # <<>> => Head(s) \in S /\ Tail(s) \in Seq(S)
  OBVIOUS
<1>2. \A x \in S : <<x>> \in Seq(S)
  OBVIOUS
<1> QED
  BY <1>1, <1>2

(***************************************************************************)
(* A failure is logged, through whatever the log's pointer is.             *)
(***************************************************************************)
LEMMA Reports ==
    ASSUME TypeOK, Report
    PROVE  /\ logged' \in Nat
           /\ logQ' \in Seq(Nat)
           /\ fault' \in {"none", "null", "freed", "unset", "double"}
<1>1. CASE stage \in Reported
  <2>1. logged' \in Nat /\ logged + 1 \in Nat
    BY <1>1 DEF Report, Push, TypeOK
  <2>2. logQ' \in Seq(Nat)
    <3>1. logQ' = Append(logQ, logged + 1) /\ logQ \in Seq(Nat)
      BY <1>1 DEF Report, Push, TypeOK
    <3> QED
      BY <2>1, <3>1, SequenceTypes
  <2>3. fault' \in {"none", "null", "freed", "unset", "double"}
    BY <1>1 DEF Report, Touch, TypeOK, Owners
  <2> QED
    BY <2>1, <2>2, <2>3
<1>2. CASE stage \notin Reported
  BY <1>2 DEF Report, TypeOK
<1> QED
  BY <1>1, <1>2

(***************************************************************************)
(* Every action keeps the types.                                           *)
(***************************************************************************)
LEMMA TypeStep == AgentInv /\ [Next]_vars => TypeOK'
<1> SUFFICES ASSUME AgentInv, [Next]_vars PROVE TypeOK'
  OBVIOUS
<1>1. ASSUME NEW h \in Signals, Check(h)
      PROVE  TypeOK'
  <2>1. handler[h].at = "check"
    BY <1>1 DEF Check, Runs
  <2>2. handler' \in [Signals -> HandlerRecords]
    <3>1. CASE inst[handler[h].owner] = "null"
      BY <1>1, <2>1, <3>1, Advanced DEF Check, AgentInv, Active
    <3>2. CASE inst[handler[h].owner] # "null"
      BY <1>1, <3>2, Stepped DEF Check, AgentInv
    <3> QED
      BY <3>1, <3>2
  <2> QED
    BY <1>1, <2>2 DEF Check, AgentInv, TypeOK, HandlerRecords, mainVars, memVars,
       logVars, alertVars
<1>2. ASSUME NEW h \in Signals, Stop(h)
      PROVE  TypeOK'
  <2>1. handler' \in [Signals -> HandlerRecords]
    BY <1>2, Stepped DEF Stop, AgentInv
  <2>2. pool' \in [Pools -> {"none", "open", "closing", "gone"}]
    BY <1>2 DEF Stop, AgentInv, TypeOK
  <2>3. fault' \in {"none", "null", "freed", "unset", "double"}
    <3>1. handler[h].owner \in Owners
      BY <1>2 DEF Stop, Runs, AgentInv, HandlersAt, Active
    <3> QED
      BY <1>2, <3>1 DEF Stop, Touch, AgentInv, TypeOK
  <2> QED
    BY <1>2, <2>1, <2>2, <2>3 DEF Stop, AgentInv, TypeOK, HandlerRecords, mainVars,
       logVars, alertVars
<1>3. ASSUME NEW h \in Signals, Join(h)
      PROVE  TypeOK'
  <2>1. handler' \in [Signals -> HandlerRecords]
    BY <1>3, Stepped DEF Join, AgentInv
  <2>2. pool' \in [Pools -> {"none", "open", "closing", "gone"}]
    BY <1>3 DEF Join, AgentInv, TypeOK
  <2>3. fault' \in {"none", "null", "freed", "unset", "double"}
    <3>1. handler[h].owner \in Owners
      BY <1>3 DEF Join, Runs, AgentInv, HandlersAt, Active
    <3> QED
      BY <1>3, <3>1 DEF Join, Touch, AgentInv, TypeOK
  <2>4. alertQ' \in Seq(1 .. MaxAlerts)
    BY <1>3, SequenceTypes DEF Join, AgentInv, TypeOK
  <2> QED
    BY <1>3, <2>1, <2>2, <2>3, <2>4 DEF Join, AgentInv, TypeOK, HandlerRecords,
       mainVars, logVars
<1>4. ASSUME NEW h \in Signals, Free(h)
      PROVE  TypeOK'
  <2>1. handler' \in [Signals -> HandlerRecords]
    BY <1>4, Stepped DEF Free, AgentInv
  <2>2. inst' \in [Owners -> {"null", "raw", "live", "freed"}]
    BY <1>4 DEF Free, AgentInv, TypeOK
  <2>3. fault' \in {"none", "null", "freed", "unset", "double"}
    <3>1. handler[h].owner \in Owners
      BY <1>4 DEF Free, Runs, AgentInv, HandlersAt, Active
    <3> QED
      BY <1>4, <3>1 DEF Free, Touch, Spoiled, AgentInv, TypeOK
  <2>4. logQ' \in Seq(Nat)
    BY <1>4, SequenceTypes DEF Free, AgentInv, TypeOK
  <2> QED
    BY <1>4, <2>1, <2>2, <2>3, <2>4 DEF Free, AgentInv, TypeOK, HandlerRecords,
       mainVars, alertVars
<1>5. ASSUME NEW h \in Signals, SetNull(h)
      PROVE  TypeOK'
  <2>1. handler' \in [Signals -> HandlerRecords]
    BY <1>5, Advanced DEF SetNull, Runs, AgentInv, Active
  <2>2. inst' \in [Owners -> {"null", "raw", "live", "freed"}]
    BY <1>5 DEF SetNull, AgentInv, TypeOK
  <2> QED
    BY <1>5, <2>1, <2>2 DEF SetNull, AgentInv, TypeOK, HandlerRecords,
       mainVars, logVars, alertVars
<1>6. CASE SignalMain
  <2>1. 1 \in Signals
    BY AgentAssumption DEF Signals
  <2>2. handler' \in [Signals -> HandlerRecords]
    BY <1>6, <2>1, Delivered DEF SignalMain, AgentInv
  <2> QED
    BY <1>6, <2>2 DEF SignalMain, AgentInv, TypeOK, HandlerRecords,
       memVars, logVars, alertVars
<1>7. ASSUME NEW h \in Signals, NEW on \in Pools \cup {0}, SignalAgain(h, on)
      PROVE  TypeOK'
  <2>1. handler' \in [Signals -> HandlerRecords]
    BY <1>7, Delivered DEF SignalAgain, AgentInv
  <2> QED
    BY <1>7, <2>1 DEF SignalAgain, AgentInv, TypeOK, HandlerRecords, mainVars,
       memVars, logVars, alertVars
<1>8. CASE LogTaken
  BY <1>8 DEF LogTaken, mainVars, memVars, logVars, alertVars, AgentInv,
     TypeOK
<1>9. CASE LogDiscarded
  BY <1>9 DEF LogDiscarded, mainVars, memVars, logVars, alertVars, AgentInv,
     TypeOK
<1>10. CASE LogPop
  <2>1. /\ got' \in Seq(Nat)
        /\ logQ' \in Seq(Nat)
    BY <1>10, SequenceTypes DEF LogPop, AgentInv, TypeOK
  <2>2. fault' \in {"none", "null", "freed", "unset", "double"}
    BY <1>10 DEF LogPop, Touch, AgentInv, TypeOK, Owners
  <2> QED
    BY <1>10, <2>1, <2>2 DEF LogPop, AgentInv, TypeOK, mainVars, memVars, alertVars
<1>11. CASE LogWrite
  <2>1. /\ got' \in Seq(Nat)
        /\ written' \in Seq(Nat)
    BY <1>11, SequenceTypes DEF LogWrite, AgentInv, TypeOK
  <2>2. fault' \in {"none", "null", "freed", "unset", "double"}
    BY <1>11 DEF LogWrite, Touch, AgentInv, TypeOK, Owners
  <2> QED
    BY <1>11, <2>1, <2>2 DEF LogWrite, AgentInv, TypeOK, mainVars, memVars, alertVars
<1>12. CASE AlertTaken
  <2>1. /\ alertQ' \in Seq(1 .. MaxAlerts)
        /\ sending' \in SUBSET (1 .. MaxAlerts)
    BY <1>12, SequenceTypes DEF AlertTaken, AgentInv, TypeOK
  <2> QED
    BY <1>12, <2>1 DEF AlertTaken, AgentInv, TypeOK, mainVars, memVars, logVars
<1>13. ASSUME NEW a \in sending, AlertSent(a)
      PROVE  TypeOK'
  BY <1>13 DEF AlertSent, mainVars, memVars, logVars, alertVars, Touch,
     Owners, AgentInv, TypeOK
<1>14. CASE CacheTaskStarts
  BY <1>14 DEF CacheTaskStarts, mainVars, memVars, logVars, alertVars,
     AgentInv, TypeOK
<1>15. CASE CacheTaskEnds
  BY <1>15 DEF CacheTaskEnds, mainVars, memVars, logVars, alertVars, Touch,
     Owners, AgentInv, TypeOK
<1>16. CASE InitSucceeds
  <2>1. inst' \in [Owners -> {"null", "raw", "live", "freed"}]
    BY <1>16 DEF InitSucceeds, Fresh, AgentInv, TypeOK
  <2> QED
    BY <1>16, <2>1 DEF InitSucceeds, mainVars, logVars, alertVars, AgentInv, TypeOK
<1>17. CASE SetType
  <2>1. /\ stage' \in Stages /\ type' \in 0 .. stage'
        /\ main' \in {"init", "typed", "parse", "loop", "handler"}
    <3>1. stage \in 1 .. 11
      BY DEF AgentInv, TypeOK, Stages, ARGS, ENGINE
    <3>2. /\ type' = stage
          /\ stage' = stage \/ (stage # 11 /\ stage' = stage + 1)
          /\ main' \in {"init", "parse", "loop"}
      BY <1>17 DEF SetType, NextStage, ENGINE
    <3> QED
      BY <3>1, <3>2 DEF Stages, ARGS, ENGINE
  <2> QED
    BY <1>17, <2>1 DEF SetType, memVars, logVars, alertVars, AgentInv, TypeOK
<1>18. CASE InitFailsFatally
  <2>1. 1 \in Signals
    BY AgentAssumption DEF Signals
  <2>2. handler' \in [Signals -> HandlerRecords]
    BY <1>18, <2>1, Delivered DEF InitFailsFatally, AgentInv
  <2>3. inst' \in [Owners -> {"null", "raw", "live", "freed"}]
    BY <1>18 DEF InitFailsFatally, Fresh, AgentInv, TypeOK
  <2>4. /\ logged' \in Nat
        /\ logQ' \in Seq(Nat)
        /\ fault' \in {"none", "null", "freed", "unset", "double"}
    BY <1>18, Reports DEF InitFailsFatally, AgentInv
  <2> QED
    BY <1>18, <2>2, <2>3, <2>4 DEF InitFailsFatally, AgentInv, TypeOK,
       HandlerRecords, alertVars
<1>19. CASE InitFails
  <2>1. /\ logged' \in Nat
        /\ logQ' \in Seq(Nat)
        /\ fault' \in {"none", "null", "freed", "unset", "double"}
    BY <1>19, Reports DEF InitFails, AgentInv
  <2>2. stage' \in Stages /\ type' \in 0 .. stage'
        /\ main' \in {"init", "typed", "parse", "loop", "handler"}
    <3>1. /\ stage \in 1 .. 11
          /\ type \in 0 .. stage
      BY DEF AgentInv, TypeOK, Stages, ARGS, ENGINE
    <3>2. /\ type' = type
          /\ stage' = stage \/ (stage # 11 /\ stage' = stage + 1)
          /\ main' \in {"init", "parse", "loop"}
      BY <1>19 DEF InitFails, NextStage, ENGINE
    <3> QED
      BY <3>1, <3>2 DEF Stages, ARGS, ENGINE
  <2> QED
    BY <1>19, <2>1, <2>2 DEF InitFails, AgentInv, TypeOK, memVars, alertVars
<1>20. CASE ConfigLoadLogs
  BY <1>20 DEF ConfigLoadLogs, mainVars, memVars, logVars, alertVars, Touch,
     Owners, AgentInv, TypeOK
<1>21. ASSUME NEW c \in Pools, TakeLock(c)
      PROVE  TypeOK'
  BY <1>21 DEF TakeLock, mainVars, memVars, logVars, alertVars, AgentInv,
     TypeOK
<1>22. CASE LogAndUnlock
  <2>2. logged' \in Nat /\ logged + 1 \in Nat
    BY <1>22 DEF LogAndUnlock, Push, AgentInv, TypeOK
  <2>3. logQ' \in Seq(Nat)
    BY <1>22, <2>2, SequenceTypes DEF LogAndUnlock, Push, AgentInv, TypeOK
  <2> QED
    BY <1>22, <2>2, <2>3 DEF LogAndUnlock, AgentInv, TypeOK, memVars, alertVars
<1>23. CASE LookupAndUnlock
  BY <1>23 DEF LookupAndUnlock, mainVars, memVars, logVars, alertVars,
     AgentInv, TypeOK
<1>24. CASE SendAndUnlock
  <2>1. alerts < MaxAlerts
    BY <1>24 DEF SendAndUnlock, AgentInv, MainAt
  <2>2. alerts' \in 0 .. MaxAlerts /\ alerts + 1 \in 1 .. MaxAlerts
    BY <1>24, <2>1, AgentAssumption DEF SendAndUnlock, AgentInv, TypeOK
  <2>3. alertQ' \in Seq(1 .. MaxAlerts)
    BY <1>24, <2>2, SequenceTypes DEF SendAndUnlock, AgentInv, TypeOK
  <2> QED
    BY <1>24, <2>2, <2>3 DEF SendAndUnlock, AgentInv, TypeOK, memVars, logVars
<1>25. CASE UNCHANGED vars
  BY <1>25 DEF vars, mainVars, memVars, logVars, alertVars, AgentInv, TypeOK
<1>26. CASE ParseArgs
  BY <1>26 DEF ParseArgs, mainVars, logVars, alertVars, AgentInv, TypeOK
<1>27. CASE UnsetOption
  BY <1>27 DEF UnsetOption, mainVars, memVars, logVars, alertVars, AgentInv,
     TypeOK
<1> QED
  BY <1>1, <1>2, <1>3, <1>4, <1>5, <1>6, <1>7, <1>8, <1>9, <1>10, <1>11,
     <1>12, <1>13, <1>14, <1>15, <1>16, <1>17, <1>18, <1>19, <1>20, <1>21,
     <1>22, <1>23, <1>24, <1>25, <1>26, <1>27
     DEF Next, MainStep, WorkerStep, LogStep, HandlerStep

(***************************************************************************)
(* A handler always is at an owner, and stops and joins those with pools.  *)
(***************************************************************************)
LEMMA HandlersStep == AgentInv /\ [Next]_vars => HandlersAt'
<1> SUFFICES ASSUME AgentInv, [Next]_vars PROVE HandlersAt'
  OBVIOUS
<1>1. ASSUME NEW h \in Signals, Check(h)
      PROVE  HandlersAt'
  <2>1. handler[h].at = "check"
    BY <1>1 DEF Check, Runs
  <2>2. CASE inst[handler[h].owner] = "null"
    <3>1. handler[h].at \in Active /\ NextOwner(h)
      BY <1>1, <2>1, <2>2 DEF Check, Active
    <3>2. /\ \A k \in Signals \ {h} : handler'[k] = handler[k]
          /\ handler'[h].at \in {"check", "exited"}
          /\ handler'[h].at = "check" => handler'[h].owner \in Owners
      BY <3>1, Advanced DEF AgentInv
    <3> QED
      BY <3>2 DEF AgentInv, HandlersAt, Active
  <2>3. CASE inst[handler[h].owner] # "null"
    <3>1. handler[h].owner \in Owners
      BY <2>1 DEF AgentInv, HandlersAt, Active
    <3>2. /\ \A k \in Signals \ {h} : handler'[k] = handler[k]
          /\ handler'[h].owner = handler[h].owner
          /\ handler'[h].at \in {"stop", "free"}
          /\ handler'[h].at = "stop" => handler[h].owner \in Pools
      BY <1>1, <2>3, Stepped DEF Check, AgentInv
    <3> QED
      BY <3>1, <3>2 DEF AgentInv, HandlersAt, Active
  <2> QED
    BY <2>2, <2>3
<1>2. ASSUME NEW h \in Signals, Stop(h)
      PROVE  HandlersAt'
  <2>1. handler[h].owner \in Owners
    BY <1>2 DEF Stop, Runs, AgentInv, HandlersAt, Active
  <2>2. /\ \A k \in Signals \ {h} : handler'[k] = handler[k]
        /\ handler'[h].owner = handler[h].owner
        /\ handler'[h].at \in {"join", "free", "null"}
        /\ handler'[h].at = "join" => handler[h].at = "stop"
    BY <1>2, Stepped DEF Stop, Runs, AgentInv
  <2> QED
    BY <2>1, <2>2 DEF AgentInv, HandlersAt, Active
<1>3. ASSUME NEW h \in Signals, Join(h)
      PROVE  HandlersAt'
  <2>1. handler[h].owner \in Owners
    BY <1>3 DEF Join, Runs, AgentInv, HandlersAt, Active
  <2>2. /\ \A k \in Signals \ {h} : handler'[k] = handler[k]
        /\ handler'[h].owner = handler[h].owner
        /\ handler'[h].at \in {"join", "free", "null"}
        /\ handler'[h].at = "join" => handler[h].at = "stop"
    BY <1>3, Stepped DEF Join, Runs, AgentInv
  <2> QED
    BY <2>1, <2>2 DEF AgentInv, HandlersAt, Active
<1>4. ASSUME NEW h \in Signals, Free(h)
      PROVE  HandlersAt'
  <2>1. handler[h].owner \in Owners
    BY <1>4 DEF Free, Runs, AgentInv, HandlersAt, Active
  <2>2. /\ \A k \in Signals \ {h} : handler'[k] = handler[k]
        /\ handler'[h].owner = handler[h].owner
        /\ handler'[h].at \in {"join", "free", "null"}
        /\ handler'[h].at = "join" => handler[h].at = "stop"
    BY <1>4, Stepped DEF Free, Runs, AgentInv
  <2> QED
    BY <2>1, <2>2 DEF AgentInv, HandlersAt, Active
<1>5. ASSUME NEW h \in Signals, SetNull(h)
      PROVE  HandlersAt'
  <2>1. handler[h].at \in Active /\ NextOwner(h)
    BY <1>5 DEF SetNull, Runs, Active
  <2>2. /\ \A k \in Signals \ {h} : handler'[k] = handler[k]
        /\ handler'[h].at \in {"check", "exited"}
        /\ handler'[h].at = "check" => handler'[h].owner \in Owners
    BY <2>1, Advanced DEF AgentInv
  <2> QED
    BY <2>2 DEF AgentInv, HandlersAt, Active
<1>6. CASE SignalMain
  <2>1. /\ \A k \in Signals \ {1} : handler'[k] = handler[k]
        /\ handler'[1].at \in {"check", "exited"}
        /\ handler'[1].at = "check" => handler'[1].owner \in Owners
    BY <1>6, Delivered, AgentAssumption DEF SignalMain, AgentInv, Signals
  <2> QED
    BY <2>1 DEF AgentInv, HandlersAt, Active
<1>7. ASSUME NEW h \in Signals, NEW on \in Pools \cup {0}, SignalAgain(h, on)
      PROVE  HandlersAt'
  <2>1. /\ \A k \in Signals \ {h} : handler'[k] = handler[k]
        /\ handler'[h].at \in {"check", "exited"}
        /\ handler'[h].at = "check" => handler'[h].owner \in Owners
    BY <1>7, Delivered, AgentAssumption DEF SignalAgain, AgentInv, Signals
  <2> QED
    BY <2>1 DEF AgentInv, HandlersAt, Active
<1>8. CASE LogTaken
  BY <1>8 DEF LogTaken, mainVars, memVars, logVars, alertVars, AgentInv,
     HandlersAt
<1>9. CASE LogDiscarded
  BY <1>9 DEF LogDiscarded, mainVars, memVars, logVars, alertVars, AgentInv,
     HandlersAt
<1>10. CASE LogPop
  BY <1>10 DEF LogPop, mainVars, memVars, logVars, alertVars, AgentInv,
     HandlersAt
<1>11. CASE LogWrite
  BY <1>11 DEF LogWrite, mainVars, memVars, logVars, alertVars, AgentInv,
     HandlersAt
<1>12. CASE AlertTaken
  BY <1>12 DEF AlertTaken, mainVars, memVars, logVars, alertVars, AgentInv,
     HandlersAt
<1>13. ASSUME NEW a \in sending, AlertSent(a)
      PROVE  HandlersAt'
  BY <1>13 DEF AlertSent, mainVars, memVars, logVars, alertVars, AgentInv,
     HandlersAt
<1>14. CASE CacheTaskStarts
  BY <1>14 DEF CacheTaskStarts, mainVars, memVars, logVars, alertVars,
     AgentInv, HandlersAt
<1>15. CASE CacheTaskEnds
  BY <1>15 DEF CacheTaskEnds, mainVars, memVars, logVars, alertVars, AgentInv,
     HandlersAt
<1>16. CASE InitSucceeds
  BY <1>16 DEF InitSucceeds, mainVars, memVars, logVars, alertVars, AgentInv,
     HandlersAt
<1>17. CASE SetType
  BY <1>17 DEF SetType, mainVars, memVars, logVars, alertVars, AgentInv,
     HandlersAt
<1>18. CASE InitFailsFatally
  <2>1. /\ \A k \in Signals \ {1} : handler'[k] = handler[k]
        /\ handler'[1].at \in {"check", "exited"}
        /\ handler'[1].at = "check" => handler'[1].owner \in Owners
    BY <1>18, Delivered, AgentAssumption DEF InitFailsFatally, AgentInv, Signals
  <2> QED
    BY <2>1 DEF AgentInv, HandlersAt, Active
<1>19. CASE InitFails
  BY <1>19 DEF InitFails, mainVars, memVars, logVars, alertVars, AgentInv,
     HandlersAt
<1>20. CASE ConfigLoadLogs
  BY <1>20 DEF ConfigLoadLogs, mainVars, memVars, logVars, alertVars,
     AgentInv, HandlersAt
<1>21. ASSUME NEW c \in Pools, TakeLock(c)
      PROVE  HandlersAt'
  BY <1>21 DEF TakeLock, mainVars, memVars, logVars, alertVars, AgentInv,
     HandlersAt
<1>22. CASE LogAndUnlock
  BY <1>22 DEF LogAndUnlock, mainVars, memVars, logVars, alertVars, AgentInv,
     HandlersAt
<1>23. CASE LookupAndUnlock
  BY <1>23 DEF LookupAndUnlock, mainVars, memVars, logVars, alertVars,
     AgentInv, HandlersAt
<1>24. CASE SendAndUnlock
  BY <1>24 DEF SendAndUnlock, mainVars, memVars, logVars, alertVars, AgentInv,
     HandlersAt
<1>25. CASE UNCHANGED vars
  BY <1>25 DEF vars, mainVars, memVars, logVars, alertVars, AgentInv,
     HandlersAt
<1>26. CASE ParseArgs
  BY <1>26 DEF ParseArgs, AgentInv, HandlersAt
<1>27. CASE UnsetOption
  BY <1>27 DEF UnsetOption, AgentInv, HandlersAt
<1> QED
  BY <1>1, <1>2, <1>3, <1>4, <1>5, <1>6, <1>7, <1>8, <1>9, <1>10, <1>11,
     <1>12, <1>13, <1>14, <1>15, <1>16, <1>17, <1>18, <1>19, <1>20, <1>21,
     <1>22, <1>23, <1>24, <1>25, <1>26, <1>27
     DEF Next, MainStep, WorkerStep, LogStep, HandlerStep

(***************************************************************************)
(* Handlers start with a signal; a lock is held with room behind it.       *)
(***************************************************************************)
LEMMA MainStepKept == AgentInv /\ [Next]_vars => MainAt'
<1> SUFFICES ASSUME AgentInv, [Next]_vars PROVE MainAt'
  OBVIOUS
<1>1. ASSUME NEW h \in Signals, Check(h)
      PROVE  MainAt'
  <2>1. handler[h].at = "check"
    BY <1>1 DEF Check, Runs
  <2>2. main = "handler" /\ main' = "handler"
    BY <1>1, <2>1 DEF Check, AgentInv, MainAt, Idle, mainVars
  <2>3. handler'[1].at # "idle"
    <3>1. CASE inst[handler[h].owner] = "null"
      <4>1. /\ \A k \in Signals \ {h} : handler'[k] = handler[k]
            /\ handler'[h].at \in {"check", "exited"}
        BY <1>1, <2>1, <3>1, Advanced DEF Check, AgentInv, Active
      <4> QED
        BY <2>2, <4>1, AgentAssumption DEF AgentInv, MainAt, Signals
    <3>2. CASE inst[handler[h].owner] # "null"
      <4>1. /\ \A k \in Signals \ {h} : handler'[k] = handler[k]
            /\ handler'[h].at # "idle"
        BY <1>1, <3>2, Stepped DEF Check, AgentInv
      <4> QED
        BY <2>2, <4>1, AgentAssumption DEF AgentInv, MainAt, Signals
    <3> QED
      BY <3>1, <3>2
  <2> QED
    BY <2>2, <2>3 DEF MainAt
<1>2. ASSUME NEW h \in Signals, Stop(h)
      PROVE  MainAt'
  <2>1. handler[h].at = "stop"
    BY <1>2 DEF Stop, Runs
  <2>2. main = "handler" /\ main' = "handler"
    BY <1>2, <2>1 DEF Stop, AgentInv, MainAt, Idle, mainVars
  <2>3. handler'[1].at # "idle"
    <3>1. /\ \A k \in Signals \ {h} : handler'[k] = handler[k]
          /\ handler'[h].at # "idle"
      BY <1>2, <2>1, Stepped DEF Stop, AgentInv, Active
    <3> QED
      BY <2>2, <3>1, AgentAssumption DEF AgentInv, MainAt, Signals
  <2> QED
    BY <2>2, <2>3 DEF MainAt
<1>3. ASSUME NEW h \in Signals, Join(h)
      PROVE  MainAt'
  <2>1. handler[h].at = "join"
    BY <1>3 DEF Join, Runs
  <2>2. main = "handler" /\ main' = "handler"
    BY <1>3, <2>1 DEF Join, AgentInv, MainAt, Idle, mainVars
  <2>3. handler'[1].at # "idle"
    <3>1. /\ \A k \in Signals \ {h} : handler'[k] = handler[k]
          /\ handler'[h].at # "idle"
      BY <1>3, <2>1, Stepped DEF Join, AgentInv, Active
    <3> QED
      BY <2>2, <3>1, AgentAssumption DEF AgentInv, MainAt, Signals
  <2> QED
    BY <2>2, <2>3 DEF MainAt
<1>4. ASSUME NEW h \in Signals, Free(h)
      PROVE  MainAt'
  <2>1. handler[h].at = "free"
    BY <1>4 DEF Free, Runs
  <2>2. main = "handler" /\ main' = "handler"
    BY <1>4, <2>1 DEF Free, AgentInv, MainAt, Idle, mainVars
  <2>3. handler'[1].at # "idle"
    <3>1. /\ \A k \in Signals \ {h} : handler'[k] = handler[k]
          /\ handler'[h].at # "idle"
      BY <1>4, <2>1, Stepped DEF Free, AgentInv, Active
    <3> QED
      BY <2>2, <3>1, AgentAssumption DEF AgentInv, MainAt, Signals
  <2> QED
    BY <2>2, <2>3 DEF MainAt
<1>5. ASSUME NEW h \in Signals, SetNull(h)
      PROVE  MainAt'
  <2>1. handler[h].at = "null"
    BY <1>5 DEF SetNull, Runs
  <2>2. main = "handler" /\ main' = "handler"
    BY <1>5, <2>1 DEF SetNull, AgentInv, MainAt, Idle, mainVars
  <2>3. handler'[1].at # "idle"
    <3>1. /\ \A k \in Signals \ {h} : handler'[k] = handler[k]
          /\ handler'[h].at # "idle"
      BY <1>5, <2>1, Advanced DEF SetNull, AgentInv, Active
    <3> QED
      BY <2>2, <3>1, AgentAssumption DEF AgentInv, MainAt, Signals
  <2> QED
    BY <2>2, <2>3 DEF MainAt
<1>6. CASE SignalMain
  <2>1. 1 \in Signals /\ handler'[1].at # "idle"
    BY <1>6, Delivered, AgentAssumption DEF SignalMain, AgentInv, Signals
  <2> QED
    BY <1>6, <2>1 DEF SignalMain, MainAt
<1>7. ASSUME NEW h \in Signals, NEW on \in Pools \cup {0}, SignalAgain(h, on)
      PROVE  MainAt'
  <2>1. main = "handler" /\ main' = "handler"
    BY <1>7 DEF SignalAgain, mainVars
  <2>2. /\ \A k \in Signals \ {h} : handler'[k] = handler[k]
        /\ handler'[h].at # "idle"
    BY <1>7, Delivered DEF SignalAgain, AgentInv
  <2>3. handler'[1].at # "idle"
    BY <2>1, <2>2, AgentAssumption DEF AgentInv, MainAt, Signals
  <2> QED
    BY <2>1, <2>3 DEF MainAt
<1>8. CASE LogTaken
  BY <1>8 DEF LogTaken, mainVars, memVars, logVars, alertVars, AgentInv,
     MainAt
<1>9. CASE LogDiscarded
  BY <1>9 DEF LogDiscarded, mainVars, memVars, logVars, alertVars, AgentInv,
     MainAt
<1>10. CASE LogPop
  BY <1>10 DEF LogPop, mainVars, memVars, logVars, alertVars, AgentInv, MainAt
<1>11. CASE LogWrite
  BY <1>11 DEF LogWrite, mainVars, memVars, logVars, alertVars, AgentInv,
     MainAt
<1>12. CASE AlertTaken
  BY <1>12 DEF AlertTaken, mainVars, memVars, logVars, alertVars, AgentInv,
     MainAt
<1>13. ASSUME NEW a \in sending, AlertSent(a)
      PROVE  MainAt'
  BY <1>13 DEF AlertSent, mainVars, memVars, logVars, alertVars, AgentInv,
     MainAt
<1>14. CASE CacheTaskStarts
  BY <1>14 DEF CacheTaskStarts, mainVars, memVars, logVars, alertVars,
     AgentInv, MainAt
<1>15. CASE CacheTaskEnds
  BY <1>15 DEF CacheTaskEnds, mainVars, memVars, logVars, alertVars, AgentInv,
     MainAt
<1>16. CASE InitSucceeds
  BY <1>16 DEF InitSucceeds, mainVars, memVars, logVars, alertVars, AgentInv,
     MainAt
<1>17. CASE SetType
  BY <1>17 DEF SetType, mainVars, memVars, logVars, alertVars, NextStage, LOG,
     ALERT, AgentInv, MainAt
<1>18. CASE InitFailsFatally
  <2>1. 1 \in Signals /\ handler'[1].at # "idle"
    BY <1>18, Delivered, AgentAssumption DEF InitFailsFatally, AgentInv, Signals
  <2> QED
    BY <1>18, <2>1 DEF InitFailsFatally, MainAt
<1>19. CASE InitFails
  BY <1>19 DEF InitFails, mainVars, memVars, logVars, alertVars, NextStage,
     LOG, ALERT, AgentInv, MainAt
<1>20. CASE ConfigLoadLogs
  BY <1>20 DEF ConfigLoadLogs, mainVars, memVars, logVars, alertVars,
     AgentInv, MainAt
<1>21. ASSUME NEW c \in Pools, TakeLock(c)
      PROVE  MainAt'
  BY <1>21 DEF TakeLock, mainVars, memVars, logVars, alertVars, LOG, ALERT,
     Pools, AgentInv, MainAt
<1>22. CASE LogAndUnlock
  <2>1. held' = 0 /\ main' = "loop" /\ main = "loop" /\ handler' = handler
    BY <1>22 DEF LogAndUnlock
  <2> QED
    BY <2>1 DEF AgentInv, MainAt, LOG, ALERT
<1>23. CASE LookupAndUnlock
  <2>1. held' = 0 /\ main' = "loop" /\ main = "loop" /\ handler' = handler
    BY <1>23 DEF LookupAndUnlock
  <2> QED
    BY <2>1 DEF AgentInv, MainAt, LOG, ALERT
<1>24. CASE SendAndUnlock
  <2>1. held' = 0 /\ main' = "loop" /\ main = "loop" /\ handler' = handler
    BY <1>24 DEF SendAndUnlock
  <2> QED
    BY <2>1 DEF AgentInv, MainAt, LOG, ALERT
<1>25. CASE UNCHANGED vars
  BY <1>25 DEF vars, mainVars, memVars, logVars, alertVars, AgentInv, MainAt
<1>26. CASE ParseArgs
  BY <1>26 DEF ParseArgs, LOG, ALERT, AgentInv, MainAt
<1>27. CASE UnsetOption
  BY <1>27 DEF UnsetOption, mainVars, logVars, alertVars, AgentInv, MainAt
<1> QED
  BY <1>1, <1>2, <1>3, <1>4, <1>5, <1>6, <1>7, <1>8, <1>9, <1>10, <1>11,
     <1>12, <1>13, <1>14, <1>15, <1>16, <1>17, <1>18, <1>19, <1>20, <1>21,
     <1>22, <1>23, <1>24, <1>25, <1>26, <1>27
     DEF Next, MainStep, WorkerStep, LogStep, HandlerStep

(***************************************************************************)
(* Only the log thread takes and puts down the message in its hands.       *)
(***************************************************************************)
LEMMA LogStepKept == AgentInv /\ [Next]_vars => LogAt'
<1> SUFFICES ASSUME AgentInv, [Next]_vars PROVE LogAt'
  OBVIOUS
<1> USE DEF AgentInv, LogAt, logVars
<1>1. CASE LogStep
  BY <1>1 DEF LogStep, LogTaken, LogDiscarded, LogPop, LogWrite
<1>2. CASE MainStep \/ SignalMain
  BY <1>2 DEF MainStep, SignalMain, InitSucceeds, SetType, InitFailsFatally,
     InitFails, ParseArgs, UnsetOption, ConfigLoadLogs, LogAndUnlock,
     LookupAndUnlock, SendAndUnlock, TakeLock
<1>3. CASE AlertTaken \/ \E a \in sending : AlertSent(a)
  BY <1>3 DEF AlertTaken, AlertSent
<1>4. CASE CacheTaskStarts \/ CacheTaskEnds
  BY <1>4 DEF CacheTaskStarts, CacheTaskEnds
<1>5. ASSUME NEW h \in Signals, HandlerStep(h) PROVE LogAt'
  BY <1>5 DEF HandlerStep, Check, Stop, Join, Free, SetNull
<1>6. ASSUME NEW h \in Signals, NEW on \in Pools \cup {0}, SignalAgain(h, on)
      PROVE  LogAt'
  BY <1>6 DEF SignalAgain
<1>7. CASE UNCHANGED vars
  BY <1>7 DEF vars
<1> QED
  BY <1>1, <1>2, <1>3, <1>4, <1>5, <1>6, <1>7 DEF Next, WorkerStep

(***************************************************************************)
(* What the one handler has freed is used by nobody.                       *)
(***************************************************************************)
LEMMA InUse ==
    ASSUME AgentInv, Once, Alive
    PROVE  /\ OneHandler /\ JoinedIdle
           /\ logger # "ended" => inst[LOG] # "freed"
           /\ sending # {} => inst[ALERT] # "freed"
           /\ cacheBusy => inst[PROCESS_CACHE] # "freed"
           /\ main # "handler" => inst[LOG] # "freed"
<1>1. OneHandler /\ JoinedIdle
  BY DEF AgentInv, OnceInv, Alive
<1>2. \A c \in Pools : inst[c] = "freed" => pool[c] = "gone"
  BY <1>1 DEF OneHandler, Pools, Owners
<1>3. main # "handler" => H.at = "idle"
  BY AgentAssumption DEF AgentInv, MainAt, Signals, H, Idle
<1>4. main # "handler" => inst[LOG] # "freed"
  BY <1>1, <1>3 DEF OneHandler, Owners
<1>5. cacheBusy => inst[PROCESS_CACHE] # "freed"
  BY <1>1, <1>2 DEF JoinedIdle, Pools
<1> QED
  BY <1>1, <1>2, <1>4, <1>5 DEF JoinedIdle, Pools

(***************************************************************************)
(* A step that moves no handler and releases nothing.                      *)
(***************************************************************************)
LEMMA SameOwners ==
    ASSUME AgentInv, Alive, UNCHANGED <<handler, inst, pool>>,
           type' = type \/ main # "handler", fault' # "freed" \/ ~Once,
           JoinedIdle' \/ ~Once
    PROVE  OnceInv'
<1> SUFFICES ASSUME Once' PROVE OnceInv'
  BY DEF OnceInv
<1>1. Once /\ ~Exited'
  BY DEF Once, Alive, Exited
<1>2. OneHandler
  BY <1>1, InUse
<1>3. main # "handler" => H.at = "idle"
  BY AgentAssumption DEF AgentInv, MainAt, Signals, H, Idle
<1>4. OneHandler'
  BY <1>2, <1>3 DEF OneHandler, H, Before, Passed, Untouched
<1> QED
  BY <1>1, <1>4 DEF OnceInv, UsersGoneFirst, ReleasedAtExit

(***************************************************************************)
(* While there is one handler, the handler that moves is that one.         *)
(***************************************************************************)
LEMMA OnlyFirst ==
    ASSUME AgentInv, NEW h \in Signals, handler[h].at # "idle",
           handler'[h].at # "idle",
           \A k \in Signals \ {h} : handler'[k] = handler[k],
           Once'
    PROVE  h = 1 /\ Once
  BY AgentAssumption DEF Once, Signals

(***************************************************************************)
(* The cleanup leaves an owner that is null for the next one below it.     *)
(***************************************************************************)
LEMMA NextOwnerKept ==
    ASSUME AgentInv, Alive, NEW h \in Signals, NextOwner(h),
           \/ handler[h].at = "check" /\ inst[handler[h].owner] = "null"
           \/ handler[h].at = "null",
           inst' = [inst EXCEPT ![handler[h].owner] = "null"],
           UNCHANGED <<pool, type, fault, logger, sending, cacheBusy>>
    PROVE  OnceInv'
<1> SUFFICES ASSUME Once' PROVE OnceInv'
  BY DEF OnceInv
<1>1. handler[h].at \in Active
  BY DEF Active
<1>2. /\ \A k \in Signals \ {h} : handler'[k] = handler[k]
      /\ handler'[h].on = handler[h].on
      /\ handler'[h].at \in {"check", "exited"}
      /\ handler'[h].at = "check" =>
            /\ handler'[h].owner \in Owners
            /\ handler'[h].owner < handler[h].owner
            /\ \A c \in Owners : c < handler[h].owner => c <= handler'[h].owner
      /\ handler'[h].at = "exited" => \A c \in Owners : ~(c < handler[h].owner)
  BY <1>1, Advanced DEF AgentInv
<1>3. h = 1 /\ Once
  BY <1>1, <1>2, OnlyFirst DEF Active
<1>4. OneHandler /\ JoinedIdle
  BY <1>3, InUse
<1>5. PICK o \in Owners : o = H.owner
  BY <1>1, <1>3 DEF AgentInv, HandlersAt, H
<1>6. /\ inst \in [Owners -> {"null", "raw", "live", "freed"}]
      /\ inst'[o] = "null"
      /\ \A c \in Owners \ {o} : inst'[c] = inst[c]
  BY <1>3, <1>5 DEF AgentInv, TypeOK, H
<1>7. /\ H.at \in {"check", "null"}
      /\ \A c \in Owners : inst[c] = "freed" => c = o
      /\ \A c \in Pools : c < o => Untouched(c)
      /\ \A c \in Owners : c <= type /\ c > o => inst[c] = "null"
  <2>1. H.at \in {"check", "null"}
    BY <1>3 DEF H
  <2>2. \A c \in Pools : c < o => Before(c)
    BY <1>5, <2>1 DEF Before, Pools, Owners, LOG, ALERT, PROCESS_CACHE, ARGS,
       CONFIG, HASH_MAP, RULE_ENGINE
  <2> QED
    BY <1>4, <1>5, <2>1, <2>2 DEF OneHandler, Passed
<1>8. /\ H'.on = 0
      /\ H'.at \in {"check", "exited"}
      /\ H'.at = "check" => /\ H'.owner \in Owners
                            /\ H'.owner < o
                            /\ \A c \in Owners : c < o => c <= H'.owner
      /\ H'.at = "exited" => \A c \in Owners : ~(c < o)
  BY <1>2, <1>3, <1>4, <1>5 DEF H, OneHandler
<1>9. Owners \subseteq Int /\ Pools \subseteq Owners
  BY DEF Pools, Owners, LOG, ALERT, PROCESS_CACHE, ARGS, CONFIG, HASH_MAP,
     RULE_ENGINE
<1>10. ASSUME NEW c \in Pools, Before(c)'
       PROVE  Untouched(c)'
  <2>1. H'.at = "check" /\ c <= H'.owner
    BY <1>8, <1>10 DEF Before
  <2>2. c < o
    <3>1. \A x, y, z \in Int : x <= y /\ y < z => x < z
      OBVIOUS
    <3>2. H'.owner \in Int /\ H'.owner < o /\ c \in Int /\ o \in Int
      BY <1>8, <1>9, <2>1
    <3> QED
      BY <2>1, <3>1, <3>2
  <2>3. inst'[c] = inst[c] /\ pool'[c] = pool[c]
    BY <1>6, <1>9, <2>2
  <2> QED
    BY <1>7, <2>2, <2>3 DEF Untouched
<1>11. ASSUME NEW c \in Owners, Passed(c)'
       PROVE  inst'[c] = "null"
  <2>1. c <= type /\ ~(c < o)
    <3>1. c <= type /\ (H'.at = "exited" \/ c > H'.owner)
      BY <1>11 DEF Passed
    <3>2. c \in Int /\ o \in Int
      BY <1>9
    <3>3. CASE H'.at = "exited"
      BY <1>8, <3>1, <3>3
    <3>4. CASE H'.at = "check"
      <4>1. H'.owner \in Int /\ c > H'.owner
        BY <1>8, <1>9, <3>1, <3>4
      <4>2. c < o => c <= H'.owner
        BY <1>8, <3>4
      <4>3. \A x, y \in Int : x > y => ~(x <= y)
        OBVIOUS
      <4> QED
        BY <3>1, <3>2, <4>1, <4>2, <4>3
    <3> QED
      BY <1>8, <3>3, <3>4
  <2>2. CASE c = o
    BY <1>6, <2>2
  <2>3. CASE c # o
    <3>1. c > o
      BY <1>9, <2>1, <2>3
    <3> QED
      BY <1>6, <1>7, <2>1, <2>3, <3>1
  <2> QED
    BY <2>2, <2>3
<1>12. OneHandler'
  <2>1. \A c \in Owners : inst'[c] # "freed"
    BY <1>6, <1>7
  <2>2. \A c \in Pools : inst'[c] # "raw"
    BY <1>4, <1>6, <1>9 DEF OneHandler
  <2> QED
    BY <1>8, <1>10, <1>11, <2>1, <2>2 DEF OneHandler
<1>13. JoinedIdle' /\ UsersGoneFirst'
  BY <1>4 DEF JoinedIdle, Alive, UsersGoneFirst
<1>14. ReleasedAtExit'
  <2>1. Exited' => H'.at = "exited"
    BY DEF Exited, Once, H
  <2> QED
    BY <1>11, <2>1 DEF ReleasedAtExit, Passed
<1> QED
  BY <1>12, <1>13, <1>14 DEF OnceInv

(***************************************************************************)
(* The cleanup goes on at the owner it is at.  What it demands of the      *)
(* owner before the step follows from the invariant, action by action.     *)
(***************************************************************************)
LEMMA SameOwnerKept ==
    ASSUME AgentInv, Alive, Once, NEW at \in {"stop", "join", "free", "null"},
           handler[1].at \in {"check", "stop", "join", "free"},
           Step(1, at), NEW o \in Owners, o = H.owner,
           \A c \in Owners \ {o} : inst'[c] = inst[c],
           \A c \in Pools \ {o} : pool'[c] = pool[c],
           inst[o] \in {"live", "raw"},
           inst'[o] = IF at = "null" THEN "freed" ELSE inst[o],
           at = "stop" => H.at = "check" /\ pool' = pool /\ inst' = inst,
           at = "join" => o \in Pools /\ pool'[o] = "closing",
           at \in {"free", "null"} /\ o \in Pools => pool'[o] = "gone",
           type' = type, fault' # "freed", JoinedIdle'
    PROVE  OnceInv'
<1>1. /\ 1 \in Signals
      /\ \A k \in Signals \ {1} : handler'[k] = handler[k]
      /\ H'.at = at /\ H'.on = H.on /\ H'.owner = o
  BY AgentAssumption, Stepped DEF AgentInv, Signals, H
<1>2. OneHandler
  BY InUse
<1>3. /\ Owners \subseteq Int /\ Pools \subseteq Owners
  BY DEF Pools, Owners, LOG, ALERT, PROCESS_CACHE, ARGS, CONFIG, HASH_MAP,
     RULE_ENGINE
<1>4. ASSUME NEW c \in Pools, Before(c)'
      PROVE  Untouched(c)'
  <2>1. c < o \/ (at = "stop" /\ c = o)
    <3>1. c <= o
      BY <1>1, <1>3, <1>4 DEF Before
    <3>2. at # "stop" => c < o
      BY <1>1, <1>4 DEF Before
    <3> QED
      BY <1>3, <3>1, <3>2
  <2>2. Before(c)
    <3>1. \A x, y \in Int : x < y \/ x = y => x <= y
      OBVIOUS
    <3>2. c <= H.owner /\ (c < H.owner \/ H.at = "check")
      BY <1>3, <2>1, <3>1
    <3>3. H.at \in {"check", "stop", "join", "free"}
      BY DEF H
    <3> QED
      BY <3>2, <3>3 DEF Before
  <2>3. Untouched(c)
    BY <1>2, <2>2 DEF OneHandler
  <2>4. CASE c < o
    <3>1. c # o
      BY <1>3, <2>4
    <3> QED
      BY <1>3, <2>3, <3>1 DEF Untouched
  <2>5. CASE at = "stop"
    BY <2>3, <2>5 DEF Untouched
  <2> QED
    BY <2>1, <2>4, <2>5
<1>5. ASSUME NEW c \in Owners, Passed(c)'
      PROVE  inst'[c] = "null"
  <2>1. c <= type /\ c > o
    BY <1>1, <1>5 DEF Passed
  <2>2. Passed(c) /\ c # o
    BY <1>3, <2>1 DEF Passed, H
  <2> QED
    BY <1>2, <2>2 DEF OneHandler
<1>6. ASSUME NEW c \in Owners, inst'[c] = "freed"
      PROVE  at = "null" /\ c = o
  <2>1. c # o => inst[c] = "freed"
    BY <1>6
  <2>2. inst[c] # "freed"
    BY <1>2 DEF OneHandler, H
  <2> QED
    BY <1>6, <2>1, <2>2
<1>7. \A c \in Pools : inst'[c] # "raw"
  BY <1>2, <1>3 DEF OneHandler
<1>8. OneHandler'
  BY <1>1, <1>2, <1>4, <1>5, <1>6, <1>7 DEF OneHandler
<1>9. ~Exited'
  BY <1>1 DEF Exited, H, Alive
<1> QED
  BY <1>8, <1>9 DEF OnceInv, UsersGoneFirst, ReleasedAtExit

(***************************************************************************)
(* The first signal starts the cleanup at the stage reached last, of       *)
(* owners that nobody has touched.                                         *)
(***************************************************************************)
LEMMA FirstSignal ==
    ASSUME AgentInv, Alive, main # "handler", NEW num \in {"INT", "USR1"},
           Deliver(1, 0, num),
           \A c \in Owners \ {RULE_ENGINE} : inst'[c] = inst[c],
           inst'[RULE_ENGINE] # "freed", fault' # "freed",
           UNCHANGED <<pool, type, logger, sending, cacheBusy>>
    PROVE  OnceInv'
<1>1. Once /\ H.at = "idle" /\ 1 \in Signals
  BY AgentAssumption DEF AgentInv, MainAt, Once, H, Idle, Signals
<1>2. OneHandler /\ JoinedIdle
  BY <1>1, InUse
<1>3. /\ \A k \in Signals \ {1} : handler'[k] = handler[k]
      /\ H'.on = 0
      /\ H'.at \in {"check", "exited"}
      /\ H'.at = "check" => /\ H'.owner \in Owners
                            /\ \A c \in Owners : c <= type => c <= H'.owner
      /\ H'.at = "exited" => \A c \in Owners : ~(c <= type)
  BY <1>1, Delivered DEF AgentInv, H
<1>4. /\ Owners \subseteq Int /\ Pools \subseteq Owners /\ RULE_ENGINE \notin Pools
  BY DEF Pools, Owners, LOG, ALERT, PROCESS_CACHE, ARGS, CONFIG, HASH_MAP,
     RULE_ENGINE
<1>5. \A c \in Pools : Untouched(c)'
  BY <1>1, <1>2, <1>4 DEF OneHandler, Before, Untouched
<1>6. \A c \in Owners : ~Passed(c)'
  <2>1. \A x, y \in Int : x <= y => ~(x > y)
    OBVIOUS
  <2> QED
    BY <1>3, <1>4, <2>1 DEF Passed
<1>7. \A c \in Owners : inst'[c] # "freed"
  BY <1>1, <1>2 DEF OneHandler
<1>8. OneHandler'
  <2>1. \A c \in Pools : inst'[c] # "raw"
    BY <1>2, <1>4 DEF OneHandler
  <2> QED
    BY <1>3, <1>5, <1>6, <1>7, <2>1 DEF OneHandler
<1>9. JoinedIdle' /\ UsersGoneFirst'
  BY <1>2 DEF JoinedIdle, Alive, UsersGoneFirst
<1>10. ReleasedAtExit'
  <2>1. Exited' /\ Once' => H'.at = "exited"
    BY DEF Exited, Once, H
  <2> QED
    BY <1>3, <2>1 DEF ReleasedAtExit
<1> QED
  BY <1>8, <1>9, <1>10 DEF OnceInv

(***************************************************************************)
(* While there is one handler, it frees nothing that is in use, nothing    *)
(* twice, and in the end everything.                                       *)
(***************************************************************************)
LEMMA OnceStep == AgentInv /\ [Next]_vars => OnceInv'
<1> SUFFICES ASSUME AgentInv, [Next]_vars PROVE OnceInv'
  OBVIOUS
<1>1. ASSUME NEW h \in Signals, Check(h)
      PROVE  OnceInv'
  <2>1. Alive /\ handler[h].at = "check"
    BY <1>1 DEF Check, Runs
  <2>2. CASE inst[handler[h].owner] = "null"
    <3>1. inst' = [inst EXCEPT ![handler[h].owner] = "null"]
      BY <1>1, <2>2 DEF Check, memVars, AgentInv, TypeOK
    <3> QED
      BY <1>1, <2>1, <2>2, <3>1, NextOwnerKept
         DEF Check, mainVars, memVars, logVars, alertVars
  <2>3. CASE inst[handler[h].owner] # "null"
    <3> SUFFICES ASSUME Once' PROVE OnceInv'
      BY DEF OnceInv
    <3>1. PICK at \in {"stop", "free"} :
             /\ Step(h, at)
             /\ at = "stop" <=> handler[h].owner \in Pools
      BY <1>1, <2>3 DEF Check
    <3>2. h = 1 /\ Once
      BY <2>1, <3>1, Stepped, OnlyFirst DEF AgentInv
    <3>3. OneHandler /\ JoinedIdle
      BY <2>1, <3>2, InUse
    <3>4. PICK o \in Owners : o = H.owner
      BY <2>1, <3>2 DEF AgentInv, HandlersAt, H, Active
    <3>5. inst[o] \in {"live", "raw"}
      BY <2>1, <2>3, <3>2, <3>3, <3>4 DEF OneHandler, H, AgentInv, TypeOK
    <3>6. UNCHANGED <<inst, pool, type, fault, logger, sending, cacheBusy>>
      BY <1>1 DEF Check, mainVars, memVars, logVars, alertVars
    <3>7. JoinedIdle' /\ fault' = "none"
      BY <2>1, <3>3, <3>6 DEF JoinedIdle, Alive
    <3> QED
      BY <2>1, <3>1, <3>2, <3>4, <3>5, <3>6, <3>7, SameOwnerKept DEF H
  <2> QED
    BY <2>2, <2>3
<1>2. ASSUME NEW h \in Signals, Stop(h)
      PROVE  OnceInv'
  <2> SUFFICES ASSUME Once' PROVE OnceInv'
    BY DEF OnceInv
  <2>1. Alive /\ handler[h].at = "stop"
    BY <1>2 DEF Stop, Runs
  <2>2. h = 1 /\ Once
    <3>1. /\ \A k \in Signals \ {h} : handler'[k] = handler[k]
          /\ handler'[h].at # "idle"
      BY <1>2, Stepped DEF Stop, AgentInv
    <3> QED
      BY <2>1, <3>1, OnlyFirst
  <2>3. OneHandler /\ JoinedIdle
    BY <2>1, <2>2, InUse
  <2>4. PICK o \in Owners : o = H.owner
    BY <2>1, <2>2 DEF AgentInv, HandlersAt, H, Active
  <2>5. o \in Pools /\ inst[o] = "live" /\ pool[o] = "open"
    <3>1. o \in Pools /\ inst[o] = "live" /\ inst[o] # "raw"
      BY <2>1, <2>2, <2>3, <2>4 DEF OneHandler, AgentInv, HandlersAt, H
    <3>2. Before(o)
      BY <2>1, <2>2, <2>4 DEF Before, H, Owners, ARGS, CONFIG, LOG, HASH_MAP,
         PROCESS_CACHE, ALERT, RULE_ENGINE
    <3> QED
      BY <2>3, <3>1, <3>2 DEF OneHandler, Untouched
  <2>6. /\ Step(1, "join")
        /\ pool' = [pool EXCEPT ![o] = "closing"]
        /\ fault' = "none"
        /\ UNCHANGED <<inst, type, logger, sending, cacheBusy>>
    BY <1>2, <2>1, <2>2, <2>4, <2>5 DEF Stop, Touch, Alive, H, mainVars, logVars,
       alertVars
  <2>7. /\ pool'[o] = "closing"
        /\ \A c \in Pools \ {o} : pool'[c] = pool[c]
    BY <2>5, <2>6 DEF AgentInv, TypeOK
  <2>8. JoinedIdle'
    BY <2>3, <2>6, <2>7 DEF JoinedIdle, Pools
  <2> QED
    BY <2>1, <2>2, <2>4, <2>5, <2>6, <2>7, <2>8, SameOwnerKept
<1>3. ASSUME NEW h \in Signals, Join(h)
      PROVE  OnceInv'
  <2> SUFFICES ASSUME Once' PROVE OnceInv'
    BY DEF OnceInv
  <2>1. Alive /\ handler[h].at = "join"
    BY <1>3 DEF Join, Runs
  <2>2. h = 1 /\ Once
    <3>1. /\ \A k \in Signals \ {h} : handler'[k] = handler[k]
          /\ handler'[h].at # "idle"
      BY <1>3, Stepped DEF Join, AgentInv
    <3> QED
      BY <2>1, <3>1, OnlyFirst
  <2>3. OneHandler /\ JoinedIdle
    BY <2>1, <2>2, InUse
  <2>4. PICK o \in Owners : o = H.owner
    BY <2>1, <2>2 DEF AgentInv, HandlersAt, H, Active
  <2>5. o \in Pools /\ inst[o] = "live" /\ H.on = 0
    BY <2>1, <2>2, <2>3, <2>4 DEF OneHandler, AgentInv, HandlersAt, H
  <2>6. /\ Step(1, "free")
        /\ pool' = [pool EXCEPT ![o] = "gone"]
        /\ fault' = "none"
        /\ UNCHANGED <<inst, type, logger, sending, cacheBusy>>
    BY <1>3, <2>1, <2>2, <2>4, <2>5 DEF Join, Touch, Alive, H, mainVars, logVars
  <2>7. /\ pool'[o] = "gone"
        /\ \A c \in Pools \ {o} : pool'[c] = pool[c]
    BY <2>5, <2>6 DEF AgentInv, TypeOK
  <2>8. TasksDone(o)
    <3>1. o # 0
      BY <2>5 DEF Pools, LOG, ALERT, PROCESS_CACHE
    <3> QED
      BY <1>3, <2>2, <2>4, <2>5, <3>1 DEF Join, Joinable, H
  <2>9. JoinedIdle'
    <3>1. CASE o = LOG
      BY <2>3, <2>6, <2>7, <2>8, <3>1
         DEF JoinedIdle, TasksDone, Pools, LOG, ALERT, PROCESS_CACHE
    <3>2. CASE o = ALERT
      BY <2>3, <2>6, <2>7, <2>8, <3>2
         DEF JoinedIdle, TasksDone, Pools, LOG, ALERT, PROCESS_CACHE
    <3>3. CASE o = PROCESS_CACHE
      BY <2>3, <2>6, <2>7, <2>8, <3>3
         DEF JoinedIdle, TasksDone, Pools, LOG, ALERT, PROCESS_CACHE
    <3> QED
      BY <2>5, <3>1, <3>2, <3>3 DEF Pools
  <2> QED
    BY <2>1, <2>2, <2>4, <2>5, <2>6, <2>7, <2>9, SameOwnerKept
<1>4. ASSUME NEW h \in Signals, Free(h)
      PROVE  OnceInv'
  <2> SUFFICES ASSUME Once' PROVE OnceInv'
    BY DEF OnceInv
  <2>1. Alive /\ handler[h].at = "free"
    BY <1>4 DEF Free, Runs
  <2>2. h = 1 /\ Once
    <3>1. /\ \A k \in Signals \ {h} : handler'[k] = handler[k]
          /\ handler'[h].at # "idle"
      BY <1>4, Stepped DEF Free, AgentInv
    <3> QED
      BY <2>1, <3>1, OnlyFirst
  <2>3. OneHandler /\ JoinedIdle
    BY <2>1, <2>2, InUse
  <2>4. PICK o \in Owners : o = H.owner
    BY <2>1, <2>2 DEF AgentInv, HandlersAt, H, Active
  <2>5. inst[o] \in {"live", "raw"} /\ (o \in Pools => pool[o] = "gone")
    BY <2>1, <2>2, <2>3, <2>4 DEF OneHandler, H
  <2>6. /\ Step(1, "null")
        /\ inst' = [inst EXCEPT ![o] = "freed"]
        /\ fault' # "freed"
        /\ UNCHANGED <<pool, type, logger, sending, cacheBusy>>
    BY <1>4, <2>1, <2>2, <2>4, <2>5 DEF Free, Touch, Spoiled, Alive, H, mainVars,
       alertVars
  <2>7. /\ inst'[o] = "freed"
        /\ \A c \in Owners \ {o} : inst'[c] = inst[c]
    BY <2>6 DEF AgentInv, TypeOK
  <2>8. JoinedIdle'
    BY <2>3, <2>6 DEF JoinedIdle
  <2> QED
    BY <2>1, <2>2, <2>4, <2>5, <2>6, <2>7, <2>8, SameOwnerKept
<1>5. ASSUME NEW h \in Signals, SetNull(h)
      PROVE  OnceInv'
  <2>1. Alive /\ handler[h].at = "null" /\ NextOwner(h)
    BY <1>5 DEF SetNull, Runs
  <2> QED
    BY <1>5, <2>1, NextOwnerKept DEF SetNull, mainVars, logVars, alertVars
<1>6. CASE SignalMain
  <2>1. Once /\ OneHandler /\ H.at = "idle"
    BY <1>6, InUse, AgentAssumption
       DEF SignalMain, AgentInv, MainAt, Once, H, Idle, Signals
  <2>2. inst[RULE_ENGINE] # "freed"
    BY <2>1 DEF OneHandler, Owners
  <2> QED
    BY <1>6, <2>2, FirstSignal DEF SignalMain, Alive, memVars, logVars, alertVars
<1>7. ASSUME NEW h \in Signals, NEW on \in Pools \cup {0}, SignalAgain(h, on)
      PROVE  OnceInv'
  <2>1. h # 1
    BY <1>7 DEF SignalAgain, AgentInv, MainAt
  <2>2. handler'[h].at # "idle"
    BY <1>7, Delivered DEF SignalAgain, AgentInv
  <2> QED
    BY <2>1, <2>2 DEF OnceInv, Once
<1>8. CASE LogTaken
  <2>1. fault' # "freed" \/ ~Once
    BY <1>8 DEF LogTaken, Alive, LoggerRuns
  <2>2. JoinedIdle' \/ ~Once
    BY <1>8, InUse DEF LogTaken, JoinedIdle, memVars, logVars, alertVars, LoggerRuns
  <2> QED
    BY <1>8, <2>1, <2>2, SameOwners DEF LogTaken, mainVars, memVars, LoggerRuns
<1>9. CASE LogDiscarded
  <2>1. fault' # "freed" \/ ~Once
    BY <1>9 DEF LogDiscarded, Alive, LoggerRuns
  <2>2. JoinedIdle' \/ ~Once
    BY <1>9, InUse DEF LogDiscarded, JoinedIdle, memVars, logVars, alertVars, LoggerRuns
  <2> QED
    BY <1>9, <2>1, <2>2, SameOwners DEF LogDiscarded, mainVars, memVars, LoggerRuns
<1>10. CASE LogPop
  <2>1. fault' # "freed" \/ ~Once
    BY <1>10, InUse DEF LogPop, Touch, Alive, LoggerRuns
  <2>2. JoinedIdle' \/ ~Once
    BY <1>10, InUse DEF LogPop, JoinedIdle, memVars, logVars, alertVars, LoggerRuns
  <2> QED
    BY <1>10, <2>1, <2>2, SameOwners DEF LogPop, mainVars, memVars, LoggerRuns
<1>11. CASE LogWrite
  <2>1. fault' # "freed" \/ ~Once
    BY <1>11, InUse DEF LogWrite, Touch, Alive, LoggerRuns
  <2>2. JoinedIdle' \/ ~Once
    BY <1>11, InUse DEF LogWrite, JoinedIdle, memVars, logVars, alertVars, LoggerRuns
  <2> QED
    BY <1>11, <2>1, <2>2, SameOwners DEF LogWrite, mainVars, memVars, LoggerRuns
<1>12. CASE AlertTaken
  <2>1. fault' # "freed" \/ ~Once
    BY <1>12 DEF AlertTaken, Alive
  <2>2. JoinedIdle' \/ ~Once
    BY <1>12, InUse DEF AlertTaken, JoinedIdle, memVars, logVars, alertVars
  <2> QED
    BY <1>12, <2>1, <2>2, SameOwners DEF AlertTaken, mainVars, memVars
<1>13. ASSUME NEW a \in sending, AlertSent(a)
      PROVE  OnceInv'
  <2>1. fault' # "freed" \/ ~Once
    BY <1>13, InUse DEF AlertSent, Touch, Alive
  <2>2. JoinedIdle' \/ ~Once
    BY <1>13, InUse DEF AlertSent, JoinedIdle, memVars, logVars, alertVars
  <2> QED
    BY <1>13, <2>1, <2>2, SameOwners DEF AlertSent, mainVars, memVars
<1>14. CASE CacheTaskStarts
  <2>1. fault' # "freed" \/ ~Once
    BY <1>14 DEF CacheTaskStarts, Alive
  <2>2. JoinedIdle' \/ ~Once
    BY <1>14, InUse DEF CacheTaskStarts, JoinedIdle, memVars, logVars, alertVars
  <2> QED
    BY <1>14, <2>1, <2>2, SameOwners DEF CacheTaskStarts, mainVars, memVars
<1>15. CASE CacheTaskEnds
  <2>1. fault' # "freed" \/ ~Once
    BY <1>15, InUse DEF CacheTaskEnds, Touch, Alive
  <2>2. JoinedIdle' \/ ~Once
    BY <1>15, InUse DEF CacheTaskEnds, JoinedIdle, memVars, logVars, alertVars
  <2> QED
    BY <1>15, <2>1, <2>2, SameOwners DEF CacheTaskEnds, mainVars, memVars
<1>16. CASE InitSucceeds
  <2>1. Once /\ OneHandler /\ JoinedIdle /\ H = Idle
    BY <1>16, InUse, AgentAssumption
       DEF InitSucceeds, AgentInv, MainAt, Once, H, Idle, Signals
  <2>2. H' = Idle /\ ~Exited'
    BY <1>16, <2>1 DEF InitSucceeds, H, Alive, Exited
  <2>3. \A c \in Owners : inst'[c] # "freed"
    BY <1>16, <2>1 DEF InitSucceeds, Fresh, OneHandler, Idle
  <2>4. \A c \in Pools : Untouched(c)'
    <3>1. \A c \in Pools : Untouched(c)
      BY <2>1 DEF OneHandler, Before, Idle
    <3>2. \A c \in Pools : inst'[c] = IF c = stage THEN "live" ELSE inst[c]
      BY <1>16 DEF InitSucceeds, Fresh, Pools, Owners, LOG, ALERT, PROCESS_CACHE,
         ARGS, RULE_ENGINE
    <3> QED
      BY <1>16, <3>1, <3>2 DEF InitSucceeds, Untouched
  <2>5. OneHandler'
    <3>1. \A c \in Pools : inst'[c] # "raw"
      BY <1>16, <2>1 DEF InitSucceeds, Fresh, OneHandler, Pools, Owners, LOG,
         ALERT, PROCESS_CACHE, ARGS, RULE_ENGINE
    <3> QED
      BY <2>2, <2>3, <2>4, <3>1 DEF OneHandler, Idle, Passed
  <2>6. JoinedIdle' /\ UsersGoneFirst'
    BY <1>16, <2>1 DEF InitSucceeds, JoinedIdle, UsersGoneFirst, Alive, Pools, logVars,
       alertVars
  <2> QED
    BY <2>2, <2>5, <2>6 DEF OnceInv, ReleasedAtExit
<1>17. CASE SetType
  <2>1. fault' # "freed" \/ ~Once
    BY <1>17 DEF SetType, Alive
  <2>2. JoinedIdle' \/ ~Once
    BY <1>17, InUse DEF SetType, JoinedIdle, memVars, logVars, alertVars
  <2> QED
    BY <1>17, <2>1, <2>2, SameOwners DEF SetType, mainVars, memVars
<1>18. CASE InitFailsFatally
  <2>1. Once /\ OneHandler /\ H.at = "idle"
    BY <1>18, InUse, AgentAssumption
       DEF InitFailsFatally, AgentInv, MainAt, Once, H, Idle, Signals
  <2>2. /\ \A c \in Owners \ {RULE_ENGINE} : inst'[c] = inst[c]
        /\ inst'[RULE_ENGINE] # "freed"
    BY <1>18, <2>1 DEF InitFailsFatally, Fresh, OneHandler, Owners
  <2>3. fault' # "freed"
    BY <1>18, <2>1, InUse DEF InitFailsFatally, Report, Touch, Alive
  <2> QED
    BY <1>18, <2>2, <2>3, FirstSignal DEF InitFailsFatally, alertVars
<1>19. CASE InitFails
  <2>1. fault' # "freed" \/ ~Once
    BY <1>19, InUse DEF InitFails, Touch, Alive, Report
  <2>2. JoinedIdle' \/ ~Once
    BY <1>19, InUse DEF InitFails, JoinedIdle, memVars, logVars, alertVars
  <2> QED
    BY <1>19, <2>1, <2>2, SameOwners DEF InitFails, mainVars, memVars
<1>20. CASE ConfigLoadLogs
  <2>1. fault' # "freed" \/ ~Once
    BY <1>20, InUse DEF ConfigLoadLogs, Touch, Alive
  <2>2. JoinedIdle' \/ ~Once
    BY <1>20, InUse DEF ConfigLoadLogs, JoinedIdle, memVars, logVars, alertVars
  <2> QED
    BY <1>20, <2>1, <2>2, SameOwners DEF ConfigLoadLogs, mainVars, memVars
<1>21. ASSUME NEW c \in Pools, TakeLock(c)
      PROVE  OnceInv'
  <2>1. fault' # "freed" \/ ~Once
    BY <1>21 DEF TakeLock, Alive
  <2>2. JoinedIdle' \/ ~Once
    BY <1>21, InUse DEF TakeLock, JoinedIdle, memVars, logVars, alertVars
  <2> QED
    BY <1>21, <2>1, <2>2, SameOwners DEF TakeLock, mainVars, memVars
<1>22. CASE LogAndUnlock
  <2>1. fault' # "freed" \/ ~Once
    BY <1>22 DEF LogAndUnlock, Alive
  <2>2. JoinedIdle' \/ ~Once
    BY <1>22, InUse DEF LogAndUnlock, JoinedIdle, memVars, logVars, alertVars
  <2> QED
    BY <1>22, <2>1, <2>2, SameOwners DEF LogAndUnlock, mainVars, memVars
<1>23. CASE LookupAndUnlock
  <2>1. fault' # "freed" \/ ~Once
    BY <1>23 DEF LookupAndUnlock, Alive
  <2>2. JoinedIdle' \/ ~Once
    BY <1>23, InUse DEF LookupAndUnlock, JoinedIdle, memVars, logVars, alertVars
  <2> QED
    BY <1>23, <2>1, <2>2, SameOwners DEF LookupAndUnlock, mainVars, memVars
<1>24. CASE SendAndUnlock
  <2>1. fault' # "freed" \/ ~Once
    BY <1>24 DEF SendAndUnlock, Alive
  <2>2. JoinedIdle' \/ ~Once
    BY <1>24, InUse DEF SendAndUnlock, JoinedIdle, memVars, logVars
  <2> QED
    BY <1>24, <2>1, <2>2, SameOwners DEF SendAndUnlock, mainVars, memVars
<1>25. CASE UNCHANGED vars
  <2>1. UNCHANGED <<handler, inst, pool, type, fault, logger, sending, cacheBusy>>
    BY <1>25 DEF vars, mainVars, memVars, logVars, alertVars
  <2>2. OnceInv
    BY DEF AgentInv
  <2> QED
    BY <2>1, <2>2 DEF OnceInv, Once, UsersGoneFirst, OneHandler, JoinedIdle,
       ReleasedAtExit, Exited, H, Before, Passed, Untouched
<1>26. CASE ParseArgs
  <2>1. Once /\ OneHandler /\ JoinedIdle /\ H = Idle
    BY <1>26, InUse, AgentAssumption
       DEF ParseArgs, AgentInv, MainAt, Once, H, Idle, Signals
  <2>2. H' = Idle /\ ~Exited'
    BY <1>26, <2>1 DEF ParseArgs, H, Alive, Exited
  <2>3. /\ inst'[ARGS] \in {"raw", "live"}
        /\ \A c \in Owners \ {ARGS} : inst'[c] = inst[c]
        /\ ARGS \notin Pools /\ Pools \subseteq Owners
    BY <1>26 DEF ParseArgs, AgentInv, TypeOK, Pools, Owners, LOG, ALERT,
       PROCESS_CACHE, ARGS, CONFIG, HASH_MAP, RULE_ENGINE
  <2>4. /\ \A c \in Owners : inst'[c] # "freed"
        /\ \A c \in Pools : inst'[c] # "raw"
    BY <2>1, <2>3 DEF OneHandler, Idle
  <2>5. \A c \in Pools : Untouched(c)'
    BY <1>26, <2>1, <2>3 DEF ParseArgs, OneHandler, Before, Untouched, Idle
  <2>6. OneHandler'
    BY <2>2, <2>4, <2>5 DEF OneHandler, Idle, Passed
  <2>7. JoinedIdle' /\ UsersGoneFirst'
    BY <1>26, <2>1 DEF ParseArgs, JoinedIdle, UsersGoneFirst, Alive, logVars,
       alertVars
  <2> QED
    BY <2>2, <2>6, <2>7 DEF OnceInv, ReleasedAtExit
<1>27. CASE UnsetOption
  <2>1. fault' # "freed" \/ ~Once
    BY <1>27 DEF UnsetOption
  <2>2. JoinedIdle' \/ ~Once
    BY <1>27, InUse DEF UnsetOption, JoinedIdle, memVars, logVars, alertVars
  <2> QED
    BY <1>27, <2>1, <2>2, SameOwners DEF UnsetOption, mainVars, memVars
<1> QED
  BY <1>1, <1>2, <1>3, <1>4, <1>5, <1>6, <1>7, <1>8, <1>9, <1>10, <1>11,
     <1>12, <1>13, <1>14, <1>15, <1>16, <1>17, <1>18, <1>19, <1>20, <1>21,
     <1>22, <1>23, <1>24, <1>25, <1>26, <1>27
     DEF Next, MainStep, WorkerStep, LogStep, HandlerStep

LEMMA AgentInitial == Init => AgentInv
<1> SUFFICES ASSUME Init PROVE AgentInv
  OBVIOUS
<1>1. TypeOK
  <2>1. /\ logQ \in Seq(Nat) /\ got \in Seq(Nat)
        /\ written \in Seq(Nat) /\ alertQ \in Seq(1 .. MaxAlerts)
    BY DEF Init
  <2>2. stage \in Stages /\ type \in 0 .. stage
    BY DEF Init, Stages, ARGS, ENGINE
  <2>3. logged \in Nat /\ alerts \in 0 .. MaxAlerts
    BY AgentAssumption DEF Init
  <2> QED
    BY <2>1, <2>2, <2>3 DEF Init, TypeOK, Idle
<1>2. HandlersAt /\ MainAt
  BY DEF Init, HandlersAt, MainAt, Idle, Active
<1>3. LogAt
  BY DEF Init, LogAt
<1>4. OnceInv
  <2>1. H = Idle /\ ~Exited /\ 1 \in Signals
    BY AgentAssumption DEF Init, H, Exited, Idle, Signals
  <2>2. OneHandler /\ JoinedIdle
    BY <2>1 DEF Init, OneHandler, JoinedIdle, Untouched, Before, Passed, Idle,
       Pools, Owners
  <2> QED
    BY <2>1, <2>2 DEF Init, OnceInv, UsersGoneFirst, ReleasedAtExit
<1> QED
  BY <1>1, <1>2, <1>3, <1>4 DEF AgentInv

(***************************************************************************)
(* Whatever the signals, the log thread, the alert tasks and main do in    *)
(* between, the agent keeps its types and, as long as one signal was       *)
(* taken, the order of its release.                                        *)
(***************************************************************************)
THEOREM AgentInvariant == Spec => []AgentInv
<1>1. AgentInv /\ [Next]_vars => AgentInv'
  BY TypeStep, HandlersStep, MainStepKept, LogStepKept, OnceStep DEF AgentInv
<1> QED
  BY AgentInitial, <1>1, PTL DEF Spec

(* The stage, the owners' pointers, the handlers and the queues keep their types. *)
THEOREM AgentTypes == Spec => []TypeOK
<1>1. AgentInv => TypeOK
  BY DEF AgentInv
<1> QED
  BY <1>1, AgentInvariant, PTL

(***************************************************************************)
(* One signal, taken anywhere, never makes linx_resource_cleanup free the  *)
(* instance or the pool that a log, alert or cache task still uses.        *)
(***************************************************************************)
THEOREM CleanupSafe == Spec => []UsersGoneFirst
<1>1. AgentInv => UsersGoneFirst
  BY DEF AgentInv, OnceInv, UsersGoneFirst
<1> QED
  BY <1>1, AgentInvariant, PTL

(* A cleanup that reached exit released every component main had recorded. *)
THEOREM CleanupComplete == Spec => []ReleasedAtExit
<1>1. AgentInv => ReleasedAtExit
  BY DEF AgentInv, OnceInv, ReleasedAtExit
<1> QED
  BY <1>1, AgentInvariant, PTL

(***************************************************************************)
(* No pool is being closed before a signal was taken.                      *)
(***************************************************************************)
LEMMA ClosingMeansHandler ==
    ASSUME AgentInv, Alive, NEW c \in Pools, pool[c] = "closing"
    PROVE  main = "handler"
<1> SUFFICES ASSUME main # "handler" PROVE FALSE
  OBVIOUS
<1>1. \A h \in Signals : handler[h] = Idle
  BY DEF AgentInv, MainAt
<1>2. Once /\ H.at = "idle"
  BY <1>1, AgentAssumption DEF Once, H, Idle, Signals
<1>3. OneHandler
  BY <1>2, InUse
<1> QED
  BY <1>2, <1>3 DEF OneHandler, Before, Untouched

(***************************************************************************)
(* The steps of the log thread while its pool is being closed: a message   *)
(* goes from the queue to its hands and from there to the file, and with   *)
(* nothing left it ends.                                                   *)
(***************************************************************************)
LEMMA LogRunsDry ==
    ASSUME AgentInv, pool[LOG] = "closing", LogStep
    PROVE  LogLeft' < LogLeft
<1>1. /\ logQ \in Seq(Nat) /\ got \in Seq(Nat)
      /\ Len(logQ) \in Nat /\ Len(got) \in Nat
      /\ logger # "got" => got = <<>>
  BY DEF AgentInv, TypeOK, LogAt
<1>2. CASE LogTaken
  BY <1>1, <1>2 DEF LogTaken, LogLeft
<1>3. CASE LogDiscarded
  BY <1>1, <1>3 DEF LogDiscarded, LogLeft
<1>4. CASE LogPop
  <2>1. logger = "pop" /\ logger' = "got" /\ Len(got) = 0
    BY <1>1, <1>4 DEF LogPop
  <2>2. CASE logQ = <<>>
    <3>1. Len(logQ') = Len(logQ) /\ Len(got') = 0
      BY <1>4, <2>2 DEF LogPop
    <3> QED
      BY <1>1, <2>1, <3>1 DEF LogLeft
  <2>3. CASE logQ # <<>>
    <3>1. Len(logQ') = Len(logQ) - 1 /\ Len(got') = 1
      BY <1>1, <1>4, <2>3 DEF LogPop
    <3> QED
      BY <1>1, <2>1, <3>1 DEF LogLeft
  <2> QED
    BY <2>2, <2>3
<1>5. CASE LogWrite
  <2>1. /\ logger = "got" /\ Len(got') = 0 /\ logQ' = logQ
        /\ logger' = IF got = <<>> THEN "ended" ELSE "pop"
    BY <1>5 DEF LogWrite, StopSeen
  <2>2. got # <<>> => Len(got) > 0
    BY <1>1
  <2> QED
    BY <1>1, <2>1, <2>2 DEF LogLeft
<1> QED
  BY <1>2, <1>3, <1>4, <1>5 DEF LogStep

LEMMA AlertsRunDry ==
    ASSUME AgentInv, AlertTaken \/ \E a \in sending : AlertSent(a)
    PROVE  AlertLeft' < AlertLeft
<1>1. /\ alertQ \in Seq(1 .. MaxAlerts) /\ Len(alertQ) \in Nat
      /\ IsFiniteSet(sending) /\ Cardinality(sending) \in Nat
  <2>1. IsFiniteSet(1 .. MaxAlerts) /\ sending \subseteq 1 .. MaxAlerts
    BY FS_Interval, AgentAssumption DEF AgentInv, TypeOK
  <2>2. IsFiniteSet(sending)
    BY <2>1, FS_Subset
  <2>3. Cardinality(sending) \in Nat
    BY <2>2, FS_CardinalityType
  <2>4. alertQ \in Seq(1 .. MaxAlerts) /\ Len(alertQ) \in Nat
    BY DEF AgentInv, TypeOK
  <2> QED
    BY <2>2, <2>3, <2>4
<1>2. CASE AlertTaken
  <2>1. Len(alertQ') = Len(alertQ) - 1
    BY <1>1, <1>2 DEF AlertTaken
  <2>2. Cardinality(sending') <= Cardinality(sending) + 1
        /\ Cardinality(sending') \in Nat
    <3>1. sending' = sending \cup {Head(alertQ)}
      BY <1>2 DEF AlertTaken
    <3>2. Cardinality(sending \cup {Head(alertQ)})
             = IF Head(alertQ) \in sending THEN Cardinality(sending)
                                           ELSE Cardinality(sending) + 1
      BY <1>1, FS_AddElement
    <3>3. Cardinality(sending') = Cardinality(sending \cup {Head(alertQ)})
      BY <3>1
    <3> HIDE DEF AgentInv
    <3> QED
      BY <1>1, <3>2, <3>3
  <2> QED
    BY <1>1, <2>1, <2>2 DEF AlertLeft
<1>3. ASSUME NEW a \in sending, AlertSent(a)
      PROVE  AlertLeft' < AlertLeft
  <2>1. Cardinality(sending') = Cardinality(sending) - 1 /\ alertQ' = alertQ
    BY <1>1, <1>3, FS_RemoveElement DEF AlertSent
  <2> QED
    BY <1>1, <2>1 DEF AlertLeft
<1> QED
  BY <1>2, <1>3

LEMMA RunsDryStep == AgentInv /\ [Next]_vars => RunsDry
<1> SUFFICES ASSUME AgentInv, [Next]_vars PROVE RunsDry
  OBVIOUS
<1> USE DEF RunsDry, mainVars, memVars, logVars, alertVars
<1>1. CASE MainStep \/ SignalMain
  <2>1. Alive /\ main # "handler"
    BY <1>1 DEF MainStep, SignalMain, InitSucceeds, SetType, InitFailsFatally,
       InitFails, ParseArgs, UnsetOption, ConfigLoadLogs, LogAndUnlock,
       LookupAndUnlock, SendAndUnlock, TakeLock
  <2>2. \A c \in Pools : pool[c] # "closing"
    BY <2>1, ClosingMeansHandler
  <2> QED
    BY <2>2 DEF Pools
<1>2. CASE LogStep
  <2>1. UNCHANGED <<alertVars, cacheBusy>>
    BY <1>2 DEF LogStep, LogTaken, LogDiscarded, LogPop, LogWrite
  <2> QED
    BY <1>2, <2>1, LogRunsDry
<1>3. CASE AlertTaken \/ \E a \in sending : AlertSent(a)
  <2>1. UNCHANGED <<logVars, cacheBusy>>
    BY <1>3 DEF AlertTaken, AlertSent
  <2> QED
    BY <1>3, <2>1, AlertsRunDry
<1>4. CASE CacheTaskStarts \/ CacheTaskEnds
  <2>1. UNCHANGED <<logVars, alertVars>>
        /\ (pool[PROCESS_CACHE] = "open" \/ cacheBusy)
    BY <1>4 DEF CacheTaskStarts, CacheTaskEnds
  <2> QED
    BY <2>1
<1>5. ASSUME NEW h \in Signals, Join(h)
      PROVE  RunsDry
  <2>1. UNCHANGED <<logVars, alerts, sending, cacheBusy>>
        /\ (alertQ' = alertQ \/ alertQ' = <<>>)
    BY <1>5 DEF Join
  <2>2. Cardinality(sending) \in Nat
    <3>1. IsFiniteSet(1 .. MaxAlerts) /\ sending \subseteq 1 .. MaxAlerts
      BY FS_Interval, AgentAssumption DEF AgentInv, TypeOK
    <3> QED
      BY <3>1, FS_Subset, FS_CardinalityType
  <2>3. alertQ # <<>> => Len(alertQ) \in Nat \ {0}
    BY DEF AgentInv, TypeOK
  <2>4. alertQ' # alertQ => AlertLeft' < AlertLeft
    <3> SUFFICES ASSUME alertQ' # alertQ PROVE AlertLeft' < AlertLeft
      OBVIOUS
    <3>1. Len(alertQ') = 0 /\ Len(alertQ) \in Nat \ {0}
      BY <2>1, <2>3
    <3> QED
      BY <2>1, <2>2, <3>1 DEF AlertLeft
  <2> QED
    BY <2>1, <2>4
<1>6. ASSUME NEW h \in Signals, Free(h)
      PROVE  RunsDry
  <2>1. UNCHANGED <<alertVars, cacheBusy, logged, logger, got, written>>
        /\ (logQ' = logQ \/ logQ' = <<>>)
    BY <1>6 DEF Free
  <2>2. Len(got) \in Nat /\ (logQ # <<>> => Len(logQ) \in Nat \ {0})
    BY DEF AgentInv, TypeOK
  <2>3. logQ' # logQ => LogLeft' < LogLeft
    <3> SUFFICES ASSUME logQ' # logQ PROVE LogLeft' < LogLeft
      OBVIOUS
    <3>1. Len(logQ') = 0 /\ Len(logQ) \in Nat \ {0}
      BY <2>1, <2>2
    <3>2. logger \in {"queued", "pop", "got", "ended"}
      BY DEF AgentInv, TypeOK
    <3> QED
      BY <2>1, <2>2, <3>1, <3>2 DEF LogLeft
  <2> QED
    BY <2>1, <2>3
<1>7. ASSUME \/ \E h \in Signals : Check(h) \/ Stop(h) \/ SetNull(h)
             \/ \E h \in Signals, on \in Pools \cup {0} : SignalAgain(h, on)
             \/ UNCHANGED vars
      PROVE  RunsDry
  <2>1. UNCHANGED <<logVars, alertVars, cacheBusy>>
    BY <1>7 DEF Check, Stop, SetNull, SignalAgain, vars
  <2> QED
    BY <2>1
<1> HIDE DEF RunsDry
<1> QED
  BY <1>1, <1>2, <1>3, <1>4, <1>5, <1>6, <1>7 DEF Next, WorkerStep, HandlerStep

(***************************************************************************)
(* However many signals arrive, the pools that linx_resource_cleanup joins *)
(* only ever have less left to do.                                         *)
(***************************************************************************)
THEOREM CleanupProgress == Spec => CleanupAdvances
<1>1. AgentInv /\ [Next]_vars => [RunsDry]_vars
  BY RunsDryStep
<1> QED
  BY <1>1, AgentInvariant, PTL DEF Spec, CleanupAdvances

(***************************************************************************)
(* A single signal's cleanup frees a component only when all that came up  *)
(* after it is gone and the tasks of its pool have ended: the joins come   *)
(* before the frees, and both go down the stages.                          *)
(***************************************************************************)
THEOREM CleanupInOrder == Spec => ReleasedInOrder
<1>1. ASSUME AgentInv, [Next]_vars PROVE FreesInOrder
  <2> SUFFICES ASSUME Once, NEW c \in Owners,
                      inst[c] # "freed", inst'[c] = "freed"
               PROVE  /\ \A d \in Owners : c < d /\ d <= type => inst[d] = "null"
                      /\ c \in Pools => TasksDone(c)
    BY DEF FreesInOrder
  <2>1. PICK h \in Signals : Free(h)
    <3>1. CASE MainStep
      BY <1>1, <3>1 DEF MainStep, InitSucceeds, SetType, InitFailsFatally, Fresh,
         InitFails, ParseArgs, UnsetOption, ConfigLoadLogs, LogAndUnlock,
         LookupAndUnlock, SendAndUnlock, TakeLock, memVars, AgentInv, TypeOK
    <3>2. CASE WorkerStep
      BY <3>2 DEF WorkerStep, LogStep, LogTaken, LogDiscarded, LogPop, LogWrite,
         AlertTaken, AlertSent, CacheTaskStarts, CacheTaskEnds, memVars
    <3>3. ASSUME \/ SignalMain \/ UNCHANGED vars
                 \/ \E h \in Signals, on \in Pools \cup {0} : SignalAgain(h, on)
          PROVE  FALSE
      BY <3>3 DEF SignalMain, SignalAgain, vars, memVars
    <3>4. ASSUME NEW h \in Signals, Check(h) \/ Stop(h) \/ Join(h) \/ SetNull(h)
          PROVE  FALSE
      BY <1>1, <3>4 DEF Check, Stop, Join, SetNull, memVars, AgentInv, TypeOK
    <3> QED
      BY <1>1, <3>1, <3>2, <3>3, <3>4 DEF Next, HandlerStep
  <2>2. /\ fault = "none" /\ handler[h].at = "free"
        /\ inst' = [inst EXCEPT ![handler[h].owner] = "freed"]
    BY <2>1 DEF Free, Runs, Alive
  <2>3. h = 1 /\ H.at = "free" /\ c = H.owner
    BY <1>1, <2>2 DEF Once, H, AgentInv, TypeOK
  <2>4. OneHandler /\ JoinedIdle
    BY <1>1, <2>2 DEF AgentInv, OnceInv
  <2>5. ASSUME NEW d \in Owners, c < d, d <= type PROVE inst[d] = "null"
    <3>1. Passed(d)
      BY <2>3, <2>5 DEF Passed
    <3> QED
      BY <2>4, <3>1 DEF OneHandler
  <2>6. c \in Pools => TasksDone(c)
    BY <2>3, <2>4 DEF OneHandler, JoinedIdle, TasksDone, Pools, LOG, ALERT,
       PROCESS_CACHE
  <2> QED
    BY <2>5, <2>6
<1>2. AgentInv /\ [Next]_vars => [FreesInOrder]_vars
  BY <1>1
<1> QED
  BY <1>2, AgentInvariant, PTL DEF Spec, ReleasedInOrder
===============================================================================
