----------------------------- MODULE SysManager -----------------------------
(***************************************************************************)
(* user-tasks/SysManager.cpp: the task that answers topic updates with     *)
(* beeps and flashes, on the broker as Broker.tla has it and the signal    *)
(* flags of RtxSignals.  Its publishers have higher priorities: a publish  *)
(* is one step, its notification callback included, and comes between any  *)
(* two steps of the task.  A publish in the middle of a lookup of the task *)
(* may hide the topic from it (MsgBroker, findTopic): each call of the     *)
(* task may miss.                                                          *)
(*                                                                         *)
(* In the code, the callback has no branch for /stat, and the handler of   *)
(* /alarm no call of consumed.  Variants has that, and what the code would *)
(* be with the one or both of them in place.                               *)
(***************************************************************************)
EXTENDS RtxSignals, Integers, Sequences

CONSTANTS
  SM,          \* the SysManager object, the observer of all four topics
  Modes,       \* values of StatusData_t::mode, sets of mode flags
  None,
  Variants     \* pairs: what branches and consumes may be

Topics == {"/gps", "/keyb", "/alarm", "/stat"}

\* The order of the attach calls, and that of the handlers in the loop.
Attached == <<"/gps", "/keyb", "/alarm", "/stat">>
Handlers == <<"/alarm", "/keyb", "/gps", "/stat">>

ASSUME VariantAssumption == Variants \subseteq (SUBSET Topics) \X (SUBSET Topics)
ASSUME ModeAssumption    == Modes # {} /\ None \notin Modes

VARIABLES
  branches,    \* topics that OnTopicUpdateCallback sets a flag for
  consumes,    \* topics whose handler calls consumed
  subscribed, outstanding, latest,    \* the broker
  status,   \* the mode in the buffer that /stat's data points to, None if it is null
  th,       \* main has assigned _th
  tcb,      \* the thread's control block, a flag for each topic
  pc,       \* where run() is
  at,       \* the attach call or the handler it is at
  sound,    \* the arguments of the last beepStart
  light     \* the argument of the last ledStart

broker == <<subscribed, outstanding, latest>>
code == <<branches, consumes>>
vars == <<branches, consumes, subscribed, outstanding, latest, status, th, tcb, pc, at, sound, light>>

\* The task sees of an update that there is one, and of /stat what its data points to.
B == INSTANCE Broker WITH Tasks <- {SM}, Values <- {"update"}

Labels == {"th", "attach", "wait", "blocked", "clear", "show", "alt", "rth",
           "consume", "beep", "fault", "missed"}

\* The program has read through a pointer that is not set, or that a lookup missed.
Stopped == pc \in {"fault", "missed"}

-----------------------------------------------------------------------------
(* The publishers *)

\* OnTopicUpdateCallback and notifyUpdate; a thread that wakes starts its handlers.
Notified(n) ==
  IF SM \in subscribed[n] /\ n \in branches
    THEN /\ tcb' = SignalSet(tcb, {n})
         /\ pc' = IF ~th THEN "fault"
                  ELSE IF pc = "blocked" /\ ~Blocked(tcb') THEN "clear" ELSE pc
         /\ at' = IF pc = "blocked" /\ ~Blocked(tcb') THEN 1 ELSE at
    ELSE UNCHANGED <<tcb, pc, at>>

\* An update that is accepted.
Publish(n) ==
  /\ ~Stopped
  /\ B!Accept(n, "update")
  /\ IF n = "/stat" THEN \E v \in Modes : status' = v ELSE UNCHANGED status
  /\ Notified(n)
  /\ UNCHANGED <<code, th, sound, light>>

\* The publisher of /stat writes the next status into the same buffer before it calls
\* publish, which may refuse it.
WriteStatus ==
  /\ ~Stopped /\ status # None
  /\ \E v \in Modes : status' = v
  /\ UNCHANGED <<code, broker, th, tcb, pc, at, sound, light>>

AssignTh ==
  /\ ~th /\ th' = TRUE
  /\ UNCHANGED <<code, broker, status, tcb, pc, at, sound, light>>

-----------------------------------------------------------------------------
(* run() *)

\* Mutant: run() does not wait for _th.
Started ==
  /\ pc = "th" /\ pc' = "attach"
  /\ UNCHANGED <<code, broker, status, th, tcb, at, sound, light>>

FoundTh ==
  /\ pc = "th" /\ th /\ pc' = "attach"
  /\ UNCHANGED <<code, broker, status, th, tcb, at, sound, light>>

\* The four attach calls, the results of which are not examined, then ledStop and
\* beepStop.
Attach ==
  /\ pc = "attach"
  /\ B!Subscribe(SM, Attached[at]) \/ UNCHANGED broker
  /\ IF at < 4 THEN at' = at + 1 /\ pc' = pc ELSE at' = 1 /\ pc' = "wait"
  /\ UNCHANGED <<code, status, th, tcb, sound, light>>

\* signal_wait for all four flags, with osWaitForever.
Wait ==
  /\ pc = "wait"
  /\ tcb' = SignalWait(tcb, Topics)
  /\ pc' = IF Blocked(tcb') THEN "blocked" ELSE "clear"
  /\ at' = 1
  /\ UNCHANGED <<code, broker, status, th, sound, light>>

\* signal_wait gives back the flags it was asked for: each handler runs.
Clear ==
  /\ pc = "clear"
  /\ tcb' = SignalClr(tcb, {Handlers[at]})
  /\ pc' = IF Handlers[at] = "/stat" THEN "show" ELSE "consume"
  /\ UNCHANGED <<code, broker, status, th, at, sound, light>>

\* The /stat handler gets the pointer to the publisher's buffer, and then loads the
\* mode from there again and again: before the switch and the test for LOC ...
Show ==
  /\ pc = "show"
  /\ \/ status = None /\ pc' = "fault" /\ UNCHANGED light
     \/ status = {} /\ pc' = "consume" /\ light' = "ON_FOREVER"
     \/ status = {"MANUAL"} /\ pc' = "consume" /\ light' = "SLOW_FLASHING"
     \/ /\ status \notin {None, {}, {"MANUAL"}} /\ pc' = "alt"
        /\ light' = IF "LOC" \in status THEN "SINGLE_FAST_FLASHING" ELSE light
     \/ pc' = "missed" /\ UNCHANGED light    \* getTopicData gives back null
  /\ UNCHANGED <<code, broker, status, th, tcb, at, sound>>

\* ... and once more for each of the other flags, after the ledStart before it.
ShowFlag(from, flag, flashing, to) ==
  /\ pc = from /\ pc' = to
  /\ light' = IF flag \in status THEN flashing ELSE light
  /\ UNCHANGED <<code, broker, status, th, tcb, at, sound>>

ShowAlt == ShowFlag("alt", "ALT", "DUAL_FAST_FLASHING", "rth")
ShowRth == ShowFlag("rth", "RTH", "CONTINUOUS_FAST_FLASHING", "consume")

\* A topic that is not found is dereferenced all the same.
Consume ==
  /\ pc = "consume"
  /\ \/ /\ pc' = "beep"
        /\ IF Handlers[at] \in consumes /\ SM \in outstanding[Handlers[at]]
             THEN B!Consume(SM, Handlers[at])
             ELSE UNCHANGED broker
     \/ Handlers[at] \in consumes /\ pc' = "missed" /\ UNCHANGED broker
  /\ UNCHANGED <<code, status, th, tcb, at, sound, light>>

BeepOf(n) ==
  CASE n = "/alarm" -> <<"QUAD_SHOT", "REPEAT_FOREVER">>
    [] n = "/keyb"  -> <<"ONE_SHOT", "NO_REPEAT">>
    [] OTHER        -> <<"DUAL_SHOT", "NO_REPEAT">>

\* Mutant: the flag is cleared when its update has been handled.
BeepThenClear ==
  /\ pc = "beep"
  /\ sound' = BeepOf(Handlers[at])
  /\ tcb' = SignalClr(tcb, {Handlers[at]})
  /\ IF at < 4 THEN at' = at + 1 /\ pc' = "clear" ELSE at' = 1 /\ pc' = "wait"
  /\ UNCHANGED <<code, broker, status, th, light>>

Beep ==
  /\ pc = "beep"
  /\ sound' = BeepOf(Handlers[at])
  /\ IF at < 4 THEN at' = at + 1 /\ pc' = "clear" ELSE at' = 1 /\ pc' = "wait"
  /\ UNCHANGED <<code, broker, status, th, tcb, light>>

-----------------------------------------------------------------------------
Init ==
  /\ B!Init /\ status = None
  /\ \E v \in Variants : branches = v[1] /\ consumes = v[2]
  /\ th = FALSE /\ tcb = TcbInit /\ pc = "th" /\ at = 1
  /\ sound = <<>> /\ light = "STOPPED"

Task == \/ FoundTh \/ Attach \/ Wait \/ Clear \/ Show \/ ShowAlt \/ ShowRth
        \/ Consume \/ Beep

Next == AssignTh \/ Task \/ WriteStatus \/ \E n \in Topics : Publish(n)

Spec == Init /\ [][Next]_vars

\* The task gets the processor: the tasks above it sleep most of the time.
FairSpec == Spec /\ WF_vars(AssignTh) /\ WF_vars(Task)

-----------------------------------------------------------------------------
(* Properties *)

Owed(n) == SM \in outstanding[n]

TypeOK ==
  /\ branches \subseteq Topics /\ consumes \subseteq Topics
  /\ subscribed \in [Topics -> SUBSET {SM}]
  /\ outstanding \in [Topics -> SUBSET {SM}]
  /\ latest \in [Topics -> {"update", None}] /\ status \in Modes \union {None}
  /\ th \in BOOLEAN /\ tcb \in Tcb(Topics)
  /\ pc \in Labels /\ at \in 1 .. 4
  /\ light \in {"STOPPED", "ON_FOREVER", "SLOW_FLASHING", "SINGLE_FAST_FLASHING",
                "DUAL_FAST_FLASHING", "CONTINUOUS_FAST_FLASHING"}

\* Neither is _th used before it is assigned, nor the data of /stat before there is a
\* status.  (What a lookup that is disturbed does to the task is "missed".)
NoFault == pc # "fault"

\* The handler of n is still to come in this pass.
Ahead(n) == \/ pc \in {"clear", "show", "alt", "rth", "consume"} /\ \E i \in at .. 4 : Handlers[i] = n
            \/ pc = "beep" /\ \E i \in at + 1 .. 4 : Handlers[i] = n

\* No update is forgotten: as long as SysManager owes consumed() for a topic it
\* has a branch and a consumed for, the topic's flag is set or its handler is
\* still to come, unless a disturbed lookup has stopped the program.  An update that
\* arrives while the handlers run is not lost, because each of them clears its flag
\* before it calls consumed.
NothingForgotten ==
  \A n \in branches \intersect consumes :
    Owed(n) => n \in tcb.events \/ Ahead(n) \/ pc = "missed"

\* "On /keyb topic it will start a short single beep" (SysManager.h): an update of
\* /keyb that SysManager is notified of gets to the beepStart of its handler.
KeyBeeps == Owed("/keyb") ~> pc = "beep" /\ Handlers[at] = "/keyb"
=============================================================================
