-------------------------- MODULE SysManager_proofs --------------------------
(***************************************************************************)
(* Proofs about SysManager, for any status values and any choice of the    *)
(* branches and of the consumed calls that are in place: types, nothing    *)
(* used before it is set, and no update forgotten.                         *)
(***************************************************************************)
EXTENDS SysManager, TLAPS

-----------------------------------------------------------------------------
(* The signal flags *)

\* What notifyUpdate does to the thread: it collects the flag, or wakes with none left.
LEMMA SetOne ==
  ASSUME NEW t \in Tcb(Topics), NEW n \in Topics, Blocked(t) => t.waits = Topics
  PROVE  LET u == SignalSet(t, {n}) IN
         /\ u \in Tcb(Topics)
         /\ Blocked(u) => Blocked(t) /\ u.waits = Topics
         /\ (Blocked(u) <=> Blocked(t)) => u.events = t.events \union {n}
         /\ Blocked(t) /\ ~Blocked(u) => u.events = {} /\ Topics \subseteq t.events \union {n}
<1> DEFINE set == [t EXCEPT !.events = @ \union {n}]
<1>1. set \in Tcb(Topics) /\ set.events = t.events \union {n} /\ set.waits = t.waits
      /\ (Blocked(set) <=> Blocked(t))
  BY DEF Tcb, Blocked
<1>2. CASE Blocked(t) /\ Topics \subseteq set.events
  <2>1. SignalSet(t, {n}) = Signalled(set, Topics)
    BY <1>2 DEF SignalSet
  <2>2. Signalled(set, Topics) \in Tcb(Topics) /\ ~Blocked(Signalled(set, Topics))
        /\ Signalled(set, Topics).events = {}
    BY <1>1 DEF Signalled, Tcb, TcbStates, Statuses, Blocked
  <2> QED
    BY <1>1, <1>2, <2>1, <2>2
<1>3. CASE ~(Blocked(t) /\ Topics \subseteq set.events)
  <2>1. SignalSet(t, {n}) = set
    BY <1>3 DEF SignalSet
  <2> QED
    BY <1>1, <1>3, <2>1
<1> QED
  BY <1>2, <1>3

\* The wait for all topics takes all flags or none.
LEMMA WaitAll ==
  ASSUME NEW t \in Tcb(Topics)
  PROVE  LET u == SignalWait(t, Topics) IN
         /\ u \in Tcb(Topics)
         /\ Blocked(u) => u.waits = Topics /\ u.events = t.events
         /\ ~Blocked(u) => u.events = {} /\ Topics \subseteq t.events
  BY DEF Tcb, TcbStates, Statuses, SignalWait, Signalled, Blocked

LEMMA ClearOne ==
  ASSUME NEW t \in Tcb(Topics), NEW n \in Topics
  PROVE  LET u == SignalClr(t, {n}) IN
         /\ u \in Tcb(Topics) /\ u.events = t.events \ {n}
         /\ (Blocked(u) <=> Blocked(t)) /\ u.waits = t.waits
  BY DEF Tcb, SignalClr, Blocked

\* Each topic has one handler, and that of /stat is the last.
LEMMA HandlersOf ==
  /\ \A i \in 1 .. 4 : Handlers[i] \in Topics /\ Attached[i] \in Topics
  /\ \A i \in 1 .. 4 : Handlers[i] = "/stat" <=> i = 4
  /\ \A i, j \in 1 .. 4 : Handlers[i] = Handlers[j] => i = j
  BY DEF Handlers, Attached, Topics

-----------------------------------------------------------------------------
(* The inductive invariant *)

Handling == {"clear", "show", "alt", "rth", "consume", "beep"}

\* Where run() is, and what it waits for.
Control ==
  /\ ~th => pc = "th"
  /\ pc = "th" => \A n \in Topics : subscribed[n] = {}
  /\ Blocked(tcb) <=> pc = "blocked"
  /\ Blocked(tcb) => tcb.waits = Topics
  /\ pc \in {"show", "alt", "rth"} => at = 4

\* Only branches set flags, so that the handlers run with all of them in place.
Reached ==
  /\ tcb.events \subseteq branches
  /\ pc \in Handling => branches = Topics

\* A flag, or a handler still to come, stands for one update that is still owed.
Standing ==
  \A n \in Topics : /\ n \in tcb.events \/ Ahead(n) => Owed(n)
                    /\ Ahead(n) => n \notin tcb.events

\* There is a status once one is owed, whatever its publisher writes afterwards.
Published == Owed("/stat") => status # None

Inv == /\ TypeOK /\ NoFault /\ Control /\ Reached
       /\ Standing /\ Published /\ NothingForgotten

-----------------------------------------------------------------------------
(* Inv is inductive *)

LEMMA InitInv == Init => Inv
<1> SUFFICES ASSUME Init PROVE Inv
  OBVIOUS
<1>0. /\ subscribed \in [Topics -> SUBSET {SM}] /\ outstanding \in [Topics -> SUBSET {SM}]
      /\ latest \in [Topics -> {"update", None}]
  <2>1. /\ subscribed = [n \in Topics |-> {}] /\ outstanding = [n \in Topics |-> {}]
        /\ latest = [n \in Topics |-> None]
    BY DEF Init, B!Init
  <2> QED
    BY <2>1
<1> USE DEF Init, B!Init, TcbInit
<1>1. TypeOK
  <2>1. PICK v \in (SUBSET Topics) \X (SUBSET Topics) : branches = v[1] /\ consumes = v[2]
    BY VariantAssumption
  <2>2. branches \subseteq Topics /\ consumes \subseteq Topics
    BY <2>1
  <2>3. tcb \in Tcb(Topics)
    BY DEF Tcb, TcbStates, Statuses
  <2>4. th \in BOOLEAN /\ pc \in Labels /\ at \in 1 .. 4
    <3>1. th \in BOOLEAN
      BY Zenon
    <3>2. pc \in Labels /\ at \in 1 .. 4
      BY DEF Labels
    <3> QED
      BY <3>1, <3>2
  <2>5. light = "STOPPED"
    OBVIOUS
  <2>6. status = None
    OBVIOUS
  <2> HIDE DEF Init, B!Init, TcbInit
  <2> QED
    BY <1>0, <2>2, <2>3, <2>4, <2>5, <2>6 DEF TypeOK
<1>2. NoFault /\ Control /\ Reached
  BY DEF NoFault, Control, Reached, Handling, Blocked
<1>3. \A n \in Topics : ~Owed(n) /\ ~Ahead(n) /\ n \notin tcb.events
  BY DEF Owed, Ahead
<1>4. branches \subseteq Topics /\ "/stat" \in Topics
  BY <1>1 DEF TypeOK, Topics
<1> QED
  BY <1>1, <1>2, <1>3, <1>4 DEF Inv, Standing, Published, NothingForgotten

\* A topic that accepts an update has no flag set and no handler to come.
LEMMA PublishInv ==
  ASSUME Inv, NEW n \in Topics, Publish(n)
  PROVE  Inv'
<1> USE DEF Inv
<1>1. B!Accept(n, "update") /\ pc \notin {"fault", "missed"}
  BY DEF Publish, Stopped
<1>2. /\ ~Owed(n) /\ n \notin tcb.events /\ ~Ahead(n)
      /\ \A m \in Topics \ {n} : Owed(m)' <=> Owed(m)
      /\ Owed(n)' <=> SM \in subscribed[n]
  BY <1>1 DEF B!Accept, Owed, Standing, TypeOK
<1>3. /\ subscribed' = subscribed /\ code' = code /\ th' = th /\ light' = light
  BY <1>1 DEF B!Accept, Publish
<1>4. /\ outstanding' \in [Topics -> SUBSET {SM}] /\ latest' \in [Topics -> {"update", None}]
      /\ status' \in Modes \union {None}
  BY <1>1 DEF B!Accept, TypeOK, Publish
<1>5. Published'
  <2>1. CASE n = "/stat"
    BY <2>1, ModeAssumption DEF Publish, Published
  <2>2. CASE n # "/stat"
    BY <1>2, <2>2 DEF Publish, Published, Topics
  <2> QED
    BY <2>1, <2>2
<1>6. CASE SM \in subscribed[n] /\ n \in branches
  <2>1. th /\ pc # "th" /\ pc # "fault"
    BY <1>6 DEF Control, TypeOK, NoFault
  <2>2. /\ tcb' = SignalSet(tcb, {n})
        /\ pc' = IF pc = "blocked" /\ ~Blocked(tcb') THEN "clear" ELSE pc
        /\ at' = IF pc = "blocked" /\ ~Blocked(tcb') THEN 1 ELSE at
    BY <1>6, <2>1 DEF Publish, Notified
  <2>3. /\ tcb' \in Tcb(Topics)
        /\ Blocked(tcb') => Blocked(tcb) /\ tcb'.waits = Topics
        /\ (Blocked(tcb') <=> Blocked(tcb)) => tcb'.events = tcb.events \union {n}
        /\ Blocked(tcb) /\ ~Blocked(tcb')
             => tcb'.events = {} /\ Topics \subseteq tcb.events \union {n}
    BY <2>2, SetOne DEF TypeOK, Control
  <2>4. TypeOK'
    BY <1>3, <1>4, <2>2, <2>3 DEF TypeOK, code, Labels
  <2>5. CASE pc = "blocked" /\ ~Blocked(tcb')
    <3>1. /\ pc' = "clear" /\ at' = 1 /\ tcb'.events = {}
          /\ Topics \subseteq tcb.events \union {n}
      BY <2>2, <2>3, <2>5 DEF Control
    <3>2. \A m \in Topics : Owed(m)'
      BY <1>2, <1>6, <3>1 DEF Standing
    <3>3. \A m \in Topics : Ahead(m)'
      BY <3>1 DEF Ahead, Handlers, Topics
    <3>4. branches' = Topics
      BY <1>3, <1>6, <3>1 DEF Reached, TypeOK, code
    <3>5. Control' /\ Reached' /\ NoFault'
      BY <1>3, <2>1, <2>5, <3>1, <3>4 DEF Control, Reached, NoFault
    <3> QED
      BY <1>5, <2>4, <3>1, <3>2, <3>3, <3>4, <3>5 DEF Standing, NothingForgotten
  <2>6. CASE ~(pc = "blocked" /\ ~Blocked(tcb'))
    <3>1. /\ pc' = pc /\ at' = at /\ tcb'.events = tcb.events \union {n}
          /\ Blocked(tcb') <=> Blocked(tcb)
      BY <2>2, <2>3, <2>6 DEF Control
    <3>2. \A m \in Topics : Ahead(m)' <=> Ahead(m)
      BY <3>1 DEF Ahead
    <3>3. Control' /\ Reached' /\ NoFault'
      BY <1>3, <1>6, <2>1, <2>3, <3>1 DEF Control, Reached, NoFault, Handling, code
    <3>4. Standing'
      BY <1>2, <1>6, <3>1, <3>2 DEF Standing
    <3>5. NothingForgotten'
      BY <1>2, <1>3, <3>1, <3>2 DEF NothingForgotten, TypeOK, code
    <3> QED
      BY <1>5, <2>4, <3>3, <3>4, <3>5
  <2> QED
    BY <2>5, <2>6
<1>7. CASE ~(SM \in subscribed[n] /\ n \in branches)
  <2>1. tcb' = tcb /\ pc' = pc /\ at' = at
    BY <1>7 DEF Publish, Notified
  <2>2. \A m \in Topics : Ahead(m)' <=> Ahead(m)
    BY <2>1 DEF Ahead
  <2>3. TypeOK' /\ Control' /\ Reached' /\ NoFault'
    BY <1>3, <1>4, <2>1 DEF TypeOK, Control, Reached, NoFault, Handling, code
  <2>4. Standing'
    BY <1>2, <2>1, <2>2 DEF Standing
  <2>5. NothingForgotten'
    BY <1>2, <1>3, <1>7, <2>1, <2>2 DEF NothingForgotten, TypeOK, code
  <2> QED
    BY <1>5, <2>3, <2>4, <2>5
<1> QED
  BY <1>6, <1>7

\* AssignTh leaves alone all but th.
LEMMA AssignInv == Inv /\ AssignTh => Inv'
<1> SUFFICES ASSUME Inv, AssignTh PROVE Inv'
  OBVIOUS
<1> QED
  BY DEF Inv, AssignTh, TypeOK, NoFault, Control, Reached, Standing, Published,
         NothingForgotten, Owed, Ahead, Handling, code, broker

\* Writing into the buffer leaves a status there.
LEMMA WriteInv == Inv /\ WriteStatus => Inv'
<1> SUFFICES ASSUME Inv, WriteStatus PROVE Inv'
  OBVIOUS
<1>1. status' \in Modes
  BY DEF WriteStatus
<1>2. UNCHANGED <<code, broker, th, tcb, pc, at, sound, light>>
  BY DEF WriteStatus
<1>3. \A n \in Topics : Owed(n)' = Owed(n) /\ Ahead(n)' = Ahead(n)
  BY <1>2 DEF Owed, Ahead, broker
<1>4. Published'
  BY <1>1, ModeAssumption DEF Published
<1> QED
  BY <1>1, <1>2, <1>3, <1>4 DEF Inv, TypeOK, NoFault, Control, Reached, Standing,
         NothingForgotten, Handling, code, broker

LEMMA FoundInv == Inv /\ FoundTh => Inv'
<1> SUFFICES ASSUME Inv, FoundTh PROVE Inv'
  OBVIOUS
<1>1. \A n \in Topics : Owed(n)' = Owed(n) /\ ~Ahead(n) /\ ~Ahead(n)'
  BY DEF FoundTh, Owed, Ahead, broker
<1> QED
  BY <1>1 DEF Inv, FoundTh, TypeOK, Labels, NoFault, Control, Reached, Standing,
              Published, NothingForgotten, Handling, code, broker, Topics

\* Attaching does not make SysManager owe anything.
LEMMA AttachInv == Inv /\ Attach => Inv'
<1> SUFFICES ASSUME Inv, Attach PROVE Inv'
  OBVIOUS
<1> USE DEF Inv
<1>1. /\ outstanding' = outstanding /\ latest' = latest /\ status' = status
      /\ tcb' = tcb /\ th' = th /\ code' = code /\ light' = light /\ pc = "attach" /\ pc' \in {"attach", "wait"}
  BY DEF Attach, B!Subscribe, broker
<1>2. subscribed' \in [Topics -> SUBSET {SM}]
  BY DEF Attach, B!Subscribe, TypeOK, broker
<1>3. at' \in 1 .. 4
  BY DEF Attach, TypeOK
<1>4. \A n \in Topics : Owed(n)' = Owed(n) /\ ~Ahead(n) /\ ~Ahead(n)'
  BY <1>1 DEF Owed, Ahead
<1>5. TypeOK'
  BY <1>1, <1>2, <1>3 DEF TypeOK, Labels, code
<1>6. NoFault' /\ Control' /\ Reached'
  BY <1>1 DEF NoFault, Control, Reached, Handling, code
<1>7. Standing' /\ Published' /\ NothingForgotten'
  BY <1>1, <1>4 DEF Standing, Published, NothingForgotten, TypeOK, Topics, code
<1> QED
  BY <1>5, <1>6, <1>7

\* The wait takes all the flags, each of which leaves its handler to come.
LEMMA WaitInv == Inv /\ Wait => Inv'
<1> SUFFICES ASSUME Inv, Wait PROVE Inv'
  OBVIOUS
<1> USE DEF Inv
<1>1. /\ outstanding' = outstanding /\ latest' = latest /\ status' = status /\ subscribed' = subscribed
      /\ th' = th /\ code' = code /\ light' = light /\ pc = "wait" /\ at' = 1
      /\ pc' = IF Blocked(tcb') THEN "blocked" ELSE "clear"
  BY DEF Wait, broker
<1>2. /\ tcb' \in Tcb(Topics)
      /\ Blocked(tcb') => tcb'.waits = Topics /\ tcb'.events = tcb.events
      /\ ~Blocked(tcb') => tcb'.events = {} /\ Topics \subseteq tcb.events
  BY WaitAll DEF Wait, TypeOK
<1>3. \A n \in Topics : (Owed(n)' <=> Owed(n)) /\ ~Ahead(n)
  BY <1>1 DEF Owed, Ahead
<1>4. TypeOK'
  BY <1>1, <1>2 DEF TypeOK, Labels, code
<1>5. NoFault' /\ Control' /\ Published'
  BY <1>1, <1>2, <1>3 DEF NoFault, Control, Published, Topics
<1>6. Reached'
  BY <1>1, <1>2 DEF Reached, Handling, TypeOK, code
<1>7. Standing' /\ NothingForgotten'
  <2>1. CASE Blocked(tcb')
    <3>1. \A n \in Topics : ~Ahead(n)'
      BY <1>1, <2>1 DEF Ahead
    <3> QED
      BY <1>1, <1>2, <1>3, <2>1, <3>1 DEF Standing, NothingForgotten, TypeOK, code
  <2>2. CASE ~Blocked(tcb')
    <3>1. \A n \in Topics : Ahead(n)'
      BY <1>1, <2>2 DEF Ahead, Handlers, Topics
    <3> QED
      BY <1>1, <1>2, <1>3, <2>2, <3>1 DEF Standing, NothingForgotten, TypeOK, code
  <2> QED
    BY <2>1, <2>2
<1> QED
  BY <1>4, <1>5, <1>6, <1>7

\* The flag of the topic whose handler begins is not set any more: clearing it
\* forgets nothing.
LEMMA ClearInv == Inv /\ Clear => Inv'
<1> SUFFICES ASSUME Inv, Clear PROVE Inv'
  OBVIOUS
<1> USE DEF Inv
<1>1. /\ outstanding' = outstanding /\ latest' = latest /\ status' = status /\ subscribed' = subscribed
      /\ th' = th /\ code' = code /\ light' = light /\ at' = at /\ pc = "clear"
      /\ pc' = IF at = 4 THEN "show" ELSE "consume"
  BY HandlersOf DEF Clear, TypeOK, broker
<1>2. /\ tcb' \in Tcb(Topics) /\ tcb'.events = tcb.events \ {Handlers[at]}
      /\ (Blocked(tcb') <=> Blocked(tcb)) /\ tcb'.waits = tcb.waits
  BY ClearOne, HandlersOf DEF Clear, TypeOK
<1>3. \A n \in Topics : (Owed(n)' <=> Owed(n)) /\ (Ahead(n)' <=> Ahead(n))
  BY <1>1 DEF Owed, Ahead
<1>4. Handlers[at] \in Topics /\ Ahead(Handlers[at])
  BY <1>1, HandlersOf DEF Ahead, TypeOK
<1>5. tcb'.events = tcb.events
  BY <1>2, <1>4 DEF Standing
<1>6. TypeOK'
  BY <1>1, <1>2 DEF TypeOK, Labels, code
<1>7. NoFault' /\ Control' /\ Published' /\ Reached'
  BY <1>1, <1>2, <1>3 DEF NoFault, Control, Published, Reached, Handling, TypeOK, Topics, code
<1>8. Standing'
  BY <1>3, <1>5 DEF Standing
<1>9. NothingForgotten'
  BY <1>1, <1>3, <1>5 DEF NothingForgotten, TypeOK, code
<1> QED
  BY <1>6, <1>7, <1>8, <1>9

\* There is a status to show, because one is owed.
LEMMA ShowInv == Inv /\ Show => Inv'
<1> SUFFICES ASSUME Inv, Show PROVE Inv'
  OBVIOUS
<1> USE DEF Inv
<1>1. Ahead("/stat") /\ "/stat" \in Topics
  BY DEF Ahead, Handlers, Show, Control, Topics
<1>2. status # None
  BY <1>1 DEF Standing, Published
<1>3. /\ UNCHANGED <<code, broker, status, th, tcb, at>> /\ pc = "show"
      /\ pc' \in {"consume", "alt", "missed"}
      /\ light' \in {light, "ON_FOREVER", "SLOW_FLASHING", "SINGLE_FAST_FLASHING"}
  BY <1>2 DEF Show
<1>4. \A n \in Topics : (Owed(n)' <=> Owed(n)) /\ (Ahead(n)' <=> Ahead(n) /\ pc' # "missed")
  BY <1>3 DEF Owed, Ahead, broker
<1>5. TypeOK'
  BY <1>3 DEF TypeOK, Labels, code, broker
<1>6. NoFault' /\ Control' /\ Reached' /\ Published'
  BY <1>3, <1>4 DEF NoFault, Control, Published, Reached, Handling, code, broker, Owed
<1>7. Standing' /\ NothingForgotten'
  BY <1>3, <1>4 DEF Standing, NothingForgotten, code, TypeOK
<1> QED
  BY <1>5, <1>6, <1>7

\* The other loads of the mode only choose the flashing.
LEMMA ShowFlagInv ==
  ASSUME Inv, NEW from \in {"alt", "rth"}, NEW to \in {"rth", "consume"}, NEW flag,
         NEW flashing \in {"DUAL_FAST_FLASHING", "CONTINUOUS_FAST_FLASHING"},
         ShowFlag(from, flag, flashing, to)
  PROVE  Inv'
<1> USE DEF Inv
<1>1. /\ UNCHANGED <<code, broker, status, th, tcb, at>> /\ pc = from /\ pc' = to
      /\ light' \in {light, flashing}
  BY DEF ShowFlag
<1>2. \A n \in Topics : (Owed(n)' <=> Owed(n)) /\ (Ahead(n)' <=> Ahead(n))
  BY <1>1 DEF Owed, Ahead, broker
<1>3. TypeOK'
  BY <1>1 DEF TypeOK, Labels, code, broker
<1>4. NoFault' /\ Control' /\ Reached' /\ Published'
  BY <1>1, <1>2 DEF NoFault, Control, Published, Reached, Handling, code, broker, Owed
<1>5. Standing' /\ NothingForgotten'
  BY <1>1, <1>2 DEF Standing, NothingForgotten, code, TypeOK
<1> QED
  BY <1>3, <1>4, <1>5

LEMMA ShowFlagsInv == Inv /\ (ShowAlt \/ ShowRth) => Inv'
  BY ShowFlagInv DEF ShowAlt, ShowRth

\* Consumed or not, the handler does not come back before the next update.
LEMMA ConsumeInv == Inv /\ Consume => Inv'
<1> SUFFICES ASSUME Inv, Consume PROVE Inv'
  OBVIOUS
<1> USE DEF Inv
<1>1. /\ latest' = latest /\ status' = status /\ subscribed' = subscribed /\ th' = th
      /\ code' = code /\ light' = light /\ at' = at /\ tcb' = tcb /\ pc = "consume"
      /\ pc' \in {"beep", "missed"}
  BY DEF Consume, B!Consume, broker
<1>2. /\ outstanding' \in [Topics -> SUBSET {SM}]
      /\ \A n \in Topics \ {Handlers[at]} : Owed(n)' <=> Owed(n)
      /\ Owed(Handlers[at])' => Owed(Handlers[at])
      /\ pc' = "beep" /\ Owed(Handlers[at])' => Handlers[at] \notin consumes
  BY DEF Consume, B!Consume, broker, Owed, TypeOK
<1>3. /\ \A n \in Topics : pc' = "beep" => (Ahead(n)' <=> Ahead(n) /\ n # Handlers[at])
      /\ \A n \in Topics : pc' = "missed" => ~Ahead(n)'
  BY <1>1, HandlersOf DEF Ahead, TypeOK
<1>4. Handlers[at] \in Topics /\ Ahead(Handlers[at])
  BY <1>1, HandlersOf DEF Ahead, TypeOK
<1>5. TypeOK'
  BY <1>1, <1>2 DEF TypeOK, Labels, code
<1>6. NoFault' /\ Control' /\ Reached'
  BY <1>1, <1>2 DEF NoFault, Control, Reached, Handling, code
<1>7. Published'
  BY <1>1, <1>2 DEF Published, Topics
<1>8. Standing'
  <2>1. CASE pc' = "missed"
    <3>1. outstanding' = outstanding
      BY <2>1 DEF Consume, broker
    <3> QED
      BY <1>1, <1>3, <2>1, <3>1 DEF Standing, Owed
  <2>2. CASE pc' = "beep"
    BY <1>1, <1>2, <1>3, <1>4, <2>2 DEF Standing
  <2> QED
    BY <1>1, <2>1, <2>2
<1>9. NothingForgotten'
  BY <1>1, <1>2, <1>3 DEF NothingForgotten, TypeOK, code
<1> QED
  BY <1>5, <1>6, <1>7, <1>8, <1>9

LEMMA BeepInv == Inv /\ Beep => Inv'
<1> SUFFICES ASSUME Inv, Beep PROVE Inv'
  OBVIOUS
<1> USE DEF Inv
<1>1. /\ outstanding' = outstanding /\ latest' = latest /\ status' = status /\ subscribed' = subscribed
      /\ th' = th /\ code' = code /\ light' = light /\ tcb' = tcb /\ pc = "beep"
      /\ IF at < 4 THEN at' = at + 1 /\ pc' = "clear" ELSE at' = 1 /\ pc' = "wait"
  BY DEF Beep, broker
<1>2. \A n \in Topics : (Owed(n)' <=> Owed(n)) /\ (Ahead(n)' <=> Ahead(n))
  <2>1. CASE at < 4
    BY <1>1, <2>1 DEF Owed, Ahead
  <2>2. CASE at = 4
    BY <1>1, <2>2 DEF Owed, Ahead
  <2> QED
    BY <2>1, <2>2 DEF TypeOK
<1>3. TypeOK'
  BY <1>1 DEF TypeOK, Labels, code
<1> QED
  BY <1>1, <1>2, <1>3 DEF NoFault, Control, Published, Reached, Handling,
                          Standing, NothingForgotten, TypeOK, Topics, code

LEMMA NextInv == Inv /\ [Next]_vars => Inv'
<1> SUFFICES ASSUME Inv, [Next]_vars PROVE Inv'
  OBVIOUS
<1>1. CASE UNCHANGED vars
  BY <1>1 DEF vars, Inv, TypeOK, NoFault, Control, Reached, Standing, Published,
              NothingForgotten, Owed, Ahead, Handling
<1> QED
  BY <1>1, PublishInv, WriteInv, AssignInv, FoundInv, AttachInv, WaitInv, ClearInv, ShowInv,
     ShowFlagsInv, ConsumeInv, BeepInv DEF Next, Task

LEMMA Invariance == Spec => []Inv
  BY InitInv, NextInv, PTL DEF Spec

-----------------------------------------------------------------------------
(* What follows *)

\* Every variable of SysManager keeps its type.
THEOREM TypeCorrect == Spec => []TypeOK
<1>1. Inv => TypeOK
  BY DEF Inv
<1> QED
  BY Invariance, <1>1, PTL

\* SysManager never uses _th before main has assigned it, although run() starts
\* first, and never reads a status through a
\* pointer that is not set.
THEOREM NeverFaults == Spec => []NoFault
<1>1. Inv => NoFault
  BY DEF Inv
<1> QED
  BY Invariance, <1>1, PTL

\* Whenever an update comes, it leaves a flag set or a handler still to come, for
\* each topic that has a branch in the callback and a consumed in its handler.
THEOREM NeverForgets == Spec => []NothingForgotten
<1>1. Inv => NothingForgotten
  BY DEF Inv
<1> QED
  BY Invariance, <1>1, PTL

=============================================================================
