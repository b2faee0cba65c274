-------------------------- MODULE MsgBroker_proofs --------------------------
(***************************************************************************)
(* Proofs about MsgBroker, for any tasks, topics, priorities and calls:    *)
(*  - types, and what holds whether MUTEX_LOCK is a mutex or not;          *)
(*  - the port to a mutex (Locked): lookups are exact and no task          *)
(*    dereferences a wrong pointer;                                        *)
(*  - the port continued: Topic::count counts the pending observers        *)
(*    exactly, and the broker implements the atomic one (Broker);          *)
(*  - the code as it is (~Locked), one publisher above one subscriber as   *)
(*    main has them: the same two facts, from the priorities.              *)
(***************************************************************************)
EXTENDS MsgBroker, TLAPS, SequenceTheorems, FiniteSetTheorems, FunctionTheorems

-----------------------------------------------------------------------------
(* Lists. *)

LEMMA ElemsType ==
  ASSUME NEW S, NEW s \in Seq(S)
  PROVE  Elems(s) \subseteq S
  BY DEF Elems

LEMMA FirstType ==
  ASSUME NEW S, NEW s \in Seq(S)
  PROVE  First(s) \in S \union {None}
  BY DEF First

LEMMA AfterType ==
  ASSUME NEW S, NEW s \in Seq(S), NEW x
  PROVE  After(s, x) \in S \union {None}
<1> DEFINE i == CHOOSE j \in DOMAIN s : s[j] = x
<1>1. CASE x \in Elems(s) /\ i < Len(s)
  <2>1. i \in DOMAIN s
    BY <1>1 DEF Elems
  <2>2. i + 1 \in 1..Len(s)
    BY <1>1, <2>1
  <2> QED
    BY <1>1, <2>2 DEF After
<1>2. CASE ~(x \in Elems(s) /\ i < Len(s))
  BY <1>2 DEF After
<1> QED
  BY <1>1, <1>2

-----------------------------------------------------------------------------
(* Types, whether MUTEX_LOCK is a mutex or not. *)

\* What the registers hold where they are used.
Registers ==
  \A t \in Tasks :
    /\ pc[t] = "step" => at[t] \in Topics \union {None}
    /\ pc[t] = "stepobs" => at[t] \in Tasks \union {None}
    /\ pc[t] \in {"load", "inc", "notify"} => at[t] \in Tasks
    /\ pc[t] = "dec" => reg[t] > 0

Typed == TypeOK /\ Registers

LEMMA InitTyped == Init => Typed
<1> SUFFICES ASSUME Init PROVE Typed
  OBVIOUS
<1> USE ConfigAssumption
<1>1. (CHOOSE n \in Topics : TRUE) \in Topics
  OBVIOUS
<1>2. 0 \in 0..Len(TopicOrder)
  OBVIOUS
<1> QED
  BY <1>1, <1>2 DEF Init, Typed, TypeOK, Registers, Labels, Kinds

\* A step of a task moves that task's program counter, to one of the labels L.
Moves(t, L) ==
  /\ pc' \in [Tasks -> Labels]
  /\ pc'[t] \in L
  /\ \A u \in Tasks \ {t} : pc'[u] = pc[u]

LEMMA GotoMoves ==
  ASSUME TypeOK, NEW t \in Tasks, NEW L \in SUBSET Labels, NEW l \in L, Goto(t, l)
  PROVE  Moves(t, L)
  BY DEF TypeOK, Moves, Goto

LEMMA StepTyped ==
  ASSUME Typed, NEW t \in Tasks, Step(t)
  PROVE  Typed'
<1> USE ConfigAssumption DEF Typed, At, In
<1> DEFINE n == Topic(t)
<1>0. TypeOK /\ Registers /\ n \in Topics
  BY DEF TypeOK, Topic
<1>1. CASE FindFirst(t)
  <2>1. First(topics) \in Topics \union {None}
    BY <1>0, <1>1, FirstType DEF TypeOK
  <2>2. Moves(t, {"missing", "found", "next"})
    BY <1>0, <1>1, GotoMoves DEF FindFirst, Compare, Labels
  <2>3. TypeOK'
    BY <1>0, <1>1, <2>1, <2>2 DEF FindFirst, TypeOK, Topic, Moves, Lock, hist
  <2>4. Registers'
    BY <1>0, <1>1, <2>2 DEF FindFirst, Registers, TypeOK, Topic, Moves
  <2> QED BY <2>3, <2>4
<1>2. CASE FindNext(t)
  <2>1. After(topics, search) \in Topics \union {None}
    BY <1>0, <1>2, AfterType DEF TypeOK
  <2>2. Moves(t, {"missing", "step"})
    BY <1>0, <1>2, GotoMoves DEF FindNext, Labels
  <2>3. TypeOK'
    BY <1>0, <1>2, <2>1, <2>2 DEF FindNext, TypeOK, Topic, Moves, shared, hist
  <2>4. Registers'
    BY <1>0, <1>2, <2>1, <2>2 DEF FindNext, Registers, TypeOK, Topic, Moves
  <2> QED BY <2>3, <2>4
<1>3. CASE FindStep(t)
  <2>1. at[t] \in Topics \union {None}
    BY <1>0, <1>3 DEF Registers, FindStep
  <2>2. Moves(t, {"missing", "found", "next"})
    BY <1>0, <1>3, GotoMoves DEF FindStep, Compare, Labels
  <2>3. TypeOK'
    BY <1>0, <1>3, <2>1, <2>2 DEF FindStep, TypeOK, Topic, Moves, hist
  <2>4. Registers'
    BY <1>0, <1>3, <2>2 DEF FindStep, Registers, TypeOK, Topic, Moves
  <2> QED BY <2>3, <2>4
<1>4. CASE NotFound(t)
  <2>1. Moves(t, {"fault", "idle"})
    BY <1>0, <1>4, GotoMoves DEF NotFound, Return, Labels
  <2>2. TypeOK'
    BY <1>0, <1>4, <2>1 DEF NotFound, TypeOK, Topic, Moves, Return, Unlock, hist
  <2>3. Registers'
    BY <1>0, <1>4, <2>1 DEF NotFound, Registers, TypeOK, Topic, Moves
  <2> QED BY <2>2, <2>3
<1>5. CASE PublishCheck(t)
  <2>1. Moves(t, {"idle", "store"})
    BY <1>0, <1>5, GotoMoves DEF PublishCheck, Return, Labels
  <2>2. TypeOK'
    BY <1>0, <1>5, <2>1 DEF PublishCheck, TypeOK, Topic, Moves, Return, Unlock, hist
  <2>3. Registers'
    BY <1>0, <1>5, <2>1 DEF PublishCheck, Registers, TypeOK, Topic, Moves
  <2> QED BY <2>2, <2>3
<1>6. CASE PublishStore(t)
  <2>1. First(observers[n]) \in Tasks \union {None} /\ Elems(observers[n]) \subseteq Tasks
    BY <1>0, <1>6, FirstType, ElemsType DEF TypeOK
  <2>2. Moves(t, {"idle", "load"})
    BY <1>0, <1>6, GotoMoves DEF PublishStore, Loop, Return, Labels
  <2>3. TypeOK'
    BY <1>0, <1>6, <2>1, <2>2 DEF PublishStore, TypeOK, Topic, Moves, Loop, Return, Unlock
  <2>4. Registers'
    BY <1>0, <1>6, <2>1, <2>2, SMTT(30) DEF PublishStore, Registers, TypeOK, Topic, Moves, Loop, Goto, Return
  <2> QED BY <2>3, <2>4
<1>7. CASE CountLoad(t)
  <2>1. Moves(t, {"inc"})
    BY <1>0, <1>7, GotoMoves DEF CountLoad, Labels
  <2>2. TypeOK'
    BY <1>0, <1>7, <2>1 DEF CountLoad, TypeOK, Topic, Moves, shared, hist
  <2>3. Registers'
    BY <1>0, <1>7, <2>1 DEF CountLoad, Registers, TypeOK, Topic, Moves
  <2> QED BY <2>2, <2>3
<1>8. CASE CountStore(t)
  <2>1. Moves(t, {"notify"})
    BY <1>0, <1>8, GotoMoves DEF CountStore, Labels
  <2>2. TypeOK'
    <3>1. count' \in [Topics -> Nat]
      <4>1. count' = [count EXCEPT ![n] = reg[t] + 1]
        BY <1>8 DEF CountStore
      <4>2. count \in [Topics -> Nat]
        BY <1>0 DEF TypeOK
      <4>3. reg[t] \in Nat
        BY <1>0 DEF TypeOK
      <4>4. reg[t] + 1 \in Nat
        BY <4>3
      <4> HIDE DEF n
      <4> QED BY <4>1, <4>2, <4>4
    <3> QED BY <1>0, <1>8, <2>1, <3>1 DEF CountStore, TypeOK, Topic, Moves, hist
  <2>3. Registers'
    BY <1>0, <1>8, <2>1 DEF CountStore, Registers, TypeOK, Topic, Moves
  <2> QED BY <2>2, <2>3
<1>9. CASE Notify(t)
  <2>1. Moves(t, {"nextobs"})
    BY <1>0, <1>9, GotoMoves DEF Notify, Labels
  <2>2. TypeOK'
    <3>0. at[t] \in Tasks
      BY <1>0, <1>9 DEF Notify, Registers
    <3>1. flags' \subseteq Tasks \X Topics
      <4>1. flags' = flags \union {<<at[t], n>>} /\ flags \subseteq Tasks \X Topics
        BY <1>0, <1>9 DEF Notify, TypeOK
      <4> QED BY <1>0, <3>0, <4>1
    <3> QED BY <1>0, <1>9, <2>1, <3>1 DEF Notify, TypeOK, Topic, Moves, hist
  <2>3. Registers'
    BY <1>0, <1>9, <2>1 DEF Notify, Registers, TypeOK, Topic, Moves
  <2> QED BY <2>2, <2>3
<1>10. CASE NextObserver(t)
  <2>1. After(observers[n], cursor[n]) \in Tasks \union {None}
    BY <1>0, <1>10, AfterType DEF TypeOK
  <2>2. Moves(t, {"idle", "stepobs", "fault"})
    BY <1>0, <1>10, GotoMoves DEF NextObserver, Return, Labels
  <2>3. at' \in [Tasks -> Tasks \union Topics \union {None}] /\ holder' \in Tasks \union {None}
    <3> DEFINE x == After(observers[n], cursor[n])
    <3>1. x \in Tasks \union Topics \union {None}
      BY <2>1
    <3>2. at' = [at EXCEPT ![t] = x] \/ at' = at
      BY <1>10 DEF NextObserver
    <3>3. holder' = None \/ holder' = holder
      BY <1>10 DEF NextObserver, Return, Unlock
    <3> HIDE DEF x
    <3> QED BY <1>0, <3>1, <3>2, <3>3, ZenonT(30) DEF TypeOK
  <2>4. TypeOK'
    BY <1>0, <1>10, <2>2, <2>3 DEF NextObserver, TypeOK, Moves, hist
  <2>5. Registers'
    <3>1. \A u \in Tasks \ {t} : at'[u] = at[u]
      BY <1>0, <1>10 DEF NextObserver, TypeOK
    <3>2. pc'[t] = "stepobs" => at'[t] = After(observers[n], cursor[n])
      BY <1>0, <1>10 DEF NextObserver, TypeOK, Return, Goto
    <3>3. reg' = reg
      BY <1>10 DEF NextObserver
    <3> QED BY <1>0, <2>1, <2>2, <3>1, <3>2, <3>3 DEF Registers, Moves
  <2> QED BY <2>4, <2>5
<1>11. CASE StepObserver(t)
  <2>1. at[t] \in Tasks \union {None}
    BY <1>0, <1>11 DEF Registers, StepObserver
  <2>2. Moves(t, {"idle", "load"})
    BY <1>0, <1>11, GotoMoves DEF StepObserver, Loop, Return, Labels
  <2>3. TypeOK'
    BY <1>0, <1>11, <2>1, <2>2 DEF StepObserver, TypeOK, Topic, Moves, Loop, Return, Unlock, hist
  <2>4. Registers'
    BY <1>0, <1>11, <2>1, <2>2 DEF StepObserver, Registers, TypeOK, Topic, Moves, Loop, Return, Goto
  <2> QED BY <2>3, <2>4
<1>12. CASE AttachLink(t)
  <2>1. Append(Sealed(n), t) \in Seq(Tasks)
    BY <1>0, <1>12, SMTT(30) DEF Sealed, TypeOK
  <2>2. Moves(t, {"seal"})
    BY <1>0, <1>12, GotoMoves DEF AttachLink, Labels
  <2>3. TypeOK'
    <3>0. raw' = raw \union {<<t, n>>} /\ observers' = [observers EXCEPT ![n] = Append(Sealed(n), t)]
      BY <1>12 DEF AttachLink
    <3>a. raw' \subseteq Tasks \X Topics
      <4> HIDE DEF n
      <4>1. raw \subseteq Tasks \X Topics
        BY <1>0 DEF TypeOK
      <4> QED BY <1>0, <3>0, <4>1
    <3>1. observers' \in [Topics -> Seq(Tasks)]
      <4> HIDE DEF n
      <4>1. observers \in [Topics -> Seq(Tasks)]
        BY <1>0 DEF TypeOK
      <4> QED BY <1>0, <2>1, <3>0, <4>1
    <3> QED BY <1>0, <1>12, <2>2, <3>a, <3>1 DEF AttachLink, TypeOK, Topic, Moves, hist
  <2>4. Registers'
    BY <1>0, <1>12, <2>2 DEF AttachLink, Registers, TypeOK, Topic, Moves
  <2> QED BY <2>3, <2>4
<1>13. CASE AttachSeal(t)
  <2>1. Moves(t, {"idle"})
    BY <1>0, <1>13, GotoMoves DEF AttachSeal, Return, Labels
  <2>2. TypeOK'
    BY <1>0, <1>13, <2>1 DEF AttachSeal, TypeOK, Topic, Moves, Return, Unlock, hist
  <2>3. Registers'
    BY <1>0, <1>13, <2>1 DEF AttachSeal, Registers, TypeOK, Topic, Moves
  <2> QED BY <2>2, <2>3
<1>14. CASE GetTopicData(t)
  <2>1. Moves(t, {"fetch"})
    BY <1>0, <1>14, GotoMoves DEF GetTopicData, Labels
  <2>2. TypeOK'
    BY <1>0, <1>14, <2>1 DEF GetTopicData, TypeOK, Topic, Moves, Unlock, hist
  <2>3. Registers'
    BY <1>0, <1>14, <2>1 DEF GetTopicData, Registers, TypeOK, Topic, Moves
  <2> QED BY <2>2, <2>3
<1>15. CASE Fetch(t)
  <2>1. Moves(t, {"enter"})
    BY <1>0, <1>15, GotoMoves DEF Fetch, Begin, Labels
  <2>2. TypeOK'
    BY <1>0, <1>15, <2>1 DEF Fetch, TypeOK, Topic, Moves, Begin, Kinds, shared, hist
  <2>3. Registers'
    BY <1>0, <1>15, <2>1 DEF Fetch, Registers, TypeOK, Topic, Moves, Begin
  <2> QED BY <2>2, <2>3
<1>16. CASE Consumed(t)
  <2>1. Moves(t, {"idle", "dec"})
    BY <1>0, <1>16, GotoMoves DEF Consumed, Return, Labels
  <2>2. TypeOK'
    <3>1. reg' \in [Tasks -> Nat]
      <4>1. reg' = [reg EXCEPT ![t] = count[n]] /\ count[n] \in Nat
        BY <1>0, <1>16 DEF Consumed, TypeOK
      <4> QED BY <1>0, <4>1 DEF TypeOK
    <3>2. owed' \in [Topics -> SUBSET Tasks] /\ latest' = latest
      <4>1. owed' \in {owed, [owed EXCEPT ![n] = @ \ {t}]} /\ latest' = latest
        BY <1>16 DEF Consumed, Answered, hist
      <4>2. owed \in [Topics -> SUBSET Tasks]
        BY <1>0 DEF TypeOK
      <4> HIDE DEF n
      <4> QED BY <4>1, <4>2
    <3>3. holder' \in Tasks \union {None}
      BY <1>0, <1>16 DEF Consumed, TypeOK, Return, Unlock
    <3> QED BY <1>0, <1>16, <2>1, <3>1, <3>2, <3>3 DEF Consumed, TypeOK, Moves
  <2>3. Registers'
    BY <1>0, <1>16, <2>1, SMTT(30) DEF Consumed, Registers, TypeOK, Topic, Moves, Return, Goto
  <2> QED BY <2>2, <2>3
<1>17. CASE ConsumedStore(t)
  <2>1. Moves(t, {"idle"})
    BY <1>0, <1>17, GotoMoves DEF ConsumedStore, Return, Labels
  <2>2. TypeOK'
    <3>a. reg[t] \in Nat /\ reg[t] > 0
      BY <1>0, <1>17 DEF ConsumedStore, TypeOK, Registers
    <3>0. reg[t] - 1 \in Nat
      BY <3>a
    <3>1. count' \in [Topics -> Nat]
      <4>1. count' = [count EXCEPT ![n] = reg[t] - 1]
        BY <1>17 DEF ConsumedStore
      <4>2. count \in [Topics -> Nat]
        BY <1>0 DEF TypeOK
      <4> HIDE DEF n
      <4> QED BY <4>1, <4>2, <3>0
    <3>2. owed' \in [Topics -> SUBSET Tasks] /\ latest' = latest
      <4>1. owed' \in {owed, [owed EXCEPT ![n] = @ \ {t}]} /\ latest' = latest
        BY <1>17 DEF ConsumedStore, Answered, hist
      <4>2. owed \in [Topics -> SUBSET Tasks]
        BY <1>0 DEF TypeOK
      <4> HIDE DEF n
      <4> QED BY <4>1, <4>2
    <3> QED BY <1>0, <1>17, <2>1, <3>1, <3>2 DEF ConsumedStore, TypeOK, Topic, Moves, Return, Unlock, Answered, hist
  <2>3. Registers'
    BY <1>0, <1>17, <2>1 DEF ConsumedStore, Registers, TypeOK, Topic, Moves
  <2> QED BY <2>2, <2>3
<1> QED
  BY <1>1, <1>2, <1>3, <1>4, <1>5, <1>6, <1>7, <1>8, <1>9, <1>10, <1>11, <1>12, <1>13,
     <1>14, <1>15, <1>16, <1>17 DEF Step

LEMMA InstallTyped == TypeOK /\ InstallTopic =>
  search' \in Topics \union {None} /\ topics' \in Seq(Topics) /\ boot' \in 0..Len(TopicOrder)
<1> SUFFICES ASSUME TypeOK, InstallTopic
             PROVE search' \in Topics \union {None} /\ topics' \in Seq(Topics)
                     /\ boot' \in 0..Len(TopicOrder)
  OBVIOUS
<1> DEFINE m == TopicOrder[boot + 1]
<1>1. boot \in 0..Len(TopicOrder) /\ boot # Len(TopicOrder) /\ topics \in Seq(Topics)
  BY DEF TypeOK, InstallTopic, Booted
<1>2. TopicOrder \in Seq(Topics)
  BY ConfigAssumption
<1>3. boot + 1 \in 1..Len(TopicOrder)
  BY <1>1, <1>2
<1>4. m \in Topics
  BY <1>2, <1>3
<1>5. search' \in {m, None} /\ topics' \in {topics, Append(topics, m)} /\ boot' = boot + 1
  BY DEF InstallTopic
<1> HIDE DEF m
<1>6. Append(topics, m) \in Seq(Topics)
  BY <1>1, <1>4
<1> QED
  BY <1>1, <1>3, <1>4, <1>5, <1>6

LEMMA NextTyped == Typed /\ [Next]_vars => Typed'
<1> SUFFICES ASSUME Typed, [Next]_vars PROVE Typed'
  OBVIOUS
<1> USE ConfigAssumption DEF Typed, TypeOK, Registers, At, Goto, Begin, Labels, Kinds
<1>1. CASE InstallTopic
  BY <1>1, InstallTyped DEF InstallTopic, local, hist
<1>2. ASSUME NEW t \in Tasks, Step(t) PROVE Typed'
  BY <1>2, StepTyped DEF Typed, TypeOK, Registers
<1>3. ASSUME NEW t \in Tasks, NEW n \in Topics, Wake(t, n) PROVE Typed'
  BY <1>3 DEF Wake, hist
<1>4. ASSUME NEW t \in Tasks, NEW n \in Topics, CallAttach(t, n) PROVE Typed'
  BY <1>4 DEF CallAttach, shared, hist
<1>5. ASSUME NEW t \in Tasks, NEW n \in Topics, NEW v \in Values, CallPublish(t, n, v)
      PROVE Typed'
  BY <1>5 DEF CallPublish, shared, hist
<1>6. CASE UNCHANGED vars
  BY <1>6 DEF vars, shared, local, hist
<1> QED
  BY <1>1, <1>2, <1>3, <1>4, <1>5, <1>6 DEF Next

\* Type correctness, with or without the mutex.
THEOREM TypeCorrect == Spec => []TypeOK
<1>1. Spec => []Typed
  BY InitTyped, NextTyped, PTL DEF Spec
<1> QED
  BY <1>1, PTL DEF Typed

-----------------------------------------------------------------------------
(* The port to a mutex: lookups are exact and nothing faults.              *)

\* Between MUTEX_LOCK and MUTEX_UNLOCK.
Critical == {"next", "step", "found", "missing", "store", "load", "inc", "notify",
             "nextobs", "stepobs", "seal", "dec"}

\* The mutex excludes.
Mutex == \A t \in Tasks : pc[t] \in Critical => holder = t

\* Tasks call the broker only after main has installed the topics.
Boot == ~Booted => \A t \in Tasks : pc[t] = "idle"

\* topic_list names no topic twice.
Distinct == \A i, j \in DOMAIN topics : topics[i] = topics[j] => i = j

\* A task that has found its topic.
Used == {"found", "store", "load", "inc", "notify", "nextobs", "stepobs", "seal", "fetch", "dec"}

\* Whoever was notified, or got past the lookup, has a topic that is installed.
Installed ==
  /\ \A t \in Tasks, n \in Topics : <<t, n>> \in flags => n \in Elems(topics)
  /\ \A t \in Tasks :
       call[t].kind \in {"getTopicData", "consumed"} => Topic(t) \in Elems(topics)
  /\ \A t \in Tasks :
       pc[t] \in Used => Topic(t) \in Elems(topics)

\* Task t has compared the topics up to the j-th, all of them with another name.
Compared(t, j) == \A i \in 1..j : topics[i] # Topic(t)

\* The cursor is where the walk of the task that holds the mutex left it.
Walk ==
  \A t \in Tasks :
    /\ pc[t] \in {"next", "step"} =>
         \E j \in DOMAIN topics : search = topics[j] /\ Compared(t, j)
    /\ pc[t] = "step" => at[t] = After(topics, search)

\* A node is linked and unfinished only while its task is in addItem.
RawSealed == \A t \in Tasks, n \in Topics : <<t, n>> \in raw => pc[t] = "seal" /\ Topic(t) = n


-----------------------------------------------------------------------------
(* Steps. *)

\* A task at rest starts a call.
Calls(t) == \E n \in Topics :
  Wake(t, n) \/ CallAttach(t, n) \/ \E v \in Values : CallPublish(t, n, v)

LEMMA NextCases == Next => InstallTopic \/ \E t \in Tasks : Step(t) \/ Calls(t)
  BY DEF Next, Calls

LEMMA StepFrame ==
  ASSUME Typed, NEW t \in Tasks, Step(t)
  PROVE  /\ Booted /\ pc[t] \notin {"idle", "fault"}
         /\ UNCHANGED <<boot, topics>>
         /\ \A u \in Tasks \ {t} : pc'[u] = pc[u] /\ at'[u] = at[u] /\ call'[u] = call[u]
<1>1. Booted /\ pc[t] \notin {"idle", "fault"}
  BY DEF Step, FindFirst, FindNext, FindStep, NotFound, PublishCheck, PublishStore, CountLoad,
     CountStore, Notify, NextObserver, StepObserver, AttachLink, AttachSeal, GetTopicData,
     Fetch, Consumed, ConsumedStore, At, In, Running
<1>2. UNCHANGED <<boot, topics>>
  BY DEF Step, FindFirst, FindNext, FindStep, NotFound, PublishCheck, PublishStore, CountLoad,
     CountStore, Notify, NextObserver, StepObserver, AttachLink, AttachSeal, GetTopicData,
     Fetch, Consumed, ConsumedStore, shared
<1>3. \E l \in Labels : pc' = [pc EXCEPT ![t] = l]
  BY DEF Step, FindFirst, FindNext, FindStep, NotFound, PublishCheck, PublishStore, CountLoad,
     CountStore, Notify, NextObserver, StepObserver, AttachLink, AttachSeal, GetTopicData,
     Fetch, Consumed, ConsumedStore, Goto, Return, Loop, Compare, Begin, Labels
<1>4. at' = at \/ \E x : at' = [at EXCEPT ![t] = x]
  BY DEF Step, FindFirst, FindNext, FindStep, NotFound, PublishCheck, PublishStore, CountLoad,
     CountStore, Notify, NextObserver, StepObserver, AttachLink, AttachSeal, GetTopicData,
     Fetch, Consumed, ConsumedStore
<1>5. call' = call \/ \E c : call' = [call EXCEPT ![t] = c]
  BY DEF Step, FindFirst, FindNext, FindStep, NotFound, PublishCheck, PublishStore, CountLoad,
     CountStore, Notify, NextObserver, StepObserver, AttachLink, AttachSeal, GetTopicData,
     Fetch, Consumed, ConsumedStore, Begin
<1> QED
  BY <1>1, <1>2, <1>3, <1>4, <1>5 DEF Typed, TypeOK

LEMMA CallFrame ==
  ASSUME Typed, NEW t \in Tasks, Calls(t)
  PROVE  /\ Booted /\ pc[t] = "idle" /\ pc'[t] = "enter"
         /\ UNCHANGED <<boot, topics, search, observers, raw, cursor, count, data, holder, at>>
         /\ flags' \subseteq flags
         /\ \A u \in Tasks \ {t} : pc'[u] = pc[u] /\ call'[u] = call[u]
  BY DEF Calls, Wake, CallAttach, CallPublish, At, Running, Begin, Goto, shared, Typed, TypeOK

LEMMA InstallFrame ==
  ASSUME InstallTopic
  PROVE  /\ ~Booted
         /\ UNCHANGED <<observers, raw, cursor, count, data, holder, flags, local, hist>>
  BY DEF InstallTopic

-----------------------------------------------------------------------------
(* The mutex. *)

LEMMA Alone ==
  ASSUME Locked, Typed, Mutex, NEW t \in Tasks, Step(t),
         NEW u \in Tasks \ {t}, pc[u] \in Critical
  PROVE  Fetch(t)
<1>1. holder = u /\ holder # None /\ pc[t] \notin Critical
  BY ConfigAssumption DEF Mutex
<1>2. ~FindFirst(t)
  BY <1>1 DEF FindFirst, At, Ready
<1>3. pc[t] # "enter" /\ pc[t] # "fetch" => ~Step(t)
  BY <1>1, StepFrame DEF Critical, Typed, TypeOK, Labels
<1> QED
  BY <1>1, <1>2 DEF Step, FindNext, FindStep, NotFound, PublishCheck, PublishStore, CountLoad,
     CountStore, Notify, NextObserver, StepObserver, AttachLink, AttachSeal, GetTopicData,
     Consumed, ConsumedStore, At, In, Critical

LEMMA MutexKept == Locked /\ Typed /\ Mutex /\ [Next]_vars => Mutex'
<1> SUFFICES ASSUME Locked, Typed, Mutex, [Next]_vars PROVE Mutex'
  OBVIOUS
<1>1. ASSUME NEW t \in Tasks, Step(t) PROVE Mutex'
  <2>1. ASSUME NEW u \in Tasks \ {t}, pc'[u] \in Critical PROVE holder' = u
    <3>1. pc[u] \in Critical
      BY <1>1, <2>1, StepFrame
    <3>2. holder = u /\ Fetch(t)
      BY <1>1, <3>1, Alone DEF Mutex
    <3> QED BY <3>2 DEF Fetch, shared
  <2>2. ASSUME pc'[t] \in Critical PROVE holder' = t
    <3>1. CASE FindFirst(t)
      BY <3>1 DEF FindFirst, Lock
    <3>2. CASE ~FindFirst(t)
      <4>1. UNCHANGED holder \/ Return(t) \/ Fetch(t) \/ GetTopicData(t)
        BY <1>1, <3>2 DEF Step, FindNext, FindStep, NotFound, PublishCheck, PublishStore, Loop,
           CountLoad, CountStore, Notify, NextObserver, StepObserver, AttachLink, AttachSeal,
           Consumed, ConsumedStore, shared
      <4>2. ~Return(t) /\ ~Fetch(t) /\ ~GetTopicData(t)
        BY <2>2 DEF Return, Fetch, GetTopicData, Begin, Goto, Critical, Typed, TypeOK
      <4>3. pc[t] \in Critical
        BY <1>1, <3>2, <4>2 DEF Step, FindNext, FindStep, NotFound, PublishCheck, PublishStore,
           CountLoad, CountStore, Notify, NextObserver, StepObserver, AttachLink, AttachSeal,
           Consumed, ConsumedStore, At, In, Critical
      <4> QED BY <4>1, <4>2, <4>3 DEF Mutex
    <3> QED BY <3>1, <3>2
  <2> QED BY <2>1, <2>2 DEF Mutex
<1>2. ASSUME NEW t \in Tasks, Calls(t) PROVE Mutex'
  BY <1>2, CallFrame DEF Mutex, Critical
<1>3. CASE InstallTopic
  BY <1>3, InstallFrame DEF Mutex, local
<1>4. CASE UNCHANGED vars
  BY <1>4 DEF Mutex, vars, shared, local
<1> QED
  BY <1>1, <1>2, <1>3, <1>4, NextCases

-----------------------------------------------------------------------------
(* The list of topics. *)

LEMMA BootKept == Typed /\ Boot /\ [Next]_vars => Boot'
<1> SUFFICES ASSUME Typed, Boot, [Next]_vars PROVE Boot'
  OBVIOUS
<1>1. ASSUME NEW t \in Tasks, Step(t) PROVE Boot'
  BY <1>1, StepFrame DEF Boot, Booted
<1>2. ASSUME NEW t \in Tasks, Calls(t) PROVE Boot'
  BY <1>2, CallFrame DEF Boot, Booted
<1>3. CASE InstallTopic
  BY <1>3, InstallFrame DEF Boot, local
<1>4. CASE UNCHANGED vars
  BY <1>4 DEF Boot, Booted, vars, shared, local
<1> QED
  BY <1>1, <1>2, <1>3, <1>4, NextCases

\* Installing a topic keeps those that are there and repeats none.
LEMMA InstallKeeps ==
  ASSUME Typed, Distinct, InstallTopic
  PROVE  Distinct' /\ Elems(topics) \subseteq Elems(topics')
<1> DEFINE m == TopicOrder[boot + 1]
<1>1. topics' = topics \/ (m \notin Elems(topics) /\ topics' = Append(topics, m))
  BY DEF InstallTopic
<1>2. boot + 1 \in 1..Len(TopicOrder) /\ topics \in Seq(Topics)
  BY DEF InstallTopic, Booted, Typed, TypeOK
<1>3. m \in Topics
  BY <1>2, ConfigAssumption
<1> HIDE DEF m
<1>4. CASE m \notin Elems(topics) /\ topics' = Append(topics, m)
  <2>1. /\ Len(topics') = Len(topics) + 1
        /\ \A i \in 1..Len(topics) : topics'[i] = topics[i]
        /\ topics'[Len(topics) + 1] = m
    BY <1>2, <1>3, <1>4
  <2>2. DOMAIN topics' = 1..(Len(topics) + 1) /\ DOMAIN topics = 1..Len(topics) /\ Len(topics) \in Nat
    BY <1>2, <1>3, <1>4
  <2>3. \A i \in 1..Len(topics) : topics[i] # m
    BY <1>4, <2>2 DEF Elems
  <2>4. Distinct'
    BY <2>1, <2>2, <2>3 DEF Distinct
  <2> QED BY <2>1, <2>2, <2>4 DEF Elems
<1> QED
  BY <1>1, <1>4 DEF Distinct, Elems

LEMMA DistinctKept == Typed /\ Distinct /\ [Next]_vars => Distinct'
<1> SUFFICES ASSUME Typed, Distinct, [Next]_vars PROVE Distinct'
  OBVIOUS
<1>1. ASSUME NEW t \in Tasks, Step(t) PROVE Distinct'
  BY <1>1, StepFrame DEF Distinct
<1>2. ASSUME NEW t \in Tasks, Calls(t) PROVE Distinct'
  BY <1>2, CallFrame DEF Distinct
<1> QED
  BY <1>1, <1>2, InstallKeeps, NextCases DEF Distinct, vars, shared

\* In a list without repetitions the cursor moves to the element that follows.
LEMMA AfterExact ==
  ASSUME NEW S, NEW s \in Seq(S), \A i, k \in DOMAIN s : s[i] = s[k] => i = k,
         NEW j \in DOMAIN s
  PROVE  After(s, s[j]) = IF j < Len(s) THEN s[j + 1] ELSE None
<1>1. s[j] \in Elems(s)
  BY DEF Elems
<1>2. (CHOOSE i \in DOMAIN s : s[i] = s[j]) = j
  OBVIOUS
<1> QED
  BY <1>1, <1>2 DEF After

-----------------------------------------------------------------------------
(* Lookups. *)

Lookup == Walk /\ LookupExact

\* The step a task makes in its own lookup.
LEMMA LookupStep ==
  ASSUME Locked, Typed, Distinct, Lookup, NEW t \in Tasks, Step(t)
  PROVE  /\ pc'[t] \in {"next", "step"} =>
              \E j \in DOMAIN topics' : search' = topics'[j] /\ Compared(t, j)'
         /\ pc'[t] = "step" => at'[t] = After(topics', search')
         /\ pc'[t] = "missing" => Topic(t)' \notin Elems(topics')
<1>0. topics \in Seq(Topics) /\ pc \in [Tasks -> Labels] /\ at \in [Tasks -> Tasks \union Topics \union {None}]
  BY DEF Typed, TypeOK
<1>1. CASE FindFirst(t)
  <2>1. UNCHANGED <<topics, call>> /\ search' = First(topics)
    BY <1>1 DEF FindFirst
  <2>2. CASE topics = <<>>
    <3>1. pc'[t] = "missing"
      BY <1>0, <1>1, <2>2 DEF FindFirst, Compare, Goto, First
    <3>2. Elems(topics') = {}
      BY <2>1, <2>2 DEF Elems
    <3> QED BY <3>1, <3>2
  <2>3. CASE topics # <<>>
    <3>1. 1 \in DOMAIN topics /\ First(topics) = topics[1] /\ topics[1] \in Topics
      BY <1>0, <2>3 DEF First
    <3>2. pc'[t] = IF topics[1] = Topic(t) THEN "found" ELSE "next"
      BY <1>0, <1>1, <3>1, ConfigAssumption DEF FindFirst, Compare, Goto
    <3>3. pc'[t] = "next" => Compared(t, 1)'
      BY <2>1, <3>2 DEF Compared, Topic
    <3> QED BY <2>1, <3>1, <3>2, <3>3
  <2> QED BY <2>2, <2>3
<1>2. CASE FindNext(t)
  <2>1. UNCHANGED <<topics, search, call>> /\ pc[t] = "next"
    BY <1>2 DEF FindNext, shared, At
  <2>2. PICK j \in DOMAIN topics : search = topics[j] /\ Compared(t, j)
    BY <2>1 DEF Lookup, Walk
  <2>3. search # None
    BY <1>0, <2>2, ConfigAssumption
  <2>4. pc'[t] = "step" /\ at'[t] = After(topics, search)
    BY <1>0, <1>2, <2>3 DEF FindNext, Goto
  <2>5. Compared(t, j)'
    BY <2>1, <2>2 DEF Compared, Topic
  <2> QED BY <2>1, <2>2, <2>4, <2>5
<1>3. CASE FindStep(t)
  <2>1. UNCHANGED <<topics, call>> /\ pc[t] = "step" /\ search' = at[t]
    BY <1>3 DEF FindStep, At
  <2>2. PICK j \in DOMAIN topics : search = topics[j] /\ Compared(t, j)
    BY <2>1 DEF Lookup, Walk
  <2>3. at[t] = IF j < Len(topics) THEN topics[j + 1] ELSE None
    BY <1>0, <2>1, <2>2, AfterExact DEF Lookup, Walk, Distinct
  <2>4. CASE j < Len(topics)
    <3>1. j + 1 \in DOMAIN topics /\ topics[j + 1] \in Topics
      BY <1>0, <2>4
    <3>2. pc'[t] = IF topics[j + 1] = Topic(t) THEN "found" ELSE "next"
      BY <1>0, <1>3, <2>3, <2>4, <3>1, ConfigAssumption DEF FindStep, Compare, Goto
    <3>3. pc'[t] = "next" => Compared(t, j + 1)'
      BY <1>0, <2>1, <2>2, <3>1, <3>2 DEF Compared, Topic
    <3> QED BY <2>1, <2>3, <2>4, <3>1, <3>2, <3>3
  <2>5. CASE ~(j < Len(topics))
    <3>1. pc'[t] = "missing"
      BY <1>0, <1>3, <2>3, <2>5 DEF FindStep, Compare, Goto
    <3>2. Topic(t) \notin Elems(topics)
      BY <1>0, <2>2, <2>5 DEF Compared, Elems
    <3> QED BY <2>1, <3>1, <3>2 DEF Topic
  <2> QED BY <2>4, <2>5
<1>4. CASE ~(FindFirst(t) \/ FindNext(t) \/ FindStep(t))
  <2>1. pc'[t] \notin {"next", "step", "missing"}
    BY <1>0, <1>4 DEF Step, NotFound, PublishCheck, PublishStore, CountLoad, CountStore, Notify,
       NextObserver, StepObserver, AttachLink, AttachSeal, GetTopicData, Fetch, Consumed,
       ConsumedStore, Goto, Return, Loop, Begin
  <2> QED BY <2>1
<1> QED
  BY <1>1, <1>2, <1>3, <1>4

LEMMA LookupKept ==
  Locked /\ Typed /\ Mutex /\ Boot /\ Distinct /\ Lookup /\ [Next]_vars => Lookup'
<1> SUFFICES ASSUME Locked, Typed, Mutex, Boot, Distinct, Lookup, [Next]_vars PROVE Lookup'
  OBVIOUS
<1>1. ASSUME NEW t \in Tasks, Step(t) PROVE Lookup'
  <2>1. ASSUME NEW u \in Tasks \ {t}, pc'[u] \in {"next", "step", "missing"}
        PROVE  /\ pc[u] = pc'[u]
               /\ UNCHANGED <<topics, search>> /\ at'[u] = at[u] /\ Topic(u)' = Topic(u)
               /\ \A j : Compared(u, j)' = Compared(u, j)
    <3>1. pc[u] = pc'[u] /\ at'[u] = at[u] /\ call'[u] = call[u]
      BY <1>1, StepFrame
    <3>2. Fetch(t)
      BY <1>1, <2>1, <3>1, Alone DEF Critical
    <3> QED BY <3>1, <3>2 DEF Fetch, shared, Topic, Compared
  <2>2. Walk'
    BY <1>1, <2>1, LookupStep DEF Walk, Lookup
  <2>3. LookupExact'
    BY <1>1, <2>1, LookupStep DEF LookupExact, Lookup
  <2> QED BY <2>2, <2>3 DEF Lookup
<1>2. ASSUME NEW t \in Tasks, Calls(t) PROVE Lookup'
  <2>1. \A u \in Tasks : pc'[u] \in {"next", "step", "missing"} => u # t /\ pc[u] = pc'[u] /\ Topic(u)' = Topic(u)
    BY <1>2, CallFrame DEF Topic
  <2>2. UNCHANGED <<topics, search, at>>
    BY <1>2, CallFrame
  <2>3. \A u \in Tasks \ {t} : \A j : Compared(u, j)' = Compared(u, j)
    BY <1>2, CallFrame DEF Compared, Topic
  <2> QED BY <2>1, <2>2, <2>3 DEF Lookup, Walk, LookupExact
<1>3. CASE InstallTopic
  <2>1. \A u \in Tasks : pc'[u] = "idle"
    BY <1>3, InstallFrame DEF Boot, local
  <2> QED BY <2>1 DEF Lookup, Walk, LookupExact
<1>4. CASE UNCHANGED vars
  BY <1>4 DEF Lookup, Walk, LookupExact, Compared, Topic, vars, shared, local
<1> QED
  BY <1>1, <1>2, <1>3, <1>4, NextCases

-----------------------------------------------------------------------------
(* Topics that are in use are installed. *)

LEMMA FoundInstalled ==
  ASSUME Typed, Walk, NEW t \in Tasks, FindFirst(t) \/ FindStep(t), pc'[t] = "found"
  PROVE  Topic(t) \in Elems(topics)
<1>0. topics \in Seq(Topics) /\ pc \in [Tasks -> Labels] /\ Topic(t) \in Topics
  BY DEF Typed, TypeOK, Topic
<1>1. CASE FindFirst(t)
  <2>1. First(topics) = Topic(t)
    BY <1>0, <1>1 DEF FindFirst, Compare, Goto
  <2>2. topics # <<>>
    BY <1>0, <2>1, ConfigAssumption DEF First
  <2>3. 1 \in DOMAIN topics
    BY <1>0, <2>2
  <2> QED BY <2>1, <2>2, <2>3 DEF First, Elems
<1>2. CASE FindStep(t)
  <2>1. After(topics, search) = Topic(t)
    BY <1>0, <1>2 DEF FindStep, Compare, Goto, At, Walk
  <2>2. search \in Elems(topics)
    BY <1>0, <2>1, ConfigAssumption DEF After
  <2> DEFINE i == CHOOSE j \in DOMAIN topics : topics[j] = search
  <2>3. i \in DOMAIN topics
    BY <2>2 DEF Elems
  <2>4. i < Len(topics)
    BY <1>0, <2>1, <2>2, ConfigAssumption DEF After
  <2>5. i + 1 \in DOMAIN topics
    BY <1>0, <2>3, <2>4
  <2>6. topics[i + 1] = Topic(t)
    BY <2>1, <2>2, <2>4 DEF After
  <2> QED BY <2>5, <2>6 DEF Elems
<1> QED
  BY <1>1, <1>2

LEMMA InstalledKept ==
  Typed /\ Distinct /\ Walk /\ Installed /\ [Next]_vars => Installed'
<1> SUFFICES ASSUME Typed, Distinct, Walk, Installed, [Next]_vars PROVE Installed'
  OBVIOUS
<1>0. /\ pc \in [Tasks -> Labels] /\ call \in [Tasks -> [kind : Kinds, topic : Topics]]
      /\ flags \subseteq Tasks \X Topics
  BY DEF Typed, TypeOK
<1>1. ASSUME NEW t \in Tasks, Step(t) PROVE Installed'
  <2>1. \A u \in Tasks \ {t} : pc'[u] = pc[u] /\ call'[u] = call[u] /\ Topic(u)' = Topic(u)
    BY <1>1, StepFrame DEF Topic
  <2>2. Elems(topics)' = Elems(topics)
    BY <1>1, StepFrame DEF Elems
  <2>3. Topic(t)' = Topic(t) /\ (call'[t].kind = call[t].kind \/ pc[t] = "fetch")
    <3>1. CASE Fetch(t)
      BY <1>0, <3>1 DEF Fetch, Begin, At, Goto, Topic
    <3>2. CASE ~Fetch(t)
      <4>1. UNCHANGED call
        BY <1>1, <3>2 DEF Step, FindFirst, FindNext, FindStep, NotFound, PublishCheck,
           PublishStore, CountLoad, CountStore, Notify, NextObserver, StepObserver, AttachLink,
           AttachSeal, GetTopicData, Consumed, ConsumedStore
      <4> QED BY <4>1 DEF Topic
    <3> QED BY <3>1, <3>2
  <2>4. pc'[t] \in Used => Topic(t) \in Elems(topics)
    <3>1. CASE FindFirst(t) \/ FindStep(t)
      <4>1. pc'[t] \in {"missing", "found", "next"}
        BY <1>0, <3>1 DEF FindFirst, FindStep, Compare, Goto
      <4> QED BY <3>1, <4>1, FoundInstalled DEF Used
    <3>2. CASE FindNext(t) \/ NotFound(t) \/ Fetch(t)
      BY <1>0, <3>2 DEF FindNext, NotFound, Fetch, Begin, Goto, Return, Used
    <3>3. CASE ~(FindFirst(t) \/ FindStep(t) \/ FindNext(t) \/ NotFound(t) \/ Fetch(t))
      <4>1. pc[t] \in Used
        BY <1>1, <3>3 DEF Step, PublishCheck, PublishStore, CountLoad, CountStore, Notify,
           NextObserver, StepObserver, AttachLink, AttachSeal, GetTopicData, Consumed,
           ConsumedStore, At, In, Used
      <4> QED BY <4>1 DEF Installed
    <3> QED BY <3>1, <3>2, <3>3
  <2>5. \A u \in Tasks, n \in Topics : <<u, n>> \in flags' => n \in Elems(topics)
    <3>1. CASE Notify(t)
      <4>1. flags' = flags \union {<<at[t], Topic(t)>>} /\ pc[t] \in Used
        BY <3>1 DEF Notify, At, Used
      <4> QED BY <4>1 DEF Installed
    <3>2. CASE ~Notify(t)
      <4>1. UNCHANGED flags
        BY <1>1, <3>2 DEF Step, FindFirst, FindNext, FindStep, NotFound, PublishCheck,
           PublishStore, CountLoad, CountStore, NextObserver, StepObserver, AttachLink,
           AttachSeal, GetTopicData, Fetch, Consumed, ConsumedStore, shared
      <4> QED BY <4>1 DEF Installed
    <3> QED BY <3>1, <3>2
  <2>6. call'[t].kind \in {"getTopicData", "consumed"} => Topic(t) \in Elems(topics)
    BY <2>3 DEF Installed, Used
  <2> QED BY <2>1, <2>2, <2>3, <2>4, <2>5, <2>6 DEF Installed
<1>2. ASSUME NEW t \in Tasks, Calls(t) PROVE Installed'
  <2>1. /\ \A u \in Tasks \ {t} : pc'[u] = pc[u] /\ Topic(u)' = Topic(u) /\ call'[u] = call[u]
        /\ UNCHANGED topics /\ flags' \subseteq flags /\ pc'[t] = "enter"
    BY <1>2, CallFrame DEF Topic
  <2>2. ASSUME call'[t].kind \in {"getTopicData", "consumed"}
        PROVE  Topic(t)' \in Elems(topics)
    <3>1. PICK n \in Topics : Wake(t, n)
      BY <1>0, <1>2, <2>2 DEF Calls, CallAttach, CallPublish, Begin
    <3>2. Topic(t)' = n /\ <<t, n>> \in flags
      BY <1>0, <3>1 DEF Wake, Begin, Topic
    <3> QED BY <3>2 DEF Installed
  <2> QED BY <2>1, <2>2 DEF Installed, Elems, Used
<1>3. CASE InstallTopic
  <2>1. UNCHANGED <<pc, call, flags>> /\ Elems(topics) \subseteq Elems(topics')
    BY <1>3, InstallFrame, InstallKeeps DEF local
  <2> QED BY <2>1 DEF Installed, Topic, Elems
<1>4. CASE UNCHANGED vars
  BY <1>4 DEF Installed, Topic, Elems, vars, shared, local
<1> QED
  BY <1>1, <1>2, <1>3, <1>4, NextCases

-----------------------------------------------------------------------------
(* Nodes and pointers. *)

LEMMA RawKept == Locked /\ Typed /\ Mutex /\ RawSealed /\ [Next]_vars => RawSealed'
<1> SUFFICES ASSUME Locked, Typed, Mutex, RawSealed, [Next]_vars PROVE RawSealed'
  OBVIOUS
<1>0. pc \in [Tasks -> Labels] /\ call \in [Tasks -> [kind : Kinds, topic : Topics]]
  BY DEF Typed, TypeOK
<1>1. ASSUME NEW t \in Tasks, Step(t) PROVE RawSealed'
  <2>1. \A u \in Tasks \ {t} : pc'[u] = pc[u] /\ Topic(u)' = Topic(u)
    BY <1>1, StepFrame DEF Topic
  <2>2. CASE AttachLink(t)
    <3>1. raw' = raw \union {<<t, Topic(t)>>} /\ pc[t] = "found" /\ pc'[t] = "seal" /\ Topic(t)' = Topic(t)
      BY <1>0, <2>2 DEF AttachLink, In, At, Goto, Topic
    <3> QED BY <2>1, <3>1 DEF RawSealed
  <2>3. CASE AttachSeal(t)
    <3>1. raw' = raw \ {<<t, Topic(t)>>}
      BY <2>3 DEF AttachSeal
    <3> QED BY <2>1, <3>1 DEF RawSealed
  <2>4. CASE ~(AttachLink(t) \/ AttachSeal(t))
    <3>1. UNCHANGED raw /\ pc[t] # "seal"
      BY <1>1, <2>4 DEF Step, FindFirst, FindNext, FindStep, NotFound, PublishCheck, PublishStore,
         CountLoad, CountStore, Notify, NextObserver, StepObserver, GetTopicData, Fetch,
         Consumed, ConsumedStore, shared, At, In
    <3> QED BY <2>1, <3>1 DEF RawSealed
  <2> QED BY <2>2, <2>3, <2>4
<1>2. ASSUME NEW t \in Tasks, Calls(t) PROVE RawSealed'
  BY <1>2, CallFrame DEF RawSealed, Topic
<1>3. CASE InstallTopic
  BY <1>3, InstallFrame DEF RawSealed, Topic, local
<1>4. CASE UNCHANGED vars
  BY <1>4 DEF RawSealed, Topic, vars, shared, local
<1> QED
  BY <1>1, <1>2, <1>3, <1>4, NextCases

LEMMA NoFaultKept ==
  Locked /\ Typed /\ Mutex /\ Lookup /\ Installed /\ RawSealed /\ NoFault /\ [Next]_vars => NoFault'
<1> SUFFICES ASSUME Locked, Typed, Mutex, Lookup, Installed, RawSealed, NoFault, [Next]_vars
             PROVE  NoFault'
  OBVIOUS
<1>0. pc \in [Tasks -> Labels]
  BY DEF Typed, TypeOK
<1>1. ASSUME NEW t \in Tasks, Step(t) PROVE NoFault'
  <2>1. \A u \in Tasks \ {t} : pc'[u] = pc[u]
    BY <1>1, StepFrame
  <2>2. pc'[t] # "fault"
    <3>1. CASE NotFound(t)
      <4>1. call[t].kind \notin {"consumed", "getTopicData"}
        BY <3>1 DEF NotFound, At, Lookup, LookupExact, Installed
      <4> QED BY <1>0, <3>1, <4>1 DEF NotFound, Return, Goto
    <3>2. CASE NextObserver(t)
      <4>1. pc[t] = "nextobs" /\ holder = t
        BY <3>2 DEF NextObserver, At, Mutex, Critical
      <4>2. \A o \in Tasks : <<o, Topic(t)>> \notin raw
        BY <4>1 DEF RawSealed, Mutex, Critical, Typed, TypeOK, Topic
      <4>3. raw \subseteq Tasks \X Topics
        BY DEF Typed, TypeOK
      <4>4. pc'[t] \in {"idle", "stepobs"}
        BY <1>0, <3>2, <4>2, <4>3 DEF NextObserver, Return, Goto
      <4> QED BY <4>4
    <3>3. CASE ~(NotFound(t) \/ NextObserver(t))
      BY <1>0, <1>1, <3>3 DEF Step, FindFirst, FindNext, FindStep, PublishCheck, PublishStore,
         CountLoad, CountStore, Notify, StepObserver, AttachLink, AttachSeal, GetTopicData, Fetch,
         Consumed, ConsumedStore, Goto, Return, Loop, Compare, Begin
    <3> QED BY <3>1, <3>2, <3>3
  <2> QED BY <2>1, <2>2 DEF NoFault, Halted
<1>2. ASSUME NEW t \in Tasks, Calls(t) PROVE NoFault'
  BY <1>2, CallFrame DEF NoFault, Halted
<1>3. CASE InstallTopic
  BY <1>3, InstallFrame DEF NoFault, Halted, local
<1>4. CASE UNCHANGED vars
  BY <1>4 DEF NoFault, Halted, vars, local
<1> QED
  BY <1>1, <1>2, <1>3, <1>4, NextCases

-----------------------------------------------------------------------------
(* The theorems. *)

Safe == Typed /\ Mutex /\ Boot /\ Distinct /\ Lookup /\ Installed /\ RawSealed /\ NoFault

LEMMA InitSafe == Init => Safe
<1> SUFFICES ASSUME Init PROVE Safe
  OBVIOUS
<1>1. Typed
  BY InitTyped
<1>2. \A t \in Tasks : pc[t] = "idle" /\ call[t].kind = "attach"
  BY DEF Init
<1>3. Mutex /\ Boot /\ Lookup /\ NoFault
  BY <1>2 DEF Mutex, Critical, Boot, Lookup, Walk, LookupExact, NoFault, Halted
<1>4. Installed /\ RawSealed
  BY <1>2 DEF Init, Installed, RawSealed, Used
<1>5. Distinct
  BY DEF Init, Distinct
<1> QED
  BY <1>1, <1>3, <1>4, <1>5 DEF Safe

LEMMA NextSafe == Locked /\ Safe /\ [Next]_vars => Safe'
  BY NextTyped, MutexKept, BootKept, DistinctKept, LookupKept, InstalledKept, RawKept,
     NoFaultKept DEF Safe, Lookup

LEMMA SpecSafe == ASSUME Locked PROVE Spec => []Safe
<1>1. Safe /\ [Next]_vars => Safe'
  BY NextSafe
<1> QED
  BY <1>1, InitSafe, PTL DEF Spec

\* With the mutex a lookup reports TOPIC_NOT_FOUND only for a topic that is not
\* installed, however findTopic's walks interleave.
THEOREM LookupsExact == ASSUME Locked PROVE Spec => []LookupExact
<1>1. Safe => LookupExact
  BY DEF Safe, Lookup
<1> QED
  BY <1>1, SpecSafe, PTL

\* With the mutex neither consumed() nor a walk over the observers follows a
\* null or an unwritten pointer.
THEOREM NeverFaults == ASSUME Locked PROVE Spec => []NoFault
<1>1. Safe => NoFault
  BY DEF Safe
<1> QED
  BY <1>1, SpecSafe, PTL

-----------------------------------------------------------------------------
(* The inductive invariant, on top of Safe. *)

\* In the notification loop of publish.
Looping == {"load", "inc", "notify", "nextobs", "stepobs"}

\* Task t has been notified of an update of n and has not finished its answer.
InAnswer(t, n)  == /\ pc[t] # "idle" /\ Topic(t) = n
                   /\ call[t].kind \in {"getTopicData", "consumed"}
Answering(t, n) == <<t, n>> \in flags \/ InAnswer(t, n)

\* The operation a label belongs to.
KindOfLabel ==
  \A t \in Tasks :
    /\ pc[t] = "fetch" => call[t].kind = "getTopicData"
    /\ pc[t] = "dec" => call[t].kind = "consumed"

\* A task is attached to a topic once.
Attached ==
  /\ \A t \in Tasks, n \in Topics : t \in Elems(observers[n]) => <<t, n>> \in tried
  /\ \A t \in Tasks :
       call[t].kind = "attach" /\ pc[t] \in {"enter", "next", "step", "found"} =>
         t \notin Elems(observers[Topic(t)]) /\ <<t, Topic(t)>> \in tried
  /\ \A n \in Topics : \A i, j \in DOMAIN observers[n] :
       observers[n][i] = observers[n][j] => i = j

\* Answers are owed by those that were notified, and a signal pending for a task
\* is not also being answered by it.
Owes ==
  \A t \in Tasks, n \in Topics :
    /\ Answering(t, n) => t \in owed[n]
    /\ ~(<<t, n>> \in flags /\ InAnswer(t, n))

\* The counter while nobody is in the notification loop of n.
Counted ==
  /\ \A n \in Topics : IsFiniteSet(owed[n])
  /\ \A n \in Topics : (\A t \in Tasks : pc[t] \in Looping => Topic(t) # n) =>
       count[n] = Cardinality(owed[n])
  /\ \A t \in Tasks : pc[t] = "store" => count[Topic(t)] = 0
  /\ \A t \in Tasks : pc[t] = "dec" => reg[t] = count[Topic(t)]

\* The loop of task t has the k-th observer of n in hand: the counter counts
\* the turns, and the observers to come have not been notified.
Turn(t, n, k) ==
  /\ cursor[n] = observers[n][k]
  /\ pc[t] \in {"load", "inc", "notify"} => at[t] = observers[n][k]
  /\ pc[t] = "stepobs" => at[t] = After(observers[n], observers[n][k])
  /\ count[n] = IF pc[t] \in {"load", "inc"} THEN k - 1 ELSE k
  /\ pc[t] = "inc" => reg[t] = count[n]
  /\ \A i \in DOMAIN observers[n] :
       i > k \/ (i = k /\ pc[t] \in {"load", "inc", "notify"}) => ~Answering(observers[n][i], n)

Notifying ==
  \A t \in Tasks : pc[t] \in Looping =>
    LET n == Topic(t) IN
      /\ owed[n] = Elems(observers[n])
      /\ \E k \in DOMAIN observers[n] : Turn(t, n, k)

Exact == KindOfLabel /\ Attached /\ Owes /\ Counted /\ Notifying

-----------------------------------------------------------------------------
(* Lists without repetitions. *)

LEMMA ElemsAppend ==
  ASSUME NEW S, NEW s \in Seq(S), NEW x \in S
  PROVE  Elems(Append(s, x)) = Elems(s) \union {x}
<1>1. /\ Len(Append(s, x)) = Len(s) + 1 /\ Len(s) \in Nat
      /\ \A i \in 1..Len(s) : Append(s, x)[i] = s[i]
      /\ Append(s, x)[Len(s) + 1] = x
  OBVIOUS
<1>2. DOMAIN Append(s, x) = 1..(Len(s) + 1) /\ DOMAIN s = 1..Len(s)
  BY <1>1
<1> QED
  BY <1>1, <1>2 DEF Elems

LEMMA ElemsCardinality ==
  ASSUME NEW S, NEW s \in Seq(S), \A i, j \in DOMAIN s : s[i] = s[j] => i = j
  PROVE  IsFiniteSet(Elems(s)) /\ Cardinality(Elems(s)) = Len(s)
<1>1. Len(s) \in Nat /\ DOMAIN s = 1..Len(s)
  OBVIOUS
<1> DEFINE f == [i \in 1..Len(s) |-> s[i]]
<1>a. f \in [1..Len(s) -> Elems(s)]
  BY <1>1 DEF Elems
<1>b. \A i, j \in 1..Len(s) : f[i] = f[j] => i = j
  BY <1>1
<1>c. \A x \in Elems(s) : \E i \in 1..Len(s) : f[i] = x
  BY <1>1 DEF Elems
<1>2. f \in Bijection(1..Len(s), Elems(s))
  BY <1>a, <1>b, <1>c, Fun_IsInj, Fun_IsSurj DEF Bijection
<1>3. ExistsBijection(1..Len(s), Elems(s))
  BY <1>2 DEF ExistsBijection
<1> QED
  BY <1>1, <1>3, FS_NatBijection, FS_CountingElements

-----------------------------------------------------------------------------
(* Steps: those outside the mutex, and those under it. *)

\* A call begins, or a subscriber goes from its update to consumed().
Aside(t) == Calls(t) \/ Fetch(t)

LEMMA AsideFrame ==
  ASSUME Locked, Safe, KindOfLabel, NEW t \in Tasks, Aside(t)
  PROVE  /\ UNCHANGED <<topics, search, observers, raw, cursor, count, data, at, reg, hist>>
         /\ pc[t] \in {"idle", "fetch"} /\ pc'[t] = "enter"
         /\ \A u \in Tasks \ {t} : pc'[u] = pc[u] /\ call'[u] = call[u] /\ Topic(u)' = Topic(u)
         /\ flags' \subseteq flags
         /\ \A u \in Tasks, n \in Topics : Answering(u, n)' => Answering(u, n)
         /\ \A u \in Tasks, n \in Topics :
              <<u, n>> \in flags' /\ InAnswer(u, n)' => <<u, n>> \in flags /\ InAnswer(u, n)
<1>0. pc \in [Tasks -> Labels] /\ call \in [Tasks -> [kind : Kinds, topic : Topics]]
  BY DEF Safe, Typed, TypeOK
<1>1. CASE Fetch(t)
  <2>1. /\ UNCHANGED <<shared, reg, at, hist>>
        /\ pc[t] = "fetch" /\ pc'[t] = "enter" /\ Topic(t)' = Topic(t)
        /\ call[t].kind = "getTopicData" /\ call'[t].kind = "consumed"
        /\ \A u \in Tasks \ {t} : pc'[u] = pc[u] /\ call'[u] = call[u] /\ Topic(u)' = Topic(u)
    BY <1>0, <1>1 DEF Fetch, Begin, Goto, At, Topic, KindOfLabel
  <2>2. \A u \in Tasks, n \in Topics : InAnswer(u, n)' <=> InAnswer(u, n)
    BY <2>1 DEF InAnswer
  <2>3. UNCHANGED flags
    BY <2>1 DEF shared
  <2>4. \A u \in Tasks, n \in Topics : Answering(u, n)' => Answering(u, n)
    BY <2>2, <2>3 DEF Answering
  <2> QED BY <2>1, <2>2, <2>3, <2>4 DEF shared
<1>2. CASE Calls(t)
  <2>1. /\ UNCHANGED <<topics, search, observers, raw, cursor, count, data, at, reg, hist>>
        /\ pc[t] = "idle" /\ pc'[t] = "enter"
        /\ flags' \subseteq flags
        /\ \A u \in Tasks \ {t} : pc'[u] = pc[u] /\ call'[u] = call[u] /\ Topic(u)' = Topic(u)
    BY <1>0, <1>2 DEF Calls, Wake, CallAttach, CallPublish, At, Begin, Goto, shared, hist, Topic
  <2>2. \A u \in Tasks \ {t}, n \in Topics : InAnswer(u, n)' <=> InAnswer(u, n)
    BY <2>1 DEF InAnswer
  <2>3. \A n \in Topics : InAnswer(t, n)' => <<t, n>> \in flags /\ <<t, n>> \notin flags'
    <3>1. CASE \E m \in Topics : Wake(t, m)
      <4>1. PICK m \in Topics : Wake(t, m)
        BY <3>1
      <4>2. Topic(t)' = m /\ <<t, m>> \in flags /\ flags' = flags \ {<<t, m>>}
        BY <1>0, <4>1 DEF Wake, Begin, Topic
      <4> QED BY <4>2 DEF InAnswer
    <3>2. CASE ~ \E m \in Topics : Wake(t, m)
      <4>1. call'[t].kind \in {"attach", "publish"}
        BY <1>0, <1>2, <3>2 DEF Calls, CallAttach, CallPublish, Begin
      <4> QED BY <4>1 DEF InAnswer
    <3> QED BY <3>1, <3>2
  <2> QED BY <2>1, <2>2, <2>3 DEF Answering
<1> QED
  BY <1>1, <1>2 DEF Aside

\* Everything else happens under the mutex (or takes it), and its task is alone.
Inside(t) == Step(t) /\ ~Fetch(t)

LEMMA InsideFrame ==
  ASSUME Locked, Safe, NEW t \in Tasks, Inside(t)
  PROVE  /\ UNCHANGED <<call, topics, tried>> /\ pc[t] # "idle"
         /\ \A u \in Tasks : Topic(u)' = Topic(u)
         /\ \A u \in Tasks \ {t} : pc'[u] = pc[u] /\ at'[u] = at[u] /\ pc[u] \notin Critical
         /\ ~Notify(t) => UNCHANGED flags
<1>1. UNCHANGED <<call, tried>> /\ (~Notify(t) => UNCHANGED flags)
  BY DEF Inside, Step, FindFirst, FindNext, FindStep, NotFound, PublishCheck, PublishStore, CountLoad,
     CountStore, Notify, NextObserver, StepObserver, AttachLink, AttachSeal, GetTopicData,
     Consumed, ConsumedStore, shared
<1>2. \A u \in Tasks \ {t} : pc[u] \notin Critical
  BY Alone DEF Inside, Safe
<1> QED
  BY <1>1, <1>2, StepFrame DEF Inside, Safe, Topic

LEMMA InsideAnswers ==
  ASSUME Locked, Safe, NEW t \in Tasks, Inside(t),
         NEW u \in Tasks, NEW n \in Topics
  PROVE  /\ InAnswer(u, n)' => InAnswer(u, n)
         /\ ~Notify(t) /\ Answering(u, n)' => Answering(u, n)
<1>1. InAnswer(u, n)' => InAnswer(u, n)
  BY InsideFrame DEF InAnswer
<1> QED
  BY <1>1, InsideFrame DEF Answering

LEMMA Cases ==
  ASSUME Locked, Safe, [Next]_vars
  PROVE  \/ \E t \in Tasks : Aside(t)
         \/ \E t \in Tasks : Inside(t)
         \/ UNCHANGED <<observers, raw, cursor, count, data, holder, flags, local, hist>>
  BY NextCases, InstallFrame DEF Aside, Inside, vars, shared

\* With nothing of the broker's moved, all of Exact stays.
LEMMA ExactStutters ==
  ASSUME Exact, UNCHANGED <<observers, raw, cursor, count, data, holder, flags, local, hist>>
  PROVE  Exact'
<1>1. KindOfLabel' /\ Attached'
  BY DEF Exact, KindOfLabel, Attached, Topic, local, hist
<1>2. Owes' /\ Counted'
  BY DEF Exact, Owes, Counted, Answering, InAnswer, Topic, local, hist
<1>3. Notifying'
  <2>1. \A t \in Tasks : pc'[t] = pc[t] /\ Topic(t)' = Topic(t)
    BY DEF Topic, local
  <2>2. ASSUME NEW t, NEW n, NEW k PROVE Turn(t, n, k)' <=> Turn(t, n, k)
    BY DEF Turn, Answering, InAnswer, Topic, local
  <2>3. observers' = observers /\ owed' = owed
    BY DEF hist
  <2> QED
    BY <2>1, <2>2, <2>3 DEF Exact, Notifying
<1> QED
  BY <1>1, <1>2, <1>3 DEF Exact

-----------------------------------------------------------------------------
(* Labels, attachments, answers. *)

LEMMA KindKept == Locked /\ Safe /\ KindOfLabel /\ [Next]_vars => KindOfLabel'
<1> SUFFICES ASSUME Locked, Safe, KindOfLabel, [Next]_vars PROVE KindOfLabel'
  OBVIOUS
<1>0. pc \in [Tasks -> Labels]
  BY DEF Safe, Typed, TypeOK
<1>1. ASSUME NEW t \in Tasks, Aside(t) PROVE KindOfLabel'
  BY <1>1, AsideFrame DEF KindOfLabel
<1>2. ASSUME NEW t \in Tasks, Inside(t) PROVE KindOfLabel'
  <2>1. pc'[t] = "fetch" => GetTopicData(t)
    BY <1>0, <1>2 DEF Inside, Step, FindFirst, FindNext, FindStep, NotFound, PublishCheck, PublishStore,
       CountLoad, CountStore, Notify, NextObserver, StepObserver, AttachLink, AttachSeal,
       Consumed, ConsumedStore, Goto, Return, Loop, Compare
  <2>2. pc'[t] = "dec" => Consumed(t)
    BY <1>0, <1>2 DEF Inside, Step, FindFirst, FindNext, FindStep, NotFound, PublishCheck, PublishStore,
       CountLoad, CountStore, Notify, NextObserver, StepObserver, AttachLink, AttachSeal,
       GetTopicData, ConsumedStore, Goto, Return, Loop, Compare
  <2> QED BY <1>2, <2>1, <2>2, InsideFrame DEF KindOfLabel, GetTopicData, Consumed, In
<1> QED
  BY <1>1, <1>2, Cases DEF KindOfLabel, local

\* No node is unfinished when a task links its own.
LEMMA SealedWhole ==
  ASSUME Locked, Safe, NEW t \in Tasks, AttachLink(t)
  PROVE  Sealed(Topic(t)) = observers[Topic(t)]
<1> DEFINE n == Topic(t)
<1>1. pc[t] = "found" /\ n \in Topics /\ observers[n] \in Seq(Tasks)
  BY DEF AttachLink, In, At, Safe, Typed, TypeOK, Topic
<1>2. \A u \in Tasks : pc[u] # "seal"
  BY <1>1 DEF Safe, Mutex, Critical
<1>3. \A u \in Tasks : <<u, n>> \notin raw
  BY <1>1, <1>2 DEF Safe, RawSealed
<1>4. observers[n] # <<>> => observers[n][Len(observers[n])] \in Tasks
  BY <1>1
<1> QED
  BY <1>3, <1>4 DEF Sealed

LEMMA LinkAppends ==
  ASSUME Locked, Safe, NEW t \in Tasks, AttachLink(t)
  PROVE  /\ Topic(t) \in Topics /\ observers[Topic(t)] \in Seq(Tasks)
         /\ observers' = [observers EXCEPT ![Topic(t)] = Append(observers[Topic(t)], t)]
         /\ Elems(observers'[Topic(t)]) = Elems(observers[Topic(t)]) \union {t}
<1>1. Topic(t) \in Topics /\ observers \in [Topics -> Seq(Tasks)]
  BY DEF Safe, Typed, TypeOK, Topic
<1>2. observers' = [observers EXCEPT ![Topic(t)] = Append(observers[Topic(t)], t)]
  BY SealedWhole DEF AttachLink
<1>3. observers'[Topic(t)] = Append(observers[Topic(t)], t)
  BY <1>1, <1>2
<1> QED
  BY <1>1, <1>2, <1>3, ElemsAppend

LEMMA InsideObservers ==
  ASSUME NEW t \in Tasks, Inside(t), ~AttachLink(t)
  PROVE  UNCHANGED observers
  BY DEF Inside, Step, FindFirst, FindNext, FindStep, NotFound, PublishCheck, PublishStore, CountLoad,
     CountStore, Notify, NextObserver, StepObserver, AttachSeal, GetTopicData,
     Consumed, ConsumedStore, shared

LEMMA AttachedKept == Locked /\ Safe /\ KindOfLabel /\ Attached /\ [Next]_vars => Attached'
<1> SUFFICES ASSUME Locked, Safe, KindOfLabel, Attached, [Next]_vars PROVE Attached'
  OBVIOUS
<1> DEFINE Before == {"enter", "next", "step", "found"}
<1>0. pc \in [Tasks -> Labels] /\ call \in [Tasks -> [kind : Kinds, topic : Topics]]
      /\ observers \in [Topics -> Seq(Tasks)]
  BY DEF Safe, Typed, TypeOK
<1>1. ASSUME NEW t \in Tasks, Aside(t) PROVE Attached'
  <2>1. /\ UNCHANGED observers
        /\ \A u \in Tasks \ {t} : pc'[u] = pc[u] /\ call'[u] = call[u] /\ Topic(u)' = Topic(u)
    BY <1>1, AsideFrame
  <2>2. tried \subseteq tried'
    BY <1>1 DEF Aside, Calls, Wake, CallAttach, CallPublish, Fetch
  <2>3. call'[t].kind = "attach" => \E n \in Topics : CallAttach(t, n)
    <3> USE <1>0 DEF Begin
    <3>1. Fetch(t) => call'[t].kind = "consumed"
      BY DEF Fetch
    <3>2. \A n \in Topics : Wake(t, n) => call'[t].kind = "getTopicData"
      BY DEF Wake
    <3>3. \A n \in Topics, v \in Values : CallPublish(t, n, v) => call'[t].kind = "publish"
      BY DEF CallPublish
    <3> QED BY <1>1, <3>1, <3>2, <3>3 DEF Aside, Calls
  <2>4. ASSUME NEW n \in Topics, CallAttach(t, n)
        PROVE  Topic(t)' = n /\ <<t, n>> \notin tried /\ <<t, n>> \in tried'
    BY <1>0, <2>4 DEF CallAttach, Begin, Topic
  <2>5. call'[t].kind = "attach" =>
          t \notin Elems(observers[Topic(t)']) /\ <<t, Topic(t)'>> \in tried'
    BY <2>3, <2>4 DEF Attached
  <2>6. \A u \in Tasks : call'[u].kind = "attach" /\ pc'[u] \in Before =>
          u \notin Elems(observers'[Topic(u)']) /\ <<u, Topic(u)'>> \in tried'
    BY <2>1, <2>2, <2>5 DEF Attached
  <2>7. \A u \in Tasks, n \in Topics : u \in Elems(observers'[n]) => <<u, n>> \in tried'
    BY <2>1, <2>2 DEF Attached
  <2> QED BY <2>1, <2>6, <2>7 DEF Attached
<1>2. ASSUME NEW t \in Tasks, Inside(t) PROVE Attached'
  <2>1. /\ UNCHANGED <<call, tried>> /\ \A u \in Tasks : Topic(u)' = Topic(u)
        /\ \A u \in Tasks \ {t} : pc'[u] = pc[u]
    BY <1>2, InsideFrame
  <2>2. pc'[t] \in Before => pc[t] \in Before /\ ~AttachLink(t)
    BY <1>0, <1>2 DEF Inside, Step, FindFirst, FindNext, FindStep, NotFound, PublishCheck, PublishStore,
       CountLoad, CountStore, Notify, NextObserver, StepObserver, AttachLink, AttachSeal, GetTopicData,
       Consumed, ConsumedStore, Goto, Return, Loop, Compare, At, In
  <2>3. CASE ~AttachLink(t)
    <3>1. UNCHANGED observers
      BY <1>2, <2>3, InsideObservers
    <3> QED BY <2>1, <2>2, <3>1 DEF Attached
  <2>4. CASE AttachLink(t)
    <3> DEFINE n == Topic(t)
    <3>1. /\ n \in Topics /\ observers[n] \in Seq(Tasks)
          /\ observers' = [observers EXCEPT ![n] = Append(observers[n], t)]
          /\ Elems(observers'[n]) = Elems(observers[n]) \union {t}
      BY <2>4, LinkAppends
    <3>2. t \notin Elems(observers[n]) /\ <<t, n>> \in tried
      BY <2>4 DEF AttachLink, In, At, Attached
    <3> HIDE DEF n
    <3>3. \A m \in Topics \ {n} : observers'[m] = observers[m]
      BY <1>0, <3>1
    <3>4. \A u \in Tasks, m \in Topics : u \in Elems(observers'[m]) => <<u, m>> \in tried'
      BY <2>1, <3>1, <3>2, <3>3 DEF Attached
    <3>5. \A u \in Tasks : call'[u].kind = "attach" /\ pc'[u] \in Before =>
            u \notin Elems(observers'[Topic(u)']) /\ <<u, Topic(u)'>> \in tried'
      <4> SUFFICES ASSUME NEW u \in Tasks, call'[u].kind = "attach", pc'[u] \in Before
                   PROVE  u \notin Elems(observers'[Topic(u)']) /\ <<u, Topic(u)'>> \in tried'
        OBVIOUS
      <4>1. u # t /\ Topic(u)' = Topic(u) /\ Topic(u) \in Topics
        BY <1>0, <2>1, <2>2, <2>4 DEF Topic
      <4>2. u \notin Elems(observers[Topic(u)]) /\ <<u, Topic(u)>> \in tried
        BY <2>1, <4>1 DEF Attached
      <4> QED BY <2>1, <3>1, <3>3, <4>1, <4>2
    <3>6. \A i, j \in DOMAIN observers'[n] : observers'[n][i] = observers'[n][j] => i = j
      <4> DEFINE s == observers[n]
      <4>1. observers'[n] = Append(s, t)
        BY <1>0, <3>1
      <4>2. \A i, j \in DOMAIN s : s[i] = s[j] => i = j
        BY <3>1 DEF Attached
      <4>3. \A i \in DOMAIN s : s[i] # t
        BY <3>2 DEF Elems
      <4> HIDE DEF s
      <4>4. s \in Seq(Tasks)
        BY <3>1 DEF s
      <4>5. /\ Len(Append(s, t)) = Len(s) + 1 /\ Len(s) \in Nat
            /\ \A i \in 1..Len(s) : Append(s, t)[i] = s[i]
            /\ Append(s, t)[Len(s) + 1] = t
            /\ DOMAIN Append(s, t) = 1..(Len(s) + 1) /\ DOMAIN s = 1..Len(s)
        BY <4>4
      <4> QED BY <4>1, <4>2, <4>3, <4>5
    <3> QED BY <3>3, <3>4, <3>5, <3>6 DEF Attached
  <2> QED BY <2>3, <2>4
<1> QED
  BY <1>1, <1>2, Cases DEF Attached, Topic, local

LEMMA OwesKept ==
  Locked /\ Safe /\ Exact /\ [Next]_vars => Owes'
<1> SUFFICES ASSUME Locked, Safe, Exact, [Next]_vars PROVE Owes'
  OBVIOUS
<1>0. /\ pc \in [Tasks -> Labels] /\ owed \in [Topics -> SUBSET Tasks]
      /\ \A t \in Tasks : Topic(t) \in Topics
  BY DEF Safe, Typed, TypeOK, Topic
<1>1. ASSUME NEW t \in Tasks, Aside(t) PROVE Owes'
  <2>1. UNCHANGED owed
    BY <1>1, AsideFrame DEF Exact, hist
  <2> QED BY <1>1, <2>1, AsideFrame DEF Exact, Owes
<1>2. ASSUME NEW t \in Tasks, Inside(t) PROVE Owes'
  <2> DEFINE n == Topic(t)
  <2>1. CASE Notify(t)
    <3>1. pc[t] = "notify" /\ UNCHANGED owed /\ flags' = flags \union {<<at[t], n>>}
      BY <2>1 DEF Notify, At, hist
    <3>2. PICK k \in DOMAIN observers[n] : Turn(t, n, k)
      BY <3>1 DEF Exact, Notifying, Looping
    <3>3. at[t] = observers[n][k] /\ ~Answering(at[t], n)
      BY <3>1, <3>2 DEF Turn
    <3>4. at[t] \in owed[n]
      BY <3>1, <3>2, <3>3 DEF Exact, Notifying, Looping, Elems
    <3>5. \A u \in Tasks, m \in Topics : Answering(u, m)' => Answering(u, m) \/ (u = at[t] /\ m = n)
      BY <1>2, <3>1, InsideAnswers DEF Answering
    <3>6. ~InAnswer(at[t], n)
      BY <3>3 DEF Answering
    <3> HIDE DEF n
    <3>7. \A u \in Tasks, m \in Topics : ~(<<u, m>> \in flags' /\ InAnswer(u, m)')
      BY <1>2, <3>1, <3>6, InsideAnswers DEF Exact, Owes
    <3> QED BY <3>1, <3>4, <3>5, <3>7 DEF Exact, Owes
  <2>2. CASE ~Notify(t)
    <3>1. \A u \in Tasks, m \in Topics : Answering(u, m)' => Answering(u, m)
      BY <1>2, <2>2, InsideAnswers
    <3>2. \A u \in Tasks, m \in Topics : ~(<<u, m>> \in flags' /\ InAnswer(u, m)')
      BY <1>2, <2>2, InsideAnswers, InsideFrame DEF Exact, Owes
    <3>3. \A u \in Tasks, m \in Topics : Answering(u, m)' => u \in owed'[m]
      <4>1. CASE PublishStore(t)
        <5>1. pc[t] = "store" /\ owed' = [owed EXCEPT ![n] = Elems(observers[n])]
          BY <4>1 DEF PublishStore, At
        <5>2. count[n] = 0 /\ IsFiniteSet(owed[n])
          BY <1>0, <5>1 DEF Exact, Counted
        <5>3. \A u \in Tasks : pc[u] \in Looping => Topic(u) # n
          BY <1>2, <5>1, InsideFrame DEF Looping, Critical
        <5>4. owed[n] = {}
          BY <1>0, <5>2, <5>3, FS_EmptySet DEF Exact, Counted
        <5>5. \A u \in Tasks : ~Answering(u, n)
          BY <1>0, <5>4 DEF Exact, Owes
        <5> HIDE DEF n
        <5> QED BY <1>0, <3>1, <5>1, <5>5 DEF Exact, Owes
      <4>2. CASE Answered(t)
        <5>0. n \in Topics
          BY <1>0
        <5>1. owed' = [owed EXCEPT ![n] = @ \ {t}]
          BY <4>2 DEF Answered
        <5>2. Consumed(t) \/ ConsumedStore(t) \/ PublishStore(t) \/ UNCHANGED owed
          BY <1>2 DEF Inside, Step, FindFirst, FindNext, FindStep, NotFound, PublishCheck, CountLoad,
             CountStore, Notify, NextObserver, StepObserver, AttachLink, AttachSeal, GetTopicData, hist
        <5>3. CASE UNCHANGED owed
          BY <3>1, <5>3 DEF Exact, Owes
        <5>4. CASE ~UNCHANGED owed /\ ~PublishStore(t)
          <6>1. InAnswer(t, n) /\ pc'[t] = "idle"
            BY <1>0, <5>2, <5>4 DEF Consumed, ConsumedStore, In, At, InAnswer, Return, Goto, hist,
               Exact, KindOfLabel
          <6>2. <<t, n>> \notin flags'
            BY <1>0, <1>2, <2>2, <6>1, InsideFrame DEF Exact, Owes
          <6>3. \A m \in Topics : m = n => ~Answering(t, m)'
            BY <6>1, <6>2 DEF Answering, InAnswer
          <6> HIDE DEF n
          <6> QED BY <1>0, <3>1, <5>1, <6>3, <5>0 DEF Exact, Owes
        <5> QED BY <4>1, <5>3, <5>4
      <4>3. CASE ~PublishStore(t) /\ ~Answered(t)
        <5>1. UNCHANGED owed
          BY <1>2, <4>3 DEF Inside, Step, FindFirst, FindNext, FindStep, NotFound, PublishCheck, CountLoad,
             CountStore, Notify, NextObserver, StepObserver, AttachLink, AttachSeal, GetTopicData,
             Consumed, ConsumedStore, hist
        <5> QED BY <3>1, <5>1 DEF Exact, Owes
      <4> QED BY <4>1, <4>2, <4>3
    <3> QED BY <3>2, <3>3 DEF Owes
  <2> QED BY <2>1, <2>2
<1>3. CASE UNCHANGED <<observers, raw, cursor, count, data, holder, flags, local, hist>>
  BY <1>3, ExactStutters DEF Exact
<1> QED
  BY <1>1, <1>2, <1>3, Cases

-----------------------------------------------------------------------------
(* The counter. *)

\* Who writes the counter, the answers owed and the registers of a call.
LEMMA InsideWrites ==
  ASSUME NEW t \in Tasks, Inside(t)
  PROVE  /\ ~(CountStore(t) \/ ConsumedStore(t)) => UNCHANGED count
         /\ ~(PublishStore(t) \/ Consumed(t) \/ ConsumedStore(t)) => UNCHANGED owed
         /\ ~(PublishStore(t) \/ StepObserver(t)) => UNCHANGED cursor
         /\ ~(PublishStore(t) \/ NextObserver(t) \/ FindNext(t)) => UNCHANGED at
         /\ ~(CountLoad(t) \/ Consumed(t)) => UNCHANGED reg
<1> USE DEF Inside, Step, FindFirst, FindStep, NotFound, PublishCheck, Notify, AttachLink,
        AttachSeal, GetTopicData, shared, hist
<1>1. ~(CountStore(t) \/ ConsumedStore(t)) => UNCHANGED count
  BY DEF FindNext, PublishStore, CountLoad, NextObserver, StepObserver, Consumed
<1>2. ~(PublishStore(t) \/ Consumed(t) \/ ConsumedStore(t)) => UNCHANGED owed
  BY DEF FindNext, CountLoad, CountStore, NextObserver, StepObserver
<1>3. ~(PublishStore(t) \/ StepObserver(t)) => UNCHANGED cursor
  BY DEF FindNext, CountLoad, CountStore, NextObserver, Consumed, ConsumedStore
<1>4. ~(PublishStore(t) \/ NextObserver(t) \/ FindNext(t)) => UNCHANGED at
  BY DEF CountLoad, CountStore, StepObserver, Consumed, ConsumedStore
<1>5. ~(CountLoad(t) \/ Consumed(t)) => UNCHANGED reg
  BY DEF FindNext, PublishStore, CountStore, NextObserver, StepObserver, ConsumedStore
<1> QED
  BY <1>1, <1>2, <1>3, <1>4, <1>5

\* Which labels a step leads to.
LEMMA InsideLabels ==
  ASSUME Locked, Safe, NEW t \in Tasks, Inside(t)
  PROVE  /\ pc'[t] = "store" => PublishCheck(t)
         /\ pc'[t] = "dec" => Consumed(t)
         /\ pc'[t] \in Looping =>
              PublishStore(t) \/ CountLoad(t) \/ CountStore(t) \/ Notify(t) \/ NextObserver(t) \/ StepObserver(t)
<1>0. pc \in [Tasks -> Labels]
  BY DEF Safe, Typed, TypeOK
<1>1. pc'[t] \notin Looping \union {"store", "dec"} \/ PublishCheck(t) \/ Consumed(t)
        \/ PublishStore(t) \/ CountLoad(t) \/ CountStore(t) \/ Notify(t) \/ NextObserver(t) \/ StepObserver(t)
  BY <1>0 DEF Inside, Step, FindFirst, FindNext, FindStep, NotFound, AttachLink, AttachSeal,
     GetTopicData, ConsumedStore, Goto, Return, Compare, Looping
<1>2. PublishCheck(t) => pc'[t] \in {"idle", "store"}
  BY <1>0 DEF PublishCheck, Return, Goto
<1>3. Consumed(t) => pc'[t] \in {"idle", "dec"}
  BY <1>0 DEF Consumed, Return, Goto
<1>4. PublishStore(t) \/ CountLoad(t) \/ CountStore(t) \/ Notify(t) \/ NextObserver(t) \/ StepObserver(t)
        => pc'[t] \notin {"store", "dec"}
  BY <1>0 DEF PublishStore, CountLoad, CountStore, Notify, NextObserver, StepObserver, Loop, Return, Goto
<1> QED
  BY <1>1, <1>2, <1>3, <1>4 DEF Looping

\* A task that answers an update is counted, and is the only one at the counter.
LEMMA AnswerCounted ==
  ASSUME Locked, Safe, Exact, NEW t \in Tasks, Consumed(t) \/ ConsumedStore(t)
  PROVE  LET n == Topic(t) IN
           /\ n \in Topics /\ t \in owed[n] /\ count[n] > 0 /\ count[n] \in Nat
           /\ IsFiniteSet(owed[n]) /\ count[n] = Cardinality(owed[n])
<1> DEFINE n == Topic(t)
<1>0. n \in Topics /\ count[n] \in Nat
  BY DEF Safe, Typed, TypeOK, Topic
<1>1. InAnswer(t, n) /\ Inside(t) /\ pc[t] \notin Looping
  BY DEF Consumed, ConsumedStore, In, At, InAnswer, Exact, KindOfLabel, Inside, Step, Fetch, Looping
<1>2. t \in owed[n]
  BY <1>0, <1>1 DEF Exact, Owes, Answering
<1>3. \A u \in Tasks : pc[u] \in Looping => Topic(u) # n
  BY <1>1, InsideFrame DEF Looping, Critical
<1>4. IsFiniteSet(owed[n]) /\ count[n] = Cardinality(owed[n])
  BY <1>0, <1>3 DEF Exact, Counted
<1>5. count[n] # 0
  BY <1>2, <1>4, FS_EmptySet
<1> QED
  BY <1>0, <1>2, <1>4, <1>5

\* After the last turn of the loop the counter is the number of observers.
LEMMA LoopEnds ==
  ASSUME Locked, Safe, Exact, NEW t \in Tasks, StepObserver(t), at[t] = None
  PROVE  LET n == Topic(t) IN count[n] = Cardinality(owed[n])
<1> DEFINE n == Topic(t)  s == observers[n]
<1>0. n \in Topics /\ s \in Seq(Tasks) /\ pc[t] = "stepobs"
  BY DEF Safe, Typed, TypeOK, Topic, StepObserver, At
<1>1. PICK k \in DOMAIN s : Turn(t, n, k)
  BY <1>0 DEF Exact, Notifying, Looping
<1>2. \A i, j \in DOMAIN s : s[i] = s[j] => i = j
  BY <1>0 DEF Exact, Attached
<1>3. at[t] = After(s, s[k]) /\ count[n] = k
  BY <1>0, <1>1 DEF Turn
<1>4. owed[n] = Elems(s)
  BY <1>0 DEF Exact, Notifying, Looping
<1> HIDE DEF s
<1>5. After(s, s[k]) = IF k < Len(s) THEN s[k + 1] ELSE None
  BY <1>0, <1>2, AfterExact
<1>6. k = Len(s)
  <2>1. k \in 1..Len(s) /\ Len(s) \in Nat
    BY <1>0, <1>1
  <2>2. k < Len(s) => s[k + 1] \in Tasks
    BY <1>0, <2>1
  <2> QED BY <1>3, <1>5, <2>1, <2>2, ConfigAssumption
<1>7. Cardinality(Elems(s)) = Len(s)
  BY <1>0, <1>2, ElemsCardinality
<1> QED
  BY <1>3, <1>4, <1>6, <1>7

LEMMA CountedKept ==
  Locked /\ Safe /\ Exact /\ [Next]_vars => Counted'
<1> SUFFICES ASSUME Locked, Safe, Exact, [Next]_vars PROVE Counted'
  OBVIOUS
<1>0. /\ pc \in [Tasks -> Labels] /\ owed \in [Topics -> SUBSET Tasks]
      /\ count \in [Topics -> Nat] /\ reg \in [Tasks -> Nat]
      /\ observers \in [Topics -> Seq(Tasks)]
      /\ \A t \in Tasks : Topic(t) \in Topics
  BY DEF Safe, Typed, TypeOK, Topic
<1>1. ASSUME NEW t \in Tasks, Aside(t) PROVE Counted'
  <2>1. /\ UNCHANGED <<count, owed, reg>>
        /\ pc[t] \notin Looping /\ pc'[t] = "enter"
        /\ \A u \in Tasks \ {t} : pc'[u] = pc[u] /\ Topic(u)' = Topic(u)
    BY <1>1, AsideFrame DEF hist, Looping, Exact
  <2> QED BY <2>1 DEF Exact, Counted, Looping
<1>2. ASSUME NEW t \in Tasks, Inside(t) PROVE Counted'
  <2> DEFINE n == Topic(t)
  <2>0. /\ n \in Topics /\ \A u \in Tasks : Topic(u)' = Topic(u)
        /\ \A u \in Tasks \ {t} : pc'[u] = pc[u] /\ pc[u] \notin Critical
    BY <1>0, <1>2, InsideFrame
  <2>1. \A m \in Topics : IsFiniteSet(owed'[m])
    <3>1. CASE PublishStore(t)
      <4>1. owed' = [owed EXCEPT ![n] = Elems(observers[n])]
        BY <3>1 DEF PublishStore
      <4>2. IsFiniteSet(Elems(observers[n]))
        BY <1>0, <2>0, ElemsCardinality DEF Exact, Attached
      <4> HIDE DEF n
      <4> QED BY <1>0, <4>1, <4>2 DEF Exact, Counted
    <3>2. CASE ~PublishStore(t)
      <4>1. UNCHANGED owed \/ owed' = [owed EXCEPT ![n] = @ \ {t}]
        BY <1>2, <3>2, InsideWrites DEF Consumed, ConsumedStore, Answered, hist
      <4>2. IsFiniteSet(owed[n] \ {t})
        BY <2>0, FS_RemoveElement DEF Exact, Counted
      <4> HIDE DEF n
      <4> QED BY <1>0, <4>1, <4>2 DEF Exact, Counted
    <3> QED BY <3>1, <3>2
  <2>2. ASSUME NEW m \in Topics, \A u \in Tasks : pc'[u] \in Looping => Topic(u)' # m
        PROVE  count'[m] = Cardinality(owed'[m])
    <3>1. CASE m # n
      <4>1. \A u \in Tasks : pc[u] \in Looping => Topic(u) # m
        BY <2>0, <2>2, <3>1 DEF Looping, Critical
      <4>2. UNCHANGED count \/ \E c : count' = [count EXCEPT ![n] = c]
        BY <1>2, InsideWrites DEF CountStore, ConsumedStore
      <4>3. UNCHANGED owed \/ \E o : owed' = [owed EXCEPT ![n] = o]
        BY <1>2, InsideWrites DEF PublishStore, Consumed, ConsumedStore, Answered, hist
      <4>4. count'[m] = count[m] /\ owed'[m] = owed[m]
        BY <1>0, <3>1, <4>2, <4>3
      <4> QED BY <4>1, <4>4 DEF Exact, Counted
    <3>2. CASE m = n
      <4>0. pc'[t] \notin Looping
        BY <2>0, <2>2, <3>2
      <4>1. CASE PublishStore(t)
        <5>1. observers[n] = <<>>
          BY <1>0, <2>0, <4>0, <4>1, ConfigAssumption, SMTT(30) DEF PublishStore, Loop, First, Goto, Looping
        <5>2. owed'[n] = {}
          BY <1>0, <2>0, <4>1, <5>1 DEF PublishStore, Elems
        <5>3. count'[n] = 0
          BY <4>1 DEF PublishStore, At, Exact, Counted
        <5> QED BY <3>2, <5>2, <5>3, FS_EmptySet
      <4>2. CASE StepObserver(t)
        <5>1. at[t] = None
          BY <1>0, <4>0, <4>2 DEF StepObserver, Loop, Goto, Looping
        <5>2. UNCHANGED <<count, owed>>
          BY <4>2 DEF StepObserver, hist
        <5> QED BY <3>2, <4>2, <5>1, <5>2, LoopEnds
      <4>3. CASE NextObserver(t)
        <5>1. pc[t] = "nextobs"
          BY <4>3 DEF NextObserver, At
        <5>2. PICK k \in DOMAIN observers[n] : cursor[n] = observers[n][k]
          BY <5>1 DEF Exact, Notifying, Turn, Looping
        <5>3. cursor[n] # None
          BY <1>0, <2>0, <5>2, ConfigAssumption
        <5>4. pc'[t] \in {"stepobs", "fault"}
          BY <1>0, <4>3, <5>3 DEF NextObserver, Goto
        <5>5. pc'[t] # "fault"
          BY NextSafe DEF Safe, NoFault, Halted
        <5> QED BY <4>0, <5>4, <5>5 DEF Looping
      <4>4. CASE CountLoad(t) \/ CountStore(t) \/ Notify(t)
        BY <1>0, <4>0, <4>4 DEF CountLoad, CountStore, Notify, Goto, Looping
      <4>5. CASE ConsumedStore(t)
        <5>1. /\ count' = [count EXCEPT ![n] = reg[t] - 1] /\ owed' = [owed EXCEPT ![n] = @ \ {t}]
              /\ reg[t] = count[n]
          BY <4>5 DEF ConsumedStore, Answered, At, Exact, Counted
        <5>2. /\ t \in owed[n] /\ count[n] > 0 /\ count[n] \in Nat
              /\ IsFiniteSet(owed[n]) /\ count[n] = Cardinality(owed[n])
          BY <4>5, AnswerCounted
        <5>3. Cardinality(owed[n] \ {t}) = count[n] - 1
          BY <5>2, FS_RemoveElement
        <5>4. owed'[n] = owed[n] \ {t} /\ count'[n] = count[n] - 1
          BY <1>0, <2>0, <5>1
        <5> HIDE DEF n
        <5> QED BY <3>2, <5>3, <5>4
      <4>6. CASE Consumed(t)
        <5>1. count[n] > 0 /\ count[n] \in Nat /\ count[n] = Cardinality(owed[n])
          BY <4>6, AnswerCounted
        <5>2. UNCHANGED <<count, owed>>
          BY <4>6, <5>1 DEF Consumed, hist
        <5> QED BY <3>2, <5>1, <5>2
      <4>7. CASE ~(PublishStore(t) \/ StepObserver(t) \/ NextObserver(t) \/ CountLoad(t)
                   \/ CountStore(t) \/ Notify(t) \/ ConsumedStore(t) \/ Consumed(t))
        <5>1. UNCHANGED <<count, owed>>
          BY <1>2, <4>7, InsideWrites
        <5>2. pc[t] \notin Looping
          BY <1>2, <4>7 DEF Inside, Step, FindFirst, FindNext, FindStep, NotFound, PublishCheck,
             AttachLink, AttachSeal, GetTopicData, At, In, Looping
        <5> QED BY <2>0, <3>2, <5>1, <5>2 DEF Exact, Counted, Looping, Critical
      <4> QED BY <4>1, <4>2, <4>3, <4>4, <4>5, <4>6, <4>7
    <3> QED BY <3>1, <3>2
  <2>3. \A u \in Tasks : pc'[u] = "store" => count'[Topic(u)'] = 0
    <3>1. PublishCheck(t) /\ pc'[t] = "store" => count'[n] = 0
      BY <1>0, <2>0 DEF PublishCheck, PublishPending, Return, Goto
    <3> QED BY <1>2, <2>0, <3>1, InsideLabels DEF Critical
  <2>4. \A u \in Tasks : pc'[u] = "dec" => reg'[u] = count'[Topic(u)']
    <3>1. Consumed(t) => reg'[t] = count'[n]
      BY <1>0, <2>0 DEF Consumed
    <3> QED BY <1>2, <2>0, <3>1, InsideLabels DEF Critical
  <2> QED BY <2>1, <2>2, <2>3, <2>4 DEF Counted
<1>3. CASE UNCHANGED <<observers, raw, cursor, count, data, holder, flags, local, hist>>
  BY <1>3, ExactStutters DEF Exact
<1> QED
  BY <1>1, <1>2, <1>3, Cases

-----------------------------------------------------------------------------
(* The notification loop. *)

\* The first turn: nobody is still answering the previous update.
LEMMA LoopBegins ==
  ASSUME Locked, Safe, Exact, NEW t \in Tasks, PublishStore(t), pc'[t] = "load"
  PROVE  LET n == Topic(t) IN
           /\ owed'[n] = Elems(observers[n]) /\ 1 \in DOMAIN observers[n]
           /\ cursor'[n] = observers[n][1] /\ at'[t] = observers[n][1] /\ count[n] = 0
           /\ \A u \in Tasks : ~Answering(u, n)
<1> DEFINE n == Topic(t)
<1>0. /\ n \in Topics /\ observers[n] \in Seq(Tasks) /\ pc \in [Tasks -> Labels]
      /\ cursor \in [Topics -> Tasks \union {None}] /\ owed \in [Topics -> SUBSET Tasks]
      /\ at \in [Tasks -> Tasks \union Topics \union {None}]
  BY DEF Safe, Typed, TypeOK, Topic
<1>1. pc[t] = "store" /\ Inside(t)
  BY DEF PublishStore, At, Inside, Step, Fetch
<1>2. observers[n] # <<>>
  BY <1>0 DEF PublishStore, Loop, First, Return, Goto
<1>3. First(observers[n]) = observers[n][1] /\ 1 \in DOMAIN observers[n]
  BY <1>0, <1>2 DEF First
<1>4. cursor'[n] = observers[n][1] /\ at'[t] = observers[n][1] /\ owed'[n] = Elems(observers[n])
  BY <1>0, <1>3 DEF PublishStore
<1>5. count[n] = 0 /\ IsFiniteSet(owed[n])
  BY <1>0, <1>1 DEF Exact, Counted
<1>6. \A u \in Tasks : pc[u] \in Looping => Topic(u) # n
  BY <1>1, InsideFrame DEF Looping, Critical
<1>7. owed[n] = {}
  BY <1>0, <1>5, <1>6, FS_EmptySet DEF Exact, Counted
<1>8. \A u \in Tasks : ~Answering(u, n)
  BY <1>0, <1>7 DEF Exact, Owes
<1> QED
  BY <1>3, <1>4, <1>5, <1>8

\* The loop of task t comes to have the k-th of the observers s of n in hand.
Turned(t, n, s, k) ==
  /\ cursor'[n] = s[k]
  /\ pc'[t] \in {"load", "inc", "notify"} => at'[t] = s[k]
  /\ pc'[t] = "stepobs" => at'[t] = After(s, s[k])
  /\ count'[n] = IF pc'[t] \in {"load", "inc"} THEN k - 1 ELSE k
  /\ pc'[t] = "inc" => reg'[t] = count'[n]
  /\ \A i \in DOMAIN s :
       i > k \/ (i = k /\ pc'[t] \in {"load", "inc", "notify"}) => ~Answering(s[i], n)'

\* The turn of the loop that a step of its task leads to.
LEMMA TurnKept ==
  ASSUME Locked, Safe, Exact, NEW t \in Tasks, Inside(t), pc'[t] \in Looping,
         NEW n \in Topics, n = Topic(t), NEW s \in Seq(Tasks), s = observers[n]
  PROVE  /\ owed'[n] = Elems(s)
         /\ \E k \in DOMAIN s : Turned(t, n, s, k)
<1>0. /\ pc \in [Tasks -> Labels]
      /\ cursor \in [Topics -> Tasks \union {None}] /\ count \in [Topics -> Nat]
      /\ at \in [Tasks -> Tasks \union Topics \union {None}] /\ reg \in [Tasks -> Nat]
  BY DEF Safe, Typed, TypeOK, Topic
<1>1. \A i, j \in DOMAIN s : s[i] = s[j] => i = j
  BY <1>0 DEF Exact, Attached
<1>2. \A i \in DOMAIN s : s[i] \in Tasks
  BY <1>0
<1>3. ~Notify(t) => \A u \in Tasks, m \in Topics : Answering(u, m)' => Answering(u, m)
  BY InsideAnswers
<1>4. DOMAIN s = 1..Len(s) /\ Len(s) \in Nat
  BY <1>0
<1>5. CASE PublishStore(t)
  <2>1. pc'[t] = "load" /\ ~Notify(t) /\ UNCHANGED count
    BY <1>0, <1>5 DEF PublishStore, Notify, At, Loop, Goto, Return, Looping
  <2>2. /\ owed'[n] = Elems(s) /\ 1 \in DOMAIN s /\ cursor'[n] = s[1] /\ at'[t] = s[1]
        /\ count[n] = 0 /\ \A u \in Tasks : ~Answering(u, n)
    BY <1>5, <2>1, LoopBegins
  <2> QED BY <1>2, <1>3, <2>1, <2>2 DEF Turned
<1>6. CASE CountLoad(t) \/ CountStore(t) \/ Notify(t) \/ NextObserver(t) \/ StepObserver(t)
  <2>1. pc[t] \in Looping /\ ~PublishStore(t) /\ ~Consumed(t) /\ ~ConsumedStore(t) /\ ~FindNext(t)
    BY <1>6 DEF CountLoad, CountStore, Notify, NextObserver, StepObserver, PublishStore, Consumed,
       ConsumedStore, FindNext, In, At, Looping
  <2>2. owed'[n] = Elems(s)
    BY <2>1, InsideWrites DEF Exact, Notifying
  <2>3. PICK k \in DOMAIN s : Turn(t, n, k)
    BY <2>1 DEF Exact, Notifying
  <2>4. CASE CountLoad(t)
    <3>1. /\ pc[t] = "load" /\ pc'[t] = "inc" /\ UNCHANGED <<cursor, count, at>> /\ ~Notify(t)
          /\ reg'[t] = count[n]
      BY <1>0, <2>4 DEF CountLoad, Notify, At, Goto, shared
    <3>2. /\ cursor[n] = s[k] /\ at[t] = s[k] /\ count[n] = k - 1
          /\ \A i \in DOMAIN s : i > k \/ i = k => ~Answering(s[i], n)
      BY <2>3, <3>1 DEF Turn
    <3> QED BY <1>0, <1>2, <1>3, <2>2, <3>1, <3>2 DEF Turned
  <2>5. CASE CountStore(t)
    <3>1. /\ pc[t] = "inc" /\ pc'[t] = "notify" /\ UNCHANGED <<cursor, at>> /\ ~Notify(t)
          /\ count'[n] = reg[t] + 1
      BY <1>0, <2>5 DEF CountStore, Notify, At, Goto
    <3>2. /\ cursor[n] = s[k] /\ at[t] = s[k] /\ reg[t] = k - 1
          /\ \A i \in DOMAIN s : i > k \/ i = k => ~Answering(s[i], n)
      BY <2>3, <3>1 DEF Turn
    <3>3. count'[n] = k
      BY <1>4, <3>1, <3>2
    <3> QED BY <1>0, <1>2, <1>3, <2>2, <3>1, <3>2, <3>3 DEF Turned
  <2>6. CASE Notify(t)
    <3>1. /\ pc[t] = "notify" /\ pc'[t] = "nextobs" /\ UNCHANGED <<cursor, count, at>>
          /\ flags' = flags \union {<<at[t], n>>}
      BY <1>0, <2>6 DEF Notify, At, Goto
    <3>2. /\ cursor[n] = s[k] /\ at[t] = s[k] /\ count[n] = k
          /\ \A i \in DOMAIN s : i > k => ~Answering(s[i], n)
      BY <2>3, <3>1 DEF Turn
    <3>3. ASSUME NEW i \in DOMAIN s, i > k PROVE ~Answering(s[i], n)'
      <4>1. s[i] # at[t] /\ ~Answering(s[i], n) /\ s[i] \in Tasks
        BY <1>1, <1>2, <1>4, <3>2, <3>3
      <4>2. <<s[i], n>> \notin flags' /\ ~InAnswer(s[i], n)
        BY <3>1, <4>1 DEF Answering
      <4>3. ~InAnswer(s[i], n)'
        BY <4>1, <4>2, InsideAnswers
      <4> QED BY <4>2, <4>3 DEF Answering
    <3> QED BY <1>0, <2>2, <3>1, <3>2, <3>3 DEF Turned
  <2>7. CASE NextObserver(t)
    <3>0. pc[t] = "nextobs" /\ ~Notify(t)
      BY <2>7 DEF NextObserver, Notify, At
    <3>1. /\ cursor[n] = s[k] /\ count[n] = k
          /\ \A i \in DOMAIN s : i > k => ~Answering(s[i], n)
      BY <2>3, <3>0 DEF Turn
    <3>2. UNCHANGED <<cursor, count>>
      BY <2>7 DEF NextObserver
    <3>3. pc'[t] = "stepobs"
      BY <1>0, <2>7 DEF NextObserver, Return, Goto, Looping
    <3>4. at'[t] = After(s, s[k])
      BY <1>0, <2>7, <3>1, <3>3 DEF NextObserver, Goto
    <3> QED BY <1>0, <1>2, <1>3, <2>2, <3>0, <3>1, <3>2, <3>3, <3>4 DEF Turned
  <2>8. CASE StepObserver(t)
    <3>0. pc[t] = "stepobs" /\ ~Notify(t)
      BY <2>8 DEF StepObserver, Notify, At
    <3>1. /\ at[t] = After(s, s[k]) /\ count[n] = k
          /\ \A i \in DOMAIN s : i > k => ~Answering(s[i], n)
      BY <2>3, <3>0 DEF Turn
    <3>2. /\ at[t] # None /\ pc'[t] = "load" /\ cursor'[n] = at[t] /\ UNCHANGED <<count, at>>
      BY <1>0, <2>8 DEF StepObserver, Loop, Return, Goto, Looping
    <3>3. k < Len(s) /\ at[t] = s[k + 1]
      <4>1. After(s, s[k]) = IF k < Len(s) THEN s[k + 1] ELSE None
        BY <1>1, AfterExact
      <4> QED BY <3>1, <3>2, <4>1
    <3>4. k + 1 \in DOMAIN s /\ count[n] = (k + 1) - 1
      BY <1>4, <3>1, <3>3
    <3>5. \A i \in DOMAIN s : i > k + 1 \/ i = k + 1 => ~Answering(s[i], n)'
      <4>1. \A i \in DOMAIN s : i > k + 1 \/ i = k + 1 => ~Answering(s[i], n)
        BY <1>4, <3>1
      <4> QED BY <1>2, <1>3, <3>0, <4>1
    <3> QED BY <1>0, <2>2, <3>2, <3>3, <3>4, <3>5 DEF Turned
  <2> QED BY <1>6, <2>4, <2>5, <2>6, <2>7, <2>8
<1> QED
  BY <1>5, <1>6, InsideLabels

LEMMA NotifyingKept ==
  Locked /\ Safe /\ Exact /\ [Next]_vars => Notifying'
<1> SUFFICES ASSUME Locked, Safe, Exact, [Next]_vars PROVE Notifying'
  OBVIOUS
<1>0. \A t \in Tasks : Topic(t) \in Topics /\ observers[Topic(t)] \in Seq(Tasks)
  BY DEF Safe, Typed, TypeOK, Topic
<1>1. ASSUME NEW t \in Tasks, Aside(t) PROVE Notifying'
  <2>1. /\ UNCHANGED <<observers, cursor, count, owed, reg, at>> /\ pc'[t] = "enter"
        /\ \A u \in Tasks \ {t} : pc'[u] = pc[u] /\ Topic(u)' = Topic(u)
        /\ \A u \in Tasks, n \in Topics : Answering(u, n)' => Answering(u, n)
    BY <1>1, AsideFrame DEF hist, Exact
  <2>2. ASSUME NEW u \in Tasks, pc'[u] \in Looping
        PROVE  /\ (owed[Topic(u)] = Elems(observers[Topic(u)]))'
               /\ \E k \in DOMAIN observers'[Topic(u)'] : Turn(u, Topic(u), k)'
    <3>1. u # t /\ pc'[u] = pc[u] /\ Topic(u)' = Topic(u)
      BY <2>1, <2>2 DEF Looping
    <3>2. PICK k \in DOMAIN observers[Topic(u)] : Turn(u, Topic(u), k)
      BY <2>2, <3>1 DEF Exact, Notifying
    <3>3. Turn(u, Topic(u), k)'
      <4>1. \A i \in DOMAIN observers[Topic(u)] : observers[Topic(u)][i] \in Tasks
        BY <1>0
      <4>2. \A i \in DOMAIN observers[Topic(u)], m \in Topics :
              m = Topic(u) /\ ~Answering(observers[Topic(u)][i], m) =>
                ~Answering(observers[Topic(u)][i], Topic(u))'
        <5>1. ASSUME NEW i \in DOMAIN observers[Topic(u)], NEW v \in Tasks, v = observers[Topic(u)][i],
                     NEW m \in Topics, m = Topic(u), ~Answering(v, m)
              PROVE  ~Answering(observers[Topic(u)][i], Topic(u))'
          <6>1. ~Answering(v, m)'
            BY <2>1, <5>1
          <6>2. observers'[Topic(u)'][i] = v /\ Topic(u)' = m
            BY <2>1, <3>1, <5>1
          <6> QED BY <6>1, <6>2
        <5> QED BY <4>1, <5>1
      <4> QED BY <1>0, <2>1, <3>1, <3>2, <4>2 DEF Turn
    <3> QED BY <2>1, <2>2, <3>1, <3>3 DEF Exact, Notifying
  <2> QED BY <2>2 DEF Notifying
<1>2. ASSUME NEW t \in Tasks, Inside(t) PROVE Notifying'
  <2>1. \A u \in Tasks : pc'[u] \in Looping => u = t
    BY <1>2, InsideFrame DEF Looping, Critical
  <2>2. ASSUME pc'[t] \in Looping
        PROVE  /\ (owed[Topic(t)] = Elems(observers[Topic(t)]))'
               /\ \E k \in DOMAIN observers'[Topic(t)'] : Turn(t, Topic(t), k)'
    <3>1. ~AttachLink(t)
      <4>1. AttachLink(t) => pc'[t] = "seal"
        BY DEF AttachLink, Goto, Safe, Typed, TypeOK
      <4> QED BY <2>2, <4>1 DEF Looping
    <3>2. UNCHANGED observers /\ Topic(t)' = Topic(t)
      BY <1>2, <3>1, InsideObservers, InsideFrame
    <3>3. PICK n \in Topics : n = Topic(t)
      BY <1>0
    <3>4. PICK s \in Seq(Tasks) : s = observers[n]
      BY <1>0, <3>3
    <3>5. owed'[n] = Elems(s) /\ \E k \in DOMAIN s : Turned(t, n, s, k)
      BY <1>2, <2>2, <3>3, <3>4, TurnKept
    <3>6. Topic(t)' = n /\ observers'[n] = s
      BY <3>2, <3>3, <3>4
    <3>7. ASSUME NEW k \in DOMAIN s, Turned(t, n, s, k) PROVE Turn(t, n, k)'
      BY <3>6, <3>7 DEF Turn, Turned
    <3>8. ASSUME NEW k \in DOMAIN s, Turn(t, n, k)' PROVE Turn(t, Topic(t), k)'
      BY <3>6, <3>8 DEF Turn
    <3> QED BY <3>5, <3>6, <3>7, <3>8
  <2> QED BY <2>1, <2>2 DEF Notifying
<1>3. CASE UNCHANGED <<observers, raw, cursor, count, data, holder, flags, local, hist>>
  BY <1>3, ExactStutters DEF Exact
<1> QED
  BY <1>1, <1>2, <1>3, Cases

-----------------------------------------------------------------------------
(* The theorems. *)

LEMMA InitExact == Init => Exact
<1> SUFFICES ASSUME Init PROVE Exact
  OBVIOUS
<1>1. \A t \in Tasks : pc[t] = "idle"
  BY DEF Init
<1>2. KindOfLabel /\ Notifying
  BY <1>1 DEF KindOfLabel, Notifying, Looping
<1>3. Attached
  BY <1>1 DEF Init, Attached, Elems
<1>4. Owes
  BY <1>1 DEF Init, Owes, Answering, InAnswer
<1>5. Counted
  <2>1. \A n \in Topics : owed[n] = {} /\ count[n] = 0
    BY DEF Init
  <2> QED BY <1>1, <2>1, FS_EmptySet DEF Counted
<1> QED
  BY <1>2, <1>3, <1>4, <1>5 DEF Exact

LEMMA NextExact == Locked /\ Safe /\ Exact /\ [Next]_vars => Exact'
<1> SUFFICES ASSUME Locked, Safe, Exact, [Next]_vars PROVE Exact'
  OBVIOUS
<1>1. KindOfLabel' /\ Attached'
  BY KindKept, AttachedKept DEF Exact
<1>2. Owes' /\ Counted' /\ Notifying'
  BY OwesKept, CountedKept, NotifyingKept
<1> QED
  BY <1>1, <1>2 DEF Exact

LEMMA SpecExact == ASSUME Locked PROVE Spec => [](Safe /\ Exact)
<1>1. Safe /\ Exact /\ [Next]_vars => Safe' /\ Exact'
  BY NextSafe, NextExact
<1> QED
  BY <1>1, InitSafe, InitExact, PTL DEF Spec

\* With the mutex Topic::count is the number of observers that still have to
\* mark the update consumed, whenever no task is at the counter.
THEOREM CountsExact == ASSUME Locked PROVE Spec => []CountExact
<1>1. Safe /\ Exact => CountExact
  BY DEF Exact, Counted, CountExact, Quiet, Looping
<1> QED
  BY <1>1, SpecExact, PTL

\* What a publisher announces is a value it has written to its buffer.
Prepared ==
  \A t \in Tasks :
    /\ call[t].kind = "publish" => buf[t] \in Values
    /\ pc[t] = "store" => call[t].kind = "publish"

LEMMA NextPrepared == TypeOK /\ Prepared /\ [Next]_vars => Prepared'
<1> SUFFICES ASSUME TypeOK, Prepared, [Next]_vars PROVE Prepared'
  OBVIOUS
<1>0. /\ pc \in [Tasks -> Labels] /\ buf \in [Tasks -> Values \union {None}]
      /\ call \in [Tasks -> [kind : Kinds, topic : Topics]]
  BY DEF TypeOK
<1>1. ASSUME NEW t \in Tasks, NEW n \in Topics, NEW v \in Values, CallPublish(t, n, v)
      PROVE  Prepared'
  BY <1>0, <1>1 DEF CallPublish, Begin, Goto, Prepared
<1>2. ASSUME NEW t \in Tasks, NEW n \in Topics, Wake(t, n) \/ CallAttach(t, n) PROVE Prepared'
  <2>1. UNCHANGED buf /\ \E k \in {"attach", "getTopicData"} : Begin(t, k, n)
    BY <1>2 DEF Wake, CallAttach
  <2> QED BY <1>0, <2>1 DEF Begin, Goto, Prepared
<1>3. ASSUME NEW t \in Tasks, Fetch(t) PROVE Prepared'
  BY <1>0, <1>3 DEF Fetch, Begin, Goto, Prepared
<1>4. ASSUME NEW t \in Tasks, Step(t), ~Fetch(t) PROVE Prepared'
  <2>1. UNCHANGED <<call, buf>> /\ \A u \in Tasks \ {t} : pc'[u] = pc[u]
    BY <1>0, <1>4 DEF Step, FindFirst, FindNext, FindStep, NotFound, PublishCheck, PublishStore,
       CountLoad, CountStore, Notify, NextObserver, StepObserver, AttachLink, AttachSeal,
       GetTopicData, Consumed, ConsumedStore, Compare, Loop, Return, Goto, shared
  <2>2. CASE PublishCheck(t)
    <3>1. call[t].kind = "publish"
      BY <2>2 DEF PublishCheck, In
    <3> QED BY <2>1, <3>1 DEF Prepared
  <2>3. CASE ~PublishCheck(t)
    <3>1. pc'[t] # "store"
      BY <1>0, <1>4, <2>3 DEF Step, FindFirst, FindNext, FindStep, NotFound, PublishStore,
         CountLoad, CountStore, Notify, NextObserver, StepObserver, AttachLink, AttachSeal,
         GetTopicData, Consumed, ConsumedStore, Compare, Loop, Return, Goto
    <3> QED BY <2>1, <3>1 DEF Prepared
  <2> QED BY <2>2, <2>3
<1>5. CASE InstallTopic \/ UNCHANGED vars
  BY <1>5 DEF InstallTopic, vars, local, Prepared
<1> QED
  BY <1>1, <1>2, <1>3, <1>4, <1>5 DEF Next

\* Every step of the broker is one of the atomic broker, or none.
LEMMA StepRefines ==
  ASSUME Locked, Safe, Exact, Prepared, [Next]_vars
  PROVE  [Promise!Next]_(Promise!vars)
<1> DEFINE sub == [n \in Topics |-> Elems(observers[n])]
<1>0. /\ observers \in [Topics -> Seq(Tasks)] /\ owed \in [Topics -> SUBSET Tasks]
      /\ \A t \in Tasks : Topic(t) \in Topics
  BY DEF Safe, Typed, TypeOK, Topic
<1>1. CASE UNCHANGED <<observers, hist>>
  BY <1>1 DEF Promise!vars, hist
<1>2. ASSUME NEW t \in Tasks, AttachLink(t) PROVE \E n \in Topics : Promise!Subscribe(t, n)
  <2>1. PICK n \in Topics : n = Topic(t)
    BY <1>0
  <2>2. /\ observers' = [observers EXCEPT ![n] = Append(observers[n], t)]
        /\ Elems(observers'[n]) = Elems(observers[n]) \union {t}
    BY <1>2, <2>1, LinkAppends
  <2>3. sub' = [sub EXCEPT ![n] = @ \union {t}]
    BY <1>0, <2>2
  <2>4. UNCHANGED <<owed, latest>>
    BY <1>2 DEF AttachLink, hist
  <2> QED BY <2>3, <2>4 DEF Promise!Subscribe
<1>3. ASSUME NEW t \in Tasks, PublishStore(t)
      PROVE  \E n \in Topics, v \in Values : Promise!Accept(n, v)
  <2>1. PICK n \in Topics : n = Topic(t)
    BY <1>0
  <2>2. pc[t] = "store" /\ Inside(t)
    BY <1>3 DEF PublishStore, At, Inside, Step, Fetch
  <2>3. \A u \in Tasks : pc[u] \in Looping => Topic(u) # n
    BY <2>2, InsideFrame DEF Looping, Critical
  <2>4. owed[n] = {}
    BY <2>1, <2>2, <2>3, FS_EmptySet DEF Exact, Counted
  <2>5. owed' = [owed EXCEPT ![n] = Elems(observers[n])] /\ UNCHANGED observers
    BY <1>3, <2>1 DEF PublishStore
  <2>6. owed' = [owed EXCEPT ![n] = sub[n]] /\ UNCHANGED sub
    BY <2>5
  <2>7. PICK v \in Values : v = buf[t]
    BY <2>2 DEF Prepared
  <2>8. latest' = [latest EXCEPT ![n] = v]
    BY <1>3, <2>1, <2>7 DEF PublishStore
  <2> QED BY <2>4, <2>6, <2>8 DEF Promise!Accept
<1>4. ASSUME NEW t \in Tasks, Consumed(t) \/ ConsumedStore(t), ~UNCHANGED owed
      PROVE  \E n \in Topics : Promise!Consume(t, n)
  <2>1. PICK n \in Topics : n = Topic(t)
    BY <1>0
  <2>2. owed' = [owed EXCEPT ![n] = @ \ {t}] /\ UNCHANGED <<observers, latest>>
    BY <1>4, <2>1 DEF Consumed, ConsumedStore, Answered, hist
  <2>3. t \in owed[n]
    BY <1>4, <2>1, AnswerCounted
  <2> QED BY <2>2, <2>3 DEF Promise!Consume
<1>5. ASSUME NEW t \in Tasks, Aside(t) PROVE UNCHANGED <<observers, hist>>
  BY <1>5, AsideFrame DEF Exact, hist
<1>6. ASSUME NEW t \in Tasks, Inside(t),
             ~(AttachLink(t) \/ PublishStore(t) \/ Consumed(t) \/ ConsumedStore(t))
      PROVE  UNCHANGED <<observers, hist>>
  <2>1. UNCHANGED <<observers, owed>>
    BY <1>6, InsideObservers, InsideWrites
  <2>2. UNCHANGED latest
    BY <1>6 DEF Inside, Step, FindFirst, FindNext, FindStep, NotFound, PublishCheck, CountLoad,
       CountStore, Notify, NextObserver, StepObserver, AttachSeal, GetTopicData, shared, hist
  <2> QED BY <2>1, <2>2 DEF hist
<1>7. ASSUME NEW t \in Tasks, Consumed(t) \/ ConsumedStore(t), UNCHANGED owed
      PROVE  UNCHANGED <<observers, hist>>
  BY <1>7 DEF Consumed, ConsumedStore, Answered, hist
<1>8. \/ UNCHANGED <<observers, hist>>
      \/ \E n \in Topics, v \in Values : Promise!Accept(n, v)
      \/ \E t \in Tasks, n \in Topics : Promise!Subscribe(t, n) \/ Promise!Consume(t, n)
  BY <1>2, <1>3, <1>4, <1>5, <1>6, <1>7, Cases DEF hist
<1> QED
  BY <1>1, <1>8 DEF Promise!Next

\* With the mutex the broker implements the atomic one of module Broker: an
\* accepted update is owed to exactly the tasks attached at that moment, and stays
\* the accepted one until each of them has consumed it.
THEOREM BrokerRefines == ASSUME Locked PROVE Spec => ImplementsBroker
<1>1. Init => Promise!Init
  BY DEF Init, Promise!Init, Elems
<1>2. Safe /\ Exact /\ Prepared /\ [Next]_vars => [Promise!Next]_(Promise!vars)
  BY StepRefines
<1>3. Init => Prepared
  BY DEF Init, Prepared
<1>4. Safe => TypeOK
  BY DEF Safe, Typed
<1>5. Spec => []Prepared
  BY <1>3, <1>4, NextPrepared, SpecExact, PTL DEF Spec
<1> QED
  BY <1>1, <1>2, <1>5, SpecExact, PTL DEF Spec, ImplementsBroker, Promise!Spec

-----------------------------------------------------------------------------
(* The code as it is, in the configuration of main: MUTEX_LOCK is empty, but one task   *)
(* publishes and one of lower priority subscribes, so that a call of the publisher is    *)
(* over before the subscriber goes on, wherever it was.                                  *)

OneAbove(p, s) ==
  /\ ~Locked
  /\ Publishers \subseteq {p} \X Topics /\ Subscribers \subseteq {s} \X Topics
  /\ Prio[p] > Prio[s]

\* In findTopic.
Walking == {"enter", "next", "step", "found", "missing"}

\* What the two tasks do, and that no other does anything.
Roles(p, s) ==
  /\ \A t \in Tasks : t # p /\ t # s => pc[t] = "idle"
  /\ \A t \in Tasks, n \in Topics : <<t, n>> \in flags => t = s
  /\ pc[p] \in Walking \union Looping \union {"idle", "store", "fault"}
  /\ pc[p] # "idle" => call[p].kind = "publish"
  /\ pc[s] \in Walking \union {"idle", "seal", "fetch", "dec", "fault"}
  /\ pc[s] # "idle" => call[s].kind # "publish"

\* The subscriber is in a list once it has been through attach, and only once.
Single(s) ==
  /\ \A n \in Topics : observers[n] \in {<<>>, <<s>>}
  /\ \A n \in Topics :
       \/ <<s, n>> \notin tried
       \/ call[s].kind = "attach" /\ Topic(s) = n /\ pc[s] \in Walking
       => observers[n] = <<>>
  /\ \A u \in Tasks, n \in Topics : <<u, n>> \in raw => u = s /\ pc[s] = "seal" /\ n = Topic(s)
  /\ call[s].kind = "attach" /\ pc[s] \in Walking => <<s, Topic(s)>> \in tried

\* The publisher is in the notification loop of n, or has crashed there.
Within(p, n) == Topic(p) = n /\ pc[p] \in Looping \union {"fault"}

\* The counter counts the one answer that may be owed; a subscriber preempted between its
\* load and its store finds it as it was, as no update is accepted meanwhile.
Tallied(p, s) ==
  /\ \A n \in Topics : owed[n] \in {{}, {s}}
  /\ \A n \in Topics : ~Within(p, n) => count[n] = IF owed[n] = {} THEN 0 ELSE 1
  /\ pc[p] = "store" => count[Topic(p)] = 0
  /\ pc[s] = "dec" => reg[s] = 1 /\ count[Topic(s)] = 1
  /\ pc[s] = "dec" /\ pc[p] \in Looping => Topic(p) # Topic(s)

\* The only turn of the loop.
OneTurn(p, s) ==
  \A n \in Topics : Topic(p) = n /\ pc[p] \in Looping =>
    /\ owed[n] = {s} /\ observers[n] = <<s>> /\ cursor[n] = s
    /\ count[n] = IF pc[p] \in {"load", "inc"} THEN 0 ELSE 1
    /\ pc[p] \in {"load", "inc", "notify"} => at[p] = s
    /\ pc[p] = "inc" => reg[p] = 0
    /\ pc[p] = "stepobs" => at[p] = None

Pair(p, s) == Typed /\ Roles(p, s) /\ Single(s) /\ Tallied(p, s) /\ OneTurn(p, s)

LEMMA OfOne ==
  ASSUME NEW s
  PROVE  /\ Elems(<<>>) = {} /\ Elems(<<s>>) = {s} /\ First(<<>>) = None /\ First(<<s>>) = s
         /\ After(<<s>>, s) = None /\ Append(<<>>, s) = <<s>> /\ <<s>> # <<>>
<1>1. Len(<<s>>) = 1 /\ DOMAIN <<s>> = {1} /\ <<s>>[1] = s /\ <<s>> # <<>> /\ DOMAIN <<>> = {}
  OBVIOUS
<1>2. Elems(<<>>) = {} /\ Elems(<<s>>) = {s}
  BY <1>1 DEF Elems
<1>3. First(<<>>) = None /\ First(<<s>>) = s
  BY <1>1 DEF First
<1>4. After(<<s>>, s) = None
  <2>1. (CHOOSE j \in DOMAIN <<s>> : <<s>>[j] = s) = 1
    BY <1>1
  <2> QED
    BY <1>1, <2>1 DEF After
<1> QED
  BY <1>1, <1>2, <1>3, <1>4

\* A step is one of the publisher, or one of the subscriber while the publisher rests.
LEMMA PairActs ==
  ASSUME NEW p \in Tasks, NEW s \in Tasks, OneAbove(p, s), Pair(p, s),
         NEW t \in Tasks, Step(t) \/ Calls(t)
  PROVE  /\ t = p \/ t = s
         /\ t = s => pc[p] = "idle"
         /\ \A u \in Tasks : pc[u] # "fault"
         /\ Calls(p) /\ t = p => \E n \in Topics, v \in Values : CallPublish(p, n, v)
         /\ Calls(s) /\ t = s => \E n \in Topics : Wake(s, n) \/ CallAttach(s, n)
<1>1. Running(t)
  BY DEF Step, Calls, Wake, CallAttach, CallPublish, FindFirst, FindNext, FindStep, NotFound,
     PublishCheck, PublishStore, CountLoad, CountStore, Notify, NextObserver, StepObserver,
     AttachLink, AttachSeal, GetTopicData, Fetch, Consumed, ConsumedStore, At, In
<1>2. t = s => pc[p] = "idle"
  BY <1>1 DEF Running, Ready, OneAbove
<1>3. t = p \/ t = s
  <2>1. CASE Step(t)
    BY <2>1, StepFrame DEF Pair, Roles
  <2>2. CASE Calls(t)
    BY <2>2 DEF Calls, Wake, CallAttach, CallPublish, OneAbove, Pair, Roles
  <2> QED
    BY <2>1, <2>2
<1>4. p # s
  BY ConfigAssumption DEF OneAbove
<1>5. Calls(p) => \E n \in Topics, v \in Values : CallPublish(p, n, v)
  BY <1>4 DEF Calls, Wake, CallAttach, OneAbove, Pair, Roles
<1>6. Calls(s) => \E n \in Topics : Wake(s, n) \/ CallAttach(s, n)
  BY <1>4 DEF Calls, CallPublish, OneAbove
<1> QED
  BY <1>1, <1>2, <1>3, <1>5, <1>6 DEF Running, Halted

\* A call begins.
LEMMA CallPair ==
  ASSUME NEW p \in Tasks, NEW s \in Tasks, OneAbove(p, s), Pair(p, s),
         NEW t \in Tasks, Calls(t), Typed'
  PROVE  Pair(p, s)'
<1>0. /\ p # s /\ pc \in [Tasks -> Labels] /\ call \in [Tasks -> [kind : Kinds, topic : Topics]]
      /\ \A n \in Topics : observers[n] \in {<<>>, <<s>>}
  <2>1. p # s
    BY ConfigAssumption DEF OneAbove
  <2> QED
    BY <2>1 DEF Pair, Typed, TypeOK, Single
<1>a. /\ t = p \/ t = s
      /\ t = s => pc[p] = "idle"
      /\ t = p => \E n \in Topics, v \in Values : CallPublish(p, n, v)
      /\ t = s => \E n \in Topics : Wake(s, n) \/ CallAttach(s, n)
  BY PairActs
<1>1. /\ pc[t] = "idle" /\ pc'[t] = "enter" /\ flags' \subseteq flags
      /\ UNCHANGED <<observers, raw, cursor, count, at>>
      /\ \A u \in Tasks \ {t} : pc'[u] = pc[u] /\ call'[u] = call[u] /\ Topic(u)' = Topic(u)
  BY CallFrame DEF Pair, Topic
<1>2. UNCHANGED <<reg, hist>>
  BY DEF Calls, Wake, CallAttach, CallPublish
<1>3. owed' = owed
  BY <1>2 DEF hist
<1>4. CASE t = p
  <2>1. UNCHANGED tried /\ call'[p].kind = "publish"
    <3>1. PICK n \in Topics, v \in Values : CallPublish(p, n, v)
      BY <1>a, <1>4
    <3> QED
      BY <1>0, <3>1 DEF CallPublish, Begin
  <2>2. /\ pc'[s] = pc[s] /\ call'[s] = call[s] /\ Topic(s)' = Topic(s) /\ pc'[p] = "enter"
        /\ \A n \in Topics : ~Within(p, n) /\ ~Within(p, n)'
    BY <1>0, <1>1, <1>4 DEF Within, Looping
  <2>3. Roles(p, s)'
    BY <1>0, <1>1, <1>4, <2>1, <2>2 DEF Roles, Pair, Walking
  <2>4. Single(s)'
    BY <1>1, <2>1, <2>2 DEF Single, Pair
  <2>5. Tallied(p, s)' /\ OneTurn(p, s)'
    BY <1>1, <1>2, <1>3, <2>2 DEF Tallied, OneTurn, Pair, Looping
  <2> QED
    BY <2>3, <2>4, <2>5 DEF Pair
<1>5. CASE t = s
  <2>1. /\ pc'[s] = "enter" /\ pc[p] = "idle" /\ pc'[p] = "idle" /\ Topic(p)' = Topic(p)
        /\ call'[p] = call[p] /\ pc[s] = "idle"
    BY <1>0, <1>a, <1>1, <1>5
  <2>2. PICK n \in Topics : Wake(s, n) \/ CallAttach(s, n)
    BY <1>a, <1>5
  <2>3. /\ call'[s].kind # "publish" /\ \A x \in tried : x \in tried'
        /\ call'[s].kind = "attach" =>
             <<s, Topic(s)'>> \notin tried /\ <<s, Topic(s)'>> \in tried' /\ Topic(s)' \in Topics
    BY <1>0, <2>2 DEF Wake, CallAttach, Begin, Topic
  <2>4. Roles(p, s)'
    BY <1>0, <1>1, <1>5, <2>1, <2>3 DEF Roles, Pair, Walking
  <2>5. Single(s)'
    BY <1>1, <2>1, <2>3 DEF Single, Pair
  <2>6. Tallied(p, s)' /\ OneTurn(p, s)'
    BY <1>1, <1>2, <1>3, <2>1 DEF Tallied, OneTurn, Pair, Looping, Within
  <2> QED
    BY <2>4, <2>5, <2>6 DEF Pair
<1> QED
  BY <1>a, <1>4, <1>5


\* A step of the publisher leaves what is the subscriber's.
LEMMA PublisherFrame ==
  ASSUME NEW p \in Tasks, NEW s \in Tasks, OneAbove(p, s), Pair(p, s), Step(p)
  PROVE  /\ p # s /\ Topic(p) \in Topics /\ pc[p] \notin {"idle", "fault"}
         /\ call[p].kind = "publish" /\ UNCHANGED <<observers, raw, tried, call>>
         /\ reg'[s] = reg[s] /\ \A u \in Tasks \ {p} : pc'[u] = pc[u]
         /\ \/ FindFirst(p) \/ FindNext(p) \/ FindStep(p) \/ NotFound(p)
            \/ PublishCheck(p) \/ PublishStore(p) \/ CountLoad(p) \/ CountStore(p)
            \/ Notify(p) \/ NextObserver(p) \/ StepObserver(p)
<1>1. p # s
  BY ConfigAssumption DEF OneAbove
<1>2. /\ pc[p] \notin {"idle", "fault"} /\ \A u \in Tasks \ {p} : pc'[u] = pc[u]
      /\ Topic(p) \in Topics
  BY StepFrame DEF Pair, Typed, TypeOK, Topic
<1>3. call[p].kind = "publish" /\ pc[p] \notin {"seal", "fetch", "dec"}
  BY <1>2 DEF Pair, Roles, Walking, Looping
<1>4. \/ FindFirst(p) \/ FindNext(p) \/ FindStep(p) \/ NotFound(p)
      \/ PublishCheck(p) \/ PublishStore(p) \/ CountLoad(p) \/ CountStore(p)
      \/ Notify(p) \/ NextObserver(p) \/ StepObserver(p)
  BY <1>3 DEF Step, AttachLink, AttachSeal, GetTopicData, Fetch, Consumed, ConsumedStore, In, At
<1>5. UNCHANGED <<observers, raw, tried, call>> /\ (reg' = reg \/ \E x : reg' = [reg EXCEPT ![p] = x])
  BY <1>4 DEF FindFirst, FindNext, FindStep, NotFound, PublishCheck, PublishStore, CountLoad,
     CountStore, Notify, NextObserver, StepObserver, shared
<1>6. reg'[s] = reg[s]
  BY <1>1, <1>5 DEF Pair, Typed, TypeOK
<1> QED
  BY <1>1, <1>2, <1>3, <1>4, <1>5, <1>6

LEMMA PublisherPair ==
  ASSUME NEW p \in Tasks, NEW s \in Tasks, OneAbove(p, s), Pair(p, s), Step(p), Typed'
  PROVE  Pair(p, s)'
<1> DEFINE n == Topic(p)
<1>0. /\ p # s /\ n \in Topics /\ pc[p] \notin {"idle", "fault"}
      /\ call[p].kind = "publish" /\ UNCHANGED <<observers, raw, tried, call>>
      /\ reg'[s] = reg[s] /\ (\A u \in Tasks \ {p} : pc'[u] = pc[u])
      /\ \/ FindFirst(p) \/ FindNext(p) \/ FindStep(p) \/ NotFound(p)
         \/ PublishCheck(p) \/ PublishStore(p) \/ CountLoad(p) \/ CountStore(p)
         \/ Notify(p) \/ NextObserver(p) \/ StepObserver(p)
  BY PublisherFrame
<1>1. /\ pc \in [Tasks -> Labels] /\ reg \in [Tasks -> Nat] /\ owed \in [Topics -> SUBSET Tasks]
      /\ count \in [Topics -> Nat] /\ cursor \in [Topics -> Tasks \union {None}]
      /\ at \in [Tasks -> Tasks \union Topics \union {None}] /\ None \notin Tasks
  BY ConfigAssumption DEF Pair, Typed, TypeOK
<1>2. /\ pc'[s] = pc[s] /\ (\A u \in Tasks : Topic(u)' = Topic(u))
      /\ \A m \in Topics : m # n => ~Within(p, m) /\ ~Within(p, m)'
  BY <1>0 DEF Topic, Within
<1>3. Single(s)'
  BY <1>0, <1>2 DEF Single, Pair
\* What is left to show of each action.
<1>4. ASSUME pc'[p] \in Walking \union Looping \union {"idle", "store", "fault"},
             \A u \in Tasks, m \in Topics : <<u, m>> \in flags' => u = s
      PROVE  Roles(p, s)'
  BY <1>0, <1>2, <1>4 DEF Roles, Pair
<1>5. ASSUME /\ UNCHANGED <<count, owed>> /\ pc[p] \in Walking /\ pc'[p] \in Walking \union {"idle", "store"}
             /\ pc'[p] = "store" => count[n] = 0
      PROVE  Tallied(p, s)' /\ OneTurn(p, s)'
  <2>1. ~Within(p, n) /\ ~Within(p, n)' /\ pc'[p] \notin Looping
    BY <1>5 DEF Within, Walking, Looping
  <2> QED
    BY <1>0, <1>2, <1>5, <2>1 DEF Tallied, OneTurn, Pair
<1>6. CASE FindFirst(p) \/ FindNext(p) \/ FindStep(p) \/ NotFound(p) \/ PublishCheck(p)
  <2>1. /\ UNCHANGED <<count, owed, flags>> /\ pc[p] \in Walking
        /\ pc'[p] \in {"next", "step", "found", "missing", "idle", "store"}
        /\ pc'[p] = "store" => count[n] = 0
    BY <1>0, <1>1, <1>6 DEF FindFirst, FindNext, FindStep, NotFound, PublishCheck, PublishPending, Compare,
       Goto, Return, At, In, Walking, shared, hist
  <2>2. pc'[p] \in Walking \union {"idle", "store"}
    BY <2>1 DEF Walking
  <2>3. Roles(p, s)'
    BY <1>4, <2>1, <2>2 DEF Pair, Roles
  <2> QED
    BY <1>3, <1>5, <2>1, <2>2, <2>3 DEF Pair
\* The update is accepted: nobody owed an answer.
<1>7. CASE PublishStore(p)
  <2> DEFINE o == First(observers[n])
  <2>1. pc[p] = "store" /\ count[n] = 0 /\ ~Within(p, n)
    BY <1>7 DEF PublishStore, At, Pair, Tallied, Within, Looping
  <2>2. /\ cursor'[n] = o /\ at'[p] = o /\ owed'[n] = Elems(observers[n])
        /\ UNCHANGED <<count, flags, reg>> /\ pc'[p] = (IF o = None THEN "idle" ELSE "load")
        /\ \A m \in Topics : m # n => owed'[m] = owed[m] /\ cursor'[m] = cursor[m]
    BY <1>0, <1>1, <1>7 DEF PublishStore, Loop, Return, Goto
  <2>3. Roles(p, s)'
    BY <1>4, <2>2 DEF Pair, Roles, Looping
  <2>4. \/ observers[n] = <<>> /\ o = None /\ owed'[n] = {}
        \/ observers[n] = <<s>> /\ o = s /\ owed'[n] = {s}
    BY <1>0, <2>2, OfOne DEF Pair, Single
  <2> HIDE DEF o
  <2>5. Tallied(p, s)'
    <3>1. pc[s] = "dec" => Topic(s) # n
      BY <2>1 DEF Pair, Tallied
    <3>2. ~Within(p, n)' => owed'[n] = {}
      BY <1>1, <1>2, <2>2, <2>4 DEF Within, Looping
    <3>3. \A m \in Topics : owed'[m] \in {{}, {s}}
      BY <2>2, <2>4 DEF Pair, Tallied
    <3>4. \A m \in Topics : ~Within(p, m)' => count'[m] = IF owed'[m] = {} THEN 0 ELSE 1
      BY <1>2, <2>1, <2>2, <3>2 DEF Pair, Tallied
    <3> QED
      BY <1>0, <1>2, <2>2, <3>1, <3>3, <3>4 DEF Pair, Tallied
  <2>6. OneTurn(p, s)'
    BY <1>0, <1>1, <1>2, <2>1, <2>2, <2>4 DEF OneTurn, Looping
  <2> QED
    BY <1>3, <2>3, <2>5, <2>6 DEF Pair
\* Inside the loop.
<1>8. ASSUME pc[p] \in Looping
      PROVE  /\ owed[n] = {s} /\ observers[n] = <<s>> /\ cursor[n] = s /\ Within(p, n)
             /\ count[n] = IF pc[p] \in {"load", "inc"} THEN 0 ELSE 1
             /\ pc[p] \in {"load", "inc", "notify"} => at[p] = s
             /\ pc[p] = "inc" => reg[p] = 0
             /\ pc[p] = "stepobs" => at[p] = None
             /\ pc[s] = "dec" => n # Topic(s)
  BY <1>0, <1>8 DEF Pair, OneTurn, Tallied, Within
<1>9. ASSUME pc[p] \in Looping, owed' = owed, pc'[p] \in Looping \union {"idle", "fault"},
             \A m \in Topics : m # n => count'[m] = count[m],
             pc'[p] = "idle" => count'[n] = 1
      PROVE  Tallied(p, s)'
  <2>1. owed'[n] = {s} /\ (pc[s] = "dec" => n # Topic(s))
    BY <1>8, <1>9
  <2>2. pc'[p] # "store" /\ (~Within(p, n)' => count'[n] = 1)
    BY <1>2, <1>9 DEF Within, Looping
  <2>3. \A m \in Topics : ~Within(p, m)' => count'[m] = IF owed'[m] = {} THEN 0 ELSE 1
    BY <1>2, <1>9, <2>1, <2>2 DEF Pair, Tallied
  <2>4. pc[s] = "dec" => count'[Topic(s)] = 1
    <3>1. Topic(s) \in Topics
      BY DEF Pair, Typed, TypeOK, Topic
    <3> QED
      BY <1>9, <2>1, <3>1 DEF Pair, Tallied
  <2> QED
    BY <1>0, <1>2, <1>9, <2>1, <2>2, <2>3, <2>4 DEF Pair, Tallied
<1>10. CASE CountLoad(p)
  <2>1. /\ pc[p] = "load" /\ pc'[p] = "inc" /\ UNCHANGED <<count, owed, cursor, at, flags>>
        /\ reg'[p] = count[n]
    BY <1>1, <1>10 DEF CountLoad, At, Goto, shared, hist
  <2>2. Roles(p, s)' /\ Tallied(p, s)'
    BY <1>4, <1>9, <2>1 DEF Pair, Roles, Looping
  <2>3. OneTurn(p, s)'
    BY <1>0, <1>2, <1>8, <2>1 DEF OneTurn, Looping
  <2> QED
    BY <1>3, <2>2, <2>3 DEF Pair
<1>11. CASE CountStore(p)
  <2>1. /\ pc[p] = "inc" /\ pc'[p] = "notify" /\ UNCHANGED <<owed, cursor, at, flags>>
        /\ count' = [count EXCEPT ![n] = reg[p] + 1]
    BY <1>1, <1>11 DEF CountStore, At, Goto, hist
  <2>2. reg[p] = 0
    BY <1>8, <2>1 DEF Looping
  <2>3. count'[n] = 1 /\ \A m \in Topics : m # n => count'[m] = count[m]
    BY <1>0, <1>1, <2>1, <2>2
  <2>4. Roles(p, s)' /\ Tallied(p, s)'
    BY <1>4, <1>9, <2>1, <2>3 DEF Pair, Roles, Looping
  <2>5. OneTurn(p, s)'
    BY <1>0, <1>2, <1>8, <2>1, <2>3 DEF OneTurn, Looping
  <2> QED
    BY <1>3, <2>4, <2>5 DEF Pair
<1>12. CASE Notify(p)
  <2>1. /\ pc[p] = "notify" /\ pc'[p] = "nextobs" /\ UNCHANGED <<count, owed, cursor, at>>
        /\ flags' = flags \union {<<at[p], n>>}
    BY <1>1, <1>12 DEF Notify, At, Goto, hist
  <2>2. at[p] = s
    BY <1>8, <2>1 DEF Looping
  <2>3. \A u \in Tasks, m \in Topics : <<u, m>> \in flags' => u = s
    BY <2>1, <2>2 DEF Pair, Roles
  <2>4. Roles(p, s)' /\ Tallied(p, s)'
    BY <1>4, <1>9, <2>1, <2>3 DEF Looping
  <2>5. OneTurn(p, s)'
    BY <1>0, <1>2, <1>8, <2>1 DEF OneTurn, Looping
  <2> QED
    BY <1>3, <2>4, <2>5 DEF Pair
<1>13. CASE NextObserver(p)
  <2>1. pc[p] = "nextobs" /\ UNCHANGED <<count, owed, cursor, flags>>
    BY <1>13 DEF NextObserver, At, hist
  <2>2. count[n] = 1 /\ cursor[n] = s /\ observers[n] = <<s>> /\ owed[n] = {s}
    BY <1>8, <2>1 DEF Looping
  <2>3. \/ pc'[p] = "fault"
        \/ pc'[p] = "stepobs" /\ at'[p] = None
    <3>1. cursor[n] # None /\ After(observers[n], cursor[n]) = None
      BY <1>1, <2>2, OfOne
    <3> QED
      BY <1>1, <1>13, <3>1 DEF NextObserver, Goto
  <2>4. Roles(p, s)' /\ Tallied(p, s)'
    <3>1. Roles(p, s)'
      BY <1>4, <2>1, <2>3 DEF Pair, Roles, Looping
    <3>2. Tallied(p, s)'
      BY <1>9, <2>1, <2>3 DEF Looping
    <3> QED
      BY <3>1, <3>2
  <2>5. OneTurn(p, s)'
    BY <1>0, <1>2, <2>1, <2>2, <2>3 DEF OneTurn, Looping
  <2> QED
    BY <1>3, <2>4, <2>5 DEF Pair
<1>14. CASE StepObserver(p)
  <2>1. pc[p] = "stepobs" /\ UNCHANGED <<count, owed, flags>>
    BY <1>14 DEF StepObserver, At, hist
  <2>2. at[p] = None /\ count[n] = 1
    BY <1>8, <2>1 DEF Looping
  <2>3. pc'[p] = "idle"
    BY <1>1, <1>14, <2>2 DEF StepObserver, Loop, Return, Goto
  <2>4. Roles(p, s)' /\ Tallied(p, s)'
    BY <1>4, <1>9, <2>1, <2>2, <2>3 DEF Pair, Roles, Looping
  <2>5. OneTurn(p, s)'
    BY <2>3 DEF OneTurn, Looping
  <2> QED
    BY <1>3, <2>4, <2>5 DEF Pair
<1> QED
  BY <1>0, <1>6, <1>7, <1>10, <1>11, <1>12, <1>13, <1>14


\* A step of the subscriber finds the publisher at rest.
LEMMA SubscriberFrame ==
  ASSUME NEW p \in Tasks, NEW s \in Tasks, OneAbove(p, s), Pair(p, s), Step(s)
  PROVE  /\ p # s /\ Topic(s) \in Topics /\ pc[s] \notin {"idle", "fault"}
         /\ call[s].kind # "publish" /\ UNCHANGED <<flags, tried>>
         /\ pc[p] = "idle" /\ pc'[p] = "idle" /\ call'[p] = call[p] /\ Topic(p)' = Topic(p)
         /\ \A u \in Tasks \ {s} : pc'[u] = pc[u]
         /\ \/ FindFirst(s) \/ FindNext(s) \/ FindStep(s) \/ NotFound(s)
            \/ AttachLink(s) \/ AttachSeal(s) \/ GetTopicData(s) \/ Fetch(s)
            \/ Consumed(s) \/ ConsumedStore(s)
<1>1. p # s /\ pc[p] = "idle"
  <2>1. p # s
    BY ConfigAssumption DEF OneAbove
  <2> QED
    BY <2>1, PairActs
<1>2. /\ pc[s] \notin {"idle", "fault"} /\ \A u \in Tasks \ {s} : pc'[u] = pc[u] /\ call'[u] = call[u]
      /\ Topic(s) \in Topics
  BY StepFrame DEF Pair, Typed, TypeOK, Topic
<1>3. call[s].kind # "publish" /\ pc[s] \in Walking \union {"seal", "fetch", "dec"}
  BY <1>2 DEF Pair, Roles
<1>4. \/ FindFirst(s) \/ FindNext(s) \/ FindStep(s) \/ NotFound(s)
      \/ AttachLink(s) \/ AttachSeal(s) \/ GetTopicData(s) \/ Fetch(s)
      \/ Consumed(s) \/ ConsumedStore(s)
  BY <1>3 DEF Step, PublishCheck, PublishStore, CountLoad, CountStore, Notify, NextObserver,
     StepObserver, In, At, Walking
<1>5. UNCHANGED <<flags, tried>>
  BY <1>4 DEF FindFirst, FindNext, FindStep, NotFound, AttachLink, AttachSeal, GetTopicData,
     Fetch, Consumed, ConsumedStore, shared
<1> QED
  BY <1>1, <1>2, <1>3, <1>4, <1>5 DEF Topic

LEMMA SubscriberPair ==
  ASSUME NEW p \in Tasks, NEW s \in Tasks, OneAbove(p, s), Pair(p, s), Step(s), Typed'
  PROVE  Pair(p, s)'
<1> DEFINE n == Topic(s)
<1>0. /\ p # s /\ n \in Topics /\ pc[s] \notin {"idle", "fault"}
      /\ call[s].kind # "publish" /\ UNCHANGED <<flags, tried>>
      /\ pc[p] = "idle" /\ pc'[p] = "idle" /\ call'[p] = call[p] /\ Topic(p)' = Topic(p)
      /\ \A u \in Tasks \ {s} : pc'[u] = pc[u]
      /\ \/ FindFirst(s) \/ FindNext(s) \/ FindStep(s) \/ NotFound(s)
         \/ AttachLink(s) \/ AttachSeal(s) \/ GetTopicData(s) \/ Fetch(s)
         \/ Consumed(s) \/ ConsumedStore(s)
  BY SubscriberFrame
<1>1. /\ pc \in [Tasks -> Labels] /\ reg \in [Tasks -> Nat] /\ owed \in [Topics -> SUBSET Tasks]
      /\ count \in [Topics -> Nat] /\ observers \in [Topics -> Seq(Tasks)]
      /\ call \in [Tasks -> [kind : Kinds, topic : Topics]]
  BY DEF Pair, Typed, TypeOK
<1>2. /\ \A m \in Topics : ~Within(p, m) /\ ~Within(p, m)'
      /\ \A m \in Topics : owed[m] \in {{}, {s}} /\ count[m] = IF owed[m] = {} THEN 0 ELSE 1
      /\ OneTurn(p, s)'
  BY <1>0 DEF Within, OneTurn, Pair, Tallied, Looping
\* What is left to show of each action.
<1>3. ASSUME pc'[s] \in Walking \union {"idle", "seal", "fetch", "dec", "fault"},
             call'[s].kind # "publish"
      PROVE  Roles(p, s)'
  BY <1>0, <1>3 DEF Roles, Pair
<1>4. ASSUME UNCHANGED <<count, owed>>, pc'[s] # "dec" PROVE Tallied(p, s)'
  BY <1>0, <1>2, <1>4 DEF Tallied
<1>5. ASSUME UNCHANGED <<observers, raw>>, call'[s].kind = "attach" /\ pc'[s] \in Walking =>
               call[s].kind = "attach" /\ pc[s] \in Walking /\ Topic(s)' = n,
             pc[s] # "seal"
      PROVE  Single(s)'
  BY <1>0, <1>5 DEF Single, Pair
<1>6. CASE FindFirst(s) \/ FindNext(s) \/ FindStep(s) \/ NotFound(s) \/ GetTopicData(s)
  <2>1. /\ UNCHANGED <<observers, raw, count, owed, call>> /\ pc[s] \in Walking
        /\ pc'[s] \in {"next", "step", "found", "missing", "idle", "fault", "fetch"}
    BY <1>0, <1>1, <1>6 DEF FindFirst, FindNext, FindStep, NotFound, GetTopicData, Compare,
       Goto, Return, At, In, Walking, shared, hist
  <2>2. Topic(s)' = n
    BY <2>1 DEF Topic
  <2>3. Roles(p, s)'
    BY <1>0, <1>3, <2>1 DEF Walking
  <2>4. Tallied(p, s)' /\ Single(s)'
    BY <1>4, <1>5, <2>1, <2>2 DEF Walking
  <2> QED
    BY <1>2, <2>3, <2>4 DEF Pair
<1>7. CASE AttachLink(s)
  <2>1. /\ pc[s] = "found" /\ call[s].kind = "attach" /\ pc'[s] = "seal"
        /\ UNCHANGED <<count, owed, call>> /\ raw' = raw \union {<<s, n>>}
        /\ observers' = [observers EXCEPT ![n] = Append(Sealed(n), s)]
    BY <1>1, <1>7 DEF AttachLink, In, At, Goto, hist
  <2>2. observers[n] = <<>> /\ Topic(s)' = n
    BY <1>0, <2>1 DEF Pair, Single, Walking, Topic
  <2>3. Sealed(n) = <<>>
    BY <2>2 DEF Sealed
  <2>4. observers'[n] = <<s>> /\ \A m \in Topics : m # n => observers'[m] = observers[m]
    BY <1>0, <1>1, <2>1, <2>3, OfOne
  <2>5. <<s, n>> \in tried
    <3>1. n \in Topics /\ pc[s] \in Walking
      BY <1>0, <2>1 DEF Walking
    <3> QED
      BY <3>1, <2>1 DEF Pair, Single
  <2>6. Single(s)'
    <3>1. \A m \in Topics : observers'[m] \in {<<>>, <<s>>}
      BY <2>4 DEF Pair, Single
    <3>2. \A m \in Topics : <<s, m>> \notin tried' => observers'[m] = <<>>
      BY <1>0, <2>4, <2>5 DEF Pair, Single
    <3>3. pc'[s] \notin Walking
      BY <2>1 DEF Walking
    <3>4. \A u \in Tasks, m \in Topics : <<u, m>> \in raw' => u = s /\ m = n
      BY <2>1 DEF Pair, Single
    <3> QED
      BY <2>1, <2>2, <3>1, <3>2, <3>3, <3>4 DEF Single
  <2>7. Roles(p, s)' /\ Tallied(p, s)'
    BY <1>0, <1>3, <1>4, <2>1
  <2> QED
    BY <1>2, <2>6, <2>7 DEF Pair
<1>8. CASE AttachSeal(s)
  <2>1. /\ pc[s] = "seal" /\ pc'[s] = "idle" /\ UNCHANGED <<count, owed, call, observers>>
        /\ raw' = raw \ {<<s, n>>}
    BY <1>1, <1>8 DEF AttachSeal, At, Return, Goto, hist
  <2>2. Single(s)'
    <3>1. \A u \in Tasks, m \in Topics : <<u, m>> \notin raw'
      BY <2>1 DEF Pair, Single
    <3>2. \A m \in Topics : <<s, m>> \notin tried => observers[m] = <<>>
      BY DEF Pair, Single
    <3> QED
      BY <1>0, <2>1, <3>1, <3>2 DEF Pair, Single, Walking
  <2>3. Roles(p, s)' /\ Tallied(p, s)'
    BY <1>0, <1>3, <1>4, <2>1
  <2> QED
    BY <1>2, <2>2, <2>3 DEF Pair
<1>9. CASE Fetch(s)
  <2>1. /\ pc[s] = "fetch" /\ pc'[s] = "enter" /\ UNCHANGED <<count, owed, observers, raw>>
        /\ call'[s].kind = "consumed"
    BY <1>1, <1>9 DEF Fetch, At, Begin, Goto, shared, hist
  <2>2. Single(s)'
    BY <1>5, <2>1
  <2>3. Roles(p, s)' /\ Tallied(p, s)'
    BY <1>3, <1>4, <2>1 DEF Walking
  <2> QED
    BY <1>2, <2>2, <2>3 DEF Pair
<1>10. CASE Consumed(s)
  <2>1. /\ pc[s] = "found" /\ UNCHANGED <<count, observers, raw, call>> /\ reg'[s] = count[n]
        /\ call[s].kind = "consumed"
        /\ \/ count[n] = 0 /\ pc'[s] = "idle" /\ owed' = [owed EXCEPT ![n] = @ \ {s}]
           \/ count[n] # 0 /\ pc'[s] = "dec" /\ owed' = owed
    BY <1>1, <1>10 DEF Consumed, In, At, Return, Goto, Answered, hist
  <2>2. Topic(s)' = n /\ count'[n] = count[n]
    BY <2>1 DEF Topic
  <2>3. Single(s)' /\ Roles(p, s)'
    BY <1>0, <1>3, <1>5, <2>1, <2>2
  <2>4. Tallied(p, s)'
    <3>1. owed' = owed
      <4>1. count[n] = 0 => owed[n] = {} /\ owed[n] \ {s} = owed[n]
        BY <1>0, <1>2
      <4>2. [owed EXCEPT ![n] = owed[n]] = owed
        BY <1>1
      <4> QED
        BY <2>1, <4>1, <4>2
    <3>2. count[n] # 0 => count[n] = 1
      BY <1>0, <1>2
    <3> QED
      BY <1>0, <1>2, <2>1, <2>2, <3>1, <3>2 DEF Tallied, Looping
  <2> QED
    BY <1>2, <2>3, <2>4 DEF Pair
<1>11. CASE ConsumedStore(s)
  <2>1. /\ pc[s] = "dec" /\ pc'[s] = "idle" /\ UNCHANGED <<observers, raw, call>>
        /\ count' = [count EXCEPT ![n] = reg[s] - 1] /\ owed' = [owed EXCEPT ![n] = @ \ {s}]
    BY <1>1, <1>11 DEF ConsumedStore, At, Return, Goto, Answered
  <2>2. reg[s] = 1
    BY <2>1 DEF Pair, Tallied
  <2>3. /\ count'[n] = 0 /\ owed'[n] = {}
        /\ \A m \in Topics : m # n => count'[m] = count[m] /\ owed'[m] = owed[m]
    <3>1. owed[n] \ {s} = {}
      BY <1>0, <1>2
    <3> QED
      BY <1>0, <1>1, <2>1, <2>2, <3>1
  <2>4. Single(s)' /\ Roles(p, s)'
    BY <1>0, <1>3, <1>5, <2>1 DEF Walking
  <2>5. Tallied(p, s)'
    <3>1. \A m \in Topics :
            owed'[m] \in {{}, {s}} /\ count'[m] = IF owed'[m] = {} THEN 0 ELSE 1
      BY <1>2, <2>3
    <3> QED
      BY <1>0, <2>1, <3>1 DEF Tallied
  <2> QED
    BY <1>2, <2>4, <2>5 DEF Pair
<1> QED
  BY <1>0, <1>6, <1>7, <1>8, <1>9, <1>10, <1>11


LEMMA InitPair == ASSUME NEW p \in Tasks, NEW s \in Tasks, OneAbove(p, s) PROVE Init => Pair(p, s)
<1> SUFFICES ASSUME Init PROVE Pair(p, s)
  OBVIOUS
<1>1. /\ \A t \in Tasks : pc[t] = "idle"
      /\ \A n \in Topics : observers[n] = <<>> /\ owed[n] = {} /\ count[n] = 0
      /\ raw = {} /\ flags = {}
  BY DEF Init
<1>2. Typed
  BY InitTyped
<1>3. Roles(p, s) /\ Single(s) /\ Tallied(p, s) /\ OneTurn(p, s)
  BY <1>1 DEF Roles, Single, Tallied, OneTurn, Walking, Looping
<1> QED
  BY <1>2, <1>3 DEF Pair

LEMMA PairCases ==
  ASSUME [Next]_vars
  PROVE  \/ UNCHANGED <<observers, raw, cursor, count, flags, local, hist>>
         \/ \E t \in Tasks : Step(t) \/ Calls(t)
  BY InstallFrame DEF Next, Calls, vars, shared

LEMMA NextPair ==
  ASSUME NEW p \in Tasks, NEW s \in Tasks, OneAbove(p, s)
  PROVE  Pair(p, s) /\ [Next]_vars => Pair(p, s)'
<1> SUFFICES ASSUME Pair(p, s), [Next]_vars PROVE Pair(p, s)'
  OBVIOUS
<1>1. Typed'
  BY NextTyped DEF Pair
<1>2. ASSUME NEW t \in Tasks, Step(t) \/ Calls(t) PROVE Pair(p, s)'
  BY <1>1, <1>2, PairActs, CallPair, PublisherPair, SubscriberPair
<1>3. CASE UNCHANGED <<observers, raw, cursor, count, flags, local, hist>>
  <2>1. /\ \A t \in Tasks : Topic(t)' = Topic(t)
        /\ \A n \in Topics : Within(p, n)' <=> Within(p, n)
    BY <1>3 DEF Topic, Within, local
  <2>2. Roles(p, s)' /\ Single(s)'
    BY <1>3, <2>1 DEF Roles, Single, Pair, local
  <2>3. Tallied(p, s)' /\ OneTurn(p, s)'
    BY <1>3, <2>1 DEF Tallied, OneTurn, Pair, local, hist
  <2> QED
    BY <1>1, <2>2, <2>3 DEF Pair
<1> QED
  BY <1>2, <1>3, PairCases

LEMMA SpecPair ==
  ASSUME NEW p \in Tasks, NEW s \in Tasks, OneAbove(p, s) PROVE Spec => []Pair(p, s)
  BY InitPair, NextPair, PTL DEF Spec

\* Without a mutex, one publisher above one subscriber as main has them: Topic::count
\* is the number of observers that still have to mark the update consumed, whenever
\* no task is at the counter.
THEOREM MainCounts ==
  ASSUME NEW p \in Tasks, NEW s \in Tasks, OneAbove(p, s)
  PROVE  Spec => []CountExact
<1>1. Pair(p, s) => CountExact
  <2> SUFFICES ASSUME Pair(p, s), NEW n \in Topics, Quiet(n)
               PROVE  count[n] = Cardinality(owed[n])
    BY DEF CountExact
  <2>1. ~Within(p, n)
    BY DEF Quiet, Within, Looping
  <2>2. Cardinality({}) = 0 /\ Cardinality({s}) = 1
    BY FS_EmptySet, FS_Singleton
  <2>3. owed[n] \in {{}, {s}} /\ count[n] = IF owed[n] = {} THEN 0 ELSE 1
    BY <2>1 DEF Pair, Tallied
  <2> QED
    BY <2>2, <2>3
<1> QED
  BY <1>1, SpecPair, PTL

\* The calls the atomic broker sees: attach, publish and consumed.
LEMMA PairAttach ==
  ASSUME NEW p \in Tasks, NEW s \in Tasks, OneAbove(p, s), Pair(p, s), AttachLink(s)
  PROVE  Promise!Subscribe(s, Topic(s))
<1> DEFINE n == Topic(s)  sub == [m \in Topics |-> Elems(observers[m])]
<1>1. n \in Topics /\ observers \in [Topics -> Seq(Tasks)]
  BY DEF Pair, Typed, TypeOK, Topic
<1>2. /\ pc[s] = "found" /\ call[s].kind = "attach"
      /\ observers' = [observers EXCEPT ![n] = Append(Sealed(n), s)]
  BY <1>1 DEF AttachLink, In, At
<1>3. observers[n] = <<>>
  BY <1>1, <1>2 DEF Pair, Single, Walking
<1>4. Sealed(n) = <<>>
  BY <1>3 DEF Sealed
<1>5. observers'[n] = <<s>> /\ \A m \in Topics : m # n => observers'[m] = observers[m]
  BY <1>1, <1>2, <1>4, OfOne
<1>6. sub' = [sub EXCEPT ![n] = @ \union {s}]
  <2>1. Elems(observers'[n]) = Elems(observers[n]) \union {s}
    BY <1>3, <1>5, OfOne
  <2> QED
    BY <1>1, <1>5, <2>1
<1>7. UNCHANGED <<owed, latest>>
  BY DEF AttachLink, hist
<1> QED
  BY <1>6, <1>7 DEF Promise!Subscribe

LEMMA PairAccept ==
  ASSUME NEW p \in Tasks, NEW s \in Tasks, OneAbove(p, s), Pair(p, s), Prepared, PublishStore(p)
  PROVE  \E v \in Values : Promise!Accept(Topic(p), v)
<1> DEFINE n == Topic(p)  sub == [m \in Topics |-> Elems(observers[m])]
<1>1. n \in Topics /\ pc[p] = "store"
  BY DEF Pair, Typed, TypeOK, Topic, PublishStore, At
<1>2. owed[n] = {}
  <2>1. count[n] = 0 /\ ~Within(p, n)
    BY <1>1 DEF Pair, Tallied, Within, Looping
  <2> QED
    BY <1>1, <2>1 DEF Pair, Tallied
<1>3. owed' = [owed EXCEPT ![n] = Elems(observers[n])] /\ UNCHANGED observers
  BY DEF PublishStore
<1>4. owed' = [owed EXCEPT ![n] = sub[n]] /\ UNCHANGED sub
  BY <1>1, <1>3
<1>5. PICK v \in Values : v = buf[p]
  BY <1>1 DEF Prepared
<1>6. latest' = [latest EXCEPT ![n] = v]
  BY <1>5 DEF PublishStore
<1> QED
  BY <1>2, <1>4, <1>6 DEF Promise!Accept

LEMMA PairConsume ==
  ASSUME NEW p \in Tasks, NEW s \in Tasks, OneAbove(p, s), Pair(p, s),
         Consumed(s) \/ ConsumedStore(s)
  PROVE  Promise!Consume(s, Topic(s)) \/ UNCHANGED <<observers, hist>>
<1> DEFINE n == Topic(s)
<1>1. n \in Topics /\ owed \in [Topics -> SUBSET Tasks]
  BY DEF Pair, Typed, TypeOK, Topic
<1>2. /\ UNCHANGED <<observers, latest>>
      /\ owed' = owed \/ owed' = [owed EXCEPT ![n] = @ \ {s}]
  BY DEF Consumed, ConsumedStore, Answered, hist
<1>3. CASE owed' = owed
  BY <1>2, <1>3 DEF hist
<1>4. CASE owed' # owed
  <2>1. s \in owed[n]
    BY <1>1, <1>2, <1>4
  <2> QED
    BY <1>2, <1>4, <2>1 DEF Promise!Consume
<1> QED
  BY <1>3, <1>4

LEMMA PairRefines ==
  ASSUME NEW p \in Tasks, NEW s \in Tasks, OneAbove(p, s), Pair(p, s), Prepared, [Next]_vars
  PROVE  [Promise!Next]_(Promise!vars)
<1>1. /\ \A t \in Tasks : Topic(t) \in Topics
      /\ UNCHANGED <<observers, hist>> => UNCHANGED Promise!vars
  BY DEF Pair, Typed, TypeOK, Topic, Promise!vars, hist
<1>2. ASSUME NEW t \in Tasks, Calls(t) PROVE UNCHANGED <<observers, hist>>
  BY <1>2 DEF Calls, Wake, CallAttach, CallPublish, shared
<1>3. ASSUME NEW t \in Tasks, Step(t),
             ~(AttachLink(t) \/ PublishStore(t) \/ Consumed(t) \/ ConsumedStore(t))
      PROVE  UNCHANGED <<observers, hist>>
  BY <1>3 DEF Step, FindFirst, FindNext, FindStep, NotFound, PublishCheck, CountLoad, CountStore,
     Notify, NextObserver, StepObserver, AttachSeal, GetTopicData, Fetch, shared
<1>4. CASE Step(p)
  <2>1. ~(AttachLink(p) \/ Consumed(p) \/ ConsumedStore(p))
    <3>1. call[p].kind = "publish" /\ pc[p] # "dec"
      BY <1>4, PublisherFrame DEF Pair, Roles, Walking, Looping
    <3> QED
      BY <3>1 DEF AttachLink, Consumed, ConsumedStore, In, At
  <2>2. CASE PublishStore(p)
    BY <1>1, <2>2, PairAccept DEF Promise!Next
  <2> QED
    BY <1>1, <1>3, <1>4, <2>1, <2>2
<1>5. CASE Step(s)
  <2>1. ~PublishStore(s)
    BY DEF PublishStore, At, Pair, Roles, Walking
  <2>2. CASE AttachLink(s)
    BY <1>1, <2>2, PairAttach DEF Promise!Next
  <2>3. CASE Consumed(s) \/ ConsumedStore(s)
    BY <1>1, <2>3, PairConsume DEF Promise!Next
  <2> QED
    BY <1>1, <1>3, <1>5, <2>1, <2>2, <2>3
<1>6. ASSUME NEW t \in Tasks, Step(t) PROVE t = p \/ t = s
  BY <1>6, PairActs
<1> QED
  BY <1>1, <1>2, <1>4, <1>5, <1>6, PairCases

\* The same for the promise: the broker implements the atomic one, so that no update
\* is accepted on a topic before the subscriber has consumed the last one.
THEOREM MainRefines ==
  ASSUME NEW p \in Tasks, NEW s \in Tasks, OneAbove(p, s)
  PROVE  Spec => ImplementsBroker
<1>1. Init => Promise!Init
  BY DEF Init, Promise!Init, Elems
<1>2. Pair(p, s) /\ Prepared /\ [Next]_vars => [Promise!Next]_(Promise!vars)
  BY PairRefines
<1>3. Init => Prepared
  BY DEF Init, Prepared
<1>4. Pair(p, s) => TypeOK
  BY DEF Pair, Typed
<1>5. Spec => []Prepared
  BY <1>3, <1>4, NextPrepared, SpecPair, PTL DEF Spec
<1> QED
  BY <1>1, <1>2, <1>5, SpecPair, PTL DEF Spec, ImplementsBroker, Promise!Spec
=============================================================================
