------------------------------ MODULE MsgBroker ------------------------------
(***************************************************************************)
(* The publish/subscribe broker of user-modules/MsgBroker.h, one action    *)
(* per access to the state its tasks share: the cursor _search of the      *)
(* topic list and of each observer list (user-modules/List_tpp.h), the     *)
(* counter Topic::count, and the pointer Topic::data into the publisher's  *)
(* own buffer.                                                             *)
(*                                                                         *)
(* Locked = FALSE is the code as it is, where MUTEX_LOCK and MUTEX_UNLOCK  *)
(* expand to nothing; Locked = TRUE is the port that MsgBroker.h describes *)
(* to RTOS applications, the macros being a mutex.  Tasks are scheduled by *)
(* fixed priorities with preemption, equal priorities interleave freely.   *)
(***************************************************************************)
EXTENDS Naturals, Sequences, FiniteSets

CONSTANTS
  Tasks, Topics, Values,
  None,          \* the null pointer
  TopicOrder,    \* the installTopic calls of main, in order
  Publishers,    \* pairs <<task, topic>>: task publishes topic
  WrongSize,     \* those that pass a datasize other than the topic's
  Subscribers,   \* pairs <<task, topic>>: task attaches to topic when it starts
  Prio,          \* Prio[t]: the osPriority of task t
  Locked         \* MUTEX_LOCK is a mutex

ASSUME ConfigAssumption ==
  /\ Topics # {}
  /\ None \notin Tasks \union Topics \union Values
  /\ TopicOrder \in Seq(Topics)
  /\ Publishers \subseteq Tasks \X Topics
  /\ WrongSize \subseteq Publishers
  /\ Subscribers \subseteq Tasks \X Topics
  /\ Prio \in [Tasks -> Nat]
  /\ Locked \in BOOLEAN

VARIABLES
  boot,       \* number of installTopic calls main has made
  topics,     \* topic_list, first to last
  search,     \* topic_list->_search
  observers,  \* observers[n]: observer_list of topic n, first to last
  raw,        \* observer nodes linked into a list, their next not yet written
  cursor,     \* cursor[n]: observer_list->_search of topic n
  count,      \* count[n]: Topic::count
  data,       \* data[n]: Topic::data, the task whose buffer it points to
  holder,     \* owner of the mutex behind MUTEX_LOCK
  flags,      \* <<t, n>>: the signal with which n's update notifies task t
  buf,        \* buf[t]: the buffer task t publishes from
  tried,      \* the attach calls already made
  pc,         \* pc[t]: the next shared access of task t
  call,       \* call[t]: the operation under way, its kind and its topic
  reg,        \* reg[t]: value of count in a register of task t
  at,         \* at[t]: list element in a register of task t
  latest,     \* history: the value of the last update accepted for n
  owed        \* history: the tasks that have not consumed that update

shared == <<boot, topics, search, observers, raw, cursor, count, data, holder, flags>>
local  == <<buf, tried, pc, call, reg, at>>
hist   == <<latest, owed>>
vars   == <<shared, local, hist>>

Kinds == {"publish", "attach", "getTopicData", "consumed"}

Labels == {"idle", "enter", "next", "step", "found", "missing", "store", "load",
           "inc", "notify", "nextobs", "stepobs", "seal", "fetch", "dec", "fault"}

Elems(s) == {s[i] : i \in DOMAIN s}

\* Mutant of After: the walk ends before the last element.
AfterButLast(s, x) ==
  LET i == CHOOSE j \in DOMAIN s : s[j] = x
  IN  IF x \in Elems(s) /\ i + 1 < Len(s) THEN s[i + 1] ELSE None

\* getFirstItem and getNextItem: the element a cursor moves to.
First(s) == IF s = <<>> THEN None ELSE s[1]
After(s, x) ==
  LET i == CHOOSE j \in DOMAIN s : s[j] = x
  IN  IF x \in Elems(s) /\ i < Len(s) THEN s[i + 1] ELSE None

Topic(t) == call[t].topic

-----------------------------------------------------------------------------
(* Scheduling. *)

Booted == boot = Len(TopicOrder)
Halted == \E t \in Tasks : pc[t] = "fault"

\* A notified task need not be ready: SysManager and VirtualReceiver wait for
\* several signals at once.  A call blocks only on the mutex.
Ready(t) == /\ pc[t] # "idle"
            /\ pc[t] = "enter" => (Locked => holder = None)

Running(t) ==
  /\ Booted /\ ~Halted
  /\ \A u \in Tasks : Prio[u] > Prio[t] => ~Ready(u)

At(t, label) == Running(t) /\ pc[t] = label
In(t, kind, label) == At(t, label) /\ call[t].kind = kind
Goto(t, label) == pc' = [pc EXCEPT ![t] = label]

\* Mutant of Lock: MUTEX_LOCK left empty.
LockOmitted(t) == holder' = None

Lock(t) == holder' = IF Locked THEN t ELSE None
Unlock == holder' = None
Return(t) == Goto(t, "idle") /\ Unlock

Begin(t, kind, n) ==
  /\ call' = [call EXCEPT ![t] = [kind |-> kind, topic |-> n]]
  /\ Goto(t, "enter")

-----------------------------------------------------------------------------
(* main: the topics are installed before the kernel starts. *)

InstallTopic ==
  /\ ~Booted
  /\ LET n == TopicOrder[boot + 1] IN
       /\ search' = IF n \in Elems(topics) THEN n ELSE None
       /\ \/ topics' = IF n \in Elems(topics) THEN topics ELSE Append(topics, n)
          \/ UNCHANGED topics      \* malloc fails: OUT_OF_MEMORY, not examined
  /\ boot' = boot + 1
  /\ UNCHANGED <<observers, raw, cursor, count, data, holder, flags, local, hist>>

-----------------------------------------------------------------------------
(* The calls tasks make. *)

AllTried(t) == \A n \in Topics : <<t, n>> \in Subscribers => <<t, n>> \in tried

\* The publisher writes its buffer, then calls publish with a pointer to it.
CallPublish(t, n, v) ==
  /\ At(t, "idle") /\ AllTried(t) /\ <<t, n>> \in Publishers
  /\ buf' = [buf EXCEPT ![t] = v]
  /\ Begin(t, "publish", n)
  /\ UNCHANGED <<shared, tried, reg, at, hist>>

CallAttach(t, n) ==
  /\ At(t, "idle") /\ <<t, n>> \in Subscribers \ tried
  /\ tried' = tried \union {<<t, n>>}
  /\ Begin(t, "attach", n)
  /\ UNCHANGED <<shared, buf, reg, at, hist>>

\* A notified subscriber clears its signal, reads the update and consumes it.
Wake(t, n) ==
  /\ At(t, "idle") /\ AllTried(t) /\ <<t, n>> \in flags
  /\ flags' = flags \ {<<t, n>>}
  /\ Begin(t, "getTopicData", n)
  /\ UNCHANGED <<boot, topics, search, observers, raw, cursor, count, data, holder,
                 buf, tried, reg, at, hist>>

-----------------------------------------------------------------------------
(* findTopic, which every operation starts with. *)

\* strcmp of the topic in hand with the name looked for.
Compare(t, topic) ==
  Goto(t, IF topic = None THEN "missing" ELSE IF topic = Topic(t) THEN "found" ELSE "next")

\* MUTEX_LOCK, then getFirstItem.
FindFirst(t) ==
  /\ At(t, "enter") /\ Ready(t)
  /\ Lock(t)
  /\ search' = First(topics)
  /\ Compare(t, First(topics))
  /\ UNCHANGED <<boot, topics, observers, raw, cursor, count, data, flags,
                 buf, tried, call, reg, at, hist>>

\* Mutant of FindNext: the cursor does not move.
FindAgain(t) ==
  /\ At(t, "next")
  /\ at' = [at EXCEPT ![t] = search]
  /\ Goto(t, IF search = None THEN "missing" ELSE "step")
  /\ UNCHANGED <<shared, buf, tried, call, reg, hist>>

\* getNextItem reads the shared cursor ...
FindNext(t) ==
  /\ At(t, "next")
  /\ at' = [at EXCEPT ![t] = After(topics, search)]
  /\ Goto(t, IF search = None THEN "missing" ELSE "step")
  /\ UNCHANGED <<shared, buf, tried, call, reg, hist>>

\* ... and writes it back, moved.
FindStep(t) ==
  /\ At(t, "step")
  /\ search' = at[t]
  /\ Compare(t, at[t])
  /\ UNCHANGED <<boot, topics, observers, raw, cursor, count, data, holder, flags,
                 buf, tried, call, reg, at, hist>>

\* TOPIC_NOT_FOUND: publish and attach return.  consumed goes on with the null
\* pointer; getTopicData returns null, which the subscriber reads through.
NotFound(t) ==
  /\ At(t, "missing")
  /\ IF call[t].kind \in {"consumed", "getTopicData"}
       THEN Goto(t, "fault") /\ UNCHANGED holder
       ELSE Return(t)
  /\ UNCHANGED <<boot, topics, search, observers, raw, cursor, count, data, flags,
                 buf, tried, call, reg, at, hist>>

-----------------------------------------------------------------------------
(* publish *)

\* Mutant: one answer may be outstanding.
PublishOneAhead(t) == count[Topic(t)] > 1

PublishPending(t) == count[Topic(t)] > 0
PublishSize(t)    == <<t, Topic(t)>> \in WrongSize

\* TOPIC_PENDING and TOPIC_SIZE return; otherwise go on to the assignments.
PublishCheck(t) ==
  /\ In(t, "publish", "found")
  /\ IF PublishPending(t) \/ PublishSize(t)
       THEN Return(t)
       ELSE Goto(t, "store") /\ UNCHANGED holder
  /\ UNCHANGED <<boot, topics, search, observers, raw, cursor, count, data, flags,
                 buf, tried, call, reg, at, hist>>

\* Mutant: the loop is not ended by the null pointer.
LoopOn(t, o) == Goto(t, "load") /\ UNCHANGED holder

\* End of the notification loop, or its next turn with observer o in hand.
Loop(t, o) == IF o = None THEN Return(t) ELSE Goto(t, "load") /\ UNCHANGED holder

\* The update is accepted: topic->data = data, getFirstItem of the observers.
PublishStore(t) ==
  /\ At(t, "store")
  /\ LET n == Topic(t)  o == First(observers[n]) IN
       /\ data'   = [data EXCEPT ![n] = t]
       /\ cursor' = [cursor EXCEPT ![n] = o]
       /\ at'     = [at EXCEPT ![t] = o]
       /\ Loop(t, o)
       /\ latest' = [latest EXCEPT ![n] = buf[t]]
       /\ owed'   = [owed EXCEPT ![n] = Elems(observers[n])]
  /\ UNCHANGED <<boot, topics, search, observers, raw, count, flags, buf, tried, call, reg>>

\* topic->count++, a load and a store.
CountLoad(t) ==
  /\ At(t, "load")
  /\ reg' = [reg EXCEPT ![t] = count[Topic(t)]]
  /\ Goto(t, "inc")
  /\ UNCHANGED <<shared, buf, tried, call, at, hist>>

\* Mutant: the counter is set instead of incremented.
CountSet(t) ==
  /\ At(t, "inc")
  /\ count' = [count EXCEPT ![Topic(t)] = 1]
  /\ Goto(t, "notify")
  /\ UNCHANGED <<boot, topics, search, observers, raw, cursor, data, holder, flags,
                 buf, tried, call, reg, at, hist>>

CountStore(t) ==
  /\ At(t, "inc")
  /\ count' = [count EXCEPT ![Topic(t)] = reg[t] + 1]
  /\ Goto(t, "notify")
  /\ UNCHANGED <<boot, topics, search, observers, raw, cursor, data, holder, flags,
                 buf, tried, call, reg, at, hist>>

\* The callback runs in the publisher's task and sets the subscriber's signal.
Notify(t) ==
  /\ At(t, "notify")
  /\ flags' = flags \union {<<at[t], Topic(t)>>}
  /\ Goto(t, "nextobs")
  /\ UNCHANGED <<boot, topics, search, observers, raw, cursor, count, data, holder,
                 buf, tried, call, reg, at, hist>>

\* getNextItem of the observers; the next of a raw node is whatever malloc left.
NextObserver(t) ==
  /\ At(t, "nextobs")
  /\ LET n == Topic(t)  o == cursor[n] IN
       \/ /\ at' = [at EXCEPT ![t] = After(observers[n], o)]
          /\ IF o = None THEN Return(t) ELSE Goto(t, "stepobs") /\ UNCHANGED holder
       \/ /\ <<o, n>> \in raw
          /\ Goto(t, "fault")
          /\ UNCHANGED <<at, holder>>
  /\ UNCHANGED <<boot, topics, search, observers, raw, cursor, count, data, flags,
                 buf, tried, call, reg, hist>>

StepObserver(t) ==
  /\ At(t, "stepobs")
  /\ cursor' = [cursor EXCEPT ![Topic(t)] = at[t]]
  /\ Loop(t, at[t])
  /\ UNCHANGED <<boot, topics, search, observers, raw, count, data, flags,
                 buf, tried, call, reg, at, hist>>

-----------------------------------------------------------------------------
(* attach: addItem links the new node before it writes the node's next.  A  *)
(* node linked meanwhile by another task is not _last yet and drops out of  *)
(* the list (exact for two overlapping calls).                              *)

Sealed(n) ==
  LET s == observers[n]
  IN  IF s # <<>> /\ <<s[Len(s)], n>> \in raw THEN SubSeq(s, 1, Len(s) - 1) ELSE s

AttachLink(t) ==
  /\ In(t, "attach", "found")
  /\ LET n == Topic(t) IN
       /\ observers' = [observers EXCEPT ![n] = Append(Sealed(n), t)]
       /\ raw' = raw \union {<<t, n>>}
  /\ Goto(t, "seal")
  /\ UNCHANGED <<boot, topics, search, cursor, count, data, holder, flags,
                 buf, tried, call, reg, at, hist>>

AttachSeal(t) ==
  /\ At(t, "seal")
  /\ raw' = raw \ {<<t, Topic(t)>>}
  /\ Return(t)
  /\ UNCHANGED <<boot, topics, search, observers, cursor, count, data, flags,
                 buf, tried, call, reg, at, hist>>

-----------------------------------------------------------------------------
(* getTopicData returns topic->data after MUTEX_UNLOCK; the subscriber then *)
(* copies what it points to and calls consumed.                             *)

GetTopicData(t) ==
  /\ In(t, "getTopicData", "found")
  /\ Goto(t, "fetch") /\ Unlock
  /\ UNCHANGED <<boot, topics, search, observers, raw, cursor, count, data, flags,
                 buf, tried, call, reg, at, hist>>

Fetch(t) ==
  /\ At(t, "fetch")
  /\ Begin(t, "consumed", Topic(t))
  /\ UNCHANGED <<shared, buf, tried, reg, at, hist>>

-----------------------------------------------------------------------------
(* consumed: if(topic->count) topic->count--, a load and a store. *)

Answered(t) == owed' = [owed EXCEPT ![Topic(t)] = @ \ {t}] /\ UNCHANGED latest

Consumed(t) ==
  /\ In(t, "consumed", "found")
  /\ reg' = [reg EXCEPT ![t] = count[Topic(t)]]
  /\ IF count[Topic(t)] = 0
       THEN Return(t) /\ Answered(t)
       ELSE Goto(t, "dec") /\ UNCHANGED <<holder, hist>>
  /\ UNCHANGED <<boot, topics, search, observers, raw, cursor, count, data, flags,
                 buf, tried, call, at>>

ConsumedStore(t) ==
  /\ At(t, "dec")
  /\ count' = [count EXCEPT ![Topic(t)] = reg[t] - 1]
  /\ Return(t) /\ Answered(t)
  /\ UNCHANGED <<boot, topics, search, observers, raw, cursor, data, flags,
                 buf, tried, call, reg, at>>

-----------------------------------------------------------------------------
Init ==
  /\ boot = 0 /\ topics = <<>> /\ search = None
  /\ observers = [n \in Topics |-> <<>>] /\ raw = {}
  /\ cursor = [n \in Topics |-> None]
  /\ count = [n \in Topics |-> 0] /\ data = [n \in Topics |-> None]
  /\ holder = None /\ flags = {} /\ tried = {}
  /\ buf = [t \in Tasks |-> None]
  /\ pc = [t \in Tasks |-> "idle"]
  /\ call = [t \in Tasks |-> [kind |-> "attach", topic |-> CHOOSE n \in Topics : TRUE]]
  /\ reg = [t \in Tasks |-> 0] /\ at = [t \in Tasks |-> None]
  /\ latest = [n \in Topics |-> None] /\ owed = [n \in Topics |-> {}]

\* What a task does by itself once it is in a call.
Step(t) ==
  \/ FindFirst(t) \/ FindNext(t) \/ FindStep(t) \/ NotFound(t)
  \/ PublishCheck(t) \/ PublishStore(t) \/ CountLoad(t) \/ CountStore(t)
  \/ Notify(t) \/ NextObserver(t) \/ StepObserver(t)
  \/ AttachLink(t) \/ AttachSeal(t)
  \/ GetTopicData(t) \/ Fetch(t)
  \/ Consumed(t) \/ ConsumedStore(t)

Next ==
  \/ InstallTopic
  \/ \E t \in Tasks :
       \/ Step(t)
       \/ \E n \in Topics : Wake(t, n) \/ CallAttach(t, n)
       \/ \E n \in Topics, v \in Values : CallPublish(t, n, v)

\* A task that has entered a call goes on with it: each of the tasks above sleeps or
\* waits between two calls (Thread::wait(50) in KeyDecoder::run), and so it gets the
\* processor, and a mutex that is given up, again and again.
Fairness == \A t \in Tasks : SF_vars(Step(t))

Spec == Init /\ [][Next]_vars
FairSpec == Spec /\ Fairness

-----------------------------------------------------------------------------
(* Properties *)

TypeOK ==
  /\ boot \in 0..Len(TopicOrder)
  /\ topics \in Seq(Topics) /\ search \in Topics \union {None}
  /\ observers \in [Topics -> Seq(Tasks)] /\ raw \subseteq Tasks \X Topics
  /\ cursor \in [Topics -> Tasks \union {None}]
  /\ count \in [Topics -> Nat] /\ data \in [Topics -> Tasks \union {None}]
  /\ holder \in Tasks \union {None} /\ flags \subseteq Tasks \X Topics
  /\ buf \in [Tasks -> Values \union {None}] /\ tried \subseteq Subscribers
  /\ pc \in [Tasks -> Labels] /\ call \in [Tasks -> [kind : Kinds, topic : Topics]]
  /\ reg \in [Tasks -> Nat] /\ at \in [Tasks -> Tasks \union Topics \union {None}]
  /\ latest \in [Topics -> Values \union {None}] /\ owed \in [Topics -> SUBSET Tasks]

\* A lookup fails only for a topic that is not installed: the walks that other
\* tasks make over topic_list with the same _search do not disturb it.
LookupExact == \A t \in Tasks : pc[t] = "missing" => Topic(t) \notin Elems(topics)

\* No task dereferences a null or an uninitialised pointer.
NoFault == ~Halted

\* No task is between two accesses to the counter of n.
Quiet(n) == \A t \in Tasks : Topic(t) = n =>
              pc[t] \notin {"load", "inc", "notify", "nextobs", "stepobs", "dec", "fault"}

\* Topic::count is the number of observers "notified and pending to mark the
\* consumed signal" whenever nobody is in the middle of changing it.
CountExact == \A n \in Topics : Quiet(n) => count[n] = Cardinality(owed[n])

\* Every call comes back: no walk over a list goes on for ever, and every way out of
\* a call gives the mutex up, so that nobody waits for it for ever.
CallsReturn == \A t \in Tasks : pc[t] # "idle" ~> pc[t] = "idle"

\* The broker implements the atomic one.
Promise == INSTANCE Broker WITH
  subscribed  <- [n \in Topics |-> Elems(observers[n])],
  outstanding <- owed
ImplementsBroker == Promise!Spec
=============================================================================
