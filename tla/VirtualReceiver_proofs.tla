----------------------- MODULE VirtualReceiver_proofs -----------------------
(***************************************************************************)
(* Proofs about VirtualReceiver, for any answers of the peer and any       *)
(* bytes: no update is forgotten, the timeout is armed exactly when a      *)
(* response is awaited, and every command has an update of its own.        *)
(***************************************************************************)
EXTENDS VirtualReceiver, TLAPS

Labels == {"wait", "blocked", "timeout", "data", "poll", "getc", "read", "stat",
           "clear", "copy", "consume", "send", "missed"}

\* The control block, where the task is, and a receiver that has its three parts.
Shape ==
  /\ tcb \in Tcb(Awaited) /\ pc \in Labels /\ at \in {1, 2} /\ armed \in BOOLEAN
  /\ rx = [stat |-> rx.stat, size |-> rx.size, data |-> rx.data]
  /\ DOMAIN outstanding = Topics /\ DOMAIN buffer = {"/keyb", "/gps"}
  /\ subscribed = [n \in Topics |-> IF n \in {"/keyb", "/gps"} THEN {VR} ELSE {SM}]

\* The task is blocked nowhere but in its wait, which is for all its flags.
Waiting ==
  /\ Blocked(tcb) => pc = "blocked" /\ tcb.waits = Awaited
  /\ pc = "blocked" /\ ~Blocked(tcb) => tcb.status # "none"

\* The handler of source i is still to come in this pass.
Coming(i) ==
  \/ pc = "blocked" /\ ~Blocked(tcb) /\ tcb.status = "osEventSignal"
  \/ pc \in {"data", "poll", "getc", "read", "stat"}
  \/ pc \in {"clear", "copy", "consume"} /\ at <= i
  \/ pc = "send" /\ at < i

\* An update VR owes an answer for has set its flag or is about to be handled, never
\* both, and nothing else has set it: as long as the program goes on.
Standing ==
  pc # "missed" => \A i \in {1, 2} : /\ Owed(Sources[i]) <=> Sources[i] \in tcb.events \/ Coming(i)
                    /\ ~(Sources[i] \in tcb.events /\ Coming(i))

\* The buffer of an update that is owed holds it or a later one, and so does the copy.
Copied ==
  /\ \A n \in {"/keyb", "/gps"} : Owed(n) => buffer[n] \in {"owed", "later"}
  /\ pc = "consume" => tx \in {"owed", "later"}

\* Between two passes the decoder is at rest or waits for its response.
AtRest ==
  pc \in {"wait", "blocked", "timeout"} =>
    rx.stat = IF armed THEN "WAIT_RESPONSE" ELSE "WAIT_COMMAND"

Inv == Shape /\ Waiting /\ Standing /\ Copied /\ AtRest

-----------------------------------------------------------------------------
LEMMA SourceNames ==
  /\ DOMAIN Sources = {1, 2} /\ Sources[1] = "/keyb" /\ Sources[2] = "/gps"
  /\ {"/keyb", "/gps"} = {Sources[i] : i \in {1, 2}}
  BY DEF Sources

\* Setting flags of a task that waits for all: it waits on, or it has got them all.
LEMMA SetFlag ==
  ASSUME NEW t \in Tcb(Awaited), NEW d \in Awaited,
         Blocked(t) => t.waits = Awaited
  PROVE  /\ SignalSet(t, {d}) \in Tcb(Awaited)
         /\ \/ /\ SignalSet(t, {d}).events = t.events \union {d}
               /\ Blocked(SignalSet(t, {d})) <=> Blocked(t)
               /\ SignalSet(t, {d}).waits = t.waits /\ SignalSet(t, {d}).status = t.status
            \/ /\ Blocked(t) /\ ~Blocked(SignalSet(t, {d}))
               /\ Awaited \subseteq t.events \union {d}
               /\ SignalSet(t, {d}).events = {} /\ SignalSet(t, {d}).status = "osEventSignal"
<1> DEFINE set == [t EXCEPT !.events = @ \union {d}]
<1>1. set \in Tcb(Awaited) /\ set.events = t.events \union {d} /\ set.waits = t.waits
      /\ set.state = t.state /\ set.status = t.status
  BY DEF Tcb
<1>2. CASE Blocked(t) /\ t.waits \subseteq set.events
  <2>1. SignalSet(t, {d}) = Signalled(set, Awaited)
    BY <1>2 DEF SignalSet
  <2>2. Signalled(set, Awaited) \in Tcb(Awaited) /\ Signalled(set, Awaited).events = {}
        /\ Signalled(set, Awaited).state = "READY" /\ Signalled(set, Awaited).status = "osEventSignal"
    BY <1>1 DEF Signalled, Tcb, TcbStates, Statuses
  <2> QED
    BY <1>1, <1>2, <2>1, <2>2 DEF Blocked
<1>3. CASE ~(Blocked(t) /\ t.waits \subseteq set.events)
  <2>1. SignalSet(t, {d}) = set
    BY <1>3 DEF SignalSet
  <2> QED
    BY <1>1, <2>1 DEF Blocked
<1> QED
  BY <1>2, <1>3

\* The broker has room for the alarm and the status beside the keys and the position.
LEMMA PublishedOthers ==
  ASSUME Shape, NEW n \in {"/alarm", "/stat"}, Published(n, AlarmSize)
  PROVE  /\ subscribed' = subscribed /\ DOMAIN outstanding' = Topics
         /\ \A i \in {1, 2} : outstanding'[Sources[i]] = outstanding[Sources[i]]
         /\ \A m \in {"/keyb", "/gps"} : outstanding'[m] = outstanding[m]
  BY SourceNames DEF Shape, Published, B!Accept, broker, Topics

-----------------------------------------------------------------------------
LEMMA InitInv == Init => Inv
<1> SUFFICES ASSUME Init PROVE Inv
  OBVIOUS
<1>1. Shape
  BY DEF Init, Shape, TcbInit, Tcb, TcbStates, Statuses, RxInit, Labels
<1>2. Waiting /\ Copied /\ AtRest
  BY DEF Init, Waiting, Copied, AtRest, Owed, TcbInit, Blocked, RxInit, Topics
<1>3. Standing
  BY SourceNames DEF Init, Standing, Owed, Coming, TcbInit, Topics
<1> QED
  BY <1>1, <1>2, <1>3 DEF Inv

\* A publisher finds the topic free: its flag was not set and no handler was to come.
LEMMA PublishInv ==
  ASSUME Inv, NEW n \in {"/keyb", "/gps"}, Publish(n)
  PROVE  Inv'
<1> USE SourceNames DEF Inv
<1>1. PICK k \in {1, 2} : n = Sources[k]
  OBVIOUS
<1>2. /\ outstanding[n] = {} /\ outstanding' = [outstanding EXCEPT ![n] = subscribed[n]]
      /\ buffer' = [buffer EXCEPT ![n] = "owed"] /\ subscribed' = subscribed /\ pc # "missed"
      /\ tcb' = SignalSet(tcb, {n})
      /\ pc' = pc /\ at' = at /\ armed' = armed /\ rx' = rx /\ tx' = tx
  BY DEF Publish, B!Accept
<1>3. /\ outstanding'[n] = {VR} /\ DOMAIN outstanding' = Topics
      /\ DOMAIN buffer' = {"/keyb", "/gps"} /\ buffer'[n] = "owed"
      /\ \A i \in {1, 2} : i # k => outstanding'[Sources[i]] = outstanding[Sources[i]]
      /\ \A m \in {"/keyb", "/gps"} :
           m # n => outstanding'[m] = outstanding[m] /\ buffer'[m] = buffer[m]
  BY <1>1, <1>2 DEF Shape, Topics
<1>4. n \notin tcb.events /\ ~Coming(k)
  BY <1>1, <1>2 DEF Standing, Owed
<1>5. /\ tcb' \in Tcb(Awaited)
      /\ \/ /\ tcb'.events = tcb.events \union {n} /\ (Blocked(tcb') <=> Blocked(tcb))
            /\ tcb'.waits = tcb.waits /\ tcb'.status = tcb.status
         \/ /\ Blocked(tcb) /\ ~Blocked(tcb') /\ Awaited \subseteq tcb.events \union {n}
            /\ tcb'.events = {} /\ tcb'.status = "osEventSignal"
  <2>1. n \in Awaited
    BY DEF Awaited
  <2>2. tcb \in Tcb(Awaited) /\ (Blocked(tcb) => tcb.waits = Awaited)
    BY DEF Shape, Waiting
  <2> QED
    BY <1>2, <2>1, <2>2, SetFlag
<1>6. Shape' /\ Waiting' /\ AtRest'
  BY <1>2, <1>3, <1>5 DEF Shape, Waiting, AtRest
<1>7. Copied'
  BY <1>2, <1>3 DEF Copied, Owed
<1>8. Standing'
  <2>1. CASE tcb'.events = tcb.events \union {n} /\ (Blocked(tcb') <=> Blocked(tcb))
             /\ tcb'.status = tcb.status
    <3>1. \A i \in {1, 2} : Coming(i)' <=> Coming(i)
      BY <1>2, <2>1 DEF Coming
    <3> QED
      BY <1>1, <1>2, <1>3, <1>4, <2>1, <3>1 DEF Standing, Owed
  <2>2. CASE /\ Blocked(tcb) /\ ~Blocked(tcb') /\ Awaited \subseteq tcb.events \union {n}
             /\ tcb'.events = {} /\ tcb'.status = "osEventSignal"
    <3>1. \A i \in {1, 2} : Coming(i)' /\ ~(Sources[i] \in tcb'.events)
      BY <1>2, <2>2 DEF Coming, Waiting
    <3>2. \A i \in {1, 2} : Owed(Sources[i])'
      BY <1>1, <1>2, <1>3, <2>2 DEF Standing, Owed, Awaited
    <3> QED
      BY <3>1, <3>2 DEF Standing
  <2> QED
    BY <1>5, <2>1, <2>2
<1> QED
  BY <1>6, <1>7, <1>8

\* A byte sets the third flag only.
LEMMA ArriveInv ==
  ASSUME Inv, Arrive
  PROVE  Inv'
<1> USE SourceNames DEF Inv
<1>1. /\ tcb' = SignalSet(tcb, {DATAREADY}) /\ UNCHANGED <<broker, buffer, at, armed, rx, tx>>
      /\ pc # "missed"
      /\ \/ pc' = pc
         \/ pc \in {"poll", "getc"} /\ pc' \in {"getc", "read"}
  BY DEF Arrive
<1>2. /\ tcb' \in Tcb(Awaited)
      /\ \/ /\ tcb'.events = tcb.events \union {DATAREADY} /\ (Blocked(tcb') <=> Blocked(tcb))
            /\ tcb'.waits = tcb.waits /\ tcb'.status = tcb.status
         \/ /\ Blocked(tcb) /\ ~Blocked(tcb') /\ Awaited \subseteq tcb.events \union {DATAREADY}
            /\ tcb'.events = {} /\ tcb'.status = "osEventSignal"
  <2>1. DATAREADY \in Awaited
    BY DEF Awaited
  <2>2. tcb \in Tcb(Awaited) /\ (Blocked(tcb) => tcb.waits = Awaited)
    BY DEF Shape, Waiting
  <2>3. \A d \in Awaited :
          /\ SignalSet(tcb, {d}) \in Tcb(Awaited)
          /\ \/ /\ SignalSet(tcb, {d}).events = tcb.events \union {d}
                /\ Blocked(SignalSet(tcb, {d})) <=> Blocked(tcb)
                /\ SignalSet(tcb, {d}).waits = tcb.waits /\ SignalSet(tcb, {d}).status = tcb.status
             \/ /\ Blocked(tcb) /\ ~Blocked(SignalSet(tcb, {d}))
                /\ Awaited \subseteq tcb.events \union {d}
                /\ SignalSet(tcb, {d}).events = {} /\ SignalSet(tcb, {d}).status = "osEventSignal"
    BY <2>2, SetFlag, ZenonT(30)
  <2> QED
    BY <1>1, <2>1, <2>3
<1>3. Shape' /\ Waiting' /\ AtRest' /\ Copied'
  BY <1>1, <1>2 DEF Shape, Waiting, AtRest, Copied, Owed, Labels, broker
<1>4. \A i \in {1, 2} : Sources[i] # DATAREADY /\ (Owed(Sources[i])' <=> Owed(Sources[i]))
  BY <1>1 DEF DATAREADY, Owed, broker
<1>5. Standing'
  <2>1. CASE tcb'.events = tcb.events \union {DATAREADY} /\ (Blocked(tcb') <=> Blocked(tcb))
             /\ tcb'.status = tcb.status
    BY <1>1, <1>4, <2>1 DEF Standing, Coming
  <2>2. CASE /\ Blocked(tcb) /\ ~Blocked(tcb') /\ Awaited \subseteq tcb.events \union {DATAREADY}
             /\ tcb'.events = {} /\ tcb'.status = "osEventSignal"
    BY <1>1, <1>4, <2>2 DEF Standing, Coming, Waiting, Awaited
  <2> QED
    BY <1>2, <2>1, <2>2
<1> QED
  BY <1>3, <1>5

\* The wait begins, and is over at once when all flags are there.
LEMMA WaitInv ==
  ASSUME Inv, Wait
  PROVE  Inv'
<1> USE SourceNames DEF Inv
<1>1. pc = "wait" /\ pc' = "blocked" /\ tcb' = SignalWait(tcb, Awaited)
      /\ UNCHANGED <<broker, buffer, at, armed, rx, tx>> /\ tcb \in Tcb(Awaited) /\ ~Blocked(tcb)
  BY DEF Wait, Shape, Waiting
<1>2. CASE Awaited \subseteq tcb.events
  <2>1. /\ tcb' \in Tcb(Awaited) /\ tcb'.events = {} /\ ~Blocked(tcb')
        /\ tcb'.status = "osEventSignal"
    BY <1>1, <1>2 DEF SignalWait, Signalled, Tcb, TcbStates, Statuses, Blocked
  <2>2. Standing'
    BY <1>1, <1>2, <2>1 DEF Standing, Coming, Owed, broker, Awaited
  <2> QED
    BY <1>1, <2>1, <2>2 DEF Shape, Waiting, Copied, Owed, AtRest, broker, Labels
<1>3. CASE ~(Awaited \subseteq tcb.events)
  <2>1. /\ tcb' \in Tcb(Awaited) /\ tcb'.events = tcb.events /\ Blocked(tcb')
        /\ tcb'.waits = Awaited
    BY <1>1, <1>3 DEF SignalWait, Tcb, TcbStates, Blocked
  <2>2. Standing'
    BY <1>1, <2>1 DEF Standing, Coming, Owed, broker
  <2> QED
    BY <1>1, <2>1, <2>2 DEF Shape, Waiting, Copied, Owed, AtRest, broker, Labels
<1> QED
  BY <1>2, <1>3

\* The timeout and the steps of run() up to the handlers of the topics.
LEMMA PassInv ==
  ASSUME Inv, TimeOut \/ Wake \/ GiveUp \/ ClearData \/ NoMore \/ Decode \/ Stat
  PROVE  Inv'
<1> USE SourceNames DEF Inv
<1>1. CASE TimeOut
  <2>1. /\ tcb' \in Tcb(Awaited) /\ tcb'.events = tcb.events /\ ~Blocked(tcb')
        /\ tcb'.status = "osEventTimeout" /\ Blocked(tcb)
    BY <1>1 DEF TimeOut, WaitTimeout, Shape, Tcb, TcbStates, Statuses, Blocked
  <2>2. pc = "blocked" /\ UNCHANGED <<broker, buffer, pc, at, armed, rx, tx>>
    BY <1>1 DEF TimeOut, Waiting
  <2>3. Standing'
    BY <2>1, <2>2 DEF Standing, Coming, Owed, broker
  <2> QED
    BY <2>1, <2>2, <2>3 DEF Shape, Waiting, Copied, Owed, AtRest, broker
<1>2. CASE Wake
  <2>1. /\ pc = "blocked" /\ ~Blocked(tcb) /\ tcb.status \in {"osEventSignal", "osEventTimeout"}
        /\ pc' = (IF tcb.status = "osEventTimeout" THEN "timeout" ELSE "data")
        /\ UNCHANGED <<broker, buffer, tcb, at, armed, rx, tx>>
    BY <1>2 DEF Wake, Waiting, Shape, Tcb, Statuses
  <2>2. Standing'
    BY <2>1 DEF Standing, Coming, Owed, broker
  <2> QED
    BY <2>1, <2>2 DEF Shape, Waiting, Copied, Owed, AtRest, broker, Labels
<1>3. CASE GiveUp
  <2>1. /\ pc = "timeout" /\ pc' = "wait" /\ UNCHANGED <<buffer, tcb, at, tx>>
        /\ \/ /\ rx.stat # "WAIT_COMMAND" /\ Published("/alarm", AlarmSize)
              /\ armed' = FALSE /\ rx' = [rx EXCEPT !.stat = "WAIT_COMMAND"]
           \/ rx.stat = "WAIT_COMMAND" /\ UNCHANGED <<broker, armed, rx>>
    BY <1>3 DEF GiveUp
  <2>2. /\ subscribed' = subscribed /\ DOMAIN outstanding' = Topics
        /\ \A i \in {1, 2} : outstanding'[Sources[i]] = outstanding[Sources[i]]
        /\ \A m \in {"/keyb", "/gps"} : outstanding'[m] = outstanding[m]
    BY <2>1, PublishedOthers DEF Shape, broker
  <2>3. Standing'
    BY <2>1, <2>2 DEF Standing, Coming, Owed, Shape
  <2>4. AtRest'
    BY <2>1 DEF AtRest, Shape
  <2> QED
    BY <2>1, <2>2, <2>3, <2>4 DEF Shape, Waiting, Copied, Owed, Labels
<1>4. CASE ClearData
  <2>1. /\ pc = "data" /\ pc' = "poll" /\ tcb' = SignalClr(tcb, {DATAREADY})
        /\ UNCHANGED <<broker, buffer, at, armed, rx, tx>> /\ ~Blocked(tcb)
    BY <1>4 DEF ClearData, Waiting
  <2>2. /\ tcb' \in Tcb(Awaited) /\ tcb'.events = tcb.events \ {DATAREADY} /\ ~Blocked(tcb')
    BY <2>1 DEF SignalClr, Shape, Tcb, Blocked
  <2>3. Standing'
    BY <2>1, <2>2 DEF Standing, Coming, Owed, broker
  <2> QED
    BY <2>1, <2>2, <2>3 DEF Shape, Waiting, Copied, Owed, AtRest, broker, Labels
<1>5. CASE NoMore
  <2>1. /\ pc = "poll" /\ pc' = "clear" /\ at' = 1 /\ UNCHANGED <<broker, buffer, tcb, armed, rx, tx>>
    BY <1>5 DEF NoMore
  <2>2. Standing'
    BY <2>1 DEF Standing, Coming, Owed, broker
  <2> QED
    BY <2>1, <2>2 DEF Shape, Waiting, Copied, Owed, AtRest, broker, Labels
<1>6. CASE Decode
  <2>1. /\ pc = "read" /\ pc' \in {"poll", "stat"} /\ UNCHANGED <<broker, buffer, tcb, at, armed, tx>>
        /\ rx' = (IF Ready(rx, dr) THEN rx ELSE Decoded(rx, dr))
    BY <1>6 DEF Decode
  <2>2. rx' = [stat |-> rx'.stat, size |-> rx'.size, data |-> rx'.data]
    BY <2>1 DEF Decoded, Shape
  <2>3. Standing'
    BY <2>1 DEF Standing, Coming, Owed, broker
  <2> QED
    BY <2>1, <2>2, <2>3 DEF Shape, Waiting, Copied, Owed, AtRest, broker, Labels
<1>7. CASE Stat
  <2>1. /\ pc = "stat" /\ pc' = "poll" /\ Published("/stat", AlarmSize)
        /\ armed' = FALSE /\ rx' = [rx EXCEPT !.stat = "WAIT_COMMAND"] /\ UNCHANGED <<buffer, tcb, at, tx>>
    BY <1>7 DEF Stat
  <2>2. /\ subscribed' = subscribed /\ DOMAIN outstanding' = Topics
        /\ \A i \in {1, 2} : outstanding'[Sources[i]] = outstanding[Sources[i]]
        /\ \A m \in {"/keyb", "/gps"} : outstanding'[m] = outstanding[m]
    BY <2>1, PublishedOthers
  <2>3. Standing'
    BY <2>1, <2>2 DEF Standing, Coming, Owed
  <2> QED
    BY <2>1, <2>2, <2>3 DEF Shape, Waiting, Copied, Owed, AtRest, Labels
<1> QED
  BY <1>1, <1>2, <1>3, <1>4, <1>5, <1>6, <1>7

\* The handlers: flag, copy, consumed, send.
LEMMA HandlerInv ==
  ASSUME Inv, ClearKey \/ Copy \/ Consume \/ Send
  PROVE  Inv'
<1> USE SourceNames DEF Inv
<1>1. CASE ClearKey
  <2>1. /\ pc = "clear" /\ pc' = "copy" /\ tcb' = SignalClr(tcb, {Sources[at]})
        /\ UNCHANGED <<broker, buffer, at, armed, rx, tx>> /\ ~Blocked(tcb)
    BY <1>1 DEF ClearKey, Waiting
  <2>2. Sources[at] \notin tcb.events
    BY <2>1 DEF Standing, Coming, Shape
  <2>3. /\ tcb' \in Tcb(Awaited) /\ tcb'.events = tcb.events /\ ~Blocked(tcb')
    BY <2>1, <2>2 DEF SignalClr, Shape, Tcb, Blocked
  <2>4. Standing'
    BY <2>1, <2>3 DEF Standing, Coming, Owed, broker
  <2> QED
    BY <2>1, <2>3, <2>4 DEF Shape, Waiting, Copied, Owed, AtRest, broker, Labels
<1>2. CASE Copy
  <2>1. /\ pc = "copy" /\ UNCHANGED <<broker, buffer, tcb, at, armed, rx>>
        /\ \/ pc' = "consume" /\ tx' = buffer[Sources[at]]
           \/ pc' = "missed"
    BY <1>2 DEF Copy
  <2>2. Owed(Sources[at])
    BY <2>1 DEF Standing, Coming, Shape
  <2>3. Standing'
    BY <2>1 DEF Standing, Coming, Owed, broker
  <2>4. pc' = "consume" => tx' \in {"owed", "later"}
    BY <2>1, <2>2 DEF Copied, Shape
  <2> QED
    BY <2>1, <2>3, <2>4 DEF Shape, Waiting, Copied, Owed, AtRest, broker, Labels
<1>3. CASE Consume
  <2>1. pc = "consume" /\ UNCHANGED <<tcb, at, armed, rx, tx>>
    BY <1>3 DEF Consume
  <2>2. VR \in outstanding[Sources[at]] /\ Sources[at] \notin tcb.events
    BY <2>1 DEF Standing, Coming, Owed, Shape
  <2>3. CASE pc' = "missed"
    BY <1>3, <2>1, <2>3 DEF Consume, B!Consume, Shape, Waiting, Copied, Owed, AtRest, Standing,
       broker, Labels
  <2>4. CASE pc' # "missed"
    <3>1. /\ pc' = "send" /\ outstanding' = [outstanding EXCEPT ![Sources[at]] = @ \ {VR}]
          /\ buffer' = [buffer EXCEPT ![Sources[at]] = IF @ = "owed" THEN "given" ELSE @]
          /\ subscribed' = subscribed
      BY <1>3, <2>2, <2>4 DEF Consume, B!Consume
    <3>2. /\ VR \notin outstanding'[Sources[at]] /\ DOMAIN outstanding' = Topics
          /\ \A i \in {1, 2} : i # at => outstanding'[Sources[i]] = outstanding[Sources[i]]
          /\ \A m \in {"/keyb", "/gps"} :
               m # Sources[at] => outstanding'[m] = outstanding[m] /\ buffer'[m] = buffer[m]
      BY <3>1 DEF Shape, Topics
    <3>3. \A i \in {1, 2} : i # at => (Coming(i)' <=> Coming(i))
      BY <2>1, <3>1 DEF Coming, Shape
    <3>4. ~Coming(at)'
      BY <2>1, <3>1 DEF Coming, Shape
    <3>5. Standing'
      BY <2>1, <2>2, <3>2, <3>3, <3>4 DEF Standing, Owed
    <3>6. Copied'
      BY <3>1, <3>2 DEF Copied, Owed
    <3> QED
      BY <2>1, <3>1, <3>2, <3>5, <3>6 DEF Shape, Waiting, AtRest, Labels
  <2> QED
    BY <2>3, <2>4
<1>4. CASE Send
  <2>1. /\ pc = "send" /\ armed' = TRUE /\ rx' = [rx EXCEPT !.stat = "WAIT_RESPONSE"]
        /\ UNCHANGED <<broker, buffer, tcb, tx>>
        /\ \/ at = 1 /\ at' = 2 /\ pc' = "clear"
           \/ at = 2 /\ at' = 1 /\ pc' = "wait"
    BY <1>4 DEF Send, Shape
  <2>2. \A i \in {1, 2} : Coming(i)' <=> Coming(i)
    BY <2>1 DEF Coming
  <2>3. Standing'
    BY <2>1, <2>2 DEF Standing, Owed, broker
  <2>4. AtRest'
    BY <2>1 DEF AtRest, Shape
  <2> QED
    BY <2>1, <2>3, <2>4 DEF Shape, Waiting, Copied, Owed, broker, Labels
<1> QED
  BY <1>1, <1>2, <1>3, <1>4

\* Inv is inductive.
LEMMA NextInv == Inv /\ [Next]_vars => Inv'
<1> SUFFICES ASSUME Inv, [Next]_vars PROVE Inv'
  OBVIOUS
<1> USE SourceNames
<1>1. ASSUME NEW n \in {"/alarm", "/stat"}, ConsumeOther(n) PROVE Inv'
  <2>1. /\ outstanding' = [outstanding EXCEPT ![n] = @ \ {SM}] /\ subscribed' = subscribed
        /\ UNCHANGED <<buffer, tcb, pc, at, armed, rx, tx>>
    BY <1>1 DEF ConsumeOther, B!Consume
  <2>2. /\ DOMAIN outstanding' = Topics
        /\ \A i \in {1, 2} : outstanding'[Sources[i]] = outstanding[Sources[i]]
        /\ \A m \in {"/keyb", "/gps"} : outstanding'[m] = outstanding[m]
    BY <2>1 DEF Inv, Shape, Topics
  <2>3. Standing'
    BY <2>1, <2>2 DEF Inv, Standing, Coming, Owed
  <2> QED
    BY <2>1, <2>2, <2>3 DEF Inv, Shape, Waiting, Copied, Owed, AtRest
<1>2. ASSUME NEW data \in Answers, Answer(data) PROVE Inv'
  BY <1>2 DEF Answer, Inv, Shape, Waiting, Standing, Coming, Owed, Copied, AtRest, broker
<1>3. ASSUME NEW n \in {"/keyb", "/gps"}, Write(n) PROVE Inv'
  <2>1. /\ buffer' = [buffer EXCEPT ![n] = "later"]
        /\ UNCHANGED <<broker, tcb, pc, at, armed, rx, tx>>
    BY <1>3 DEF Write
  <2>2. Copied'
    BY <2>1 DEF Inv, Shape, Copied, Owed, broker
  <2> QED
    BY <2>1, <2>2 DEF Inv, Shape, Waiting, Standing, Coming, Owed, AtRest, broker
<1>4. CASE UNCHANGED vars
  BY <1>4 DEF vars, Inv, Shape, Waiting, Standing, Coming, Owed, Copied, AtRest
<1> QED
  BY <1>1, <1>2, <1>3, <1>4, PublishInv, ArriveInv, WaitInv, PassInv, HandlerInv DEF Next, Run

LEMMA Invariance == Spec => []Inv
  BY InitInv, NextInv, PTL DEF Spec

\* While run() owes consumed() for a key or a position, the flag of the topic is set or
\* its handler is still to come: clearing the flag before the copy loses nothing.
THEOREM ForgetsNothing == Spec => []NothingForgotten
<1>1. Inv => NothingForgotten
  BY SourceNames DEF Inv, Standing, Coming, NothingForgotten
<1> QED
  BY <1>1, Invariance, PTL

\* signal_wait has a timeout exactly when a response is awaited, and the decoder is
\* never in the middle of one then: ALARM_WRONG_RESPONSE is never raised.
THEOREM TimeoutFollows == Spec => []TimeoutArmed
<1>1. Inv => TimeoutArmed
  BY DEF Inv, AtRest, TimeoutArmed
<1> QED
  BY <1>1, Invariance, PTL

\* Every command goes with an update that is still owed, so that none goes with it again,
\* and carries what was written with it or later, never what was given back.
THEOREM EachCommandIsOwed == Spec => []SendsWhatIsOwed
<1>1. Inv => SendsWhatIsOwed
  BY DEF Inv, Shape, Standing, Coming, Copied, SendsWhatIsOwed
<1> QED
  BY <1>1, Invariance, PTL
=============================================================================
