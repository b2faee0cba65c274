---------------------------- MODULE KeyDecoderNew ----------------------------
(***************************************************************************)
(* KeyDecoder from the first line of its constructor on: InterruptIn and   *)
(* gpio_irq_api.c under it, with the edges a line is set for and the       *)
(* interrupt vectors that lines share.  The InterruptIn objects are        *)
(* global: when the constructor starts, theirs have enabled every vector,  *)
(* with falling edges and no callback.  The object comes from new, so that *)
(* _th holds anything until the last lines assign it.  Once the            *)
(* constructor is through its keys, KeyDecoder.tla takes over.             *)
(***************************************************************************)
EXTENDS KeyDecoder, Naturals, Sequences

CONSTANTS
  Order,     \* the keys in the order of the constructor
  Vector     \* Vector[k]: the interrupt vector of the line of k

ASSUME NewAssumption ==
  /\ Order \in Seq(Keys) /\ Keys = {Order[i] : i \in DOMAIN Order}
  /\ \A i, j \in DOMAIN Order : Order[i] = Order[j] => i = j
  /\ DOMAIN Vector = Keys

VARIABLES
  edges,      \* edges[k]: the edges that latch the line of k
  enabled,    \* vectors enabled in the NVIC
  callback,   \* callback[k]: the edges whose callback is attached
  at, step,   \* the key and the call the constructor is at
  early       \* history: keys whose callback has used _th before it was assigned

task == <<irqOn, th, tcb, pc, todo, result, current, last, keycode, timeout>>
exti == <<pins, pend, early>>
allVars == <<vars, edges, enabled, callback, at, step, early>>

Vectors  == {Vector[k] : k \in Keys}
Steps    == <<"fall", "rise", "disable">>
Servable == {k \in pend : Vector[k] \in enabled}

Constructing == at <= Len(Order)

-----------------------------------------------------------------------------
\* A key goes down or up.
NewEdge(k) ==
  /\ Constructing
  /\ pins' = IF k \in pins THEN pins \ {k} ELSE pins \union {k}
  /\ pend' = IF (IF k \in pins THEN "rise" ELSE "fall") \in edges[k]
               THEN pend \union {k} ELSE pend
  /\ UNCHANGED <<task, edges, enabled, callback, at, step, early>>

\* The callback that the level of the line asks for is attached.
Calls(k) == (IF k \in pins THEN "fall" ELSE "rise") \in callback[k]

\* handle_interrupt_in takes the level of the line for the edge.  Both callbacks call
\* a method of _th, which is not assigned: a fault, or whatever it finds there has no
\* effect on what is modelled here.
NewIrq(k) ==
  /\ Constructing /\ pc # "fault" /\ k \in Servable
  /\ pend' = pend \ {k}
  /\ early' = IF Calls(k) THEN early \union {k} ELSE early
  /\ pc' = pc \/ (Calls(k) /\ pc' = "fault")
  /\ UNCHANGED <<irqOn, th, tcb, todo, result, current, last, keycode, timeout>>
  /\ UNCHANGED <<pins, edges, enabled, callback, at, step>>

-----------------------------------------------------------------------------
\* The next call, for this key or the next one.  An interrupt goes first.
Moves ==
  /\ Servable = {}
  /\ IF step < Len(Steps) THEN step' = step + 1 /\ at' = at
     ELSE at' = at + 1 /\ step' = 1

NewAt(call) == Constructing /\ pc # "fault" /\ Steps[step] = call /\ Moves

\* InterruptIn::fall and rise, with gpio_irq_set: an edge that was set by the other
\* call stays, the one of gpio_irq_init (event is EDGE_NONE) does not.
Attach(edge) ==
  /\ NewAt(edge)
  /\ callback' = [callback EXCEPT ![Order[at]] = @ \union {edge}]
  /\ edges' = [edges EXCEPT ![Order[at]] = callback[Order[at]] \union {edge}]
  /\ UNCHANGED <<task, exti, enabled>>

\* Mutant: the line is disabled, and not its vector.
DisableLine ==
  /\ NewAt("disable")
  /\ pend' = pend \ {Order[at]}
  /\ UNCHANGED <<task, pins, early, edges, enabled, callback>>

\* gpio_irq_disable disables the vector, for all lines that share it.
Disable ==
  /\ NewAt("disable")
  /\ enabled' = enabled \ {Vector[Order[at]]}
  /\ UNCHANGED <<task, exti, edges, callback>>

\* From _th = new Thread on; run() enables every vector again.
Run ==
  /\ ~Constructing /\ Next
  /\ enabled' = IF irqOn' THEN Vectors ELSE enabled
  /\ UNCHANGED <<edges, callback, at, step, early>>

-----------------------------------------------------------------------------
NewInit ==
  /\ Init /\ pend = {}
  /\ edges = [k \in Keys |-> {"fall"}] /\ callback = [k \in Keys |-> {}]
  /\ enabled = Vectors
  /\ at = 1 /\ step = 1 /\ early = {}

Construct == Attach("fall") \/ Attach("rise") \/ Disable

NewNext == Construct \/ Run \/ \E k \in Keys : NewEdge(k) \/ NewIrq(k)

\* The constructor is not held up for ever by a keyboard that settles; from there on
\* as in KeyDecoder.
NewFairness ==
  /\ WF_allVars(Construct)
  /\ WF_allVars(Task /\ Run) /\ WF_allVars(Timeout /\ Run)
  /\ \A k \in Keys : WF_allVars(NewIrq(k)) /\ WF_allVars(Irq(k) /\ Run)

NewSpec == NewInit /\ [][NewNext]_allVars /\ NewFairness

-----------------------------------------------------------------------------
(* Properties *)

FirstOfVector == {Order[i] : i \in {j \in DOMAIN Order :
                    \A h \in 1 .. j - 1 : Vector[Order[h]] # Vector[Order[j]]}}

\* Edges that come while the constructor runs use _th before it is assigned only on
\* the first key of each vector, between its fall() and its disable_irq(): the vector
\* of the keys that follow is disabled already.
OnlyFirstExposed == early \subseteq FirstOfVector

\* Those are the only interrupts that meet a _th that is not assigned: from the end of
\* the constructor on, run() enables the lines after _th.
FaultsOnlyEarly == pc = "fault" => early # {}
=============================================================================
