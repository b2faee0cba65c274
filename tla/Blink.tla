-------------------------------- MODULE Blink --------------------------------
(***************************************************************************)
(* What a sound or light indicator promises: after a command it goes       *)
(* through the steps of that command's plan, each of them on or off for    *)
(* exactly its number of ticks, and then back to the step loop, or to rest *)
(* if loop is 0.  A step of 0 ticks that is its own loop lasts for ever.   *)
(***************************************************************************)
EXTENDS Integers, Sequences

CONSTANTS Commands, Idle, Plan

VARIABLES
  cmd,    \* the command carried out, or Idle
  step,   \* the step of its plan, 0 at rest
  age     \* ticks the step has lasted

vars == <<cmd, step, age>>

Steps == Plan[cmd].steps
On == step > 0 /\ Steps[step].on

Init == cmd = Idle /\ step = 0 /\ age = 0

Command(c) == cmd' = c /\ step' = 1 /\ age' = 0

Rest == cmd' = Idle /\ step' = 0 /\ age' = 0

Tick ==
  /\ step > 0 /\ age < Steps[step].ticks
  /\ age' = age + 1 /\ UNCHANGED <<cmd, step>>

Advance ==
  /\ step > 0 /\ age = Steps[step].ticks
  /\ step' = IF step < Len(Steps) THEN step + 1 ELSE Plan[cmd].loop
  /\ cmd' = IF step' = 0 THEN Idle ELSE cmd
  /\ age' = 0

Next == Tick \/ Advance \/ Rest \/ \E c \in Commands : Command(c)

Spec == Init /\ [][Next]_vars
=============================================================================
