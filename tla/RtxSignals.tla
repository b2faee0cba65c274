----------------------------- MODULE RtxSignals -----------------------------
(***************************************************************************)
(* Signal flags of an RTX thread (rt_Event.c, reached from                 *)
(* Thread::signal_wait, signal_set and signal_clr through rt_CMSIS.c).  A  *)
(* thread control block is reduced to its event word, the flags it waits   *)
(* for, and what the wait it was last in gave back.  The program always    *)
(* names the flags it waits for, and svcSignalWait then asks for ALL of    *)
(* them (rt_evt_wait with and_wait = __TRUE).                              *)
(***************************************************************************)
EXTENDS FiniteSets

TcbStates == {"READY", "WAIT_AND"}
Statuses  == {"none", "osEventSignal", "osEventTimeout"}

Tcb(Flags) == [state : TcbStates, events : SUBSET Flags,
               waits : SUBSET Flags, status : Statuses]

TcbInit == [state |-> "READY", events |-> {}, waits |-> {}, status |-> "none"]

Blocked(tcb) == tcb.state = "WAIT_AND"

\* The wait for mask succeeds: its flags are taken.
Signalled(tcb, mask) ==
  [tcb EXCEPT !.state = "READY", !.events = @ \ mask, !.status = "osEventSignal"]

\* rt_evt_wait, called by the running thread.
SignalWait(tcb, mask) ==
  IF mask \subseteq tcb.events
    THEN Signalled(tcb, mask)
    ELSE [tcb EXCEPT !.state = "WAIT_AND", !.waits = mask]

\* rt_evt_set, and rt_evt_psh which an interrupt's isr_evt_set ends in.
SignalSet(tcb, flags) ==
  LET set == [tcb EXCEPT !.events = @ \union flags]
  IN  IF Blocked(tcb) /\ tcb.waits \subseteq set.events
        THEN Signalled(set, tcb.waits)
        ELSE set

\* rt_evt_clr
SignalClr(tcb, flags) == [tcb EXCEPT !.events = @ \ flags]

\* The delay of a blocked thread runs out: the flags set so far stay set.
WaitTimeout(tcb) == [tcb EXCEPT !.state = "READY", !.status = "osEventTimeout"]
=============================================================================
