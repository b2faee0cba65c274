------------------------------ MODULE GpsReader ------------------------------
(***************************************************************************)
(* user-tasks/GpsReader.cpp on the receiving half of a UART: the shift     *)
(* register that fills the data register, the interrupt handler of         *)
(* serial_api.c, and the task, which looks at the registers too.  An       *)
(* interrupt is taken between two instructions.  A load of the status      *)
(* register may be the last instruction before it, so that the task        *)
(* decides on a status that the handler has changed since.                 *)
(*                                                                         *)
(* libgps_ProcessData is not there yet (a #warning): `ready` stays false,  *)
(* and /gps is never published.  What KeyDecoder has as well is named for  *)
(* the task here, so that one module can extend both.                      *)
(***************************************************************************)
EXTENDS RtxSignals, Integers

CONSTANT MaxBytes   \* bytes the module sends, numbered from 1

GpsFlags == {"GPS_EV_DATAREADY", "GPS_EV_DATASENT"}
Irqs  == {"RxIrq", "TxIrq"}

VARIABLES
  sent,      \* bytes that have arrived
  dr,        \* the data register: the number of a byte, 0 before the first
  rxne, tc,  \* bits of the status register: not read, transmission complete
  attached,  \* interrupts attached and enabled
  late,      \* the pending interrupt has let one load go first
  gpsTcb,    \* the thread
  gpsPc,     \* where run() is
  data,      \* the last byte read
  seen       \* a byte has come since run() last asked readable()

uart == <<sent, dr, rxne, tc>>
gpsVars == <<sent, dr, rxne, tc, attached, late, gpsTcb, gpsPc, data, seen>>

Pending == (rxne /\ "RxIrq" \in attached) \/ (tc /\ "TxIrq" \in attached)

-----------------------------------------------------------------------------
(* The device and its interrupt *)

\* A byte that finds the data register not read is dropped by the device.
Arrive ==
  /\ sent < MaxBytes /\ sent' = sent + 1
  /\ IF rxne THEN UNCHANGED <<dr, rxne>> ELSE dr' = sent + 1 /\ rxne' = TRUE
  /\ seen' = TRUE
  /\ UNCHANGED <<tc, attached, late, gpsTcb, gpsPc, data>>

\* The callbacks of uart_irq: RxISRCallback and TxISRCallback, once attached.
Raised == (IF rxne /\ "RxIrq" \in attached THEN {"GPS_EV_DATAREADY"} ELSE {})
            \union (IF tc /\ "TxIrq" \in attached THEN {"GPS_EV_DATASENT"} ELSE {})

\* Mutant: a thread that is not waiting is not told.
UartIrqIfWaiting ==
  /\ Pending
  /\ gpsTcb' = IF Blocked(gpsTcb) THEN SignalSet(gpsTcb, Raised) ELSE gpsTcb
  /\ tc' = FALSE /\ rxne' = FALSE /\ late' = FALSE
  /\ UNCHANGED <<sent, dr, attached, gpsPc, data, seen>>

\* uart_irq clears both bits when their callbacks are done.
UartIrq ==
  /\ Pending
  /\ gpsTcb' = SignalSet(gpsTcb, Raised)
  /\ tc' = FALSE /\ rxne' = FALSE /\ late' = FALSE
  /\ UNCHANGED <<sent, dr, attached, gpsPc, data, seen>>

-----------------------------------------------------------------------------
(* run() *)

Step(from, to) == ~Pending /\ gpsPc = from /\ gpsPc' = to

AttachIrq(irq, from, to) ==
  /\ Step(from, to)
  /\ attached' = attached \union {irq}
  /\ UNCHANGED <<sent, dr, rxne, tc, late, gpsTcb, data, seen>>

AwaitData ==
  /\ ~Pending /\ gpsPc = "wait"
  /\ gpsTcb' = SignalWait(gpsTcb, {"GPS_EV_DATAREADY"})
  /\ gpsPc' = IF Blocked(gpsTcb') THEN "blocked" ELSE "clear"
  /\ UNCHANGED <<uart, attached, late, data, seen>>

Wake ==
  /\ Step("blocked", "clear") /\ ~Blocked(gpsTcb)
  /\ UNCHANGED <<uart, attached, late, gpsTcb, data, seen>>

ClearReady ==
  /\ Step("clear", "readable")
  /\ gpsTcb' = SignalClr(gpsTcb, {"GPS_EV_DATAREADY"})
  /\ UNCHANGED <<uart, attached, late, data, seen>>

\* serial_readable loads the status register.
Load == /\ Pending => ~late
        /\ late' = Pending
        /\ UNCHANGED <<uart, attached, gpsTcb, data>>

Readable ==
  /\ gpsPc = "readable" /\ gpsPc' = IF rxne THEN "getc" ELSE "wait"
  /\ seen' = FALSE
  /\ Load

\* while (!serial_readable(obj));
Getc ==
  /\ gpsPc = "getc" /\ gpsPc' = IF rxne THEN "read" ELSE "getc"
  /\ UNCHANGED seen
  /\ Load

\* The load of the data register clears RXNE.
Read ==
  /\ Step("read", "readable")
  /\ data' = dr /\ rxne' = FALSE
  /\ UNCHANGED <<sent, dr, tc, attached, late, gpsTcb, seen>>

-----------------------------------------------------------------------------
\* The transmitter is idle after reset.
GpsInit ==
  /\ sent = 0 /\ dr = 0 /\ rxne = FALSE /\ tc = TRUE
  /\ attached = {} /\ late = FALSE
  /\ gpsTcb = TcbInit /\ gpsPc = "attach_rx" /\ data = 0 /\ seen = FALSE

GpsRun == \/ AttachIrq("RxIrq", "attach_rx", "attach_tx")
          \/ AttachIrq("TxIrq", "attach_tx", "wait")
          \/ AwaitData \/ Wake \/ ClearReady \/ Readable \/ Getc \/ Read

GpsNext == Arrive \/ UartIrq \/ GpsRun

GpsSpec == GpsInit /\ [][GpsNext]_gpsVars

-----------------------------------------------------------------------------
(* Properties *)

\* Every byte makes run() look at the receiver, whichever way the interrupts and its
\* steps fall: it does not sleep when a byte has come since it last asked readable(),
\* unless the interrupt that wakes it is pending.
LooksAgain == gpsPc = "blocked" /\ Blocked(gpsTcb) /\ seen => Pending
=============================================================================
