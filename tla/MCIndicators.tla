---------------------------- MODULE MCIndicators ----------------------------
(***************************************************************************)
(* The buzzer and the led together, with the commands SysManager gives and *)
(* some more.                                                              *)
(***************************************************************************)
EXTENDS Indicators

CONSTANTS b, l
BothTimers == {b, l}

\* What SysManager asks for, and a long beep, which it does not.
SomeBeeps == {<<4, 2, "REPEAT_FOREVER">>, <<1, 2, "NO_REPEAT">>, <<2, 2, "NO_REPEAT">>,
              <<1, 10, "REPEAT_FOREVER">>}
AllModes  == Modes
=============================================================================
