------------------------------ MODULE MCTasks ------------------------------
(***************************************************************************)
(* SysManager below GpsReader, as main.cpp starts them: SysManager gets    *)
(* the processor when GpsReader sleeps in its wait.  A program that has    *)
(* stopped stops both.                                                     *)
(***************************************************************************)
EXTENDS MCSysManager, GpsReader

TasksVars == <<vars, gpsVars>>
TasksInit == Init /\ GpsInit
TasksNext == /\ ~Stopped
             /\ \/ Next /\ (Task => Blocked(gpsTcb)) /\ UNCHANGED gpsVars
                \/ GpsNext /\ UNCHANGED vars
TasksSpec == TasksInit /\ [][TasksNext]_TasksVars
=============================================================================
