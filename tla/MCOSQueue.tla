----------------------------- MODULE MCOSQueue -----------------------------
(* OSQueue with the priorities of two receiving tasks of task_priority.h   *)
(* and a queue short enough to wrap and to fill.                           *)
EXTENDS OSQueue

MCTask == {6, 12}
MCOther == 5
=============================================================================
