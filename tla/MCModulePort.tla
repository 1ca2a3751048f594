---------------------------- MODULE MCModulePort ----------------------------
(***************************************************************************)
(* A small instance of ModulePort for TLC: the tasks of the port lock.     *)
(***************************************************************************)
EXTENDS ModulePort

CONSTANTS c1, c2, m1, m2, m3

PortTasks == {c1, c2, m1, m2, m3}
=============================================================================
