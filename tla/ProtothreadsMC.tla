--------------------------- MODULE ProtothreadsMC ---------------------------
(***************************************************************************)
(* An instance of the threads for TLC: two threads with one unit between   *)
(* them, one of them with a child that has delays too.  A counter of three *)
(* bits and a time of five ticks, the longest one that two turns of the    *)
(* scheduler with a tick each leave room for.                              *)
(***************************************************************************)
EXTENDS ProtothreadsProps, TLC

CONSTANTS a, b, c, mutex, unit

Threads == {a, b, c}
Two == <<a, b>>
ChildOf == b :> c
Own == [t \in Threads |-> t]
Given == {0, 5}

Operations == a :> {"PT_DELAY", "PT_SEM_WAIT", "PT_SEM_SIGNAL", "PT_RESTART"}
           @@ b :> {"PT_SPAWN", "PT_SEM_WAIT", "PT_SEM_SIGNAL", "PT_YIELD_UNTIL", "set"}
           @@ c :> {"PT_DELAY_F", "PT_WAIT_UNTIL", "PT_EXIT", "PT_END"}
=============================================================================
