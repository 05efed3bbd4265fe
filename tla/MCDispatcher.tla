---------------------------- MODULE MCDispatcher ----------------------------
(***************************************************************************)
(* Instances of Dispatcher for TLC: two files, two requests at a time, a   *)
(* channel with room for one message and a timeout of one or two ticks.    *)
(***************************************************************************)
EXTENDS Dispatcher

CONSTANTS d1, d2   \* two files in drop
=============================================================================
