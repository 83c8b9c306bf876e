---------------------------- MODULE MCEventQueue ----------------------------
(***************************************************************************)
(* Two producers and two consumers on a ring of two slots: the ring wraps, *)
(* fills and empties, two threads can sleep on the same condition, and one *)
(* that was woken can be overtaken by a fresh caller.                      *)
(***************************************************************************)
EXTENDS EventQueue
=============================================================================
