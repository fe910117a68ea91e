---------------------------- MODULE MCRegistries ----------------------------
(* TLC instance: one task, one-shot or recurring, and one thread.  A task    *)
(* meets the others only where some of them settles, and those are not named; *)
(* a thread meets no other.                                                  *)
EXTENDS Registries

CONSTANTS c, th

MCLimits == {[failures |-> 1, iterations |-> 1, stopAfter |-> 0]}
=============================================================================
