--------------------------- MODULE MCCommandLock ---------------------------
(* Small instances of CommandLock.  Processes that behave alike are        *)
(* interchangeable.                                                        *)
EXTENDS CommandLock, TLC

Alike == Permutations(Proc \ (Crashing \cup Stalling)) \cup
         Permutations(Crashing)
=============================================================================
