------------------------- MODULE MCRunnerFrameQueue -------------------------
(* Small instances of RunnerFrameQueue: a staged event is the largest      *)
(* legal frame, half the byte limit; every other frame is small.           *)
EXTENDS RunnerFrameQueue, TLC

MCSizeOf == [k \in Kind |-> IF k \in Stages THEN 8 ELSE 1]
=============================================================================
