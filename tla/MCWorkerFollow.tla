--------------------------- MODULE MCWorkerFollow ---------------------------
(* The instance TLC checks: a thread that runs before the first call, two   *)
(* that are created, places for two workers, two calls.                     *)
EXTENDS WorkerFollow, TLC

CONSTANTS resident1, spawned1, spawned2

MCTids == {resident1, spawned1, spawned2}
MCResidents == {resident1}

(* The two threads that are created are alike.                              *)
Alike == Permutations({spawned1, spawned2})
=============================================================================
