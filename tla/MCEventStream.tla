---------------------------- MODULE MCEventStream ----------------------------
(* Model values for the runs of EventStream: the semantic stream, and one   *)
(* that two threads push to.                                                *)
EXTENDS EventPages
CONSTANTS p, q

Alone == [guarded |-> TRUE, pushers |-> {p}, events |-> 5, calls |-> 2]
Race == [guarded |-> FALSE, pushers |-> {p, q}, events |-> 2, calls |-> 1]

MCKinds == {Alone, Race}
==============================================================================
