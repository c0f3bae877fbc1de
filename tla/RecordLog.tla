------------------------------ MODULE RecordLog ------------------------------
(***************************************************************************)
(* What the native writer promises to the rest of the program: each call   *)
(* owns one log of records.  A record that was recorded is appended to the *)
(* log of the open call at that moment and never changes; sealing freezes  *)
(* the log and publishes its exact length; a call that fails promises      *)
(* nothing.  There are no rings, files or locks here: NativeWriter has     *)
(* them, and implements this module.                                       *)
(***************************************************************************)
EXTENDS Naturals, Sequences

CONSTANTS Calls,      \* the calls of a capture session, 1..MaxCalls
          Recs        \* the records an instrumented instruction can produce

VARIABLES state,      \* the life of each call
          log,        \* the records of each call
          total       \* the record count published when a call is sealed

logVars == <<state, log, total>>

LogTypeOK ==
  /\ state \in [Calls -> {"none", "open", "sealed", "failed"}]
  /\ log \in [Calls -> Seq(Recs)]
  /\ total \in [Calls -> Nat]

LogInit ==
  /\ state = [c \in Calls |-> "none"]
  /\ log = [c \in Calls |-> <<>>]
  /\ total = [c \in Calls |-> 0]

Open(c) ==
  /\ state[c] = "none"
  /\ \A d \in Calls : state[d] \notin {"open", "failed"}
  /\ state' = [state EXCEPT ![c] = "open"]
  /\ UNCHANGED <<log, total>>

Append1(c) ==
  /\ state[c] = "open"
  /\ \E r \in Recs : log' = [log EXCEPT ![c] = Append(@, r)]
  /\ UNCHANGED <<state, total>>

Seal(c) ==
  /\ state[c] = "open"
  /\ state' = [state EXCEPT ![c] = "sealed"]
  /\ total' = [total EXCEPT ![c] = Len(log[c])]
  /\ UNCHANGED log

Fail(c) ==
  /\ state[c] = "open"
  /\ state' = [state EXCEPT ![c] = "failed"]
  /\ log' = [log EXCEPT ![c] = <<>>]
  /\ UNCHANGED total

LogNext == \E c \in Calls : Open(c) \/ Append1(c) \/ Seal(c) \/ Fail(c)

LogSpec == LogInit /\ [][LogNext]_logVars
==============================================================================
