---------------------------- MODULE WorkerFollow ----------------------------
(* Worker threads of a capture: hooks/pthread_follow.ts finds the threads   *)
(* the target has and creates, opens a trace file for each and follows it;  *)
(* core/ring.ts and agent.ts stop them when the call ends.                  *)
(*                                                                          *)
(* Three kinds of threads run the agent's JavaScript one at a time, but a   *)
(* native call - opening and closing a file, writing a tail - releases the  *)
(* JavaScript lock, so each such call ends a step: the target function's    *)
(* thread (the entry hook), any thread that calls pthread_create (its       *)
(* hook), and the JavaScript loop, which runs the timer that follows a new  *)
(* thread a millisecond after it was created.                               *)
(*                                                                          *)
(* A trace is named by its file, <<call, tid>>: the file is created with    *)
(* O_EXCL and open_retry waits for ever for one that exists.  The filters   *)
(* on system threads and on start addresses are left out: Tids are the      *)
(* threads that pass them.  Threads do not exit.                            *)
EXTENDS Integers, Sequences, FiniteSets

CONSTANTS Tids,          \* the target's threads besides the traced one
          Residents,     \* those that run before the first call
          MaxWorkers,    \* STATE.maxWorkerThreads
          MaxCalls       \* bound: calls captured

None == <<>>
Traces == (1..MaxCalls) \X Tids

ASSUME WorkersAssumption ==
  Residents \subseteq Tids /\ MaxWorkers \in Nat /\ MaxCalls \in Nat

VARIABLES
  alive, born,       \* the threads that run; the call each was created in
  call,              \* STATE.callIdx
  window,            \* STATE.fnEntered
  finalized,         \* STATE.callFinalized
  hooked,            \* STATE.pthreadHooksInstalled
  pending,           \* pendingWorkerReservations
  timers,            \* the timers set and not run, in order
  creating,          \* pthread_create calls between onEnter and onLeave
  loop,              \* the trace the JavaScript loop is opening, or None
  target,            \* where the entry hook is
  resident,          \* the trace the entry hook is opening, or None
  todo,              \* threads, then traces, of the loop the hook is in
  table,             \* STATE.workerTraces: tid -> trace
  followed,          \* STATE.followedWorkerTids
  stalked,           \* what Stalker runs on each thread: tid -> trace
  file,              \* each trace's file
  disposed,          \* traces whose native module was unloaded
  listed,            \* workerTraces of each call's manifest, {} before it
  overtaken          \* history: threads a timer was opening a trace for when a
                     \* call ended

hookVars == <<target, resident, todo>>
callVars == <<call, window, finalized, hooked>>
timerVars == <<pending, timers, creating, loop>>
traceVars == <<table, followed, stalked, file, disposed, listed>>
threadVars == <<alive, born>>
vars == <<hookVars, callVars, timerVars, traceVars, threadVars, overtaken>>

Init ==
  /\ alive = Residents /\ born = [t \in Tids |-> 0]
  /\ call = 0 /\ window = FALSE /\ finalized = FALSE /\ hooked = FALSE
  /\ pending = 0 /\ timers = <<>> /\ creating = {} /\ loop = None
  /\ target = "out" /\ resident = None /\ todo = {}
  /\ table = [t \in Tids |-> None] /\ followed = {}
  /\ stalked = [t \in Tids |-> None]
  /\ file = [w \in Traces |-> "none"] /\ disposed = {}
  /\ listed = [c \in 1..MaxCalls |-> {}] /\ overtaken = {}

InTable == {table[t] : t \in {x \in Tids : table[x] # None}}

-----------------------------------------------------------------------------
(* Opening and following: openWorkerTrace up to the file, and the rest of   *)
(* it with Stalker.follow once the file is there.                           *)

FullyBooked == Cardinality(followed) + pending >= MaxWorkers

Opened(w) ==
  \/ /\ file[w] = "none"
     /\ file' = [file EXCEPT ![w] = "open"]
     /\ table' = [table EXCEPT ![w[2]] = w]
     /\ stalked' = [stalked EXCEPT ![w[2]] = w]
     /\ followed' = followed \cup {w[2]}
     /\ UNCHANGED <<disposed, listed>>
  \/ \* Stalker.follow throws: the caller undoes what was opened
     /\ file[w] = "none"
     /\ file' = [file EXCEPT ![w] = "closed"]
     /\ disposed' = disposed \cup {w}
     /\ table' = [table EXCEPT ![w[2]] = None]
     /\ UNCHANGED <<stalked, followed, listed>>
  \/ \* the module does not compile: the caller has no worker to undo
     /\ file[w] = "none"
     /\ file' = [file EXCEPT ![w] = "open"]
     /\ UNCHANGED <<table, stalked, followed, disposed, listed>>

-----------------------------------------------------------------------------
(* The entry hook: beginCaptureSession, which lets go of the last call's    *)
(* workers, then the loop over the threads that already run.                *)

MayBegin == target = "out" /\ call < MaxCalls

BeginCall ==
  /\ MayBegin
  /\ call' = call + 1 /\ window' = TRUE /\ finalized' = FALSE /\ UNCHANGED hooked
  /\ followed' = {} /\ table' = [t \in Tids |-> None]
  /\ file' = [w \in Traces |-> IF w \in InTable THEN "closed" ELSE file[w]]
  /\ disposed' = disposed \cup InTable
  /\ target' = "starting" /\ UNCHANGED <<resident, todo>>
  /\ UNCHANGED <<threadVars, timerVars, stalked, listed, overtaken>>

(* The trace files are open and the traced thread followed.                 *)
ListResidents ==
  /\ target = "starting"
  /\ target' = "residents" /\ todo' = alive
  /\ UNCHANGED <<threadVars, callVars, timerVars, traceVars, resident, overtaken>>

SkipResident(t) ==
  /\ target = "residents" /\ t \in todo
  /\ t \in followed
  /\ todo' = todo \ {t}
  /\ UNCHANGED <<threadVars, callVars, timerVars, traceVars, target, resident, overtaken>>

OpenResident(t) ==
  /\ target = "residents" /\ t \in todo
  /\ t \notin followed /\ ~FullyBooked
  /\ todo' = todo \ {t} /\ resident' = <<call, t>> /\ target' = "opening"
  /\ UNCHANGED <<threadVars, callVars, timerVars, traceVars, overtaken>>

ResidentOpened ==
  /\ target = "opening"
  /\ Opened(resident)
  /\ resident' = None /\ target' = "residents"
  /\ UNCHANGED <<threadVars, callVars, timerVars, todo, overtaken>>

(* The loop ends, at the cap or with the last thread; the hook is set once. *)
ResidentsDone ==
  /\ target = "residents"
  /\ todo = {} \/ (FullyBooked /\ \E t \in todo : t \notin followed)
  /\ target' = "running" /\ todo' = {} /\ hooked' = TRUE
  /\ UNCHANGED <<threadVars, call, window, finalized, timerVars, traceVars, resident, overtaken>>

-----------------------------------------------------------------------------
(* pthread_create: onEnter remembers the threads that run; onLeave, with    *)
(* the new one running, reserves a place and sets the timer.                *)

CreateEnter(t) ==
  /\ t \notin alive /\ \A c \in creating : c.tid # t
  /\ creating' = creating \cup {[tid |-> t, pre |-> alive, call |-> call, seen |-> hooked]}
  /\ UNCHANGED <<threadVars, callVars, hookVars, pending, timers, loop, traceVars, overtaken>>

Reserves(c) == c.seen /\ window /\ c.call = call /\ ~FullyBooked

CreateLeave(c) ==
  /\ creating' = creating \ {c}
  /\ alive' = alive \cup {c.tid} /\ born' = [born EXCEPT ![c.tid] = call]
  /\ IF Reserves(c)
       THEN /\ pending' = pending + 1
            /\ timers' = Append(timers, [call |-> call, pre |-> c.pre])
       ELSE UNCHANGED <<pending, timers>>
  /\ UNCHANGED <<callVars, hookVars, loop, traceVars, overtaken>>

-----------------------------------------------------------------------------
(* The timer gives its reservation back and looks at the call and the cap,  *)
(* and then picks the first thread it does not know; while it opens the     *)
(* file the call may end, and it does not look again.                       *)

\* Mutant of Candidates: preTids is not looked at.
AnyUnfollowed(timer) == alive \ followed

Candidates(timer) == (alive \ timer.pre) \ followed

MayFollow(timer) == window /\ ~finalized /\ timer.call = call /\ Cardinality(followed) < MaxWorkers

\* Mutant of GivenBack: a timer of a call that ended returns before it.
GivenBackInCall(timer) == IF timer.call = call /\ pending > 0 THEN pending - 1 ELSE pending

GivenBack(timer) == IF pending > 0 THEN pending - 1 ELSE 0

TimerFires ==
  /\ loop = None /\ timers # <<>>
  /\ LET timer == Head(timers)
     IN  \/ /\ MayFollow(timer)
            /\ \E t \in Candidates(timer) : loop' = <<call, t>>
         \/ /\ ~MayFollow(timer) \/ Candidates(timer) = {}
            /\ UNCHANGED loop
  /\ timers' = Tail(timers)
  /\ pending' = GivenBack(Head(timers))
  /\ UNCHANGED <<threadVars, callVars, hookVars, creating, traceVars, overtaken>>

TimerOpened ==
  /\ loop # None
  /\ \/ Opened(loop)
     \/ \* the file exists and no call runs: the open fails at once
        file[loop] # "none" /\ ~window /\ UNCHANGED traceVars
  /\ loop' = None
  /\ UNCHANGED <<threadVars, callVars, hookVars, pending, timers, creating, overtaken>>

-----------------------------------------------------------------------------
(* onLeave: the call is marked, its workers are unfollowed, the tails are   *)
(* written, the files closed one by one, the table listed and sealed.       *)

(* unfollowWorkerThreads: whatever Stalker runs on a thread of the table.   *)
Unfollowed == [t \in Tids |-> IF table[t] = None THEN stalked[t] ELSE None]

EndCall ==
  /\ target = "running"
  /\ finalized' = TRUE
  /\ stalked' = Unfollowed
  /\ overtaken' = IF loop = None THEN overtaken ELSE overtaken \cup {loop[2]}
  /\ target' = "ended"
  /\ UNCHANGED <<threadVars, call, window, hooked, timerVars, table, followed, file, disposed,
                 listed, resident, todo>>

StartClosing ==
  /\ target = "ended"
  /\ todo' = InTable /\ target' = "closing"
  /\ UNCHANGED <<threadVars, callVars, timerVars, traceVars, resident, overtaken>>

FileAfter(w) == [file EXCEPT ![w] = "closed"]

CloseWorker(w) ==
  /\ target = "closing" /\ w \in todo
  /\ file' = FileAfter(w)
  /\ todo' = todo \ {w}
  /\ UNCHANGED <<threadVars, callVars, timerVars, table, followed, stalked, disposed, listed,
                 target, resident, overtaken>>

Summarise ==
  /\ target = "closing" /\ todo = {}
  /\ listed' = [listed EXCEPT ![call] = InTable]
  /\ target' = "sealing"
  /\ UNCHANGED <<threadVars, callVars, timerVars, table, followed, stalked, file, disposed,
                 resident, todo, overtaken>>

Seal ==
  /\ target = "sealing"
  /\ window' = FALSE /\ target' = "out"
  /\ UNCHANGED <<threadVars, call, finalized, hooked, timerVars, traceVars, resident, todo,
                 overtaken>>

-----------------------------------------------------------------------------

Next ==
  \/ BeginCall \/ ListResidents \/ ResidentOpened \/ ResidentsDone
  \/ \E t \in Tids : SkipResident(t) \/ OpenResident(t) \/ CreateEnter(t)
  \/ \E c \in creating : CreateLeave(c)
  \/ TimerFires \/ TimerOpened
  \/ EndCall \/ StartClosing \/ (\E w \in Traces : CloseWorker(w)) \/ Summarise \/ Seal

Spec == Init /\ [][Next]_vars

-----------------------------------------------------------------------------

TraceOrNone == Traces \cup {None}
Timer == [call : 0..MaxCalls, pre : SUBSET Tids]

TypeOK ==
  /\ alive \subseteq Tids /\ born \in [Tids -> 0..MaxCalls]
  /\ call \in 0..MaxCalls /\ window \in BOOLEAN /\ finalized \in BOOLEAN /\ hooked \in BOOLEAN
  /\ pending \in Nat /\ loop \in TraceOrNone /\ resident \in TraceOrNone
  /\ target \in {"out", "starting", "residents", "opening", "running", "ended", "closing",
                "sealing"}
  /\ table \in [Tids -> TraceOrNone] /\ stalked \in [Tids -> TraceOrNone]
  /\ file \in [Traces -> {"none", "open", "closed"}]
  /\ followed \subseteq Tids /\ disposed \subseteq Traces /\ overtaken \subseteq Tids
  /\ timers \in Seq(Timer)
  /\ creating \subseteq [tid : Tids, pre : SUBSET Tids, call : 0..MaxCalls, seen : BOOLEAN]
  /\ listed \in [1..MaxCalls -> SUBSET Traces]
  /\ todo \subseteq IF target = "closing" THEN Traces ELSE Tids

(* Every reservation is held by a timer that has not run, over the ends and *)
(* beginnings of calls: places are neither lost nor counted twice.          *)
ReservationsHeld == pending = Len(timers)

(* The number of workers a call records stays within the cap; from the      *)
(* second call on the entry hook's loop and a timer may each take the last  *)
(* place while the other opens its file, but there is never more than one   *)
(* worker too many.                                                         *)
CapHeld == Cardinality(followed) <= MaxWorkers + IF call > 1 THEN 1 ELSE 0

(* A thread that a timer follows was created in the call it is recorded in: *)
(* never one that already ran when the pthread_create it answers began.     *)
SpawnedInCall == loop # None => born[loop[2]] = loop[1]

(* What a call starts ends with it: between calls no worker is followed,    *)
(* what a sealed manifest lists is closed, and no thread runs a module that *)
(* was unloaded - except for threads a timer was opening a file for when    *)
(* some call ended: that timer follows the thread whatever has happened     *)
(* since, and undoing its own failure it may take the thread out of a later *)
(* call's table.                                                            *)
EndsWithCall ==
  /\ target = "out" => \A t \in Tids : stalked[t] # None => t \in overtaken
  /\ \A c \in 1..MaxCalls : \A w \in listed[c] : file[w] = "closed" \/ w[2] \in overtaken
  /\ \A t \in Tids : stalked[t] # None => stalked[t] \notin disposed \/ t \in overtaken

(* The places of the cap are counted as they are held, over the ends of     *)
(* calls and on every path that gives one back (pthread_follow.ts).         *)
PlacesTrue == ReservationsHeld /\ CapHeld

(* The workers of a call are its own, from their creation to its end        *)
(* (pthread_follow.ts, the timer and the end of a call).                    *)
WorkersOfCall == SpawnedInCall /\ EndsWithCall
=============================================================================
