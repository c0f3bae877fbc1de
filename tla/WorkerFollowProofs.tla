------------------------- MODULE WorkerFollowProofs -------------------------
(***************************************************************************)
(* Theorems about WorkerFollow for every set of threads, every cap and     *)
(* every number of calls.                                                  *)
(***************************************************************************)
EXTENDS WorkerFollow, FiniteSetTheorems, SequenceTheorems, TLAPS

InCall == target \in {"starting", "residents", "opening", "running"}

(* The entry hook goes through a call in order, and a call that ended is    *)
(* marked before its workers are let go (agent.ts).                         *)
Phases ==
  /\ target # "out" => call \in 1..MaxCalls
  /\ target = "opening" <=> resident # None
  /\ target = "opening" => \E t \in Tids : resident = <<call, t>>
  /\ target = "out" => ~window
  /\ target \in {"ended", "closing", "sealing"} => finalized
  /\ target \notin {"residents", "opening", "closing"} => todo = {}

(* pthread_create is hooked at the end of the first call's loop over the    *)
(* threads that run: before, nothing waits for a thread.                    *)
HookedLate ==
  /\ ~hooked => timers = <<>> /\ loop = None /\ \A c \in creating : ~c.seen
  /\ hooked => call > 0
  /\ hooked /\ call = 1 => target \notin {"starting", "residents", "opening"}

(* Whoever is opening a file has looked at the cap, but neither looks again.*)
Opening(trace) == IF trace = None THEN 0 ELSE 1
Slack == IF call > 1 THEN 1 ELSE 0

Booked ==
  /\ IsFiniteSet(followed)
  /\ Cardinality(followed) + Opening(resident) + Opening(loop) <= MaxWorkers + Slack

(* What runs and did not when a pthread_create of this call began was       *)
(* created in this call.                                                    *)
NewOf(c) == c.call <= call /\ (c.call = call => \A t \in alive \ c.pre : born[t] = call)

Births ==
  /\ \A c \in creating : c.tid \notin alive /\ NewOf(c)
  /\ \A c, d \in creating : c.tid = d.tid => c = d
  /\ \A i \in 1..Len(timers) : NewOf(timers[i])
  /\ loop # None => loop[2] \in alive /\ born[loop[2]] = loop[1]

(* What is known of a thread that no timer opened a trace for when a call   *)
(* ended.                                                                   *)
OwnTrace(t) ==
  /\ loop # None /\ loop[2] = t => InCall /\ loop[1] = call
  /\ stalked[t] # None => /\ InCall /\ stalked[t] = <<call, t>> /\ table[t] = <<call, t>>
                          /\ file[<<call, t>>] = "open"
  /\ target = "closing" /\ table[t] # None => table[t] \in todo \/ file[table[t]] = "closed"

Undisturbed ==
  /\ \A t \in Tids : table[t] # None => table[t][2] = t /\ file[table[t]] # "none"
  /\ \A w \in disposed : file[w] = "closed"
  /\ \A t \in Tids \ overtaken : OwnTrace(t)
  /\ \A c \in 1..MaxCalls : \A w \in listed[c] : file[w] = "closed" \/ w[2] \in overtaken

IInv == TypeOK /\ Phases /\ ReservationsHeld /\ HookedLate /\ Booked /\ Births /\ Undisturbed

-----------------------------------------------------------------------------
(* Types *)

(* A trace is a call and a thread, and is not the absence of one.           *)
LEMMA TraceFacts ==
  /\ \A w \in Traces : w # None /\ w[1] \in 1..MaxCalls /\ w[2] \in Tids
  /\ \A c \in 1..MaxCalls, t \in Tids :
       <<c, t>> \in Traces /\ <<c, t>> # None /\ <<c, t>>[1] = c /\ <<c, t>>[2] = t
BY DEF Traces, None

(* In the beginning every value has its type.                               *)
LEMMA TypesInit == Init => TypeOK
<1> SUFFICES ASSUME Init PROVE TypeOK
  OBVIOUS
<1>1. timers \in Seq(Timer)
  BY EmptySeq DEF Init
<1>2. /\ file \in [Traces -> {"none", "open", "closed"}]
      /\ table \in [Tids -> TraceOrNone] /\ stalked \in [Tids -> TraceOrNone]
      /\ listed \in [1..MaxCalls -> SUBSET Traces]
      /\ loop \in TraceOrNone /\ resident \in TraceOrNone
  BY DEF Init, TraceOrNone
<1>3. /\ alive \subseteq Tids /\ born \in [Tids -> 0..MaxCalls] /\ call \in 0..MaxCalls
      /\ creating = {} /\ followed = {} /\ disposed = {} /\ overtaken = {} /\ todo = {}
  BY WorkersAssumption DEF Init
<1>4. /\ window \in BOOLEAN /\ finalized \in BOOLEAN /\ hooked \in BOOLEAN
      /\ pending \in Nat /\ target = "out"
  BY DEF Init
<1>. QED  BY <1>1, <1>2, <1>3, <1>4 DEF TypeOK

(* Opening a trace, with each of its failures, keeps the types.             *)
LEMMA OpenedTypes ==
  ASSUME TypeOK, NEW w \in Traces, Opened(w)
  PROVE  /\ table' \in [Tids -> TraceOrNone] /\ stalked' \in [Tids -> TraceOrNone]
         /\ file' \in [Traces -> {"none", "open", "closed"}]
         /\ followed' \subseteq Tids /\ disposed' \subseteq Traces
         /\ listed' = listed
<1>1. w[2] \in Tids /\ w \in TraceOrNone /\ None \in TraceOrNone
  BY TraceFacts DEF TraceOrNone
<1>2. /\ file' \in [Traces -> {"none", "open", "closed"}]
      /\ followed' \subseteq Tids /\ disposed' \subseteq Traces
      /\ listed' = listed
  BY <1>1 DEF TypeOK, Opened
<1>3. table' \in [Tids -> TraceOrNone]
  BY <1>1 DEF TypeOK, Opened
<1>4. stalked' \in [Tids -> TraceOrNone]
  BY <1>1 DEF TypeOK, Opened
<1>. QED  BY <1>2, <1>3, <1>4

(* Every step keeps the types: a trace that is opened belongs to a thread.  *)
LEMMA TypesStep == TypeOK /\ Phases /\ [Next]_vars => TypeOK'
<1> SUFFICES ASSUME TypeOK, Phases, [Next]_vars PROVE TypeOK'
  OBVIOUS
<1> USE DEF hookVars, callVars, timerVars, traceVars, threadVars
<1>1. CASE BeginCall
  <2>1. InTable \subseteq Traces
    BY DEF InTable, TypeOK, TraceOrNone
  <2>2. call' \in 0..MaxCalls
    BY <1>1, WorkersAssumption DEF BeginCall, MayBegin, TypeOK
  <2>3. todo' = {}
    BY <1>1 DEF BeginCall, MayBegin, Phases
  <2>. QED  BY <1>1, <2>1, <2>2, <2>3 DEF BeginCall, TypeOK, TraceOrNone
<1>2. CASE ListResidents
  BY <1>2 DEF ListResidents, TypeOK
<1>3. ASSUME NEW t \in Tids, SkipResident(t) PROVE TypeOK'
  BY <1>3 DEF SkipResident, TypeOK
<1>4. ASSUME NEW t \in Tids, OpenResident(t) PROVE TypeOK'
  <2>1. <<call, t>> \in Traces
    BY <1>4, TraceFacts DEF OpenResident, Phases
  <2>. QED  BY <1>4, <2>1 DEF OpenResident, TypeOK, TraceOrNone
<1>5. CASE ResidentOpened
  <2>1. resident \in Traces /\ Opened(resident)
    BY <1>5 DEF ResidentOpened, Phases, TypeOK, TraceOrNone
  <2>. QED  BY <1>5, <2>1, OpenedTypes DEF ResidentOpened, TypeOK, TraceOrNone
<1>6. CASE ResidentsDone
  BY <1>6 DEF ResidentsDone, TypeOK
<1>7. ASSUME NEW t \in Tids, CreateEnter(t) PROVE TypeOK'
  BY <1>7 DEF CreateEnter, TypeOK
<1>8. ASSUME NEW c \in creating, CreateLeave(c) PROVE TypeOK'
  <2>1. c.tid \in Tids /\ c.pre \in SUBSET Tids
    BY DEF TypeOK
  <2>2. [call |-> call, pre |-> c.pre] \in Timer
    BY <2>1 DEF TypeOK, Timer
  <2>3. pending' \in Nat /\ timers' \in Seq(Timer)
    <3>1. pending \in Nat /\ timers \in Seq(Timer)
      BY DEF TypeOK
    <3>. QED  BY <1>8, <2>2, <3>1, AppendProperties DEF CreateLeave
  <2>4. /\ alive' \subseteq Tids /\ born' \in [Tids -> 0..MaxCalls]
        /\ creating' \subseteq [tid : Tids, pre : SUBSET Tids, call : 0..MaxCalls, seen : BOOLEAN]
    BY <1>8, <2>1 DEF CreateLeave, TypeOK
  <2>. QED  BY <1>8, <2>3, <2>4 DEF CreateLeave, TypeOK
<1>9. CASE TimerFires
  <2>1. Head(timers) \in Timer /\ timers' \in Seq(Timer)
    BY <1>9, HeadTailProperties DEF TimerFires, TypeOK
  <2>2. pending' \in Nat
    BY <1>9 DEF TimerFires, GivenBack, TypeOK
  <2>3. loop' \in TraceOrNone
    <3>1. CASE UNCHANGED loop
      BY <3>1 DEF TypeOK
    <3>2. ASSUME NEW t \in Candidates(Head(timers)), MayFollow(Head(timers)), loop' = <<call, t>>
          PROVE  loop' \in TraceOrNone
      <4>1. call \in 1..MaxCalls /\ t \in Tids
        BY <3>2 DEF MayFollow, Phases, Candidates, TypeOK
      <4>. QED  BY <3>2, <4>1, TraceFacts DEF TraceOrNone
    <3>. QED  BY <1>9, <3>1, <3>2 DEF TimerFires
  <2>. QED  BY <1>9, <2>1, <2>2, <2>3 DEF TimerFires, TypeOK
<1>10. CASE TimerOpened
  <2>1. loop \in Traces
    BY <1>10 DEF TimerOpened, TypeOK, TraceOrNone
  <2>2. CASE Opened(loop)
    BY <1>10, <2>1, <2>2, OpenedTypes DEF TimerOpened, TypeOK, TraceOrNone
  <2>3. CASE UNCHANGED traceVars
    BY <1>10, <2>3 DEF TimerOpened, TypeOK, TraceOrNone
  <2>. QED  BY <1>10, <2>2, <2>3 DEF TimerOpened
<1>11. CASE EndCall
  <2>1. stalked' \in [Tids -> TraceOrNone]
    BY <1>11 DEF EndCall, Unfollowed, TypeOK, TraceOrNone
  <2>2. overtaken' \subseteq Tids
    BY <1>11, TraceFacts DEF EndCall, TypeOK, TraceOrNone
  <2>3. todo' = {}
    BY <1>11 DEF EndCall, Phases
  <2>. QED  BY <1>11, <2>1, <2>2, <2>3 DEF EndCall, TypeOK
<1>12. CASE StartClosing
  <2>1. InTable \subseteq Traces
    BY DEF InTable, TypeOK, TraceOrNone
  <2>. QED  BY <1>12, <2>1 DEF StartClosing, TypeOK
<1>13. ASSUME NEW w \in Traces, CloseWorker(w) PROVE TypeOK'
  BY <1>13 DEF CloseWorker, FileAfter, TypeOK
<1>14. CASE Summarise
  <2>1. InTable \subseteq Traces
    BY DEF InTable, TypeOK, TraceOrNone
  <2>. QED  BY <1>14, <2>1 DEF Summarise, TypeOK
<1>15. CASE Seal
  <2>1. todo' = {}
    BY <1>15 DEF Seal, Phases
  <2>. QED  BY <1>15, <2>1 DEF Seal, TypeOK
<1>16. CASE UNCHANGED vars
  BY <1>16 DEF vars, TypeOK
<1>. QED
  BY <1>1, <1>2, <1>3, <1>4, <1>5, <1>6, <1>7, <1>8, <1>9, <1>10, <1>11, <1>12, <1>13, <1>14,
     <1>15, <1>16 DEF Next

-----------------------------------------------------------------------------
(* Phases and places *)

(* Every step keeps the entry hook in the order of a call.                  *)
LEMMA PhasesStep == TypeOK /\ Phases /\ [Next]_vars => Phases'
<1> SUFFICES ASSUME TypeOK, Phases, [Next]_vars PROVE Phases'
  OBVIOUS
<1> USE DEF hookVars, callVars, timerVars, traceVars, threadVars
<1>1. CASE BeginCall
  <2>1. call' \in 1..MaxCalls
    BY <1>1, WorkersAssumption DEF BeginCall, MayBegin, TypeOK
  <2>. QED  BY <1>1, <2>1 DEF BeginCall, MayBegin, Phases
<1>2. CASE ListResidents
  BY <1>2 DEF ListResidents, Phases
<1>3. ASSUME NEW t \in Tids, SkipResident(t) PROVE Phases'
  BY <1>3 DEF SkipResident, Phases
<1>4. ASSUME NEW t \in Tids, OpenResident(t) PROVE Phases'
  BY <1>4, TraceFacts DEF OpenResident, Phases
<1>5. CASE ResidentOpened
  BY <1>5 DEF ResidentOpened, Phases
<1>6. CASE ResidentsDone
  BY <1>6 DEF ResidentsDone, Phases
<1>7. ASSUME NEW t \in Tids, CreateEnter(t) PROVE Phases'
  BY <1>7 DEF CreateEnter, Phases
<1>8. ASSUME NEW c \in creating, CreateLeave(c) PROVE Phases'
  BY <1>8 DEF CreateLeave, Phases
<1>9. CASE TimerFires
  BY <1>9 DEF TimerFires, Phases
<1>10. CASE TimerOpened
  BY <1>10 DEF TimerOpened, Phases
<1>11. CASE EndCall
  BY <1>11 DEF EndCall, Phases
<1>12. CASE StartClosing
  BY <1>12 DEF StartClosing, Phases
<1>13. ASSUME NEW w \in Traces, CloseWorker(w) PROVE Phases'
  BY <1>13 DEF CloseWorker, Phases
<1>14. CASE Summarise
  BY <1>14 DEF Summarise, Phases
<1>15. CASE Seal
  BY <1>15 DEF Seal, Phases
<1>16. CASE UNCHANGED vars
  BY <1>16 DEF vars, Phases
<1>. QED
  BY <1>1, <1>2, <1>3, <1>4, <1>5, <1>6, <1>7, <1>8, <1>9, <1>10, <1>11, <1>12, <1>13, <1>14,
     <1>15, <1>16 DEF Next

(* A timer is set with its reservation and gives it back when it runs,      *)
(* whatever has become of its call.                                         *)
LEMMA ReservationsStep == TypeOK /\ ReservationsHeld /\ [Next]_vars => ReservationsHeld'
<1> SUFFICES ASSUME TypeOK, ReservationsHeld, [Next]_vars PROVE ReservationsHeld'
  OBVIOUS
<1> USE DEF ReservationsHeld
<1>1. timers \in Seq(Timer)
  BY DEF TypeOK
<1>2. ASSUME NEW c \in creating, CreateLeave(c) PROVE ReservationsHeld'
  <2>1. [call |-> call, pre |-> c.pre] \in Timer
    BY DEF TypeOK, Timer
  <2>. QED  BY <1>1, <1>2, <2>1, AppendProperties DEF CreateLeave
<1>3. CASE TimerFires
  <2>1. timers # <<>>
    BY <1>3 DEF TimerFires
  <2>2. Len(timers') = Len(timers) - 1
    BY <1>1, <1>3, <2>1, HeadTailProperties DEF TimerFires
  <2>3. Len(timers) > 0
    BY <1>1, <2>1, LenProperties, EmptySeq
  <2>. QED  BY <1>1, <1>3, <2>2, <2>3 DEF TimerFires, GivenBack
<1>4. CASE UNCHANGED <<pending, timers>>
  BY <1>4
<1>5. \/ \E c \in creating : CreateLeave(c)
      \/ TimerFires
      \/ UNCHANGED <<pending, timers>>
  BY DEF Next, vars, hookVars, callVars, timerVars, traceVars, threadVars, BeginCall,
     ListResidents, SkipResident, OpenResident, ResidentOpened, ResidentsDone, CreateEnter,
     TimerOpened, EndCall, StartClosing, CloseWorker, Summarise, Seal
<1>. QED  BY <1>2, <1>3, <1>4, <1>5

(* No thread waits for the loop before pthread_create is hooked, and it is  *)
(* hooked at the end of the first call's loop.                              *)
LEMMA HookedStep == TypeOK /\ Phases /\ HookedLate /\ [Next]_vars => HookedLate'
<1> SUFFICES ASSUME TypeOK, Phases, HookedLate, [Next]_vars PROVE HookedLate'
  OBVIOUS
<1> USE DEF hookVars, callVars, timerVars, traceVars, threadVars, HookedLate
<1>1. CASE BeginCall
  <2>1. call' = call + 1 /\ call \in Nat /\ target' = "starting" /\ UNCHANGED hooked
        /\ UNCHANGED timerVars
    BY <1>1 DEF BeginCall, TypeOK
  <2>. QED  BY <2>1
<1>2. CASE ListResidents
  BY <1>2 DEF ListResidents
<1>3. ASSUME NEW t \in Tids, SkipResident(t) PROVE HookedLate'
  BY <1>3 DEF SkipResident
<1>4. ASSUME NEW t \in Tids, OpenResident(t) PROVE HookedLate'
  BY <1>4 DEF OpenResident
<1>5. CASE ResidentOpened
  BY <1>5 DEF ResidentOpened
<1>6. CASE ResidentsDone
  BY <1>6 DEF ResidentsDone, Phases
<1>7. ASSUME NEW t \in Tids, CreateEnter(t) PROVE HookedLate'
  <2>1. CASE hooked
    BY <1>7, <2>1 DEF CreateEnter
  <2>2. CASE ~hooked
    BY <1>7, <2>2 DEF CreateEnter
  <2>. QED  BY <2>1, <2>2
<1>8. ASSUME NEW c \in creating, CreateLeave(c) PROVE HookedLate'
  BY <1>8 DEF CreateLeave, Reserves
<1>9. CASE TimerFires
  BY <1>9 DEF TimerFires
<1>10. CASE TimerOpened
  BY <1>10 DEF TimerOpened
<1>11. CASE EndCall
  BY <1>11 DEF EndCall
<1>12. CASE StartClosing
  BY <1>12 DEF StartClosing
<1>13. ASSUME NEW w \in Traces, CloseWorker(w) PROVE HookedLate'
  BY <1>13 DEF CloseWorker
<1>14. CASE Summarise
  BY <1>14 DEF Summarise
<1>15. CASE Seal
  BY <1>15 DEF Seal
<1>16. CASE UNCHANGED vars
  BY <1>16 DEF vars
<1>. QED
  BY <1>1, <1>2, <1>3, <1>4, <1>5, <1>6, <1>7, <1>8, <1>9, <1>10, <1>11, <1>12, <1>13, <1>14,
     <1>15, <1>16 DEF Next

(* A trace that is opened takes at most one place.                          *)
LEMMA OpenedTakesOne ==
  ASSUME IsFiniteSet(followed), NEW w, Opened(w)
  PROVE  /\ IsFiniteSet(followed')
         /\ Cardinality(followed) \in Nat /\ Cardinality(followed') \in Nat
         /\ Cardinality(followed') <= Cardinality(followed) + 1
<1>1. followed' = followed \/ followed' = followed \cup {w[2]}
  BY DEF Opened
<1>2. Cardinality(followed) \in Nat
  BY FS_CardinalityType
<1>3. CASE followed' = followed
  BY <1>2, <1>3
<1>4. CASE followed' = followed \cup {w[2]}
  <2>1. /\ IsFiniteSet(followed \cup {w[2]})
        /\ \/ Cardinality(followed \cup {w[2]}) = Cardinality(followed)
           \/ Cardinality(followed \cup {w[2]}) = Cardinality(followed) + 1
    BY FS_AddElement
  <2>. QED  BY <1>2, <1>4, <2>1
<1>. QED  BY <1>1, <1>3, <1>4

(* Each of the two that may open a trace has looked at the cap, so together *)
(* they exceed it by no more than one, and not in the first call, where the *)
(* loop is over before a timer is set.                                      *)
LEMMA BookedStep ==
  TypeOK /\ Phases /\ HookedLate /\ HookedLate' /\ Booked /\ [Next]_vars => Booked'
<1> SUFFICES ASSUME TypeOK, Phases, HookedLate, HookedLate', Booked, [Next]_vars PROVE Booked'
  OBVIOUS
<1> USE DEF hookVars, callVars, timerVars, traceVars, threadVars
<1>1. /\ Cardinality(followed) \in Nat /\ MaxWorkers \in Nat /\ call \in Nat /\ pending \in Nat
      /\ Opening(loop) \in 0..1 /\ Opening(resident) \in 0..1 /\ Slack \in 0..1
  BY WorkersAssumption, FS_CardinalityType DEF Booked, TypeOK, Opening, Slack
<1>2. CASE BeginCall
  <2>1. Cardinality(followed') = 0 /\ IsFiniteSet(followed')
    BY <1>2, FS_EmptySet DEF BeginCall
  <2>2. resident' = None /\ loop' = loop /\ call' = call + 1
    BY <1>2 DEF BeginCall, MayBegin, Phases
  <2>3. Opening(loop)' <= Slack'
    <3>1. CASE call = 0
      BY <2>2, <3>1 DEF HookedLate, Opening, Slack
    <3>2. CASE call > 0
      BY <1>1, <2>2, <3>2 DEF Opening, Slack
    <3>. QED  BY <1>1, <3>1, <3>2
  <2>4. Opening(resident)' = 0 /\ Opening(loop)' \in 0..1 /\ Slack' \in 0..1
    BY <2>2 DEF Opening, Slack
  <2>. QED  BY <1>1, <2>1, <2>3, <2>4 DEF Booked
<1>3. ASSUME NEW t \in Tids, OpenResident(t) PROVE Booked'
  <2>1. Cardinality(followed) + pending < MaxWorkers
    BY <1>1, <1>3 DEF OpenResident, FullyBooked
  <2>2. UNCHANGED <<followed, loop, call>>
    BY <1>3 DEF OpenResident
  <2>3. Opening(loop) <= Slack
    <3>1. call # 0 /\ target = "residents"
      BY <1>3 DEF OpenResident, Phases
    <3>2. CASE call = 1
      BY <3>1, <3>2 DEF HookedLate, Opening, Slack
    <3>3. CASE call > 1
      BY <1>1, <3>3 DEF Slack
    <3>. QED  BY <1>1, <3>1, <3>2, <3>3
  <2>4. Opening(resident)' \in 0..1 /\ Opening(loop)' = Opening(loop) /\ Slack' = Slack
    BY <2>2 DEF Opening, Slack
  <2>. QED  BY <1>1, <2>1, <2>2, <2>3, <2>4 DEF Booked
<1>4. CASE ResidentOpened
  <2>1. resident # None /\ resident' = None /\ Opened(resident) /\ UNCHANGED <<loop, call>>
    BY <1>4 DEF ResidentOpened, Phases
  <2>2. /\ Opening(resident) = 1 /\ Opening(resident)' = 0 /\ Opening(loop)' = Opening(loop)
        /\ Slack' = Slack
    BY <2>1 DEF Opening, Slack
  <2>. QED  BY <1>1, <2>1, <2>2, OpenedTakesOne DEF Booked
<1>5. CASE TimerFires
  <2>1. loop = None /\ UNCHANGED <<followed, resident, call>>
    BY <1>5 DEF TimerFires
  <2>2. CASE loop' = None
    BY <2>1, <2>2 DEF Booked, Opening, Slack
  <2>3. CASE loop' # None
    <3>1. Cardinality(followed) < MaxWorkers
      BY <1>5, <2>1, <2>3 DEF TimerFires, MayFollow
    <3>2. Opening(resident) <= Slack
      <4>1. hooked
        BY <1>5, <2>1, <2>3 DEF TimerFires, HookedLate
      <4>2. CASE call = 1
        BY <4>1, <4>2 DEF HookedLate, Phases, Opening, Slack
      <4>3. CASE call > 1
        BY <1>1, <4>3 DEF Slack
      <4>. QED  BY <1>1, <4>1, <4>2, <4>3 DEF HookedLate
    <3>3. /\ Opening(loop)' \in 0..1 /\ Opening(resident)' = Opening(resident) /\ Slack' = Slack
      BY <2>1 DEF Opening, Slack
    <3>. QED  BY <1>1, <2>1, <3>1, <3>2, <3>3 DEF Booked
  <2>. QED  BY <2>2, <2>3
<1>6. CASE TimerOpened
  <2>1. loop # None /\ loop' = None /\ UNCHANGED <<resident, call>>
    BY <1>6 DEF TimerOpened
  <2>2. /\ Opening(loop) = 1 /\ Opening(loop)' = 0 /\ Opening(resident)' = Opening(resident)
        /\ Slack' = Slack
    BY <2>1 DEF Opening, Slack
  <2>3. CASE Opened(loop)
    BY <1>1, <2>2, <2>3, OpenedTakesOne DEF Booked
  <2>4. CASE UNCHANGED traceVars
    BY <1>1, <2>2, <2>4 DEF Booked
  <2>. QED  BY <1>6, <2>3, <2>4 DEF TimerOpened
<1>7. CASE UNCHANGED <<followed, loop, resident, call>>
  BY <1>7 DEF Booked, Opening, Slack
<1>8. \/ BeginCall \/ (\E t \in Tids : OpenResident(t)) \/ ResidentOpened \/ TimerFires \/ TimerOpened
      \/ UNCHANGED <<followed, loop, resident, call>>
  BY DEF Next, vars, ListResidents, SkipResident, ResidentsDone, CreateEnter, CreateLeave,
     EndCall, StartClosing, CloseWorker, Summarise, Seal
<1>. QED  BY <1>2, <1>3, <1>4, <1>5, <1>6, <1>7, <1>8

-----------------------------------------------------------------------------
(* Births *)

(* The same said of a creation or a timer after a step.                     *)
NewOfNext(c) == c.call <= call' /\ (c.call = call' => \A t \in alive' \ c.pre : born'[t] = call')

(* What a creation or a timer says of new threads does not depend on more   *)
(* than the threads, their births and the call.                             *)
LEMMA NewOfSteady ==
  ASSUME NEW c, NewOf(c), UNCHANGED <<call, alive, born>>
  PROVE  NewOfNext(c)
BY DEF NewOf, NewOfNext

(* A new call makes every creation and timer one of an earlier call.        *)
LEMMA NewOfOld ==
  ASSUME NEW c, NewOf(c), call \in Nat, call' = call + 1, c.call \in Nat
  PROVE  NewOfNext(c)
BY DEF NewOf, NewOfNext

(* A thread that begins to run in a call is new to whoever began before.    *)
LEMMA NewOfBorn ==
  ASSUME TypeOK, NEW c, NewOf(c), NEW t \in Tids, call' = call,
         alive' = alive \cup {t}, born' = [born EXCEPT ![t] = call]
  PROVE  NewOfNext(c)
BY DEF NewOf, NewOfNext, TypeOK

(* What Births says after a step.                                           *)
LEMMA BirthsNext ==
  ASSUME \A c \in creating' : c.tid \notin alive' /\ NewOfNext(c),
         \A c, d \in creating' : c.tid = d.tid => c = d,
         \A i \in 1..Len(timers') : NewOfNext(timers'[i]),
         loop' # None => loop'[2] \in alive' /\ born'[loop'[2]] = loop'[1]
  PROVE  Births'
BY DEF Births, NewOf, NewOfNext

(* A step that creates nobody and ends no call leaves when threads were     *)
(* born.                                                                    *)
LEMMA BirthsSteady ==
  ASSUME Births, UNCHANGED <<call, alive, born, creating, timers>>, loop' \in {loop, None}
  PROVE  Births'
BY DEF Births, NewOf

(* A timer's thread is new because what the timer knows of is old.          *)
LEMMA BirthsStep == TypeOK /\ Births /\ [Next]_vars => Births'
<1> SUFFICES ASSUME TypeOK, Births, [Next]_vars PROVE Births'
  OBVIOUS
<1>1. call \in Nat /\ timers \in Seq(Timer) /\ Len(timers) \in Nat
      /\ (\A c \in creating : c.call \in Nat /\ c.tid \in Tids)
      /\ (\A i \in 1..Len(timers) : timers[i] \in Timer)
  BY LenProperties, ElementOfSeq DEF TypeOK
<1>2. CASE BeginCall
  <2>1. call' = call + 1 /\ UNCHANGED <<alive, born, creating, timers, loop>>
    BY <1>2 DEF BeginCall, threadVars, timerVars
  <2>2. \A i \in 1..Len(timers) : NewOfNext(timers[i])
    <3>1. \A i \in 1..Len(timers) : timers[i].call \in Nat
      BY <1>1 DEF Timer
    <3>. QED  BY <1>1, <2>1, <3>1, NewOfOld DEF Births
  <2>3. \A c \in creating : NewOfNext(c)
    BY <1>1, <2>1, NewOfOld DEF Births
  <2>. QED  BY <2>1, <2>2, <2>3, BirthsNext DEF Births
<1>3. ASSUME NEW t \in Tids, CreateEnter(t) PROVE Births'
  <2> DEFINE new == [tid |-> t, pre |-> alive, call |-> call, seen |-> hooked]
  <2>1. creating' = creating \cup {new} /\ UNCHANGED <<call, alive, born, timers, loop>>
        /\ t \notin alive /\ \A c \in creating : c.tid # t
    BY <1>3 DEF CreateEnter, threadVars, callVars
  <2>2. NewOfNext(new) /\ new.tid = t
    BY <1>1, <2>1 DEF NewOfNext
  <2>3. /\ \A c \in creating : NewOfNext(c)
        /\ \A i \in 1..Len(timers') : NewOfNext(timers'[i])
    BY <2>1, NewOfSteady DEF Births
  <2> HIDE DEF new
  <2>. QED  BY <2>1, <2>2, <2>3, BirthsNext DEF Births
<1>4. ASSUME NEW c \in creating, CreateLeave(c) PROVE Births'
  <2> DEFINE timer == [call |-> call, pre |-> c.pre]
  <2>1. /\ c.tid \in Tids /\ c.tid \notin alive /\ NewOf(c)
        /\ creating' = creating \ {c} /\ alive' = alive \cup {c.tid}
        /\ born' = [born EXCEPT ![c.tid] = call] /\ UNCHANGED <<call, loop>>
    BY <1>1, <1>4 DEF CreateLeave, Births, callVars
  <2>2. \A d \in creating' : NewOfNext(d) /\ d.tid \notin alive'
    BY <2>1, NewOfBorn DEF Births
  <2>3. \A i \in 1..Len(timers) : NewOfNext(timers[i])
    BY <2>1, NewOfBorn DEF Births
  <2>4. loop' # None => loop'[2] \in alive' /\ born'[loop'[2]] = loop'[1]
    BY <2>1 DEF Births, TypeOK
  <2>5. \A d, e \in creating' : d.tid = e.tid => d = e
    BY <2>1 DEF Births
  <2>6. CASE UNCHANGED timers
    BY <2>2, <2>3, <2>4, <2>5, <2>6, BirthsNext
  <2>7. CASE Reserves(c) /\ timers' = Append(timers, timer)
    <3>1. timer \in Timer
      BY DEF TypeOK, Timer
    <3>2. NewOf(timer)
      BY <1>1, <2>1, <2>7 DEF NewOf, Reserves
    <3>3. NewOfNext(timer)
      BY <2>1, <3>2, NewOfBorn
    <3>4. /\ Len(timers') = Len(timers) + 1 /\ timers'[Len(timers) + 1] = timer
          /\ \A i \in 1..Len(timers) : timers'[i] = timers[i]
      BY <1>1, <2>7, <3>1, AppendProperties
    <3> HIDE DEF timer
    <3>5. \A i \in 1..Len(timers') : NewOfNext(timers'[i])
      BY <1>1, <2>3, <3>3, <3>4
    <3>. QED  BY <2>2, <2>4, <2>5, <3>5, BirthsNext
  <2>. QED  BY <1>4, <2>6, <2>7 DEF CreateLeave
<1>5. CASE TimerFires
  <2>1. /\ timers # <<>> /\ timers' = Tail(timers) /\ UNCHANGED <<call, alive, born, creating>>
    BY <1>5 DEF TimerFires, callVars, threadVars
  <2>2. /\ Len(timers') = Len(timers) - 1 /\ 1 \in 1..Len(timers) /\ Head(timers) = timers[1]
        /\ \A i \in 1..Len(timers') : timers'[i] = timers[i + 1]
    BY <1>1, <2>1, HeadTailProperties, LenProperties
  <2>3. \A i \in 1..Len(timers) : NewOfNext(timers[i])
    BY <2>1, NewOfSteady DEF Births
  <2>4. \A i \in 1..Len(timers') : NewOfNext(timers'[i])
    <3>1. ASSUME NEW i \in 1..Len(timers') PROVE i + 1 \in 1..Len(timers)
      BY <1>1, <2>2
    <3>. QED  BY <2>2, <2>3, <3>1
  <2>5. NewOf(Head(timers))
    BY <2>2 DEF Births
  <2>6. loop' # None => loop'[2] \in alive' /\ born'[loop'[2]] = loop'[1]
    <3>1. CASE loop' = loop
      BY <2>1, <3>1 DEF Births
    <3>2. ASSUME MayFollow(Head(timers)), NEW t \in Candidates(Head(timers)), loop' = <<call, t>>
          PROVE  loop'[2] \in alive' /\ born'[loop'[2]] = loop'[1]
      <4>1. t \in alive /\ born[t] = call
        BY <2>5, <3>2 DEF MayFollow, Candidates, NewOf
      <4>. QED  BY <2>1, <3>2, <4>1
    <3>. QED  BY <1>5, <3>1, <3>2 DEF TimerFires
  <2>7. \A c \in creating' : c.tid \notin alive' /\ NewOfNext(c)
    BY <2>1, NewOfSteady DEF Births
  <2>. QED  BY <2>1, <2>4, <2>6, <2>7, BirthsNext DEF Births
<1>6. CASE UNCHANGED <<call, alive, born, creating, timers>> /\ loop' \in {loop, None}
  BY <1>6, BirthsSteady
<1>7. \/ BeginCall \/ (\E t \in Tids : CreateEnter(t)) \/ (\E c \in creating : CreateLeave(c))
      \/ TimerFires
      \/ UNCHANGED <<call, alive, born, creating, timers>> /\ loop' \in {loop, None}
  BY DEF Next, vars, hookVars, callVars, timerVars, traceVars, threadVars, ListResidents,
     SkipResident, OpenResident, ResidentOpened, ResidentsDone, TimerOpened, EndCall,
     StartClosing, CloseWorker, Summarise, Seal
<1>. QED  BY <1>2, <1>3, <1>4, <1>5, <1>6, <1>7

-----------------------------------------------------------------------------
(* What a call starts ends with it *)

(* A file is created once and closed for good.                              *)
FilesForward ==
  \A w \in Traces : /\ file[w] # "none" => file'[w] # "none"
                    /\ file[w] = "closed" => file'[w] = "closed"

(* What opening a trace does to its own thread, and that it does nothing to *)
(* another's.                                                               *)
LEMMA OpenedFacts ==
  ASSUME TypeOK, NEW w \in Traces, Opened(w)
  PROVE  /\ file[w] = "none" /\ file'[w] # "none" /\ \A v \in Traces \ {w} : file'[v] = file[v]
         /\ \A t \in Tids \ {w[2]} : table'[t] = table[t] /\ stalked'[t] = stalked[t]
         /\ \/ table'[w[2]] = w /\ stalked'[w[2]] = w /\ file'[w] = "open"
            \/ table'[w[2]] = None /\ stalked' = stalked
            \/ table' = table /\ stalked' = stalked
         /\ disposed' \subseteq disposed \cup {w}
         /\ w \in disposed' => w \in disposed \/ file'[w] = "closed"
         /\ listed' = listed
BY TraceFacts DEF TypeOK, Opened

(* Opening a trace only takes a file forward.                               *)
LEMMA OpenedForward ==
  ASSUME TypeOK, NEW w \in Traces, Opened(w)
  PROVE  FilesForward
BY OpenedFacts DEF FilesForward

(* No step makes a file again, or opens a closed one.                       *)
LEMMA FilesStep == TypeOK /\ Phases /\ [Next]_vars => FilesForward
<1> SUFFICES ASSUME TypeOK, Phases, [Next]_vars PROVE FilesForward
  OBVIOUS
<1>1. CASE BeginCall
  BY <1>1 DEF BeginCall, FilesForward
<1>2. CASE ResidentOpened
  <2>1. resident \in Traces /\ Opened(resident)
    BY <1>2 DEF ResidentOpened, Phases, TypeOK, TraceOrNone
  <2>. QED  BY <2>1, OpenedForward
<1>3. CASE TimerOpened
  <2>1. loop \in Traces
    BY <1>3 DEF TimerOpened, TypeOK, TraceOrNone
  <2>2. CASE Opened(loop)
    BY <2>1, <2>2, OpenedForward
  <2>3. CASE UNCHANGED traceVars
    BY <2>3 DEF traceVars, FilesForward
  <2>. QED  BY <1>3, <2>2, <2>3 DEF TimerOpened
<1>4. ASSUME NEW w \in Traces, CloseWorker(w) PROVE FilesForward
  BY <1>4 DEF CloseWorker, FileAfter, FilesForward, TypeOK
<1>5. CASE UNCHANGED file
  BY <1>5 DEF FilesForward
<1>6. \/ BeginCall \/ ResidentOpened \/ TimerOpened \/ (\E w \in Traces : CloseWorker(w))
      \/ UNCHANGED file
  BY DEF Next, vars, traceVars, ListResidents, SkipResident, OpenResident, ResidentsDone,
     CreateEnter, CreateLeave, TimerFires, EndCall, StartClosing, Summarise, Seal
<1>. QED  BY <1>1, <1>2, <1>3, <1>4, <1>5, <1>6

(* Nothing that Undisturbed speaks of changes but the phase, and the call   *)
(* does not end.                                                            *)
LEMMA UndisturbedSteady ==
  ASSUME Undisturbed, UNCHANGED <<call, table, stalked, file, disposed, listed, overtaken>>,
         InCall => InCall', target' = "closing" => target = "closing" /\ todo' = todo,
         loop' \in {loop, None}
  PROVE  Undisturbed'
<1>1. ASSUME NEW t \in Tids \ overtaken PROVE OwnTrace(t)'
  BY DEF Undisturbed, OwnTrace
<1>. QED  BY <1>1 DEF Undisturbed

(* A trace is opened in its call, unless its thread is overtaken; so a      *)
(* failure that is undone takes nothing from a thread that runs.            *)
LEMMA UndisturbedOpened ==
  ASSUME TypeOK, Undisturbed, NEW w \in Traces, Opened(w),
         w[2] \notin overtaken => InCall /\ w = <<call, w[2]>>,
         UNCHANGED <<call, overtaken, todo>>,
         InCall => InCall', target' = "closing" => target = "closing",
         loop' \in {loop, None}
  PROVE  Undisturbed'
<1>1. FilesForward /\ w # None /\ w[2] \in Tids
  BY OpenedForward, TraceFacts
<1>2. ASSUME NEW t \in Tids, table'[t] # None
      PROVE  table'[t][2] = t /\ file'[table'[t]] # "none"
  <2>1. CASE t = w[2] /\ table'[t] = w
    BY <2>1, OpenedFacts
  <2>2. CASE table'[t] = table[t]
    <3>1. table[t] \in Traces
      BY <1>2, <2>2 DEF TypeOK, TraceOrNone
    <3>. QED  BY <1>1, <1>2, <2>2, <3>1 DEF Undisturbed, FilesForward
  <2>. QED  BY <1>2, <2>1, <2>2, OpenedFacts
<1>3. ASSUME NEW v \in disposed' PROVE file'[v] = "closed"
  <2>1. CASE v \in disposed
    BY <1>1, <2>1 DEF Undisturbed, FilesForward, TypeOK
  <2>2. CASE v = w /\ v \notin disposed
    BY <1>3, <2>2, OpenedFacts
  <2>. QED  BY <1>3, <2>1, <2>2, OpenedFacts
<1>4. ASSUME NEW t \in Tids \ overtaken PROVE OwnTrace(t)'
  <2>1. OwnTrace(t)
    BY DEF Undisturbed
  <2>2. CASE t # w[2]
    <3>1. table'[t] = table[t] /\ stalked'[t] = stalked[t]
      BY <2>2, OpenedFacts
    <3>2. table[t] # None => table[t] \in Traces
      BY DEF TypeOK, TraceOrNone
    <3>3. stalked[t] # None => /\ <<call, t>> \in Traces /\ <<call, t>> # w
                               /\ file'[<<call, t>>] = file[<<call, t>>]
      <4>1. stalked[t] # None => stalked[t] = <<call, t>> /\ stalked[t] \in Traces
        BY <2>1 DEF OwnTrace, TypeOK, TraceOrNone
      <4>. QED  BY <2>2, <4>1, OpenedFacts
    <3>4. (target = "closing" /\ table[t] # None => table[t] \in todo \/ file[table[t]] = "closed")'
      BY <1>1, <2>1, <3>1, <3>2 DEF OwnTrace, FilesForward
    <3>. QED  BY <2>1, <3>1, <3>3, <3>4 DEF OwnTrace
  <2>3. CASE t = w[2]
    <3>1. InCall /\ InCall' /\ w = <<call, t>> /\ target' # "closing"
      BY <2>3 DEF InCall
    <3>2. stalked[t] = None
      <4>1. ASSUME stalked[t] # None PROVE FALSE
        <5>1. table[t] = w
          BY <2>1, <3>1, <4>1 DEF OwnTrace
        <5>2. file[w] # "none"
          BY <1>1, <5>1 DEF Undisturbed
        <5>. QED  BY <5>2, OpenedFacts
      <4>. QED  BY <4>1
    <3>3. stalked'[t] # None => /\ stalked'[t] = <<call, t>> /\ table'[t] = <<call, t>>
                                /\ file'[<<call, t>>] = "open"
      BY <2>3, <3>1, <3>2, OpenedFacts
    <3>. QED  BY <2>1, <3>1, <3>3 DEF OwnTrace
  <2>. QED  BY <2>2, <2>3
<1>5. ASSUME NEW c \in 1..MaxCalls, NEW v \in listed'[c]
      PROVE  file'[v] = "closed" \/ v[2] \in overtaken'
  <2>1. v \in listed[c] /\ v \in Traces
    BY OpenedFacts DEF TypeOK
  <2>. QED  BY <1>1, <2>1 DEF Undisturbed, FilesForward
<1>. QED  BY <1>2, <1>3, <1>4, <1>5 DEF Undisturbed

(* The end of a call unfollows whatever is in its table; only a thread that *)
(* a timer is opening a trace for then can escape it (agent.ts, the end of  *)
(* a call).                                                                 *)
LEMMA UndisturbedStep == TypeOK /\ Phases /\ Undisturbed /\ [Next]_vars => Undisturbed'
<1> SUFFICES ASSUME TypeOK, Phases, Undisturbed, [Next]_vars PROVE Undisturbed'
  OBVIOUS
<1> USE DEF hookVars, callVars, timerVars, traceVars, threadVars
<1>1. FilesForward
  BY FilesStep
<1>2. /\ \A t \in Tids : table[t] \in TraceOrNone /\ (table[t] # None => table[t] \in Traces)
      /\ loop # None => loop \in Traces /\ loop[2] \in Tids
  BY TraceFacts DEF TypeOK, TraceOrNone
<1>3. ASSUME UNCHANGED <<table, listed, overtaken>>, disposed' = disposed,
             \A t \in Tids \ overtaken : OwnTrace(t)'
      PROVE  Undisturbed'
  <2>1. \A t \in Tids : table'[t] # None => table'[t][2] = t /\ file'[table'[t]] # "none"
    BY <1>1, <1>2, <1>3 DEF Undisturbed, FilesForward
  <2>2. \A w \in disposed' : file'[w] = "closed"
    BY <1>1, <1>3 DEF Undisturbed, FilesForward, TypeOK
  <2>3. \A c \in 1..MaxCalls : \A w \in listed'[c] : file'[w] = "closed" \/ w[2] \in overtaken'
    BY <1>1, <1>3 DEF Undisturbed, FilesForward, TypeOK
  <2>. QED  BY <1>3, <2>1, <2>2, <2>3 DEF Undisturbed
<1>4. CASE BeginCall
  <2>1. /\ target = "out" /\ target' = "starting" /\ UNCHANGED <<stalked, listed, overtaken, loop>>
        /\ table' = [t \in Tids |-> None] /\ disposed' = disposed \cup InTable
        /\ file' = [w \in Traces |-> IF w \in InTable THEN "closed" ELSE file[w]]
    BY <1>4 DEF BeginCall, MayBegin
  <2>2. InTable \subseteq Traces
    BY <1>2 DEF InTable
  <2>3. \A w \in disposed' : file'[w] = "closed"
    BY <2>1, <2>2 DEF Undisturbed, TypeOK
  <2>4. \A c \in 1..MaxCalls : \A w \in listed'[c] : file'[w] = "closed" \/ w[2] \in overtaken'
    BY <1>1, <2>1 DEF Undisturbed, FilesForward, TypeOK
  <2>5. ASSUME NEW t \in Tids \ overtaken PROVE OwnTrace(t)'
    BY <2>1 DEF Undisturbed, OwnTrace, InCall
  <2>. QED  BY <2>1, <2>3, <2>4, <2>5 DEF Undisturbed
<1>5. CASE ListResidents
  BY <1>5, UndisturbedSteady DEF ListResidents, InCall
<1>6. ASSUME NEW t \in Tids, SkipResident(t) PROVE Undisturbed'
  BY <1>6, UndisturbedSteady DEF SkipResident, InCall
<1>7. ASSUME NEW t \in Tids, OpenResident(t) PROVE Undisturbed'
  BY <1>7, UndisturbedSteady DEF OpenResident, InCall
<1>8. CASE ResidentOpened
  <2>1. /\ resident \in Traces /\ Opened(resident) /\ InCall /\ target' = "residents"
        /\ resident = <<call, resident[2]>>
        /\ UNCHANGED <<call, overtaken, todo, loop>>
    BY <1>8 DEF ResidentOpened, Phases, TypeOK, TraceOrNone, InCall
  <2>. QED  BY <2>1, UndisturbedOpened DEF InCall
<1>9. CASE ResidentsDone
  BY <1>9, UndisturbedSteady DEF ResidentsDone, InCall
<1>10. ASSUME NEW t \in Tids, CreateEnter(t) PROVE Undisturbed'
  BY <1>10, UndisturbedSteady DEF CreateEnter, InCall
<1>11. ASSUME NEW c \in creating, CreateLeave(c) PROVE Undisturbed'
  BY <1>11, UndisturbedSteady DEF CreateLeave, InCall
<1>12. CASE TimerFires
  <2>1. UNCHANGED <<call, table, stalked, file, disposed, listed, overtaken, target, todo>>
    BY <1>12 DEF TimerFires
  <2>2. CASE loop' = loop
    BY <2>1, <2>2, UndisturbedSteady DEF InCall
  <2>3. ASSUME MayFollow(Head(timers)), NEW t \in Candidates(Head(timers)), loop' = <<call, t>>
        PROVE  Undisturbed'
    <3>1. InCall
      BY <2>3 DEF MayFollow, Phases, InCall, TypeOK
    <3>2. ASSUME NEW u \in Tids \ overtaken PROVE OwnTrace(u)'
      BY <2>1, <2>3, <3>1 DEF Undisturbed, OwnTrace, InCall
    <3>. QED  BY <1>3, <2>1, <3>2
  <2>. QED  BY <1>12, <2>2, <2>3 DEF TimerFires
<1>13. CASE TimerOpened
  <2>1. /\ loop \in Traces /\ loop[2] \in Tids /\ loop' = None
        /\ UNCHANGED <<call, overtaken, todo, target>>
    BY <1>2, <1>13 DEF TimerOpened
  <2>2. CASE Opened(loop)
    <3>1. loop[2] \notin overtaken => InCall /\ loop = <<call, loop[2]>>
      <4>1. loop = <<loop[1], loop[2]>>
        BY <2>1 DEF Traces
      <4>. QED  BY <1>13, <2>1, <4>1 DEF TimerOpened, Undisturbed, OwnTrace
    <3>. QED  BY <2>1, <2>2, <3>1, UndisturbedOpened DEF InCall
  <2>3. CASE UNCHANGED traceVars
    BY <2>1, <2>3, UndisturbedSteady DEF InCall
  <2>. QED  BY <1>13, <2>2, <2>3 DEF TimerOpened
<1>14. CASE EndCall
  <2>1. /\ target' = "ended" /\ UNCHANGED <<call, table, file, disposed, listed, loop>>
        /\ stalked' = Unfollowed
        /\ overtaken' = IF loop = None THEN overtaken ELSE overtaken \cup {loop[2]}
    BY <1>14 DEF EndCall
  <2>2. ASSUME NEW t \in Tids \ overtaken' PROVE OwnTrace(t)'
    <3>1. t \notin overtaken /\ (loop # None => loop[2] # t)
      BY <2>1, <2>2
    <3>2. stalked'[t] = None
      <4>1. table[t] = None => stalked[t] = None
        <5>1. stalked[t] # None => table[t] = stalked[t]
          BY <3>1 DEF Undisturbed, OwnTrace
        <5>. QED  BY <5>1
      <4>. QED  BY <2>1, <4>1 DEF Unfollowed
    <3>. QED  BY <2>1, <3>1, <3>2 DEF OwnTrace
  <2>3. \A c \in 1..MaxCalls : \A w \in listed'[c] : file'[w] = "closed" \/ w[2] \in overtaken'
    BY <2>1 DEF Undisturbed
  <2>. QED  BY <2>1, <2>2, <2>3 DEF Undisturbed
<1>15. CASE StartClosing
  <2>1. /\ target' = "closing" /\ todo' = InTable /\ target = "ended"
        /\ UNCHANGED <<call, table, stalked, file, disposed, listed, overtaken, loop>>
    BY <1>15 DEF StartClosing
  <2>2. ASSUME NEW t \in Tids \ overtaken PROVE OwnTrace(t)'
    BY <2>1 DEF Undisturbed, OwnTrace, InCall, InTable
  <2>. QED  BY <1>3, <2>1, <2>2
<1>16. ASSUME NEW w \in Traces, CloseWorker(w) PROVE Undisturbed'
  <2>1. /\ target = "closing" /\ todo' = todo \ {w} /\ file' = [file EXCEPT ![w] = "closed"]
        /\ UNCHANGED <<call, table, stalked, disposed, listed, overtaken, loop, target>>
    BY <1>16 DEF CloseWorker, FileAfter
  <2>2. ASSUME NEW t \in Tids \ overtaken PROVE OwnTrace(t)'
    <3>1. table[t] # None => table[t] \in todo' \/ file'[table[t]] = "closed"
      <4>1. table[t] # None => table[t] \in todo \/ file[table[t]] = "closed"
        BY <2>1 DEF Undisturbed, OwnTrace
      <4>2. file \in [Traces -> {"none", "open", "closed"}] /\ (table[t] # None => table[t] \in Traces)
        BY <1>2 DEF TypeOK
      <4>. QED  BY <2>1, <4>1, <4>2
    <3>. QED  BY <2>1, <3>1 DEF Undisturbed, OwnTrace, InCall
  <2>. QED  BY <1>3, <2>1, <2>2
<1>17. CASE Summarise
  <2>1. /\ target = "closing" /\ todo = {} /\ target' = "sealing"
        /\ listed' = [listed EXCEPT ![call] = InTable]
        /\ UNCHANGED <<call, table, stalked, file, disposed, overtaken, loop>>
    BY <1>17 DEF Summarise
  <2>2. ASSUME NEW t \in Tids \ overtaken PROVE OwnTrace(t)'
    BY <2>1 DEF Undisturbed, OwnTrace, InCall
  <2>3. ASSUME NEW w \in InTable PROVE file[w] = "closed" \/ w[2] \in overtaken
    <3>1. PICK t \in Tids : table[t] # None /\ w = table[t]
      BY DEF InTable
    <3>2. w[2] = t
      BY <3>1 DEF Undisturbed
    <3>. QED  BY <2>1, <3>1, <3>2 DEF Undisturbed, OwnTrace
  <2>4. \A c \in 1..MaxCalls : \A w \in listed'[c] : file'[w] = "closed" \/ w[2] \in overtaken'
    BY <2>1, <2>3 DEF Undisturbed, TypeOK
  <2>. QED  BY <2>1, <2>2, <2>4 DEF Undisturbed
<1>18. CASE Seal
  BY <1>18, UndisturbedSteady DEF Seal, InCall
<1>19. CASE UNCHANGED vars
  BY <1>19, UndisturbedSteady DEF vars, InCall
<1>. QED
  BY <1>4, <1>5, <1>6, <1>7, <1>8, <1>9, <1>10, <1>11, <1>12, <1>13, <1>14, <1>15, <1>16, <1>17,
     <1>18, <1>19 DEF Next

-----------------------------------------------------------------------------
(* The theorems *)

(* In the beginning nobody is followed and no place is taken.               *)
LEMMA WorkersInit == Init => IInv
<1> SUFFICES ASSUME Init PROVE IInv
  OBVIOUS
<1>1. Phases /\ HookedLate /\ ReservationsHeld
  BY EmptySeq DEF Init, Phases, HookedLate, ReservationsHeld
<1>2. Booked
  BY FS_EmptySet, WorkersAssumption DEF Init, Booked, Opening, Slack
<1>3. Births
  BY EmptySeq DEF Init, Births
<1>4. Undisturbed
  BY DEF Init, Undisturbed, OwnTrace, InCall
<1>. QED  BY <1>1, <1>2, <1>3, <1>4, TypesInit DEF IInv

(* The invariant is inductive.                                              *)
LEMMA WorkersStep == IInv /\ [Next]_vars => IInv'
BY TypesStep, PhasesStep, ReservationsStep, HookedStep, BookedStep, BirthsStep, UndisturbedStep
   DEF IInv

(* It holds in every reachable state.                                       *)
LEMMA WorkersInv == Spec => []IInv
BY WorkersInit, WorkersStep, PTL DEF Spec

(* In every instance the variables keep their types: whatever is opened,    *)
(* followed or listed is a trace of a thread of the target                  *)
(* (pthread_follow.ts).                                                     *)
THEOREM WorkersTypeCorrect == Spec => []TypeOK
<1>1. IInv => TypeOK
  BY DEF IInv
<1>. QED  BY <1>1, WorkersInv, PTL

(* For every set of threads and every cap, each reservation is a timer's    *)
(* that has not run, and a call records one worker more than the cap at the *)
(* most, and in the first call none (pthread_follow.ts,                     *)
(* pendingWorkerReservations and maxWorkerThreads).                         *)
THEOREM WorkersPlacesTrue == Spec => []PlacesTrue
<1>1. IInv => PlacesTrue
  <2> SUFFICES ASSUME IInv PROVE CapHeld
    BY DEF PlacesTrue, IInv
  <2>1. Opening(resident) \in 0..1 /\ Opening(loop) \in 0..1 /\ Slack \in 0..1
    BY DEF Opening, Slack
  <2>2. Cardinality(followed) \in Nat /\ MaxWorkers \in Nat
    BY FS_CardinalityType, WorkersAssumption DEF IInv, Booked
  <2>3. Cardinality(followed) <= MaxWorkers + Slack
    BY <2>1, <2>2 DEF IInv, Booked
  <2>. QED  BY <2>3 DEF CapHeld, Slack
<1>. QED  BY <1>1, WorkersInv, PTL

(* For every set of threads and number of calls, a thread that a timer      *)
(* follows was created in the call it is recorded in, and what a call       *)
(* starts ends with it, but for threads a timer was opening a file for when *)
(* a call ended (pthread_follow.ts, agent.ts).                              *)
THEOREM WorkersAreOfCall == Spec => []WorkersOfCall
<1>1. IInv => WorkersOfCall
  <2> SUFFICES ASSUME IInv PROVE WorkersOfCall
    OBVIOUS
  <2>1. SpawnedInCall
    BY DEF SpawnedInCall, IInv, Births
  <2>2. target = "out" => \A t \in Tids : stalked[t] # None => t \in overtaken
    BY DEF IInv, Undisturbed, OwnTrace, InCall
  <2>3. ASSUME NEW t \in Tids, stalked[t] # None, t \notin overtaken
        PROVE  stalked[t] \notin disposed
    <3>1. table[t] = stalked[t] /\ InCall
      BY <2>3 DEF IInv, Undisturbed, OwnTrace
    <3>2. file[stalked[t]] = "open"
      BY <2>3 DEF IInv, Undisturbed, OwnTrace
    <3>. QED  BY <3>2 DEF IInv, Undisturbed
  <2>. QED  BY <2>1, <2>2, <2>3 DEF WorkersOfCall, EndsWithCall, IInv, Undisturbed
<1>. QED  BY <1>1, WorkersInv, PTL
=============================================================================
