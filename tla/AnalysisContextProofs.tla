----------------------- MODULE AnalysisContextProofs -----------------------
(***************************************************************************)
(* Theorems about AnalysisContext for every number of processes, threads,  *)
(* contexts, traces and permits, and every number of changes and faults.   *)
(***************************************************************************)
EXTENDS AnalysisContext, FiniteSetTheorems, TLAPS

(* The lock file of a trace is held by the one thread that is between       *)
(* LockFile and GiveLock on that trace.                                     *)
LocksHeld ==
  /\ \A k \in Traces, t \in Threads : fileLock[k] = t => Locked(t) /\ Trace(t) = k
  /\ \A t \in Threads : Locked(t) => fileLock[Trace(t)] = t

(* The threads of a process that hold a permit of its gate.                 *)
Held(p) == {t \in Threads : ProcessOf[t] = p /\ Holding(t)}

GateCounts == \A p \in Processes : active[p] = Cardinality(Held(p))

GateInv == TypeOK /\ LocksHeld /\ GateCounts /\ SleepersWoken

(* What a thread knows of the inputs, from its second look at the sidecar   *)
(* to the rename: the sidecar claims an older version than the one it noted *)
(* and, once both digests agreed, the shadow it made is of that version.    *)
Noted(t) ==
  /\ sidecar[Trace(t)].claim < run[t].digest
  /\ run[t].digest <= inputs[Trace(t)]

NotesOf(t) ==
  /\ run[t].pc \in {"load", "reload", "compare", "save", "rename"} => Kind(t) = "mem"
  /\ At(t, "build") /\ Kind(t) = "mem" => Noted(t)
  /\ run[t].pc \in {"compare", "save", "rename"} => Noted(t)

MadeOf(t) ==
  /\ At(t, "compare") => run[t].digest <= run[t].made /\ run[t].made <= inputs[Trace(t)]
  /\ At(t, "save") => run[t].made = inputs[Trace(t)]
  /\ At(t, "rename") => run[t].made = run[t].digest

NotedByMakers == \A t \in Threads : NotesOf(t)
MadeAsNoted == \A t \in Threads : MadeOf(t)
NoneAhead == \A k \in Traces : sidecar[k].claim <= inputs[k]

OnceInv == GateInv /\ NotedByMakers /\ NoneAhead
CacheInv == OnceInv /\ MadeAsNoted /\ CacheTrue

-----------------------------------------------------------------------------
(* Types *)

(* A thread that has asked knows what of, and its trace (context.rs:171).   *)
LEMMA AskedTypes ==
  ASSUME TypeOK, NEW t \in Threads, ~At(t, "idle")
  PROVE  /\ run[t].asks[1] \in Contexts /\ Kind(t) \in Components
         /\ Trace(t) \in Traces /\ Digest(t) \in 1..changes + 1
         /\ Digest(t) \in Versions
         /\ sidecar[Trace(t)].claim \in Versions
<1>1. run[t].asks \in Contexts \X {"cfg", "mem"}
  <2>1. run[t] \in RunState
    BY DEF TypeOK
  <2>. QED  BY <2>1, ContextAssumption DEF RunState, At
<1>2. Trace(t) \in Traces
  BY <1>1, ContextAssumption DEF Trace
<1>3. run[t].asks[1] \in Contexts /\ Kind(t) \in Components
  BY <1>1 DEF Kind, Components
<1>4. Digest(t) \in 1..changes + 1 /\ changes \in 0..MaxChanges
  BY <1>2 DEF TypeOK, Digest
<1>5. Digest(t) \in Versions
  BY <1>4, ContextAssumption DEF Versions
<1>6. sidecar[Trace(t)].claim \in Versions
  BY <1>2 DEF TypeOK
<1>. QED  BY <1>2, <1>3, <1>4, <1>5, <1>6

(* An operation that moves one thread keeps every thread's type.            *)
LEMMA OneMoves ==
  ASSUME run \in [Threads -> RunState], NEW t \in Threads, NEW next \in RunState,
         run' = [run EXCEPT ![t] = next]
  PROVE  run' \in [Threads -> RunState]
OBVIOUS

(* A thread moved to another step is as it was but for the step.            *)
LEMMA StepTypes ==
  ASSUME NEW r \in RunState, r.pc # "idle", NEW pc \in Steps,
         r.out # "none" \/ pc \notin {"compare", "save", "rename", "permit", "set"}
  PROVE  [r EXCEPT !.pc = pc] \in RunState
BY DEF RunState

(* The deadline only turns one field.                                       *)
LEMMA LateTypes ==
  ASSUME NEW r \in RunState, NEW b \in BOOLEAN
  PROVE  [r EXCEPT !.late = b] \in RunState
BY DEF RunState

(* A thread that has nothing to do has a state of its own.                  *)
LEMMA IdleType == Idle \in RunState
BY ContextAssumption DEF Idle, RunState, Steps, Versions

(* A permit given back takes one from its gate, moves its thread on and     *)
(* wakes at most one other (parallel.rs:66).                                *)
LEMMA PermitBackTypes ==
  ASSUME TypeOK, NEW t \in Threads, NEW next \in RunState, PermitBack(t, next),
         active[ProcessOf[t]] > 0, ~At(t, "asleep")
  PROVE  /\ active' \in [Processes -> 0..Permits]
         /\ run' \in [Threads -> RunState]
<1>1. active' \in [Processes -> 0..Permits]
  BY ContextAssumption DEF TypeOK, PermitBack
<1>2. CASE run' = [run EXCEPT ![t] = next]
  BY <1>1, <1>2, OneMoves DEF TypeOK
<1>3. ASSUME NEW s \in Sleepers(ProcessOf[t]),
             run' = [run EXCEPT ![t] = next, ![s].pc = "gate"]
      PROVE  run' \in [Threads -> RunState]
  <2> DEFINE moved == [run EXCEPT ![t] = next]
             woken == [run[s] EXCEPT !.pc = "gate"]
  <2>1. s \in Threads /\ s # t /\ run[s].pc = "asleep" /\ run[s] \in RunState
    BY <1>3 DEF Sleepers, At, TypeOK
  <2>2. woken \in RunState
    BY <2>1, StepTypes DEF Steps
  <2>3. moved \in [Threads -> RunState] /\ moved[s] = run[s]
    BY <2>1 DEF TypeOK
  <2>4. run' = [moved EXCEPT ![s] = woken]
    BY <1>3, <2>1, <2>3
  <2> HIDE DEF moved, woken
  <2>. QED  BY <2>1, <2>2, <2>3, <2>4
<1>. QED  BY <1>1, <1>2, <1>3 DEF PermitBack

(* In the beginning every value has its type.                               *)
LEMMA TypesInit == Init => TypeOK
BY ContextAssumption DEF Init, TypeOK, NoFile, Versions, NoOne, Components, Idle,
   RunState, Steps

(* Who holds a permit is counted by its gate, so the counter is above zero  *)
(* when it is given back.                                                   *)
LEMMA HolderCounted ==
  ASSUME TypeOK, GateCounts, NEW t \in Threads, Holding(t)
  PROVE  /\ ProcessOf[t] \in Processes
         /\ active[ProcessOf[t]] > 0
<1>1. ProcessOf[t] \in Processes
  BY ContextAssumption
<1>2. IsFiniteSet(Held(ProcessOf[t]))
  BY ContextAssumption, FS_Subset DEF Held
<1>3. Held(ProcessOf[t]) # {}
  BY DEF Held
<1>4. /\ Cardinality(Held(ProcessOf[t])) \in Nat
      /\ Cardinality(Held(ProcessOf[t])) # 0
  BY <1>2, <1>3, FS_CardinalityType, FS_EmptySet
<1>. QED  BY <1>1, <1>4 DEF GateCounts

(* No operation takes a variable out of its type.                           *)
LEMMA TypesStep == TypeOK /\ GateCounts /\ [Next]_vars => TypeOK'
<1> SUFFICES ASSUME TypeOK, GateCounts, [Next]_vars PROVE TypeOK'
  OBVIOUS
<1>1. ASSUME NEW t \in Threads, NEW c \in Contexts, NEW m \in Components, Ask(t, c, m)
      PROVE  TypeOK'
  <2>1. run[t] \in RunState /\ <<c, m>> \in Asked
    BY <1>1 DEF Ask, TypeOK
  <2>4. ASSUME NEW pc \in {"cell", "load", "gate"}
        PROVE  [run[t] EXCEPT !.pc = pc, !.asks = <<c, m>>] \in RunState
    <3>1. pc \in Steps /\ pc # "idle" /\ pc \notin {"compare", "save", "rename", "permit", "set"}
      BY DEF Steps
    <3>. QED  BY <2>1, <3>1 DEF RunState
  <2>2. run' \in [Threads -> RunState]
    BY <1>1, <2>4 DEF Ask, TypeOK
  <2>3. cells' \in [Contexts -> [Components -> {"empty", "running", "ok", "err"}]]
    <3>1. [cells[c] EXCEPT ![m] = "running"] \in [Components -> {"empty", "running", "ok", "err"}]
      BY DEF TypeOK
    <3>. QED  BY <1>1, <3>1 DEF Ask, TypeOK
  <2>. QED  BY <1>1, <2>2, <2>3 DEF Ask, TypeOK, diskVars
<1>2. ASSUME NEW t \in Threads, CellSet(t) PROVE TypeOK'
  BY <1>2, IdleType DEF CellSet, TypeOK, diskVars
<1>3. ASSUME NEW t \in Threads, NEW out \in {"ok", "err"}, ~At(t, "idle"), SetCell(t, out)
      PROVE  /\ cells' \in [Contexts -> [Components -> {"empty", "running", "ok", "err"}]]
             /\ run' \in [Threads -> RunState]
  <2>1. run[t].asks[1] \in Contexts /\ Kind(t) \in Components
    BY <1>3, AskedTypes
  <2>. QED  BY <1>3, <2>1, IdleType DEF SetCell, TypeOK
<1>4. ASSUME NEW t \in Threads, ~At(t, "idle"), NEW pc \in Steps, Goto(t, pc),
             pc \notin {"compare", "save", "rename", "permit", "set"} \/ run[t].out # "none"
      PROVE  run' \in [Threads -> RunState]
  <2>1. run[t] \in RunState /\ run[t].pc # "idle"
    BY <1>4 DEF TypeOK, At
  <2>2. [run[t] EXCEPT !.pc = pc] \in RunState
    BY <1>4, <2>1, StepTypes
  <2>. QED  BY <1>4, <2>2 DEF TypeOK, Goto
<1>5. ASSUME NEW t \in Threads, CheckGate(t) PROVE TypeOK'
  <2>1. ProcessOf[t] \in Processes /\ ~At(t, "idle") /\ run[t] \in RunState /\ run[t].pc = "gate"
    BY <1>5, ContextAssumption DEF CheckGate, At, TypeOK
  <2>2. CASE HasRoom(ProcessOf[t])
    <3>1. active' \in [Processes -> 0..Permits]
      BY <1>5, <2>1, <2>2, ContextAssumption DEF CheckGate, HasRoom, TypeOK
    <3>2. [run[t] EXCEPT !.pc = "file", !.late = FALSE] \in RunState
      BY <2>1 DEF RunState, Steps
    <3>3. run' \in [Threads -> RunState]
      BY <1>5, <2>2, <3>2 DEF CheckGate, TypeOK
    <3>. QED  BY <1>5, <2>2, <3>1, <3>3 DEF CheckGate, TypeOK, diskVars
  <2>3. CASE ~HasRoom(ProcessOf[t])
    BY <1>3, <1>4, <1>5, <2>1, <2>3 DEF CheckGate, TypeOK, diskVars, Steps
  <2>. QED  BY <2>2, <2>3
<1>6. ASSUME NEW t \in Threads, Wakes(t) PROVE TypeOK'
  BY <1>4, <1>6 DEF Wakes, TypeOK, At, Steps, diskVars
<1>7. ASSUME NEW t \in Threads, DeadlinePasses(t) PROVE TypeOK'
  <2>1. run[t] \in RunState /\ run[t].pc # "idle"
    BY <1>7 DEF DeadlinePasses, Blocked, At, TypeOK
  <2>2. [run[t] EXCEPT !.late = TRUE] \in RunState
    BY <2>1, LateTypes
  <2>. QED  BY <1>7, <2>2 DEF DeadlinePasses, TypeOK, diskVars
<1>8. ASSUME NEW t \in Threads, LockFile(t) PROVE TypeOK'
  <2>1. Trace(t) \in Traces /\ ~At(t, "idle")
    BY <1>8, AskedTypes DEF LockFile, At
  <2>2. run' \in [Threads -> RunState]
    BY <1>4, <1>8, <2>1 DEF LockFile, Steps
  <2>. QED  BY <1>8, <2>1, <2>2 DEF LockFile, TypeOK, diskVars
<1>9. ASSUME NEW t \in Threads, LockRefused(t) PROVE TypeOK'
  <2>1. /\ run[t].asks[1] \in Contexts /\ Kind(t) \in Components
        /\ Holding(t) /\ ~At(t, "asleep")
    BY <1>9, AskedTypes DEF LockRefused, At, Holding
  <2>2. active' \in [Processes -> 0..Permits] /\ run' \in [Threads -> RunState]
    BY <1>9, <2>1, IdleType, PermitBackTypes, HolderCounted DEF LockRefused, RefuseFile
  <2>3. cells' \in [Contexts -> [Components -> {"empty", "running", "ok", "err"}]]
    BY <1>9, <2>1 DEF LockRefused, RefuseFile, TypeOK
  <2>4. faults' \in 0..MaxFaults
    BY <1>9, ContextAssumption DEF LockRefused, TypeOK
  <2>. QED  BY <1>9, <2>2, <2>3, <2>4 DEF LockRefused, TypeOK, diskVars
<1>10. ASSUME NEW t \in Threads, Load(t) PROVE TypeOK'
  BY <1>3, <1>4, <1>10 DEF Load, TypeOK, diskVars, At, Steps
<1>11. ASSUME NEW t \in Threads, Reload(t) PROVE TypeOK'
  <2>1. Digest(t) \in Versions /\ Outcome(t) \in {"ok", "err"} /\ run[t] \in RunState
        /\ run[t].pc = "reload"
    BY <1>11, AskedTypes DEF Reload, At, Outcome, TypeOK
  <2>2. /\ [run[t] EXCEPT !.pc = "permit", !.out = Outcome(t)] \in RunState
        /\ [run[t] EXCEPT !.pc = "build", !.digest = Digest(t)] \in RunState
    BY <2>1 DEF RunState, Steps
  <2>3. run' \in [Threads -> RunState]
    BY <1>11, <2>2 DEF Reload, TypeOK
  <2>. QED  BY <1>11, <2>3 DEF Reload, TypeOK, diskVars
<1>12. ASSUME NEW t \in Threads, Build(t) PROVE TypeOK'
  <2>1. Digest(t) \in Versions /\ Outcome(t) \in {"ok", "err"} /\ run[t] \in RunState
        /\ run[t].pc = "build"
    BY <1>12, AskedTypes DEF Build, At, Outcome, TypeOK
  <2>2. /\ [run[t] EXCEPT !.made = Digest(t), !.out = Outcome(t), !.pc = "compare"] \in RunState
        /\ \A out \in {"ok", "err"} : [run[t] EXCEPT !.out = out, !.pc = "permit"] \in RunState
    BY <2>1 DEF RunState, Steps
  <2>3. run' \in [Threads -> RunState]
    BY <1>12, <2>2 DEF Build, TypeOK
  <2>. QED  BY <1>12, <2>3 DEF Build, TypeOK, diskVars
<1>13. ASSUME NEW t \in Threads, run[t].pc \in {"compare", "save", "rename", "permit", "set"}
       PROVE  run[t].out \in {"ok", "err"} /\ ~At(t, "idle")
  BY <1>13 DEF TypeOK, RunState, At
<1>14. ASSUME NEW t \in Threads, Compare(t) PROVE TypeOK'
  BY <1>4, <1>13, <1>14 DEF Compare, TypeOK, At, Steps, diskVars
<1>15. ASSUME NEW t \in Threads, Save(t) PROVE TypeOK'
  <2>1. Digest(t) \in Versions /\ run[t] \in RunState /\ run[t].pc = "save"
    BY <1>15, AskedTypes DEF Save, At, TypeOK
  <2>2. [run[t] EXCEPT !.pc = "rename", !.digest = Digest(t)] \in RunState
    BY <2>1 DEF RunState, Steps
  <2>. QED  BY <1>15, <2>2 DEF Save, TypeOK, diskVars
<1>16. ASSUME NEW t \in Threads, Rename(t) PROVE TypeOK'
  <2>1. run' \in [Threads -> RunState]
    BY <1>4, <1>13, <1>16 DEF Rename, At, Steps
  <2>2. run[t].digest \in Versions /\ run[t].made \in Versions
    BY DEF TypeOK, RunState
  <2>3. sidecar' \in [Traces -> [claim : Versions, made : Versions]]
    BY <1>16, <2>2 DEF Rename, TypeOK
  <2>4. faults' \in 0..MaxFaults
    BY <1>16, ContextAssumption DEF Rename, TypeOK
  <2>. QED  BY <1>16, <2>1, <2>3, <2>4 DEF Rename, TypeOK
<1>17. ASSUME NEW t \in Threads, GivePermit(t) PROVE TypeOK'
  <2>1. /\ Holding(t) /\ ~At(t, "asleep") /\ run[t] \in RunState /\ run[t].pc = "permit"
    BY <1>17 DEF GivePermit, At, Holding, TypeOK
  <2>2. [run[t] EXCEPT !.pc = "set"] \in RunState
    BY <1>13, <2>1, StepTypes DEF Steps
  <2>3. active' \in [Processes -> 0..Permits] /\ run' \in [Threads -> RunState]
    BY <1>17, <2>1, <2>2, PermitBackTypes, HolderCounted DEF GivePermit
  <2>. QED  BY <1>17, <2>3 DEF GivePermit, TypeOK, diskVars
<1>18. ASSUME NEW t \in Threads, GiveLock(t) PROVE TypeOK'
  <2>1. Trace(t) \in Traces
    BY <1>18, AskedTypes DEF GiveLock, At
  <2>. QED  BY <1>3, <1>13, <1>18, <2>1 DEF GiveLock, TypeOK, diskVars, At
<1>19. ASSUME NEW k \in Traces, Change(k) PROVE TypeOK'
  <2>1. changes' \in 0..MaxChanges /\ inputs' \in [Traces -> 1..changes' + 1]
    BY <1>19, ContextAssumption DEF Change, TypeOK
  <2>. QED  BY <1>19, <2>1 DEF Change, TypeOK
<1>20. ASSUME NEW p \in Processes, Die(p) PROVE TypeOK'
  <2>1. run' \in [Threads -> RunState]
    BY <1>20, IdleType DEF Die, TypeOK
  <2>2. /\ active' \in [Processes -> 0..Permits]
        /\ fileLock' \in [Traces -> Threads \cup {NoOne}]
        /\ cells' \in [Contexts -> [Components -> {"empty", "running", "ok", "err"}]]
    BY <1>20, ContextAssumption DEF Die, TypeOK
  <2>3. faults' \in 0..MaxFaults
    BY <1>20, ContextAssumption DEF Die, TypeOK
  <2>. QED  BY <1>20, <2>1, <2>2, <2>3 DEF Die, TypeOK, diskVars
<1>21. CASE UNCHANGED vars
  BY <1>21 DEF vars, diskVars, TypeOK
<1>. QED
  BY <1>1, <1>2, <1>5, <1>6, <1>7, <1>8, <1>9, <1>10, <1>11, <1>12, <1>14, <1>15, <1>16,
     <1>17, <1>18, <1>19, <1>20, <1>21 DEF Next, Step

-----------------------------------------------------------------------------
(* Where each operation takes its thread *)

Stay(t) == \A u \in Threads \ {t} : run'[u] = run[u]

(* The fields a thread's step does not assign keep their values.            *)
LEMMA GotoMoves ==
  ASSUME TypeOK, NEW t \in Threads, NEW pc, Goto(t, pc)
  PROVE  /\ Stay(t) /\ run'[t].pc = pc /\ run'[t].asks = run[t].asks
         /\ run'[t].digest = run[t].digest /\ run'[t].made = run[t].made
<1>1. run[t] \in RunState /\ run' = [run EXCEPT ![t] = [run[t] EXCEPT !.pc = pc]]
  BY DEF TypeOK, Goto
<1>2. run'[t] = [run[t] EXCEPT !.pc = pc] /\ Stay(t)
  BY <1>1 DEF TypeOK, Stay
<1>. QED  BY <1>1, <1>2 DEF RunState

(* A thread that is answered goes back to nothing to do.                    *)
LEMMA IdleMoves ==
  ASSUME TypeOK, NEW t \in Threads, run' = [run EXCEPT ![t] = Idle]
  PROVE  Stay(t) /\ run'[t].pc = "idle"
BY DEF TypeOK, Stay, Idle

(* A question goes to its cell, and if that is empty to the gate, or, for   *)
(* the memory shadow, first to the sidecar.                                 *)
LEMMA AskMoves ==
  ASSUME TypeOK, NEW t \in Threads, NEW c \in Contexts, NEW m \in Components, Ask(t, c, m)
  PROVE  /\ Stay(t) /\ run[t].pc = "idle" /\ run'[t].asks = <<c, m>>
         /\ run'[t].pc = "cell" \/ run'[t].pc = IF m = "mem" THEN "load" ELSE "gate"
<1>1. run[t] \in RunState
  BY DEF TypeOK
<1>. QED  BY <1>1 DEF TypeOK, Stay, Ask, At, RunState

(* A deadline that passes moves nobody.                                     *)
LEMMA DeadlineMoves ==
  ASSUME TypeOK, NEW t \in Threads, DeadlinePasses(t)
  PROVE  \A u \in Threads : /\ run'[u].pc = run[u].pc /\ run'[u].asks = run[u].asks
                            /\ run'[u].digest = run[u].digest /\ run'[u].made = run[u].made
<1>1. run[t] \in RunState
  BY DEF TypeOK
<1>. QED  BY <1>1 DEF TypeOK, DeadlinePasses, RunState

(* At the gate a thread takes a permit, gives up, or sleeps.                *)
LEMMA CheckGateMoves ==
  ASSUME TypeOK, NEW t \in Threads, CheckGate(t)
  PROVE  /\ Stay(t) /\ run[t].pc = "gate"
         /\ HasRoom(ProcessOf[t]) => run'[t].pc = "file"
         /\ ~HasRoom(ProcessOf[t]) => run'[t].pc \in {"idle", "asleep"}
         /\ run'[t].pc # "idle" => run'[t].asks = run[t].asks
<1>1. run[t] \in RunState /\ run[t].pc = "gate"
  BY DEF TypeOK, CheckGate, At
<1>2. CASE HasRoom(ProcessOf[t])
  BY <1>1, <1>2 DEF TypeOK, CheckGate, Stay, RunState
<1>3. CASE ~HasRoom(ProcessOf[t])
  BY <1>1, <1>3, IdleMoves, GotoMoves DEF CheckGate, SetCell
<1>. QED  BY <1>2, <1>3

(* The sidecar is loaded before the gate: it answers, or the thread queues. *)
LEMMA LoadMoves ==
  ASSUME TypeOK, NEW t \in Threads, Load(t)
  PROVE  /\ Stay(t) /\ run[t].pc = "load" /\ run'[t].pc \in {"idle", "gate"}
         /\ run'[t].pc # "idle" => run'[t].asks = run[t].asks
BY IdleMoves, GotoMoves DEF Load, SetCell, At

(* The second look at the sidecar, under the lock of the trace, answers, or *)
(* the digest is noted that the build begins with.                          *)
LEMMA ReloadMoves ==
  ASSUME TypeOK, NEW t \in Threads, Reload(t)
  PROVE  /\ Stay(t) /\ run[t].pc = "reload" /\ run'[t].asks = run[t].asks
         /\ \/ run'[t].pc = "permit"
            \/ run'[t].pc = "build" /\ run'[t].digest = Digest(t) /\ ~Fresh(t)
<1>1. run[t] \in RunState /\ run[t].pc = "reload"
  BY DEF TypeOK, Reload, At
<1>. QED  BY <1>1 DEF TypeOK, Reload, Reloaded, Stay, RunState

(* What is built is made from the inputs of now; only the memory shadow     *)
(* goes on to the comparison.                                               *)
LEMMA BuildMoves ==
  ASSUME TypeOK, NEW t \in Threads, Build(t)
  PROVE  /\ Stay(t) /\ run[t].pc = "build" /\ run'[t].asks = run[t].asks
         /\ \/ run'[t].pc = "permit"
            \/ /\ run'[t].pc = "compare" /\ Kind(t) = "mem"
               /\ run'[t].digest = run[t].digest /\ run'[t].made = Digest(t)
<1>1. run[t] \in RunState /\ run[t].pc = "build"
  BY DEF TypeOK, Build, At
<1>. QED  BY <1>1 DEF TypeOK, Build, Stay, RunState

(* The file that is about to be renamed is stamped with the digest of now.  *)
LEMMA SaveMoves ==
  ASSUME TypeOK, NEW t \in Threads, Save(t)
  PROVE  /\ Stay(t) /\ run[t].pc = "save" /\ run'[t].asks = run[t].asks
         /\ run'[t].pc = "rename" /\ run'[t].digest = Digest(t) /\ run'[t].made = run[t].made
<1>1. run[t] \in RunState /\ run[t].pc = "save"
  BY DEF TypeOK, Save, At
<1>. QED  BY <1>1 DEF TypeOK, Save, Stay, RunState

(* Who gives its permit back moves on; of the others at most a sleeper      *)
(* moves, to the gate (parallel.rs:66).                                     *)
LEMMA PermitBackMoves ==
  ASSUME TypeOK, NEW t \in Threads, NEW next, PermitBack(t, next), ~At(t, "asleep")
  PROVE  /\ run'[t] = next
         /\ \/ Stay(t) /\ Sleepers(ProcessOf[t]) = {}
            \/ \E s \in Sleepers(ProcessOf[t]) :
                 /\ s # t /\ s \in Threads /\ run[s].pc = "asleep"
                 /\ run'[s] = [run[s] EXCEPT !.pc = "gate"]
                 /\ run'[s].pc = "gate" /\ run'[s].asks = run[s].asks
                 /\ \A u \in Threads \ {t, s} : run'[u] = run[u]
<1>1. CASE run' = [run EXCEPT ![t] = next] /\ Sleepers(ProcessOf[t]) = {}
  BY <1>1 DEF TypeOK, Stay
<1>2. ASSUME NEW s \in Sleepers(ProcessOf[t]),
             run' = [run EXCEPT ![t] = next, ![s].pc = "gate"]
      PROVE  /\ run'[t] = next /\ s # t /\ s \in Threads /\ run[s].pc = "asleep"
             /\ run'[s] = [run[s] EXCEPT !.pc = "gate"]
             /\ run'[s].pc = "gate" /\ run'[s].asks = run[s].asks
             /\ \A u \in Threads \ {t, s} : run'[u] = run[u]
  <2>1. s \in Threads /\ s # t /\ run[s].pc = "asleep" /\ run[s] \in RunState
    BY <1>2 DEF Sleepers, At, TypeOK
  <2>2. run'[s] = [run[s] EXCEPT !.pc = "gate"] /\ run'[t] = next
    BY <1>2, <2>1 DEF TypeOK
  <2>3. run'[s].pc = "gate" /\ run'[s].asks = run[s].asks
    BY <2>1, <2>2 DEF RunState
  <2>4. \A u \in Threads \ {t, s} : run'[u] = run[u]
    BY <1>2, <2>1 DEF TypeOK
  <2>. QED  BY <2>1, <2>2, <2>3, <2>4
<1>. QED  BY <1>1, <1>2 DEF PermitBack

(* A permit that goes back wakes one sleeper and touches nobody else.       *)
LEMMA PermitBackOthers ==
  ASSUME TypeOK, NEW t \in Threads, NEW next, PermitBack(t, next), ~At(t, "asleep")
  PROVE  \A u \in Threads \ {t} :
           /\ run'[u] = run[u] \/ (run[u].pc = "asleep" /\ run'[u].pc = "gate")
           /\ Locked(u)' <=> Locked(u)
           /\ Locked(u) => run'[u].asks = run[u].asks
<1>1. ASSUME NEW u \in Threads \ {t}
      PROVE  run'[u] = run[u] \/ (run[u].pc = "asleep" /\ run'[u].pc = "gate")
  BY PermitBackMoves DEF Stay
<1>. QED  BY <1>1 DEF Locked

(* After the permit is given back the result is put into the cell.          *)
LEMMA GivePermitMoves ==
  ASSUME TypeOK, NEW t \in Threads, GivePermit(t)
  PROVE  /\ ~At(t, "asleep") /\ run[t].pc = "permit"
         /\ run'[t].pc = "set" /\ run'[t].asks = run[t].asks
<1>1. run[t] \in RunState /\ run[t].pc = "permit" /\ ~At(t, "asleep")
  BY DEF TypeOK, GivePermit, At
<1>2. run'[t] = [run[t] EXCEPT !.pc = "set"]
  BY <1>1, PermitBackMoves DEF GivePermit
<1>. QED  BY <1>1, <1>2 DEF RunState

-----------------------------------------------------------------------------
(* Lock files *)

(* Nobody takes or gives a lock file, so nothing changes about who has one. *)
LEMMA LocksSteady ==
  ASSUME LocksHeld, fileLock' = fileLock,
         \A u \in Threads : /\ Locked(u)' <=> Locked(u)
                            /\ Locked(u) => run'[u].asks = run[u].asks
  PROVE  LocksHeld'
BY DEF LocksHeld, Trace

(* The same when only one thread moves.                                     *)
LEMMA LocksSteadyFor ==
  ASSUME LocksHeld, fileLock' = fileLock, NEW t \in Threads, Stay(t),
         Locked(t)' <=> Locked(t), Locked(t) => run'[t].asks = run[t].asks
  PROVE  LocksHeld'
BY LocksSteady DEF Stay, Locked

(* Who takes the lock file of its trace has it, and keeps it until GiveLock *)
(* or the death of its process (context.rs:171).                            *)
LEMMA LocksStep == TypeOK /\ LocksHeld /\ [Next]_vars => LocksHeld'
<1> SUFFICES ASSUME TypeOK, LocksHeld, [Next]_vars PROVE LocksHeld'
  OBVIOUS
<1> USE DEF Locked
<1>1. ASSUME NEW t \in Threads, NEW c \in Contexts, NEW m \in Components, Ask(t, c, m)
      PROVE  LocksHeld'
  BY <1>1, AskMoves, LocksSteadyFor DEF Ask
<1>2. ASSUME NEW t \in Threads, CellSet(t) PROVE LocksHeld'
  BY <1>2, IdleMoves, LocksSteadyFor DEF CellSet, At
<1>3. ASSUME NEW t \in Threads, CheckGate(t) PROVE LocksHeld'
  BY <1>3, CheckGateMoves, LocksSteadyFor DEF CheckGate
<1>4. ASSUME NEW t \in Threads, Wakes(t) PROVE LocksHeld'
  BY <1>4, GotoMoves, LocksSteadyFor DEF Wakes, At
<1>5. ASSUME NEW t \in Threads, DeadlinePasses(t) PROVE LocksHeld'
  BY <1>5, DeadlineMoves, LocksSteady DEF DeadlinePasses
<1>6. ASSUME NEW t \in Threads, LockFile(t) PROVE LocksHeld'
  <2>1. /\ Trace(t) \in Traces /\ run[t].pc = "file" /\ fileLock[Trace(t)] = NoOne
        /\ fileLock' = [fileLock EXCEPT ![Trace(t)] = t]
    BY <1>6, AskedTypes DEF LockFile, At
  <2>2. /\ Stay(t) /\ run'[t].pc \in {"reload", "build"} /\ run'[t].asks = run[t].asks
    BY <1>6, GotoMoves DEF LockFile
  <2>3. NoOne \notin Threads
    BY ContextAssumption DEF NoOne
  <2>4. \A u \in Threads \ {t} : Locked(u)' <=> Locked(u)
    BY <2>2 DEF Stay
  <2>5. \A u \in Threads : Trace(u)' = Trace(u)
    BY <2>2 DEF Stay, Trace
  <2>6. ASSUME NEW k \in Traces, NEW u \in Threads, fileLock'[k] = u
        PROVE  Locked(u)' /\ Trace(u)' = k
    BY <2>1, <2>2, <2>4, <2>5, <2>6 DEF LocksHeld, TypeOK
  <2>7. ASSUME NEW u \in Threads, Locked(u)' PROVE fileLock'[Trace(u)'] = u
    <3>1. CASE u = t
      BY <2>1, <2>5, <3>1 DEF TypeOK
    <3>2. CASE u # t
      <4>1. Locked(u) /\ fileLock[Trace(u)] = u
        BY <2>4, <2>7, <3>2 DEF LocksHeld
      <4>2. Trace(u) # Trace(t)
        BY <2>1, <2>3, <4>1
      <4>. QED  BY <2>1, <2>5, <4>1, <4>2 DEF TypeOK
    <3>. QED  BY <3>1, <3>2
  <2>. QED  BY <2>6, <2>7 DEF LocksHeld
<1>7. ASSUME NEW t \in Threads, LockRefused(t) PROVE LocksHeld'
  <2>1. PermitBack(t, Idle) /\ ~At(t, "asleep") /\ run[t].pc = "file" /\ fileLock' = fileLock
        /\ Idle.pc = "idle"
    BY <1>7 DEF LockRefused, RefuseFile, At, Idle
  <2>2. \A u \in Threads \ {t} : (Locked(u)' <=> Locked(u)) /\ (Locked(u) => run'[u].asks = run[u].asks)
    BY <2>1, PermitBackOthers
  <2>3. ~Locked(t) /\ ~Locked(t)'
    BY <2>1, PermitBackMoves
  <2>. QED  BY <2>1, <2>2, <2>3, LocksSteady
<1>8. ASSUME NEW t \in Threads, Load(t) PROVE LocksHeld'
  BY <1>8, LoadMoves, LocksSteadyFor DEF Load
<1>9. ASSUME NEW t \in Threads, Reload(t) PROVE LocksHeld'
  BY <1>9, ReloadMoves, LocksSteadyFor DEF Reload
<1>10. ASSUME NEW t \in Threads, Build(t) PROVE LocksHeld'
  BY <1>10, BuildMoves, LocksSteadyFor DEF Build
<1>11. ASSUME NEW t \in Threads, Compare(t) PROVE LocksHeld'
  BY <1>11, GotoMoves, LocksSteadyFor DEF Compare, At
<1>12. ASSUME NEW t \in Threads, Save(t) PROVE LocksHeld'
  BY <1>12, SaveMoves, LocksSteadyFor DEF Save
<1>13. ASSUME NEW t \in Threads, Rename(t) PROVE LocksHeld'
  BY <1>13, GotoMoves, LocksSteadyFor DEF Rename, At
<1>14. ASSUME NEW t \in Threads, GivePermit(t) PROVE LocksHeld'
  <2>1. PermitBack(t, [run[t] EXCEPT !.pc = "set"]) /\ fileLock' = fileLock
    BY <1>14 DEF GivePermit
  <2>2. Locked(t) /\ Locked(t)' /\ run'[t].asks = run[t].asks /\ ~At(t, "asleep")
    BY <1>14, GivePermitMoves
  <2>3. \A u \in Threads \ {t} : (Locked(u)' <=> Locked(u)) /\ (Locked(u) => run'[u].asks = run[u].asks)
    BY <2>1, <2>2, PermitBackOthers
  <2>. QED  BY <2>1, <2>2, <2>3, LocksSteady
<1>15. ASSUME NEW t \in Threads, GiveLock(t) PROVE LocksHeld'
  <2>1. /\ Trace(t) \in Traces /\ run[t].pc = "set"
        /\ fileLock' = [fileLock EXCEPT ![Trace(t)] = NoOne]
    BY <1>15, AskedTypes DEF GiveLock, At
  <2>2. Stay(t) /\ run'[t].pc = "idle"
    BY <1>15, IdleMoves DEF GiveLock, SetCell
  <2>3. NoOne \notin Threads
    BY ContextAssumption DEF NoOne
  <2>4. fileLock[Trace(t)] = t
    BY <2>1 DEF LocksHeld
  <2>5. \A u \in Threads \ {t} : (Locked(u)' <=> Locked(u)) /\ Trace(u)' = Trace(u)
    BY <2>2 DEF Stay, Trace
  <2>6. ASSUME NEW k \in Traces, NEW u \in Threads, fileLock'[k] = u
        PROVE  Locked(u)' /\ Trace(u)' = k
    <3>1. k # Trace(t) /\ fileLock[k] = u
      BY <2>1, <2>3, <2>6 DEF TypeOK
    <3>2. u # t
      BY <3>1 DEF LocksHeld
    <3>. QED  BY <2>5, <3>1, <3>2 DEF LocksHeld
  <2>7. ASSUME NEW u \in Threads, Locked(u)' PROVE fileLock'[Trace(u)'] = u
    <3>1. u # t
      BY <2>2, <2>7
    <3>2. Locked(u) /\ fileLock[Trace(u)] = u
      BY <2>5, <2>7, <3>1 DEF LocksHeld
    <3>. QED  BY <2>1, <2>4, <2>5, <3>1, <3>2 DEF TypeOK
  <2>. QED  BY <2>6, <2>7 DEF LocksHeld
<1>16. ASSUME NEW k \in Traces, Change(k) PROVE LocksHeld'
  BY <1>16, LocksSteady DEF Change
<1>17. ASSUME NEW p \in Processes, Die(p) PROVE LocksHeld'
  <2>1. NoOne \notin Threads
    BY ContextAssumption DEF NoOne
  <2>2. \A t \in Threads : IF ProcessOf[t] = p THEN ~Locked(t)'
                           ELSE (Locked(t)' <=> Locked(t)) /\ Trace(t)' = Trace(t)
    BY <1>17 DEF Die, Idle, Trace
  <2>3. \A k \in Traces : fileLock'[k] = IF fileLock[k] # NoOne /\ ProcessOf[fileLock[k]] = p
                                         THEN NoOne ELSE fileLock[k]
    BY <1>17 DEF Die
  <2>4. ASSUME NEW k \in Traces, NEW u \in Threads, fileLock'[k] = u
        PROVE  Locked(u)' /\ Trace(u)' = k
    BY <2>1, <2>2, <2>3, <2>4 DEF LocksHeld
  <2>5. ASSUME NEW u \in Threads, Locked(u)' PROVE fileLock'[Trace(u)'] = u
    <3>1. ProcessOf[u] # p /\ Locked(u) /\ Trace(u)' = Trace(u) /\ fileLock[Trace(u)] = u
      BY <2>2, <2>5 DEF LocksHeld
    <3>2. Trace(u) \in Traces
      BY <3>1, AskedTypes DEF At
    <3>. QED  BY <2>3, <3>1, <3>2
  <2>. QED  BY <2>4, <2>5 DEF LocksHeld
<1>18. CASE UNCHANGED vars
  BY <1>18, LocksSteady DEF vars
<1>. QED
  BY <1>1, <1>2, <1>3, <1>4, <1>5, <1>6, <1>7, <1>8, <1>9, <1>10, <1>11, <1>12, <1>13, <1>14,
     <1>15, <1>16, <1>17, <1>18 DEF Next, Step

-----------------------------------------------------------------------------
(* The gate *)

(* Numbers of threads.                                                      *)
LEMMA GateNumbers ==
  ASSUME TypeOK, NEW p \in Processes
  PROVE  /\ IsFiniteSet(Held(p)) /\ IsFiniteSet(Woken(p))
         /\ Cardinality(Held(p)) \in Nat /\ Cardinality(Woken(p)) \in Nat
         /\ active[p] \in Nat /\ Permits \in Nat
<1>1. IsFiniteSet(Held(p)) /\ IsFiniteSet(Woken(p))
  BY ContextAssumption, FS_Subset DEF Held, Woken
<1>. QED  BY <1>1, FS_CardinalityType, ContextAssumption DEF TypeOK

(* No permit is taken or given back.                                        *)
LEMMA CountsSteady ==
  ASSUME GateCounts, active' = active, \A u \in Threads : Holding(u)' <=> Holding(u)
  PROVE  GateCounts'
<1>1. \A p \in Processes : Held(p)' = Held(p)
  BY DEF Held
<1>. QED  BY <1>1 DEF GateCounts

(* A sleeper that wakes, or a newcomer at the gate, leaves none forgotten.  *)
LEMMA MoreAwake ==
  ASSUME TypeOK, TypeOK', SleepersWoken, NEW p \in Processes, active'[p] = active[p],
         \A u \in Threads : /\ At(u, "asleep")' => At(u, "asleep")
                            /\ At(u, "gate") => At(u, "gate")'
  PROVE  Sleepers(p)' # {} => active'[p] + Cardinality(Woken(p)') >= Permits
<1>1. Sleepers(p)' \subseteq Sleepers(p) /\ Woken(p) \subseteq Woken(p)'
  BY DEF Sleepers, Woken
<1>2. IsFiniteSet(Woken(p)')
  BY ContextAssumption, FS_Subset DEF Woken
<1>3. Cardinality(Woken(p)) <= Cardinality(Woken(p)') /\ Cardinality(Woken(p)') \in Nat
  BY <1>1, <1>2, FS_Subset, FS_CardinalityType
<1>. QED  BY <1>1, <1>3, GateNumbers DEF SleepersWoken

(* Nobody falls asleep, and nobody leaves the gate.                         *)
LEMMA GateSteady ==
  ASSUME TypeOK, TypeOK', GateCounts, SleepersWoken, active' = active,
         \A u \in Threads : /\ Holding(u)' <=> Holding(u)
                            /\ At(u, "asleep")' => At(u, "asleep")
                            /\ At(u, "gate") => At(u, "gate")'
  PROVE  GateCounts' /\ SleepersWoken'
BY CountsSteady, MoreAwake DEF SleepersWoken

(* A step that neither takes nor gives a permit, and sends nobody to sleep, *)
(* leaves the gate as it was.                                               *)
LEMMA GateSteadyFor ==
  ASSUME TypeOK, TypeOK', GateCounts, SleepersWoken, active' = active,
         NEW t \in Threads, Stay(t),
         Holding(t)' <=> Holding(t),
         run'[t].pc = "asleep" => run[t].pc = "asleep",
         run[t].pc = "gate" => run'[t].pc = "gate"
  PROVE  GateCounts' /\ SleepersWoken'
BY GateSteady DEF Stay, Holding, At

(* One turn of acquire: a permit is counted with its holder, and whoever    *)
(* finds no room may leave or sleep, since all permits are out              *)
(* (parallel.rs:36).                                                        *)
LEMMA CheckGateKeeps ==
  ASSUME TypeOK, TypeOK', GateCounts, SleepersWoken, NEW t \in Threads, CheckGate(t)
  PROVE  GateCounts' /\ SleepersWoken'
<1> DEFINE p == ProcessOf[t]
<1>1. p \in Processes
  BY ContextAssumption
<1>2. ASSUME NEW q \in Processes \ {p}
      PROVE  Held(q)' = Held(q) /\ Woken(q)' = Woken(q) /\ Sleepers(q)' = Sleepers(q)
  BY CheckGateMoves DEF Stay, Held, Holding, Woken, Sleepers, At
<1>3. \A q \in Processes \ {p} : active'[q] = active[q]
  BY <1>1 DEF CheckGate, TypeOK
<1>4. CASE HasRoom(p)
  <2>1. /\ Held(p)' = Held(p) \cup {t} /\ t \notin Held(p)
        /\ Woken(p)' = Woken(p) \ {t} /\ t \in Woken(p)
        /\ Sleepers(p)' = Sleepers(p)
    <3>1. run'[t].pc = "file" /\ run[t].pc = "gate"
      BY <1>4, CheckGateMoves DEF CheckGate, At
    <3>2. \A u \in Threads \ {t} : run'[u] = run[u]
      BY CheckGateMoves DEF Stay
    <3>3. Held(p)' = Held(p) \cup {t} /\ t \notin Held(p)
      BY <3>1, <3>2 DEF Held, Holding
    <3>4. Woken(p)' = Woken(p) \ {t} /\ t \in Woken(p)
      BY <3>1, <3>2 DEF Woken, At
    <3>5. Sleepers(p)' = Sleepers(p)
      BY <3>1, <3>2 DEF Sleepers, At
    <3>. QED  BY <3>3, <3>4, <3>5
  <2>2. active'[p] = active[p] + 1
    BY <1>1, <1>4 DEF CheckGate, TypeOK
  <2>3. /\ Cardinality(Held(p)') = Cardinality(Held(p)) + 1
        /\ Cardinality(Woken(p)') = Cardinality(Woken(p)) - 1
    <3>1. IsFiniteSet(Held(p)) /\ IsFiniteSet(Woken(p))
      BY <1>1, GateNumbers
    <3>2. Cardinality(Held(p) \cup {t}) = Cardinality(Held(p)) + 1
      BY <2>1, <3>1, FS_AddElement
    <3>3. Cardinality(Woken(p) \ {t}) = Cardinality(Woken(p)) - 1
      BY <2>1, <3>1, FS_RemoveElement
    <3>. QED  BY <2>1, <3>2, <3>3
  <2>4. GateCounts'
    BY <1>1, <1>2, <1>3, <2>2, <2>3 DEF GateCounts
  <2>5. Sleepers(p)' # {} => active'[p] + Cardinality(Woken(p)') >= Permits
    BY <1>1, <2>1, <2>2, <2>3, GateNumbers DEF SleepersWoken
  <2>6. SleepersWoken'
    BY <1>2, <1>3, <2>5 DEF SleepersWoken
  <2>. QED  BY <2>4, <2>6
<1>5. CASE ~HasRoom(p)
  <2>1. active' = active
    BY <1>5 DEF CheckGate
  <2>2. GateCounts'
    BY <1>5, <2>1, CheckGateMoves, CountsSteady DEF Stay, Holding
  <2>3. active'[p] >= Permits
    BY <1>1, <1>5, <2>1, GateNumbers DEF HasRoom
  <2>4. IsFiniteSet(Woken(p)')
    BY ContextAssumption, FS_Subset DEF Woken
  <2>5. Cardinality(Woken(p)') \in Nat
    BY <2>4, FS_CardinalityType
  <2>6. active'[p] + Cardinality(Woken(p)') >= Permits
    BY <1>1, <2>1, <2>3, <2>5, GateNumbers
  <2>. QED  BY <1>2, <1>3, <2>2, <2>6 DEF SleepersWoken
<1>. QED  BY <1>4, <1>5

(* A permit given back wakes a sleeper, if there is one, who stands for it  *)
(* until it is taken again (parallel.rs:66).                                *)
LEMMA PermitBackKeeps ==
  ASSUME TypeOK, TypeOK', GateCounts, SleepersWoken, NEW t \in Threads, Holding(t),
         NEW next, PermitBack(t, next), next.pc \in {"idle", "set"}
  PROVE  GateCounts' /\ SleepersWoken'
<1> DEFINE p == ProcessOf[t]
<1>1. p \in Processes /\ ~At(t, "asleep")
  BY ContextAssumption DEF Holding, At
<1>2. ASSUME NEW q \in Processes \ {p}
      PROVE  Held(q)' = Held(q) /\ Woken(q)' = Woken(q) /\ Sleepers(q)' = Sleepers(q)
  <2>1. \A u \in Threads : ProcessOf[u] = q => run'[u] = run[u]
    BY <1>1, PermitBackMoves DEF Stay, Sleepers
  <2>. QED  BY <2>1 DEF Held, Holding, Woken, Sleepers, At
<1>3. active'[p] = active[p] - 1 /\ \A q \in Processes \ {p} : active'[q] = active[q]
  BY <1>1 DEF PermitBack, TypeOK
<1>4. Held(p)' = Held(p) \ {t} /\ t \in Held(p)
  <2>1. run'[t].pc \in {"idle", "set"}
    BY <1>1, PermitBackMoves
  <2>2. \A u \in Threads \ {t} : Holding(u)' <=> Holding(u)
    BY <1>1, PermitBackOthers DEF Holding
  <2>. QED  BY <2>1, <2>2 DEF Held, Holding
<1>5. Cardinality(Held(p)') = Cardinality(Held(p)) - 1
  BY <1>1, <1>4, GateNumbers, FS_RemoveElement
<1>6. GateCounts'
  BY <1>1, <1>2, <1>3, <1>5, GateNumbers DEF GateCounts
<1>7. Sleepers(p)' # {} => active'[p] + Cardinality(Woken(p)') >= Permits
  <2>1. CASE Stay(t) /\ Sleepers(p) = {}
    <3>1. Sleepers(p)' = {}
      BY <1>1, <2>1, PermitBackMoves DEF Sleepers, Stay, At
    <3>. QED  BY <3>1
  <2>2. ASSUME NEW s \in Sleepers(p), s # t, s \in Threads,
               run[s].pc = "asleep", run'[s].pc = "gate",
               \A u \in Threads \ {t, s} : run'[u] = run[u]
        PROVE  active'[p] + Cardinality(Woken(p)') >= Permits
    <3>1. run'[t].pc \in {"idle", "set"}
      BY <1>1, PermitBackMoves
    <3>2. Woken(p)' = Woken(p) \cup {s} /\ s \notin Woken(p)
      BY <2>2, <3>1 DEF Woken, Sleepers, At, Holding
    <3>3. Cardinality(Woken(p)') = Cardinality(Woken(p)) + 1
      BY <1>1, <3>2, GateNumbers, FS_AddElement
    <3>. QED  BY <1>1, <1>3, <2>2, <3>3, GateNumbers DEF SleepersWoken
  <2>. QED  BY <1>1, <2>1, <2>2, PermitBackMoves
<1>8. SleepersWoken'
  BY <1>2, <1>3, <1>7 DEF SleepersWoken
<1>. QED  BY <1>6, <1>8

(* A process that dies takes its holders and sleepers with it (the permits  *)
(* are its own memory).                                                     *)
LEMMA DieKeeps ==
  ASSUME TypeOK, TypeOK', GateCounts, SleepersWoken, NEW p \in Processes, Die(p)
  PROVE  GateCounts' /\ SleepersWoken'
<1>1. Held(p)' = {} /\ Sleepers(p)' = {} /\ active'[p] = 0
  BY DEF Die, Idle, Held, Holding, Sleepers, At, TypeOK
<1>2. ASSUME NEW q \in Processes \ {p}
      PROVE  /\ Held(q)' = Held(q) /\ Woken(q)' = Woken(q) /\ Sleepers(q)' = Sleepers(q)
             /\ active'[q] = active[q]
  <2>1. \A u \in Threads : ProcessOf[u] = q => run'[u] = run[u]
    BY DEF Die
  <2>. QED  BY <2>1 DEF Die, TypeOK, Held, Holding, Woken, Sleepers, At
<1>3. Cardinality(Held(p)') = 0
  BY <1>1, FS_EmptySet
<1>4. GateCounts'
  BY <1>1, <1>2, <1>3 DEF GateCounts
<1>5. SleepersWoken'
  BY <1>1, <1>2 DEF SleepersWoken
<1>. QED  BY <1>4, <1>5

(* No step lets the counter and the holders of permits disagree, or forgets *)
(* a sleeper.                                                               *)
LEMMA GateStep ==
  TypeOK /\ TypeOK' /\ GateCounts /\ SleepersWoken /\ [Next]_vars => GateCounts' /\ SleepersWoken'
<1> SUFFICES ASSUME TypeOK, TypeOK', GateCounts, SleepersWoken, [Next]_vars
             PROVE  GateCounts' /\ SleepersWoken'
  OBVIOUS
<1>1. ASSUME NEW t \in Threads, NEW c \in Contexts, NEW m \in Components, Ask(t, c, m)
      PROVE  GateCounts' /\ SleepersWoken'
  BY <1>1, AskMoves, GateSteadyFor DEF Ask, Holding
<1>2. ASSUME NEW t \in Threads, CellSet(t) PROVE GateCounts' /\ SleepersWoken'
  BY <1>2, IdleMoves, GateSteadyFor DEF CellSet, At, Holding
<1>3. ASSUME NEW t \in Threads, CheckGate(t) PROVE GateCounts' /\ SleepersWoken'
  BY <1>3, CheckGateKeeps
<1>4. ASSUME NEW t \in Threads, Wakes(t) PROVE GateCounts' /\ SleepersWoken'
  BY <1>4, GotoMoves, GateSteadyFor DEF Wakes, At, Holding
<1>5. ASSUME NEW t \in Threads, DeadlinePasses(t) PROVE GateCounts' /\ SleepersWoken'
  BY <1>5, DeadlineMoves, GateSteady DEF DeadlinePasses, At, Holding
<1>6. ASSUME NEW t \in Threads, LockFile(t) PROVE GateCounts' /\ SleepersWoken'
  BY <1>6, GotoMoves, GateSteadyFor DEF LockFile, At, Holding
<1>7. ASSUME NEW t \in Threads, LockRefused(t) PROVE GateCounts' /\ SleepersWoken'
  BY <1>7, PermitBackKeeps DEF LockRefused, RefuseFile, At, Holding, Idle
<1>8. ASSUME NEW t \in Threads, Load(t) PROVE GateCounts' /\ SleepersWoken'
  BY <1>8, LoadMoves, GateSteadyFor DEF Load, Holding
<1>9. ASSUME NEW t \in Threads, Reload(t) PROVE GateCounts' /\ SleepersWoken'
  BY <1>9, ReloadMoves, GateSteadyFor DEF Reload, Holding
<1>10. ASSUME NEW t \in Threads, Build(t) PROVE GateCounts' /\ SleepersWoken'
  BY <1>10, BuildMoves, GateSteadyFor DEF Build, Holding
<1>11. ASSUME NEW t \in Threads, Compare(t) PROVE GateCounts' /\ SleepersWoken'
  BY <1>11, GotoMoves, GateSteadyFor DEF Compare, At, Holding
<1>12. ASSUME NEW t \in Threads, Save(t) PROVE GateCounts' /\ SleepersWoken'
  BY <1>12, SaveMoves, GateSteadyFor DEF Save, Holding
<1>13. ASSUME NEW t \in Threads, Rename(t) PROVE GateCounts' /\ SleepersWoken'
  BY <1>13, GotoMoves, GateSteadyFor DEF Rename, At, Holding
<1>14. ASSUME NEW t \in Threads, GivePermit(t) PROVE GateCounts' /\ SleepersWoken'
  <2>1. [run[t] EXCEPT !.pc = "set"].pc = "set"
    BY DEF TypeOK, RunState
  <2>. QED  BY <1>14, <2>1, GivePermitMoves, PermitBackKeeps DEF GivePermit, Holding
<1>15. ASSUME NEW t \in Threads, GiveLock(t) PROVE GateCounts' /\ SleepersWoken'
  BY <1>15, IdleMoves, GateSteadyFor DEF GiveLock, SetCell, At, Holding
<1>16. ASSUME NEW k \in Traces, Change(k) PROVE GateCounts' /\ SleepersWoken'
  BY <1>16, GateSteady DEF Change, At, Holding
<1>17. ASSUME NEW p \in Processes, Die(p) PROVE GateCounts' /\ SleepersWoken'
  BY <1>17, DieKeeps
<1>18. CASE UNCHANGED vars
  BY <1>18, GateSteady DEF vars, At, Holding
<1>. QED
  BY <1>1, <1>2, <1>3, <1>4, <1>5, <1>6, <1>7, <1>8, <1>9, <1>10, <1>11, <1>12, <1>13, <1>14,
     <1>15, <1>16, <1>17, <1>18 DEF Next, Step

(* At first nobody holds anything.                                          *)
LEMMA GateInit == Init => GateInv
<1> SUFFICES ASSUME Init PROVE GateInv
  OBVIOUS
<1>1. TypeOK
  BY TypesInit
<1>2. LocksHeld
  BY ContextAssumption DEF Init, LocksHeld, Locked, Idle, NoOne
<1>3. \A p \in Processes : Held(p) = {} /\ Sleepers(p) = {}
  BY DEF Init, Held, Holding, Sleepers, At, Idle
<1>4. GateCounts
  BY <1>3, FS_EmptySet DEF GateCounts, Init
<1>. QED  BY <1>1, <1>2, <1>3, <1>4 DEF GateInv, SleepersWoken

(* The invariant of the gate is inductive.                                  *)
LEMMA GateKept == GateInv /\ [Next]_vars => GateInv'
BY TypesStep, LocksStep, GateStep DEF GateInv

(* In every instance the counters, lock files and threads of the gate are   *)
(* what context.rs and parallel.rs take them to be.                         *)
THEOREM ContextTypeCorrect == Spec => []TypeOK
<1>1. GateInv => TypeOK
  BY DEF GateInv
<1>. QED  BY <1>1, GateInit, GateKept, PTL DEF Spec

(* For every number of processes, threads, traces and permits, a gate has   *)
(* as many permits out as threads hold, one thread builds from a trace at a *)
(* time, and no sleeper is forgotten (BuildGate::acquire, its permit's      *)
(* drop, AnalysisData::build_permit).                                       *)
THEOREM ContextGateTrue == Spec => []GateTrue
<1>1. GateInv => GateTrue
  <2> SUFFICES ASSUME GateInv PROVE PermitsHeld
    BY DEF GateTrue, GateInv
  <2>1. ASSUME NEW t \in Threads PROVE Locked(t) <=> \E k \in Traces : fileLock[k] = t
    <3>1. Locked(t) => Trace(t) \in Traces
      BY AskedTypes DEF GateInv, Locked, At
    <3>. QED  BY <3>1 DEF GateInv, LocksHeld
  <2>. QED  BY <2>1 DEF PermitsHeld, GateInv, GateCounts, Held
<1>. QED  BY <1>1, GateInit, GateKept, PTL DEF Spec

-----------------------------------------------------------------------------
(* The cache *)

(* What a thread knows stays so while it, its sidecar and its inputs do.    *)
LEMMA NotesSteady ==
  ASSUME NEW u \in Threads, NotesOf(u),
         run'[u].pc = run[u].pc, run'[u].asks = run[u].asks, run'[u].digest = run[u].digest,
         sidecar' = sidecar, inputs' = inputs
  PROVE  NotesOf(u)'
BY DEF NotesOf, Noted, Kind, Trace, At

(* A thread that does not move has what it had, if the inputs have not      *)
(* changed.                                                                 *)
LEMMA MadeSteady ==
  ASSUME NEW u \in Threads, MadeOf(u),
         run'[u].pc = run[u].pc, run'[u].asks = run[u].asks, run'[u].digest = run[u].digest,
         run'[u].made = run[u].made, inputs' = inputs
  PROVE  MadeOf(u)'
BY DEF MadeOf, Trace, At

(* Nothing is known of a thread that makes no memory shadow.                *)
LEMMA NothingNoted ==
  ASSUME NEW u \in Threads,
         run'[u].pc \notin {"load", "reload", "build", "compare", "save", "rename"}
  PROVE  NotesOf(u)' /\ MadeOf(u)'
BY DEF NotesOf, MadeOf, At

(* One thread moves and the disk stays as it is.                            *)
LEMMA OnceSteady ==
  ASSUME NotedByMakers, NoneAhead, sidecar' = sidecar, inputs' = inputs,
         NEW t \in Threads, NotesOf(t)',
         \A u \in Threads \ {t} :
           run'[u] = run[u] \/ (run[u].pc = "asleep" /\ run'[u].pc = "gate")
  PROVE  NotedByMakers' /\ NoneAhead'
<1>1. ASSUME NEW u \in Threads \ {t} PROVE NotesOf(u)'
  BY NotesSteady, NothingNoted DEF NotedByMakers
<1>. QED  BY <1>1 DEF NotedByMakers, NoneAhead

(* A step that writes no sidecar needs to account for its own thread only.  *)
LEMMA CacheSteady ==
  ASSUME MadeAsNoted, CacheTrue, sidecar' = sidecar, inputs' = inputs,
         NEW t \in Threads, MadeOf(t)',
         \A u \in Threads \ {t} :
           run'[u] = run[u] \/ (run[u].pc = "asleep" /\ run'[u].pc = "gate")
  PROVE  MadeAsNoted' /\ CacheTrue'
<1>1. ASSUME NEW u \in Threads \ {t} PROVE MadeOf(u)'
  BY MadeSteady, NothingNoted DEF MadeAsNoted
<1>. QED  BY <1>1 DEF MadeAsNoted, CacheTrue

(* What versions a maker of a memory shadow deals in.                       *)
LEMMA NotedTypes ==
  ASSUME TypeOK, NEW t \in Threads, ~At(t, "idle")
  PROVE  /\ Trace(t) \in Traces /\ inputs[Trace(t)] \in Nat
         /\ sidecar[Trace(t)].claim \in Nat
         /\ run[t].digest \in Nat /\ run[t].made \in Nat
<1>1. Trace(t) \in Traces /\ Digest(t) \in Versions /\ sidecar[Trace(t)].claim \in Versions
  BY AskedTypes
<1>2. run[t].digest \in Versions /\ run[t].made \in Versions
  BY DEF TypeOK, RunState
<1>3. \A v \in Versions : v \in Nat
  BY ContextAssumption DEF Versions
<1>. QED  BY <1>1, <1>2, <1>3 DEF Digest

(* What a step leaves of a thread's trace and of what it knows of it, when  *)
(* the disk stays as it is.                                                 *)
LEMMA DiskSteady ==
  ASSUME NEW t \in Threads, UNCHANGED diskVars, run'[t].asks = run[t].asks
  PROVE  /\ Trace(t)' = Trace(t) /\ Kind(t)' = Kind(t) /\ Digest(t)' = Digest(t)
         /\ sidecar' = sidecar /\ inputs' = inputs
BY DEF Trace, Kind, Digest, diskVars

(* A thread that takes down the digest of the inputs as they are notes it.  *)
LEMMA NotesNow ==
  ASSUME TypeOK, NEW t \in Threads, ~At(t, "idle"), UNCHANGED diskVars,
         run'[t].asks = run[t].asks, run'[t].digest = Digest(t),
         sidecar[Trace(t)].claim < inputs[Trace(t)]
  PROVE  Noted(t)'
<1>1. Trace(t)' = Trace(t) /\ sidecar' = sidecar /\ inputs' = inputs
  BY DiskSteady
<1>2. run'[t].digest = inputs[Trace(t)] /\ inputs[Trace(t)] \in Nat
  BY NotedTypes DEF Digest
<1>. QED  BY <1>1, <1>2 DEF Noted

(* What a thread noted stays true while it keeps its digest and the disk.   *)
LEMMA NotesOn ==
  ASSUME NEW t \in Threads, Noted(t), UNCHANGED diskVars,
         run'[t].asks = run[t].asks, run'[t].digest = run[t].digest
  PROVE  Noted(t)'
<1>1. Trace(t)' = Trace(t) /\ sidecar' = sidecar /\ inputs' = inputs
  BY DiskSteady
<1>. QED  BY <1>1 DEF Noted

(* Everything between two threads' decisions about one sidecar happens      *)
(* under its lock file, so what a maker noted stays true until its rename   *)
(* (memshadow.rs:229, context.rs:171).                                      *)
LEMMA OnceStep == OnceInv /\ [Next]_vars => NotedByMakers' /\ NoneAhead'
<1> SUFFICES ASSUME OnceInv, [Next]_vars PROVE NotedByMakers' /\ NoneAhead'
  OBVIOUS
<1> DEFINE Keeps == NotedByMakers' /\ NoneAhead'
<1> USE DEF OnceInv, GateInv
<1>1. ASSUME NEW t \in Threads, NEW c \in Contexts, NEW m \in Components, Ask(t, c, m)
      PROVE  Keeps
  <2>1. NotesOf(t)' /\ Stay(t)
    BY <1>1, AskMoves DEF NotesOf, Kind, At
  <2>. QED  BY <1>1, <2>1, OnceSteady DEF Stay, Ask, diskVars
<1>2. ASSUME NEW t \in Threads, CellSet(t) PROVE Keeps
  <2>1. NotesOf(t)' /\ Stay(t)
    BY <1>2, IdleMoves, NothingNoted DEF CellSet
  <2>. QED  BY <1>2, <2>1, OnceSteady DEF Stay, CellSet, diskVars
<1>3. ASSUME NEW t \in Threads, CheckGate(t) PROVE Keeps
  <2>1. NotesOf(t)' /\ Stay(t)
    BY <1>3, CheckGateMoves, NothingNoted
  <2>. QED  BY <1>3, <2>1, OnceSteady DEF Stay, CheckGate, diskVars
<1>4. ASSUME NEW t \in Threads, Wakes(t) PROVE Keeps
  <2>1. NotesOf(t)' /\ Stay(t)
    BY <1>4, GotoMoves, NothingNoted DEF Wakes
  <2>. QED  BY <1>4, <2>1, OnceSteady DEF Stay, Wakes, diskVars
<1>5. ASSUME NEW t \in Threads, DeadlinePasses(t) PROVE Keeps
  BY <1>5, DeadlineMoves, NotesSteady DEF NotedByMakers, NoneAhead, DeadlinePasses, diskVars
<1>6. ASSUME NEW t \in Threads, LockFile(t) PROVE Keeps
  <2>1. /\ Stay(t) /\ run'[t].asks = run[t].asks
        /\ run'[t].pc = IF Kind(t) = "mem" THEN "reload" ELSE "build"
    BY <1>6, GotoMoves DEF LockFile
  <2>2. NotesOf(t)'
    BY <2>1 DEF NotesOf, Kind, At
  <2>. QED  BY <1>6, <2>1, <2>2, OnceSteady DEF Stay, LockFile, diskVars
<1>7. ASSUME NEW t \in Threads, LockRefused(t) PROVE Keeps
  <2>1. PermitBack(t, Idle) /\ ~At(t, "asleep") /\ Idle.pc = "idle" /\ UNCHANGED diskVars
    BY <1>7 DEF LockRefused, RefuseFile, At, Idle
  <2>2. NotesOf(t)'
    BY <2>1, PermitBackMoves, NothingNoted
  <2>. QED  BY <2>1, <2>2, PermitBackOthers, OnceSteady DEF diskVars
<1>8. ASSUME NEW t \in Threads, Load(t) PROVE Keeps
  <2>1. NotesOf(t)' /\ Stay(t)
    BY <1>8, LoadMoves, NothingNoted
  <2>. QED  BY <1>8, <2>1, OnceSteady DEF Stay, Load, diskVars
<1>9. ASSUME NEW t \in Threads, Reload(t) PROVE Keeps
  <2>1. Stay(t) /\ UNCHANGED diskVars
    BY <1>9, ReloadMoves DEF Reload
  <2>2. CASE run'[t].pc = "permit"
    BY <2>1, <2>2, NothingNoted, OnceSteady DEF Stay, diskVars
  <2>3. CASE run'[t].pc = "build" /\ run'[t].digest = Digest(t) /\ ~Fresh(t)
    <3>1. run'[t].asks = run[t].asks /\ ~At(t, "idle")
      BY <1>9, ReloadMoves DEF At
    <3>2. sidecar[Trace(t)].claim < inputs[Trace(t)]
      <4>1. /\ Trace(t) \in Traces
            /\ sidecar[Trace(t)].claim \in Nat /\ inputs[Trace(t)] \in Nat
        BY <3>1, NotedTypes
      <4>2. sidecar[Trace(t)].claim # inputs[Trace(t)]
        BY <2>3 DEF Fresh, Digest
      <4>3. sidecar[Trace(t)].claim <= inputs[Trace(t)]
        BY <4>1 DEF NoneAhead
      <4>. QED  BY <4>1, <4>2, <4>3
    <3>3. Noted(t)'
      BY <2>1, <2>3, <3>1, <3>2, NotesNow
    <3>4. NotesOf(t)'
      BY <2>3, <3>3 DEF NotesOf
    <3>. QED  BY <2>1, <3>4, OnceSteady DEF Stay, diskVars
  <2>. QED  BY <1>9, <2>2, <2>3, ReloadMoves
<1>10. ASSUME NEW t \in Threads, Build(t) PROVE Keeps
  <2>1. Stay(t) /\ UNCHANGED diskVars /\ run[t].pc = "build" /\ run'[t].asks = run[t].asks
    BY <1>10, BuildMoves DEF Build
  <2>2. CASE run'[t].pc = "permit"
    BY <2>1, <2>2, NothingNoted, OnceSteady DEF Stay, diskVars
  <2>3. CASE run'[t].pc = "compare" /\ Kind(t) = "mem" /\ run'[t].digest = run[t].digest
    <3>1. Noted(t)
      BY <2>1, <2>3 DEF NotedByMakers, NotesOf, At
    <3>2. NotesOf(t)'
      BY <2>1, <2>3, <3>1, NotesOn, DiskSteady DEF NotesOf
    <3>. QED  BY <2>1, <3>2, OnceSteady DEF Stay, diskVars
  <2>. QED  BY <1>10, <2>2, <2>3, BuildMoves
<1>11. ASSUME NEW t \in Threads, Compare(t) PROVE Keeps
  <2>1. /\ Stay(t) /\ UNCHANGED diskVars /\ run[t].pc = "compare" /\ run'[t].asks = run[t].asks
        /\ run'[t].pc \in {"save", "permit"} /\ run'[t].digest = run[t].digest
    BY <1>11, GotoMoves DEF Compare, At
  <2>2. Noted(t) /\ Kind(t) = "mem"
    BY <2>1 DEF NotedByMakers, NotesOf
  <2>3. NotesOf(t)'
    BY <2>1, <2>2, NotesOn, DiskSteady DEF NotesOf, At
  <2>. QED  BY <2>1, <2>3, OnceSteady DEF Stay, diskVars
<1>12. ASSUME NEW t \in Threads, Save(t) PROVE Keeps
  <2>1. /\ Stay(t) /\ UNCHANGED diskVars /\ run[t].pc = "save" /\ run'[t].asks = run[t].asks
        /\ run'[t].pc = "rename" /\ run'[t].digest = Digest(t)
    BY <1>12, SaveMoves DEF Save
  <2>2. Noted(t) /\ Kind(t) = "mem" /\ ~At(t, "idle")
    BY <2>1 DEF NotedByMakers, NotesOf, At
  <2>3. Noted(t)'
    <3>1. sidecar[Trace(t)].claim < inputs[Trace(t)]
      BY <2>2, NotedTypes DEF Noted
    <3>. QED  BY <2>1, <2>2, <3>1, NotesNow
  <2>4. NotesOf(t)'
    BY <2>1, <2>2, <2>3, DiskSteady DEF NotesOf, At
  <2>. QED  BY <2>1, <2>4, OnceSteady DEF Stay, diskVars
<1>13. ASSUME NEW t \in Threads, Rename(t) PROVE Keeps
  <2>1. /\ Stay(t) /\ inputs' = inputs /\ run[t].pc = "rename" /\ run'[t].pc = "permit"
        /\ ~At(t, "idle")
    BY <1>13, GotoMoves DEF Rename, At
  <2>2. /\ Trace(t) \in Traces /\ Noted(t) /\ fileLock[Trace(t)] = t
    BY <2>1, NotedTypes DEF NotedByMakers, NotesOf, LocksHeld, Locked
  <2>3. /\ \A k \in Traces \ {Trace(t)} : sidecar'[k] = sidecar[k]
        /\ sidecar'[Trace(t)].claim \in {sidecar[Trace(t)].claim, run[t].digest}
    BY <1>13, <2>2 DEF Rename, TypeOK
  <2>4. NoneAhead'
    BY <2>1, <2>2, <2>3 DEF NoneAhead, Noted
  <2>5. NotesOf(t)'
    BY <2>1, NothingNoted
  <2>6. ASSUME NEW u \in Threads \ {t} PROVE NotesOf(u)'
    <3>1. run'[u] = run[u] /\ Trace(u)' = Trace(u) /\ NotesOf(u)
      BY <2>1 DEF Stay, Trace, NotedByMakers
    <3>2. CASE At(u, "build") \/ run[u].pc \in {"compare", "save", "rename"}
      <4>1. Trace(u) \in Traces /\ fileLock[Trace(u)] = u
        BY <3>2, NotedTypes DEF LocksHeld, Locked, At
      <4>2. sidecar'[Trace(u)] = sidecar[Trace(u)]
        BY <2>2, <2>3, <4>1
      <4>. QED  BY <2>1, <3>1, <4>2 DEF NotesOf, Noted, Kind, At
    <3>3. CASE ~(At(u, "build") \/ run[u].pc \in {"compare", "save", "rename"})
      BY <3>1, <3>3 DEF NotesOf, Kind, At
    <3>. QED  BY <3>2, <3>3
  <2>. QED  BY <2>4, <2>5, <2>6 DEF NotedByMakers
<1>14. ASSUME NEW t \in Threads, GivePermit(t) PROVE Keeps
  <2>1. PermitBack(t, [run[t] EXCEPT !.pc = "set"]) /\ UNCHANGED diskVars
    BY <1>14 DEF GivePermit
  <2>2. ~At(t, "asleep") /\ NotesOf(t)'
    BY <1>14, GivePermitMoves, NothingNoted
  <2>. QED  BY <2>1, <2>2, PermitBackOthers, OnceSteady DEF diskVars
<1>15. ASSUME NEW t \in Threads, GiveLock(t) PROVE Keeps
  <2>1. NotesOf(t)' /\ Stay(t)
    BY <1>15, IdleMoves, NothingNoted DEF GiveLock, SetCell
  <2>. QED  BY <1>15, <2>1, OnceSteady DEF Stay, GiveLock, diskVars
<1>16. ASSUME NEW k \in Traces, Change(k) PROVE Keeps
  <2>1. /\ run' = run /\ sidecar' = sidecar
        /\ \A j \in Traces : inputs[j] \in Nat /\ inputs'[j] \in Nat /\ inputs[j] <= inputs'[j]
    BY <1>16, ContextAssumption DEF Change, TypeOK
  <2>2. \A j \in Traces : sidecar[j].claim \in Nat
    BY ContextAssumption DEF TypeOK, Versions
  <2>3. NoneAhead'
    BY <2>1, <2>2 DEF NoneAhead
  <2>4. ASSUME NEW u \in Threads PROVE NotesOf(u)'
    <3>1. NotesOf(u)
      BY DEF NotedByMakers
    <3>2. ASSUME ~At(u, "idle"), Noted(u) PROVE Noted(u)'
      <4>1. Trace(u)' = Trace(u) /\ run'[u] = run[u] /\ Trace(u) \in Traces
        BY <2>1, <3>2, NotedTypes DEF Trace
      <4>2. run[u].digest \in Nat /\ run[u].digest <= inputs[Trace(u)]
        BY <3>2, NotedTypes DEF Noted
      <4>3. run[u].digest <= inputs'[Trace(u)]
        BY <2>1, <4>1, <4>2
      <4>. QED  BY <2>1, <3>2, <4>1, <4>3 DEF Noted
    <3>. QED  BY <2>1, <3>1, <3>2 DEF NotesOf, Kind, At
  <2>. QED  BY <2>3, <2>4 DEF NotedByMakers
<1>17. ASSUME NEW p \in Processes, Die(p) PROVE Keeps
  <2>1. \A u \in Threads : run'[u] = run[u] \/ run'[u].pc = "idle"
    BY <1>17 DEF Die, Idle
  <2>2. sidecar' = sidecar /\ inputs' = inputs
    BY <1>17 DEF Die, diskVars
  <2>. QED  BY <2>1, <2>2, NotesSteady, NothingNoted DEF NotedByMakers, NoneAhead
<1>18. CASE UNCHANGED vars
  BY <1>18, NotesSteady DEF vars, diskVars, NotedByMakers, NoneAhead
<1>. QED
  BY <1>1, <1>2, <1>3, <1>4, <1>5, <1>6, <1>7, <1>8, <1>9, <1>10, <1>11, <1>12, <1>13, <1>14,
     <1>15, <1>16, <1>17, <1>18 DEF Next, Step

(* A shadow is saved only when the inputs were the same before and after it *)
(* was built, and renamed with the digest it was made from                  *)
(* (memshadow.rs:248, save_sidecar).                                        *)
LEMMA CacheStep ==
  ASSUME ~LateChange, CacheInv, [Next]_vars
  PROVE  MadeAsNoted' /\ CacheTrue'
<1> DEFINE Keeps == MadeAsNoted' /\ CacheTrue'
<1> USE DEF CacheInv, OnceInv, GateInv
<1>1. ASSUME NEW t \in Threads, NEW c \in Contexts, NEW m \in Components, Ask(t, c, m)
      PROVE  Keeps
  <2>1. MadeOf(t)' /\ Stay(t)
    BY <1>1, AskMoves DEF MadeOf, At
  <2>. QED  BY <1>1, <2>1, CacheSteady DEF Stay, Ask, diskVars
<1>2. ASSUME NEW t \in Threads, CellSet(t) PROVE Keeps
  <2>1. MadeOf(t)' /\ Stay(t)
    BY <1>2, IdleMoves, NothingNoted DEF CellSet
  <2>. QED  BY <1>2, <2>1, CacheSteady DEF Stay, CellSet, diskVars
<1>3. ASSUME NEW t \in Threads, CheckGate(t) PROVE Keeps
  <2>1. MadeOf(t)' /\ Stay(t)
    BY <1>3, CheckGateMoves, NothingNoted
  <2>. QED  BY <1>3, <2>1, CacheSteady DEF Stay, CheckGate, diskVars
<1>4. ASSUME NEW t \in Threads, Wakes(t) PROVE Keeps
  <2>1. MadeOf(t)' /\ Stay(t)
    BY <1>4, GotoMoves, NothingNoted DEF Wakes
  <2>. QED  BY <1>4, <2>1, CacheSteady DEF Stay, Wakes, diskVars
<1>5. ASSUME NEW t \in Threads, DeadlinePasses(t) PROVE Keeps
  BY <1>5, DeadlineMoves, MadeSteady DEF MadeAsNoted, CacheTrue, DeadlinePasses, diskVars
<1>6. ASSUME NEW t \in Threads, LockFile(t) PROVE Keeps
  <2>1. Stay(t) /\ run'[t].pc \in {"reload", "build"}
    BY <1>6, GotoMoves DEF LockFile
  <2>2. MadeOf(t)'
    BY <2>1 DEF MadeOf, At
  <2>. QED  BY <1>6, <2>1, <2>2, CacheSteady DEF Stay, LockFile, diskVars
<1>7. ASSUME NEW t \in Threads, LockRefused(t) PROVE Keeps
  <2>1. PermitBack(t, Idle) /\ ~At(t, "asleep") /\ Idle.pc = "idle" /\ UNCHANGED diskVars
    BY <1>7 DEF LockRefused, RefuseFile, At, Idle
  <2>2. MadeOf(t)'
    BY <2>1, PermitBackMoves, NothingNoted
  <2>. QED  BY <2>1, <2>2, PermitBackOthers, CacheSteady DEF diskVars
<1>8. ASSUME NEW t \in Threads, Load(t) PROVE Keeps
  <2>1. MadeOf(t)' /\ Stay(t)
    BY <1>8, LoadMoves, NothingNoted
  <2>. QED  BY <1>8, <2>1, CacheSteady DEF Stay, Load, diskVars
<1>9. ASSUME NEW t \in Threads, Reload(t) PROVE Keeps
  <2>1. MadeOf(t)' /\ Stay(t)
    BY <1>9, ReloadMoves DEF MadeOf, At
  <2>. QED  BY <1>9, <2>1, CacheSteady DEF Stay, Reload, diskVars
<1>10. ASSUME NEW t \in Threads, Build(t) PROVE Keeps
  <2>1. Stay(t) /\ UNCHANGED diskVars /\ run[t].pc = "build" /\ run'[t].asks = run[t].asks
    BY <1>10, BuildMoves DEF Build
  <2>2. CASE run'[t].pc = "permit"
    BY <2>1, <2>2, NothingNoted, CacheSteady DEF Stay, diskVars
  <2>3. CASE /\ run'[t].pc = "compare" /\ Kind(t) = "mem"
             /\ run'[t].digest = run[t].digest /\ run'[t].made = Digest(t)
    <3>1. Noted(t) /\ ~At(t, "idle")
      BY <2>1, <2>3 DEF NotedByMakers, NotesOf, At
    <3>2. Digest(t)' = Digest(t) /\ run[t].digest <= Digest(t) /\ Digest(t) \in Nat
      BY <2>1, <3>1, DiskSteady, NotedTypes DEF Noted, Digest
    <3>3. MadeOf(t)'
      BY <2>3, <3>2 DEF MadeOf, At, Digest
    <3>. QED  BY <2>1, <3>3, CacheSteady DEF Stay, diskVars
  <2>. QED  BY <1>10, <2>2, <2>3, BuildMoves
<1>11. ASSUME NEW t \in Threads, Compare(t) PROVE Keeps
  <2>1. /\ Stay(t) /\ UNCHANGED diskVars /\ run[t].pc = "compare" /\ run'[t].asks = run[t].asks
        /\ run'[t].pc = IF run[t].digest = Digest(t) THEN "save" ELSE "permit"
        /\ run'[t].made = run[t].made
    BY <1>11, GotoMoves DEF Compare, SameInputs, At
  <2>2. CASE run[t].digest = Digest(t)
    <3>1. /\ run[t].digest <= run[t].made /\ run[t].made <= Digest(t)
          /\ run[t].digest \in Nat /\ run[t].made \in Nat
      BY <2>1, NotedTypes DEF MadeAsNoted, MadeOf, At, Digest
    <3>2. MadeOf(t)'
      BY <2>1, <2>2, <3>1 DEF MadeOf, At, Trace, Digest, diskVars
    <3>. QED  BY <2>1, <3>2, CacheSteady DEF Stay, diskVars
  <2>3. CASE run[t].digest # Digest(t)
    BY <2>1, <2>3, NothingNoted, CacheSteady DEF Stay, diskVars
  <2>. QED  BY <2>2, <2>3
<1>12. ASSUME NEW t \in Threads, Save(t) PROVE Keeps
  <2>1. /\ Stay(t) /\ UNCHANGED diskVars /\ run[t].pc = "save"
        /\ run'[t].pc = "rename" /\ run'[t].digest = Digest(t) /\ run'[t].made = run[t].made
    BY <1>12, SaveMoves DEF Save
  <2>2. run[t].made = Digest(t)
    BY <2>1 DEF MadeAsNoted, MadeOf, At, Digest
  <2>3. MadeOf(t)'
    BY <2>1, <2>2 DEF MadeOf, At
  <2>. QED  BY <2>1, <2>3, CacheSteady DEF Stay, diskVars
<1>13. ASSUME NEW t \in Threads, Rename(t) PROVE Keeps
  <2>1. /\ Stay(t) /\ inputs' = inputs /\ run[t].pc = "rename" /\ run'[t].pc = "permit"
        /\ ~At(t, "idle")
    BY <1>13, GotoMoves DEF Rename, At
  <2>2. Trace(t) \in Traces /\ run[t].made = run[t].digest
    BY <2>1, NotedTypes DEF MadeAsNoted, MadeOf, At
  <2>3. \A k \in Traces : sidecar'[k].made = sidecar'[k].claim
    BY <1>13, <2>2 DEF Rename, TypeOK, CacheTrue
  <2>4. ASSUME NEW u \in Threads PROVE MadeOf(u)'
    BY <2>1, MadeSteady, NothingNoted DEF Stay, MadeAsNoted
  <2>. QED  BY <2>3, <2>4 DEF MadeAsNoted, CacheTrue
<1>14. ASSUME NEW t \in Threads, GivePermit(t) PROVE Keeps
  <2>1. PermitBack(t, [run[t] EXCEPT !.pc = "set"]) /\ UNCHANGED diskVars
    BY <1>14 DEF GivePermit
  <2>2. ~At(t, "asleep") /\ MadeOf(t)'
    BY <1>14, GivePermitMoves, NothingNoted
  <2>. QED  BY <2>1, <2>2, PermitBackOthers, CacheSteady DEF diskVars
<1>15. ASSUME NEW t \in Threads, GiveLock(t) PROVE Keeps
  <2>1. MadeOf(t)' /\ Stay(t)
    BY <1>15, IdleMoves, NothingNoted DEF GiveLock, SetCell
  <2>. QED  BY <1>15, <2>1, CacheSteady DEF Stay, GiveLock, diskVars
<1>16. ASSUME NEW k \in Traces, Change(k) PROVE Keeps
  <2>1. /\ run' = run /\ sidecar' = sidecar /\ ~Saving(k)
        /\ \A j \in Traces : inputs[j] \in Nat /\ inputs'[j] \in Nat /\ inputs[j] <= inputs'[j]
        /\ \A j \in Traces \ {k} : inputs'[j] = inputs[j]
    BY <1>16, ContextAssumption DEF Change, TypeOK
  <2>2. ASSUME NEW u \in Threads PROVE MadeOf(u)'
    <3>1. MadeOf(u)
      BY DEF MadeAsNoted
    <3>2. CASE At(u, "compare")
      <4>1. /\ Trace(u)' = Trace(u) /\ run'[u] = run[u] /\ Trace(u) \in Traces
            /\ run[u].digest \in Nat /\ run[u].made \in Nat
        BY <2>1, <3>2, NotedTypes DEF Trace, At
      <4>2. run[u].digest <= run[u].made /\ run[u].made <= inputs[Trace(u)]
        BY <3>1, <3>2 DEF MadeOf
      <4>3. run[u].made <= inputs'[Trace(u)]
        BY <2>1, <4>1, <4>2
      <4>. QED  BY <3>2, <4>1, <4>2, <4>3 DEF MadeOf, At
    <3>3. CASE At(u, "save")
      <4>1. Trace(u) # k /\ Trace(u) \in Traces
        BY <2>1, <3>3, NotedTypes DEF Saving, At
      <4>. QED  BY <2>1, <3>1, <3>3, <4>1 DEF MadeOf, Trace, At
    <3>4. CASE ~At(u, "compare") /\ ~At(u, "save")
      BY <2>1, <3>1, <3>4 DEF MadeOf, At
    <3>. QED  BY <3>2, <3>3, <3>4
  <2>. QED  BY <2>1, <2>2 DEF MadeAsNoted, CacheTrue
<1>17. ASSUME NEW p \in Processes, Die(p) PROVE Keeps
  <2>1. \A u \in Threads : run'[u] = run[u] \/ run'[u].pc = "idle"
    BY <1>17 DEF Die, Idle
  <2>2. sidecar' = sidecar /\ inputs' = inputs
    BY <1>17 DEF Die, diskVars
  <2>. QED  BY <2>1, <2>2, MadeSteady, NothingNoted DEF MadeAsNoted, CacheTrue
<1>18. CASE UNCHANGED vars
  BY <1>18, MadeSteady DEF vars, diskVars, MadeAsNoted, CacheTrue
<1>. QED
  BY <1>1, <1>2, <1>3, <1>4, <1>5, <1>6, <1>7, <1>8, <1>9, <1>10, <1>11, <1>12, <1>13, <1>14,
     <1>15, <1>16, <1>17, <1>18 DEF Next, Step

(* At first there are no sidecars.                                          *)
LEMMA OnceInit == Init => OnceInv
BY GateInit DEF Init, OnceInv, NotedByMakers, NotesOf, NoneAhead, Idle, NoFile, At

(* The invariant of the sidecars is inductive.                              *)
LEMMA OnceKept == OnceInv /\ [Next]_vars => OnceInv'
BY GateKept, OnceStep DEF OnceInv

(* Whatever changes meanwhile, no thread is about to keep a memory shadow   *)
(* that is already beside the trace (memshadow.rs:244).                     *)
THEOREM ContextBuiltOnce == Spec => []BuiltOnce
<1>1. OnceInv => BuiltOnce
  <2> SUFFICES ASSUME OnceInv, NEW t \in Threads, At(t, "rename")
               PROVE  sidecar[Trace(t)].claim # run[t].digest
    BY DEF BuiltOnce
  <2>1. Noted(t) /\ ~At(t, "idle")
    BY DEF OnceInv, NotedByMakers, NotesOf, At
  <2>. QED  BY <2>1, NotedTypes DEF Noted, OnceInv, GateInv
<1>. QED  BY <1>1, OnceInit, OnceKept, PTL DEF Spec

(* When inputs do not change between the last comparison of digests and the *)
(* one that is written, every sidecar was made from the inputs it claims,   *)
(* and was made once (MemShadow::load_or_build_with_budget, save_sidecar).  *)
THEOREM ContextCacheOnce == ~LateChange => (Spec => []CacheOnce)
<1> SUFFICES ASSUME ~LateChange PROVE Spec => []CacheOnce
  OBVIOUS
<1>1. Init => CacheInv
  BY OnceInit DEF Init, CacheInv, MadeAsNoted, MadeOf, CacheTrue, Idle, NoFile, At
<1>2. CacheInv /\ [Next]_vars => CacheInv'
  BY OnceKept, CacheStep DEF CacheInv
<1>3. CacheInv => CacheTrue
  BY DEF CacheInv
<1>. QED  BY <1>1, <1>2, <1>3, ContextBuiltOnce, PTL DEF Spec, CacheOnce
=============================================================================
