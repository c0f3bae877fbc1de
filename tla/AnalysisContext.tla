-------------------------- MODULE AnalysisContext --------------------------
(* What an analysis builds once and shares: tracemiku-core/src/             *)
(*   analysis/context.rs  AnalysisData's cells, build_permit, cfg, memshadow *)
(*   parallel.rs          BuildGate                                         *)
(*   memshadow.rs         load_or_build_with_budget, save and read_sidecar  *)
(*   sidecar_io.rs        write_atomic                                      *)
(*                                                                          *)
(* Threads of several processes ask contexts for their control-flow graph   *)
(* or memory shadow.  A cell runs the first request and makes the others    *)
(* wait.  A build needs a permit of its process's gate and the lock file of *)
(* its trace; a memory shadow is kept in a sidecar file that claims, by a   *)
(* digest, the inputs it was made from.  Inputs change while a capture is   *)
(* live.  A process may die at any point and is started again.              *)
EXTENDS Integers, FiniteSets

CONSTANTS Threads, Processes, Contexts, Traces,
          ProcessOf,     \* the process of a thread, and of a context
          TraceOf,       \* the trace a context is about
          Asked,         \* bound: the contexts and components asked for
          TooBig,        \* the processes whose budget a snapshot exceeds
          Permits,       \* TRACEMIKU_BUILD_CONCURRENCY
          LateChange,    \* inputs may change between the last comparison of
                         \* digests and the digest that save_sidecar writes
          MaxChanges,    \* bound: changes of inputs
          MaxFaults      \* bound: deaths and I/O errors

ASSUME ContextAssumption ==
  /\ IsFiniteSet(Threads) /\ "none" \notin Threads
  /\ ProcessOf \in [Threads \cup Contexts -> Processes]
  /\ TraceOf \in [Contexts -> Traces] /\ Asked \subseteq Contexts \X {"cfg", "mem"}
  /\ TooBig \subseteq Processes
  /\ Permits \in Nat \ {0} /\ LateChange \in BOOLEAN
  /\ MaxChanges \in Nat /\ MaxFaults \in Nat

Components == {"cfg", "mem"}
NoOne == "none"
NoFile == [claim |-> 0, made |-> 0]
Idle == [pc |-> "idle", asks |-> <<>>, late |-> FALSE, digest |-> 0, made |-> 0, out |-> "none"]

VARIABLES inputs,    \* version of the files a trace's memory shadow is made from
          sidecar,   \* the memory shadow kept beside a trace
          fileLock,  \* the thread that holds trace.bin.analysis-build.lock
          cells,     \* the OnceLock of each context and component
          active,    \* BuildGateState.active of each process
          run,       \* where a thread is, and what it has asked for
          changes, faults

diskVars == <<inputs, sidecar>>
vars == <<diskVars, fileLock, cells, active, run, changes, faults>>

At(t, pc) == run[t].pc = pc
Trace(t) == TraceOf[run[t].asks[1]]
Kind(t) == run[t].asks[2]
Goto(t, pc) == run' = [run EXCEPT ![t].pc = pc]

Init ==
  /\ inputs = [k \in Traces |-> 1]
  /\ sidecar = [k \in Traces |-> NoFile]
  /\ fileLock = [k \in Traces |-> NoOne]
  /\ cells = [c \in Contexts |-> [m \in Components |-> "empty"]]
  /\ active = [p \in Processes |-> 0]
  /\ run = [t \in Threads |-> Idle]
  /\ changes = 0 /\ faults = 0

-----------------------------------------------------------------------------
(* A request: OnceLock::get_or_init.                                        *)

Ask(t, c, m) ==
  /\ At(t, "idle") /\ ProcessOf[t] = ProcessOf[c] /\ <<c, m>> \in Asked
  /\ \/ /\ cells[c][m] = "running"
        /\ run' = [run EXCEPT ![t].pc = "cell", ![t].asks = <<c, m>>]
        /\ UNCHANGED cells
     \/ /\ cells[c][m] = "empty"
        /\ cells' = [cells EXCEPT ![c][m] = "running"]
        /\ run' = [run EXCEPT ![t].pc = IF m = "mem" THEN "load" ELSE "gate",
                              ![t].asks = <<c, m>>]
  /\ UNCHANGED <<diskVars, fileLock, active, changes, faults>>

(* A thread that found the cell running takes what the first one has set.   *)
CellSet(t) ==
  /\ At(t, "cell") /\ cells[run[t].asks[1]][Kind(t)] # "running"
  /\ run' = [run EXCEPT ![t] = Idle]
  /\ UNCHANGED <<diskVars, fileLock, cells, active, changes, faults>>

SetCell(t, out) ==
  /\ cells' = [cells EXCEPT ![run[t].asks[1]][Kind(t)] = out]
  /\ run' = [run EXCEPT ![t] = Idle]

-----------------------------------------------------------------------------
(* BuildGate.  The mutex is held from each check to the sleep or the return *)
(* after it, and while a permit is given back.                              *)

Sleepers(p) == {t \in Threads : ProcessOf[t] = p /\ At(t, "asleep")}
Woken(p) == {t \in Threads : ProcessOf[t] = p /\ At(t, "gate")}

HasRoom(p) == active[p] < Permits

(* One turn of the loop of acquire: a permit, or an error when the deadline *)
(* is past, or wait_timeout.                                                *)
CheckGate(t) ==
  LET p == ProcessOf[t] IN
  /\ At(t, "gate")
  /\ \/ /\ HasRoom(p)
        /\ active' = [active EXCEPT ![p] = @ + 1]
        /\ run' = [run EXCEPT ![t].pc = "file", ![t].late = FALSE]
        /\ UNCHANGED cells
     \/ /\ ~HasRoom(p) /\ run[t].late
        /\ SetCell(t, "err") /\ UNCHANGED active
     \/ /\ ~HasRoom(p) /\ ~run[t].late
        /\ Goto(t, "asleep") /\ UNCHANGED <<active, cells>>
  /\ UNCHANGED <<diskVars, fileLock, changes, faults>>

(* Condvar: a wait ends when it is notified, at its deadline, or for no     *)
(* reason.                                                                  *)
Wakes(t) ==
  /\ At(t, "asleep")
  /\ Goto(t, "gate")
  /\ UNCHANGED <<diskVars, fileLock, cells, active, changes, faults>>

(* The deadline matters to a thread that cannot go on.                      *)
Blocked(t) == \/ run[t].pc \in {"gate", "asleep"} /\ ~HasRoom(ProcessOf[t])
              \/ At(t, "file") /\ fileLock[Trace(t)] # NoOne

DeadlinePasses(t) ==
  /\ Blocked(t) /\ ~run[t].late
  /\ run' = [run EXCEPT ![t].late = TRUE]
  /\ UNCHANGED <<diskVars, fileLock, cells, active, changes, faults>>

(* Mutant of PermitBack: nobody is told.                                    *)
PermitBackQuietly(t, next) ==
  /\ active' = [active EXCEPT ![ProcessOf[t]] = @ - 1]
  /\ run' = [run EXCEPT ![t] = next]

(* Drop of a BuildGatePermit: one sleeper is notified, if there is one.     *)
PermitBack(t, next) ==
  LET p == ProcessOf[t] IN
  /\ active' = [active EXCEPT ![p] = @ - 1]
  /\ \/ /\ Sleepers(p) = {}
        /\ run' = [run EXCEPT ![t] = next]
     \/ \E s \in Sleepers(p) :
          run' = [run EXCEPT ![t] = next, ![s].pc = "gate"]

-----------------------------------------------------------------------------
(* The lock file, tried every ten milliseconds until the deadline.          *)

LockFile(t) ==
  /\ At(t, "file") /\ fileLock[Trace(t)] = NoOne
  /\ fileLock' = [fileLock EXCEPT ![Trace(t)] = t]
  /\ Goto(t, IF Kind(t) = "mem" THEN "reload" ELSE "build")
  /\ UNCHANGED <<diskVars, cells, active, changes, faults>>

(* Mutant of RefuseFile: the error leaves the cell as it was.               *)
RefuseFileUnset(t) == PermitBack(t, Idle) /\ UNCHANGED cells

RefuseFile(t) ==
  /\ PermitBack(t, Idle)
  /\ cells' = [cells EXCEPT ![run[t].asks[1]][Kind(t)] = "err"]

(* The lock is held by another and the deadline is past, or an I/O error.   *)
LockRefused(t) ==
  /\ At(t, "file")
  /\ \/ fileLock[Trace(t)] # NoOne /\ run[t].late /\ UNCHANGED faults
     \/ faults < MaxFaults /\ faults' = faults + 1
  /\ RefuseFile(t)
  /\ UNCHANGED <<diskVars, fileLock, changes>>

-----------------------------------------------------------------------------
(* Building.                                                                *)

(* memory_input_digest tells any two versions of the inputs apart.          *)
Digest(t) == inputs[Trace(t)]

(* A shadow is an error, loaded or built, when its snapshot exceeds the     *)
(* budget.                                                                  *)
Outcome(t) == IF ProcessOf[t] \in TooBig THEN "err" ELSE "ok"

(* read_sidecar: a sidecar that claims the inputs as they are.              *)
Fresh(t) == sidecar[Trace(t)].claim = Digest(t)

Load(t) ==
  /\ At(t, "load")
  /\ \/ Fresh(t) /\ \E out \in {"ok", "err"} : SetCell(t, out)
     \/ ~Fresh(t) /\ Goto(t, "gate") /\ UNCHANGED cells
  /\ UNCHANGED <<diskVars, fileLock, active, changes, faults>>

(* load_or_build_with_budget looks again, now that it has the lock.         *)
Reloaded(t) == Fresh(t)

Reload(t) ==
  /\ At(t, "reload")
  /\ \/ /\ Reloaded(t)
        /\ run' = [run EXCEPT ![t].pc = "permit", ![t].out = Outcome(t)]
     \/ /\ ~Reloaded(t)
        /\ run' = [run EXCEPT ![t].pc = "build", ![t].digest = Digest(t)]
  /\ UNCHANGED <<diskVars, fileLock, cells, active, changes, faults>>

(* The trace and the files beside it are read; a build over its budget is   *)
(* an error.                                                                *)
Build(t) ==
  /\ At(t, "build")
  /\ \/ /\ Kind(t) = "mem"
        /\ run' = [run EXCEPT ![t].made = Digest(t), ![t].out = Outcome(t), ![t].pc = "compare"]
     \/ /\ Kind(t) = "cfg"
        /\ run' = [run EXCEPT ![t].out = "ok", ![t].pc = "permit"]
     \/ run' = [run EXCEPT ![t].out = "err", ![t].pc = "permit"]
  /\ UNCHANGED <<diskVars, fileLock, cells, active, changes, faults>>

(* Mutant of SameInputs: the digests are not compared.                      *)
AnyInputs(t) == TRUE

SameInputs(t) == run[t].digest = Digest(t)

Compare(t) ==
  /\ At(t, "compare")
  /\ Goto(t, IF SameInputs(t) THEN "save" ELSE "permit")
  /\ UNCHANGED <<diskVars, fileLock, cells, active, changes, faults>>

(* save_sidecar writes the digest of the inputs as they are then ...        *)
Save(t) ==
  /\ At(t, "save")
  /\ run' = [run EXCEPT ![t].pc = "rename", ![t].digest = Digest(t)]
  /\ UNCHANGED <<diskVars, fileLock, cells, active, changes, faults>>

(* ... and write_atomic renames the temporary file; an error is ignored.    *)
Rename(t) ==
  /\ At(t, "rename")
  /\ \/ /\ sidecar' = [sidecar EXCEPT ![Trace(t)] =
                         [claim |-> run[t].digest, made |-> run[t].made]]
        /\ UNCHANGED faults
     \/ /\ faults < MaxFaults /\ faults' = faults + 1
        /\ UNCHANGED sidecar
  /\ Goto(t, "permit")
  /\ UNCHANGED <<inputs, fileLock, cells, active, changes>>

(* The closure ends: first the permit is dropped, then the lock file, then  *)
(* the cell is set.                                                         *)
GivePermit(t) ==
  /\ At(t, "permit")
  /\ PermitBack(t, [run[t] EXCEPT !.pc = "set"])
  /\ UNCHANGED <<diskVars, fileLock, cells, changes, faults>>

GiveLock(t) ==
  /\ At(t, "set")
  /\ fileLock' = [fileLock EXCEPT ![Trace(t)] = NoOne]
  /\ SetCell(t, run[t].out)
  /\ UNCHANGED <<diskVars, active, changes, faults>>

-----------------------------------------------------------------------------
(* The world: a live capture writes, processes die and are started again.   *)

Saving(k) == \E t \in Threads : At(t, "save") /\ Trace(t) = k

Change(k) ==
  /\ changes < MaxChanges /\ changes' = changes + 1
  /\ LateChange \/ ~Saving(k)
  /\ inputs' = [inputs EXCEPT ![k] = @ + 1]
  /\ UNCHANGED <<sidecar, fileLock, cells, active, run, faults>>

Die(p) ==
  /\ faults < MaxFaults /\ faults' = faults + 1
  /\ cells' = [c \in Contexts |-> IF ProcessOf[c] = p
                 THEN [m \in Components |-> "empty"] ELSE cells[c]]
  /\ active' = [active EXCEPT ![p] = 0]
  /\ run' = [t \in Threads |-> IF ProcessOf[t] = p THEN Idle ELSE run[t]]
  /\ fileLock' = [k \in Traces |-> IF fileLock[k] # NoOne /\ ProcessOf[fileLock[k]] = p
                                     THEN NoOne ELSE fileLock[k]]
  /\ UNCHANGED <<diskVars, changes>>

-----------------------------------------------------------------------------

Step(t) == \/ CellSet(t) \/ CheckGate(t) \/ LockFile(t) \/ LockRefused(t) \/ Load(t)
           \/ Reload(t) \/ Build(t) \/ Compare(t) \/ Save(t) \/ Rename(t)
           \/ GivePermit(t) \/ GiveLock(t)

Next ==
  \/ \E t \in Threads, c \in Contexts, m \in Components : Ask(t, c, m)
  \/ \E t \in Threads : Step(t) \/ Wakes(t) \/ DeadlinePasses(t)
  \/ \E k \in Traces : Change(k)
  \/ \E p \in Processes : Die(p)

Spec == Init /\ [][Next]_vars

(* Threads go on, time passes, and a wait ends at its deadline; nobody has  *)
(* to ask, and no sleeper is woken before its time but by a notification.   *)
FairSpec ==
  /\ Spec
  /\ \A t \in Threads : /\ WF_vars(Step(t)) /\ WF_vars(DeadlinePasses(t))
                        /\ WF_vars(run[t].late /\ Wakes(t))

-----------------------------------------------------------------------------

Steps == {"idle", "cell", "load", "gate", "asleep", "file", "reload", "build",
          "compare", "save", "rename", "permit", "set"}
Versions == 0..MaxChanges + 1
RunState ==
  {r \in [pc : Steps, asks : Asked \cup {<<>>}, late : BOOLEAN,
          digest : Versions, made : Versions, out : {"none", "ok", "err"}] :
     /\ r.pc # "idle" => r.asks \in Asked
     /\ r.pc \in {"compare", "save", "rename", "permit", "set"} => r.out # "none"}

TypeOK ==
  /\ changes \in 0..MaxChanges /\ faults \in 0..MaxFaults
  /\ inputs \in [Traces -> 1..changes + 1]
  /\ sidecar \in [Traces -> [claim : Versions, made : Versions]]
  /\ fileLock \in [Traces -> Threads \cup {NoOne}]
  /\ cells \in [Contexts -> [Components -> {"empty", "running", "ok", "err"}]]
  /\ active \in [Processes -> 0..Permits]
  /\ run \in [Threads -> RunState]

(* The gate counts what is held: after every refusal, error and death a     *)
(* process has as many permits out as it has threads between acquire and    *)
(* drop, never more than it may, and of all processes one builds from a     *)
(* trace at a time, the one that holds its lock file.                       *)
Holding(t) == run[t].pc \in {"file", "reload", "build", "compare", "save", "rename", "permit"}
Locked(t) == run[t].pc \in {"reload", "build", "compare", "save", "rename", "permit", "set"}

PermitsHeld ==
  /\ \A p \in Processes :
       active[p] = Cardinality({t \in Threads : ProcessOf[t] = p /\ Holding(t)})
  /\ \A t \in Threads : Locked(t) <=> \E k \in Traces : fileLock[k] = t

(* No sleeper is forgotten: while threads sleep at a gate, as many others   *)
(* hold a permit or are awake to take one as there are permits, although    *)
(* each drop notifies one sleeper only, newcomers overtake the one that is  *)
(* notified, and waits end by themselves.                                   *)
SleepersWoken ==
  \A p \in Processes :
    Sleepers(p) # {} => active[p] + Cardinality(Woken(p)) >= Permits

(* A memory shadow on disk was made from the inputs it claims, so a process *)
(* that loads it has what it would have built, although inputs change while *)
(* it is built (memshadow.rs:248: "A live append/change during              *)
(* reconstruction must not create a cache that claims to represent the new  *)
(* inputs").                                                                *)
CacheTrue == \A k \in Traces : sidecar[k].made = sidecar[k].claim

(* Nothing is built twice: who waited for the lock looks again (FEATURES.md *)
(* line 11), so what a thread is about to keep is not there yet, although   *)
(* several missed it before they waited.                                    *)
BuiltOnce == \A t \in Threads : At(t, "rename") => sidecar[Trace(t)].claim # run[t].digest

(* Whatever is asked is answered: no thread waits for ever for a permit, a  *)
(* lock or a cell, whoever times out, dies or fails.                        *)
Answered == \A t \in Threads : ~At(t, "idle") ~> At(t, "idle")

(* The gate's counter is right and none who waits at it is forgotten        *)
(* (parallel.rs BuildGate::acquire and the permit's drop).                  *)
GateTrue == PermitsHeld /\ SleepersWoken

(* What is on disk is what it claims to be, and was made once (memshadow.rs *)
(* load_or_build_with_budget and save_sidecar).                             *)
CacheOnce == CacheTrue /\ BuiltOnce
=============================================================================
