---------------------------- MODULE SpoolRecovery -----------------------------
(***************************************************************************)
(* How the calls of a sealed device session reach the host:                *)
(*   tracemiku_spool.py        recover_run, export_file, pull_chunk        *)
(*   rust trace/finalize.rs    finalize_run, repair_call                   *)
(*                                                                         *)
(* A recovery copies each artifact of a call chunk by chunk, through a     *)
(* cache of compressed chunks and their receipts, into the call's pending  *)
(* directory, marks the directory VERIFIED, lets finalize rename it, and   *)
(* tells the device.  It may die between any two file operations and is    *)
(* run again; `tracemiku finalize` may be run beside it and takes no lock. *)
(* Disk contents survive, everything in `run` is lost with the process.    *)
(*                                                                         *)
(* The device's own files do not change once a call is sealed (NativeWriter*)
(* and EventStream): a correct copy of an artifact is the set of all its   *)
(* chunks.  SHA-256 is taken to tell every two contents apart.             *)
(***************************************************************************)
EXTENDS Naturals, FiniteSets

CONSTANTS Recoverers,    \* processes that run recover
          Finalizers,    \* processes that run finalize alone
          NumCalls,      \* the calls the session lists
          NumArtifacts,  \* artifacts that a call manifest lists
          NumChunks,     \* chunks of an artifact
          MaxFaults      \* bound: deaths, transfer errors and damaged cache files

None == "none"

ASSUME RecoveryAssumption ==
  /\ Recoverers \cap Finalizers = {} /\ None \notin Recoverers
  /\ NumCalls \in Nat \ {0} /\ NumArtifacts \in Nat \ {0} /\ NumChunks \in Nat \ {0}
  /\ MaxFaults \in Nat

Procs     == Recoverers \cup Finalizers
Calls     == 1..NumCalls
Artifacts == 1..NumArtifacts
Chunks    == 1..NumChunks
Names     == {"pending", "call"}      \* _pending_call_NNN and call_NNN_tid...

VARIABLES
  session,   \* state in the device's session.json
  sealed,    \* calls whose device manifest says SEALED
  acked,     \* calls with a verified.json on the device
  lock,      \* who holds .recovery.lock
  dir,       \* the call's directories on the host
  cache,     \* .transfer: compressed chunk and receipt of every chunk
  summary,   \* calls that the run's meta.json lists as recovered
  result,    \* status in recovery-result.json
  run,       \* what a process remembers
  moved,     \* history: transfers of a chunk since its cached copy was damaged
  faults,    \* history: faults so far
  beside     \* history: finalize has run, alone or while a recovery held the lock

deviceVars == <<session, sealed, acked>>
diskVars   == <<dir, cache, summary, result>>
vars       == <<deviceVars, lock, diskVars, run, moved, faults, beside>>

Pcs == {"idle", "session", "manifest", "mkdir", "pending", "export", "chunk", "receipt",
        "replace", "list", "repair", "keep", "rename", "derive", "info", "ack",
        "result"}

Absent == [state |-> "absent", derived |-> FALSE,
           local |-> [a \in Artifacts |-> {}], part |-> [a \in Artifacts |-> {}]]
Idle   == [pc |-> "idle", c |-> 1, a |-> 1, k |-> 1, results |-> {}, acks |-> {},
           missing |-> FALSE, todo |-> {}, cur |-> <<1, "pending">>, copy |-> "absent",
           renamed |-> {}, kept |-> {}, fixed |-> {}, whole |-> TRUE]

Entries == Calls \X Names       \* the directories of calls/, by call and name

Directory ==
  [state : {"absent", "empty", "PENDING", "VERIFIED"}, derived : BOOLEAN,
   local : [Artifacts -> SUBSET Chunks], part : [Artifacts -> SUBSET Chunks]]
CachedChunk == [gz : {"none", "good", "bad"}, receipt : {"none", "good", "bad"}]
Memory ==
  [pc : Pcs, c : 1..(NumCalls + 1), a : 1..(NumArtifacts + 1), k : 1..(NumChunks + 1),
   results : SUBSET Entries, acks : SUBSET Calls, missing : BOOLEAN,
   todo : SUBSET Entries, cur : Entries, copy : {"absent", "PENDING", "VERIFIED"},
   renamed : SUBSET Calls, kept : SUBSET Entries, fixed : SUBSET Calls, whole : BOOLEAN]

\* Every value has its type.
TypeOK ==
  /\ session \in {"CAPTURING", "SEALED", "FAILED"}
  /\ sealed \subseteq Calls /\ acked \subseteq Calls /\ summary \subseteq Calls
  /\ lock \in Recoverers \cup {None}
  /\ dir \in [Calls -> [Names -> Directory]]
  /\ cache \in [Calls -> [Artifacts -> [Chunks -> CachedChunk]]]
  /\ result \in {"none", "ok", "incomplete", "pending"}
  /\ run \in [Procs -> Memory]
  /\ moved \in [Calls -> [Artifacts -> [Chunks -> Nat]]]
  /\ faults \in 0..MaxFaults /\ beside \in {"never", "alone", "beside"}

Init ==
  /\ session = "CAPTURING" /\ sealed = {} /\ acked = {}
  /\ lock = None
  /\ dir = [c \in Calls |-> [n \in Names |-> Absent]]
  /\ cache = [c \in Calls |-> [a \in Artifacts |-> [k \in Chunks |->
                [gz |-> "none", receipt |-> "none"]]]]
  /\ summary = {} /\ result = "none"
  /\ run = [p \in Procs |-> Idle]
  /\ moved = [c \in Calls |-> [a \in Artifacts |-> [k \in Chunks |-> 0]]]
  /\ faults = 0 /\ beside = "never"

\* transfer_pending_reason: does finalize, and info, take a directory for a
\* completely recovered call?
Held(d) == d.state = "VERIFIED" /\ \A a \in Artifacts : d.local[a] = Chunks

At(p, pc)  == run[p].pc = pc
Here(p)    == dir[run[p].c]["pending"]
Goto(p, f) == run' = [run EXCEPT ![p] = f]      \* p goes on with the locals f
Locals(p, pc) == [run[p] EXCEPT !.pc = pc]

\* The next call of the session, what was found on the way being noted.
NextCall(p, r) == [r EXCEPT !.pc = "manifest", !.c = @ + 1, !.a = 1, !.k = 1]

-------------------------------------------------------------------------------
(* The device, which goes on without the host *)

SealCall ==
  /\ session = "CAPTURING"
  /\ \E c \in Calls \ sealed :
       /\ \A b \in Calls : b < c => b \in sealed
       /\ sealed' = sealed \cup {c}
  /\ UNCHANGED <<session, acked, lock, diskVars, run, moved, faults, beside>>

\* The session is sealed after its last call, or fails, or a stop seals it after
\* a failure (CaptureSession, SealedAfterCalls).
SealSession ==
  /\ \/ session = "CAPTURING" /\ sealed = Calls /\ session' = "SEALED"
     \/ session = "CAPTURING" /\ sealed # Calls /\ session' = "FAILED"
     \/ session = "FAILED" /\ session' = "SEALED"
  /\ UNCHANGED <<sealed, acked, lock, diskVars, run, moved, faults, beside>>

-------------------------------------------------------------------------------
(* recover: _recover_run *)

\* Mutant: the lock file is opened and not locked.
LockIgnored(p) == TRUE

\* flock(LOCK_EX | LOCK_NB) succeeds.
LockFree(p) == lock = None

\* A second recovery of the run is refused and changes nothing.
Start(p) ==
  /\ At(p, "idle") /\ p \in Recoverers /\ LockFree(p)
  /\ lock' = p
  /\ beside' = IF \E q \in Finalizers : ~At(q, "idle") THEN "beside" ELSE beside
  /\ Goto(p, [Idle EXCEPT !.pc = "session"])
  /\ UNCHANGED <<deviceVars, diskVars, moved, faults>>

ReadSession(p) ==
  /\ At(p, "session")
  /\ Goto(p, IF session = "SEALED" THEN Locals(p, "manifest")
                                   ELSE [Locals(p, "list") EXCEPT !.missing = TRUE])
  /\ UNCHANGED <<deviceVars, lock, diskVars, moved, faults, beside>>

\* A call that is not sealed is reported as pending.
CallPending(p, c) == [run[p] EXCEPT !.missing = TRUE]

\* The next call manifest: not sealed, already committed on the host, or to be
\* copied.  A committed directory that does not check raises, see Raises.
ReadManifest(p) ==
  LET c == run[p].c IN
  /\ At(p, "manifest")
  /\ \/ /\ c > NumCalls
        /\ Goto(p, Locals(p, "list"))
     \/ /\ c \in Calls \ sealed
        /\ Goto(p, NextCall(p, CallPending(p, c)))
     \/ /\ c \in sealed /\ Held(dir[c]["call"])
        /\ Goto(p, NextCall(p, [run[p] EXCEPT !.results = @ \cup {<<c, "call">>}]))
     \/ /\ c \in sealed /\ dir[c]["call"].state = "absent"
        /\ Goto(p, Locals(p, "mkdir"))
  /\ UNCHANGED <<deviceVars, lock, diskVars, moved, faults, beside>>

\* Mutant: mkdir without exist_ok.
MkdirIfNew(p) == Here(p).state = "absent"

\* mkdir(parents, exist_ok).
MkdirWorks(p) == TRUE

Mkdir(p) ==
  /\ At(p, "mkdir") /\ MkdirWorks(p)
  /\ dir' = IF Here(p).state = "absent"
              THEN [dir EXCEPT ![run[p].c]["pending"].state = "empty"] ELSE dir
  /\ Goto(p, Locals(p, "pending"))
  /\ UNCHANGED <<deviceVars, lock, cache, summary, result, moved, faults, beside>>

\* The directory's meta.json is replaced by the device's facts and PENDING.
WritePending(p) ==
  /\ At(p, "pending") /\ Here(p).state # "absent"
  /\ dir' = [dir EXCEPT ![run[p].c]["pending"] =
               [@ EXCEPT !.state = "PENDING", !.derived = FALSE]]
  /\ Goto(p, Locals(p, "export"))
  /\ UNCHANGED <<deviceVars, lock, cache, summary, result, moved, faults, beside>>

\* Any error of a transfer: the reason goes to meta.json, the call stays pending
\* and the next one is tried.
GiveUp(p) ==
  /\ Here(p).state # "absent"
  /\ dir' = [dir EXCEPT ![run[p].c]["pending"].state = "PENDING"]
  /\ Goto(p, NextCall(p, [run[p] EXCEPT !.missing = TRUE]))

-------------------------------------------------------------------------------
(* export_file, pull_chunk *)

\* An artifact that is already there, with the device's hash, is kept;
\* otherwise its .part is truncated and filled again from the first chunk.
Export(p) ==
  LET c == run[p].c  a == run[p].a IN
  /\ At(p, "export") /\ a \in Artifacts /\ Here(p).state # "absent"
  /\ IF Here(p).local[a] = Chunks
       THEN /\ Goto(p, [run[p] EXCEPT !.a = @ + 1])
            /\ UNCHANGED dir
       ELSE /\ dir' = [dir EXCEPT ![c]["pending"].part[a] = {}]
            /\ Goto(p, [Locals(p, "chunk") EXCEPT !.k = 1])
  /\ UNCHANGED <<deviceVars, lock, cache, summary, result, moved, faults, beside>>

\* A cached chunk is used if its receipt describes it.
Usable(x) == x.receipt # "none" /\ x.gz = "good"

\* Unpacking a chunk checks the length and hash of its contents.
Unpacks(x) == x.receipt = "good" /\ x.gz = "good"

\* A cached chunk is unpacked into the .part file, or its receipt is removed.
FromCache(p) ==
  LET c == run[p].c  a == run[p].a  k == run[p].k  x == cache[c][a][k] IN
  /\ At(p, "chunk") /\ k \in Chunks /\ Usable(x) /\ Here(p).state # "absent"
  /\ IF Unpacks(x)
       THEN /\ dir' = [dir EXCEPT ![c]["pending"].part[a] = @ \cup {k}]
            /\ Goto(p, [run[p] EXCEPT !.k = @ + 1])
            /\ UNCHANGED cache
       ELSE /\ cache' = [cache EXCEPT ![c][a][k].receipt = "none"]
            /\ GiveUp(p)
  /\ UNCHANGED <<deviceVars, lock, summary, result, moved, faults, beside>>

\* Mutant: a chunk is pulled whether or not it is there.
AlwaysPulls(x) == TRUE

\* pull_chunk: the chunk that is there is not the one the device has packed.
Pulls(x) == x.gz # "good"

\* pack_chunk and pull_chunk: the device packs the chunk, and unless the cache
\* holds exactly that file it is pulled to a .part, checked and renamed.
Pull(p) ==
  LET c == run[p].c  a == run[p].a  k == run[p].k  x == cache[c][a][k] IN
  /\ At(p, "chunk") /\ k \in Chunks /\ ~Usable(x)
  /\ cache' = [cache EXCEPT ![c][a][k].gz = "good"]
  /\ moved' = IF Pulls(x) THEN [moved EXCEPT ![c][a][k] = @ + 1] ELSE moved
  /\ Goto(p, Locals(p, "receipt"))
  /\ UNCHANGED <<deviceVars, lock, dir, summary, result, faults, beside>>

\* The receipt is written, then the chunk unpacked as from the cache.
WriteReceipt(p) ==
  /\ At(p, "receipt")
  /\ cache' = [cache EXCEPT ![run[p].c][run[p].a][run[p].k].receipt = "good"]
  /\ Goto(p, Locals(p, "chunk"))
  /\ UNCHANGED <<deviceVars, lock, dir, summary, result, moved, faults, beside>>

\* The finished .part has the artifact's size.
PartComplete(p) == Here(p).part[run[p].a] = Chunks

CheckPart(p) ==
  /\ At(p, "chunk") /\ run[p].k > NumChunks /\ Here(p).state # "absent"
  /\ IF PartComplete(p) THEN Goto(p, Locals(p, "replace")) /\ UNCHANGED dir
                        ELSE GiveUp(p)
  /\ UNCHANGED <<deviceVars, lock, cache, summary, result, moved, faults, beside>>

\* os.replace(part, local): the artifact is committed.
Replace(p) ==
  LET c == run[p].c  a == run[p].a IN
  /\ At(p, "replace") /\ Here(p).state # "absent"
  /\ dir' = [dir EXCEPT ![c]["pending"] =
               [@ EXCEPT !.local[a] = Here(p).part[a], !.part[a] = {}]]
  /\ Goto(p, [Locals(p, "export") EXCEPT !.a = @ + 1])
  /\ UNCHANGED <<deviceVars, lock, cache, summary, result, moved, faults, beside>>

\* An acknowledgement is prepared for a call this process has verified.
AckThis(p) == run[p].acks \cup {run[p].c}

\* Every artifact is there: VERIFIED.
Verify(p) ==
  LET c == run[p].c IN
  /\ At(p, "export") /\ run[p].a > NumArtifacts /\ Here(p).state # "absent"
  /\ dir' = [dir EXCEPT ![c]["pending"].state = "VERIFIED"]
  /\ Goto(p, NextCall(p, [run[p] EXCEPT !.results = @ \cup {<<c, "pending">>},
                                        !.acks = AckThis(p)]))
  /\ UNCHANGED <<deviceVars, lock, cache, summary, result, moved, faults, beside>>

-------------------------------------------------------------------------------
(* finalize_run, by recover when it has seen every call, or on its own *)

FinalizeAlone(p) ==
  /\ At(p, "idle") /\ p \in Finalizers /\ beside = "never"
  /\ beside' = IF lock = None THEN "alone" ELSE "beside"
  /\ Goto(p, [Idle EXCEPT !.pc = "list"])
  /\ UNCHANGED <<deviceVars, lock, diskVars, moved, faults>>

ListDirs(p) ==
  /\ At(p, "list")
  /\ Goto(p, [Locals(p, "repair") EXCEPT
       !.todo = {e \in Entries : dir[e[1]][e[2]].state # "absent"}])
  /\ UNCHANGED <<deviceVars, lock, diskVars, moved, faults, beside>>

\* The directories are repaired in the order of their names: the pending ones
\* sort before the others.
Before(e, f) == (e[2] = "pending" /\ f[2] = "call") \/ (e[2] = f[2] /\ e[1] < f[1])
Turn(p, e)   == e \in run[p].todo /\ \A f \in run[p].todo \ {e} : Before(e, f)

Stored(e)  == dir[e[1]][e[2]]
CurDir(p)  == Stored(run[p].cur)          \* the directory under repair

\* repair_call reads meta.json and the sizes of the artifacts.
ReadDir(p) ==
  /\ At(p, "repair")
  /\ \E e \in run[p].todo :
       /\ Turn(p, e) /\ Stored(e).state \in {"PENDING", "VERIFIED"}
       /\ Goto(p, [run[p] EXCEPT
            !.cur = e, !.copy = Stored(e).state,
            !.pc = CASE ~Held(Stored(e))                         -> "keep"
                     [] Held(Stored(e)) /\ e[2] = "pending"      -> "rename"
                     [] Held(Stored(e)) /\ e[2] # "pending"      -> "derive"])
  /\ UNCHANGED <<deviceVars, lock, diskVars, moved, faults, beside>>

\* repair_call is done with the directory.
Repaired(p) == [run[p] EXCEPT !.pc = "repair", !.todo = @ \ {run[p].cur}]

\* A pending call: the meta.json that was read is written back.
KeepPending(p) ==
  LET c == run[p].cur[1]  n == run[p].cur[2] IN
  /\ At(p, "keep") /\ CurDir(p).state # "absent"
  /\ dir' = [dir EXCEPT ![c][n].state = run[p].copy]
  /\ Goto(p, [Repaired(p) EXCEPT !.kept = @ \cup {run[p].cur}])
  /\ UNCHANGED <<deviceVars, lock, cache, summary, result, moved, faults, beside>>

\* The final name is free; finalize refuses to overwrite (TargetConflict).
TargetFree(c) == dir[c]["call"].state = "absent"

\* Mutant: repair writes the fields it knows and a default for the others.
StateReset(p) == "PENDING"

\* The transfer state that repair_call writes: that of the meta.json it has read.
StateWritten(p) == run[p].copy

\* The directory gets its final name first ...
Rename(p) ==
  LET c == run[p].cur[1] IN
  /\ At(p, "rename") /\ CurDir(p).state # "absent" /\ TargetFree(c)
  /\ dir' = [dir EXCEPT ![c] = [n \in Names |-> IF n = "call" THEN CurDir(p) ELSE Absent]]
  /\ Goto(p, [Locals(p, "derive") EXCEPT !.renamed = @ \cup {c}])
  /\ UNCHANGED <<deviceVars, lock, cache, summary, result, moved, faults, beside>>

\* ... and then its meta.json, with the fields that trace.bin determines.
WriteDerived(p) ==
  LET c == run[p].cur[1] IN
  /\ At(p, "derive") /\ dir[c]["call"].state # "absent"
  /\ dir' = [dir EXCEPT ![c]["call"] =
               [@ EXCEPT !.state = StateWritten(p), !.derived = TRUE]]
  /\ Goto(p, [Repaired(p) EXCEPT !.fixed = @ \cup {c}])
  /\ UNCHANGED <<deviceVars, lock, cache, summary, result, moved, faults, beside>>

\* The calls this finalize has repaired.
SummaryOf(p) == run[p].fixed

\* The directories of the calls in the summary, whose meta.json is read again.
Seen(p) == run[p].kept \cup (run[p].fixed \X {"call"})
SomeGone(p) == \E e \in Seen(p) : Stored(e).state \in {"absent", "empty"}

\* The run's meta.json lists every directory it has seen; finalize is done.
WriteSummary(p) ==
  /\ At(p, "repair") /\ run[p].todo = {} /\ ~SomeGone(p)
  /\ summary' = SummaryOf(p)
  /\ Goto(p, IF p \in Recoverers THEN Locals(p, "info") ELSE Idle)
  /\ UNCHANGED <<deviceVars, lock, dir, cache, result, moved, faults, beside>>

-------------------------------------------------------------------------------
(* recover, after finalize *)

\* Where the result of a call is now, as finalize has reported.
PathOf(p, r) == IF r[1] \in run[p].renamed THEN "call" ELSE r[2]

\* info of every call: is it complete?  A call that finalize has kept makes the
\* run pending.  (What info says of gaps in the capture itself is left out.)
Info(p) ==
  /\ At(p, "info")
  /\ \A r \in run[p].results : dir[r[1]][PathOf(p, r)].state \in {"PENDING", "VERIFIED"}
  /\ Goto(p, [Locals(p, "ack") EXCEPT !.missing = @ \/ run[p].kept # {},
       !.whole = \A r \in run[p].results : Held(dir[r[1]][PathOf(p, r)])])
  /\ UNCHANGED <<deviceVars, lock, diskVars, moved, faults, beside>>

\* One acknowledgement is written to the device.
Ack(p) ==
  /\ At(p, "ack")
  /\ \E c \in run[p].acks :
       /\ \A b \in run[p].acks : c <= b
       /\ acked' = acked \cup {c}
       /\ Goto(p, [run[p] EXCEPT !.acks = @ \ {c}])
  /\ UNCHANGED <<session, sealed, lock, diskVars, moved, faults, beside>>

\* The verdict goes to recovery-result.json, and the lock is given back.
WriteResult(p) ==
  /\ At(p, "ack") /\ run[p].acks = {}
  /\ result' = CASE run[p].missing                     -> "pending"
                 [] ~run[p].missing /\ ~run[p].whole  -> "incomplete"
                 [] ~run[p].missing /\ run[p].whole   -> "ok"
  /\ lock' = None
  /\ Goto(p, Idle)
  /\ UNCHANGED <<deviceVars, dir, cache, summary, moved, faults, beside>>

-------------------------------------------------------------------------------
(* The end of a process, and faults *)

\* What the code raises on: a committed directory that does not check, and a
\* directory that another process has renamed or that is in the way.
Raises(p) ==
  \/ /\ At(p, "manifest") /\ run[p].c \in sealed
     /\ dir[run[p].c]["call"].state # "absent" /\ ~Held(dir[run[p].c]["call"])
  \/ /\ run[p].pc \in {"pending", "export", "replace"} /\ Here(p).state = "absent"
  \/ /\ At(p, "mkdir") /\ ~MkdirWorks(p)
  \/ /\ At(p, "chunk") /\ Here(p).state = "absent"
     /\ (run[p].k \in Chunks => Usable(cache[run[p].c][run[p].a][run[p].k]))
  \/ /\ At(p, "repair")
     /\ \E e \in run[p].todo : Turn(p, e) /\ Stored(e).state \in {"absent", "empty"}
  \/ /\ run[p].pc \in {"keep", "rename"} /\ CurDir(p).state = "absent"
  \/ /\ At(p, "rename") /\ ~TargetFree(run[p].cur[1])
  \/ /\ At(p, "derive") /\ dir[run[p].cur[1]]["call"].state = "absent"
  \/ /\ At(p, "repair") /\ run[p].todo = {} /\ SomeGone(p)
  \/ /\ At(p, "info")
     /\ \E r \in run[p].results : dir[r[1]][PathOf(p, r)].state \in {"absent", "empty"}

Ends(p) ==
  /\ Goto(p, Idle)
  /\ lock' = IF lock = p THEN None ELSE lock
  /\ UNCHANGED <<deviceVars, diskVars, moved, beside>>

Raise(p) == Raises(p) /\ Ends(p) /\ UNCHANGED faults

\* The process is killed, or a command that reads the device or writes to it
\* fails where nothing catches it; the kernel drops its lock.
Die(p) == ~At(p, "idle") /\ faults < MaxFaults /\ faults' = faults + 1 /\ Ends(p)

\* adb loses the device while an artifact is copied.
TransferFails(p) ==
  /\ run[p].pc \in {"export", "chunk"} /\ run[p].a \in Artifacts
  /\ faults < MaxFaults /\ faults' = faults + 1
  /\ GiveUp(p)
  /\ UNCHANGED <<deviceVars, lock, cache, summary, result, moved, beside>>

\* Between two recoveries a cached chunk or its receipt is damaged.
Damage ==
  /\ lock = None
  /\ faults < MaxFaults /\ faults' = faults + 1
  /\ \E c \in Calls, a \in Artifacts, k \in Chunks :
       \/ /\ cache[c][a][k].gz = "good"
          /\ cache' = [cache EXCEPT ![c][a][k].gz = "bad"]
          /\ moved' = [moved EXCEPT ![c][a][k] = 0]
       \/ /\ cache[c][a][k].receipt = "good"
          /\ cache' = [cache EXCEPT ![c][a][k].receipt = "bad"]
          /\ UNCHANGED moved
  /\ UNCHANGED <<deviceVars, lock, dir, summary, result, run, beside>>

-------------------------------------------------------------------------------
Recover(p) ==
  \/ ReadSession(p) \/ ReadManifest(p) \/ Mkdir(p) \/ WritePending(p)
  \/ Export(p) \/ FromCache(p) \/ Pull(p) \/ WriteReceipt(p) \/ CheckPart(p)
  \/ Replace(p) \/ Verify(p)
  \/ Info(p) \/ Ack(p) \/ WriteResult(p)
Finalize(p) ==
  \/ ListDirs(p) \/ ReadDir(p) \/ KeepPending(p) \/ Rename(p) \/ WriteDerived(p)
  \/ WriteSummary(p)
Process(p) == Recover(p) \/ Finalize(p) \/ Raise(p)

Next ==
  \/ SealCall \/ SealSession \/ Damage
  \/ \E p \in Procs : Start(p) \/ FinalizeAlone(p) \/ Process(p) \/ Die(p) \/ TransferFails(p)

Spec == Init /\ [][Next]_vars

\* A process that has started goes on, and somebody runs recover until the
\* result is ok.  Nothing makes the device seal a session or anybody run
\* finalize, and faults need not happen.
FairSpec ==
  /\ Spec
  /\ \A p \in Procs : WF_vars(Process(p))
  /\ \A p \in Recoverers : WF_vars(Start(p) /\ result # "ok")

-------------------------------------------------------------------------------
(* Properties *)

\* What the host claims it holds, whoever died, was damaged or ran at the same
\* time: a directory that says VERIFIED holds an exact copy of every artifact of
\* its call (a .part does not count), and the device is told "verified" about
\* no call that the host has not, so that whoever deletes an acknowledged
\* original loses nothing.
Exact(d) == \A a \in Artifacts : d.local[a] = Chunks

CopiesTrue ==
  /\ \A c \in Calls, n \in Names : dir[c][n].state = "VERIFIED" => Exact(dir[c][n])
  /\ \A c \in acked : \E n \in Names : Exact(dir[c][n])

\* What is reported is true: status ok means that every call of the session is
\* in its final directory, verified, with the fields derived from the trace, and
\* the run's meta.json lists no call as recovered that is not.
ReportsTrue ==
  beside # "beside" =>
    /\ result = "ok" => \A c \in Calls : Held(dir[c]["call"]) /\ dir[c]["call"].derived
    /\ \A c \in summary : Held(dir[c]["call"])

\* A call in its final directory stays there as it is: no later recovery or
\* finalize takes its artifacts, its verdict or its derived fields back.
CommittedStays ==
  [][\A c \in Calls :
       LET old == dir[c]["call"]  new == dir'[c]["call"] IN
       Held(old) /\ beside' # "beside" => Held(new) /\ (old.derived => new.derived)]_vars

\* A chunk crosses the wire once, and again only if the copy in the cache was
\* damaged: neither a death between chunk and receipt, nor a failed transfer,
\* nor a damaged receipt, nor a finalize that runs beside, costs a second
\* transfer (design document: "reuse valid chunks, transfer only those that are
\* missing or damaged").
MovedOnce == \A c \in Calls, a \in Artifacts, k \in Chunks : moved[c][a][k] <= 1

\* A session that was sealed completely is recovered in the end, unless finalize
\* is run beside a recovery.
Recovered == (session = "SEALED" /\ sealed = Calls) ~> (result = "ok" \/ beside = "beside")

\* What the host holds, and what it reports of it, is true, whatever died in between
\* (tracemiku_spool.py export_file, recover_run, the acknowledgement).
RecoveryTrue == TypeOK /\ CopiesTrue /\ ReportsTrue
===============================================================================
