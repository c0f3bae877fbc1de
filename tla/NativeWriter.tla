---------------------------- MODULE NativeWriter -----------------------------
(***************************************************************************)
(* The native producer and writer of the tracer agent:                     *)
(*   tracer/src/core/cmodule.ts    on_insn, drain_*, flush_*               *)
(*   tracer/src/core/native_io.ts  open_retry, write_all, sync_all, close  *)
(*   tracer/src/core/ring.ts       openTraceFile, close*File               *)
(*                                                                         *)
(* A followed thread calls on_insn for every instruction it executes.  It  *)
(* stores a record in a ring under a mutex and, when the ring is full,     *)
(* writes the whole ring to the file before it releases the mutex: disk    *)
(* pressure stops the target, nothing is dropped.  JavaScript opens the    *)
(* files of a call, and at its end clears `active`, drains and syncs under *)
(* the mutex, closes, and publishes the count it reads in `head`.          *)
(* JavaScript resets and closes WITHOUT the mutex, so these steps          *)
(* interleave with a thread that is inside on_insn.                        *)
(*                                                                         *)
(* Two channels, "trace" and "simd", have a ring, a head, a tail and a     *)
(* file each and share the mutex and `active`.  A record is identified by  *)
(* the thread and the number of the instruction in that thread's stream.   *)
(* A file is a sequence of units, RecUnits of them to a record, so that a  *)
(* short write may cut a record.                                           *)
(***************************************************************************)
EXTENDS Integers, Sequences, FiniteSets

CONSTANTS Threads,       \* threads that may be followed with this on_insn
          MaxInsns,      \* bound: instructions a thread executes
          MaxCalls,      \* opts.maxCalls
          RingRecs,      \* records in the trace ring
          SimdRingRecs,  \* records in the SIMD ring
          Stride,        \* opts.simdSampleStride
          RecUnits,      \* bound: units a record is cut into by short writes
          Agent,         \* the thread that runs the agent's JavaScript
          NoOne

ASSUME WriterAssumption ==
  /\ MaxInsns \in Nat /\ MaxCalls \in Nat \ {0}
  /\ RingRecs \in Nat \ {0} /\ SimdRingRecs \in Nat \ {0}
  /\ Stride \in Nat \ {0} /\ RecUnits \in Nat \ {0}
  /\ Agent \notin Threads /\ NoOne \notin Threads /\ Agent # NoOne

Chan  == {"trace", "simd"}
Calls == 1..MaxCalls
Size  == [ch \in Chan |-> IF ch = "trace" THEN RingRecs ELSE SimdRingRecs]
Slots == UNION {{ch} \X (0..(Size[ch] - 1)) : ch \in Chan}

\* An instruction of a thread; Null is what a slot or first_pc holds before
\* anything was stored.  idx is the u64 in front of a SIMD record (a trace
\* record has none: 0).
Insn == [by : Threads, n : 0..MaxInsns]
Null == [by |-> NoOne, n |-> 0]
Rec  == [insn : Insn \cup {Null}, idx : Nat]
Unit == [rec : Rec, u : Nat]

Closed == 0                                  \* state[0] = -1
Stale  == -1                                 \* closed, state[0] not yet -1
Unsealed == [total |-> -1, simd |-> -1, firstPc |-> Null]
NoJob  == [t |-> 0, h |-> 0, done |-> 0]

VARIABLES
  mutex,      \* who holds the pthread mutex
  active,     \* extern int active
  buf,        \* ring and simd_ring
  head,       \* head and simd_head
  tail,       \* tail and simd_tail
  firstPc,    \* first_pc: survives from call to call
  job,        \* locals h and t of drain_*, `done` of write_all
  fd,         \* state[0]: the call whose file is open, Closed or Stale
  errno,      \* state[1] # 0
  disk,       \* contents of the files of every call
  synced,     \* how many units of a file the last fsync covered
  pc,         \* where each followed thread is in on_insn
  insns,      \* instructions each thread has executed
  followed,   \* threads whose code Stalker instruments
  agent,      \* where the agent's JavaScript is in the life of a call
  call,       \* STATE.callIdx
  sealed      \* what the manifest of a sealed call says

ring   == <<buf, head, tail, firstPc>>
files  == <<fd, errno, disk, synced>>
threads == <<pc, insns, followed>>
vars   == <<mutex, active, ring, job, files, threads, agent, call, sealed>>

DrainPC == [ch \in Chan |-> IF ch = "trace" THEN "drain_trace" ELSE "drain_simd"]
ClosePC == [ch \in Chan |-> IF ch = "trace" THEN "close_trace" ELSE "close_simd"]
FailPC  == [ch \in Chan |-> IF ch = "trace" THEN "fail_trace" ELSE "fail_simd"]
OpenPC  == [ch \in Chan |-> IF ch = "trace" THEN "open_trace" ELSE "open_simd"]

ThreadPC == {"run", "locked", "drain_simd", "publish", "drain_trace"}
AgentPC == {"idle", "open_trace", "open_simd", "capturing",
            "lock_trace", "drain_trace", "lock_simd", "drain_simd",
            "close_trace", "close_simd", "seal",
            "fail_trace", "fail_simd", "failed"}

(* The variables hold values of their C and JavaScript types. *)
TypeOK ==
  /\ mutex \in Threads \cup {Agent, NoOne}
  /\ active \in BOOLEAN
  /\ buf \in [Slots -> Rec]
  /\ head \in [Chan -> Nat]
  /\ tail \in [Chan -> Nat]
  /\ firstPc \in Insn \cup {Null}
  /\ job \in [t : Nat, h : Nat, done : Nat]
  /\ fd \in [Chan -> Calls \cup {Closed, Stale}]
  /\ errno \in [Chan -> BOOLEAN]
  /\ disk \in [Calls -> [Chan -> Seq(Unit)]]
  /\ synced \in [Calls -> [Chan -> Nat]]
  /\ pc \in [Threads -> ThreadPC]
  /\ insns \in [Threads -> 0..MaxInsns]
  /\ followed \in SUBSET Threads
  /\ agent \in AgentPC
  /\ call \in 0..MaxCalls
  /\ sealed \in [Calls -> [total : Nat, simd : Nat, firstPc : Insn \cup {Null}]
                           \cup {Unsealed}]

Init ==
  /\ mutex = NoOne
  /\ active = FALSE
  /\ buf = [s \in Slots |-> [insn |-> Null, idx |-> 0]]
  /\ head = [ch \in Chan |-> 0]
  /\ tail = [ch \in Chan |-> 0]
  /\ firstPc = Null
  /\ job = NoJob
  /\ fd = [ch \in Chan |-> Closed]
  /\ errno = [ch \in Chan |-> FALSE]
  /\ disk = [c \in Calls |-> [ch \in Chan |-> <<>>]]
  /\ synced = [c \in Calls |-> [ch \in Chan |-> 0]]
  /\ pc = [p \in Threads |-> "run"]
  /\ insns = [p \in Threads |-> 0]
  /\ followed = {}
  /\ agent = "idle"
  /\ call = 0
  /\ sealed = [c \in Calls |-> Unsealed]

-------------------------------------------------------------------------------
(* on_insn *)

\* A followed thread reaches its next instruction and takes the mutex.
Lock(p) ==
  /\ p \in followed /\ pc[p] = "run" /\ insns[p] < MaxInsns
  /\ mutex = NoOne
  /\ mutex' = p
  /\ insns' = [insns EXCEPT ![p] = @ + 1]
  /\ pc' = [pc EXCEPT ![p] = "locked"]
  /\ UNCHANGED <<active, ring, job, files, followed, agent, call, sealed>>

\* if (!active) { unlock(mutex); return; }
Skip(p) ==
  /\ pc[p] = "locked" /\ ~active
  /\ mutex' = NoOne
  /\ pc' = [pc EXCEPT ![p] = "run"]
  /\ UNCHANGED <<active, ring, job, files, insns, followed, agent, call, sealed>>

Sampled == head["trace"] % Stride = 0

\* Mutant of SimdFull: the test comes before the head moves.
SimdFullLate == Sampled /\ head["simd"] - tail["simd"] = SimdRingRecs

SimdFull == Sampled /\ head["simd"] + 1 - tail["simd"] = SimdRingRecs

FirstRecord == head["trace"] = 0

\* The slot at `head`, first_pc, and write_simd; a full SIMD ring is drained
\* before `head` moves.
Store(p) ==
  LET h == head["trace"]
      insn == [by |-> p, n |-> insns[p]]
      slot == <<"trace", h % RingRecs>>
      simdSlot == <<"simd", head["simd"] % SimdRingRecs>>
  IN
  /\ pc[p] = "locked" /\ active
  /\ firstPc' = IF FirstRecord THEN insn ELSE firstPc
  /\ buf' = [s \in Slots |->
               IF s = slot THEN [insn |-> insn, idx |-> 0]
               ELSE IF s = simdSlot /\ Sampled THEN [insn |-> insn, idx |-> h]
               ELSE buf[s]]
  /\ head' = IF Sampled THEN [head EXCEPT !["simd"] = @ + 1] ELSE head
  /\ pc' = [pc EXCEPT ![p] = IF SimdFull THEN "drain_simd" ELSE "publish"]
  /\ job' = IF SimdFull
            THEN [t |-> tail["simd"], h |-> head["simd"] + 1, done |-> 0] ELSE job
  /\ UNCHANGED <<mutex, active, tail, files, insns, followed, agent, call, sealed>>

\* Mutant of TraceFull: the test comes before the head moves.
TraceFullLate == head["trace"] - tail["trace"] = RingRecs

TraceFull == head["trace"] + 1 - tail["trace"] = RingRecs

\* head = h + 1; if (head - tail == ring_recs) drain_trace(); unlock(mutex)
Publish(p) ==
  /\ pc[p] = "publish"
  /\ head' = [head EXCEPT !["trace"] = @ + 1]
  /\ pc' = [pc EXCEPT ![p] = IF TraceFull THEN "drain_trace" ELSE "run"]
  /\ job' = IF TraceFull
            THEN [t |-> tail["trace"], h |-> head["trace"] + 1, done |-> 0] ELSE job
  /\ mutex' = IF TraceFull THEN mutex ELSE NoOne
  /\ UNCHANGED <<active, buf, tail, firstPc, files, insns, followed, agent, call, sealed>>

\* drain_* returns into on_insn.
Drained(p) ==
  /\ job.t >= job.h
  /\ \/ /\ pc[p] = "drain_simd"
        /\ pc' = [pc EXCEPT ![p] = "publish"]
        /\ UNCHANGED mutex
     \/ /\ pc[p] = "drain_trace"
        /\ pc' = [pc EXCEPT ![p] = "run"]
        /\ mutex' = NoOne
  /\ UNCHANGED <<active, ring, job, files, insns, followed, agent, call, sealed>>

-------------------------------------------------------------------------------
(* The loops of drain_* and write_all, run by whoever holds the mutex. *)

Draining(ch) ==
  \/ agent = DrainPC[ch]
  \/ \E p \in Threads : pc[p] = DrainPC[ch]

\* Mutant of Batch: `if (count > h - t) count = h - t` is missing.
BatchToEnd(ch) == Size[ch] - (job.t % Size[ch])

\* The batch at job.t is contiguous in the ring and never crosses its end.
Batch(ch) ==
  LET room == Size[ch] - (job.t % Size[ch])
      left == job.h - job.t
  IN  IF room > left THEN left ELSE room

\* Unit k of the batch, counted from 0.
BatchUnit(ch, k) ==
  [rec |-> buf[<<ch, (job.t % Size[ch]) + (k \div RecUnits)>>], u |-> k % RecUnits]

\* write_all advances by n; when it has written the whole batch it returns and
\* drain_* moves `tail`.
Advance(ch, n) ==
  IF job.done + n = Batch(ch) * RecUnits
  THEN /\ tail' = [tail EXCEPT ![ch] = job.t + Batch(ch)]
       /\ job' = [job EXCEPT !.t = @ + Batch(ch), !.done = 0]
  ELSE /\ job' = [job EXCEPT !.done = @ + n]
       /\ UNCHANGED tail

\* Mutant of WriteSizes: after an error the loop asks for nothing more.
WriteNoRetry(ch) == IF errno[ch] THEN {} ELSE 1..(Batch(ch) * RecUnits - job.done)

WriteSizes(ch) == 1..(Batch(ch) * RecUnits - job.done)

\* write() took n > 0 units.
Write(ch) ==
  /\ Draining(ch) /\ job.t < job.h
  /\ fd[ch] \in Calls
  /\ \E n \in WriteSizes(ch) :
       /\ disk' = [disk EXCEPT ![fd[ch]][ch] =
                     @ \o [k \in 1..n |-> BatchUnit(ch, job.done + k - 1)]]
       /\ Advance(ch, n)
  /\ errno' = [errno EXCEPT ![ch] = FALSE]
  /\ UNCHANGED <<mutex, active, buf, head, firstPc, fd, synced, threads, agent, call, sealed>>

\* EINTR, ENOSPC, EBADF ...: remember errno and go round the loop.
WriteError(ch) ==
  /\ Draining(ch) /\ job.t < job.h
  /\ errno' = [errno EXCEPT ![ch] = TRUE]
  /\ UNCHANGED <<mutex, active, ring, job, fd, disk, synced, threads, agent, call, sealed>>

\* The descriptor number was closed under the writer and the process has
\* opened something else with it: the units go there.
WriteAstray(ch) ==
  /\ Draining(ch) /\ job.t < job.h
  /\ fd[ch] = Stale
  /\ \E n \in WriteSizes(ch) : Advance(ch, n)
  /\ errno' = [errno EXCEPT ![ch] = FALSE]
  /\ UNCHANGED <<mutex, active, buf, head, firstPc, fd, disk, synced, threads,
                 agent, call, sealed>>

-------------------------------------------------------------------------------
(* The agent's JavaScript *)

\* onEnter admits a call while callIdx < maxCalls.
MoreCalls == call < MaxCalls

\* Mutant of NextCall: only the first call numbers itself.
SameCall == IF call = 0 THEN 1 ELSE call

NextCall == call + 1

\* beginCaptureSession: the counters of both rings are reset without the mutex.
BeginCall ==
  /\ agent = "idle" /\ MoreCalls
  /\ call' = NextCall
  /\ head' = [ch \in Chan |-> 0]
  /\ tail' = [ch \in Chan |-> 0]
  /\ agent' = "open_trace"
  /\ UNCHANGED <<mutex, active, buf, firstPc, job, files, threads, sealed>>

\* openTraceFile: `active` is set between the trace file and the SIMD file.
OpenFile(ch) ==
  /\ agent = OpenPC[ch]
  /\ fd' = [fd EXCEPT ![ch] = call]
  /\ errno' = [errno EXCEPT ![ch] = FALSE]
  /\ active' = IF ch = "trace" THEN TRUE ELSE active
  /\ agent' = IF ch = "trace" THEN "open_simd" ELSE "capturing"
  /\ UNCHANGED <<mutex, ring, job, disk, synced, threads, call, sealed>>

\* open_retry: inside a call a failing open blocks, it does not throw.
OpenError(ch) ==
  /\ agent = OpenPC[ch]
  /\ errno' = [errno EXCEPT ![ch] = TRUE]
  /\ UNCHANGED <<mutex, active, ring, job, fd, disk, synced, threads, agent, call, sealed>>

\* Stalker.follow, for the thread that entered the function or ran JNI_OnLoad.
Follow(p) ==
  /\ agent = "capturing" /\ p \notin followed
  /\ followed' = followed \cup {p}
  /\ UNCHANGED <<mutex, active, ring, job, files, pc, insns, agent, call, sealed>>

\* onLeave on thread p: only p is unfollowed, another thread that was followed
\* with this on_insn keeps calling it.
EndCall(p) ==
  /\ agent = "capturing" /\ p \in followed /\ pc[p] = "run"
  /\ followed' = followed \ {p}
  /\ agent' = "lock_trace"
  /\ UNCHANGED <<mutex, active, ring, job, files, pc, insns, call, sealed>>

\* Mutant of ActiveAfter: flush_trace leaves the producer armed.
StillActive(ch) == active

\* flush_trace clears `active`, flush_simd does not touch it.
ActiveAfter(ch) == IF ch = "trace" THEN FALSE ELSE active

\* flush_trace and flush_simd up to their drain loop.
FlushLock(ch) ==
  /\ agent = (IF ch = "trace" THEN "lock_trace" ELSE "lock_simd")
  /\ mutex = NoOne
  /\ mutex' = Agent
  /\ active' = ActiveAfter(ch)
  /\ job' = [t |-> tail[ch], h |-> head[ch], done |-> 0]
  /\ agent' = DrainPC[ch]
  /\ UNCHANGED <<ring, files, threads, call, sealed>>

\* sync_all at the end of flush_*, then unlock.
FlushSync(ch) ==
  /\ agent = DrainPC[ch] /\ job.t >= job.h
  /\ fd[ch] \in Calls
  /\ synced' = [synced EXCEPT ![fd[ch]][ch] = Len(disk[fd[ch]][ch])]
  /\ errno' = [errno EXCEPT ![ch] = FALSE]
  /\ mutex' = NoOne
  /\ agent' = IF ch = "trace" THEN "lock_simd" ELSE "close_trace"
  /\ UNCHANGED <<active, ring, job, fd, disk, threads, call, sealed>>

\* fsync failed: retried until it succeeds.
SyncError(ch) ==
  /\ \/ agent = DrainPC[ch] /\ job.t >= job.h
     \/ agent \in {ClosePC[ch], FailPC[ch]} /\ fd[ch] \in Calls
  /\ errno' = [errno EXCEPT ![ch] = TRUE]
  /\ UNCHANGED <<mutex, active, ring, job, fd, disk, synced, threads, agent, call, sealed>>

\* NativeFile.close: fsync, then close(2).
CloseFd(ch) ==
  /\ agent \in {ClosePC[ch], FailPC[ch]} /\ fd[ch] \in Calls
  /\ synced' = [synced EXCEPT ![fd[ch]][ch] = Len(disk[fd[ch]][ch])]
  /\ errno' = [errno EXCEPT ![ch] = FALSE]
  /\ fd' = [fd EXCEPT ![ch] = Stale]
  /\ UNCHANGED <<mutex, active, ring, job, disk, threads, agent, call, sealed>>

\* close(2) returned 0 and state[0] becomes -1.
CloseDone(ch) ==
  /\ agent = ClosePC[ch] /\ fd[ch] = Stale
  /\ fd' = [fd EXCEPT ![ch] = Closed]
  /\ agent' = IF ch = "trace" THEN "close_simd" ELSE "seal"
  /\ UNCHANGED <<mutex, active, ring, job, errno, disk, synced, threads, call, sealed>>

\* close(2) reported an error: close throws and onLeave calls failCapture.
CloseError(ch) ==
  /\ agent = ClosePC[ch] /\ fd[ch] = Stale
  /\ fd' = [fd EXCEPT ![ch] = Closed]
  /\ active' = FALSE
  /\ agent' = "fail_trace"
  /\ UNCHANGED <<mutex, ring, job, errno, disk, synced, threads, call, sealed>>

\* The counts are read and sealManifest publishes them.
Seal ==
  /\ agent = "seal"
  /\ sealed' = [sealed EXCEPT ![call] =
                  [total |-> head["trace"], simd |-> head["simd"],
                   firstPc |-> IF head["trace"] > 0 THEN firstPc ELSE Null]]
  /\ agent' = "idle"
  /\ UNCHANGED <<mutex, active, ring, job, files, threads, call>>

\* failCapture: `active` is cleared WITHOUT the mutex, nothing is drained.  It
\* is called while another thread may be anywhere in on_insn, or when sealing
\* throws.
FailCapture ==
  /\ agent \in {"capturing", "seal"}
  /\ active' = FALSE
  /\ \E primary \in SUBSET followed :
       Cardinality(primary) <= 1 /\ followed' = followed \ primary
  /\ agent' = "fail_trace"
  /\ UNCHANGED <<mutex, ring, job, files, pc, insns, call, sealed>>

\* A file that failCapture has closed, or found closed.
FailClosed(ch) ==
  /\ agent = FailPC[ch] /\ fd[ch] \notin Calls
  /\ fd' = [fd EXCEPT ![ch] = Closed]
  /\ agent' = IF ch = "trace" THEN "fail_simd" ELSE "failed"
  /\ UNCHANGED <<mutex, active, ring, job, errno, disk, synced, threads, call, sealed>>

\* Everything is sealed or failed and no thread has an instruction left.
Terminated ==
  /\ agent = "failed" \/ (agent = "idle" /\ call = MaxCalls)
  /\ \A p \in Threads : pc[p] = "run" /\ (p \in followed => insns[p] = MaxInsns)
  /\ UNCHANGED vars

-------------------------------------------------------------------------------
OnInsn(p) == Lock(p) \/ Skip(p) \/ Store(p) \/ Publish(p) \/ Drained(p)

WriteLoop(ch) == Write(ch) \/ WriteError(ch) \/ WriteAstray(ch)

AgentStep ==
  \/ BeginCall
  \/ \E p \in Threads : Follow(p) \/ EndCall(p)
  \/ \E ch \in Chan : \/ OpenFile(ch) \/ OpenError(ch)
                      \/ FlushLock(ch) \/ FlushSync(ch) \/ SyncError(ch)
                      \/ CloseFd(ch) \/ CloseDone(ch) \/ CloseError(ch)
                      \/ FailClosed(ch)
  \/ Seal
  \/ FailCapture

Next ==
  \/ \E p \in Threads : OnInsn(p)
  \/ \E ch \in Chan : WriteLoop(ch)
  \/ AgentStep
  \/ Terminated

Spec == Init /\ [][Next]_vars

\* A thread inside on_insn and the agent between two calls run on; the mutex is
\* eventually granted; an operation of the disk that is retried for ever
\* eventually succeeds.
Fairness ==
  /\ \A p \in Threads : WF_vars(Skip(p) \/ Store(p) \/ Publish(p) \/ Drained(p))
  /\ \A ch \in Chan :
       /\ SF_vars(Write(ch))
       /\ SF_vars(FlushLock(ch))
       /\ WF_vars(OpenFile(ch))
       /\ WF_vars(FlushSync(ch))
       /\ WF_vars(CloseFd(ch))
       /\ WF_vars(CloseDone(ch) \/ CloseError(ch))
       /\ WF_vars(FailClosed(ch))
  /\ WF_vars(Seal \/ FailCapture)

FairSpec == Spec /\ Fairness

-------------------------------------------------------------------------------
(* What the files and rings of a call say *)

Torn == [insn |-> Null, idx |-> -1]

\* Record i of a file, Torn if its units are not those of one whole record.
OnDisk(c, ch, i) ==
  IF i * RecUnits > Len(disk[c][ch]) THEN Torn
  ELSE LET units == SubSeq(disk[c][ch], (i - 1) * RecUnits + 1, i * RecUnits)
           rec == units[1].rec
       IN  IF \A k \in 1..RecUnits : units[k] = [rec |-> rec, u |-> k - 1]
           THEN rec ELSE Torn

Failing == agent \in {"fail_trace", "fail_simd", "failed"}

CallState == [c \in Calls |-> CASE c > call -> "none"
                               [] sealed[c] # Unsealed -> "sealed"
                               [] c = call /\ Failing -> "failed"
                               [] OTHER -> "open"]

\* The records of a call, oldest first: the drained ones are read from the
\* file, the others from the ring.  A sealed call has nothing but its file.
Recorded(c, ch) ==
  CASE CallState[c] = "sealed" ->
         [i \in 1..(Len(disk[c][ch]) \div RecUnits) |-> OnDisk(c, ch, i)]
    [] CallState[c] = "open" ->
         [i \in 1..head[ch] |-> IF i <= tail[ch] THEN OnDisk(c, ch, i)
                                ELSE buf[<<ch, (i - 1) % Size[ch]>>]]
    [] OTHER -> <<>>

(* The writer is a RecordLog: every instruction recorded while the call is   *)
(* open appends one record, no drain, short write, error, sync or close      *)
(* changes or reorders one, and sealing publishes the exact count of a log   *)
(* that is then read from the file alone (cmodule.ts on_insn, flush_trace).  *)
Log == INSTANCE RecordLog
         WITH Recs  <- [insn : Insn, idx : {0}],
              state <- CallState,
              log   <- [c \in Calls |-> Recorded(c, "trace")],
              total <- [c \in Calls |-> IF sealed[c] = Unsealed THEN 0
                                        ELSE sealed[c].total]
ImplementsRecordLog == Log!LogSpec

(* No instruction of a followed thread is lost, duplicated or reordered:     *)
(* what a call holds of one thread is an unbroken run of that thread's       *)
(* instruction stream ("no dropping", native_io.ts:1).                       *)
UnbrokenRuns ==
  \A c \in Calls, p \in Threads :
    LET trace == Recorded(c, "trace")
        mine(i) == trace[i].insn.by = p
    IN  \A i, j \in 1..Len(trace) :
          i < j /\ mine(i) /\ mine(j) /\ (\A k \in (i + 1)..(j - 1) : ~mine(k))
            => trace[j].insn.n = trace[i].insn.n + 1

(* Undrained records never exceed the ring, and a full ring is never visible *)
(* outside the critical section that drains it, so a slot is not overwritten *)
(* before it is written (cmodule.ts:31,75,97).                               *)
RingBounded ==
  \A ch \in Chan :
    /\ tail[ch] <= head[ch]
    /\ head[ch] - tail[ch] <= Size[ch]
    /\ mutex = NoOne => head[ch] - tail[ch] < Size[ch]

(* A sealed manifest tells the truth about both files: their length is the   *)
(* published count times the record size, and all of it was fsynced          *)
(* (manifest.ts sealManifest, agent.ts:322; PER_CALL_TRACE_DESIGN.md:29).    *)
SealedExact ==
  \A c \in Calls : CallState[c] = "sealed" =>
    /\ Len(disk[c]["trace"]) = sealed[c].total * RecUnits
    /\ Len(disk[c]["simd"]) = sealed[c].simd * RecUnits
    /\ \A ch \in Chan : synced[c][ch] = Len(disk[c][ch])

(* What is kept beside the trace belongs to it.  SIMD record i holds the     *)
(* vectors of the instruction of trace record i * stride,                    *)
(* although the two rings fill, wrap and drain independently, and a sealed   *)
(* call has one for each sampled record (cmodule.ts write_simd); the first   *)
(* pc of a sealed manifest is that of the first record of that call's file,  *)
(* although the C variable survives from call to call (cmodule.ts:88,        *)
(* agent.ts:347).                                                            *)
BesideTrace ==
  \A c \in Calls :
    LET trace == Recorded(c, "trace")
        simd == Recorded(c, "simd")
    IN  /\ \A i \in 1..Len(simd) :
             /\ simd[i].idx = (i - 1) * Stride
             /\ simd[i].idx < Len(trace) =>
                   simd[i].insn = trace[simd[i].idx + 1].insn
        /\ CallState[c] = "sealed" =>
             /\ Len(simd) = (Len(trace) + Stride - 1) \div Stride
             /\ sealed[c].firstPc = IF trace = <<>> THEN Null ELSE trace[1].insn

(* A thread still inside instrumented code after the call was sealed, or in  *)
(* the next call, never changes the files of a sealed call (flush_trace      *)
(* clears `active` under the mutex).                                         *)
SealedFrozen ==
  [][\A c \in Calls : CallState[c] = "sealed" =>
        disk'[c] = disk[c] /\ sealed'[c] = sealed[c]]_vars

(* A call that ends is sealed or fails: waiting for the mutex, short writes  *)
(* and disk errors that clear delay the end but never prevent it             *)
(* (agent.ts onLeave; PER_CALL_TRACE_DESIGN.md:50), and publishing a failure *)
(* does not wait for a thread that holds the mutex (agent.ts:72: "the host   *)
(* would wait for ever").                                                    *)
EndingEnds == (agent \in {"lock_trace", "fail_trace"}) ~> (agent \in {"idle", "failed"})

(* What is on disk is the thread's own run of instructions, and what is kept *)
(* beside it belongs to it (cmodule.ts on_insn, drain).                      *)
RunsTrue == TypeOK /\ UnbrokenRuns /\ BesideTrace
===============================================================================
