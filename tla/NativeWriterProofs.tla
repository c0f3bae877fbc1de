------------------------- MODULE NativeWriterProofs --------------------------
(***************************************************************************)
(* Theorems about NativeWriter for every number of threads, calls and      *)
(* instructions, every ring size, stride and record size: the types, that  *)
(* a ring is never overrun, and that the files of a sealed call are        *)
(* exactly as long as its manifest says, are on disk, and stay so.         *)
(* What is in them is the subject of NativeWriterLogProofs.                *)
(***************************************************************************)
EXTENDS NativeWriter, SequenceTheorems, TLAPS

-------------------------------------------------------------------------------
(* Lemmas about the batches drain_* writes *)

(* A unit before the end of a batch lies in one of the batch's records.      *)
LEMMA UnitInBatch ==
  ASSUME NEW u \in Nat \ {0}, NEW b \in Nat, NEW k \in Nat, k < b * u
  PROVE  /\ k \div u \in Nat
         /\ k \div u < b
         /\ k % u \in Nat
<1>1. /\ k \div u \in Int /\ k % u \in 0..(u - 1)
      /\ k = u * (k \div u) + (k % u)
  BY SMT
<1>2. k \div u \in Nat
  BY <1>1, SMT
<1>3. ASSUME k \div u >= b PROVE FALSE
  <2>1. u * (k \div u) >= u * b
    BY <1>2, <1>3, SMT
  <2>. QED  BY <2>1, <1>1, <1>2, SMT
<1>. QED  BY <1>1, <1>2, <1>3

(* A batch of drain_* is not empty, goes no further than `head` and stays    *)
(* inside the ring (cmodule.ts:27-29).                                       *)
LEMMA BatchBounds ==
  ASSUME TypeOK, NEW ch \in Chan, job.t < job.h
  PROVE  /\ Size[ch] \in Nat \ {0}
         /\ job.t % Size[ch] \in 0..(Size[ch] - 1)
         /\ Batch(ch) \in Nat \ {0}
         /\ Batch(ch) <= job.h - job.t
         /\ (job.t % Size[ch]) + Batch(ch) <= Size[ch]
<1>1. Size[ch] \in Nat \ {0}
  BY WriterAssumption DEF Size
<1>2. job.t \in Nat /\ job.h \in Nat
  BY DEF TypeOK
<1>3. job.t % Size[ch] \in 0..(Size[ch] - 1)
  BY <1>1, <1>2, SMT
<1> DEFINE off == job.t % Size[ch]
<1>4. Batch(ch) = IF Size[ch] - off > job.h - job.t THEN job.h - job.t ELSE Size[ch] - off
  BY DEF Batch
<1>5. off \in 0..(Size[ch] - 1)
  BY <1>3
<1> HIDE DEF off
<1>6. /\ Batch(ch) \in Nat \ {0}
      /\ Batch(ch) <= job.h - job.t
      /\ off + Batch(ch) <= Size[ch]
  BY <1>1, <1>2, <1>4, <1>5, SMT
<1>. QED  BY <1>1, <1>3, <1>6 DEF off

(* write_all copies units of records that are in the ring.                   *)
LEMMA BatchUnitType ==
  ASSUME TypeOK, NEW ch \in Chan, job.t < job.h,
         NEW k \in Nat, k < Batch(ch) * RecUnits
  PROVE  BatchUnit(ch, k) \in Unit
<1>1. RecUnits \in Nat \ {0}
  BY WriterAssumption
<1>2. k \div RecUnits \in Nat /\ k \div RecUnits < Batch(ch) /\ k % RecUnits \in Nat
  BY <1>1, BatchBounds, UnitInBatch
<1> DEFINE i == (job.t % Size[ch]) + (k \div RecUnits)
<1>3. i \in 0..(Size[ch] - 1)
  BY <1>2, BatchBounds
<1>4. <<ch, i>> \in Slots
  BY <1>3 DEF Slots
<1>5. buf[<<ch, i>>] \in Rec
  BY <1>4 DEF TypeOK
<1>. QED  BY <1>2, <1>5 DEF BatchUnit, Unit

(* What a write appends to a file is a sequence of units.                    *)
LEMMA WriteType ==
  ASSUME TypeOK, NEW ch \in Chan, job.t < job.h, NEW n \in WriteSizes(ch)
  PROVE  /\ n \in Nat
         /\ job.done + n <= Batch(ch) * RecUnits
         /\ [k \in 1..n |-> BatchUnit(ch, job.done + k - 1)] \in Seq(Unit)
<1>1. RecUnits \in Nat \ {0} /\ Batch(ch) \in Nat /\ job.done \in Nat
  BY WriterAssumption, BatchBounds DEF TypeOK
<1>2. Batch(ch) * RecUnits \in Nat
  BY <1>1
<1>3. n \in Nat /\ job.done + n <= Batch(ch) * RecUnits
  BY <1>1, <1>2 DEF WriteSizes
<1>4. ASSUME NEW k \in 1..n PROVE BatchUnit(ch, job.done + k - 1) \in Unit
  <2>1. job.done + k - 1 \in Nat /\ job.done + k - 1 < Batch(ch) * RecUnits
    BY <1>1, <1>2, <1>3
  <2>. QED  BY <2>1, BatchUnitType
<1>. QED  BY <1>3, <1>4, IsASeq

(* The batch loop keeps the types of `tail` and of the drain's locals.       *)
LEMMA AdvanceType ==
  ASSUME TypeOK, NEW ch \in Chan, job.t < job.h, NEW n \in WriteSizes(ch), Advance(ch, n)
  PROVE  /\ tail' \in [Chan -> Nat]
         /\ job' \in [t : Nat, h : Nat, done : Nat]
<1>1. Batch(ch) \in Nat /\ n \in Nat
  BY BatchBounds, WriteType
<1>2. job.t + Batch(ch) \in Nat /\ job.done + n \in Nat
  BY <1>1 DEF TypeOK
<1>3. job \in [t : Nat, h : Nat, done : Nat] /\ tail \in [Chan -> Nat]
  BY DEF TypeOK
<1>4. CASE job.done + n = Batch(ch) * RecUnits
  <2>1. /\ tail' = [tail EXCEPT ![ch] = job.t + Batch(ch)]
        /\ job' = [job EXCEPT !.t = @ + Batch(ch), !.done = 0]
    BY <1>4 DEF Advance
  <2>. QED  BY <2>1, <1>2, <1>3
<1>5. CASE job.done + n # Batch(ch) * RecUnits
  <2>1. job' = [job EXCEPT !.done = @ + n] /\ UNCHANGED tail
    BY <1>5 DEF Advance
  <2>. QED  BY <2>1, <1>2, <1>3
<1>. QED  BY <1>4, <1>5

-------------------------------------------------------------------------------
(* Every step of the writer keeps the types: in particular a drain never     *)
(* copies from outside the ring and never counts below zero.                 *)
LEMMA TypeInit == Init => TypeOK
<1> SUFFICES ASSUME Init PROVE TypeOK
  OBVIOUS
<1> USE WriterAssumption
<1>1. buf \in [Slots -> Rec]
  BY DEF Init, Rec
<1>2. disk \in [Calls -> [Chan -> Seq(Unit)]]
  BY DEF Init
<1>3. sealed \in [Calls -> [total : Nat, simd : Nat, firstPc : Insn \cup {Null}]
                           \cup {Unsealed}]
  BY DEF Init
<1>4. /\ pc \in [Threads -> ThreadPC] /\ insns \in [Threads -> 0..MaxInsns]
      /\ agent \in AgentPC /\ call \in 0..MaxCalls /\ followed \in SUBSET Threads
  BY DEF Init, ThreadPC, AgentPC
<1>5. /\ mutex \in Threads \cup {Agent, NoOne} /\ active \in BOOLEAN
      /\ head \in [Chan -> Nat] /\ tail \in [Chan -> Nat]
      /\ firstPc \in Insn \cup {Null} /\ job \in [t : Nat, h : Nat, done : Nat]
      /\ fd \in [Chan -> Calls \cup {Closed, Stale}] /\ errno \in [Chan -> BOOLEAN]
      /\ synced \in [Calls -> [Chan -> Nat]]
  BY DEF Init, NoJob
<1>. QED  BY <1>1, <1>2, <1>3, <1>4, <1>5 DEF TypeOK

(* The types after a step of a traced thread,                               *)
LEMMA TypeOnInsn ==
  ASSUME TypeOK, NEW p \in Threads, OnInsn(p)
  PROVE  TypeOK'
<1> USE WriterAssumption DEF TypeOK, ThreadPC
<1>1. CASE Lock(p)
  <2>1. insns[p] + 1 \in 0..MaxInsns
    BY <1>1 DEF Lock
  <2>. QED  BY <1>1, <2>1 DEF Lock, ring, files
<1>2. CASE Skip(p)
  BY <1>2 DEF Skip, ring, files
<1>3. CASE Store(p)
  <2> DEFINE insn == [by |-> p, n |-> insns[p]]
  <2>0. /\ insns[p] \in 0..MaxInsns /\ head["trace"] \in Nat /\ head["simd"] \in Nat
        /\ tail["simd"] \in Nat
    BY DEF Chan
  <2>1. insn \in Insn
    BY DEF Insn
  <2>2. /\ [insn |-> insn, idx |-> 0] \in Rec
        /\ [insn |-> insn, idx |-> head["trace"]] \in Rec
    BY <2>0, <2>1 DEF Rec
  <2>3. buf' \in [Slots -> Rec]
    BY <1>3, <2>2 DEF Store
  <2>4. firstPc' \in Insn \cup {Null}
    BY <1>3, <2>1 DEF Store
  <2>5. head' \in [Chan -> Nat] /\ job' \in [t : Nat, h : Nat, done : Nat]
    <3>1. head' = IF Sampled THEN [head EXCEPT !["simd"] = @ + 1] ELSE head
      BY <1>3 DEF Store
    <3>2. job' = IF SimdFull
                 THEN [t |-> tail["simd"], h |-> head["simd"] + 1, done |-> 0] ELSE job
      BY <1>3 DEF Store
    <3>3. head["simd"] + 1 \in Nat
      BY <2>0
    <3>4. [t |-> tail["simd"], h |-> head["simd"] + 1, done |-> 0]
            \in [t : Nat, h : Nat, done : Nat]
      BY <2>0, <3>3
    <3>. QED  BY <3>1, <3>2, <3>3, <3>4
  <2>6. pc' \in [Threads -> ThreadPC]
    BY <1>3 DEF Store
  <2>7. UNCHANGED <<mutex, active, tail, files, followed, agent, call, sealed, insns>>
    BY <1>3 DEF Store
  <2>. QED  BY <2>3, <2>4, <2>5, <2>6, <2>7 DEF files
<1>4. CASE Publish(p)
  <2>1. head["trace"] + 1 \in Nat /\ tail["trace"] \in Nat
    BY DEF Chan
  <2>. QED  BY <1>4, <2>1 DEF Publish, files
<1>5. CASE Drained(p)
  BY <1>5 DEF Drained, ring, files
<1>. QED  BY <1>1, <1>2, <1>3, <1>4, <1>5 DEF OnInsn

(* after a step of a drain,                                                 *)
LEMMA TypeWriteLoop ==
  ASSUME TypeOK, NEW ch \in Chan, WriteLoop(ch)
  PROVE  TypeOK'
<1>1. job.t < job.h
  BY DEF WriteLoop, Write, WriteError, WriteAstray
<1>2. errno' \in [Chan -> BOOLEAN]
  BY DEF WriteLoop, Write, WriteError, WriteAstray, TypeOK
<1>3. CASE Write(ch)
  <2>1. PICK n \in WriteSizes(ch) :
          /\ disk' = [disk EXCEPT ![fd[ch]][ch] =
                        @ \o [k \in 1..n |-> BatchUnit(ch, job.done + k - 1)]]
          /\ Advance(ch, n)
    BY <1>3 DEF Write
  <2> DEFINE new == [k \in 1..n |-> BatchUnit(ch, job.done + k - 1)]
  <2>2. new \in Seq(Unit)
    BY <1>1, WriteType
  <2>3. fd[ch] \in Calls /\ disk \in [Calls -> [Chan -> Seq(Unit)]]
    BY <1>3 DEF Write, TypeOK
  <2>4. disk[fd[ch]][ch] \o new \in Seq(Unit)
    <3> HIDE DEF new
    <3>. QED  BY <2>2, <2>3, ConcatProperties
  <2>5. disk' \in [Calls -> [Chan -> Seq(Unit)]]
    <3>1. disk' = [disk EXCEPT ![fd[ch]][ch] = disk[fd[ch]][ch] \o new]
      BY <2>1
    <3> HIDE DEF new
    <3>. QED  BY <3>1, <2>3, <2>4
  <2>6. /\ tail' \in [Chan -> Nat]
        /\ job' \in [t : Nat, h : Nat, done : Nat]
    BY <1>1, <2>1, AdvanceType
  <2>. QED  BY <1>2, <1>3, <2>5, <2>6 DEF Write, TypeOK, threads
<1>4. CASE WriteError(ch)
  BY <1>2, <1>4 DEF WriteError, TypeOK, threads, ring
<1>5. CASE WriteAstray(ch)
  <2>1. PICK n \in WriteSizes(ch) : Advance(ch, n)
    BY <1>5 DEF WriteAstray
  <2>2. /\ tail' \in [Chan -> Nat]
        /\ job' \in [t : Nat, h : Nat, done : Nat]
    BY <1>1, <2>1, AdvanceType
  <2>. QED  BY <1>2, <1>5, <2>2 DEF WriteAstray, TypeOK, threads
<1>. QED  BY <1>3, <1>4, <1>5 DEF WriteLoop

(* and after a step of the agent.                                           *)
LEMMA TypeAgentStep ==
  ASSUME TypeOK, AgentStep
  PROVE  TypeOK'
<1> USE WriterAssumption
<1>0. \A c \in Calls, ch \in Chan : Len(disk[c][ch]) \in Nat
  BY LenProperties DEF TypeOK
<1>1. CASE BeginCall
  <2>1. call + 1 \in 0..MaxCalls
    BY <1>1 DEF BeginCall, MoreCalls, TypeOK
  <2>. QED  BY <1>1, <2>1 DEF BeginCall, NextCall, TypeOK, AgentPC, files, threads
<1>2. ASSUME NEW p \in Threads, Follow(p) \/ EndCall(p) PROVE TypeOK'
  BY <1>2 DEF Follow, EndCall, TypeOK, AgentPC, files, ring
<1>3. ASSUME NEW ch \in Chan, OpenFile(ch) \/ OpenError(ch) PROVE TypeOK'
  <2>1. OpenFile(ch) => call \in Calls \cup {Closed}
    BY DEF TypeOK, Calls, Closed
  <2>2. CASE OpenFile(ch)
    <3>1. fd' \in [Chan -> Calls \cup {Closed, Stale}]
      BY <2>1, <2>2 DEF OpenFile, TypeOK
    <3>. QED  BY <2>2, <3>1 DEF OpenFile, TypeOK, AgentPC, threads, ring
  <2>3. CASE OpenError(ch)
    BY <2>3 DEF OpenError, TypeOK, AgentPC, threads, ring
  <2>. QED  BY <1>3, <2>2, <2>3
<1>4. ASSUME NEW ch \in Chan, FlushLock(ch) PROVE TypeOK'
  BY <1>4 DEF FlushLock, ActiveAfter, TypeOK, AgentPC, DrainPC, files, threads, ring
<1>5. ASSUME NEW ch \in Chan, FlushSync(ch) PROVE TypeOK'
  BY <1>0, <1>5 DEF FlushSync, TypeOK, AgentPC, threads, ring
<1>6. ASSUME NEW ch \in Chan, SyncError(ch) PROVE TypeOK'
  BY <1>6 DEF SyncError, TypeOK, threads, ring
<1>7. ASSUME NEW ch \in Chan, CloseFd(ch) PROVE TypeOK'
  BY <1>0, <1>7 DEF CloseFd, TypeOK, threads, ring
<1>8. ASSUME NEW ch \in Chan, CloseDone(ch) \/ CloseError(ch) \/ FailClosed(ch)
      PROVE TypeOK'
  BY <1>8 DEF CloseDone, CloseError, FailClosed, TypeOK, AgentPC, threads, ring
<1>9. CASE Seal
  <2>1. [total |-> head["trace"], simd |-> head["simd"],
         firstPc |-> IF head["trace"] > 0 THEN firstPc ELSE Null]
          \in [total : Nat, simd : Nat, firstPc : Insn \cup {Null}]
    BY DEF TypeOK, Chan
  <2>. QED  BY <1>9, <2>1 DEF Seal, TypeOK, AgentPC, files, threads, ring
<1>10. CASE FailCapture
  BY <1>10 DEF FailCapture, TypeOK, AgentPC, files, ring
<1>. QED  BY <1>1, <1>2, <1>3, <1>4, <1>5, <1>6, <1>7, <1>8, <1>9, <1>10 DEF AgentStep

(* The variables always hold values of their types (TypeOK), for every       *)
(* instance of the writer.                                                   *)
THEOREM WriterTypeCorrect == Spec => []TypeOK
<1>1. Init => TypeOK
  BY TypeInit
<1>2. TypeOK /\ [Next]_vars => TypeOK'
  <2> SUFFICES ASSUME TypeOK, [Next]_vars PROVE TypeOK'
    OBVIOUS
  <2>1. CASE \E p \in Threads : OnInsn(p)
    BY <2>1, TypeOnInsn
  <2>2. CASE \E ch \in Chan : WriteLoop(ch)
    BY <2>2, TypeWriteLoop
  <2>3. CASE AgentStep
    BY <2>3, TypeAgentStep
  <2>4. CASE Terminated \/ UNCHANGED vars
    BY <2>4 DEF Terminated, vars, ring, files, threads, TypeOK
  <2>. QED  BY <2>1, <2>2, <2>3, <2>4 DEF Next
<1>. QED  BY <1>1, <1>2, PTL DEF Spec

-------------------------------------------------------------------------------
(* The ring never overruns *)

(* The mutex is held exactly by the thread that is inside on_insn, or by the *)
(* agent inside flush_*.                                                     *)
MutexInv ==
  /\ \A p \in Threads : (pc[p] # "run") <=> (mutex = p)
  /\ agent \in {"drain_trace", "drain_simd"} <=> mutex = Agent

Quiet == {"idle", "open_trace", "drain_trace", "lock_simd", "drain_simd",
          "close_trace", "close_simd", "seal"}
QuietInv ==
  agent \in Quiet => /\ ~active
                     /\ \A p \in Threads : pc[p] \in {"run", "locked"}

JobInv ==
  \A ch \in Chan : Draining(ch) =>
    /\ job.t = tail[ch]
    /\ job.h = head[ch]
    /\ job.t = job.h => job.done = 0

CountInv ==
  \A ch \in Chan :
    /\ tail[ch] <= head[ch]
    /\ head[ch] - tail[ch] <= Size[ch]
    /\ ~Draining(ch) => head[ch] - tail[ch] < Size[ch]

RingInv == TypeOK /\ MutexInv /\ QuietInv /\ JobInv /\ CountInv

(* The two channels, and the assumptions on their rings.                    *)
LEMMA Channels ==
  /\ Chan = {"trace", "simd"}
  /\ DrainPC["trace"] = "drain_trace" /\ DrainPC["simd"] = "drain_simd"
  /\ Size["trace"] = RingRecs /\ Size["simd"] = SimdRingRecs
  /\ RingRecs \in Nat \ {0} /\ SimdRingRecs \in Nat \ {0}
BY WriterAssumption DEF Chan, DrainPC, Size

(* Only one drain runs at a time, and whoever runs it holds the mutex.       *)
LEMMA OneDrain ==
  ASSUME TypeOK, MutexInv, NEW ch \in Chan, Draining(ch)
  PROVE  /\ mutex # NoOne
         /\ \A d \in Chan : Draining(d) => d = ch
<1>1. Agent # NoOne /\ \A p \in Threads : p # Agent /\ p # NoOne
  BY WriterAssumption
<1>2. ASSUME NEW d \in Chan, Draining(d)
      PROVE  \/ mutex = Agent /\ agent = DrainPC[d]
             \/ mutex \in Threads /\ pc[mutex] = DrainPC[d]
  <2>1. CASE agent = DrainPC[d]
    BY <2>1, Channels DEF MutexInv
  <2>2. ASSUME NEW p \in Threads, pc[p] = DrainPC[d] PROVE mutex = p
    BY <2>2, Channels DEF MutexInv
  <2>. QED  BY <1>2, <2>1, <2>2 DEF Draining
<1>3. mutex # NoOne
  BY <1>1, <1>2
<1>4. ASSUME NEW d \in Chan, Draining(d) PROVE DrainPC[d] = DrainPC[ch]
  BY <1>1, <1>2, <1>4
<1>. QED  BY <1>3, <1>4, Channels

(* At first the rings are empty and nobody drains.                          *)
LEMMA RingInit == Init => RingInv
<1> SUFFICES ASSUME Init PROVE RingInv
  OBVIOUS
<1>1. TypeOK
  BY TypeInit
<1>2. Agent # NoOne /\ NoOne \notin Threads
  BY WriterAssumption
<1>. QED  BY <1>1, <1>2, Channels
          DEF Init, RingInv, MutexInv, QuietInv, JobInv, CountInv, Draining

(* The ring after a step of a traced thread.                                *)
LEMMA RingOnInsn ==
  ASSUME RingInv, NEW p \in Threads, OnInsn(p)
  PROVE  RingInv'
<1>0. TypeOK'
  BY TypeOnInsn DEF RingInv
<1> USE DEF RingInv
<1>a. Agent \notin Threads /\ NoOne \notin Threads /\ Agent # NoOne /\ pc \in [Threads -> ThreadPC]
      /\ head \in [Chan -> Nat] /\ tail \in [Chan -> Nat] /\ job \in [t : Nat, h : Nat, done : Nat]
  BY WriterAssumption DEF TypeOK
<1>1. CASE Lock(p)
  <2>1. \A ch \in Chan : Draining(ch)' <=> Draining(ch)
    BY <1>1, <1>a, Channels DEF Lock, Draining, MutexInv
  <2>2. MutexInv' /\ QuietInv'
    BY <1>1, <1>a DEF Lock, MutexInv, QuietInv
  <2>3. JobInv' /\ CountInv'
    BY <1>1, <2>1 DEF Lock, JobInv, CountInv, ring
  <2>. QED  BY <1>0, <2>2, <2>3
<1>2. CASE Skip(p)
  <2>1. \A ch \in Chan : Draining(ch)' <=> Draining(ch)
    BY <1>2, <1>a, Channels DEF Skip, Draining, MutexInv
  <2>2. MutexInv' /\ QuietInv'
    BY <1>2, <1>a DEF Skip, MutexInv, QuietInv
  <2>3. JobInv' /\ CountInv'
    BY <1>2, <2>1 DEF Skip, JobInv, CountInv, ring
  <2>. QED  BY <1>0, <2>2, <2>3
<1>3. CASE Store(p)
  <2>1. \A ch \in Chan : ~Draining(ch)
    BY <1>3, <1>a, Channels DEF Store, Draining, MutexInv
  <2>2. ~Draining("trace")' /\ (Draining("simd")' <=> SimdFull)
    BY <1>3, <1>a, <2>1, Channels DEF Store, Draining
  <2>3. MutexInv' /\ QuietInv'
    BY <1>3, <1>a DEF Store, MutexInv, QuietInv
  <2>4. tail' = tail /\ head'["trace"] = head["trace"]
        /\ head'["simd"] = IF Sampled THEN head["simd"] + 1 ELSE head["simd"]
    BY <1>3, <1>a, Channels DEF Store
  <2>5. JobInv' /\ CountInv'
    BY <1>3, <1>a, <2>1, <2>2, <2>4, Channels DEF Store, JobInv, CountInv, SimdFull
  <2>. QED  BY <1>0, <2>3, <2>5
<1>4. CASE Publish(p)
  <2>1. \A ch \in Chan : ~Draining(ch)
    BY <1>4, <1>a, Channels DEF Publish, Draining, MutexInv
  <2>2. ~Draining("simd")' /\ (Draining("trace")' <=> TraceFull)
    BY <1>4, <1>a, <2>1, Channels DEF Publish, Draining
  <2>3. MutexInv' /\ QuietInv'
    BY <1>4, <1>a DEF Publish, MutexInv, QuietInv
  <2>4. tail' = tail /\ head'["simd"] = head["simd"] /\ head'["trace"] = head["trace"] + 1
    BY <1>4, <1>a, Channels DEF Publish
  <2>5. JobInv' /\ CountInv'
    BY <1>4, <1>a, <2>1, <2>2, <2>4, Channels DEF Publish, JobInv, CountInv, TraceFull
  <2>. QED  BY <1>0, <2>3, <2>5
<1>5. CASE Drained(p)
  <2>1. MutexInv' /\ QuietInv'
    BY <1>5, <1>a DEF Drained, MutexInv, QuietInv
  <2>2. \A ch \in Chan : Draining(ch)' => Draining(ch)
    BY <1>5, <1>a, Channels DEF Drained, Draining
  <2>3. \A ch \in Chan : Draining(ch) => head[ch] = tail[ch]
    BY <1>5, <1>a DEF Drained, JobInv, CountInv
  <2>4. UNCHANGED <<head, tail, job>>
    BY <1>5 DEF Drained, ring
  <2>5. JobInv'
    BY <2>2, <2>4 DEF JobInv
  <2>6. CountInv'
    BY <1>a, <2>3, <2>4, Channels DEF CountInv
  <2>. QED  BY <1>0, <2>1, <2>5, <2>6
<1>. QED  BY <1>1, <1>2, <1>3, <1>4, <1>5 DEF OnInsn

(* A write that the kernel has taken moves the tail by that much.           *)
LEMMA AdvanceRing ==
  ASSUME RingInv, NEW ch \in Chan, Draining(ch), job.t < job.h,
         NEW n \in WriteSizes(ch), Advance(ch, n),
         UNCHANGED <<head, pc, agent>>
  PROVE  JobInv' /\ CountInv'
<1>1. /\ Batch(ch) \in Nat \ {0} /\ Batch(ch) <= job.h - job.t
      /\ n \in Nat \ {0}
  BY BatchBounds, WriteType DEF RingInv, WriteSizes
<1>2. job.t = tail[ch] /\ job.h = head[ch]
  BY DEF RingInv, JobInv
<1>3. \A d \in Chan : Draining(d) <=> d = ch
  BY OneDrain DEF RingInv
<1>4. \A d \in Chan : Draining(d)' <=> d = ch
  BY <1>3 DEF Draining
<1>5. /\ head \in [Chan -> Nat] /\ tail \in [Chan -> Nat]
      /\ job \in [t : Nat, h : Nat, done : Nat]
  BY DEF RingInv, TypeOK
<1>6. /\ job'.h = job.h
      /\ \A d \in Chan : d # ch => tail'[d] = tail[d]
      /\ job'.t = tail'[ch]
      /\ tail'[ch] \in {job.t, job.t + Batch(ch)}
      /\ job'.t # job.t => job'.done = 0
  <2>1. CASE job.done + n = Batch(ch) * RecUnits
    <3>1. /\ tail' = [tail EXCEPT ![ch] = job.t + Batch(ch)]
          /\ job' = [job EXCEPT !.t = @ + Batch(ch), !.done = 0]
      BY <2>1 DEF Advance
    <3>. QED  BY <3>1, <1>5
  <2>2. CASE job.done + n # Batch(ch) * RecUnits
    <3>1. job' = [job EXCEPT !.done = @ + n] /\ UNCHANGED tail
      BY <2>2 DEF Advance
    <3>. QED  BY <3>1, <1>2, <1>5
  <2>. QED  BY <2>1, <2>2
<1>7. tail[ch] <= tail'[ch] /\ tail'[ch] <= head[ch]
  BY <1>1, <1>2, <1>5, <1>6
<1>8. JobInv'
  <2>1. job'.t = job'.h => job'.done = 0
    BY <1>5, <1>6
  <2>. QED  BY <2>1, <1>2, <1>4, <1>6 DEF JobInv
<1>9. CountInv'
  <2> SUFFICES ASSUME NEW d \in Chan
               PROVE  /\ tail'[d] <= head'[d]
                      /\ head'[d] - tail'[d] <= Size[d]
                      /\ ~Draining(d)' => head'[d] - tail'[d] < Size[d]
    BY DEF CountInv
  <2>0. tail'[ch] \in Nat
    BY <1>1, <1>5, <1>6
  <2>1. Size[d] \in Nat
    BY Channels
  <2>2. CASE d = ch
    BY <1>4, <1>5, <1>7, <2>0, <2>1, <2>2 DEF RingInv, CountInv
  <2>3. CASE d # ch
    BY <1>3, <1>6, <2>3 DEF RingInv, CountInv
  <2>. QED  BY <2>2, <2>3
<1>. QED  BY <1>8, <1>9

(* The ring after a step of a drain.                                        *)
LEMMA RingWriteLoop ==
  ASSUME RingInv, NEW ch \in Chan, WriteLoop(ch)
  PROVE  RingInv'
<1>1. TypeOK'
  BY TypeWriteLoop DEF RingInv
<1>2. MutexInv' /\ QuietInv'
  BY DEF WriteLoop, Write, WriteError, WriteAstray, RingInv, MutexInv, QuietInv, threads
<1>3. JobInv' /\ CountInv'
  <2>1. CASE WriteError(ch)
    <3>1. UNCHANGED <<head, tail, job, pc, agent>>
      BY <2>1 DEF WriteError, ring, threads
    <3>. QED  BY <3>1 DEF RingInv, JobInv, CountInv, Draining
  <2>2. CASE Write(ch) \/ WriteAstray(ch)
    <3>1. PICK n \in WriteSizes(ch) : Advance(ch, n)
      BY <2>2 DEF Write, WriteAstray
    <3>2. Draining(ch) /\ job.t < job.h /\ UNCHANGED <<head, pc, agent>>
      BY <2>2 DEF Write, WriteAstray, threads
    <3>. QED  BY <3>1, <3>2, AdvanceRing
  <2>. QED  BY <2>1, <2>2 DEF WriteLoop
<1>. QED  BY <1>1, <1>2, <1>3 DEF RingInv

(* A step that moves neither the counters nor the drain keeps the bounds.    *)
LEMMA SameCounts ==
  ASSUME RingInv, UNCHANGED <<head, tail, job>>,
         \A ch \in Chan : Draining(ch)' <=> Draining(ch)
  PROVE  JobInv' /\ CountInv'
BY DEF RingInv, JobInv, CountInv

(* The ring after a step of the agent.                                      *)
LEMMA RingAgentStep ==
  ASSUME RingInv, AgentStep
  PROVE  RingInv'
<1>0. TypeOK'
  BY TypeAgentStep DEF RingInv
<1> USE DEF RingInv
<1>a. /\ Agent \notin Threads /\ NoOne \notin Threads /\ Agent # NoOne
      /\ pc \in [Threads -> ThreadPC]
      /\ head \in [Chan -> Nat] /\ tail \in [Chan -> Nat]
      /\ job \in [t : Nat, h : Nat, done : Nat]
  BY WriterAssumption DEF TypeOK
<1>1. CASE BeginCall
  <2>1. \A ch \in Chan : ~Draining(ch)'
    BY <1>1, <1>a, Channels DEF BeginCall, Draining, QuietInv, Quiet, threads
  <2>2. MutexInv' /\ QuietInv'
    BY <1>1 DEF BeginCall, MutexInv, QuietInv, Quiet, threads
  <2>3. JobInv' /\ CountInv'
    BY <1>1, <2>1, Channels DEF BeginCall, JobInv, CountInv
  <2>. QED  BY <1>0, <2>2, <2>3
<1>2. ASSUME NEW p \in Threads, Follow(p) PROVE RingInv'
  <2>1. UNCHANGED <<mutex, active, head, tail, job, pc, agent>>
    BY <1>2 DEF Follow, ring
  <2>2. MutexInv' /\ QuietInv' /\ \A ch \in Chan : Draining(ch)' <=> Draining(ch)
    BY <2>1 DEF MutexInv, QuietInv, Draining
  <2>. QED  BY <1>0, <2>1, <2>2, SameCounts
<1>3. ASSUME NEW p \in Threads, EndCall(p) PROVE RingInv'
  <2>1. UNCHANGED <<mutex, active, head, tail, job, pc>>
        /\ agent = "capturing" /\ agent' = "lock_trace"
    BY <1>3 DEF EndCall, ring
  <2>2. MutexInv' /\ QuietInv'
    BY <2>1 DEF MutexInv, QuietInv, Quiet
  <2>3. \A ch \in Chan : Draining(ch)' <=> Draining(ch)
    BY <2>1, Channels DEF Draining
  <2>. QED  BY <1>0, <2>1, <2>2, <2>3, SameCounts
<1>4. ASSUME NEW ch \in Chan, OpenFile(ch) PROVE RingInv'
  <2>1. /\ UNCHANGED <<mutex, head, tail, job, pc>>
        /\ agent \in {"open_trace", "open_simd"} /\ agent' \in {"open_simd", "capturing"}
    BY <1>4 DEF OpenFile, OpenPC, ring, threads, Chan
  <2>2. MutexInv' /\ QuietInv'
    BY <2>1 DEF MutexInv, QuietInv, Quiet
  <2>3. \A d \in Chan : Draining(d)' <=> Draining(d)
    BY <2>1, Channels DEF Draining
  <2>. QED  BY <1>0, <2>1, <2>2, <2>3, SameCounts
<1>5. ASSUME NEW ch \in Chan, OpenError(ch) \/ SyncError(ch) \/ CloseFd(ch)
      PROVE RingInv'
  <2>1. UNCHANGED <<mutex, active, head, tail, job, pc, agent>>
    BY <1>5 DEF OpenError, SyncError, CloseFd, ring, threads
  <2>2. MutexInv' /\ QuietInv' /\ \A d \in Chan : Draining(d)' <=> Draining(d)
    BY <2>1 DEF MutexInv, QuietInv, Draining
  <2>. QED  BY <1>0, <2>1, <2>2, SameCounts
<1>6. ASSUME NEW ch \in Chan, FlushLock(ch) PROVE RingInv'
  <2>1. /\ UNCHANGED <<head, tail, pc>>
        /\ agent \in {"lock_trace", "lock_simd"} /\ agent' = DrainPC[ch]
        /\ mutex = NoOne /\ mutex' = Agent
        /\ job' = [t |-> tail[ch], h |-> head[ch], done |-> 0]
    BY <1>6 DEF FlushLock, ring, threads
  <2>2. \A q \in Threads : pc[q] = "run"
    BY <2>1, <1>a DEF MutexInv
  <2>3. MutexInv'
    BY <2>1, <2>2, <1>a, Channels DEF MutexInv
  <2>4. ~active'
    BY <1>6, <2>1, Channels DEF FlushLock, ActiveAfter, QuietInv, Quiet
  <2>5. QuietInv'
    BY <2>1, <2>2, <2>4 DEF QuietInv
  <2>6. \A d \in Chan : ~Draining(d) /\ (Draining(d)' <=> d = ch)
    BY <2>1, <2>2, Channels DEF Draining
  <2>7. JobInv' /\ CountInv'
    BY <2>1, <2>6 DEF JobInv, CountInv
  <2>. QED  BY <1>0, <2>3, <2>5, <2>7
<1>7. ASSUME NEW ch \in Chan, FlushSync(ch) PROVE RingInv'
  <2>1. /\ UNCHANGED <<active, head, tail, job, pc>>
        /\ agent = DrainPC[ch] /\ agent' \in {"lock_simd", "close_trace"}
        /\ job.t >= job.h /\ mutex' = NoOne
    BY <1>7 DEF FlushSync, ring, threads
  <2>2. mutex = Agent /\ \A q \in Threads : pc[q] = "run"
    BY <2>1, <1>a, Channels DEF MutexInv
  <2>3. MutexInv' /\ QuietInv'
    BY <2>1, <2>2, <1>a, Channels DEF MutexInv, QuietInv, Quiet
  <2>4. \A d \in Chan : ~Draining(d)' /\ (Draining(d) <=> d = ch)
    BY <2>1, <2>2, Channels DEF Draining
  <2>5. head[ch] = tail[ch]
    BY <2>1, <2>4, <1>a DEF JobInv, CountInv
  <2>6. JobInv' /\ CountInv'
    BY <2>1, <2>4, <2>5, <1>a, Channels DEF JobInv, CountInv
  <2>. QED  BY <1>0, <2>3, <2>6
<1>8. ASSUME NEW ch \in Chan, CloseDone(ch) \/ CloseError(ch) \/ FailClosed(ch)
      PROVE RingInv'
  <2>1. /\ UNCHANGED <<mutex, head, tail, job, pc>> /\ (active' => active)
        /\ \/ agent \in {"close_trace", "close_simd"}
              /\ agent' \in {"close_simd", "seal", "fail_trace"}
           \/ agent \in {"fail_trace", "fail_simd"} /\ agent' \in {"fail_simd", "failed"}
    BY <1>8 DEF CloseDone, CloseError, FailClosed, ClosePC, FailPC, ring, threads, Chan
  <2>2. MutexInv' /\ QuietInv'
    BY <2>1 DEF MutexInv, QuietInv, Quiet
  <2>3. \A d \in Chan : Draining(d)' <=> Draining(d)
    BY <2>1, Channels DEF Draining
  <2>. QED  BY <1>0, <2>1, <2>2, <2>3, SameCounts
<1>9. CASE Seal \/ FailCapture
  <2>1. /\ UNCHANGED <<mutex, head, tail, job, pc>> /\ (active' => active)
        /\ \/ agent = "seal" /\ agent' \in {"idle", "fail_trace"}
           \/ agent = "capturing" /\ agent' = "fail_trace"
    BY <1>9 DEF Seal, FailCapture, ring, threads
  <2>2. MutexInv' /\ QuietInv'
    BY <2>1 DEF MutexInv, QuietInv, Quiet
  <2>3. \A d \in Chan : Draining(d)' <=> Draining(d)
    BY <2>1, Channels DEF Draining
  <2>. QED  BY <1>0, <2>1, <2>2, <2>3, SameCounts
<1>. QED  BY <1>1, <1>2, <1>3, <1>4, <1>5, <1>6, <1>7, <1>8, <1>9 DEF AgentStep

(* RingInv is inductive: it adds to the bounds who holds the mutex, in which *)
(* phases no thread can be past the `active` test, and that the locals of a  *)
(* drain still describe its ring.                                            *)
THEOREM WriterRingInv == Spec => []RingInv
<1>1. Init => RingInv
  BY RingInit
<1>2. RingInv /\ [Next]_vars => RingInv'
  <2> SUFFICES ASSUME RingInv, [Next]_vars PROVE RingInv'
    OBVIOUS
  <2>1. CASE \E p \in Threads : OnInsn(p)
    BY <2>1, RingOnInsn
  <2>2. CASE \E ch \in Chan : WriteLoop(ch)
    BY <2>2, RingWriteLoop
  <2>3. CASE AgentStep
    BY <2>3, RingAgentStep
  <2>4. CASE UNCHANGED vars
    BY <2>4 DEF vars, ring, files, threads, RingInv, TypeOK, MutexInv, QuietInv,
                JobInv, CountInv, Draining
  <2>. QED  BY <2>1, <2>2, <2>3, <2>4 DEF Next, Terminated
<1>. QED  BY <1>1, <1>2, PTL DEF Spec

(* Undrained records never exceed the ring, and outside the critical section *)
(* a ring is never full: no slot is overwritten before it is on disk.        *)
THEOREM WriterRingBounded == Spec => []RingBounded
<1>1. RingInv => RingBounded
  <2> SUFFICES ASSUME RingInv, NEW ch \in Chan
               PROVE  /\ tail[ch] <= head[ch]
                      /\ head[ch] - tail[ch] <= Size[ch]
                      /\ mutex = NoOne => head[ch] - tail[ch] < Size[ch]
    BY DEF RingBounded
  <2>1. Draining(ch) => mutex # NoOne
    BY OneDrain DEF RingInv
  <2>. QED  BY <2>1 DEF RingInv, CountInv
<1>. QED  BY <1>1, WriterRingInv, PTL

-------------------------------------------------------------------------------
(* What a sealed call promises *)

(* Whose file is open in each phase of the agent.                            *)
FdInv ==
  /\ \A ch \in Chan : fd[ch] \in {call, Closed, Stale}
  /\ agent \in {"open_simd", "capturing", "lock_trace", "drain_trace", "lock_simd",
               "drain_simd"} => fd["trace"] = call
  /\ agent \in {"capturing", "lock_trace", "drain_trace", "lock_simd", "drain_simd",
               "close_trace"} => fd["simd"] = call
  /\ agent \in {"idle", "open_trace", "close_simd", "seal"} => fd["trace"] = Closed
  /\ agent \in {"idle", "open_trace", "open_simd", "seal"} => fd["simd"] = Closed
  /\ agent = "idle" \/ call \in Calls

(* Units of the running batch that write_all has already written.            *)
OfBatch(ch) == IF Draining(ch) THEN job.done ELSE 0

(* The file of the open call holds what was drained and what the running     *)
(* drain has written of its batch; a later call has no file yet.             *)
FileInv ==
  /\ \A c \in Calls, ch \in Chan : c > call => disk[c][ch] = <<>>
  /\ call \in Calls /\ ~Failing => \A ch \in Chan :
       Len(disk[call][ch]) = tail[ch] * RecUnits + OfBatch(ch)

(* Once flush_* has synced a channel, that ring stays empty and that file    *)
(* stays synced until the call is sealed.                                    *)
SyncedPC ==
  [ch \in Chan |-> IF ch = "trace"
                  THEN {"lock_simd", "drain_simd", "close_trace", "close_simd", "seal"}
                  ELSE {"close_trace", "close_simd", "seal"}]
SyncInv ==
  \A ch \in Chan : agent \in SyncedPC[ch] =>
    tail[ch] = head[ch] /\ synced[call][ch] = Len(disk[call][ch])

SealInv ==
  \A c \in Calls : sealed[c] # Unsealed =>
    /\ c <= call /\ (c = call => agent = "idle")
    /\ Len(disk[c]["trace"]) = sealed[c].total * RecUnits
    /\ Len(disk[c]["simd"]) = sealed[c].simd * RecUnits
    /\ \A ch \in Chan : synced[c][ch] = Len(disk[c][ch])

FilesInv == FdInv /\ FileInv /\ SyncInv /\ SealInv

-------------------------------------------------------------------------------
(* Calls are numbered from 1, so a call is never Closed or Stale.            *)
LEMMA CallNumbers ==
  /\ Calls = 1..MaxCalls /\ MaxCalls \in Nat \ {0}
  /\ Closed \notin Calls /\ Stale \notin Calls
  /\ RecUnits \in Nat \ {0}
BY WriterAssumption DEF Calls, Closed, Stale

(* At first nothing is open and nothing is sealed.                          *)
LEMMA FilesInit == Init => FilesInv
<1> SUFFICES ASSUME Init PROVE FilesInv
  OBVIOUS
<1>0. agent = "idle"
  BY DEF Init
<1>1. SealInv
  BY DEF Init, SealInv
<1>2. FdInv /\ SyncInv
  BY <1>0, Channels DEF Init, FdInv, SyncInv, SyncedPC
<1>3. FileInv
  BY CallNumbers DEF Init, FileInv
<1>. QED  BY <1>1, <1>2, <1>3 DEF FilesInv

(* Whose file a descriptor is: every step of the system.                    *)
LEMMA FdStep ==
  ASSUME RingInv, FdInv, Next
  PROVE  FdInv'
<1> USE CallNumbers, Channels
<1>a. fd \in [Chan -> Calls \cup {Closed, Stale}] /\ call \in 0..MaxCalls
  BY DEF RingInv, TypeOK
<1>1. CASE UNCHANGED <<fd, agent, call>>
  BY <1>1 DEF FdInv
<1>2. CASE BeginCall
  BY <1>2, <1>a DEF BeginCall, NextCall, MoreCalls, FdInv, files
<1>3. ASSUME NEW ch \in Chan, OpenFile(ch) PROVE FdInv'
  BY <1>3, <1>a DEF OpenFile, OpenPC, FdInv
<1>4. ASSUME NEW p \in Threads, EndCall(p) PROVE FdInv'
  BY <1>4 DEF EndCall, FdInv, files
<1>5. ASSUME NEW ch \in Chan, FlushLock(ch) \/ FlushSync(ch) PROVE FdInv'
  <2>1. /\ UNCHANGED <<fd, call>>
        /\ \/ agent = "lock_trace" /\ agent' = "drain_trace"
           \/ agent = "lock_simd" /\ agent' = "drain_simd"
           \/ agent = "drain_trace" /\ agent' = "lock_simd"
           \/ agent = "drain_simd" /\ agent' = "close_trace"
    BY <1>5 DEF FlushLock, FlushSync, DrainPC, files
  <2>. QED  BY <2>1 DEF FdInv
<1>6. ASSUME NEW ch \in Chan, CloseFd(ch) PROVE FdInv'
  BY <1>6, <1>a DEF CloseFd, ClosePC, FailPC, FdInv
<1>7. ASSUME NEW ch \in Chan, CloseDone(ch) \/ CloseError(ch) \/ FailClosed(ch) PROVE FdInv'
  BY <1>7, <1>a DEF CloseDone, CloseError, FailClosed, ClosePC, FailPC, FdInv
<1>8. CASE Seal \/ FailCapture
  BY <1>8 DEF Seal, FailCapture, FdInv, files
<1>9. ASSUME NEW p \in Threads, OnInsn(p) \/ Follow(p) PROVE FdInv'
  <2>1. UNCHANGED <<fd, agent, call>>
    BY <1>9 DEF OnInsn, Lock, Skip, Store, Publish, Drained, Follow, files
  <2>. QED  BY <1>1, <2>1
<1>10. ASSUME NEW ch \in Chan, WriteLoop(ch) \/ OpenError(ch) \/ SyncError(ch) PROVE FdInv'
  <2>1. UNCHANGED <<fd, agent, call>>
    BY <1>10 DEF WriteLoop, Write, WriteError, WriteAstray, OpenError, SyncError
  <2>. QED  BY <1>1, <2>1
<1>11. CASE Terminated
  BY <1>1, <1>11 DEF Terminated, vars, files
<1>. QED  BY <1>2, <1>3, <1>4, <1>5, <1>6, <1>7, <1>8, <1>9, <1>10, <1>11 DEF Next, AgentStep

-------------------------------------------------------------------------------
(* The agent leaves "idle" only by beginning a call, and a failure is final. *)
LEMMA AgentPhases ==
  ASSUME TypeOK, Next
  PROVE  /\ call' = call \/ (agent = "idle" /\ call' = call + 1)
         /\ agent = "idle" /\ call' = call => agent' = "idle"
         /\ Failing => Failing'
<1> USE Channels DEF Failing
<1>1. CASE BeginCall
  BY <1>1 DEF BeginCall, NextCall
<1>2. ASSUME NEW ch \in Chan,
             OpenFile(ch) \/ FlushLock(ch) \/ FlushSync(ch) \/ CloseDone(ch) \/ CloseError(ch)
               \/ FailClosed(ch)
      PROVE  /\ call' = call /\ agent # "idle" /\ (Failing => Failing')
  <2>1. CASE OpenFile(ch) \/ FlushLock(ch) \/ FlushSync(ch)
    BY <2>1 DEF OpenFile, OpenPC, FlushLock, FlushSync, DrainPC
  <2>2. CASE CloseDone(ch) \/ CloseError(ch) \/ FailClosed(ch)
    BY <2>2 DEF CloseDone, CloseError, FailClosed, ClosePC, FailPC
  <2>. QED  BY <1>2, <2>1, <2>2
<1>3. CASE \E p \in Threads : EndCall(p)
  BY <1>3 DEF EndCall
<1>4. CASE Seal \/ FailCapture
  BY <1>4 DEF Seal, FailCapture
<1>5. ASSUME NEW p \in Threads, OnInsn(p) \/ Follow(p) PROVE UNCHANGED <<agent, call>>
  BY <1>5 DEF OnInsn, Lock, Skip, Store, Publish, Drained, Follow
<1>6. ASSUME NEW ch \in Chan,
             WriteLoop(ch) \/ OpenError(ch) \/ SyncError(ch) \/ CloseFd(ch)
      PROVE  UNCHANGED <<agent, call>>
  BY <1>6 DEF WriteLoop, Write, WriteError, WriteAstray, OpenError, SyncError, CloseFd
<1>7. CASE Terminated
  BY <1>7 DEF Terminated, vars
<1>. QED  BY <1>1, <1>2, <1>3, <1>4, <1>5, <1>6, <1>7 DEF Next, AgentStep

(* Only the files of the open call are written or synced, and none between   *)
(* two calls.                                                                *)
LEMMA OtherFilesUnchanged ==
  ASSUME RingInv, FdInv, Next, NEW c \in Calls, c # call \/ agent = "idle"
  PROVE  disk'[c] = disk[c] /\ synced'[c] = synced[c]
<1> USE CallNumbers, Channels
<1>a. /\ disk \in [Calls -> [Chan -> Seq(Unit)]] /\ synced \in [Calls -> [Chan -> Nat]]
  BY DEF RingInv, TypeOK
<1>b. ASSUME NEW ch \in Chan, fd[ch] \in Calls PROVE fd[ch] # c
  BY <1>b DEF FdInv
<1>1. ASSUME NEW ch \in Chan, Write(ch) PROVE disk'[c] = disk[c] /\ synced'[c] = synced[c]
  <2>1. fd[ch] \in Calls /\ synced' = synced
        /\ \E s : disk' = [disk EXCEPT ![fd[ch]][ch] = s]
    BY <1>1 DEF Write
  <2>. QED  BY <1>a, <1>b, <2>1
<1>2. ASSUME NEW ch \in Chan, FlushSync(ch) \/ CloseFd(ch)
      PROVE disk'[c] = disk[c] /\ synced'[c] = synced[c]
  <2>1. fd[ch] \in Calls /\ disk' = disk
        /\ synced' = [synced EXCEPT ![fd[ch]][ch] = Len(disk[fd[ch]][ch])]
    BY <1>2 DEF FlushSync, CloseFd
  <2>. QED  BY <1>a, <1>b, <2>1
<1>3. ASSUME NEW ch \in Chan,
             WriteError(ch) \/ WriteAstray(ch) \/ OpenFile(ch) \/ OpenError(ch)
               \/ FlushLock(ch) \/ SyncError(ch) \/ CloseDone(ch) \/ CloseError(ch)
               \/ FailClosed(ch)
      PROVE UNCHANGED <<disk, synced>>
  BY <1>3 DEF WriteError, WriteAstray, OpenFile, OpenError, FlushLock, SyncError,
              CloseDone, CloseError, FailClosed, files
<1>4. ASSUME NEW p \in Threads, OnInsn(p) \/ Follow(p) \/ EndCall(p)
      PROVE UNCHANGED <<disk, synced>>
  BY <1>4 DEF OnInsn, Lock, Skip, Store, Publish, Drained, Follow, EndCall, files
<1>5. CASE BeginCall \/ Seal \/ FailCapture \/ Terminated
  BY <1>5 DEF BeginCall, Seal, FailCapture, Terminated, vars, files
<1>. QED  BY <1>1, <1>2, <1>3, <1>4, <1>5 DEF Next, AgentStep, WriteLoop

(* Only Seal writes a manifest, and only that of the open call.              *)
LEMMA ManifestsUnchanged ==
  ASSUME RingInv, Next
  PROVE  \/ Seal
         \/ sealed' = sealed
<1>1. ASSUME NEW ch \in Chan, WriteLoop(ch) PROVE sealed' = sealed
  BY <1>1 DEF WriteLoop, Write, WriteError, WriteAstray
<1>2. ASSUME NEW p \in Threads, OnInsn(p) \/ Follow(p) \/ EndCall(p)
      PROVE sealed' = sealed
  BY <1>2 DEF OnInsn, Lock, Skip, Store, Publish, Drained, Follow, EndCall
<1>3. ASSUME NEW ch \in Chan,
             OpenFile(ch) \/ OpenError(ch) \/ FlushLock(ch) \/ FlushSync(ch)
               \/ SyncError(ch) \/ CloseFd(ch) \/ CloseDone(ch) \/ CloseError(ch)
               \/ FailClosed(ch)
      PROVE sealed' = sealed
  BY <1>3 DEF OpenFile, OpenError, FlushLock, FlushSync, SyncError, CloseFd, CloseDone,
              CloseError, FailClosed
<1>4. CASE BeginCall \/ FailCapture \/ Terminated
  BY <1>4 DEF BeginCall, FailCapture, Terminated, vars
<1>. QED  BY <1>1, <1>2, <1>3, <1>4 DEF Next, AgentStep

-------------------------------------------------------------------------------
(* A call's file and its ring *)

(* on_insn itself moves neither `tail` nor the position in a batch: a drain  *)
(* starts at 0 and returns at the end of a batch.                            *)
LEMMA BatchOnInsn ==
  ASSUME RingInv, NEW p \in Threads, OnInsn(p), NEW ch \in Chan
  PROVE  OfBatch(ch)' = OfBatch(ch) /\ UNCHANGED <<tail, disk, call, agent>>
<1> USE Channels DEF RingInv, OfBatch
<1>a. /\ pc \in [Threads -> ThreadPC] /\ job \in [t : Nat, h : Nat, done : Nat]
      /\ Agent \notin Threads
  BY WriterAssumption DEF TypeOK
<1>b. UNCHANGED <<tail, disk, call, agent>>
  BY DEF OnInsn, Lock, Skip, Store, Publish, Drained, ring, files
<1>1. CASE Lock(p) \/ Skip(p)
  <2>1. Draining(ch)' <=> Draining(ch)
    BY <1>1, <1>a DEF Lock, Skip, Draining
  <2>. QED  BY <1>1, <1>b, <2>1 DEF Lock, Skip
<1>2. CASE Store(p) \/ Publish(p)
  <2>1. ~Draining(ch)
    BY <1>2, <1>a DEF Store, Publish, Draining, MutexInv
  <2>2. job' = job \/ job'.done = 0
    BY <1>2 DEF Store, Publish
  <2>3. Draining(ch)' => job'.done = 0
    BY <1>2, <1>a, <2>1 DEF Store, Publish, Draining
  <2>. QED  BY <1>b, <2>1, <2>3
<1>3. CASE Drained(p)
  <2>1. job.t >= job.h /\ job' = job
    BY <1>3 DEF Drained
  <2>2. Draining(ch) => job.done = 0
    BY <2>1, <1>a DEF JobInv, CountInv, TypeOK
  <2>3. Draining(ch)' => Draining(ch)
    BY <1>3, <1>a DEF Drained, Draining
  <2>. QED  BY <1>b, <2>1, <2>2, <2>3
<1>. QED  BY <1>1, <1>2, <1>3 DEF OnInsn

(* The same for the steps of the agent inside a call.                        *)
LEMMA BatchAgentStep ==
  ASSUME RingInv, AgentStep, ~BeginCall, NEW ch \in Chan
  PROVE  OfBatch(ch)' = OfBatch(ch) /\ UNCHANGED <<tail, disk, call>>
<1> USE Channels DEF RingInv, OfBatch
<1>a. /\ pc \in [Threads -> ThreadPC] /\ job \in [t : Nat, h : Nat, done : Nat]
      /\ Agent \notin Threads /\ Agent # NoOne /\ NoOne \notin Threads
      /\ tail \in [Chan -> Nat] /\ head \in [Chan -> Nat]
  BY WriterAssumption DEF TypeOK
<1>1. ASSUME NEW d \in Chan, FlushLock(d)
      PROVE OfBatch(ch)' = OfBatch(ch) /\ UNCHANGED <<tail, disk, call>>
  <2>1. \A q \in Threads : pc[q] = "run"
    BY <1>1, <1>a DEF FlushLock, MutexInv
  <2>2. ~Draining(ch)
    BY <1>1, <2>1 DEF FlushLock, Draining
  <2>. QED  BY <1>1, <2>2 DEF FlushLock, ring, files
<1>2. ASSUME NEW d \in Chan, FlushSync(d)
      PROVE OfBatch(ch)' = OfBatch(ch) /\ UNCHANGED <<tail, disk, call>>
  <2>1. UNCHANGED <<tail, disk, call, job, pc>> /\ job.t >= job.h
        /\ agent = DrainPC[d] /\ agent' \in {"lock_simd", "close_trace"}
    BY <1>2 DEF FlushSync, ring, threads
  <2>2. Draining(ch)' => Draining(ch)
    BY <2>1 DEF Draining
  <2>3. Draining(ch) => job.done = 0
    BY <2>1, <1>a DEF JobInv, CountInv
  <2>. QED  BY <2>1, <2>2, <2>3
<1>3. ASSUME UNCHANGED <<tail, disk, call, job, pc>>,
             \/ {agent, agent'} \cap {"drain_trace", "drain_simd"} = {}
             \/ agent' = agent
      PROVE OfBatch(ch)' = OfBatch(ch) /\ UNCHANGED <<tail, disk, call>>
  BY <1>3 DEF Draining
<1>4. ASSUME NEW p \in Threads, Follow(p) \/ EndCall(p)
      PROVE OfBatch(ch)' = OfBatch(ch) /\ UNCHANGED <<tail, disk, call>>
  BY <1>3, <1>4 DEF Follow, EndCall, ring, files
<1>5. ASSUME NEW d \in Chan, OpenFile(d) \/ OpenError(d) \/ SyncError(d) \/ CloseFd(d)
      PROVE OfBatch(ch)' = OfBatch(ch) /\ UNCHANGED <<tail, disk, call>>
  BY <1>3, <1>5 DEF OpenFile, OpenPC, OpenError, SyncError, CloseFd, ring, threads
<1>6. ASSUME NEW d \in Chan, CloseDone(d) \/ CloseError(d) \/ FailClosed(d)
      PROVE OfBatch(ch)' = OfBatch(ch) /\ UNCHANGED <<tail, disk, call>>
  BY <1>3, <1>6 DEF CloseDone, CloseError, FailClosed, ClosePC, FailPC, ring, threads
<1>7. CASE Seal \/ FailCapture
  BY <1>3, <1>7 DEF Seal, FailCapture, ring, files, threads
<1>. QED  BY <1>1, <1>2, <1>4, <1>5, <1>6, <1>7 DEF AgentStep

(* Until a failure, a drain only writes to the file of the open call.        *)
LEMMA NeverAstray ==
  ASSUME RingInv, FdInv, ~Failing, NEW ch \in Chan
  PROVE  ~WriteAstray(ch)
<1> SUFFICES ASSUME WriteAstray(ch) PROVE FALSE
  OBVIOUS
<1> USE Channels, CallNumbers DEF RingInv
<1>1. Draining(ch) /\ fd[ch] = Stale
  BY DEF WriteAstray
<1>2. agent \in {"open_simd", "capturing", "lock_trace", "drain_trace", "drain_simd"}
  BY <1>1 DEF Draining, QuietInv, Quiet, Failing, TypeOK, AgentPC
<1>3. fd[ch] \in {call, Closed} /\ call \in Calls
  BY <1>2 DEF FdInv
<1>. QED  BY <1>1, <1>3 DEF Closed, Stale

(* What a file holds, in records: every step of the system.                 *)
LEMMA FileStep ==
  ASSUME RingInv, FdInv, FileInv, Next
  PROVE  FileInv'
<1> USE Channels, CallNumbers
<1>a. call \in 0..MaxCalls /\ disk \in [Calls -> [Chan -> Seq(Unit)]]
      /\ tail \in [Chan -> Nat] /\ job \in [t : Nat, h : Nat, done : Nat]
  BY DEF RingInv, TypeOK
<1>b. call' = call \/ (agent = "idle" /\ call' = call + 1)
  BY AgentPhases DEF RingInv
<1>1. ASSUME NEW c \in Calls, NEW ch \in Chan, c > call' PROVE disk'[c][ch] = <<>>
  <2>1. c > call
    BY <1>1, <1>a, <1>b
  <2>2. disk'[c] = disk[c]
    <3>1. c # call
      BY <2>1, <1>a
    <3>. QED  BY <3>1, OtherFilesUnchanged
  <2>. QED  BY <2>1, <2>2 DEF FileInv
<1>2. ASSUME call' \in Calls, ~Failing', NEW ch \in Chan
      PROVE  Len(disk'[call'][ch]) = tail'[ch] * RecUnits + OfBatch(ch)'
  <2>0. ~Failing
    BY <1>2, AgentPhases DEF RingInv
  <2>1. CASE BeginCall
    <3>1. disk' = disk /\ tail' = [d \in Chan |-> 0] /\ call' > call /\ pc' = pc
          /\ agent = "idle" /\ agent' = "open_trace"
      BY <2>1, <1>a DEF BeginCall, NextCall, files, threads
    <3>2. ~Draining(ch)'
      BY <3>1 DEF Draining, RingInv, QuietInv, Quiet
    <3>3. disk'[call'][ch] = <<>>
      BY <3>1, <1>2 DEF FileInv
    <3>. QED  BY <3>1, <3>2, <3>3 DEF OfBatch
  <2>2. CASE call' = call /\ UNCHANGED <<disk, tail>> /\ OfBatch(ch)' = OfBatch(ch)
    BY <2>0, <2>2, <1>2 DEF FileInv
  <2>3. CASE \E p \in Threads : OnInsn(p)
    BY <2>2, <2>3, BatchOnInsn
  <2>4. CASE AgentStep /\ ~BeginCall
    BY <2>2, <2>4, BatchAgentStep
  <2>5. ASSUME NEW d \in Chan, Write(d)
        PROVE  Len(disk'[call'][ch]) = tail'[ch] * RecUnits + OfBatch(ch)'
    <3>1. PICK n \in WriteSizes(d) :
            /\ disk' = [disk EXCEPT ![fd[d]][d] =
                          @ \o [k \in 1..n |-> BatchUnit(d, job.done + k - 1)]]
            /\ Advance(d, n)
      BY <2>5 DEF Write
    <3>2. /\ Draining(d) /\ job.t < job.h /\ fd[d] = call /\ call' = call /\ call \in Calls
          /\ \A e \in Chan : Draining(e)' <=> Draining(e)
      BY <2>5, <1>a DEF Write, FdInv, threads, Draining
    <3>3. n \in Nat /\ Batch(d) \in Nat /\ job.done \in Nat /\ job.t = tail[d]
          /\ [k \in 1..n |-> BatchUnit(d, job.done + k - 1)] \in Seq(Unit)
      BY <3>2, <1>a, WriteType, BatchBounds DEF RingInv, JobInv
    <3> DEFINE new == [k \in 1..n |-> BatchUnit(d, job.done + k - 1)]
    <3>4. Len(new) = n
      BY <3>3, LenProperties
    <3> HIDE DEF new
    <3>5. new \in Seq(Unit) /\ disk' = [disk EXCEPT ![call][d] = @ \o new]
      BY <3>1, <3>2, <3>3 DEF new
    <3>6. CASE d # ch
      <4>1. ~Draining(ch)
        BY <3>2, <3>6, OneDrain DEF RingInv
      <4>2. tail'[ch] = tail[ch]
        BY <3>1, <3>6, <1>a DEF Advance
      <4>3. disk'[call'][ch] = disk[call][ch]
        BY <3>2, <3>5, <3>6, <1>a
      <4>. QED  BY <4>1, <4>2, <4>3, <3>2, <2>0 DEF FileInv, OfBatch
    <3>7. CASE d = ch
      <4>1. Len(disk[call][ch]) = tail[ch] * RecUnits + job.done
        BY <3>2, <3>7, <2>0 DEF FileInv, OfBatch
      <4>2. disk'[call'][ch] = disk[call][ch] \o new
        BY <3>2, <3>5, <3>7, <1>a
      <4>3. Len(disk'[call'][ch]) = Len(disk[call][ch]) + n
        <5>1. disk[call][ch] \in Seq(Unit)
          BY <3>2, <1>a
        <5>2. new \in Seq(Unit)
          BY <3>5
        <5>3. Len(disk[call][ch] \o new) = Len(disk[call][ch]) + Len(new)
          BY <5>1, <5>2, ConcatProperties
        <5>. QED  BY <4>2, <3>4, <5>3
      <4>4. OfBatch(ch)' = job'.done
        BY <3>2, <3>7 DEF OfBatch
      <4>5. CASE job.done + n = Batch(ch) * RecUnits
        <5>1. tail'[ch] = tail[ch] + Batch(ch) /\ job'.done = 0
          <6>1. /\ tail' = [tail EXCEPT ![d] = job.t + Batch(d)]
                /\ job' = [job EXCEPT !.t = @ + Batch(d), !.done = 0]
            BY <4>5, <3>1, <3>7 DEF Advance
          <6>. QED  BY <6>1, <3>3, <3>7, <1>a
        <5>2. (tail[ch] + Batch(ch)) * RecUnits = tail[ch] * RecUnits + Batch(ch) * RecUnits
          BY <3>3, <3>7, <1>a
        <5>3. tail[ch] * RecUnits \in Nat
          BY <1>a
        <5>4. Len(disk'[call'][ch]) = tail[ch] * RecUnits + Batch(ch) * RecUnits
          BY <4>1, <4>3, <4>5, <5>3, <3>3
        <5>. QED  BY <5>1, <5>2, <5>4, <4>4, <5>3, <3>3, <3>7
      <4>6. CASE job.done + n # Batch(ch) * RecUnits
        <5>1. tail' = tail /\ job'.done = job.done + n
          BY <4>6, <3>1, <3>7, <1>a DEF Advance
        <5>2. tail[ch] * RecUnits \in Nat
          BY <1>a
        <5>. QED  BY <5>1, <5>2, <4>1, <4>3, <4>4, <3>3
      <4>. QED  BY <4>5, <4>6
    <3>. QED  BY <3>6, <3>7
  <2>6. ASSUME NEW d \in Chan, WriteError(d)
        PROVE  call' = call /\ UNCHANGED <<disk, tail>> /\ OfBatch(ch)' = OfBatch(ch)
    BY <2>6 DEF WriteError, OfBatch, Draining, ring, threads
  <2>7. CASE Terminated
    BY <2>2, <2>7 DEF Terminated, vars, ring, files, threads, OfBatch, Draining
  <2>. QED  BY <2>0, <2>1, <2>2, <2>3, <2>4, <2>5, <2>6, <2>7, NeverAstray
            DEF Next, WriteLoop
<1>. QED  BY <1>1, <1>2 DEF FileInv

-------------------------------------------------------------------------------
(* What is synced stays synced, what is sealed stays sealed *)

(* From the sync of a channel to the seal of its call, nothing is stored in  *)
(* that channel's ring and nothing is written to its file.                   *)
LEMMA SyncStays ==
  ASSUME RingInv, FdInv, SyncInv, Next, NEW ch \in Chan,
         agent \in SyncedPC[ch], agent' \in SyncedPC[ch]
  PROVE  tail'[ch] = head'[ch] /\ synced'[call'][ch] = Len(disk'[call'][ch])
<1> USE Channels, CallNumbers
<1>a. /\ disk \in [Calls -> [Chan -> Seq(Unit)]] /\ synced \in [Calls -> [Chan -> Nat]]
      /\ tail \in [Chan -> Nat] /\ head \in [Chan -> Nat] /\ fd \in [Chan -> Calls \cup {Closed, Stale}]
  BY DEF RingInv, TypeOK
<1>b. /\ agent \in {"lock_simd", "drain_simd", "close_trace", "close_simd", "seal"}
      /\ agent' \in {"lock_simd", "drain_simd", "close_trace", "close_simd", "seal"}
      /\ ch = "simd" => agent \in {"close_trace", "close_simd", "seal"}
      /\ tail[ch] = head[ch] /\ synced[call][ch] = Len(disk[call][ch])
  BY DEF SyncedPC, SyncInv
<1>c. ~active /\ (\A p \in Threads : pc[p] \in {"run", "locked"}) /\ ~Draining(ch)
  BY <1>b DEF RingInv, QuietInv, Quiet, Draining
<1>1. CASE UNCHANGED <<head, tail, disk, synced, call>>
  BY <1>1, <1>b
<1>2. ASSUME NEW p \in Threads, OnInsn(p) PROVE UNCHANGED <<head, tail, disk, synced, call>>
  BY <1>2, <1>c DEF OnInsn, Lock, Skip, Store, Publish, Drained, ring, files
<1>3. ASSUME NEW d \in Chan, WriteLoop(d)
      PROVE  tail'[ch] = head'[ch] /\ synced'[call'][ch] = Len(disk'[call'][ch])
  <2>1. d # ch /\ UNCHANGED <<head, call, synced>>
    BY <1>3, <1>c DEF WriteLoop, Write, WriteError, WriteAstray, ring
  <2>2. tail'[ch] = tail[ch]
    BY <1>3, <2>1, <1>a DEF WriteLoop, Write, WriteError, WriteAstray, Advance, ring
  <2>3. disk'[call][ch] = disk[call][ch]
    <3>1. call \in Calls
      BY <1>b DEF FdInv
    <3>2. CASE Write(d)
      <4>1. PICK s : disk' = [disk EXCEPT ![fd[d]][d] = s]
        BY <3>2 DEF Write
      <4>2. disk'[call] = disk[call] \/ disk'[call] = [disk[call] EXCEPT ![d] = s]
        BY <4>1, <3>1, <1>a
      <4>3. disk[call] \in [Chan -> Seq(Unit)]
        BY <3>1, <1>a
      <4>. QED  BY <4>2, <4>3, <2>1
    <3>3. CASE WriteError(d) \/ WriteAstray(d)
      BY <3>3 DEF WriteError, WriteAstray
    <3>. QED  BY <1>3, <3>2, <3>3 DEF WriteLoop
  <2>. QED  BY <2>1, <2>2, <2>3, <1>b
<1>4. ASSUME NEW d \in Chan, FlushSync(d) \/ CloseFd(d)
      PROVE  tail'[ch] = head'[ch] /\ synced'[call'][ch] = Len(disk'[call'][ch])
  <2>1. /\ UNCHANGED <<head, tail, call, disk>> /\ fd[d] \in Calls
        /\ synced' = [synced EXCEPT ![fd[d]][d] = Len(disk[fd[d]][d])]
    BY <1>4 DEF FlushSync, CloseFd, ring
  <2>2. fd[d] = call
    BY <2>1 DEF FdInv
  <2>. QED  BY <2>1, <2>2, <1>a, <1>b
<1>5. ASSUME NEW d \in Chan,
             OpenFile(d) \/ OpenError(d) \/ FlushLock(d) \/ SyncError(d) \/ CloseDone(d)
               \/ CloseError(d) \/ FailClosed(d)
      PROVE UNCHANGED <<head, tail, disk, synced, call>>
  BY <1>5 DEF OpenFile, OpenError, FlushLock, SyncError, CloseDone, CloseError, FailClosed,
              ring, files
<1>6. ASSUME NEW p \in Threads, Follow(p) \/ EndCall(p)
      PROVE UNCHANGED <<head, tail, disk, synced, call>>
  BY <1>6 DEF Follow, EndCall, ring, files
<1>7. CASE Seal \/ FailCapture \/ Terminated
  <2>1. UNCHANGED <<head, tail, disk, synced, call>>
    BY <1>7 DEF Seal, FailCapture, Terminated, vars, ring, files
  <2>. QED  BY <1>1, <2>1
<1>8. ~BeginCall
  BY <1>b DEF BeginCall
<1>. QED  BY <1>1, <1>2, <1>3, <1>4, <1>5, <1>6, <1>7, <1>8 DEF Next, AgentStep

(* A channel becomes synced by its flush.                                    *)
LEMMA SyncBegins ==
  ASSUME TypeOK, Next, NEW ch \in Chan, agent \notin SyncedPC[ch], agent' \in SyncedPC[ch]
  PROVE  FlushSync(ch)
<1> USE Channels DEF SyncedPC
<1>1. ASSUME NEW d \in Chan, OpenFile(d) \/ FlushLock(d) PROVE FALSE
  BY <1>1 DEF OpenFile, OpenPC, FlushLock
<1>2. ASSUME NEW d \in Chan, CloseDone(d) \/ CloseError(d) \/ FailClosed(d) PROVE FALSE
  BY <1>2 DEF CloseDone, CloseError, FailClosed, ClosePC, FailPC
<1>3. ASSUME NEW p \in Threads, OnInsn(p) \/ Follow(p) \/ EndCall(p) PROVE FALSE
  BY <1>3 DEF OnInsn, Lock, Skip, Store, Publish, Drained, Follow, EndCall
<1>4. ASSUME NEW d \in Chan, WriteLoop(d) \/ OpenError(d) \/ SyncError(d) \/ CloseFd(d)
      PROVE  FALSE
  BY <1>4 DEF WriteLoop, Write, WriteError, WriteAstray, OpenError, SyncError, CloseFd
<1>5. CASE BeginCall \/ Seal \/ FailCapture \/ Terminated
  BY <1>5 DEF BeginCall, Seal, FailCapture, Terminated, vars
<1>6. ASSUME NEW d \in Chan, FlushSync(d) PROVE d = ch
  BY <1>6 DEF FlushSync
<1>. QED  BY <1>1, <1>2, <1>3, <1>4, <1>5, <1>6 DEF Next, AgentStep

(* What was synced stays synced until more is written.                      *)
LEMMA SyncStep ==
  ASSUME RingInv, FdInv, SyncInv, Next
  PROVE  SyncInv'
<1> SUFFICES ASSUME NEW ch \in Chan, agent' \in SyncedPC[ch]
             PROVE  tail'[ch] = head'[ch] /\ synced'[call'][ch] = Len(disk'[call'][ch])
  BY DEF SyncInv, SyncedPC
<1>1. CASE agent \in SyncedPC[ch]
  BY <1>1, SyncStays
<1>2. CASE agent \notin SyncedPC[ch]
  <2>1. FlushSync(ch)
    BY <1>2, SyncBegins DEF RingInv
  <2>2. /\ UNCHANGED <<head, tail, call, disk>> /\ fd[ch] \in Calls
        /\ synced' = [synced EXCEPT ![fd[ch]][ch] = Len(disk[fd[ch]][ch])]
        /\ agent = DrainPC[ch] /\ job.t >= job.h
    BY <2>1 DEF FlushSync, ring
  <2>3. tail[ch] = head[ch]
    <3>1. job.t = tail[ch] /\ job.h = head[ch] /\ tail[ch] <= head[ch]
      BY <2>2 DEF RingInv, JobInv, CountInv, Draining
    <3>2. tail[ch] \in Nat /\ head[ch] \in Nat
      BY DEF RingInv, TypeOK
    <3>. QED  BY <2>2, <3>1, <3>2
  <2>4. fd[ch] = call
    BY <2>2, CallNumbers DEF FdInv
  <2>5. synced \in [Calls -> [Chan -> Nat]]
    BY DEF RingInv, TypeOK
  <2>. QED  BY <2>2, <2>3, <2>4, <2>5
<1>. QED  BY <1>1, <1>2

(* The manifest and the files of a sealed call do not change.                *)
LEMMA SealedUnchanged ==
  ASSUME RingInv, FdInv, SealInv, Next, NEW c \in Calls, sealed[c] # Unsealed
  PROVE  disk'[c] = disk[c] /\ synced'[c] = synced[c] /\ sealed'[c] = sealed[c]
<1>1. c # call \/ agent = "idle"
  BY DEF SealInv
<1>2. disk'[c] = disk[c] /\ synced'[c] = synced[c]
  BY <1>1, OtherFilesUnchanged
<1>3. sealed'[c] = sealed[c]
  <2>1. sealed \in [Calls -> [total : Nat, simd : Nat, firstPc : Insn \cup {Null}]
                            \cup {Unsealed}]
    BY DEF RingInv, TypeOK
  <2>2. CASE Seal
    <3>1. c # call
      BY <1>1, <2>2 DEF Seal
    <3>. QED  BY <2>1, <2>2, <3>1 DEF Seal
  <2>. QED  BY <2>2, ManifestsUnchanged
<1>. QED  BY <1>2, <1>3

(* What a sealed manifest publishes stays what the files hold.              *)
LEMMA SealStep ==
  ASSUME RingInv, FilesInv, Next
  PROVE  SealInv'
<1> USE Channels, CallNumbers DEF FilesInv
<1> SUFFICES ASSUME NEW c \in Calls, sealed'[c] # Unsealed
             PROVE  /\ c <= call' /\ (c = call' => agent' = "idle")
                    /\ Len(disk'[c]["trace"]) = sealed'[c].total * RecUnits
                    /\ Len(disk'[c]["simd"]) = sealed'[c].simd * RecUnits
                    /\ \A ch \in Chan : synced'[c][ch] = Len(disk'[c][ch])
  BY DEF SealInv
<1>a. call \in 0..MaxCalls
  BY DEF RingInv, TypeOK
<1>1. CASE sealed[c] # Unsealed
  <2>1. disk'[c] = disk[c] /\ synced'[c] = synced[c] /\ sealed'[c] = sealed[c]
    BY <1>1, SealedUnchanged
  <2>2. c <= call' /\ (c = call' => agent' = "idle")
    BY <1>1, <1>a, AgentPhases DEF SealInv, RingInv
  <2>. QED  BY <1>1, <2>1, <2>2 DEF SealInv
<1>2. CASE sealed[c] = Unsealed
  <2>1. Seal
    BY <1>2, ManifestsUnchanged
  <2>2. sealed \in [Calls -> [total : Nat, simd : Nat, firstPc : Insn \cup {Null}]
                            \cup {Unsealed}]
    BY DEF RingInv, TypeOK
  <2>3. c = call
    BY <1>2, <2>1, <2>2 DEF Seal
  <2>4. /\ sealed'[c].total = head["trace"] /\ sealed'[c].simd = head["simd"]
        /\ UNCHANGED <<disk, synced, call>> /\ agent = "seal" /\ agent' = "idle"
    BY <2>1, <2>2, <2>3 DEF Seal, files
  <2>5. \A ch \in Chan : tail[ch] = head[ch] /\ synced[c][ch] = Len(disk[c][ch])
    BY <2>3, <2>4 DEF SyncInv, SyncedPC
  <2>6. \A ch \in Chan : ~Draining(ch)
    BY <2>4 DEF RingInv, QuietInv, Quiet, Draining
  <2>7. \A ch \in Chan : Len(disk[c][ch]) = tail[ch] * RecUnits
    <3>1. ~Failing
      BY <2>4 DEF Failing
    <3>2. tail \in [Chan -> Nat]
      BY DEF RingInv, TypeOK
    <3>3. \A ch \in Chan : tail[ch] * RecUnits \in Nat
      BY <3>2
    <3>. QED  BY <2>3, <2>6, <3>1, <3>3 DEF FileInv, OfBatch
  <2>. QED  BY <2>3, <2>4, <2>5, <2>7, <1>a
<1>. QED  BY <1>1, <1>2

-------------------------------------------------------------------------------
(* RingInv and FilesInv together are inductive.                              *)
LEMMA FilesStutter ==
  ASSUME FilesInv, UNCHANGED vars
  PROVE  FilesInv'
BY DEF vars, ring, files, threads, FilesInv, FdInv, FileInv, SyncInv, SealInv, OfBatch,
       Draining, Failing

(* In every reachable state descriptors, files and manifests agree: the     *)
(* invariant from which the next two theorems follow (cmodule.ts,           *)
(* manifest.ts).                                                            *)
THEOREM WriterFilesInv == Spec => []FilesInv
<1>1. Init => FilesInv
  BY FilesInit
<1>2. RingInv /\ FilesInv /\ [Next]_vars => FilesInv'
  <2> SUFFICES ASSUME RingInv, FilesInv, [Next]_vars PROVE FilesInv'
    OBVIOUS
  <2>1. CASE Next
    BY <2>1, FdStep, FileStep, SyncStep, SealStep DEF FilesInv
  <2>2. CASE UNCHANGED vars
    BY <2>2, FilesStutter
  <2>. QED  BY <2>1, <2>2
<1>. QED  BY <1>1, <1>2, WriterRingInv, PTL DEF Spec

(* A call that is sealed has a manifest.                                    *)
LEMMA SealedState ==
  ASSUME NEW c \in Calls, CallState[c] = "sealed"
  PROVE  sealed[c] # Unsealed
BY DEF CallState

(* A sealed manifest tells the truth about its files: they hold exactly the  *)
(* published number of records, all of them synced (manifest.ts sealManifest *)
(* after flush_trace, flush_simd and close).                                 *)
THEOREM WriterSealedExact == Spec => []SealedExact
<1>1. FilesInv => SealedExact
  BY SealedState DEF FilesInv, SealInv, SealedExact
<1>. QED  BY <1>1, WriterFilesInv, PTL

(* Nothing changes the manifest or the files of a sealed call, whatever      *)
(* threads are still inside on_insn and whatever later calls do.             *)
THEOREM WriterSealedFrozen == Spec => SealedFrozen
<1>1. RingInv /\ FilesInv /\ [Next]_vars =>
        [\A c \in Calls : CallState[c] = "sealed" =>
           disk'[c] = disk[c] /\ sealed'[c] = sealed[c]]_vars
  BY SealedState, SealedUnchanged DEF FilesInv
<1>. QED  BY <1>1, WriterRingInv, WriterFilesInv, PTL DEF Spec, SealedFrozen
===============================================================================
