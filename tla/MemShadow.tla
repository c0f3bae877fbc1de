----------------------------- MODULE MemShadow -----------------------------
(* The byte oracle of a trace: tracemiku-core/src/memshadow.rs rebuilds,     *)
(* from the records of trace.bin and the files captured beside it, what     *)
(* every byte of memory held at every record; memshadow_ext.rs adds the     *)
(* copies and fills of library calls the tracer did not follow;             *)
(* memshadow_store.rs is the form the result is kept and reloaded in.       *)
(*                                                                          *)
(* The module runs a program on a real memory, logs it the way the tracer   *)
(* does, and then builds the shadow from the log alone, so that what the    *)
(* shadow says can be compared with what memory held.  Record idx (from 0,  *)
(* as in the code) is trace[idx + 1].  A register is abstracted away: a     *)
(* record carries the bytes its store's source or its load's destination    *)
(* register holds.                                                          *)
EXTENDS Integers, FiniteSets, SequencesExt

CONSTANTS Addr,           \* byte addresses, an interval of naturals
          Byte,           \* byte values
          Insns,          \* the memory operands an executed record may have
          Calls,          \* the calls to code that is not traced
          Snapshots,      \* which bytes the initial snapshot covers
          Windows,        \* worker anchor windows of meta.json; <<>> is no entry
          MaxThreads,     \* bound: threads of a parallel build
          MaxCopy,        \* MAX_SYNTH_COPY_LEN
          SynthBudget,    \* MAX_TOTAL_SYNTH_BYTES
          MaxRecords,     \* bound: records of the trace
          Shared,         \* bound: the bytes other threads and stray calls write
          MaxStray,       \* bound: writes by threads that are not traced
          MaxWorker,      \* bound: records of the worker's trace
          MaxCalls        \* bound: calls that are not traced

None == -1
NoCall == [len |-> 0]
NoShadow == [bytes |-> <<>>]

ASSUME MemoryAssumption ==
  /\ Addr \subseteq Nat /\ IsFiniteSet(Addr)
  /\ Byte \subseteq Nat
  /\ MaxThreads \in Nat \ {0}

VARIABLES memory,    \* what memory holds now
          trace,     \* trace.bin
          external,  \* external_writes.bin
          worker,    \* worker_trace_tid*.bin: its anchor window and its records
          snapshot,  \* memory_snapshot.bin
          shadow,    \* the shadow built, or NoShadow
          before,    \* ghost: memory when each record started
          after,     \* ghost: memory when each record had executed
          lost,      \* ghost: <<byte, idx>>: changes no file tells of
          silent     \* ghost: <<byte, idx>>: changes only a later read can tell

logVars == <<memory, trace, external, worker, snapshot, before, after, lost, silent>>
vars == <<logVars, shadow>>

-----------------------------------------------------------------------------
(* The log.                                                                 *)

Rec(idx) == trace[idx + 1]
Indices == 0..Len(trace) - 1
LastIdx == IF trace = <<>> THEN 0 ELSE Len(trace) - 1

(* Trace::post_record: the next record is the one execution continues at.   *)
Post(idx) == idx + 1 < Len(trace) /\ Rec(idx).next

(* bytes_of_write and bytes_of_read: an exclusive store counts when the     *)
(* next record shows that it succeeded, a load when the next record shows   *)
(* its destination register.                                                *)
Observed(acc) ==
  IF acc.write THEN acc.excl => Post(acc.idx) /\ acc.done ELSE Post(acc.idx)

AccessesOf(idx) ==
  [k \in DOMAIN Rec(idx).ops |-> [idx |-> idx, addr |-> Rec(idx).ops[k].addr,
     bytes |-> Rec(idx).ops[k].bytes, write |-> Rec(idx).ops[k].write,
     excl |-> Rec(idx).ops[k].excl, done |-> Rec(idx).ops[k].done, kind |->
     IF Rec(idx).ops[k].write THEN "w" ELSE "r"]]

Touches(acc, a) == a \in acc.addr .. acc.addr + Len(acc.bytes) - 1

(* splat_byte_slice, for one byte.                                          *)
EventsAt(accs, a) ==
  LET hits == SelectSeq(accs, LAMBDA acc : Touches(acc, a))
  IN [k \in DOMAIN hits |-> [idx |-> hits[k].idx, kind |-> hits[k].kind,
                             byte |-> hits[k].bytes[a - hits[k].addr + 1]]]

(* build_range: the records from lo up to hi.                               *)
BuildRange(lo, hi) ==
  LET accs == SelectSeq(FlattenSeq([k \in 1..hi - lo |-> AccessesOf(lo + k - 1)]), Observed)
  IN [writes |-> SelectSeq(accs, LAMBDA acc : acc.write),
      reads |-> SelectSeq(accs, LAMBDA acc : ~acc.write),
      bytes |-> [a \in Addr |-> EventsAt(accs, a)],
      copies |-> {}]

(* merge_partials: the parts in the order of their ranges.                  *)
MergePartials(parts) ==
  [writes |-> FlattenSeq([p \in DOMAIN parts |-> parts[p].writes]),
   reads |-> FlattenSeq([p \in DOMAIN parts |-> parts[p].reads]),
   bytes |-> [a \in Addr |-> FlattenSeq([p \in DOMAIN parts |-> parts[p].bytes[a]])],
   copies |-> {}]

(* Mutant of BuildChunks: the chunk size is rounded down.                   *)
BuildWholeChunks(threads) ==
  LET size == Len(trace) \div threads
  IN MergePartials([t \in 1..threads |-> BuildRange((t - 1) * size, t * size)])

BuildChunks(threads) ==
  LET n == Len(trace)
      size == (n + threads - 1) \div threads
      low(t) == IF t * size < n THEN t * size ELSE n
  IN IF threads = 1 THEN BuildRange(0, n)
     ELSE MergePartials([t \in 1..threads |-> BuildRange(low(t - 1), low(t))])

-----------------------------------------------------------------------------
(* What is merged into it.  The sorts are stable.                           *)

SortByIdx(s) == FlattenSeq([k \in 1..LastIdx + 1 |-> SelectSeq(s, LAMBDA e : e.idx = k - 1)])

SortByAddr(s) ==
  FlattenSeq([k \in 1..Cardinality(Addr) |-> SelectSeq(s, LAMBDA e : e.addr = SetToSortSeq(Addr, <)[k])])

SortedWrites(s) == SortByIdx(SortByAddr(s))

External(idx, a, bs) ==
  [idx |-> idx, addr |-> a, bytes |-> bs, write |-> TRUE, excl |-> FALSE, done |-> TRUE, kind |-> "x"]

(* Pushes events made elsewhere and brings the lists back to trace order.   *)
WithExternal(sh, accs) ==
  [sh EXCEPT !.writes = SortedWrites(@ \o accs),
             !.bytes = [a \in Addr |-> SortByIdx(@[a] \o EventsAt(accs, a))]]

(* worker_record_anchor_idx: a worker's records are spread evenly over the  *)
(* window meta.json gives, and put at the end of the trace without one.     *)
Clamped(idx) == IF idx < LastIdx THEN idx ELSE LastIdx
Anchor(k) ==
  IF worker.window = <<>> THEN LastIdx
  ELSE LET spawned == Clamped(worker.window[1])
           ended == IF Clamped(worker.window[2]) < spawned THEN spawned ELSE Clamped(worker.window[2])
           n == Len(worker.recs)
       IN IF n <= 1 THEN spawned ELSE spawned + (k * (ended - spawned)) \div (n - 1)

MergeWorkerTraces(sh) ==
  IF worker.recs = <<>> THEN sh
  ELSE WithExternal(sh, [k \in DOMAIN worker.recs |->
         External(Anchor(k - 1), worker.recs[k].addr, <<worker.recs[k].byte>>)])

(* merge_external_writes: what lies past the trace and what was already     *)
(* seen is left out.                                                        *)
MergeExternalWrites(sh) ==
  LET kept == SelectSeq(external, LAMBDA e : e.idx < Len(trace))
      once == SelectSeq([k \in DOMAIN kept |-> [e |-> kept[k], k |-> k]],
                        LAMBDA x : \A j \in 1..x.k - 1 : kept[j] # x.e)
  IN IF external = <<>> THEN sh
     ELSE WithExternal(sh, [k \in DOMAIN once |-> External(once[k].e.idx, once[k].e.addr, <<once[k].e.byte>>)])

-----------------------------------------------------------------------------
(* merge_uninstrumented_mem_calls.                                          *)

(* The events of a byte up to idx, and from there on.                       *)
UpTo(sh, a, idx) == SelectSeq(sh.bytes[a], LAMBDA e : e.idx <= idx)
Since(sh, a, idx) == SelectSeq(sh.bytes[a], LAMBDA e : e.idx > idx)
Before(sh, a, idx) == SelectSeq(sh.bytes[a], LAMBDA e : e.idx < idx)

(* known_byte_at_or_before *)
Known(sh, a, idx) ==
  IF UpTo(sh, a, idx) # <<>> THEN Last(UpTo(sh, a, idx)).byte ELSE snapshot[a]

(* first_post_call_read_before_write *)
ReadBack(sh, a, idx) ==
  LET rest == Since(sh, a, idx)
  IN IF rest # <<>> /\ Head(rest).kind = "r" THEN Head(rest).byte ELSE None

IsWrite(e) == e.kind \in {"w", "x"}

WrittenAt(sh, a, idx) == \E k \in DOMAIN sh.bytes[a] : sh.bytes[a][k].idx = idx /\ IsWrite(sh.bytes[a][k])

(* The bytes a copy or a fill would have put at dst, each with its offset:  *)
(* believed when a read after the call saw one of them, where something     *)
(* else was known before, and no read saw anything else.                    *)
Believed(sh, idx, dst, want) ==
  LET read == {k \in DOMAIN want : want[k] # None /\ ReadBack(sh, dst + k, idx) # None}
  IN /\ \A k \in read : ReadBack(sh, dst + k, idx) = want[k]
     /\ \E k \in read : Known(sh, dst + k, idx) # want[k]

Synthesize(sh, idx, dst, want) ==
  IF ~Believed(sh, idx, dst, want) THEN {}
  ELSE {k \in DOMAIN want : want[k] # None /\ ~WrittenAt(sh, dst + k, idx)}

(* insert_ordered_write_event: behind the events of its own record.         *)
Inserted(sh, idx, dst, want, offsets) ==
  [sh EXCEPT
    !.bytes = [a \in Addr |->
      IF a - dst \notin offsets THEN @[a]
      ELSE UpTo(sh, a, idx) \o <<[idx |-> idx, kind |-> "x", byte |-> want[a - dst]]>>
             \o Since(sh, a, idx)],
    !.writes = @ \o [k \in 1..Cardinality(offsets) |->
      LET o == SetToSortSeq(offsets, <)[k] IN External(idx, dst + o, <<want[o]>>)]]

(* is_uninstrumented_call_return_boundary and the argument checks: the next *)
(* record is the return, and the call gave back its first argument.         *)
LooksLikeCopy(idx) ==
  /\ Rec(idx).call # NoCall
  /\ Rec(idx).next /\ Rec(idx).call.back
  /\ Rec(idx).call.len \in 1..MaxCopy

SynthesizeCall(state, idx) ==
  LET c == Rec(idx).call
      sh == state.sh
      copied == [k \in 0..c.len - 1 |-> Known(sh, c.src + k, idx)]
      filled == [k \in 0..c.len - 1 |-> c.fill]
      copy == IF c.src # None THEN Synthesize(sh, idx, c.dst, copied) ELSE {}
      fill == IF c.fill # None THEN Synthesize(sh, idx, c.dst, filled) ELSE {}
  IN IF ~LooksLikeCopy(idx) \/ c.len > state.left THEN state
     ELSE IF copy # {}
     THEN [left |-> state.left - Cardinality(copy),
           sh |-> [Inserted(sh, idx, c.dst, copied, copy) EXCEPT
                     !.copies = @ \cup {[dst |-> c.dst + k, idx |-> idx, src |-> c.src + k] : k \in copy}]]
     ELSE [left |-> state.left - Cardinality(fill), sh |-> Inserted(sh, idx, c.dst, filled, fill)]

MergeUninstrumentedMemCalls(sh) ==
  LET done == FoldLeft(SynthesizeCall, [sh |-> sh, left |-> SynthBudget],
                       [k \in 1..Len(trace) - 1 |-> k - 1])
  IN [done.sh EXCEPT !.writes = IF done.left < SynthBudget THEN SortedWrites(@) ELSE @]

(* build_from_trace *)
BuildFromTrace(threads) ==
  MergeUninstrumentedMemCalls(MergeExternalWrites(MergeWorkerTraces(BuildChunks(threads))))

(* ByteEvents::finalize, from_mapped and the other two from_mapped: what a  *)
(* reload of the saved shadow accepts.                                      *)
IdxSorted(s) == \A j, k \in DOMAIN s : j < k => s[j].idx <= s[k].idx
Mappable(sh) ==
  /\ \A a \in Addr : IdxSorted(sh.bytes[a])
  /\ IdxSorted(sh.writes) /\ IdxSorted(sh.reads)
  /\ \A s \in {sh.writes, sh.reads} \cup {sh.bytes[a] : a \in Addr} :
       \A k \in DOMAIN s : s[k].idx < Len(trace)
  /\ \A c, d \in sh.copies : c.idx < Len(trace) /\ (c.dst = d.dst /\ c.idx = d.idx => c = d)

-----------------------------------------------------------------------------
(* Queries.                                                                 *)

Nothing == [byte |-> None, kind |-> "??", idx |-> None]

(* byte_at *)
ByteAt(sh, a, t) ==
  IF UpTo(sh, a, t) # <<>> THEN Last(UpTo(sh, a, t))
  ELSE IF snapshot[a] # None THEN [byte |-> snapshot[a], kind |-> "i", idx |-> 0]
  ELSE Nothing

(* latest_write_idx_strict_before *)
LatestWrite(sh, a, idx) ==
  LET ws == SelectSeq(Before(sh, a, idx), IsWrite) IN IF ws = <<>> THEN None ELSE Last(ws).idx

(* input_byte *)
InputByte(sh, a, idx, start) ==
  LET ws == SelectSeq(Before(sh, a, idx), LAMBDA e : IsWrite(e) /\ e.idx >= start)
  IN IF ws # <<>> THEN Last(ws)
     ELSE IF start = 0 /\ snapshot[a] # None THEN [byte |-> snapshot[a], kind |-> "i", idx |-> 0]
     ELSE Nothing

(* Mutant of UnloggedWriteGap: the reads before the last write count too.   *)
GapOverAllReads(sh, a, idx) ==
  LET evs == Before(sh, a, idx)
      w == SelectLastInSeq(evs, IsWrite)
      byte == IF w # 0 THEN evs[w].byte ELSE snapshot[a]
      reads == SelectSeq(evs, LAMBDA e : e.kind = "r" /\ e.byte # byte)
  IN IF reads = <<>> \/ byte = None THEN Nothing
     ELSE [byte |-> Head(reads).byte, kind |-> "gap", from |-> IF w # 0 THEN evs[w].idx ELSE 0,
           idx |-> Head(reads).idx]

(* unlogged_write_gap_before: the first read since the last write that saw  *)
(* something else than was written, or than the snapshot holds.             *)
UnloggedWriteGap(sh, a, idx) ==
  LET evs == Before(sh, a, idx)
      w == SelectLastInSeq(evs, IsWrite)
      byte == IF w # 0 THEN evs[w].byte ELSE snapshot[a]
      reads == SelectSeq(SubSeq(evs, w + 1, Len(evs)), LAMBDA e : e.kind = "r" /\ e.byte # byte)
  IN IF reads = <<>> THEN Nothing
     ELSE [byte |-> Head(reads).byte, kind |-> IF byte = None THEN "new" ELSE "gap",
           from |-> IF w # 0 THEN evs[w].idx ELSE 0, idx |-> Head(reads).idx]

-----------------------------------------------------------------------------
(* The program that is traced.                                              *)

Init ==
  /\ memory = [a \in Addr |-> 0]
  /\ trace = <<>> /\ external = <<>>
  /\ worker \in {[window |-> w, recs |-> <<>>] : w \in Windows}
  /\ snapshot \in {[a \in Addr |-> IF a \in covered THEN 0 ELSE None] : covered \in Snapshots}
  /\ shadow = NoShadow
  /\ before = <<>> /\ after = <<>> /\ lost = {} /\ silent = {}

Running == shadow = NoShadow /\ Len(trace) < MaxRecords

(* Memory after the stores of a record: a failed exclusive store stores     *)
(* nothing.                                                                 *)
Stored(m, op) ==
  [a \in Addr |-> IF op.write /\ op.done /\ Touches(op, a) THEN op.bytes[a - op.addr + 1] ELSE m[a]]

(* Where the next record may fail to be the expected one: nothing else      *)
(* depends on it but a load and an exclusive store.                         *)
MayBreak(insn) == \E k \in DOMAIN insn : insn[k].write => insn[k].excl

(* A record executes its operands; its load shows what memory holds.        *)
Execute(insn, next) ==
  LET Shown(op) == IF op.write THEN op
                   ELSE [op EXCEPT !.bytes = [k \in DOMAIN op.bytes |-> memory[op.addr + k - 1]]]
  IN /\ Running
     /\ trace' = Append(trace, [ops |-> [k \in DOMAIN insn |-> Shown(insn[k])],
                               call |-> NoCall, next |-> next])
     /\ memory' = FoldLeft(Stored, memory, insn)
     /\ before' = Append(before, memory) /\ after' = Append(after, memory')
     /\ UNCHANGED <<external, worker, snapshot, shadow, lost, silent>>

(* What the callee does to memory: what its arguments say, or something     *)
(* else that changes one byte.                                              *)
Copied(c) ==
  [a \in Addr |-> IF a \in c.dst .. c.dst + c.len - 1
                  THEN IF c.src # None THEN memory[c.src + a - c.dst] ELSE c.fill
                  ELSE memory[a]]

Changed(m) == {a \in Addr : m[a] # memory[a]}

(* A call to code that is not traced.  The boundary diff (boundary_diff.ts) *)
(* of a hooked function logs the changed bytes at the index the trace head  *)
(* had on entry, which is that of the record after the call.                *)
Call(c, m, logged) ==
  LET n == Len(trace)
      diff == SetToSortSeq(Changed(m), <)
  IN /\ Running
     /\ Cardinality({idx \in Indices : Rec(idx).call # NoCall}) < MaxCalls
     /\ trace' = Append(trace, [ops |-> <<>>, call |-> c, next |-> TRUE])
     /\ memory' = m
     /\ before' = Append(before, memory) /\ after' = Append(after, memory)
     /\ external' = external \o IF logged
          THEN [k \in DOMAIN diff |-> [idx |-> n + 1, addr |-> diff[k], byte |-> m[diff[k]]]] ELSE <<>>
     /\ silent' = silent \cup {<<a, n>> : a \in IF logged THEN {} ELSE Changed(m)}
     /\ lost' = lost \cup
          (IF m = Copied(c) THEN {}
           ELSE {<<a, n>> : a \in (c.dst .. c.dst + c.len - 1) \cup (IF logged THEN {} ELSE Changed(m))})
     /\ UNCHANGED <<worker, snapshot, shadow>>

(* A thread that is not traced stores a byte, after the last record or      *)
(* (at -1) before the first.                                                *)
UnseenWrite(a, b) ==
  /\ Running /\ Cardinality(lost) < MaxStray
  /\ memory[a] # b
  /\ memory' = [memory EXCEPT ![a] = b]
  /\ lost' = lost \cup {<<a, Len(trace) - 1>>}
  /\ UNCHANGED <<trace, external, worker, snapshot, shadow, before, after, silent>>

(* A followed worker stores a byte inside its window.  Its record cannot be *)
(* placed exactly, so the byte is uncertain throughout the window.          *)
WorkerWrite(a, b) ==
  LET span == IF worker.window = <<>> THEN -1 .. MaxRecords ELSE worker.window[1] .. worker.window[2]
  IN /\ Running /\ Len(worker.recs) < MaxWorker /\ memory[a] # b
     /\ lost = {} \/ worker.recs # <<>>     \* bound: one of the two kinds of thread
     /\ Len(trace) - 1 \in span
     /\ memory' = [memory EXCEPT ![a] = b]
     /\ worker' = [worker EXCEPT !.recs = Append(@, [addr |-> a, byte |-> b])]
     /\ lost' = lost \cup {<<a, idx>> : idx \in span}
     /\ UNCHANGED <<trace, external, snapshot, shadow, before, after, silent>>

(* The capture is over and the analysis reads it.                           *)
Build(threads) ==
  /\ shadow = NoShadow /\ trace # <<>>
  /\ shadow' = BuildFromTrace(threads)
  /\ UNCHANGED logVars

Next ==
  \/ \E insn \in Insns, next \in BOOLEAN : (next \/ MayBreak(insn)) /\ Execute(insn, next)
  \/ \E c \in Calls, logged \in BOOLEAN : Call(c, Copied(c), logged)
  \/ \E c \in Calls, logged \in BOOLEAN, a \in Shared, b \in Byte :
       b # memory[a] /\ Call(c, [memory EXCEPT ![a] = b], logged)
  \/ \E a \in Shared, b \in Byte : UnseenWrite(a, b) \/ WorkerWrite(a, b)
  \/ \E threads \in 1..MaxThreads : Build(threads)

Spec == Init /\ [][Next]_vars
=============================================================================
