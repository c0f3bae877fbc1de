---------------------------- MODULE MemoryQuery ----------------------------
(* The questions analysis/memory_query.rs answers from the memory shadow    *)
(* and from the store list of index.rs, and what the answers promise about  *)
(* the memory the traced program really had.                                *)
EXTENDS MemShadow

CONSTANTS Patterns,       \* byte sequences searched for
          Printable(_)    \* which byte values are printable ASCII

Least(S) == CHOOSE x \in S : \A y \in S : x <= y

-----------------------------------------------------------------------------
(* last_write_of_addr                                                       *)

(* Index::build_range: the stores as decoded, whether or not an exclusive   *)
(* store succeeded.                                                         *)
MemWrites ==
  SelectSeq(FlattenSeq([k \in 1..Len(trace) |-> AccessesOf(k - 1)]), LAMBDA acc : acc.write)

Overlaps(acc, a, size) == acc.addr < a + size /\ acc.addr + Len(acc.bytes) > a

(* The index route counts a record once however many of its operands touch  *)
(* the range, and keeps the first of them.                                  *)
OncePerRecord(ws) ==
  LET Add(s, w) == IF s # <<>> /\ Last(s).idx = w.idx THEN s ELSE Append(s, w)
  IN FoldLeft(Add, <<>>, ws)

(* source_reg_for_write_at: the store of the record that touches the byte,  *)
(* or else its first; what its source register held is its bytes.           *)
SourceAt(idx, a) ==
  LET stores == SelectSeq(AccessesOf(idx), LAMBDA acc : acc.write)
      touching == SelectSeq(stores, LAMBDA acc : Touches(acc, a))
  IN IF touching # <<>> THEN Head(touching).bytes ELSE Head(stores).bytes

(* mem_write_kind_at, and the source of a copied byte.                      *)
WriteKindAt(a, idx) ==
  LET ws == SelectSeq(shadow.bytes[a], LAMBDA e : e.idx = idx /\ IsWrite(e))
  IN IF ws = <<>> THEN "w" ELSE Head(ws).kind
CopySourceAt(a, idx) ==
  LET from == {c.src : c \in {d \in shadow.copies : d.dst = a /\ d.idx = idx}}
  IN IF from = {} THEN None ELSE CHOOSE src \in from : TRUE

NoWriter == [idx |-> None]
Counted(writer, ws, until) ==
  [writer |-> writer,
   writesBefore |-> Len(SelectSeq(ws, LAMBDA acc : acc.idx < until)),
   writesAfter |-> Len(SelectSeq(ws, LAMBDA acc : acc.idx >= until))]
LastBefore(ws, until) == Last(SelectSeq(ws, LAMBDA acc : acc.idx < until))
HasBefore(ws, until) == \E k \in DOMAIN ws : ws[k].idx < until

LastWriteByIndex(a, size, until) ==
  LET ws == OncePerRecord(SelectSeq(MemWrites, LAMBDA acc : Overlaps(acc, a, size)))
      w == LastBefore(ws, until)
  IN Counted(IF ~HasBefore(ws, until) THEN NoWriter
             ELSE [idx |-> w.idx, kind |-> "w", dst |-> w.addr, size |-> Len(w.bytes),
                   value |-> SourceAt(w.idx, a), copy |-> None],
             ws, until)

(* The byte asked for, or the first of the store where that starts later,   *)
(* tells the kind; only a store of the trace has a source register.         *)
LastWriteByShadow(a, size, until) ==
  LET ws == SelectSeq(shadow.writes, LAMBDA acc : Overlaps(acc, a, size))
      w == LastBefore(ws, until)
      at == IF a > w.addr THEN a ELSE w.addr
      kind == WriteKindAt(at, w.idx)
  IN Counted(IF ~HasBefore(ws, until) THEN NoWriter
             ELSE [idx |-> w.idx, kind |-> kind, dst |-> w.addr, size |-> Len(w.bytes),
                   value |-> IF kind = "x" THEN w.bytes ELSE SourceAt(w.idx, a),
                   copy |-> CopySourceAt(at, w.idx)],
             ws, until)

LastWriteOfAddr(a, size, until, withExternal) ==
  IF withExternal THEN LastWriteByShadow(a, size, until) ELSE LastWriteByIndex(a, size, until)

(* build_byte_history: for every byte of the range the last write, what was *)
(* last seen there, and the gap between the two; and the first gap of all.  *)
ByteHistory(a, size, until) ==
  [b \in Addr \cap (a .. a + size - 1) |->
     LET ws == SelectSeq(Before(shadow, b, until), IsWrite)
     IN [wrote |-> IF ws = <<>> THEN Nothing ELSE Last(ws),
         observed |-> ByteAt(shadow, b, IF until = 0 THEN 0 ELSE until - 1).byte,
         gap |-> UnloggedWriteGap(shadow, b, until)]]
PrimaryGap(history) ==
  LET gaps == {b \in DOMAIN history : history[b].gap # Nothing}
  IN IF gaps = {} THEN Nothing ELSE history[Least(gaps)].gap

NoBound == -1

(* matches_addr_filter                                                      *)
MatchesAddrFilter(acc, lo, hi) ==
  IF lo # NoBound /\ hi # NoBound THEN hi > lo /\ Overlaps(acc, lo, hi - lo)
  ELSE (lo # NoBound => acc.addr >= lo) /\ (hi # NoBound => acc.addr < hi)

(* mem_writes_in_range: the stores of the records from lo up to hi that     *)
(* pass the filter, whose low byte is b where b is asked for; at most max   *)
(* of them are shown.                                                       *)
MemWritesInRange(lo, hi, addrLo, addrHi, b, withExternal, max) ==
  LET all == IF withExternal \/ b # None THEN shadow.writes ELSE MemWrites
      hits == SelectSeq(all, LAMBDA acc : /\ lo <= acc.idx /\ acc.idx < hi
                                          /\ MatchesAddrFilter(acc, addrLo, addrHi)
                                          /\ b = None \/ acc.bytes[1] = b)
      shown == SubSeq(hits, 1, Least({Len(hits), max}))
  IN [matched |-> Len(hits), rows |-> shown, truncated |-> Len(shown) < Len(hits)]

(* mem_accesses: the operands of the records from lo up to hi that touch    *)
(* the range, known or not, merged with the external writes to its bytes;   *)
(* at one record reads come first, then stores, then external writes.       *)
AccessList(a, size, lo, hi) ==
  LET ops(idx) == SelectSeq(AccessesOf(idx), LAMBDA acc : Overlaps(acc, a, size))
      reads(idx) == SelectSeq(ops(idx), LAMBDA acc : ~acc.write)
      stores(idx) == SelectSeq(ops(idx), LAMBDA acc : acc.write)
      byCall(idx, b) == SelectSeq(shadow.bytes[b], LAMBDA e : e.idx = idx /\ e.kind = "x")
      byCalls(idx) == FlattenSeq([k \in 1..size |->
        IF a + k - 1 \notin Addr THEN <<>>
        ELSE [j \in DOMAIN byCall(idx, a + k - 1) |->
               External(idx, a + k - 1, <<byCall(idx, a + k - 1)[j].byte>>)]])
  IN FlattenSeq([k \in 1..hi - lo |->
       SortByAddr(reads(lo + k - 1)) \o SortByAddr(stores(lo + k - 1)) \o byCalls(lo + k - 1)])

(* The byte of an access as its row shows it: the event its own record left.*)
ShownByte(acc, a) ==
  LET own == SelectSeq(shadow.bytes[a], LAMBDA e : e.idx = acc.idx /\ e.kind = acc.kind)
  IN IF acc.kind = "x" THEN acc.bytes[1] ELSE IF own = <<>> THEN None ELSE Last(own).byte

(* A page of at most limit rows from a cursor, and the cursor of the next.  *)
AccessPage(list, cursor, limit) ==
  [rows |-> SubSeq(list, cursor + 1, Least({Len(list), cursor + limit})),
   next |-> IF Len(list) > cursor + limit THEN cursor + limit ELSE None]

-----------------------------------------------------------------------------
(* idxs_touching_range: the records nearest the cursor on either side.      *)

TouchingRange(a, size, write) ==
  {e.idx : e \in UNION {{shadow.bytes[b][k] : k \in {j \in DOMAIN shadow.bytes[b] : IsWrite(shadow.bytes[b][j]) = write}} :
                        b \in Addr \cap (a .. a + size - 1)}}

Around(s, cut, limit) ==
  [before |-> Reverse(SubSeq(s, (IF cut > limit THEN cut - limit ELSE 0) + 1, cut)),
   after |-> SubSeq(s, cut + 1, Least({Len(s), cut + limit}))]
SplitAroundCursor(idxs, cursor, limit) ==
  Around(SetToSortSeq(idxs, <), Cardinality({i \in idxs : i < cursor}), limit)

(* idxs_touching_addr: the events of a byte on either side of the cursor.   *)
TouchingAddr(a, cursor, limit) ==
  LET cut == Len(Before(shadow, a, cursor))
  IN Around(shadow.bytes[a], cut, limit) @@
     [totalBefore |-> cut, totalAfter |-> Len(shadow.bytes[a]) - cut]

(* string_provenance: the records that wrote a byte, or read it; those the  *)
(* index has, where the shadow has none at all.                             *)
IdxsByByte(a, write) ==
  LET es == SelectSeq(shadow.bytes[a], LAMBDA e : IsWrite(e) = write)
  IN [k \in DOMAIN es |-> es[k].idx]
FilledIdxs(a, write) ==
  LET all == FlattenSeq([k \in 1..Len(trace) |-> AccessesOf(k - 1)])
      mine == SelectSeq(all, LAMBDA acc : acc.write = write /\ Touches(acc, a))
  IN IF IdxsByByte(a, write) # <<>> THEN IdxsByByte(a, write)
     ELSE [k \in DOMAIN mine |-> mine[k].idx]

-----------------------------------------------------------------------------
(* find_mem_pattern                                                         *)

Forever == MaxRecords + 1        \* usize::MAX

(* byte_validity_intervals: from when to when a byte holds the wanted value.*)
ValidityIntervals(a, want) ==
  LET Step(st, e) ==
        IF e.byte = want THEN IF st.from = None THEN [st EXCEPT !.from = e.idx] ELSE st
        ELSE [from |-> None,
              done |-> IF st.from # None /\ st.from < e.idx THEN Append(st.done, <<st.from, e.idx>>) ELSE st.done]
      start == [from |-> IF snapshot[a] = want THEN 0 ELSE None, done |-> <<>>]
      st == FoldLeft(Step, start, shadow.bytes[a])
  IN IF st.from = None THEN st.done ELSE Append(st.done, <<st.from, Forever>>)

(* Mutant of IntersectIntervals: the first list is always advanced.         *)
IntersectFirst(p, q) ==
  LET Step(st, turn) ==
        IF st.i > Len(p) \/ st.j > Len(q) THEN st
        ELSE LET from == IF p[st.i][1] > q[st.j][1] THEN p[st.i][1] ELSE q[st.j][1]
                 to == Least({p[st.i][2], q[st.j][2]})
             IN [st EXCEPT !.i = @ + 1, !.out = IF from < to THEN Append(@, <<from, to>>) ELSE @]
  IN FoldLeft(Step, [i |-> 1, j |-> 1, out |-> <<>>], [k \in 1..Len(p) + Len(q) |-> k]).out

(* intersect_intervals: two cursors, the one whose interval ends first is   *)
(* advanced.                                                                *)
IntersectIntervals(p, q) ==
  LET Step(st, turn) ==
        IF st.i > Len(p) \/ st.j > Len(q) THEN st
        ELSE LET from == IF p[st.i][1] > q[st.j][1] THEN p[st.i][1] ELSE q[st.j][1]
                 to == Least({p[st.i][2], q[st.j][2]})
             IN [i |-> IF p[st.i][2] < q[st.j][2] THEN st.i + 1 ELSE st.i,
                 j |-> IF p[st.i][2] < q[st.j][2] THEN st.j ELSE st.j + 1,
                 out |-> IF from < to THEN Append(st.out, <<from, to>>) ELSE st.out]
  IN FoldLeft(Step, [i |-> 1, j |-> 1, out |-> <<>>], [k \in 1..Len(p) + Len(q) |-> k]).out

(* The times during which the whole pattern stands at an address.           *)
PatternWindows(a, pat) ==
  LET Meet(w, k) == IF w = <<>> THEN w ELSE IntersectIntervals(w, ValidityIntervals(a + k - 1, pat[k]))
  IN FoldLeft(Meet, ValidityIntervals(a, pat[1]), [k \in 1..Len(pat) - 1 |-> k + 1])

StandsAt(a, pat, t) == \A k \in DOMAIN pat : ByteAt(shadow, a + k - 1, t).byte = pat[k]

(* The earliest of the events that hold the pattern's bytes then; at the    *)
(* end of the trace, where the pattern stands there (end_first_idx).        *)
FirstIdx(a, pat, t) == Least({ByteAt(shadow, a + k - 1, t).idx : k \in DOMAIN pat})
EndFirstIdx(a, pat) == IF StandsAt(a, pat, Forever) THEN FirstIdx(a, pat, Forever) ELSE None

NoHit == [first |-> None, over |-> None]

(* The first window that passes, if any; one that lasts to the end of the   *)
(* trace is told by its end.                                                *)
HitOf(ok, end) ==
  IF ok = <<>> THEN NoHit
  ELSE [first |-> IF end # None /\ ok[1][2] = Forever THEN end ELSE ok[1][1],
        over |-> IF ok[1][2] = Forever THEN None ELSE ok[1][2]]

(* One address of find_mem_pattern_response without a fixed time; lo and hi *)
(* are idx_lo and idx_hi, or NoBound.                                       *)
HitAmong(windows, end, lo, hi) ==
  LET Candidate(w) == IF end # None THEN end ELSE w[1]
      Passes(w) == /\ lo = NoBound \/ Candidate(w) >= lo \/ w[1] >= lo
                   /\ hi = NoBound \/ Candidate(w) < hi \/ w[1] < hi
  IN HitOf(SelectSeq(windows, Passes), end)
PatternHit(a, pat, lo, hi) == HitAmong(PatternWindows(a, pat), EndFirstIdx(a, pat), lo, hi)

(* overwritten_after, for a search at a fixed time.                         *)
LeastOrNone(S) == IF S = {} THEN None ELSE Least(S)
OverwrittenAfter(a, pat, t) ==
  LeastOrNone(UNION {{e.idx : e \in {x \in ToSet(Since(shadow, a + k - 1, t)) : x.byte # pat[k]}}
                     : k \in DOMAIN pat})

(* One address at a fixed time.                                             *)
PatternHitAt(a, pat, t, lo, hi) ==
  LET first == FirstIdx(a, pat, t)
  IN IF StandsAt(a, pat, t) /\ (lo # NoBound => first >= lo) /\ (hi # NoBound => first < hi)
     THEN [first |-> first, over |-> OverwrittenAfter(a, pat, t)] ELSE NoHit

(* find_mem_pattern: every address that has events, since = NoBound over    *)
(* all time; at most max hits are shown.                                    *)
Searched(pat) == {a \in Addr : a + Len(pat) - 1 \in Addr /\ shadow.bytes[a] # <<>>}
HitList(hit, at, max) ==
  LET shown == SubSeq(at, 1, Least({Len(at), max}))
  IN [count |-> Len(at), truncated |-> Len(shown) < Len(at),
      hits |-> [k \in DOMAIN shown |-> [addr |-> shown[k], hit |-> hit[shown[k]]]]]
HitsOf(hit, max) == HitList(hit, SetToSortSeq({a \in DOMAIN hit : hit[a] # NoHit}, <), max)
FindMemPattern(pat, since, lo, hi, max) ==
  HitsOf([a \in Searched(pat) |-> IF since = NoBound THEN PatternHit(a, pat, lo, hi)
                                  ELSE PatternHitAt(a, pat, since, lo, hi)], max)

-----------------------------------------------------------------------------
(* mem_dump, mem_provenance and the strings.                                *)

(* mem_dump with compare_at: a change is known only between known bytes.    *)
Change(a, at, other) ==
  LET b == ByteAt(shadow, a, at).byte
      c == ByteAt(shadow, a, other).byte
  IN IF b = None \/ c = None THEN "unknown" ELSE IF b = c THEN "unchanged" ELSE "changed"

(* mem_provenance: neighbouring bytes with one last writer form a run.      *)
WriterRuns(a, count, at) ==
  LET Extend(runs, k) ==
        LET w == LatestWrite(shadow, a + k, at + 1)
        IN IF runs # <<>> /\ Last(runs).writer = w
           THEN [runs EXCEPT ![Len(runs)].count = @ + 1]
           ELSE Append(runs, [offset |-> k, count |-> 1, writer |-> w])
  IN FoldLeft(Extend, <<>>, [k \in 1..count |-> k - 1])

(* collect_strings: the runs of printable bytes, each byte the last the     *)
(* trace tells of; a run is flushed at a gap, at an unprintable byte and at *)
(* the end.  With a cursor (not -1) every byte must have been known by then.*)
LastByte(a) == Last(shadow.bytes[a]).byte
HasEvents(a) == shadow.bytes[a] # <<>>

Strings(minLen, cursor) ==
  LET Flush(st) ==
        [run |-> <<>>,
         out |-> IF /\ st.run # <<>> /\ Len(st.run) >= minLen
                    /\ cursor >= 0 => \A k \in DOMAIN st.run : ByteAt(shadow, st.run[k], cursor).byte # None
                 THEN st.out \cup {st.run} ELSE st.out]
      Step(st, a) ==
        LET cut == IF st.run # <<>> /\ a # Last(st.run) + 1 THEN Flush(st) ELSE st
        IN IF Printable(LastByte(a)) THEN [cut EXCEPT !.run = Append(@, a)] ELSE Flush(cut)
  IN Flush(FoldLeft(Step, [run |-> <<>>, out |-> {}],
                    SetToSortSeq({a \in Addr : HasEvents(a)}, <))).out

(* MemShadow::find_strings: the same scan without a cursor.                 *)
FindStrings(minLen) ==
  LET Flush(st) == [run |-> <<>>, out |-> IF st.run # <<>> /\ Len(st.run) >= minLen
                                          THEN st.out \cup {st.run} ELSE st.out]
      Step(st, a) ==
        LET cut == IF a > 0 /\ ~HasEvents(a - 1) THEN Flush(st) ELSE st
        IN IF Printable(LastByte(a)) THEN [cut EXCEPT !.run = Append(@, a)] ELSE Flush(cut)
  IN Flush(FoldLeft(Step, [run |-> <<>>, out |-> {}], SetToSortSeq({a \in Addr : HasEvents(a)}, <))).out

-----------------------------------------------------------------------------
(* The form the byte events are kept in (ByteEvents): all of them in one    *)
(* list, and for every address, in order, where its own begin and end.      *)
Finalize(bytes) ==
  LET Put(st, a) ==
        LET list == SortByIdx(bytes[a])
        IN [addresses |-> Append(st.addresses, [addr |-> a, start |-> Len(st.events), len |-> Len(list)]),
            events |-> st.events \o list]
  IN FoldLeft(Put, [addresses |-> <<>>, events |-> <<>>],
              SetToSortSeq({a \in Addr : bytes[a] # <<>>}, <))
EventsOf(kept, entry) == SubSeq(kept.events, entry.start + 1, entry.start + entry.len)
Get(kept, a) ==
  LET found == SelectSeq(kept.addresses, LAMBDA entry : entry.addr = a)
  IN IF found = <<>> THEN <<>> ELSE EventsOf(kept, Head(found))
(* range: the entries from one partition point to another.                  *)
InRange(kept, lo, hi) ==
  LET Below(a) == Len(SelectSeq(kept.addresses, LAMBDA entry : entry.addr < a))
  IN [k \in 1 .. Below(hi) - Below(lo) |->
        [addr |-> kept.addresses[Below(lo) + k].addr,
         events |-> EventsOf(kept, kept.addresses[Below(lo) + k])]]
(* from_mapped: what a reload refuses.                                      *)
Reloads(kept) ==
  LET entries == kept.addresses
  IN /\ \A k \in DOMAIN entries :
          /\ k > 1 => entries[k - 1].addr < entries[k].addr
          /\ entries[k].len > 0
          /\ entries[k].start = IF k = 1 THEN 0 ELSE entries[k - 1].start + entries[k - 1].len
          /\ IdxSorted(EventsOf(kept, entries[k]))
     /\ Len(kept.events) = IF entries = <<>> THEN 0 ELSE Last(entries).start + Last(entries).len
     /\ \A k \in DOMAIN kept.events : kept.events[k].idx < Len(trace)

-----------------------------------------------------------------------------
(* What the answers promise.                                                *)

Built == shadow # NoShadow

(* The record after which an event's byte was there: none for the           *)
(* snapshot's, the call for what a boundary diff logs at the record after it.*)
Logged(a, e) == \E k \in DOMAIN external : external[k] = [idx |-> e.idx, addr |-> a, byte |-> e.byte]
From(a, e) ==
  IF e.kind = "i" THEN -1 ELSE IF e.kind = "x" /\ Logged(a, e) THEN e.idx - 1 ELSE e.idx

(* An exclusive store whose success the next record does not show.          *)
Missed(a, idx) ==
  \E k \in DOMAIN Rec(idx).ops : LET op == Rec(idx).ops[k]
                                 IN op.write /\ op.excl /\ op.done /\ ~Post(idx) /\ Touches(op, a)

(* No file tells of a change to the byte between the two records.           *)
Unlogged(a, lo, hi) ==
  \/ \E j \in lo .. hi : <<a, j>> \in lost
  \/ \E j \in lo + 1 .. hi : <<a, j>> \in silent
  \/ \E j \in (lo + 1 .. hi) \cap Indices : Missed(a, j)

(* The boundary diff puts a call's writes at the record after the call:     *)
(* where that record stores to the byte too, the two change places, and     *)
(* where it reads the byte, the read comes first.                           *)
ByTheCall(a, idx) ==
  \E k \in DOMAIN shadow.bytes[a] : shadow.bytes[a][k].idx = idx /\ shadow.bytes[a][k].kind = "x"
Displaced(a, idx) ==
  /\ idx \in Indices
  /\ \E k \in DOMAIN Rec(idx).ops : Rec(idx).ops[k].write /\ Touches(Rec(idx).ops[k], a)
  /\ ByTheCall(a, idx)

(* What the byte held once record idx had executed, until the next started. *)
HeldAfter(a, idx) == {after[idx + 1][a], IF idx + 2 > Len(trace) THEN memory[a] ELSE before[idx + 2][a]}

(* byte_at never invents a byte: the value it gives is one the byte held    *)
(* then, unless the byte has been changed, since the event it is taken      *)
(* from, by something no captured file tells of.  Holds through failed      *)
(* exclusive stores, breaks of continuity, copies and fills inferred from   *)
(* their arguments, worker records and boundary diffs.                      *)
ByteTrue ==
  Built => \A a \in Addr, t \in Indices :
    LET e == ByteAt(shadow, a, t)
    IN \/ e.kind = "??" \/ e.byte \in HeldAfter(a, t)
       \/ Unlogged(a, From(a, e), t) \/ Displaced(a, e.idx)

(* input_byte, which replay feeds instructions from, gives what the byte    *)
(* held when the record started, under the same condition; a call's writes  *)
(* are known from the record after the one that follows it.                 *)
InputTrue ==
  Built => \A a \in Addr, t \in Indices :
    LET e == InputByte(shadow, a, t, 0)
    IN \/ e.kind = "??" \/ e.byte = before[t + 1][a]
       \/ Unlogged(a, From(a, e), t - 1) \/ Displaced(a, e.idx) \/ ByTheCall(a, t)

(* A reported gap is one: between the write it names and the read it names  *)
(* the byte was changed by something no file tells of.                      *)
GapTrue ==
  Built => \A a \in Addr, t \in 0..Len(trace) :
    LET g == UnloggedWriteGap(shadow, a, t)
    IN g.kind = "gap" => \/ Unlogged(a, g.from - 1, g.idx)
                         \/ Displaced(a, g.from) \/ ByTheCall(a, g.idx)

(* What the shadow says of a byte, of what a load found there and of a gap  *)
(* in the capture, is so in the memory the program really had, but for what *)
(* no file tells of (memshadow.rs byte_at, input_byte, unlogged_write_gap). *)
MemoryTrue == ByteTrue /\ InputTrue /\ GapTrue

(* The shadow does not depend on how many threads built it, and what is     *)
(* saved of it is accepted, and gives the same, when it is loaded again.    *)
BuiltOnce ==
  Built => /\ shadow = BuildFromTrace(1) /\ Mappable(shadow)
           /\ LET kept == Finalize(shadow.bytes)
              IN /\ Reloads(kept)
                 /\ \A a \in Addr : Get(kept, a) = shadow.bytes[a]
                 /\ \A lo, hi \in Addr : lo <= hi =>
                      LET rows == InRange(kept, lo, hi)
                          seen == {b \in Addr : lo <= b /\ b < hi /\ shadow.bytes[b] # <<>>}
                      IN /\ Len(rows) = Cardinality(seen)
                         /\ \A k \in DOMAIN rows : /\ rows[k].addr \in seen
                                                    /\ rows[k].events = shadow.bytes[rows[k].addr]

(* The index, which knows no external writes and counts failed exclusive    *)
(* stores, names the same last writer where there are none, and as many.    *)
OnlyPlainStores ==
  /\ \A a \in Addr : \A k \in DOMAIN shadow.bytes[a] : shadow.bytes[a][k].kind # "x"
  /\ \A idx \in Indices : \A k \in DOMAIN Rec(idx).ops : ~Rec(idx).ops[k].excl
WritersAgree ==
  Built /\ OnlyPlainStores => \A a \in Addr, t \in 0..Len(trace), size \in 1..2 :
    LET r == LastWriteOfAddr(a, size, t, FALSE)
        s == TouchingRange(a, size, TRUE)
    IN /\ r.writer.idx = LastWriteOfAddr(a, size, t, TRUE).writer.idx
       /\ r.writesBefore = Cardinality({i \in s : i < t})
       /\ r.writesBefore + r.writesAfter = Cardinality(s)

(* The store list and the events of the bytes, built and sorted apart, give *)
(* the same last writer, its kind and its byte, and no copied byte was      *)
(* stored by the trace; what was last seen is what was last written, or a   *)
(* gap is told.                                                             *)
WriterTrue ==
  Built => \A a \in Addr, t \in 1..Len(trace) :
    LET w == LastWriteOfAddr(a, 1, t, TRUE).writer
        h == ByteHistory(a, 2, t)
    IN /\ w.idx = h[a].wrote.idx /\ w.idx = LatestWrite(shadow, a, t)
       /\ w # NoWriter => \/ Displaced(a, w.idx)
                          \/ /\ [idx |-> w.idx, kind |-> w.kind, byte |-> w.value[a - w.dst + 1]] = h[a].wrote
                             /\ w.copy # None => w.kind = "x"
       /\ \A b \in DOMAIN h :
            \/ h[b].wrote = Nothing \/ h[b].observed = h[b].wrote.byte
            \/ h[b].gap # Nothing /\ PrimaryGap(h) # Nothing

(* A writer that only the index has is an exclusive store that was not seen *)
(* to succeed, a reader that only it has a load nothing shows the value of. *)
ProvenanceTrue ==
  Built => \A a \in Addr, write \in BOOLEAN :
    LET own == IdxsByByte(a, write)
        idxs == ToSet(FilledIdxs(a, write))
    IN IF own # <<>> THEN ToSet(own) = idxs /\ (write => Last(own) = LatestWrite(shadow, a, Forever))
       ELSE \A idx \in idxs : \E k \in DOMAIN AccessesOf(idx) :
              LET acc == AccessesOf(idx)[k] IN Touches(acc, a) /\ acc.write = write /\ ~Observed(acc)

(* The neighbours of a cursor are the nearest records on either side, none  *)
(* left out and none on the wrong side; what lists the stores of a range    *)
(* ends with the last writer the other route names; and the runs of writers *)
(* cover the range, each as long as it can be.                              *)
NeighboursNearest ==
  Built => \A a \in Addr, write \in BOOLEAN, t \in 0..Len(trace), limit \in 1..2 :
    LET idxs == TouchingRange(a, 2, write)
        s == SplitAroundCursor(idxs, t, limit)
        near == ToSet(s.before) \cup ToSet(s.after)
        Side(i) == i < t
    IN /\ near \subseteq idxs
       /\ \A i \in ToSet(s.before) : Side(i)
       /\ \A i \in ToSet(s.after) : ~Side(i)
       /\ \A i \in idxs \ near : Cardinality({j \in near : Side(j) = Side(i) /\
                                              (IF Side(i) THEN j > i ELSE j < i)}) = limit
EventsNearest ==
  Built => \A a \in Addr, t \in 0..Len(trace), limit \in 0..1 :
    LET all == TouchingAddr(a, t, Len(shadow.bytes[a]))
        near == TouchingAddr(a, t, limit)
        ws == SelectSeq(all.before, IsWrite)
    IN /\ Len(all.before) = all.totalBefore /\ Len(all.after) = all.totalAfter
       /\ IsPrefix(near.before, all.before) /\ IsPrefix(near.after, all.after)
       /\ LatestWrite(shadow, a, t) = IF ws = <<>> THEN None ELSE Head(ws).idx

RowsEndAtWriter ==
  Built => \A a \in Addr, ext \in BOOLEAN :
    LET n == Len(trace)
        Matched(lo, hi) == MemWritesInRange(0, n, lo, hi, None, ext, 0).matched
    IN /\ Matched(NoBound, a) + Matched(a, NoBound) = Matched(NoBound, NoBound)
       /\ \A t \in 0..n :
            LET r == MemWritesInRange(0, t, a, a + 1, None, ext, MaxRecords * Cardinality(Addr))
                rest == MemWritesInRange(t, n, a, a + 1, None, ext, 1)
                w == LastWriteOfAddr(a, 1, t, ext)
            IN /\ w.writer.idx = IF r.rows = <<>> THEN None ELSE Last(r.rows).idx
               /\ ext => r.matched = w.writesBefore /\ rest.matched = w.writesAfter
               /\ rest.truncated = (rest.matched > 1)

RunsWhole ==
  Built => \A t \in Indices :
    LET n == Cardinality(Addr)
        runs == WriterRuns(0, n, t)
    IN /\ \A k \in DOMAIN runs : \A o \in runs[k].offset .. runs[k].offset + runs[k].count - 1 :
            runs[k].writer = LatestWrite(shadow, o, t + 1)
       /\ \A k \in DOMAIN runs : k < Len(runs) =>
            /\ runs[k + 1].offset = runs[k].offset + runs[k].count
            /\ runs[k + 1].writer # runs[k].writer
       /\ runs[1].offset = 0 /\ Last(runs).offset + Last(runs).count = n

(* A byte is said to have changed only where some event lies in between.    *)
ChangesTold ==
  Built => \A a \in Addr, t, u \in Indices :
    /\ Change(a, t, u) = Change(a, u, t)
    /\ t < u /\ Change(a, t, u) = "changed" =>
         \E k \in DOMAIN shadow.bytes[a] : shadow.bytes[a][k].idx \in t + 1 .. u

RoutesAgree ==
  /\ WritersAgree /\ WriterTrue /\ ProvenanceTrue /\ NeighboursNearest /\ EventsNearest
  /\ RowsEndAtWriter /\ RunsWhole /\ ChangesTold

(* An access list shows a load's bytes as memory held them and a store's as *)
(* it stored them, and leaves unknown only what the next record cannot      *)
(* show; paging through it meets every access once.                         *)
AccessesTrue ==
  Built => \A a \in Addr, size \in 1..2 :
    LET list == AccessList(a, size, 0, Len(trace))
        Page(c) == AccessPage(list, c, 2)
        Shown(acc) == \A b \in Addr : Touches(acc, b) =>
          LET v == ShownByte(acc, b)
          IN acc.kind = "x" \/
             IF ~Observed(acc) THEN v = None
             ELSE v = (IF acc.write THEN after[acc.idx + 1][b] ELSE before[acc.idx + 1][b])
    IN /\ \A k \in DOMAIN list : Shown(list[k])
       /\ IdxSorted(list)
       /\ FlattenSeq([k \in 1..Len(list) |-> Page(2 * (k - 1)).rows]) = list
       /\ \A k \in 0..Len(list) : (Page(2 * k).next = None) = (2 * k + 2 >= Len(list))

(* The strings are the longest runs of printable bytes of at least the      *)
(* length asked for.                                                        *)
Runs(good(_)) ==
  {SetToSortSeq(a1 .. a2, <) : <<a1, a2>> \in {p \in Addr \X Addr :
     /\ p[1] <= p[2]
     /\ \A a \in p[1] .. p[2] : good(a)
     /\ ~(p[1] - 1 \in Addr /\ good(p[1] - 1)) /\ ~(p[2] + 1 \in Addr /\ good(p[2] + 1))}}
StringsWhole ==
  Built => \A minLen \in 1..2 :
    /\ Strings(minLen, -1) = {r \in Runs(LAMBDA a : HasEvents(a) /\ Printable(LastByte(a))) : Len(r) >= minLen}
    /\ FindStrings(minLen) = Strings(minLen, -1)

(* A search over all time finds a pattern exactly where it stands at some   *)
(* record, and says truly when it is overwritten: it stands until then, and *)
(* an event changes it then.                                                *)
ChangedAt(a, pat, idx) ==
  \E k \in DOMAIN pat : \E j \in DOMAIN shadow.bytes[a + k - 1] :
    LET e == shadow.bytes[a + k - 1][j] IN e.idx = idx /\ e.byte # pat[k]
Found(pat, since) == ToSet(FindMemPattern(pat, since, NoBound, NoBound, Cardinality(Addr)).hits)
OverwriteTrue(a, pat, times, t, over) ==
  /\ t .. (IF over = None THEN Forever ELSE over - 1) \subseteq times
  /\ over # None => ChangedAt(a, pat, over)
HitTrue(a, pat, hit, times) ==
  /\ IF hit.over = None THEN Forever \in times
     ELSE hit.first = Least(times) /\ OverwriteTrue(a, pat, times, hit.first, hit.over)
  /\ \A t \in times : OverwriteTrue(a, pat, times, t, OverwrittenAfter(a, pat, t))
HitsTrue(pat, over, stands) ==
  /\ {h.addr : h \in over} = UNION {stands[t] : t \in 0..Forever}
  /\ \A h \in over : HitTrue(h.addr, pat, h.hit, {t \in 0..Forever : h.addr \in stands[t]})
PatternExact ==
  Built => \A pat \in Patterns :
    HitsTrue(pat, Found(pat, NoBound), [t \in 0..Forever |-> {h.addr : h \in Found(pat, t)}])

(* The routes to one question agree, the rows they show are true, and what  *)
(* is searched for in memory is found where and when it stands, and nowhere *)
(* else (memory_query.rs).                                                  *)
MemoryAnswers == RoutesAgree /\ AccessesTrue /\ PatternExact /\ StringsWhole
=============================================================================
