---------------------------- MODULE TraceQueries ----------------------------
(* Bounded questions about the records of one call (tracemiku-core/src/     *)
(* analysis/): search in the executed instructions, the values a register   *)
(* took over time and at one address, windows of records, and the last      *)
(* record that wrote a register.  Each answer is cut to a limit, and a      *)
(* client that wants the rest asks again.                                   *)
EXTENDS TraceReader

CONSTANTS DirectScan,     \* REG_TIMELINE_DIRECT_SCAN_RECORDS
          MaxPage         \* bound: the largest limit a client asks for

Fewer(a, b) == IF a < b THEN a ELSE b
Rest(a, b) == IF a > b THEN a - b ELSE 0

-----------------------------------------------------------------------------
(* search.rs                                                                *)

IdxsOf(pc) == SelectSeq([k \in 1..Len(trace) |-> k - 1], LAMBDA idx : Rec(idx).pc = pc)

(* asm_groups, filtered: the addresses whose first record's instruction     *)
(* matches, each with its records.                                          *)
MatchedGroups(op) ==
  [pc \in {p \in Pcs : IdxsOf(p) # <<>> /\ Rec(Head(IdxsOf(p))).insn.op = op} |-> IdxsOf(pc)]

Longest(groups) == FoldLeft(LAMBDA n, pc : n + Len(groups[pc]), 0,
                            SelectSeq([k \in 1..Cardinality(Pcs) |-> k - 1], LAMBDA pc : pc \in DOMAIN groups))

(* The heap of group heads: take the first of them going onward, or the     *)
(* last of them going back, and push its successor.                         *)
MergeHeads(groups, onward, limit) ==
  LET Pop(st, turn) ==
        LET heads == {pc \in DOMAIN groups : st.pos[pc] <= Len(groups[pc])}
            At(pc) == groups[pc][st.pos[pc]]
        IN IF heads = {} \/ Len(st.out) >= limit THEN st
           ELSE LET pc == CHOOSE p \in heads : \A q \in heads \ {p} : onward = (At(p) < At(q))
                IN [out |-> Append(st.out, At(pc)), pos |-> [st.pos EXCEPT ![pc] = @ + 1]]
  IN FoldLeft(Pop, [out |-> <<>>, pos |-> [pc \in DOMAIN groups |-> 1]], [k \in 1..limit |-> k]).out

CollectFromStart(groups, limit) == MergeHeads(groups, TRUE, limit)
CollectAfterCursor(groups, cursor, limit) ==
  MergeHeads([pc \in DOMAIN groups |-> SelectSeq(groups[pc], LAMBDA idx : idx >= cursor)], TRUE, limit)
CollectBeforeCursor(groups, cursor, limit) ==
  MergeHeads([pc \in DOMAIN groups |-> Reverse(SelectSeq(groups[pc], LAMBDA idx : idx < cursor))], FALSE, limit)

(* Mutant of CollectCursorWindow: what one side leaves free stays free.     *)
CollectHalves(groups, cursor, limit) ==
  LET after == CollectAfterCursor(groups, cursor, (limit + 1) \div 2)
  IN Reverse(CollectBeforeCursor(groups, cursor, Rest(limit, Len(after)))) \o after

(* collect_cursor_window: half the window behind the cursor, half from it   *)
(* on, and what one side leaves free goes to the other.                     *)
Window(before, after, limit) ==
  LET half == Fewer(Len(after), (limit + 1) \div 2)
      low == Fewer(Len(before), Rest(limit, half))
      high == half + Fewer(Len(after) - half, Rest(limit, half + low))
      more == low + Fewer(Len(before) - low, Rest(limit, high + low))
  IN Reverse(SubSeq(before, 1, more)) \o SubSeq(after, 1, high)
CollectCursorWindow(groups, cursor, limit) ==
  Window(CollectBeforeCursor(groups, cursor, limit), CollectAfterCursor(groups, cursor, limit), limit)

Page(hits, total) == [hits |-> hits, total |-> total, truncated |-> Len(hits) < total]
Search(op, cursor, limit) ==
  LET groups == MatchedGroups(op)
  IN Page(IF cursor = None THEN CollectFromStart(groups, limit) ELSE CollectCursorWindow(groups, cursor, limit),
          Longest(groups))

-----------------------------------------------------------------------------
(* reg_at.rs                                                                *)

(* The values of a register at an address: a count of each over every       *)
(* execution, rows for the first limit of them.                             *)
RegAt(pc, r, limit) ==
  LET idxs == IdxsOf(pc)
      values == {Rec(idxs[k]).regs[r] : k \in DOMAIN idxs}
  IN [execs |-> Len(idxs), capped |-> Len(idxs) > limit,
      distinct |-> [v \in values |-> Cardinality({k \in DOMAIN idxs : Rec(idxs[k]).regs[r] = v})],
      rows |-> [k \in 1..Fewer(Len(idxs), limit) |-> [idx |-> idxs[k], value |-> Rec(idxs[k]).regs[r]]]]

-----------------------------------------------------------------------------
(* timeline_diff.rs                                                         *)

Point(idx, r) == [idx |-> idx, value |-> Rec(idx).regs[r]]

(* build_reg_timeline_range: the records lo..hi-1 where the value changes,  *)
(* the first of them always.                                                *)
TimelineRange(r, lo, hi) ==
  LET changes == SelectSeq([k \in 1..Rest(hi, lo) |-> lo + k - 1],
                           LAMBDA idx : idx = lo \/ Rec(idx - 1).regs[r] # Rec(idx).regs[r])
  IN [k \in DOMAIN changes |-> Point(changes[k], r)]

(* build_reg_timeline: one range per worker; a range starts with a point    *)
(* only where its value differs from the last one.                          *)
BuildTimeline(r, workers) ==
  LET n == Len(trace)
      size == (n + workers - 1) \div workers
      Add(all, p) == IF all # <<>> /\ Last(all).value = p.value THEN all ELSE Append(all, p)
  IN FoldLeft(Add, <<>>, FlattenSeq([w \in 1..workers |-> TimelineRange(r, (w - 1) * size, Fewer(w * size, n))]))

Capped(points, limit) ==
  [points |-> SubSeq(points, 1, Fewer(Len(points), limit)), truncated |-> Len(points) > limit]

(* reg_timeline_response_from_timeline: the value at start, then the        *)
(* changes after it.                                                        *)
FromTimeline(r, lo, hi, timeline, limit) ==
  Capped(IF lo >= hi THEN <<>>
         ELSE <<Point(lo, r)>> \o SelectSeq(timeline, LAMBDA p : lo < p.idx /\ p.idx < hi), limit)

(* try_direct_reg_timeline: scanned as far as the budget goes; enough when  *)
(* it reaches the end or fills the page first.                              *)
Direct(r, lo, hi, limit) ==
  LET scanned == Fewer(lo + DirectScan, hi)
      page == Capped(TimelineRange(r, lo, scanned), limit)
  IN [page EXCEPT !.points = @] @@ [enough |-> page.truncated \/ scanned = hi]

(* reg_timeline: the cached timeline, a direct scan, or one built now.      *)
RegTimeline(r, lo, hi, limit, cached, workers) ==
  LET direct == Direct(r, lo, hi, limit)
  IN IF ~cached /\ direct.enough THEN [points |-> direct.points, truncated |-> direct.truncated]
     ELSE FromTimeline(r, lo, hi, BuildTimeline(r, workers), limit)

(* inspect_register: the changes, or the records where it holds a value,    *)
(* and where to go on from.                                                 *)
NextCursor(page, lo) ==
  IF ~page.truncated THEN None ELSE IF page.points = <<>> THEN lo ELSE Last(page.points).idx + 1
Inspect(r, lo, hi, limit, equals, cached, workers) ==
  LET held == SelectSeq([k \in 1..hi - lo |-> lo + k - 1], LAMBDA idx : Rec(idx).regs[r] = equals)
      page == IF equals = None THEN RegTimeline(r, lo, hi, limit, cached, workers)
              ELSE Capped([k \in DOMAIN held |-> Point(held[k], r)], limit)
  IN [points |-> page.points, next |-> NextCursor(page, lo)]

-----------------------------------------------------------------------------
(* records.rs and last_write_of_reg.rs                                      *)

(* The records of one window and the registers each is shown to write: a    *)
(* comparison with the next record, whatever lies between.                  *)
RecordsWindow(lo, count, limit) ==
  LET taken == Fewer(count, limit)
  IN [rows |-> [k \in 1..Rest(Fewer(lo + taken, Len(trace)), lo) |-> lo + k - 1],
      truncated |-> count > taken /\ lo + taken < Len(trace)]

WritesReg(idx) ==
  IF idx + 1 < Len(trace) THEN {r \in General : Rec(idx).regs[r] # Rec(idx + 1).regs[r]} ELSE {}

(* The registers the decoder lists as written: the first register operand,  *)
(* which for a branch is one it only reads, and a base that is written back.*)
RegsDef(i) ==
  General \cap
    CASE i.op = "bl" -> {Lr}
      [] i.op = "blr" -> {Lr, i.rd}
      [] i.op = "str" -> (IF i.mode = "off" THEN {} ELSE {i.rn})
      [] i.op = "ldr" -> {i.rd} \cup (IF i.mode = "off" THEN {} ELSE {i.rn})
      [] OTHER -> {i.rd}

DefsBefore(r, idx) == {d \in 0..idx - 1 : r \in RegsDef(Rec(d).insn)}
LastWriteOfReg(r, idx) ==
  LET defs == DefsBefore(r, idx)
  IN [idx |-> IF defs = {} THEN None ELSE CHOOSE d \in defs : \A e \in defs : e <= d,
      value |-> IF idx < Len(trace) THEN Rec(idx).regs[r] ELSE None]

-----------------------------------------------------------------------------
(* What the answers promise.                                                *)

Readable == meta = "written"
Limits == 1..MaxPage
Ops == {Rec(idx).insn.op : idx \in Indices}

(* A search is whole and in order: without a cursor the first hits, around  *)
(* a cursor an unbroken run of them that has the cursor's place inside and  *)
(* gives each side its half as far as there are hits; as many as asked for  *)
(* when there are that many.  An address's values add up the same way.      *)
HitsPlaced(s, all, cursor, limit) ==
  LET behind == Cardinality({k \in DOMAIN all : all[k] < cursor})
  IN /\ s.total = Len(all) /\ s.truncated = (Len(s.hits) < Len(all))
     /\ Len(s.hits) = Fewer(limit, Len(all))
     /\ IF cursor = None THEN s.hits = SubSeq(all, 1, Len(s.hits))
        ELSE \E k \in 0..behind :
               /\ s.hits = SubSeq(all, k + 1, k + Len(s.hits))
               /\ behind - k >= Fewer(behind, limit \div 2)
               /\ k + Len(s.hits) - behind >= Fewer(Len(all) - behind, (limit + 1) \div 2)
SearchExact ==
  Readable => \A op \in Ops, limit \in Limits, cursor \in Indices \cup {None} :
    HitsPlaced(Search(op, cursor, limit),
               SelectSeq([k \in 1..Len(trace) |-> k - 1], LAMBDA idx : Rec(idx).insn.op = op), cursor, limit)

(* The pages of a query, followed from cursor to cursor.                    *)
Pages(r, hi, limit, equals, cached) ==
  LET Ask(st, turn) ==
        IF st.next = None THEN st
        ELSE LET page == Inspect(r, st.next, hi, limit, equals, cached, 2)
             IN [next |-> page.next, points |-> st.points \o page.points]
  IN FoldLeft(Ask, [next |-> 0, points |-> <<>>], [k \in 1..MaxRecords + 1 |-> k])

(* Following the pages of a register's changes gives its value at every     *)
(* record, whether they came from a scan, from a cache or from a timeline   *)
(* built in parts; following those of a value finds every record that holds *)
(* it, once.                                                                *)
TimelineTrue ==
  Readable => \A r \in {X0, X1}, hi \in (1..Len(trace)) \ (1..Len(trace) - 2), limit \in Limits :
    LET changes == Pages(r, hi, limit, None, FALSE)
        v == Rec(0).regs[r]
        held == Pages(r, hi, limit, v, FALSE)
    IN /\ changes.next = None /\ changes = Pages(r, hi, limit, None, TRUE)
       /\ \A k \in 1..Len(changes.points) - 1 : changes.points[k].idx < changes.points[k + 1].idx
       /\ \A idx \in 0..hi - 1 :
            LET past == SelectSeq(changes.points, LAMBDA p : p.idx <= idx)
            IN past # <<>> /\ Last(past).value = Rec(idx).regs[r]
       /\ held.next = None
       /\ [k \in DOMAIN held.points |-> held.points[k].idx]
            = SelectSeq([k \in 1..hi |-> k - 1], LAMBDA idx : Rec(idx).regs[r] = v)

(* What the decoder says an instruction writes is all that changes from one *)
(* record to the next while nothing runs unseen, so the last writer of a    *)
(* register is the record its value comes from.                             *)
LastWriteTrue ==
  Readable => /\ \A idx \in Indices : WritesReg(idx) \subseteq RegsDef(Rec(idx).insn) \/ ~joined[idx + 1]
            /\ \A r \in General, idx \in Indices :
                 LET w == LastWriteOfReg(r, idx)
                     from == IF w.idx = None THEN 0 ELSE w.idx + 1
                 IN (\A k \in from..idx - 1 : joined[k + 1]) => \A k \in from..idx : Rec(k).regs[r] = w.value

(* What is asked of the records is found where it is, and nowhere else      *)
(* (search.rs, timeline_diff.rs, last_write_of_reg.rs).                     *)
QueriesTrue == SearchExact /\ TimelineTrue /\ LastWriteTrue
=============================================================================
