------------------------------ MODULE Lineage ------------------------------
(* Where a byte came from (tracemiku-core/src/analysis/reports/: backtrace, *)
(* lineage).  One step back goes from a register at a record to the record  *)
(* that defined it and, where that is a load, to the stores it read; a      *)
(* lineage strings such steps together for one byte, a chain for a          *)
(* register, a tree for all its sources.  Rows are read from the text of    *)
(* the instructions; the two functions a virtual machine's roles would      *)
(* change (its slots, its bytecode) are off.                                *)
EXTENDS TraceReader

CONSTANTS Context,     \* records before the one asked about
          Lookback,    \* records before a load whose writes are considered
          MaxWrites,   \* writes one range query returns
          Depth,       \* steps of a lineage or chain, levels of a tree
          MaxNodes,    \* nodes of a tree
          Small,       \* 0xfff: the largest mask or delta taken for a constant
          Delta,       \* 0x10_0000: the largest offset from a pointer
          Pointer      \* 0x1_0000_0000: the smallest pointer

Full == CellSize - 1
Before(idx, n) == IF idx > n THEN idx - n ELSE 0
Nearest(S) == IF S = {} THEN None ELSE CHOOSE x \in S : \A y \in S : y <= x

-----------------------------------------------------------------------------
(* What a row says: classify_vm_asm, def_reg_from_asm,                      *)
(* def_source_regs_from_asm.                                                *)

IsMov(i) == i.op = "orr" /\ i.rn = R31 /\ i.shift = 0
IsCompare(i) == i.set /\ i.rd = R31
Class(i) ==
  CASE i.op = "ldr" -> "mem-load"
    [] i.op \in {"add", "sub", "and", "orr", "eor", "movz", "movn", "movk", "adr", "madd", "lsl", "lsr"} -> "alu"
    [] OTHER -> "other"

RowDef(i) == IF Class(i) \in {"mem-load", "alu"} /\ ~IsCompare(i) THEN i.rd ELSE None

RowSources(i) ==
  CASE IsMov(i) -> <<i.rm>>
    [] i.op \in {"add", "sub", "and", "orr", "eor"} -> IF i.rm \in {None, i.rn} THEN <<i.rn>> ELSE <<i.rn, i.rm>>
    [] i.op \in {"lsl", "lsr", "ldr"} -> <<i.rn>>
    [] i.op = "madd" -> <<X0, X1>>
    [] OTHER -> <<>>

ReadsOwn(i) == RowDef(i) \in ToSet(RowSources(i))
ValueAfter(idx) == IF idx + 1 < Len(trace) THEN Rec(idx + 1).regs[RowDef(Rec(idx).insn)] ELSE None

-----------------------------------------------------------------------------
(* backtrace_step.rs: the definition of a register at a record.             *)

Defines(idx, r) == RowDef(Rec(idx).insn) = r

(* The nearest of ops before idx after which no row defines r; x0 alone is  *)
(* said to be returned.                                                     *)
ReturnedFrom(ops, idx, r) ==
  IF r # X0 THEN None
  ELSE Nearest({c \in Before(idx, Context)..idx - 1 :
                  Rec(c).insn.op \in ops /\ \A d \in c..idx - 1 : ~Defines(d, r)})


(* vm_backstep_value_on: the record itself where it defines r from          *)
(* something else, else a call or system call with no definition after it,  *)
(* else the nearest row that defines r.                                     *)
LocalDef(idx, r) ==
  LET call == ReturnedFrom({"bl", "blr"}, idx, r)
      kernel == ReturnedFrom({"svc"}, idx, r)
      row == Nearest({d \in Before(idx, Context)..idx - 1 : Defines(d, r)})
  IN IF Defines(idx, r) /\ ~ReadsOwn(Rec(idx).insn) THEN [kind |-> "row", at |-> idx]
     ELSE IF call # None THEN [kind |-> "call-return", at |-> call]
     ELSE IF kernel # None THEN [kind |-> "syscall-return", at |-> kernel]
     ELSE [kind |-> IF row = None THEN "none" ELSE "row", at |-> row]

(* What a row shows of a source: sp where 31 is a base, nothing of xzr.     *)
Seen(rec, r) == IF r # R31 THEN rec.regs[r] ELSE IF rec.insn.rm = None THEN rec.sp ELSE None

SourceValue(idx, r) ==
  IF Defines(idx, r) /\ ~ReadsOwn(Rec(idx).insn) THEN ValueAfter(idx) ELSE RegOf(Rec(idx), r)

Frontier(d) ==
  IF d.kind # "row" THEN <<>>
  ELSE LET src == RowSources(Rec(d.at).insn)
       IN [k \in DOMAIN src |-> [idx |-> d.at, reg |-> src[k], value |-> Seen(Rec(d.at), src[k])]]

-----------------------------------------------------------------------------
(* The writes a load may have read (backtrace_rows.rs, backtrace_gaps.rs).  *)

NoWrite == [idx |-> None, at |-> None, size |-> 0, reg |-> None, value |-> 0]

(* The shadow's writes in its order; a boundary diff has no source register.*)
Writes ==
  FlattenSeq([k \in 1..Len(trace) |->
    LET rec == Rec(k - 1)
        diffs == SelectSeq(external, LAMBDA e : e.idx = k - 1)
    IN (IF rec.insn.op # "str" THEN <<>>
        ELSE <<[idx |-> k - 1, at |-> Address(rec, rec.insn), size |-> Size(rec.insn), reg |-> rec.insn.rd,
                value |-> Cut(RegOf(rec, rec.insn.rd), rec.insn.wide)]>>)
       \o [j \in DOMAIN diffs |-> [idx |-> k - 1, at |-> diffs[j].addr, size |-> 1, reg |-> None, value |-> diffs[j].byte]]])

Touches(w, a) == w.at <= a /\ a < w.at + w.size
LastOf(ws, a) == LET hits == SelectSeq(ws, LAMBDA w : Touches(w, a)) IN IF hits = <<>> THEN NoWrite ELSE Last(hits)

(* source_byte_for_write_at                                                 *)
WrittenByte(w, a) == IF w = NoWrite THEN None ELSE HalfOf(w.value, a - w.at)

(* last_write_of_addr                                                       *)
LastWriteOfAddr(a, before) == LastOf(SelectSeq(Writes, LAMBDA w : w.idx < before), a)

(* The last write to each byte of a load: from one range query, oldest      *)
(* first, or one query per byte when that was cut short.                    *)
ByteWriters(a, n, idx) ==
  LET found == SelectSeq(Writes, LAMBDA w : /\ Before(idx, Lookback) <= w.idx /\ w.idx < idx
                                            /\ \E b \in a..a + n - 1 : Touches(w, b))
  IN IF Len(found) > MaxWrites
     THEN [last |-> LastWriteOfAddr(a, idx), of |-> [k \in 0..n - 1 |-> LastWriteOfAddr(a + k, idx)]]
     ELSE [last |-> IF found = <<>> THEN NoWrite ELSE Last(found), of |-> [k \in 0..n - 1 |-> LastOf(found, a + k)]]

(* upstream_writer_for_def_on: believed only where every byte written is    *)
(* the byte the load was seen to read.                                      *)
NoUpstream == [status |-> "none", next |-> NoWrite, bytes |-> {}, observed |-> None]
Believed(a, n, writers, seen) ==
  LET matches == seen = None \/ \A k \in 0..n - 1 : WrittenByte(writers.of[k], a + k) = HalfOf(seen, k)
  IN [status |-> IF writers.last = NoWrite THEN "not_found" ELSE IF matches THEN "ready" ELSE "mismatch",
      next |-> IF matches THEN writers.last ELSE NoWrite,
      bytes |-> IF ~matches THEN {}
                ELSE {[off |-> k, idx |-> writers.of[k].idx, reg |-> writers.of[k].reg,
                       lane |-> a + k - writers.of[k].at, value |-> WrittenByte(writers.of[k], a + k)] :
                        k \in {j \in 0..n - 1 : writers.of[j].reg # None}},
      observed |-> IF seen = None \/ n = 1 THEN None ELSE seen]
UpstreamOf(a, n, idx) == Believed(a, n, ByteWriters(a, n, idx), ValueAfter(idx))
Upstream(d) ==
  IF d.kind # "row" \/ Class(Rec(d.at).insn) # "mem-load" THEN NoUpstream
  ELSE UpstreamOf(Address(Rec(d.at), Rec(d.at).insn), Size(Rec(d.at).insn), d.at)

-----------------------------------------------------------------------------
(* Which operand a value came through (writer_map.rs, lineage_chain.rs).    *)

Row(d) == Rec(d.at)
Operands(d) == SelectSeq(Frontier(d), LAMBDA f : f.value # None)
Result(d) == ValueAfter(d.at)

(* The two sides as parse_binary_values_or_immediate finds them; the second *)
(* is None where the text has neither a second value nor an immediate.      *)
Sides(d) ==
  LET i == Row(d).insn
      ops == Operands(d)
  IN [lhs |-> IF ops = <<>> THEN None ELSE ops[1].value,
      rhs |-> IF Len(ops) >= 2 THEN (ops[2].value * 2^i.shift) % WordSize
              ELSE IF i.rm = None THEN i.imm ELSE None]

Conj(a, b) == LET Bit(n) == BitOf(a, n) * BitOf(b, n)
              IN FoldLeft(LAMBDA sum, n : sum + Bit(n - 1) * 2^(n - 1), 0, [n \in 1..2 * CellBits |-> n])
Cleared(mask) == WordSize - mask

(* The recognised forms that keep one input, each tried for (a, b).         *)
Mod255(a, b, v) == a > Full /\ b # 0 /\ b = a \div Full /\ Low(v) = a % Full
SmallAdded(a, b, v) == b <= Small /\ a > Small /\ (a + b) % WordSize = v
SmallTaken(a, b, v) == b # 0 /\ b <= Small /\ a > Small /\ (a - b) % WordSize = v
AndIdentity(a, b, v) == a # 0 /\ b > Small /\ v = a /\ Conj(a, b) = v
AlignDown(a, b, v) ==
  /\ a # 0 /\ b > Small /\ v # a /\ Conj(a, b) = v
  /\ \E n \in 1..2 * CellBits - 1 : Cleared(b) = 2^n
BitmaskExtract(a, b, v) == b # 0 /\ b <= Small /\ Conj(a, b) = v
KeptByZero(a, b, v) == a # 0 /\ b = 0 /\ v = a

(* recognize_alu_semantic, of the forms that name an input: its value.      *)
FirstForm(forms, s, v) ==
  LET tries == FlattenSeq([k \in DOMAIN forms |-> <<<<forms[k], s.lhs, s.rhs>>, <<forms[k], s.rhs, s.lhs>>>>])
      Fits(t) == CASE t[1] = "mod255"     -> Mod255(t[2], t[3], v)
                   [] t[1] = "delta"      -> SmallAdded(t[2], t[3], v)
                   [] t[1] = "identity"   -> AndIdentity(t[2], t[3], v)
                   [] t[1] = "align"      -> AlignDown(t[2], t[3], v)
                   [] t[1] = "extract"    -> BitmaskExtract(t[2], t[3], v)
                   [] t[1] = "zero"       -> KeptByZero(t[2], t[3], v)
      fits == SelectSeq(tries, Fits)
  IN IF fits = <<>> THEN None ELSE Head(fits)[2]

InputOf(i, s, v) ==
  IF v = None \/ s.lhs = None \/ s.rhs = None \/ IsMov(i) THEN None
  ELSE CASE i.op = "add" -> FirstForm(<<"mod255", "delta">>, s, v)
         [] i.op = "sub" -> IF SmallTaken(s.lhs, s.rhs, v) THEN s.lhs ELSE None
         [] i.op = "and" -> FirstForm(<<"identity", "align", "extract">>, s, v)
         [] i.op \in {"orr", "eor"} -> FirstForm(<<"zero">>, s, v)
         [] OTHER -> None
SemanticInput(d) == InputOf(Row(d).insn, Sides(d), Result(d))

Seed(idx, r, lane) == [idx |-> idx, reg |-> r, lane |-> lane]
Stop == Seed(None, None, None)

(* adjust_self_def_formula_next: an operand that is the register defined.   *)
Adjusted(d, f, lane) ==
  Seed(IF f.reg = RowDef(Row(d).insn) THEN Before(d.at, 1) ELSE d.at, f.reg, lane)

(* choose_or_operand_for_lane, choose_and_operand_for_lane: the operand     *)
(* whose byte comes through, 0 if neither.                                  *)
LaneOperand(op, ops, lane) ==
  LET keeps == IF op = "orr" THEN 0 ELSE Full
      B(k) == IF ops[k].value = None THEN None ELSE HalfOf(ops[k].value, lane)
      Through(k, j) == B(k) \notin {None, 0} /\ B(j) = keeps
  IN IF op \notin {"orr", "and"} \/ lane = None THEN 0
     ELSE IF Through(1, 2) THEN 1 ELSE IF Through(2, 1) THEN 2 ELSE 0

(* choose_pointer_add_operand, and the operand that is not zero.            *)
IsDelta(v) == v <= Delta \/ v >= WordSize - 1 - Delta
PointerOperand(op, ops) ==
  LET Is(k, j) == ops[k].value >= Pointer /\ ops[j].value # None /\ IsDelta(ops[j].value)
  IN IF op # "add" THEN 0 ELSE IF Is(1, 2) THEN 1 ELSE IF Is(2, 1) THEN 2 ELSE 0
NonZeroOperand(ops) ==
  IF ops[1].value \notin {None, 0} /\ ops[2].value = 0 THEN 1
  ELSE IF ops[1].value = 0 /\ ops[2].value \notin {None, 0} THEN 2 ELSE 0

(* source_lane_for_shift_formula, or the lane of the result.                *)
ShiftedLane(i, lane) ==
  LET bits == lane * CellBits + (IF i.op = "lsr" THEN i.imm ELSE -i.imm)
  IN IF lane # None /\ bits >= 0 /\ bits % CellBits = 0 THEN bits \div CellBits ELSE lane

(* choose_semantic_frontier_next: a value's input, else an operand chosen   *)
(* by the lane, by looking like a pointer, by not being zero, by a shift.   *)
FirstOf(d, operands, lane) == IF operands = <<>> THEN Stop ELSE Adjusted(d, Head(operands), lane)
Picked(op, f, lane) ==
  IF Len(f) < 2 THEN <<>>
  ELSE LET picks == SelectSeq(<<PointerOperand(op, f), LaneOperand(op, f, lane), NonZeroOperand(f)>>, LAMBDA k : k # 0)
       IN [k \in DOMAIN picks |-> f[picks[k]]]
NextBy(kept, i, d, f, lane) ==
  IF kept # None THEN FirstOf(d, SelectSeq(f, LAMBDA x : x.value = kept), lane)
  ELSE IF i.op \in {"add", "orr", "and"} THEN FirstOf(d, Picked(i.op, f, lane), lane)
  ELSE IF i.op \in {"lsl", "lsr"} THEN Adjusted(d, Head(f), ShiftedLane(i, lane))
  ELSE Stop
SemanticNext(d, lane) ==
  IF Result(d) = None \/ Operands(d) = <<>> \/ IsMov(Row(d).insn) THEN Stop
  ELSE NextBy(SemanticInput(d), Row(d).insn, d, Frontier(d), lane)

(* choose_frontier_next_for_lane: else the smallest value that is not in    *)
(* sp, fp or lr, the first of equals.                                       *)
Score(v) == IF v = None THEN 4 ELSE IF v <= Full THEN 0 ELSE 1
DataOf(f) == SelectSeq(f, LAMBDA x : x.reg # Lr /\ (x.reg = R31 => x.value = None))
OrElse(first, then) == IF first # Stop THEN first ELSE then
Lightest(from) ==
  from[CHOOSE k \in DOMAIN from :
         \A j \in DOMAIN from \ {k} :
           \/ Score(from[k].value) < Score(from[j].value)
           \/ Score(from[k].value) = Score(from[j].value) /\ k < j]
AmongAll(f, idx, lane) ==
  LET from == IF DataOf(f) = <<>> THEN f ELSE DataOf(f)
  IN IF f = <<>> THEN Stop ELSE Seed(idx, Lightest(from).reg, lane)
FrontierNext(d, lane) ==
  IF d.kind # "row" THEN Stop ELSE OrElse(SemanticNext(d, lane), AmongAll(Frontier(d), d.at, lane))

-----------------------------------------------------------------------------
(* The walks.                                                               *)

(* dedupe_byte_nexts: one next for each record and register.                *)
ByteNexts(u) == {<<b.idx, b.reg>> : b \in u.bytes}
LowestOf(bytes) == CHOOSE b \in bytes : \A c \in bytes : b.off <= c.off
LanedNext(u, lane) == {b \in u.bytes : b.off = lane}
SeedOf(b) == Seed(b.idx, b.reg, b.lane)
UpstreamNext(u, lane) == IF u.next = NoWrite \/ u.next.reg = None THEN Stop ELSE Seed(u.next.idx, u.next.reg, lane)

(* lineage_next_from_backstep *)
StepBack(d, u, lane) ==
  LET laned == LanedNext(u, lane)
  IN IF laned # {} THEN SeedOf(LowestOf(laned))
     ELSE IF UpstreamNext(u, lane) # Stop THEN UpstreamNext(u, lane)
     ELSE IF ByteNexts(u) # {} THEN (IF Cardinality(ByteNexts(u)) = 1 THEN SeedOf(LowestOf(u.bytes)) ELSE Stop)
     ELSE IF u.status \in {"not_found", "mismatch"} THEN Stop
     ELSE FrontierNext(d, lane)
LineageNext(s) ==
  LET d == LocalDef(s.idx, s.reg) IN StepBack(d, Upstream(d), s.lane)

(* byte_lineage_value_on: from the last write of an address back, until a   *)
(* seed repeats, nothing is left to follow or the depth is reached.         *)
ByteSeed(a, before) ==
  LET w == LastWriteOfAddr(a, before)
  IN IF w.reg = None THEN Stop ELSE Seed(w.idx, w.reg, a - w.at)

(* derive_byte_origin *)
Origin(a, before) ==
  LET w == LastWriteOfAddr(a, before)
  IN IF w = NoWrite THEN "unknown" ELSE IF w.reg = None THEN "external" ELSE "register"

ByteLineage(a, before) ==
  LET Back(st, turn) ==
        IF st.seed = Stop \/ st.seed \in ToSet(st.steps) THEN st
        ELSE [steps |-> Append(st.steps, st.seed), seed |-> LineageNext(st.seed)]
  IN FoldLeft(Back, [steps |-> <<>>, seed |-> ByteSeed(a, before)], [k \in 1..Depth - 1 |-> k])

(* choose_zero_extended_low_byte_upstream_next: a wide load of one byte's   *)
(* worth follows that byte.                                                 *)
LowByteNext(s, u) ==
  LET v == SourceValue(s.idx, s.reg)
  IN {b \in u.bytes : /\ v \notin {None, 0} /\ v <= Full /\ u.observed = v
                      /\ b.off = 0 /\ b.value = v}

(* vm_backchain_value_on, one step.                                         *)
ChainStep(s, d, u, follow) ==
  LET laned == IF s.lane = None THEN LowByteNext(s, u) ELSE LanedNext(u, s.lane)
  IN IF laned # {} THEN SeedOf(LowestOf(laned))
     ELSE IF UpstreamNext(u, s.lane) # Stop THEN UpstreamNext(u, s.lane)
     ELSE IF follow THEN FrontierNext(d, s.lane) ELSE Stop
ChainNext(s, follow) ==
  LET d == LocalDef(s.idx, s.reg) IN ChainStep(s, d, Upstream(d), follow)

(* vm_backtree_value_on: what a node leads to, and every node reached level *)
(* by level until there are MaxNodes, each looked into once.                *)
LeadsTo(u, data) ==
  LET up == IF UpstreamNext(u, None) = Stop THEN <<>> ELSE <<<<u.next.idx, u.next.reg>>>>
  IN up \o SetToSeq(ByteNexts(u) \ ToSet(up))
        \o (IF up = <<>> THEN [k \in DOMAIN data |-> <<data[k].idx, data[k].reg>>] ELSE <<>>)
TreeNexts(idx, r) ==
  LET d == LocalDef(idx, r) IN LeadsTo(Upstream(d), DataOf(Frontier(d)))
Queued(level, leads) == [k \in DOMAIN leads |-> <<level, leads[k][1], leads[k][2]>>]

(* The state is the nodes so far and the queue.                             *)
Tree(idx, r) ==
  LET Visit(st, turn) ==
        IF st.queue = <<>> \/ Len(st.nodes) >= MaxNodes THEN st
        ELSE LET at == Head(st.queue)
                 key == <<at[2], at[3]>>
             IN [nodes |-> Append(st.nodes, key),
                 queue |-> Tail(st.queue) \o
                             IF key \in ToSet(st.nodes) \/ at[1] >= Depth THEN <<>>
                             ELSE Queued(at[1] + 1, TreeNexts(at[2], at[3]))]
  IN FoldLeft(Visit, [nodes |-> <<>>, queue |-> <<<<0, idx, r>>>>], [k \in 1..MaxNodes |-> k])

-----------------------------------------------------------------------------
(* Where the bytes really came from: what an instruction copies keeps its   *)
(* name, all else is new.                                                   *)

Made(k, lane) == <<"made", k, lane>>
Lanes == 0..1

(* A byte an operation lets through where the other operand decides nothing.*)
Through(op, x, y) == x \notin {0, y} /\ y = (IF op = "orr" THEN 0 ELSE Full)

NewLane(t, k, lane) ==
  LET rec == Rec(k)
      i == rec.insn
      shifted == lane * CellBits + (IF i.op = "lsr" THEN i.imm ELSE -i.imm)
      a == HalfOf(RegOf(rec, i.rn), lane)
      b == IF i.rm = None THEN HalfOf(i.imm, lane) ELSE HalfOf(RegOf(rec, i.rm), lane)
  IN CASE i.op = "ldr" /\ lane < Size(i) -> t.mem[Address(rec, i) + lane]
       [] IsMov(i) -> t.regs[i.rm][lane]
       [] i.op \in {"orr", "and"} /\ i.shift = 0 /\ Through(i.op, a, b) -> t.regs[i.rn][lane]
       [] i.op = "orr" /\ i.shift = 0 /\ i.rm # None /\ Through(i.op, b, a) -> t.regs[i.rm][lane]
       [] i.op \in {"lsl", "lsr"} /\ shifted % CellBits = 0 /\ shifted \div CellBits \in Lanes ->
            t.regs[i.rn][shifted \div CellBits]
       [] OTHER -> Made(k, lane)

After(t, k) ==
  LET rec == Rec(k)
      i == rec.insn
      a == Address(rec, i)
      step == [regs |-> [r \in General |-> IF RowDef(i) = r THEN [l \in Lanes |-> NewLane(t, k, l)] ELSE t.regs[r]],
               mem |-> IF i.op # "str" THEN t.mem
                       ELSE [c \in Cells |-> IF c \notin a..a + Size(i) - 1 THEN t.mem[c]
                                             ELSE IF i.rd = R31 THEN Made(k, c - a) ELSE t.regs[i.rd][c - a]]]
  IN IF joined[k + 1] THEN step
     ELSE [regs |-> [step.regs EXCEPT ![X0] = [l \in Lanes |-> <<"unseen", k, l>>]],
           mem |-> [c \in Cells |-> IF c \in Shared THEN <<"unseen", k, 2 + c>> ELSE step.mem[c]]]

(* The names before each record, and after the last.                        *)
Names ==
  LET start == [regs |-> [r \in General |-> [l \in Lanes |-> <<"register", r, l>>]],
                mem |-> [c \in Cells |-> <<"memory", c, 0>>]]
  IN FoldLeft(LAMBDA all, k : Append(all, After(Last(all), k - 1)), <<start>>, [k \in 1..Len(trace) |-> k])

Held(names, s) ==
  names[IF Defines(s.idx, s.reg) /\ ~ReadsOwn(Rec(s.idx).insn) THEN s.idx + 2 ELSE s.idx + 1].regs[s.reg][s.lane]

-----------------------------------------------------------------------------
(* What a lineage promises, of a capture without drops in which all that    *)
(* ran unseen was called, and whose rows say all they read and write.       *)

Announced == \A k \in 1..Len(trace) - 1 : ~joined[k] => trace[k].insn.op \in {"bl", "blr", "svc"}
Spoken(i) ==
  /\ i.op \in {"ldr", "str", "bl", "svc", "orr", "and", "add", "lsl", "lsr", "movz", "nop"}
  /\ i.mode = "off" /\ i.shift = 0 /\ (i.op # "str" => i.wide \/ i.op = "ldr")
  /\ i.op = "bl" => i.to \in Outside
Ordered == \A k \in DOMAIN external : LET e == external[k]
                                      IN e.idx < Len(trace) => Rec(e.idx).insn.op # "str"
Followable == meta = "written" /\ dropped = 0 /\ Announced /\ Ordered /\ \A idx \in Indices : Spoken(Rec(idx).insn)

Seeds == {Seed(idx, r, lane) : idx \in Indices, r \in {X0, X1}, lane \in Lanes}
IsLoad(d) == d.kind = "row" /\ Class(Row(d).insn) = "mem-load"

(* An operand that is the register defined is looked up one record early:   *)
(* a row there that also reads it, or a call, is passed over.               *)
PassedOver(d, n) ==
  /\ d.kind = "row" /\ n.idx = d.at - 1 /\ n.reg = RowDef(Row(d).insn) /\ ~IsLoad(d)
  /\ LET i == Rec(n.idx).insn
     IN (RowDef(i) = n.reg /\ ReadsOwn(i)) \/ (n.reg = X0 /\ i.op \in {"bl", "svc"})

(* The bytes a load read were all stored by records, and by nothing since.  *)
StoredByRecords(names, d) ==
  LET a == Address(Row(d), Row(d).insn)
  IN \A c \in a..a + Size(Row(d).insn) - 1 :
       LastWriteOfAddr(c, d.at).reg # None /\ names[d.at + 1].mem[c][1] # "unseen"

(* One step back from a byte that an instruction copied goes to the same    *)
(* byte, and there is a step unless the load read what no record stored.    *)
FollowsTo(names, s, d, n) ==
  LET name == Held(names, s)
  IN CASE d.kind = "none"           -> name = <<"register", s.reg, s.lane>>
       [] d.kind # "row"            -> name = <<"unseen", d.at, s.lane>> /\ n = Stop
       [] name = Made(d.at, s.lane) -> TRUE
       [] d.at + 1 >= Len(trace) \/ PassedOver(d, n) -> TRUE
       [] n = Stop                  -> IsLoad(d) /\ ~StoredByRecords(names, d)
       [] IsLoad(d) /\ LanedNext(Upstream(d), s.lane) = {} -> ~StoredByRecords(names, d)
       [] OTHER                     -> n.lane \in Lanes /\ Held(names, n) = name

FollowsTheByte(names, s) == FollowsTo(names, s, LocalDef(s.idx, s.reg), LineageNext(s))

(* A byte of memory is traced to who wrote it last, as far as the capture   *)
(* can know, and from there without going in circles.                       *)
StartsAt(names, a, before, l) ==
  LET name == names[before + 1].mem[a]
      diffed == \E k \in DOMAIN external : external[k].addr = a /\ external[k].idx < before
      hidden == name[1] = "unseen" /\ ~diffed
  IN /\ l.seed \notin ToSet(l.steps)
     /\ CASE Origin(a, before) = "register" -> hidden \/ Held(names, l.steps[1]) = name
          [] Origin(a, before) = "external" -> name[1] = "unseen"
          [] OTHER                          -> hidden \/ name[1] = "memory"
StartsAtTheWriter(names, a, before) == StartsAt(names, a, before, ByteLineage(a, before))

(* The tree of a register holds the chain of each of its bytes.             *)
Chain(s) == FoldLeft(LAMBDA steps, k : IF Last(steps) = Stop THEN steps ELSE Append(steps, ChainNext(Last(steps), TRUE)),
                     <<s>>, [k \in 1..Depth |-> k])
HoldsChain(t, c) ==
  LET d(k) == LocalDef(c[k].idx, c[k].reg)
  IN \A k \in DOMAIN c :
       \/ c[k] = Stop \/ <<c[k].idx, c[k].reg>> \in ToSet(t.nodes)
       \/ \E j \in 1..k - 1 : d(j).kind = "row" /\ c[j + 1].idx # d(j).at /\ ~IsLoad(d(j))
       \/ c[k].reg \in {R31, Lr}
HoldsAll(t, idx, r) ==
  t.queue # <<>> \/ \A lane \in Lanes \cup {None} : HoldsChain(t, Chain(Seed(idx, r, lane)))
HoldsTheChains(idx, r) == HoldsAll(Tree(idx, r), idx, r)

=============================================================================
