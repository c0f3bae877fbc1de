----------------------------- MODULE TraceIndex -----------------------------
(* The value index of a trace: Index::build of tracemiku-core/src/index.rs  *)
(* cuts the records into one range per worker, lists in each range which    *)
(* records define and use every register and touch every byte, and joins    *)
(* the lists in the order of the ranges, because every query looks them up  *)
(* by bisection.                                                            *)
(*                                                                          *)
(* Records are numbered from 1 (the code counts from 0) and 0 is the code's *)
(* None.  A record is what the decoder says of its instruction; an address  *)
(* is a small number and a value is left out.                               *)
EXTENDS Decoder, FiniteSets

CONSTANTS Bytes,         \* addresses, 0..n
          Insns,         \* the instructions a trace is made of
          Starts,        \* those its first record may have
          MaxRecords     \* bound: records in a trace

ASSUME IndexAssumption ==
  /\ NoReg \notin Regs /\ Starts \subseteq Insns
  /\ \A insn \in Insns :
        /\ IsInsn(insn)
        /\ \A op \in ToSet(MemOps(insn)) : op.at \in Bytes /\ op.at + op.size - 1 \in Bytes

VARIABLE trace           \* the records of the call

Span(op) == op.at .. (op.at + op.size - 1)
Stores(rec) == SelectSeq(rec.ops, LAMBDA op : op.write)
Loads(rec)  == SelectSeq(rec.ops, LAMBDA op : ~op.write)
Touched(ops) == UNION {Span(op) : op \in ToSet(ops)}

-----------------------------------------------------------------------------
(* build_range: the lists of the records a..b.                              *)

Listed(a, b, P(_)) == SelectSeq([k \in 1..(b - a + 1) |-> a + k - 1], P)

BuildRange(a, b) ==
  [defs   |-> [r \in Regs |-> Listed(a, b, LAMBDA i : r \in ToSet(trace[i].def))],
   uses   |-> [r \in Regs |-> Listed(a, b, LAMBDA i : r \in ToSet(trace[i].use))],
   writes |-> [x \in Bytes |-> Listed(a, b, LAMBDA i : x \in Touched(Stores(trace[i])))],
   reads  |-> [x \in Bytes |-> Listed(a, b, LAMBDA i : x \in Touched(Loads(trace[i])))],
   conds  |-> Listed(a, b, LAMBDA i : trace[i].flow = "cond"),
   bounds |-> Listed(a, b, LAMBDA i : trace[i].flow \in {"call", "ret"})]

(* merge_partials: every list of the first range, then of the second, ...   *)
Joined(p, q) ==
  [defs   |-> [r \in Regs |-> p.defs[r] \o q.defs[r]],
   uses   |-> [r \in Regs |-> p.uses[r] \o q.uses[r]],
   writes |-> [x \in Bytes |-> p.writes[x] \o q.writes[x]],
   reads  |-> [x \in Bytes |-> p.reads[x] \o q.reads[x]],
   conds  |-> p.conds \o q.conds,
   bounds |-> p.bounds \o q.bounds]

MergePartials(partials) == FoldLeft(Joined, BuildRange(1, 0), partials)

Smaller(a, b) == IF a < b THEN a ELSE b

(* Index::build: chunk_size = ceil(n / workers), empty ranges left out.     *)
Build(workers) ==
  LET n    == Len(trace)
      size == (n + workers - 1) \div workers
  IN  MergePartials([w \in 1..((n + size - 1) \div size) |->
                       BuildRange((w - 1) * size + 1, Smaller(w * size, n))])

-----------------------------------------------------------------------------
(* Bisection in a sorted list.                                              *)

CountBelow(list, i) == Cardinality({k \in DOMAIN list : list[k] < i})
LastBefore(list, i) == LET n == CountBelow(list, i) IN IF n = 0 THEN 0 ELSE list[n]
NextAfter(list, i) ==
  LET n == CountBelow(list, i + 1) IN IF n = Len(list) THEN 0 ELSE list[n + 1]

LastDefBefore(ix, r, i) == LastBefore(ix.defs[r], i)

TraceInit == trace = <<>>

(* The tracer appends the next record of the call.                          *)
AppendRecord ==
  /\ Len(trace) < MaxRecords
  /\ \E insn \in (IF trace = <<>> THEN Starts ELSE Insns) : trace' = Append(trace, Decode(insn))
=============================================================================
