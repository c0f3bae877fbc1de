------------------------------- MODULE Taint -------------------------------
(* The taint walks of a trace: forward_taint_ext and backward_taint_ext of  *)
(* tracemiku-core/src/taint, which jump from one listed record to the next  *)
(* instead of reading the trace, the caps that stop them, and the graph the *)
(* answer draws (analysis/taint_graph.rs).                                  *)
(*                                                                          *)
(* The memory a walk sees is that of the recorded stores; the memory shadow *)
(* and its external writes are module MemShadow.                            *)
EXTENDS TraceIndex, FiniteSetsExt, Functions

CONSTANTS Frame,         \* sp, fp and lr: left out of a data-only walk
          Asked,         \* registers the queries are about
          Workers,       \* worker counts the index may be built with
          Caps,          \* max_count of the queries; 0 is none
          ScanLimits,    \* scan_limit of the queries; 0 is none
          NodeLimit,     \* TAINT_GRAPH_NODE_LIMIT
          EdgeLimit,     \* TAINT_GRAPH_EDGE_LIMIT
          Alphabet       \* "control", "mem" and the registers, as strings sort

VARIABLE answer          \* what the last query returned

taintVars == <<trace, answer>>

NoAnswer == [way |-> "none"]

(* A query is stopped by one limit at a time.                               *)
Queries == {q \in [reg : Asked, mem : BOOLEAN, data : BOOLEAN, cap : Caps, scan : ScanLimits] :
              q.cap = 0 \/ q.scan = 0}

Excluded(q) == IF q.data THEN Frame ELSE {}

-----------------------------------------------------------------------------
(* What an instruction does with its registers and operands.                *)

FirstOf(list, P(_)) == LET s == SelectSeq(list, P) IN IF s = <<>> THEN {} ELSE {s[1]}

AddressingRegs(rec) == UNION {{op.base, op.idx} : op \in ToSet(rec.ops)}

(* The register a load fills: that of its half, or the first defined one    *)
(* that is not the base it also writes back.                                *)
LoadDestRegs(rec, op) ==
  IF op.reg # NoReg THEN {op.reg}
  ELSE LET other == FirstOf(rec.def, LAMBDA r : r # op.base)
       IN  IF other = {} THEN FirstOf(rec.def, LAMBDA r : TRUE) ELSE other

LoadFeeds(rec, op, r) ==
  /\ ~op.write
  /\ LoadDestRegs(rec, op) = {} \/ r \in LoadDestRegs(rec, op)

StoreSourceRegs(rec, op) ==
  IF op.reg # NoReg THEN {op.reg} ELSE FirstOf(rec.use, LAMBDA r : r \notin {op.base, op.idx})

Overlaps(op, span) == Span(op) \cap span # {}

StoreSourcesFor(rec, span) ==
  UNION {StoreSourceRegs(rec, op) : op \in {o \in ToSet(Stores(rec)) : Overlaps(o, span)}}

(* The registers an instruction is fed from, in data_only without those it  *)
(* only addresses memory with.                                              *)
Uses(rec, q) == IF q.data THEN ToSet(rec.use) \ AddressingRegs(rec) ELSE ToSet(rec.use)

-----------------------------------------------------------------------------
(* Forward: a queue of the next records that use or define a tainted        *)
(* register, and one entry for the next record that touches tainted memory. *)

Seed == 0

(* push_next_reg_events: the first use and the first definition after i.    *)
RegEvents(ix, q, r, i) ==
  LET Event(kind) == LET n == CountBelow(ix[kind][r], i + 1) + 1
                     IN  IF n > Len(ix[kind][r]) THEN <<>>
                         ELSE <<[at |-> ix[kind][r][n], kind |-> kind, reg |-> r, pos |-> n]>>
  IN  IF r \in Excluded(q) THEN <<>> ELSE Event("uses") \o Event("defs")

(* MemTouchTracker: candidates <<record, byte>>, refreshed as they surface. *)
NextPosting(ix, x, i) ==
  LET next == {NextAfter(ix.reads[x], i), NextAfter(ix.writes[x], i)} \ {0}
  IN  IF next = {} THEN 0 ELSE Min(next)

Candidates(ix, bytes, i) ==
  {c \in {<<NextPosting(ix, x, i), x>> : x \in bytes} : c[1] # 0}

(* Mutant of Refreshed: what the walk has passed is dropped.                *)
RefreshedOnce(ix, st, i) == {c \in st.touch : c[2] \in DOMAIN st.mem /\ c[1] > i}

(* next_touch with the cursor at i: what is no longer tainted is dropped,   *)
(* what the walk has passed moves to its next touch.                        *)
Refreshed(ix, st, i) ==
  LET live == {c \in st.touch : c[2] \in DOMAIN st.mem}
      past == {c \in live : c[1] <= i}
  IN  (live \ past) \cup Candidates(ix, {c[2] : c \in past}, i)

PushNextMemTouch(ix, st, i) ==
  LET touch == Refreshed(ix, st, i)
      event == [at |-> Min({c[1] : c \in touch}), kind |-> "touch", reg |-> NoReg, pos |-> 0]
  IN  [st EXCEPT !.touch = touch, !.cursor = i,
                 !.heap = IF touch = {} THEN @ ELSE Append(@, event)]

(* write_span and clear_span: without through_mem only the first byte.      *)
Marked(op, q) == IF q.mem THEN Span(op) ELSE {op.at}

Put(f, S, v) == [x \in DOMAIN f \cup S |-> IF x \in S THEN v ELSE f[x]]
Without(f, S) == Restrict(f, DOMAIN f \ S)

WriteSpan(ix, st, bytes, i) ==
  [st EXCEPT !.mem = Put(@, bytes, i),
             !.touch = @ \cup Candidates(ix, bytes \ DOMAIN st.mem, st.cursor)]
ClearSpan(st, bytes) == [st EXCEPT !.mem = Without(@, bytes)]

SourceTainted(rec, st, op) == StoreSourceRegs(rec, op) \cap DOMAIN st.regs # {}

(* A clean overwrite ends the taint of what it overwrites.                  *)
Killed(ix, q, st, rec, i) ==
  LET st1 == IF rec.partial THEN st ELSE [st EXCEPT !.regs = Without(@, ToSet(rec.def))]
      Clear(s, op) == IF SourceTainted(rec, s, op) THEN s ELSE ClearSpan(s, Marked(op, q))
  IN  IF Touched(Stores(rec)) \cap DOMAIN st.mem = {} THEN st1
      ELSE PushNextMemTouch(ix, FoldLeft(Clear, st1, Stores(rec)), i)

(* The registers defined by a hit: those fed from a tainted register or a   *)
(* tainted load are tainted, those kept in part stay so, others end.        *)
DefsAfterHit(ix, q, st, rec, fed, i) ==
  LET Define(s, r) ==
        IF r \in Excluded(q) THEN s
        ELSE IF r \in fed \/ (rec.partial /\ r \in DOMAIN s.regs)
        THEN [s EXCEPT !.regs = Put(@, {r}, i),
                       !.heap = IF r \in DOMAIN s.regs THEN @ ELSE @ \o RegEvents(ix, q, r, i)]
        ELSE [s EXCEPT !.regs = Without(@, {r})]
  IN  FoldLeft(Define, st, rec.def)

StoresAfterHit(ix, q, st, rec, i) ==
  FoldLeft(LAMBDA s, op : IF SourceTainted(rec, s, op) THEN WriteSpan(ix, s, Marked(op, q), i)
                          ELSE ClearSpan(s, Marked(op, q)),
           st, Stores(rec))

(* What record i takes from the tainted registers and bytes: a load carries *)
(* the taint of its first tainted byte.                                     *)
Inflow(q, regs, mem, i) ==
  LET rec   == trace[i]
      used  == Uses(rec, q) \cap DOMAIN regs
      loads == {op \in ToSet(Loads(rec)) : Span(op) \cap DOMAIN mem # {}}
      dests == UNION {LoadDestRegs(rec, op) : op \in loads}
      all   == used # {} \/ (loads # {} /\ dests = {})
  IN  [hit  |-> used # {} \/ loads # {},
       from |-> ({regs[r] : r \in used} \cup {mem[Min(Span(op) \cap DOMAIN mem)] : op \in loads})
                  \ {Seed},
       fed  |-> dests \cup (IF all THEN ToSet(rec.def) ELSE {})]

Visit(ix, q, st, i) ==
  LET rec == trace[i]
      in  == Inflow(q, st.regs, st.mem, i)
      st1 == [st EXCEPT !.out = Append(@, [idx |-> i, parents |-> in.from]), !.dry = 0]
  IN  IF ~in.hit THEN Killed(ix, q, st, rec, i)
      ELSE PushNextMemTouch(ix, StoresAfterHit(ix, q, DefsAfterHit(ix, q, st1, rec, in.fed, i), rec, i), i)

StopAt(q, found, dry) ==
  IF q.cap # 0 /\ found >= q.cap THEN "max_count"
  ELSE IF q.scan # 0 /\ dry >= q.scan THEN "scan_limit" ELSE "none"

(* One turn of the loop: the earliest event, its successor in the same      *)
(* list, and the record itself unless it was visited already.               *)
ForwardPop(ix, q, st) ==
  LET n    == CHOOSE k \in DOMAIN st.heap : \A j \in DOMAIN st.heap : st.heap[k].at <= st.heap[j].at
      e    == st.heap[n]
      rest == RemoveAt(st.heap, n)
      next == IF e.kind = "touch" \/ e.pos = Len(ix[e.kind][e.reg]) THEN rest
              ELSE Append(rest, [e EXCEPT !.at = ix[e.kind][e.reg][e.pos + 1], !.pos = @ + 1])
      stop == StopAt(q, Len(st.out), st.dry)
      st1  == [st EXCEPT !.heap = next, !.dry = @ + 1, !.seen = @ \cup {e.at}]
  IN  IF stop # "none" THEN [st EXCEPT !.stop = stop]
      ELSE IF e.at \in st.seen THEN st1 ELSE Visit(ix, q, st1, e.at)

RECURSIVE ForwardLoop(_, _, _)
ForwardLoop(ix, q, st) ==
  IF st.stop # "none" THEN st
  ELSE IF st.heap = <<>> THEN [st EXCEPT !.stop = "completed"]
  ELSE ForwardLoop(ix, q, ForwardPop(ix, q, st))

Nowhere == [x \in {} |-> Seed]

ForwardTaint(ix, q, start) ==
  LET end == ForwardLoop(ix, q,
               [regs |-> Put(Nowhere, {q.reg}, Seed), mem |-> Nowhere, touch |-> {}, cursor |-> 1,
                heap |-> RegEvents(ix, q, q.reg, start), out |-> <<>>, seen |-> {},
                dry |-> 0, stop |-> "none"])
  IN  [hits |-> end.out, stop |-> end.stop]

-----------------------------------------------------------------------------
(* Backward: a queue of registers and byte ranges whose definition or       *)
(* writer before a record is wanted.                                        *)

RegItem(i, r, parents) == [kind |-> "reg", at |-> i, reg |-> r, span |-> {}, parents |-> parents]
MemItem(i, op) == [kind |-> "mem", at |-> i, reg |-> NoReg, span |-> Span(op), parents |-> {i}]

(* Mutant of LastCondBefore: the branch of a caller decides for its callee. *)
LastCondAnywhere(ix, i) == LastBefore(ix.conds, i)

(* The branch that decided whether i ran, unless a call or return lies      *)
(* between.                                                                 *)
LastCondBefore(ix, i) ==
  LET c == LastBefore(ix.conds, i) IN IF LastBefore(ix.bounds, i) > c THEN 0 ELSE c

Kept(list, q) == SelectSeq(list, LAMBDA r : r \notin Excluded(q))
RegItems(list, q, i) == LET k == Kept(list, q) IN [n \in DOMAIN k |-> RegItem(i, k[n], {i})]

Found(st, i, why, parents) ==
  [st EXCEPT !.raw = Append(@, [idx |-> i, why |-> why, parents |-> parents]), !.dry = 0]

(* push_control_dependency *)
WithControl(ix, q, st, i) ==
  LET c == LastCondBefore(ix, i)
  IN  IF q.data \/ c = 0 THEN st
      ELSE [Found(st, c, "control", {i}) EXCEPT !.pending = @ \o RegItems(trace[c].use, q, c)]

(* What record i made register r from.                                      *)
WithInputs(q, st, i, r) ==
  LET rec   == trace[i]
      uses  == SelectSeq(rec.use, LAMBDA u : u \in Uses(rec, q))
      loads == SelectSeq(rec.ops, LAMBDA op : LoadFeeds(rec, op, r))
  IN  [st EXCEPT !.pending = @ \o RegItems(uses, q, i) \o [n \in DOMAIN loads |-> MemItem(i, loads[n])]]

(* mem_writers_overlapping, latest first: the writers of the bytes of a     *)
(* range, or without through_mem of its first byte.                         *)
Writers(ix, q, span, i) ==
  LET bytes == IF q.mem THEN span ELSE {Min(span)}
      ws    == {LastBefore(ix.writes[x], i) : x \in bytes} \ {0}
  IN  SelectSeq([k \in 1..(i - 1) |-> i - k], LAMBDA j : j \in ws)

FromWriter(ix, q, st, item, j) ==
  LET st1 == WithControl(ix, q, Found(st, j, "mem", item.parents), j)
      src == StoreSourcesFor(trace[j], item.span) \ Excluded(q)
  IN  [st1 EXCEPT !.pending = @ \o SetToSeq({RegItem(j, r, {j}) : r \in src})]

FromDef(ix, q, st, item) ==
  LET j == LastDefBefore(ix, item.reg, item.at)
  IN  IF <<item.at, item.reg>> \in st.visited THEN st
      ELSE LET st1 == [st EXCEPT !.visited = @ \cup {<<item.at, item.reg>>}]
           IN  IF j = 0 THEN st1
               ELSE WithInputs(q, WithControl(ix, q, Found(st1, j, item.reg, item.parents), j), j, item.reg)

BackwardPop(ix, q, st) ==
  LET item == Head(st.pending)
      stop == StopAt(q, Len(st.raw), st.dry)
      st1  == [st EXCEPT !.pending = Tail(@), !.dry = @ + 1]
  IN  IF stop # "none" THEN [st EXCEPT !.stop = stop]
      ELSE IF item.kind = "reg" THEN FromDef(ix, q, st1, item)
      ELSE FoldLeft(LAMBDA s, j : FromWriter(ix, q, s, item, j), st1, Writers(ix, q, item.span, item.at))

RECURSIVE BackwardLoop(_, _, _)
BackwardLoop(ix, q, st) ==
  IF st.stop # "none" THEN st
  ELSE IF st.pending = <<>> THEN [st EXCEPT !.stop = "completed"]
  ELSE BackwardLoop(ix, q, BackwardPop(ix, q, st))

(* One row per record: of several findings the first in the sort by why.    *)
Rank(why) == CHOOSE n \in DOMAIN Alphabet : Alphabet[n] = why
Deduped(raw) ==
  LET first(i) == CHOOSE n \in DOMAIN raw :
                    /\ raw[n].idx = i
                    /\ \A k \in DOMAIN raw : raw[k].idx = i =>
                         Rank(raw[n].why) < Rank(raw[k].why)
                           \/ (raw[n].why = raw[k].why /\ n <= k)
      idxs == SelectSeq([i \in 1..Len(trace) |-> i], LAMBDA i : \E n \in DOMAIN raw : raw[n].idx = i)
  IN  [k \in DOMAIN idxs |-> [idx |-> idxs[k], parents |-> raw[first(idxs[k])].parents]]

BackwardTaint(ix, q, start) ==
  LET st0  == [pending |-> <<>>, visited |-> {}, raw |-> <<>>, dry |-> 0, stop |-> "none"]
      seed == WithInputs(q, WithControl(ix, q, Found(st0, start, q.reg, {}), start), start, q.reg)
      st   == IF q.reg \in Excluded(q) THEN st0
              ELSE IF q.reg \in ToSet(trace[start].def) THEN seed
              ELSE [st0 EXCEPT !.pending = <<RegItem(start, q.reg, {})>>]
      end  == BackwardLoop(ix, q, st)
  IN  [hits |-> Deduped(end.raw), stop |-> end.stop]

-----------------------------------------------------------------------------
(* build_taint_graph: nodes in the order of the rows, as many as fit, and   *)
(* the edges between nodes that are shown.  Node 0 is the synthetic seed.   *)

ParentEdges(row, parents) ==
  LET ps == SelectSeq([p \in 1..(Len(trace) + 1) |-> p - 1], LAMBDA p : p \in parents)
  IN  [n \in DOMAIN ps |-> <<ps[n], row.idx>>]

EdgesInto(row, seeded) ==
  ParentEdges(row, IF row.parents = {} /\ seeded THEN {0} ELSE row.parents)

TaintGraph(start, rows) ==
  LET seeded == \A n \in DOMAIN rows : rows[n].idx # start
      room   == IF seeded THEN NodeLimit - 1 ELSE NodeLimit
      shown  == {rows[n].idx : n \in {k \in DOMAIN rows : k <= room}}
      edges  == FlattenSeq([n \in DOMAIN rows |-> EdgesInto(rows[n], seeded)])
      open   == SelectSeq(edges, LAMBDA e : e[2] \in shown /\ (e[1] \in shown \/ e[1] = 0))
      drawn  == SubSeq(open, 1, Smaller(Len(open), EdgeLimit))
      total  == Len(rows) + (IF seeded THEN 1 ELSE 0)
      nodes  == shown \cup (IF seeded THEN {0} ELSE {})
  IN  [nodes |-> nodes, edges |-> drawn, node_count |-> total, edge_count |-> Len(edges),
       hidden_nodes |-> total - Cardinality(nodes), hidden_edges |-> Len(edges) - Len(drawn)]

-----------------------------------------------------------------------------

Init == TraceInit /\ answer = NoAnswer

Record == answer = NoAnswer /\ AppendRecord /\ UNCHANGED answer

Respond(way, q, start, walk) ==
  /\ answer = NoAnswer
  /\ answer' = [way |-> way, q |-> q, start |-> start, hits |-> walk.hits, stop |-> walk.stop,
                graph |-> TaintGraph(start, walk.hits)]
  /\ UNCHANGED trace

(* forward_taint_response: what a record defined is followed.               *)
Forward(q, w) ==
  \E start \in DOMAIN trace :
     /\ q.reg \in ToSet(trace[start].def)
     /\ Respond("forward", q, start, ForwardTaint(Build(w), q, start))

(* backward_taint_response: the value a register has at a record, here the  *)
(* last one, or is given there, is explained.                               *)
Backward(q, w) ==
  /\ trace # <<>>
  /\ Respond("backward", q, Len(trace), BackwardTaint(Build(w), q, Len(trace)))

Next == Record \/ \E q \in Queries, w \in Workers : Forward(q, w) \/ Backward(q, w)

Spec == Init /\ [][Next]_taintVars

-----------------------------------------------------------------------------
(* What the walks are for.                                                  *)

Idxs(rows) == {rows[n].idx : n \in DOMAIN rows}

(* The taint of every register and byte after each record in turn, with the *)
(* last hit that carried it.                                                *)
Propagated(q, start) ==
  LET After(st, i) ==
        LET rec  == trace[i]
            in   == Inflow(q, st.regs, st.mem, i)
            defs == ToSet(rec.def) \ Excluded(q)
            fed  == IF ~in.hit THEN {}
                    ELSE (defs \cap in.fed) \cup (IF rec.partial THEN defs \cap DOMAIN st.regs ELSE {})
            regs == Put(IF rec.partial THEN st.regs ELSE Without(st.regs, defs \ fed), fed, i)
            Store(m, op) ==
              IF StoreSourceRegs(rec, op) \cap DOMAIN regs = {} THEN Without(m, Marked(op, q))
              ELSE IF in.hit THEN Put(m, Marked(op, q), i) ELSE m
        IN  [regs |-> regs, mem |-> FoldLeft(Store, st.mem, Stores(rec)),
             hits |-> IF in.hit THEN Append(st.hits, [idx |-> i, parents |-> in.from]) ELSE st.hits,
             into |-> st.into \cup {<<i, r>> : r \in fed}]
  IN  FoldLeft(After, [regs |-> Put(Nowhere, {q.reg}, Seed), mem |-> Nowhere, hits |-> <<>>, into |-> {}],
               [k \in 1..(Len(trace) - start) |-> start + k])

(* A forward walk finds the records that reading the trace to its end       *)
(* finds, in that order and with the same parents; stopped at its cap it    *)
(* returns exactly as many of them, and it says completed only when nothing *)
(* was left.                                                                *)
ForwardExact ==
  answer.way = "forward" =>
    LET all == Propagated(answer.q, answer.start).hits
    IN  /\ IsPrefix(answer.hits, all)
        /\ answer.stop = "completed" => answer.hits = all
        /\ answer.stop = "max_count" => Len(answer.hits) = answer.q.cap

(* The definition before i, the writer before i: by looking at the trace.   *)
Latest(S) == IF S = {} THEN 0 ELSE Max(S)
DefBefore(r, i) == Latest({j \in 1..(i - 1) : r \in ToSet(trace[j].def)})
WriterBefore(x, i) == Latest({j \in 1..(i - 1) : x \in Touched(Stores(trace[j]))})
CondBefore(i) ==
  LET cut == Latest({j \in 1..(i - 1) : trace[j].flow \in {"call", "ret"}})
      c   == Latest({j \in 1..(i - 1) : trace[j].flow = "cond"})
  IN  IF c > cut THEN {c} ELSE {}

(* The records the value of r before i came from: the one that made it, the *)
(* branch that decided whether that ran, and what these took their inputs   *)
(* from.                                                                    *)
RECURSIVE Origins(_, _, _)
Ran(q, j) ==
  {j} \cup (IF q.data THEN {} ELSE
              UNION {{c} \cup UNION {Origins(q, c, u) : u \in ToSet(trace[c].use)} : c \in CondBefore(j)})
Stored(q, op, j) ==
  LET ws == {WriterBefore(x, j) : x \in (IF q.mem THEN Span(op) ELSE {op.at})} \ {0}
  IN  UNION {Ran(q, w) \cup UNION {Origins(q, w, s) : s \in StoreSourcesFor(trace[w], Span(op))} : w \in ws}
MadeBy(q, j, r) ==
  Ran(q, j) \cup UNION {Origins(q, j, u) : u \in Uses(trace[j], q)}
            \cup UNION {Stored(q, op, j) : op \in {o \in ToSet(trace[j].ops) : LoadFeeds(trace[j], o, r)}}
Origins(q, i, r) ==
  LET j == DefBefore(r, i) IN IF j = 0 \/ r \in Excluded(q) THEN {} ELSE MadeBy(q, j, r)

Explained(q, start) ==
  IF q.reg \in ToSet(trace[start].def) THEN MadeBy(q, start, q.reg) ELSE Origins(q, start, q.reg)

(* A completed backward walk finds the records the value came from, each    *)
(* once; a capped one finds some of them; and every record but the first of *)
(* a chain names a later record of the answer as the one it was found for.  *)
BackwardExact ==
  answer.way = "backward" =>
    LET all == Explained(answer.q, answer.start)
        got == answer.hits
    IN  /\ Idxs(got) \subseteq all
        /\ answer.stop = "completed" => Idxs(got) = all
        /\ \A n \in DOMAIN got : \A p \in got[n].parents : p > got[n].idx /\ p \in Idxs(got)
        /\ \A n \in 2..Len(got) : got[n - 1].idx < got[n].idx

(* What the machine does, operand by operand: from where each register and  *)
(* byte an instruction writes takes its value.                              *)
InRegs(S) == {<<"reg", r>> : r \in S}
InBytes(m, k) == {<<"byte", x>> : x \in (m.at + (k - 1) * m.width) .. (m.at + k * m.width - 1)}

Assign(insn, n, from) == {[to |-> InRegs({insn.regs[n]}), from |-> from]}
StoreFrom(insn, n) ==
  {[to |-> InBytes(insn.mem[1], k - n + 1), from |-> InRegs({insn.regs[k]})] : k \in n..Len(insn.regs)}
Rest(insn, n) == InRegs({insn.regs[k] : k \in n..Len(insn.regs)})

MachineFlows(insn) ==
  CASE insn.kind = "mov"            -> Assign(insn, 1, Rest(insn, 2))
    [] insn.kind = "movk"           -> Assign(insn, 1, Rest(insn, 1))
    [] insn.kind = "cmp"            -> {[to |-> InRegs({"nzcv"}), from |-> Rest(insn, 1)]}
    [] insn.kind \in {"ldr", "ldp"} -> UNION {Assign(insn, k, InBytes(insn.mem[1], k)) : k \in DOMAIN insn.regs}
    [] insn.kind \in {"str", "stp"} -> StoreFrom(insn, 1)
    [] insn.kind \in Exclusives     -> Assign(insn, 1, {}) \cup StoreFrom(insn, 2)
    [] OTHER                        -> {}

MachineReads(insn) ==
  CASE insn.kind = "b.cond"         -> InRegs({"nzcv"})
    [] insn.kind \in {"cbz", "ret"} -> Rest(insn, 1)
    [] OTHER -> UNION {f.from : f \in MachineFlows(insn)} \cup InRegs({m.base : m \in ToSet(insn.mem)})

(* Where the value went on the machine, and who read it there.              *)
MachineTaint(q, start) ==
  LET After(st, i) ==
        LET flows == MachineFlows(trace[i].insn)
            fed   == UNION {f.to : f \in {x \in flows : x.from \cap st.at # {}}}
        IN  [at |-> (st.at \ UNION {f.to : f \in flows}) \cup fed,
             readers |-> st.readers
                           \cup (IF MachineReads(trace[i].insn) \cap st.at = {} THEN {} ELSE {i})]
  IN  FoldLeft(After, [at |-> InRegs({q.reg}), readers |-> {}],
               [k \in 1..(Len(trace) - start) |-> start + k]).readers

(* A walk through memory misses no record that reads the value on the       *)
(* machine, but for a partial overwrite of it, which keeps the taint        *)
(* without being listed.                                                    *)
MissesNoReader ==
  (answer.way = "forward" /\ answer.stop = "completed" /\ answer.q.mem /\ ~answer.q.data) =>
    {i \in MachineTaint(answer.q, answer.start) : ~trace[i].partial} \subseteq Idxs(answer.hits)

(* Following a value and explaining one agree: a record a value flows into, *)
(* byte by byte of memory, has the record it came from among the records    *)
(* that explain what it defines.  (A partial overwrite is left out: going   *)
(* back from one, the old part of the register is lost.)                    *)
FlowsAgree ==
  (answer.way = "forward" /\ answer.stop = "completed" /\ answer.q.mem
     /\ \A i \in DOMAIN trace : ~trace[i].partial) =>
    \A f \in Propagated(answer.q, answer.start).into :
       LET q == [answer.q EXCEPT !.reg = f[2], !.cap = 0, !.scan = 0]
       IN  answer.start \in Idxs(BackwardTaint(Build(1), q, f[1]).hits)

(* The graph hides nothing it does not count, and when it hides nothing     *)
(* every record of it is reached from where the walk began.                 *)
GraphWhole ==
  answer.way # "none" =>
    LET g     == answer.graph
        drawn == ToSet(g.edges)
        root  == IF 0 \in g.nodes THEN 0 ELSE answer.start
        Grow(S, i) == S \cup {e[2] : e \in {d \in drawn : d[1] \in S}}
    IN  /\ Cardinality(g.nodes) + g.hidden_nodes = g.node_count
        /\ Len(g.edges) + g.hidden_edges = g.edge_count
        /\ Cardinality(drawn) = Len(g.edges) /\ drawn \subseteq g.nodes \X g.nodes
        /\ g.hidden_nodes = 0 /\ g.hidden_edges = 0 =>
             /\ g.nodes = Idxs(answer.hits) \cup {root}
             /\ FoldLeft(Grow, {root}, <<0>> \o trace) = g.nodes

(* Where a value goes is found, and agrees with where it came from          *)
(* (taint/forward.rs forward_taint_ext).                                    *)
FlowsExact == ForwardExact /\ FlowsAgree

(* Where a value came from is found, and its graph shows it                 *)
(* (taint/backward.rs backward_taint_ext, analysis/taint_graph.rs).         *)
OriginsExact == BackwardExact /\ GraphWhole
=============================================================================
