--------------------------- MODULE ControlQueries ---------------------------
(***************************************************************************)
(* The reports made from the control flow of a recorded call: frame depths *)
(* scanned in parallel (taint/mod.rs), function summaries                  *)
(* (analysis_index.rs), the call chain along the link register             *)
(* (navigation.rs), a function's summary (fn_summary.rs), the targets of   *)
(* register branches (indirect_targets.rs), a block in detail              *)
(* (navigation.rs), and records per module (so_stats.rs, symbols.rs).      *)
(***************************************************************************)
EXTENDS ControlFlow

CONSTANTS Layouts,  \* sequences of loaded modules [base, end], disjoint
          Workers,  \* numbers of threads a scan may use
          MaxListed \* entries a list of a report may hold

ASSUME ControlQueriesAssumption == /\ Workers \subseteq Nat \ {0}
                                   /\ MaxListed \in Nat

Take(s, n) == SubSeq(s, 1, Min({n, Len(s)}))
AscendingPcs(S) == SelectSeq([pc \in 1 .. Max(DOMAIN code) |-> pc], LAMBDA pc : pc \in S)

\* The n heaviest, the smaller PC first among equals.
Ranked(weight, n) ==
  LET better(x) == {y \in DOMAIN weight : \/ weight[y] > weight[x]
                                          \/ weight[y] = weight[x] /\ y < x}
  IN [k \in 1 .. Min({n, Cardinality(DOMAIN weight)}) |->
        CHOOSE x \in DOMAIN weight : Cardinality(better(x)) = k - 1]

(***************************************************************************)
(* Frame depths: flags scanned by several threads, then one serial pass.   *)
(***************************************************************************)
Flag(i) == IF IsCall(i) THEN "call" ELSE IF IsRet(i) THEN "ret" ELSE "none"

ChunkSize(workers) == (Len(trace) + workers - 1) \div workers
Chunks(workers) ==
  {w \in [start : {k * ChunkSize(workers) + 1 : k \in 0 .. workers - 1}, end : Indices] :
     w.start <= w.end /\ w.end = Min({w.start + ChunkSize(workers) - 1, Len(trace)})}
ScanRange(chunk) == [i \in chunk.start .. chunk.end |-> Flag(i)]
ScanFlags(workers) ==
  [i \in Indices |->
     LET mine == {c \in Chunks(workers) : i \in c.start .. c.end}
     IN IF mine = {} THEN "none" ELSE ScanRange(CHOOSE c \in mine : TRUE)[i]]

FrameDepths(workers) ==
  LET flags == ScanFlags(workers)
      after[i \in 0 .. Len(trace)] ==
        IF i = 0 THEN 0
        ELSE CASE flags[i] = "call" -> after[i - 1] + 1
               [] flags[i] = "ret"  -> Max({after[i - 1] - 1, 0})
               [] OTHER             -> after[i - 1]
  IN [i \in Indices |-> after[i - 1]]

(***************************************************************************)
(* Summaries of the functions in the call tree, and the chain of callers.  *)
(***************************************************************************)
FnPc(node) == IF node.enter < Len(trace) THEN PcAt(node.enter + 1) ELSE None

\* [f |-> what the tree says of the function entered at f]
FunctionSummaries(tree) ==
  LET nodes == {n \in tree : n.depth > 0}
  IN [f \in {FnPc(n) : n \in nodes} |->
        LET own == {n \in nodes : FnPc(n) = f}
        IN [calls   |-> Cardinality(own),
            records |-> MapThenSumSet(LAMBDA n : n.exit - n.enter + 1, own),
            first   |-> Min({n.enter : n \in own}),
            last    |-> Max({n.exit : n \in own}),
            depth   |-> Max({n.depth : n \in own})]]

LastPcBefore(pc, before) == Max({None} \cup {i \in Indices : PcAt(i) = pc /\ i < before})

\* The records found by following the link register, `depth` of them at most.
CallChain(i, depth) ==
  LET chain[n \in 1 .. depth] ==
        IF n = 1 THEN <<i>>
        ELSE LET past == chain[n - 1]
                 cur == Last(past)
                 caller == Max({trace[cur].lr - 1, None})
                 next == LastPcBefore(caller, cur)
             IN IF Len(past) < n - 1 \/ caller = None \/ next = None THEN past
                ELSE Append(past, next)
  IN chain[depth]

(***************************************************************************)
(* A function, its hot blocks and callees; a block and its exits.          *)
(***************************************************************************)
FnSummary(g, f, top) ==
  LET blocks == BlocksOf(g, f)
      entry == Min(blocks)
      executed == [b \in blocks |-> Executions(b)]
  IN [pc      |-> entry,
      total   |-> SumFunction(executed),
      entries |-> Take(IdxsOfPc(entry), MaxListed),
      entered |-> Len(IdxsOfPc(entry)),
      hot     |-> Ranked(executed, top),
      callees |-> Ranked(CalleeCounts(g, f), MaxListed)]

\* The graph of one function, or of one block: listed blocks, and edges between them.
CfgResponse(g, keep, kept) ==
  LET total == Blocks(g) \cap keep
      listed == Range(Take(AscendingPcs(total), MaxListed))
      edges == DOMAIN g.edges \cap kept
      shown == {e \in edges : {e[1], e[2]} \subseteq listed}
  IN [blocks |-> listed, edges |-> shown, total |-> Cardinality(total),
      truncated |-> total # listed \/ edges # shown]

BlockDetail(g, pc) ==
  LET b == BlockContaining(g, pc)
      pcs == AscendingPcs(BlockPcs(g, b))
      exits == AscendingPcs({e[2] : e \in EdgesFrom(g, b)})
  IN [block |-> b, insns |-> Take(pcs, MaxListed), exits |-> Take(exits, MaxListed),
      truncated |-> Len(pcs) > MaxListed \/ Len(exits) > MaxListed]

\* The functions of the index, and how many there are beyond the list.
FunctionsResponse(g) ==
  LET all == AscendingPcs(SymbolPcs \ {Outside}) \o IF Outside \in SymbolPcs THEN <<Outside>> ELSE <<>>
  IN [functions |-> [k \in DOMAIN Take(all, MaxListed) |-> FunctionEntry(g, all[k])],
      truncated |-> Len(all) > MaxListed]

(***************************************************************************)
(* Targets of a register branch.                                           *)
(***************************************************************************)
Dispatching == {pc \in ExecutedPcs : code[pc].kind \in {"br", "blr"}}

IndirectTargets(pc, minCount) ==
  LET all == DispatchTargets(pc)
  IN [status  |-> IF pc \in Dispatching THEN "hit" ELSE "no_dispatch",
      total   |-> SumFunction(all),
      targets |-> SelectSeq(Ranked(all, Cardinality(DOMAIN all)), LAMBDA t : all[t] >= minCount)]

IndirectSources ==
  Ranked([pc \in Dispatching |-> IndirectTargets(pc, 1).total], MaxListed)

(***************************************************************************)
(* Modules, and the records in each.                                       *)
(***************************************************************************)
Resolve(mods, pc) ==
  LET inside == {k \in DOMAIN mods : mods[k].base <= pc /\ pc < mods[k].end}
  IN IF inside = {} THEN None ELSE CHOOSE k \in inside : \A j \in inside : mods[k].base <= mods[j].base
RelativeOffset(mods, pc) ==
  LET k == Resolve(mods, pc) IN IF k = None THEN pc ELSE pc - mods[k].base

\* Where a PC is and when it ran: [module, offset, count, first, last].
CoordForPc(mods, pc) ==
  LET idxs == IdxsOfPc(pc)
  IN [module |-> Resolve(mods, pc), offset |-> RelativeOffset(mods, pc), count |-> Len(idxs),
      first |-> IF idxs = <<>> THEN None ELSE Head(idxs),
      last  |-> IF idxs = <<>> THEN None ELSE Last(idxs)]

SoStats(mods) ==
  LET holder(pc) == Min({Len(mods) + 1} \cup {k \in DOMAIN mods : mods[k].base <= pc /\ pc < mods[k].end})
      recordsOf(k) == MapThenSumSet(Executions, {pc \in ExecutedPcs : holder(pc) = k})
      counts == [k \in {j \in DOMAIN mods : recordsOf(j) > 0} |-> recordsOf(k)]
  IN [modules |-> Ranked(counts, MaxListed), counts |-> counts, unknown |-> recordsOf(Len(mods) + 1)]

(***************************************************************************)
(* Properties.                                                             *)
(***************************************************************************)

\* The nesting of calls is one fact wherever it is asked: the tree and the stack are the calls
\* that have not returned, the frame depth of a record is their number however the scan was
\* divided, a function's summary spans its activations and counts a record once for each of them
\* around it, and the call chain goes back in time, from a return to the site it returns to when all
\* calls were to recorded code
\* (calltree.rs, navigation.rs, taint/mod.rs build_frame_depth_map, analysis_index.rs).
CallsTrue ==
  trace # <<>> =>
  LET tree == CallTree
      summaries == FunctionSummaries(tree)
      around(f, i) == {n \in tree : n.depth > 0 /\ FnPc(n) = f /\ n.enter <= i /\ i <= n.exit}
  IN /\ NestingExact
     /\ \A w \in Workers, i \in Indices : FrameDepths(w)[i] = Cardinality(OpenAt(i - 1))
     /\ \A f \in DOMAIN summaries :
          /\ summaries[f].records = MapThenSumSet(LAMBDA i : Cardinality(around(f, i)), Indices)
          /\ \A i \in Indices : around(f, i) # {} => i \in summaries[f].first .. summaries[f].last
     /\ \A i \in Indices :
          LET chain == CallChain(i, MaxDepth + 1) IN
          /\ \A n \in 2 .. Len(chain) : chain[n] < chain[n - 1] /\ IsCall(chain[n])
          /\ \A c \in 1 .. i : Matched(c, i) /\ (\A pc \in ExecutedPcs : Outside \notin code[pc].to) =>
               Len(chain) > 1 /\ PcAt(chain[2]) = PcAt(c) /\ chain[2] >= c

\* What a report lists is part of the run and what it leaves out is less: a summary's hottest
\* blocks, a capped graph with only edges between listed blocks, a block's own instructions and
\* exits; a branch through a register to recorded code is an edge of the graph; and every record
\* is counted in the one module it ran in (fn_summary.rs, cfg.rs, indirect_targets.rs, so_stats.rs).
ReportsTrue ==
  trace # <<>> =>
  LET g == Cfg IN
    /\ \A f \in {f \in SymbolPcs : BlocksOf(g, f) # {}} :
         LET s == FnSummary(g, f, MaxListed)
             r == CfgResponse(g, BlocksOf(g, f), FilteredEdges(g, f))
         IN /\ s.total = FunctionEntry(g, f).records
            /\ \A b \in BlocksOf(g, f) \ Range(s.hot), h \in Range(s.hot) : Executions(h) >= Executions(b)
            /\ s.entered = Cardinality({i \in Indices : PcAt(i) = s.pc})
            /\ r.edges \subseteq ReturnedEdges(g, f)
            /\ ~r.truncated => r.blocks = BlocksOf(g, f)
    /\ \A i \in Indices :
         LET d == BlockDetail(g, PcAt(i))
             one == CfgResponse(g, {Owner(i)}, {<<Owner(i), Owner(i)>>})
         IN /\ d.block = Owner(i)
            /\ ~d.truncated => /\ PcAt(i) \in Range(d.insns)
                               /\ i < Len(trace) /\ PcAt(i) = g.ends[d.block] /\ Adjacent(i)
                                    => PcAt(i + 1) \in Range(d.exits)
            /\ MaxListed > 0 => one.blocks = {Owner(i)}
    /\ \A i \in 1 .. Len(trace) - 1 :
         LET to == trace[i].to IN
         /\ to # None => \E k \in DOMAIN IndirectTargets(PcAt(i), 1).targets :
                             IndirectTargets(PcAt(i), 1).targets[k] = to
         /\ to \notin {None, Outside} /\ code[to].seen => <<Owner(i), to>> \in DOMAIN g.edges
    /\ \A mods \in Layouts :
         LET s == SoStats(mods) IN
         /\ SumFunction(s.counts) + s.unknown = Len(trace)
         /\ \A k \in DOMAIN s.counts :
              s.counts[k] = Cardinality({i \in Indices : Resolve(mods, PcAt(i)) = k})
         /\ \A pc \in ExecutedPcs : LET c == CoordForPc(mods, pc) IN
              /\ c.count = Executions(pc)
              /\ c.module # None => mods[c.module].base + c.offset = pc

\* The graph is the run, and its loops and one-sided branches are what ran
\* (cfg.rs build_cfg, navigation.rs loops_response, coverage.rs).
GraphTrue == GraphExact /\ ShapeTrue

\* Every answer about functions, blocks and their records agrees with the run
\* (fn_summary.rs, analysis/cfg.rs, indirect_targets.rs, so_stats.rs).
AnswersTrue == FunctionsAgree /\ HitsWhole /\ ReportsTrue
=============================================================================
