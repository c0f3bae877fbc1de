---------------------------- MODULE ControlFlow ----------------------------
(***************************************************************************)
(* What the analyses derive from the branches of a recorded call: the      *)
(* block graph, loops and coverage (cfg.rs, navigation.rs, coverage.rs),   *)
(* the call tree and the call stack at a record (calltree.rs,              *)
(* navigation.rs), the functions (symbols.rs, function_index.rs,           *)
(* fn_summary.rs) and the pages of records at a block (analysis/cfg.rs).   *)
(*                                                                         *)
(* The state is a program, the records its run has left so far, and the    *)
(* calls that have really not returned.  Only the traced module leaves     *)
(* records: a callee outside it is one step of its caller.  PCs count      *)
(* instructions and indices start at 1 (the code: bytes and 0).            *)
(***************************************************************************)
EXTENDS Integers, FiniteSets, Sequences, SequencesExt, FiniteSetsExt, Functions, TLC

CONSTANTS Programs,   \* functions from PCs to instructions
          Outside,    \* every PC outside the traced module
          Known,      \* PCs named by known_offsets
          MaxRecords, \* bound on the records of a run
          MaxDepth,   \* frames a call tree may nest
          PageSize    \* records in a page of hits, and in a list near a cursor

ASSUME ControlFlowAssumption == /\ MaxDepth \in Nat
                                /\ PageSize \in Nat \ {0}

None == 0

VARIABLES code,  \* the program: PC -> [kind, to, seen]
          at,    \* the instruction to run next, None when the entry has returned
          trace, \* records [pc, to, lr]: `to` is the register an indirect branch reads
          live,  \* indices of the records whose calls have not returned
          link   \* the link register; a function has restored it when it returns

vars == <<code, at, trace, live, link>>

(***************************************************************************)
(* The traced run.                                                         *)
(***************************************************************************)
Init == /\ code \in Programs
        /\ at = 1
        /\ trace = <<>>
        /\ live = <<>>
        /\ link = None

\* A transformed block that uses the exclusive monitor leaves no record.
Recorded(to, lr) ==
  trace' = IF code[at].seen THEN Append(trace, [pc |-> at, to |-> to, lr |-> lr]) ELSE trace

ReturnAddress == IF live = <<>> THEN None ELSE trace[Last(live)].pc + 1

\* Straight-line code, and a branch that is taken or not.
Plain ==
  /\ code[at].kind \in {"nop", "b", "b.cond"}
  /\ Recorded(None, link)
  /\ at' \in (IF code[at].kind = "b" THEN {} ELSE {at + 1}) \cup code[at].to
  /\ UNCHANGED <<code, live, link>>

\* A call: a callee outside runs and returns without a record.
Call ==
  /\ code[at].kind \in {"bl", "blr"}
  /\ \E to \in code[at].to :
       /\ Recorded(IF code[at].kind = "blr" THEN to ELSE None, link)
       /\ at' = IF to = Outside THEN at + 1 ELSE to
       /\ live' = IF to = Outside THEN live ELSE Append(live, Len(trace) + 1)
  /\ link' = at + 1
  /\ UNCHANGED code

Leave ==
  /\ at' = ReturnAddress
  /\ link' = ReturnAddress
  /\ live' = IF live = <<>> THEN live ELSE Front(live)

Return ==
  /\ code[at].kind = "ret"
  /\ Recorded(None, ReturnAddress)
  /\ Leave
  /\ UNCHANGED code

\* A jump through a register; one to the outside is a tail call, which returns for its caller.
Jump ==
  /\ code[at].kind = "br"
  /\ \E to \in code[at].to :
       /\ Recorded(to, IF to = Outside THEN ReturnAddress ELSE link)
       /\ IF to = Outside THEN Leave ELSE at' = to /\ UNCHANGED <<live, link>>
  /\ UNCHANGED code

Next ==
  /\ at # None
  /\ Len(trace) < MaxRecords
  /\ Plain \/ Call \/ Return \/ Jump

Spec == Init /\ [][Next]_vars

(***************************************************************************)
(* Decoding and the index by PC.                                           *)
(***************************************************************************)
Indices == 1 .. Len(trace)
PcAt(i) == trace[i].pc
KindAt(i) == code[PcAt(i)].kind
IsBranch(i) == KindAt(i) # "nop"
IsCall(i) == KindAt(i) \in {"bl", "blr"}
IsRet(i) == KindAt(i) = "ret"
ExecutedPcs == {PcAt(i) : i \in Indices}
Ascending(S) == SelectSeq([i \in Indices |-> i], LAMBDA i : i \in S)
IdxsOfPc(pc) == Ascending({i \in Indices : PcAt(i) = pc})

(***************************************************************************)
(* Symbols.  An entry is in the module or, for a target outside, alone.    *)
(***************************************************************************)
AutoTargets == UNION {IF KindAt(i) = "bl" THEN code[PcAt(i)].to ELSE {} : i \in Indices}
SymbolPcs == Known \cup AutoTargets
InSameModule(entry, pc) == entry # Outside \/ pc = entry
LookupEntry(pc) == Max({None} \cup {e \in SymbolPcs : e <= pc /\ InSameModule(e, pc)})

(***************************************************************************)
(* build_cfg: one walk over the records.                                   *)
(***************************************************************************)
StartPcs == {PcAt(i) : i \in {i \in Indices : i = 1 \/ IsBranch(i - 1)}}

AddObservedEdge(edges, from, to, kind) ==
  IF <<from, to>> \in DOMAIN edges
  THEN [edges EXCEPT ![<<from, to>>].count = @ + 1]
  ELSE edges @@ (<<from, to>> :> [kind |-> kind, count |-> 1])

EndsAtLatest(ends, start, pc) == IF start = None THEN ends ELSE (start :> pc) @@ ends

EndsAt(ends, start, pc) ==
  IF start = None THEN ends
  ELSE (start :> Max({pc} \cup (IF start \in DOMAIN ends THEN {ends[start]} ELSE {}))) @@ ends

\* A record that starts a block closes the block before it, one that does not extends it.
Enter(w, i) ==
  LET starts == PcAt(i) \in StartPcs
      falls == starts /\ w.start # None /\ ~IsBranch(i - 1) /\ PcAt(i - 1) + 1 = PcAt(i)
  IN [w EXCEPT !.start = IF starts THEN PcAt(i) ELSE @,
               !.end   = PcAt(i),
               !.ends  = EndsAt(@, w.start, IF starts THEN w.end ELSE PcAt(i)),
               !.edges = IF falls THEN AddObservedEdge(@, w.start, PcAt(i), "fall") ELSE @]

\* A branch leaves an edge to the next record; a return one more, from the block of its call.
Branch(w, i) ==
  LET paired == IsRet(i) /\ w.calls # <<>>
      returned == IF paired /\ i < Len(trace)
                  THEN AddObservedEdge(w.edges, Last(w.calls), PcAt(i + 1), "call-return")
                  ELSE w.edges
  IN [w EXCEPT !.start = None,
               !.ends  = EndsAt(@, w.start, PcAt(i)),
               !.calls = IF IsCall(i) THEN Append(@, w.start) ELSE IF paired THEN Front(@) ELSE @,
               !.edges = IF i < Len(trace)
                         THEN AddObservedEdge(returned, w.start, PcAt(i + 1), KindAt(i))
                         ELSE returned]

Walk ==
  LET walk[i \in 0 .. Len(trace)] ==
        IF i = 0 THEN [start |-> None, end |-> None, ends |-> <<>>, edges |-> <<>>, calls |-> <<>>]
        ELSE LET w == Enter(walk[i - 1], i) IN IF IsBranch(i) THEN Branch(w, i) ELSE w
  IN walk[Len(trace)]

\* The graph: nodes with their ends and edges between known nodes.
Cfg ==
  LET w == Walk
      ends == EndsAt(w.ends, w.start, w.end)
  IN [ends  |-> ends,
      edges |-> Restrict(w.edges, {e \in DOMAIN w.edges : {e[1], e[2]} \subseteq DOMAIN ends})]

Blocks(g) == DOMAIN g.ends
Executions(pc) == Cardinality({i \in Indices : PcAt(i) = pc})
BlockContaining(g, pc) ==
  LET start == Max({None} \cup {s \in Blocks(g) : s <= pc})
  IN IF start # None /\ pc <= g.ends[start] THEN start ELSE None
EdgesFrom(g, s) == {e \in DOMAIN g.edges : e[1] = s}

\* Strongly connected components: petgraph's, as mutual reachability.
Reach(g) ==
  LET close[n \in 0 .. Cardinality(Blocks(g))] ==
        IF n = 0 THEN DOMAIN g.edges
        ELSE LET near == close[n - 1]
             IN near \cup {<<p[1][1], p[2][2]>> :
                             p \in {q \in near \X DOMAIN g.edges : q[1][2] = q[2][1]}}
  IN close[Cardinality(Blocks(g))]
Scc(g, reach, b) == {b} \cup {c \in Blocks(g) : <<b, c>> \in reach /\ <<c, b>> \in reach}

LoopsBySize(g) == {m \in {Scc(g, Reach(g), b) : b \in Blocks(g)} : Cardinality(m) >= 2}

Loops(g) ==
  LET reach == Reach(g)
  IN {m \in {Scc(g, reach, b) : b \in Blocks(g)} :
        Cardinality(m) >= 2 \/ \E b \in m : <<b, b>> \in DOMAIN g.edges}

(***************************************************************************)
(* coverage: a conditional branch that kept one direction.                 *)
(***************************************************************************)
Conditional(g, b) == code[g.ends[b]].kind = "b.cond"
BranchPoints(g) ==
  {b \in Blocks(g) : LET n == Cardinality(EdgesFrom(g, b))
                     IN n > 1 \/ (Conditional(g, b) /\ n > 0)}
OneSided(g) == {b \in BranchPoints(g) : Conditional(g, b) /\ Cardinality(EdgesFrom(g, b)) < 2}

(***************************************************************************)
(* Calls and returns: the call tree and the stack at a record.             *)
(***************************************************************************)
Events == Ascending(UNION {Range(IdxsOfPc(pc)) : pc \in {p \in ExecutedPcs :
                 code[p].kind \in {"bl", "blr", "ret"}}})

Frame(enter, depth) == [enter |-> enter, depth |-> depth, cut |-> 0]
Closed(open, exit) ==
  [enter |-> Last(open).enter, exit |-> exit, depth |-> Last(open).depth, cut |-> Last(open).cut,
   parent |-> IF Len(open) > 1 THEN open[Len(open) - 1].enter ELSE None]

\* A call at the deepest frame is counted there, and its return is skipped.
Push(w, i) ==
  LET n == Len(w.open) IN
  IF w.open[n].depth + 1 > MaxDepth
  THEN [w EXCEPT !.open[n].cut = @ + 1, !.skip = @ + 1]
  ELSE [w EXCEPT !.open = Append(@, Frame(i, w.open[n].depth + 1))]
PopUnskipped(w, i) ==
  IF Len(w.open) = 1 THEN w
  ELSE [w EXCEPT !.open = Front(@), !.nodes = @ \cup {Closed(w.open, i)}]

Pop(w, i) ==
  IF w.skip > 0 THEN [w EXCEPT !.skip = @ - 1]
  ELSE IF Len(w.open) = 1 THEN w
  ELSE [w EXCEPT !.open = Front(@), !.nodes = @ \cup {Closed(w.open, i)}]

\* The nodes of the tree; a frame still open at the end closes with the trace.
CallTree ==
  LET w == FoldLeft(LAMBDA v, i : IF IsCall(i) THEN Push(v, i) ELSE Pop(v, i),
                    [open |-> <<Frame(None, 0)>>, nodes |-> {}, skip |-> 0], Events)
  IN w.nodes \cup {Closed(SubSeq(w.open, 1, k), Len(trace)) : k \in 1 .. Len(w.open)}

\* The frames at a record, outermost first, and the innermost `limit` of them.
Stack(i) ==
  FoldLeft(LAMBDA stack, e : IF IsCall(e) THEN Append(stack, e)
                             ELSE IF stack = <<>> THEN stack ELSE Front(stack),
           <<>>, SelectSeq(Events, LAMBDA e : e <= i))
Backtrace(i, limit) == LET s == Stack(i)
                       IN SubSeq(s, Len(s) - Min({limit, Len(s)}) + 1, Len(s))

(***************************************************************************)
(* Functions: counted by the index, by a summary and by the filtered graph.*)
(***************************************************************************)
BlocksOf(g, f) == {b \in Blocks(g) : LookupEntry(b) = f}
FunctionEntry(g, f) == [blocks  |-> Cardinality(BlocksOf(g, f)),
                        records |-> MapThenSumSet(Executions, BlocksOf(g, f))]
CalleeEdges(g, f) ==
  LET out == {e \in DOMAIN g.edges : e[1] \in BlocksOf(g, f) /\ g.edges[e].kind \in {"bl", "blr"}}
  IN [d \in {e[2] : e \in out} |-> Cardinality({e \in out : e[2] = d})]

CalleeCounts(g, f) ==
  LET out == {e \in DOMAIN g.edges : e[1] \in BlocksOf(g, f) /\ g.edges[e].kind \in {"bl", "blr"}}
  IN [d \in {e[2] : e \in out} |->
        MapThenSumSet(LAMBDA e : g.edges[e].count, {e \in out : e[2] = d})]
\* Edges that touch the function, of which only those inside it are returned.
FilteredEdges(g, f) == {e \in DOMAIN g.edges : f \in {LookupEntry(e[1]), LookupEntry(e[2])}}
ReturnedEdges(g, f) == {e \in FilteredEdges(g, f) : {e[1], e[2]} \subseteq BlocksOf(g, f)}

\* Targets of a branch through a register, with how often each was read.
DispatchTargets(pc) ==
  LET read == {i \in Indices : PcAt(i) = pc /\ KindAt(i) \in {"br", "blr"}}
  IN [to \in {trace[i].to : i \in read} |-> Cardinality({i \in read : trace[i].to = to})]

(***************************************************************************)
(* Records at a block: pages merged from the lists of its PCs.             *)
(***************************************************************************)
BlockPcs(g, b) == {pc \in ExecutedPcs : b <= pc /\ pc <= g.ends[b]}
IdxsForBlock(g, b) == Ascending(UNION {Range(IdxsOfPc(pc)) : pc \in b .. g.ends[b]})

FirstAfter(pc, cursor) == Cardinality({i \in Indices : PcAt(i) = pc /\ i <= cursor}) + 1

FirstAt(pc, cursor) == Cardinality({i \in Indices : PcAt(i) = pc /\ i < cursor}) + 1
HeapEntry(pc, pos) == IF pos > Len(IdxsOfPc(pc)) THEN {} ELSE {<<IdxsOfPc(pc)[pos], pc, pos>>}

\* One page from a cursor: [idxs, total, next].
Page(g, b, cursor) ==
  LET heap == UNION {HeapEntry(pc, FirstAt(pc, cursor)) : pc \in BlockPcs(g, b)}
      total == MapThenSumSet(LAMBDA pc : Len(IdxsOfPc(pc)) + 1 - FirstAt(pc, cursor), BlockPcs(g, b))
      pop[n \in 0 .. PageSize] ==
        IF n = 0 THEN [heap |-> heap, idxs |-> <<>>]
        ELSE LET p == pop[n - 1] IN
             IF p.heap = {} THEN p
             ELSE LET top == CHOOSE h \in p.heap : \A k \in p.heap : h[1] <= k[1]
                  IN [heap |-> (p.heap \ {top}) \cup HeapEntry(top[2], top[3] + 1),
                      idxs |-> Append(p.idxs, top[1])]
      page == pop[PageSize]
  IN [idxs |-> page.idxs, total |-> total,
      next |-> IF page.heap = {} THEN None ELSE Last(page.idxs) + 1]

\* Records of a PC on either side of a cursor, the nearest first.
IdxsForPc(pc, cursor) ==
  LET all == IdxsOfPc(pc)
      cut == FirstAt(pc, cursor) - 1
  IN [before |-> SubSeq(Reverse(SubSeq(all, 1, cut)), 1, Min({PageSize, cut})),
      after  |-> SubSeq(all, cut + 1, Min({cut + PageSize, Len(all)}))]

(***************************************************************************)
(* Properties.  A return is matched with a call when the events between    *)
(* them balance; a record belongs to the last block start at or before it. *)
(***************************************************************************)
Calls(c, r) == Cardinality({i \in c .. r : IsCall(i)})
Rets(c, r) == Cardinality({i \in c .. r : IsRet(i)})
Matched(c, r) == /\ c < r /\ IsCall(c) /\ IsRet(r) /\ Calls(c, r) = Rets(c, r)
                 /\ \A k \in c .. (r - 1) : Calls(c, k) > Rets(c, k)
OpenAt(i) == {c \in 1 .. i : IsCall(c) /\ ~\E r \in 1 .. i : Matched(c, r)}
Owner(i) == PcAt(Max({j \in 1 .. i : PcAt(j) \in StartPcs}))
Adjacent(i) == IsBranch(i) \/ PcAt(i) + 1 = PcAt(i + 1)

\* The number of times the run went from block s to block d, by flow or by a matched return.
Crossings(s, d) ==
  Cardinality({i \in 1 .. Len(trace) - 1 : /\ Owner(i) = s /\ PcAt(i + 1) = d
                                           /\ d \in StartPcs /\ Adjacent(i)})
  + Cardinality({r \in 1 .. Len(trace) - 1 :
                   PcAt(r + 1) = d /\ \E c \in 1 .. r : Matched(c, r) /\ Owner(c) = s})

\* The graph is the run: its blocks are the PCs control arrived at, every record is found in the
\* block it ran in, an edge is there when the run took it and counts how often (cfg.rs:213-226).
GraphExact ==
  trace # <<>> =>
  LET g == Cfg IN
    /\ Blocks(g) = StartPcs
    /\ \A i \in Indices : BlockContaining(g, PcAt(i)) = Owner(i)
    /\ \A s, d \in StartPcs :
         Crossings(s, d) = IF <<s, d>> \in DOMAIN g.edges THEN g.edges[<<s, d>>].count ELSE 0

\* Loops and one-sided branches are what ran: a block entered again by recorded steps is in a
\* loop, a loop is re-entered through edges the run took, and a conditional branch is one-sided
\* exactly when one of its directions was recorded (navigation.rs loops, coverage.rs one_sided).
ShapeTrue ==
  trace # <<>> =>
  LET g == Cfg
      loops == UNION Loops(g)
  IN /\ \A i, j \in Indices : /\ i < j /\ PcAt(i) = PcAt(j) /\ PcAt(i) \in StartPcs
                              /\ \A k \in i .. j - 1 : Adjacent(k)
                              => PcAt(i) \in loops
     /\ \A b \in Blocks(g) : Conditional(g, b) =>
          LET next == {PcAt(i + 1) : i \in {k \in 1 .. Len(trace) - 1 : PcAt(k) = g.ends[b]}}
          IN b \in OneSided(g) <=> Cardinality(next) = 1

\* The call tree holds exactly the calls nested within the depth limit, each closed by its own
\* return however many deeper calls were flattened, and counts the flattened ones at the frame
\* they were cut from; the stack at a record is the open calls, and its innermost frames when
\* limited, which are the calls that have really not returned as long as all of them were to
\* recorded code (calltree.rs, navigation.rs backtrace_response).
NestingExact ==
  trace # <<>> =>
  LET end == Len(trace)
      depth(c) == Cardinality(OpenAt(c))
      exit(c) == Min({end} \cup {r \in Indices : Matched(c, r)})
      over(c) == {d \in Indices : IsCall(d) /\ depth(d) > MaxDepth /\ c \in OpenAt(d)}
      node(c) == [enter |-> c, exit |-> exit(c), depth |-> depth(c),
                  cut |-> IF depth(c) = MaxDepth THEN Cardinality(over(c)) ELSE 0,
                  parent |-> Max({None} \cup (OpenAt(c) \ {c}))]
  IN /\ {n \in CallTree : n.depth > 0} = {node(c) : c \in {i \in Indices : IsCall(i) /\ depth(i) <= MaxDepth}}
     /\ \A i \in Indices : /\ Stack(i) = Ascending(OpenAt(i))
                           /\ IsSuffix(Backtrace(i, PageSize), Stack(i))
                           /\ Len(Backtrace(i, PageSize)) = Min({PageSize, Cardinality(OpenAt(i))})
     /\ (\A pc \in ExecutedPcs : Outside \notin code[pc].to) => Stack(end) = live

\* Three computations of a function agree, and with the run: the index, the summary and the
\* filtered graph count the same blocks and records, every block with a symbol belongs to one
\* function, the callees a summary counts are the calls made, and the dispatch targets of a
\* register branch the values it read (functions.rs, fn_summary.rs, indirect_targets.rs).
FunctionsAgree ==
  trace # <<>> =>
  LET g == Cfg
      returns == {PcAt(i + 1) : i \in {k \in 1 .. Len(trace) - 1 : IsRet(k)}}
      called(f, d) == {i \in 1 .. Len(trace) - 1 :
                         IsCall(i) /\ LookupEntry(Owner(i)) = f /\ PcAt(i + 1) = d}
  IN /\ MapThenSumSet(LAMBDA f : FunctionEntry(g, f).blocks, SymbolPcs)
         = Cardinality({b \in Blocks(g) : LookupEntry(b) # None})
     /\ \A f \in SymbolPcs : /\ \A d \in DOMAIN CalleeCounts(g, f) \ returns :
                                  CalleeCounts(g, f)[d] = Cardinality(called(f, d))
                             /\ \A d \in ExecutedPcs \ returns :
                                  called(f, d) # {} => d \in DOMAIN CalleeCounts(g, f)
                             /\ \A e \in ReturnedEdges(g, f) : LookupEntry(e[1]) = f
     /\ \A pc \in ExecutedPcs : code[pc].kind \in {"br", "blr"} =>
          SumFunction(DispatchTargets(pc)) = Executions(pc)

\* Pages of hits read from cursor to cursor are every record at the block once, in order, and
\* the lists around a cursor split the records of a PC there, nearest first
\* (analysis/cfg.rs inspect, idxs_for_block.rs, idxs_for_pc.rs).
HitsWhole ==
  trace # <<>> =>
  LET g == Cfg IN
    /\ \A b \in Blocks(g) :
         LET all == IdxsForBlock(g, b)
             from[c \in 0 .. Len(trace)] ==
               LET p == Page(g, b, c)
               IN p.idxs \o IF p.next = None THEN <<>> ELSE from[p.next]
         IN /\ from[0] = all
            /\ \A c \in Indices : LET p == Page(g, b, c)
                                      rest == SelectSeq(all, LAMBDA i : i >= c)
                                  IN IsPrefix(p.idxs, rest) /\ p.total = Len(rest)
    /\ \A pc \in ExecutedPcs, c \in Indices :
         LET p == IdxsForPc(pc, c)
             near == Range(p.before) \cup Range(p.after)
         IN Reverse(p.before) \o p.after = SelectSeq(IdxsOfPc(pc), LAMBDA i : i \in near)
=============================================================================
