-------------------------- MODULE DependencyQuery --------------------------
(* Slices over the dependency rows: dependencies of                         *)
(* analysis/dependency_query.rs and the walk_slice it shares between its    *)
(* directions (bfs_slice.rs).  A query walks back along the rows or forward *)
(* along their inverse, breadth first, under a depth limit and a node cap,  *)
(* for all its seeds at once (union) or seed by seed (intersection), and    *)
(* then lists the edges inside the slice, up to a cap of their own.         *)
(*                                                                          *)
(* The order of the edges within one row is left open.                      *)
(*                                                                          *)
(* A set of seeds is a set of positions in the query's list, taken in       *)
(* order.                                                                   *)
EXTENDS DependencyIndex, SequencesExt

CONSTANTS Queries,       \* the queries asked
          EdgeCap        \* 10000 in the code

(* A seed that resolves to no row of the trace (seed_resolver.rs).          *)
NoRow == 0
Unlimited == MaxRecords + 1

Query == [seeds : Seq(Nat), forward : BOOLEAN, intersect : BOOLEAN,
          dataOnly : BOOLEAN, depth : Nat, cap : Nat \ {0}]

ASSUME QueriesAssumption ==
  Queries \subseteq Query /\ EdgeCap \in Nat /\ \A q \in Queries : q.seeds # <<>>

VARIABLES phase,         \* "build", "seed", "walk", "combined", "done"
          query,         \* the query asked, <<>> before
          users,         \* dep_users, <<>> until a forward query
          jobs,          \* the seeds still to walk from, one by one
          from, seeds,   \* walk_slice's seeds, and those still to take
          marked, idxs,  \* SliceResult.marked and idxs
          depths,        \* the map row -> depth
          queue,         \* rows to expand
          here, todo,    \* the row being expanded and its edges not looked at
          cut,           \* truncated of this walk
          answer         \* the combined result

walkVars == <<from, seeds, marked, idxs, depths, queue, here, todo, cut>>
queryVars == <<phase, query, users, jobs, answer>>
vars == <<indexVars, queryVars, walkVars>>

NRows == Len(rows)
Neighbours(i) == IF query.forward THEN users[i] ELSE rows[i]

NoAnswer == [marked |-> {}, idxs |-> <<>>, depths |-> <<>>, truncated |-> FALSE,
             any |-> FALSE, edges |-> {}]

-----------------------------------------------------------------------------
(* The query: seeds that are no row are dropped before the walk.            *)

Init ==
  /\ IndexInit
  /\ phase = "build" /\ query = <<>> /\ users = <<>> /\ jobs = {}
  /\ answer = NoAnswer
  /\ from = {} /\ seeds = {} /\ marked = {} /\ idxs = <<>> /\ depths = <<>>
  /\ queue = <<>> /\ here = NoRow /\ todo = {} /\ cut = FALSE

Valid(q) == {k \in DOMAIN q.seeds : q.seeds[k] \in 1..NRows}

RowsOf(q, ks) == {q.seeds[k] : k \in ks}

IsFirst(k, ks) == \A other \in ks : k <= other

BeginWalk(ks) ==
  /\ from' = ks /\ seeds' = ks
  /\ marked' = {} /\ idxs' = <<>> /\ depths' = <<>>
  /\ queue' = <<>> /\ here' = NoRow /\ todo' = {} /\ cut' = FALSE

(* The next walk of an intersection, from its next seed, or none.           *)
NextWalk(ks) ==
  \/ ks = {} /\ phase' = "combined" /\ jobs' = {} /\ UNCHANGED walkVars
  \/ \E k \in ks : /\ IsFirst(k, ks)
                   /\ phase' = "seed" /\ jobs' = ks \ {k} /\ BeginWalk({k})

(* One walk for a union, one per seed for an intersection.                  *)
Ask(q) ==
  /\ built /\ phase = "build"
  /\ query' = q
  /\ users' = IF q.forward THEN Users ELSE <<>>
  /\ answer' = NoAnswer
  /\ IF q.intersect THEN NextWalk(Valid(q))
                    ELSE phase' = "seed" /\ jobs' = {} /\ BeginWalk(Valid(q))
  /\ UNCHANGED indexVars

-----------------------------------------------------------------------------
(* walk_slice.                                                              *)

Full == Len(idxs) = query.cap

(* Mutant of Mark: a row that is marked is not queued.                      *)
MarkUnqueued(i, depth) ==
  /\ marked' = marked \cup {i}
  /\ idxs' = Append(idxs, i)
  /\ depths' = [j \in marked \cup {i} |-> IF j = i THEN depth ELSE depths[j]]
  /\ UNCHANGED queue

Mark(i, depth) ==
  /\ marked' = marked \cup {i}
  /\ idxs' = Append(idxs, i)
  /\ depths' = [j \in marked \cup {i} |-> IF j = i THEN depth ELSE depths[j]]
  /\ queue' = Append(queue, i)

(* One turn of the loop over the seeds; a seed over the cap ends the loop.  *)
TakeSeed ==
  /\ phase = "seed"
  /\ \E k \in seeds : LET s == query.seeds[k] IN
       /\ IsFirst(k, seeds)
       /\ \/ /\ s \notin 1..NRows \/ s \in marked
             /\ seeds' = seeds \ {k}
             /\ UNCHANGED <<marked, idxs, depths, queue, cut>>
          \/ /\ s \in 1..NRows /\ s \notin marked /\ Full
             /\ seeds' = {} /\ cut' = TRUE
             /\ UNCHANGED <<marked, idxs, depths, queue>>
          \/ /\ s \in 1..NRows /\ s \notin marked /\ ~Full
             /\ Mark(s, 0)
             /\ seeds' = seeds \ {k}
             /\ UNCHANGED cut
  /\ UNCHANGED <<indexVars, queryVars, from, here, todo>>

SeedsTaken ==
  /\ phase = "seed" /\ seeds = {}
  /\ phase' = "walk"
  /\ UNCHANGED <<indexVars, walkVars, query, users, jobs, answer>>

Expand ==
  /\ phase = "walk" /\ todo = {} /\ queue # <<>>
  /\ here' = Head(queue)
  /\ todo' = Neighbours(Head(queue))
  /\ queue' = Tail(queue)
  /\ UNCHANGED <<indexVars, queryVars, from, seeds, marked, idxs, depths, cut>>

Skipped(e) == \/ e.idx \notin 1..NRows
              \/ e.idx \in marked
              \/ query.dataOnly /\ e.kind = "Control"

FollowEdge(e) ==
  /\ phase = "walk" /\ e \in todo
  /\ todo' = todo \ {e}
  /\ \/ Skipped(e) /\ UNCHANGED <<marked, idxs, depths, queue, cut>>
     \/ /\ ~Skipped(e) /\ (depths[here] >= query.depth \/ Full)
        /\ cut' = TRUE
        /\ UNCHANGED <<marked, idxs, depths, queue>>
     \/ /\ ~Skipped(e) /\ depths[here] < query.depth /\ ~Full
        /\ Mark(e.idx, depths[here] + 1)
        /\ UNCHANGED cut
  /\ UNCHANGED <<indexVars, queryVars, from, seeds, here>>

-----------------------------------------------------------------------------
(* Combining the walks, then the edges between rows of the slice.           *)

Restricted(f, S) == [i \in (DOMAIN f) \cap S |-> f[i]]

(* retain: the elements of a list that are in S, in their order.            *)
Retained(list, S) ==
  LET kept[n \in 0..Len(list)] ==
        IF n = 0 THEN <<>>
        ELSE IF list[n] \in S THEN Append(kept[n - 1], list[n]) ELSE kept[n - 1]
  IN  kept[Len(list)]

Combined ==
  IF ~answer.any
    THEN [answer EXCEPT !.marked = marked, !.idxs = idxs, !.depths = depths,
                        !.truncated = cut, !.any = TRUE]
    ELSE LET both == answer.marked \cap marked
         IN  [answer EXCEPT !.marked = both,
                            !.idxs = Retained(answer.idxs, both),
                            !.depths = Restricted(answer.depths, both),
                            !.truncated = answer.truncated \/ cut]

(* Mutant of WalkEnds: a later walk that was cut is not remembered.         *)
WalkEndsQuietly ==
  /\ phase = "walk" /\ todo = {} /\ queue = <<>>
  /\ answer' = [Combined EXCEPT !.truncated = IF answer.any THEN answer.truncated ELSE cut]
  /\ NextWalk(jobs)
  /\ UNCHANGED <<indexVars, query, users>>

WalkEnds ==
  /\ phase = "walk" /\ todo = {} /\ queue = <<>>
  /\ answer' = Combined
  /\ NextWalk(jobs)
  /\ UNCHANGED <<indexVars, query, users>>

(* A seed that was dropped makes the answer partial, and leaves an          *)
(* intersection empty.                                                      *)
Settled ==
  IF Valid(query) = DOMAIN query.seeds THEN answer
  ELSE IF query.intersect
         THEN [answer EXCEPT !.truncated = TRUE, !.marked = {}, !.idxs = <<>>, !.depths = <<>>]
         ELSE [answer EXCEPT !.truncated = TRUE]

Within(S) == {p \in S \X Edge : /\ p[2] \in rows[p[1]] /\ p[2].idx \in S
                                /\ ~(query.dataOnly /\ p[2].kind = "Control")}

(* The arrows always go from definition to use, whatever the direction.     *)
Answer ==
  /\ phase = "combined"
  /\ LET all == Within(Settled.marked)
     IN  \E listed \in SUBSET all :
           /\ Cardinality(listed) = IF Cardinality(all) <= EdgeCap THEN Cardinality(all)
                                                                   ELSE EdgeCap
           /\ answer' = [Settled EXCEPT !.edges = listed,
                           !.truncated = Settled.truncated \/ listed # all]
  /\ phase' = "done"
  /\ UNCHANGED <<indexVars, query, users, jobs, walkVars>>

-----------------------------------------------------------------------------

Walk == TakeSeed \/ SeedsTaken \/ Expand \/ (\E e \in todo : FollowEdge(e)) \/ WalkEnds

Next ==
  \/ \E rec \in Records : phase = "build" /\ Scan(rec) /\ UNCHANGED <<queryVars, walkVars>>
  \/ phase = "build" /\ ScanEnds /\ UNCHANGED <<queryVars, walkVars>>
  \/ \E q \in Queries : Ask(q)
  \/ Walk
  \/ Answer

Spec == Init /\ [][Next]_vars

-----------------------------------------------------------------------------

TypeOK ==
  /\ trace \in Seq(Record) /\ rows \in Seq(SUBSET Edge) /\ Len(rows) = Len(trace)
  /\ regLast \in [Regs -> 0..Len(trace)] /\ memLast \in [Bytes -> 0..Len(trace)]
  /\ lastCond \in 0..Len(trace) /\ built \in BOOLEAN
  /\ counts \in [Kinds -> Nat] /\ initLoads \in Nat
  /\ phase \in {"build", "seed", "walk", "combined", "done"}
  /\ marked \subseteq 1..NRows /\ idxs \in Seq(marked) /\ DOMAIN depths = marked
  /\ queue \in Seq(marked) /\ here \in marked \cup {NoRow} /\ cut \in BOOLEAN

(* What is kept beside the rows agrees with them: the counters, and the     *)
(* forward table, which lists for each record exactly the records that      *)
(* depend on it (the counting passes leave no slot empty and fill none      *)
(* twice).                                                                  *)
BesideRows ==
  /\ SummaryExact
  /\ phase # "build" /\ query.forward =>
       /\ \A pos \in DOMAIN Filled : Cardinality(Filled[pos]) = 1
       /\ users = [p \in 1..NRows |-> {[idx |-> e[1], kind |-> e[2]] : e \in EdgesInto(p)}]

(* The rows one edge away in the direction and kinds asked for; what a set  *)
(* of seeds leads to is the least set that holds them and is closed.        *)
OneAway(S) == {e.idx : e \in {x \in UNION {Neighbours(i) : i \in S} :
                                 /\ x.idx \in 1..NRows
                                 /\ ~(query.dataOnly /\ x.kind = "Control")}}

Closed(C) == OneAway(C) \subseteq C

Reach(S) == {i \in 1..NRows : \A C \in SUBSET (1..NRows) :
                                S \subseteq C /\ Closed(C) => i \in C}

(* The rows at most so many edges away from those of S.                     *)
Layers(S) ==
  LET layer[k \in 0..MaxRecords] ==
        IF k = 0 THEN S ELSE layer[k - 1] \cup OneAway(layer[k - 1])
  IN  layer

(* A row is in the slice at the length of its shortest path from a seed,    *)
(* never a longer one, although the walk meets rows along many paths.       *)
DepthsShortest ==
  phase = "done" /\ ~query.intersect =>
    LET layer == Layers(RowsOf(query, Valid(query)))
    IN  \A i \in answer.marked :
          /\ i \in layer[answer.depths[i]]
          /\ answer.depths[i] > 0 => i \notin layer[answer.depths[i] - 1]

(* A walk marks nothing its seeds do not lead to, and one that was not cut  *)
(* marks all of it.                                                         *)
WalkExact ==
  phase = "walk" /\ todo = {} /\ queue = <<>> =>
    /\ marked \subseteq Reach(RowsOf(query, from))
    /\ ~cut => marked = Reach(RowsOf(query, from))

(* What one seed, or all of them, lead to.                                  *)
Expected(q) == IF q.intersect
                 THEN {i \in 1..NRows : \A k \in DOMAIN q.seeds :
                         q.seeds[k] \in 1..NRows /\ i \in Reach({q.seeds[k]})}
                 ELSE Reach(RowsOf(q, Valid(q)))

(* Nothing enters a slice that the seeds do not depend on (or that does not *)
(* depend on them), and an answer that does not call itself truncated holds *)
(* all of it and every edge in it.  Its list, bit set and depth map name    *)
(* the same rows, each once and no more than the cap.                       *)
SliceExact ==
  phase = "done" =>
    /\ ToSet(answer.idxs) = answer.marked /\ DOMAIN answer.depths = answer.marked
    /\ Len(answer.idxs) = Cardinality(answer.marked) /\ Len(answer.idxs) <= query.cap
    /\ answer.marked \subseteq Expected(query)
    /\ ~answer.truncated => answer.marked = Expected(query) /\ answer.edges = Within(answer.marked)

(* An answer is called truncated only when something is missing from it: a  *)
(* row, a seed or an edge.  (Of an intersection each walk may be cut where  *)
(* the others do not reach.)                                                *)
TruncatedHonest ==
  phase = "done" /\ ~query.intersect /\ answer.truncated =>
    \/ answer.marked # Expected(query)
    \/ Valid(query) # DOMAIN query.seeds
    \/ answer.edges # Within(answer.marked)

(* The counters and the forward table say what the rows say                 *)
(* (analysis_index.rs build, forward_dep_tree.rs DependencyUsers::build).   *)
TablesTrue == TypeOK /\ BesideRows

(* A slice is exact, its depths are shortest, and it says truly whether it  *)
(* was cut (bfs_slice.rs walk_slice, dependency_query.rs dependencies).     *)
SliceTrue == SliceExact /\ DepthsShortest /\ TruncatedHonest
=============================================================================
