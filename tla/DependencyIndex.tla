-------------------------- MODULE DependencyIndex --------------------------
(* The dependency rows of a trace: AnalysisIndex::build of                  *)
(* tracemiku-core/src/analysis_index.rs scans the records in order, keeps   *)
(* the last definition of every register and memory byte and the last       *)
(* conditional branch, and from them gives each record the earlier records  *)
(* it depends on; DependencyUsers::build of forward_dep_tree.rs inverts the *)
(* rows into a compressed table.                                            *)
(*                                                                          *)
(* Rows are numbered from 1 (the code counts from 0) and 0 is the code's    *)
(* None.  A record is what the decoder says of its instruction: a value, an *)
(* address or a mnemonic is abstracted to the registers, the bytes and the  *)
(* control flow the dependencies are made of.                               *)
EXTENDS Integers, Sequences, FiniteSets

CONSTANTS Regs,          \* register names
          Bytes,         \* memory byte addresses
          Records,       \* the record shapes a trace is made of
          MaxRecords     \* bound: records in a trace

Flows == {"next", "cond", "call", "ret"}
Kinds == {"Reg", "Address", "Mem", "Control"}

(* def, use: regs_def and regs_use; addr: the base and index registers of   *)
(* its memory operands; data: the source registers of its stores; reads,    *)
(* writes: the byte ranges of its operands.                                 *)
Record == [def : SUBSET Regs, use : SUBSET Regs, addr : SUBSET Regs,
           data : SUBSET Regs, reads : SUBSET (SUBSET Bytes),
           writes : SUBSET (SUBSET Bytes), flow : Flows]

ASSUME RecordsAssumption == Records \subseteq Record /\ MaxRecords \in Nat

(* An address has 64 bits.                                                  *)
ASSUME BytesAssumption == IsFiniteSet(Bytes)

VARIABLES trace,         \* the records scanned
          rows,          \* deps: the edges of every scanned record
          regLast,       \* reg_last
          memLast,       \* mem_last, without the byte's value
          lastCond,      \* last_cond
          counts,        \* summary.*_dependency_edges
          initLoads,     \* summary.init_mem_loads
          built          \* the scan has returned

indexVars == <<trace, rows, regLast, memLast, lastCond, counts, initLoads, built>>

Edge == [idx : 1..MaxRecords, kind : Kinds]

-----------------------------------------------------------------------------
(* The edges of the next record, from what the scan remembers.              *)

IsBoundary(rec) == rec.flow \in {"call", "ret"}

ControlEdges(rec) ==
  IF lastCond = 0 \/ IsBoundary(rec) THEN {} ELSE {[idx |-> lastCond, kind |-> "Control"]}

IsData(rec, r) == r \in rec.data \/ r \notin rec.addr

(* The registers the record uses that the trace has defined.                *)
Known(rec) == {r \in rec.use : regLast[r] # 0}

AddressEdges(rec) ==
  {[idx |-> regLast[r], kind |-> "Address"] : r \in {x \in Known(rec) : x \in rec.addr}}

RegEdges(rec) ==
  {[idx |-> regLast[r], kind |-> "Reg"] : r \in {x \in Known(rec) : IsData(rec, x)}}

MemEdges(rec) ==
  {[idx |-> memLast[b], kind |-> "Mem"] : b \in {x \in UNION rec.reads : memLast[x] # 0}}

Row(rec) == ControlEdges(rec) \cup AddressEdges(rec) \cup RegEdges(rec) \cup MemEdges(rec)

(* A load none of whose bytes the trace has written reads initial memory.   *)
InitLoads(rec) == Cardinality({op \in rec.reads : \A b \in op : memLast[b] = 0})

-----------------------------------------------------------------------------
(* The scan.  The row is made before the record's own definitions and       *)
(* stores are remembered, so a record never depends on itself.              *)

IndexInit ==
  /\ trace = <<>> /\ rows = <<>>
  /\ regLast = [r \in Regs |-> 0] /\ memLast = [b \in Bytes |-> 0]
  /\ lastCond = 0 /\ initLoads = 0
  /\ counts = [k \in Kinds |-> 0]
  /\ built = FALSE

(* Mutant of CondAfter: a branch still controls what follows a call.        *)
CondSticks(rec, i) == IF rec.flow = "cond" THEN i ELSE lastCond

CondAfter(rec, i) ==
  CASE IsBoundary(rec)    -> 0
    [] rec.flow = "cond"  -> i
    [] OTHER              -> lastCond

Scan(rec) ==
  LET i   == Len(trace) + 1
      row == Row(rec)
  IN  /\ ~built /\ Len(trace) < MaxRecords
      /\ trace' = Append(trace, rec)
      /\ rows' = Append(rows, row)
      /\ regLast' = [r \in Regs |-> IF r \in rec.def THEN i ELSE regLast[r]]
      /\ memLast' = [b \in Bytes |-> IF b \in UNION rec.writes THEN i ELSE memLast[b]]
      /\ lastCond' = CondAfter(rec, i)
      /\ counts' = [k \in Kinds |-> counts[k] + Cardinality({e \in row : e.kind = k})]
      /\ initLoads' = initLoads + InitLoads(rec)
      /\ UNCHANGED built

(* The scan returns: what is left are the rows.                             *)
ScanEnds ==
  /\ ~built /\ trace # <<>>
  /\ built' = TRUE
  /\ UNCHANGED <<trace, rows, regLast, memLast, lastCond, counts, initLoads>>

-----------------------------------------------------------------------------
(* DependencyUsers::build: counts, offsets, and a cursor per bucket.        *)

EdgesInto(p) == {e \in (1..Len(rows)) \X Kinds :
                   [idx |-> p, kind |-> e[2]] \in rows[e[1]]}

(* kind_to_byte, which is also the order of the edges of one row.           *)
KindByte == [Reg |-> 1, Address |-> 2, Mem |-> 3, Control |-> 4]
(* Mutant of Before: the cursor moves once per row, not once per edge.      *)
BeforeByRow(d, e) == d[1] < e[1]

Before(d, e) == d[1] < e[1] \/ (d[1] = e[1] /\ KindByte[d[2]] < KindByte[e[2]])

RowOffset[p \in 0..MaxRecords] ==
  IF p = 0 THEN 0 ELSE RowOffset[p - 1] + Cardinality(EdgesInto(p))

(* position = bucket_start + cursor: the edges filled in before this one.   *)
Position(p, e) == RowOffset[p - 1] + Cardinality({d \in EdgesInto(p) : Before(d, e)})

(* The table the two passes fill: the edge at every position.               *)
Filled == [pos \in 0..(RowOffset[Len(rows)] - 1) |->
             {f \in (1..Len(rows)) \X ((1..Len(rows)) \X Kinds) :
                f[2] \in EdgesInto(f[1]) /\ Position(f[1], f[2]) = pos}]

(* row: the slice of the table between two offsets, as edges.               *)
Users == [p \in 1..Len(rows) |->
            {[idx |-> f[2][1], kind |-> f[2][2]] :
               f \in UNION {Filled[pos] : pos \in RowOffset[p - 1]..(RowOffset[p] - 1)}}]
-----------------------------------------------------------------------------
(* What the rows must be, read off the trace itself.                        *)

DefinesLast(j, i, r) ==
  /\ j < i /\ r \in trace[j].def
  /\ \A k \in (j + 1)..(i - 1) : r \notin trace[k].def

WritesLast(j, i, b) ==
  /\ j < i /\ b \in UNION trace[j].writes
  /\ \A k \in (j + 1)..(i - 1) : b \notin UNION trace[k].writes

BranchesLast(j, i) ==
  /\ j < i /\ trace[j].flow = "cond"
  /\ \A k \in (j + 1)..(i - 1) : trace[k].flow = "next"

DependsOn(i, j, kind) ==
  CASE kind = "Control" -> BranchesLast(j, i) /\ ~IsBoundary(trace[i])
    [] kind = "Mem"     -> \E b \in UNION trace[i].reads : WritesLast(j, i, b)
    [] kind = "Address" -> \E r \in trace[i].use \cap trace[i].addr : DefinesLast(j, i, r)
    [] kind = "Reg"     -> \E r \in trace[i].use : IsData(trace[i], r) /\ DefinesLast(j, i, r)

(* Every scanned record depends on exactly the records that last defined a  *)
(* register it uses, last wrote a byte it loads, or last branched in its    *)
(* function: not on one that was redefined since, nor on itself.            *)
RowsExact ==
  \A i \in DOMAIN trace :
    rows[i] = {e \in Edge : e.idx \in DOMAIN trace /\ DependsOn(i, e.idx, e.kind)}

(* The summary, kept while scanning, counts the edges and the loads of      *)
(* memory nothing in the trace wrote: what the rows and the trace say.      *)
SummaryExact ==
  /\ \A k \in Kinds :
       counts[k] = Cardinality({p \in (DOMAIN trace) \X (DOMAIN trace) :
                                  [idx |-> p[2], kind |-> k] \in rows[p[1]]})
  /\ initLoads = Cardinality({p \in (DOMAIN trace) \X (SUBSET Bytes) :
                    /\ p[2] \in trace[p[1]].reads
                    /\ \A b \in p[2], j \in 1..(p[1] - 1) : b \notin UNION trace[j].writes})
=============================================================================
