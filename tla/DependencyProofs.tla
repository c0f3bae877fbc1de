-------------------------- MODULE DependencyProofs --------------------------
(* Proofs about DependencyQuery: the dependency rows of a trace of any      *)
(* length, made of any records, are exactly what the trace says; and a walk *)
(* over any rows, under any limits, marks nothing its seeds do not lead to, *)
(* and all of it if it is not cut; and an answer, of one walk or of several *)
(* that were intersected, is exact, its depths the shortest and its word    *)
(* about being truncated true; and the counters and the forward table agree *)
(* with the rows.                                                           *)
EXTENDS DependencyQuery, SequenceTheorems, FiniteSetTheorems, WellFoundedInduction, TLAPS

(* What the scan remembers: of every register, byte and branch, the last    *)
(* record that the trace itself names.                                      *)
ScanType ==
  /\ trace \in Seq(Record) /\ Len(trace) <= MaxRecords
  /\ Len(rows) = Len(trace) /\ rows \in Seq(SUBSET Edge)
  /\ regLast \in [Regs -> 0..Len(trace)]
  /\ memLast \in [Bytes -> 0..Len(trace)]
  /\ lastCond \in 0..Len(trace)

RegLastExact ==
  \A r \in Regs, j \in 1..Len(trace) : DefinesLast(j, Len(trace) + 1, r) <=> j = regLast[r]

MemLastExact ==
  \A b \in Bytes, j \in 1..Len(trace) : WritesLast(j, Len(trace) + 1, b) <=> j = memLast[b]

CondExact ==
  \A j \in 1..Len(trace) : BranchesLast(j, Len(trace) + 1) <=> j = lastCond

ScanInv == ScanType /\ RegLastExact /\ MemLastExact /\ CondExact /\ RowsExact

-----------------------------------------------------------------------------
(* One more record leaves what the trace said about the earlier ones, and   *)
(* what it says about the next one follows from what the scan remembered.   *)

(* What is assumed of a trace and the record that is appended to it.        *)
Grows(rec) == /\ trace \in Seq(Record) /\ rec \in Record
              /\ trace' = Append(trace, rec)

(* A trace that grows keeps its records and has one more.                   *)
LEMMA Appended ==
  ASSUME NEW rec, Grows(rec)
  PROVE  /\ Len(trace) \in Nat /\ Len(trace') = Len(trace) + 1
         /\ DOMAIN trace = 1..Len(trace) /\ DOMAIN trace' = 1..(Len(trace) + 1)
         /\ trace' \in Seq(Record)
         /\ \A j \in 1..Len(trace) : trace'[j] = trace[j] /\ trace[j] \in Record
         /\ trace'[Len(trace) + 1] = rec
BY AppendProperties, LenProperties, ElementOfSeq DEF Grows

(* Who defined a register last before a record does not depend on later     *)
(* records;                                                                 *)
LEMMA DefinesLastKept ==
  ASSUME NEW rec, Grows(rec), NEW i \in 1..(Len(trace) + 1), NEW j \in Nat \ {0}, NEW r
  PROVE  DefinesLast(j, i, r)' <=> DefinesLast(j, i, r)
BY Appended DEF DefinesLast

(* nor does who wrote a byte last,                                          *)
LEMMA WritesLastKept ==
  ASSUME NEW rec, Grows(rec), NEW i \in 1..(Len(trace) + 1), NEW j \in Nat \ {0}, NEW b
  PROVE  WritesLast(j, i, b)' <=> WritesLast(j, i, b)
BY Appended DEF WritesLast

(* nor who branched last,                                                   *)
LEMMA BranchesLastKept ==
  ASSUME NEW rec, Grows(rec), NEW i \in 1..(Len(trace) + 1), NEW j \in Nat \ {0}
  PROVE  BranchesLast(j, i)' <=> BranchesLast(j, i)
BY Appended DEF BranchesLast

(* and so no edge of a record does.                                         *)
LEMMA DependsOnKept ==
  ASSUME NEW rec, Grows(rec), NEW i \in 1..Len(trace), NEW j \in Nat \ {0}, NEW kind \in Kinds
  PROVE  DependsOn(i, j, kind)' <=> DependsOn(i, j, kind)
<1>1. trace'[i] = trace[i] /\ i \in 1..(Len(trace) + 1)
  BY Appended
<1>2. CASE kind = "Control"
  BY <1>1, <1>2, BranchesLastKept DEF DependsOn, IsBoundary
<1>3. CASE kind = "Mem"
  BY <1>1, <1>3, WritesLastKept DEF DependsOn
<1>4. CASE kind = "Address"
  BY <1>1, <1>4, DefinesLastKept DEF DependsOn
<1>5. CASE kind = "Reg"
  BY <1>1, <1>5, DefinesLastKept DEF DependsOn, IsData
<1> QED
  BY <1>2, <1>3, <1>4, <1>5 DEF Kinds

(* Two edges are equal if their records and kinds are.                      *)
LEMMA EdgeEqual ==
  ASSUME NEW i, NEW j, NEW k, NEW l
  PROVE  [idx |-> i, kind |-> k] = [idx |-> j, kind |-> l] <=> i = j /\ k = l
OBVIOUS

(* The next record depends on j exactly if the scan gives it that edge.     *)
LEMMA NextRow ==
  ASSUME NEW rec, Grows(rec), ScanType, RegLastExact, MemLastExact, CondExact,
         NEW n, n = Len(trace), n < MaxRecords, MaxRecords \in Nat
  PROVE  Row(rec) = {e \in Edge : e.idx \in DOMAIN trace' /\ DependsOn(n + 1, e.idx, e.kind)'}
<1>0. /\ n \in Nat /\ n + 1 \in 1..(n + 1) /\ trace'[n + 1] = rec /\ DOMAIN trace' = 1..(n + 1)
      /\ rec \in Record
  BY Appended DEF Grows
<1>1. ASSUME NEW j \in 1..(n + 1), NEW r \in Regs
      PROVE  DefinesLast(j, n + 1, r)' <=> j = regLast[r]
  <2>1. DefinesLast(j, n + 1, r)' <=> DefinesLast(j, n + 1, r)
    BY <1>0, DefinesLastKept
  <2>2. CASE j = n + 1
    BY <2>1, <2>2, <1>0 DEF DefinesLast, ScanType
  <2>3. CASE j \in 1..n
    BY <2>1, <2>3 DEF RegLastExact
  <2> QED BY <2>2, <2>3, <1>0
<1>2. ASSUME NEW j \in 1..(n + 1), NEW b \in Bytes
      PROVE  WritesLast(j, n + 1, b)' <=> j = memLast[b]
  <2>1. WritesLast(j, n + 1, b)' <=> WritesLast(j, n + 1, b)
    BY <1>0, WritesLastKept
  <2>2. CASE j = n + 1
    BY <2>1, <2>2, <1>0 DEF WritesLast, ScanType
  <2>3. CASE j \in 1..n
    BY <2>1, <2>3 DEF MemLastExact
  <2> QED BY <2>2, <2>3, <1>0
<1>3. ASSUME NEW j \in 1..(n + 1)
      PROVE  BranchesLast(j, n + 1)' <=> j = lastCond
  <2>1. BranchesLast(j, n + 1)' <=> BranchesLast(j, n + 1)
    BY <1>0, BranchesLastKept
  <2>2. CASE j = n + 1
    BY <2>1, <2>2, <1>0 DEF BranchesLast, ScanType
  <2>3. CASE j \in 1..n
    BY <2>1, <2>3 DEF CondExact
  <2> QED BY <2>2, <2>3, <1>0
<1>4. Row(rec) \subseteq Edge /\ \A e \in Row(rec) : e.idx \in 1..n
  BY <1>0 DEF Row, ControlEdges, AddressEdges, RegEdges, MemEdges, Known, Edge, Kinds,
     ScanType, Record
<1>5. ASSUME NEW j \in 1..(n + 1)
      PROVE  /\ [idx |-> j, kind |-> "Control"] \in Row(rec) <=> DependsOn(n + 1, j, "Control")'
             /\ [idx |-> j, kind |-> "Mem"] \in Row(rec) <=> DependsOn(n + 1, j, "Mem")'
             /\ [idx |-> j, kind |-> "Address"] \in Row(rec) <=> DependsOn(n + 1, j, "Address")'
             /\ [idx |-> j, kind |-> "Reg"] \in Row(rec) <=> DependsOn(n + 1, j, "Reg")'
  <2>a. \A k \in Kinds : [idx |-> j, kind |-> k] \in ControlEdges(rec)
                           <=> k = "Control" /\ j = lastCond /\ ~IsBoundary(rec)
    BY <1>0 DEF ControlEdges
  <2>e. j # 0
    BY <1>0
  <2>b. \A k \in Kinds : [idx |-> j, kind |-> k] \in AddressEdges(rec)
                           <=> k = "Address" /\ \E r \in rec.use \cap rec.addr : j = regLast[r]
    BY <2>e, EdgeEqual DEF AddressEdges, Known
  <2>c. \A k \in Kinds : [idx |-> j, kind |-> k] \in RegEdges(rec)
                           <=> k = "Reg" /\ \E r \in rec.use : IsData(rec, r) /\ j = regLast[r]
    BY <2>e, EdgeEqual DEF RegEdges, Known
  <2>d. \A k \in Kinds : [idx |-> j, kind |-> k] \in MemEdges(rec)
                           <=> k = "Mem" /\ \E b \in UNION rec.reads : j = memLast[b]
    BY <2>e, EdgeEqual DEF MemEdges
  <2>1. [idx |-> j, kind |-> "Control"] \in Row(rec) <=> (j = lastCond /\ ~IsBoundary(rec))
    BY <2>a, <2>b, <2>c, <2>d DEF Row, Kinds
  <2>2. [idx |-> j, kind |-> "Mem"] \in Row(rec) <=> \E b \in UNION rec.reads : j = memLast[b]
    BY <2>a, <2>b, <2>c, <2>d DEF Row, Kinds
  <2>3. [idx |-> j, kind |-> "Address"] \in Row(rec)
          <=> \E r \in rec.use \cap rec.addr : j = regLast[r]
    BY <2>a, <2>b, <2>c, <2>d DEF Row, Kinds
  <2>4. [idx |-> j, kind |-> "Reg"] \in Row(rec)
          <=> \E r \in rec.use : IsData(rec, r) /\ j = regLast[r]
    BY <2>a, <2>b, <2>c, <2>d DEF Row, Kinds
  <2>5. rec.use \subseteq Regs /\ UNION rec.reads \subseteq Bytes
    BY <1>0 DEF Record
  <2>6. DependsOn(n + 1, j, "Control")' <=> j = lastCond /\ ~IsBoundary(rec)
    BY <1>0, <1>3 DEF DependsOn, IsBoundary
  <2>7. DependsOn(n + 1, j, "Mem")' <=> \E b \in UNION rec.reads : j = memLast[b]
    BY <1>0, <1>2, <2>5 DEF DependsOn
  <2>8. DependsOn(n + 1, j, "Address")' <=> \E r \in rec.use \cap rec.addr : j = regLast[r]
    BY <1>0, <1>1, <2>5 DEF DependsOn
  <2>9. DependsOn(n + 1, j, "Reg")' <=> \E r \in rec.use : IsData(rec, r) /\ j = regLast[r]
    BY <1>0, <1>1, <2>5 DEF DependsOn, IsData
  <2> QED BY <2>1, <2>2, <2>3, <2>4, <2>6, <2>7, <2>8, <2>9
<1>6. ASSUME NEW e \in Edge, e.idx \in 1..(n + 1)
      PROVE  e \in Row(rec) <=> DependsOn(n + 1, e.idx, e.kind)'
  <2>1. e = [idx |-> e.idx, kind |-> e.kind] /\ e.kind \in Kinds
    BY DEF Edge
  <2> QED BY <2>1, <1>5, <1>6 DEF Kinds
<1> QED
  BY <1>0, <1>4, <1>6

(* The next record is the last definer of what it defines.                  *)
LEMMA DefinesLastGrows ==
  ASSUME NEW rec, Grows(rec), NEW n, n = Len(trace), NEW j \in 1..(n + 1), NEW r
  PROVE  DefinesLast(j, n + 2, r)'
           <=> \/ j = n + 1 /\ r \in rec.def
               \/ j # n + 1 /\ DefinesLast(j, n + 1, r) /\ r \notin rec.def
<1>1. CASE j = n + 1
  BY <1>1, Appended DEF DefinesLast
<1>2. CASE j # n + 1
  <2>1. j \in 1..n /\ n \in Nat /\ (j + 1)..(n + 1) = (j + 1)..n \cup {n + 1}
    BY <1>2, Appended
  <2>2. DefinesLast(j, n + 2, r)' <=> /\ r \in trace'[j].def
                                      /\ \A k \in (j + 1)..(n + 1) : r \notin trace'[k].def
    BY <2>1 DEF DefinesLast
  <2> QED BY <1>2, <2>1, <2>2, Appended DEF DefinesLast
<1> QED BY <1>1, <1>2

(* The last writer of a byte before the next record is this record if it    *)
(* writes the byte, and the one before it otherwise.                        *)
LEMMA WritesLastGrows ==
  ASSUME NEW rec, Grows(rec), NEW n, n = Len(trace), NEW j \in 1..(n + 1), NEW b
  PROVE  WritesLast(j, n + 2, b)'
           <=> \/ j = n + 1 /\ b \in UNION rec.writes
               \/ j # n + 1 /\ WritesLast(j, n + 1, b) /\ b \notin UNION rec.writes
<1>1. CASE j = n + 1
  BY <1>1, Appended DEF WritesLast
<1>2. CASE j # n + 1
  <2>1. j \in 1..n /\ n \in Nat /\ (j + 1)..(n + 1) = (j + 1)..n \cup {n + 1}
    BY <1>2, Appended
  <2>2. WritesLast(j, n + 2, b)' <=> /\ b \in UNION trace'[j].writes
                                     /\ \A k \in (j + 1)..(n + 1) : b \notin UNION trace'[k].writes
    BY <2>1 DEF WritesLast
  <2>3. \A k \in 1..n : trace'[k].writes = trace[k].writes
    BY Appended
  <2>4. trace'[n + 1].writes = rec.writes
    BY Appended
  <2>5. WritesLast(j, n + 1, b) <=> /\ b \in UNION trace[j].writes
                                    /\ \A k \in (j + 1)..n : b \notin UNION trace[k].writes
    BY <2>1 DEF WritesLast
  <2>6. \A k \in (j + 1)..n : k \in 1..n
    BY <2>1
  <2>7. (\A k \in (j + 1)..(n + 1) : b \notin UNION trace'[k].writes)
        <=> /\ \A k \in (j + 1)..n : b \notin UNION trace[k].writes
            /\ b \notin UNION rec.writes
    BY <2>1, <2>3, <2>4, <2>6
  <2> QED BY <1>2, <2>1, <2>2, <2>3, <2>5, <2>7
<1> QED BY <1>1, <1>2

(* A conditional branch is the last one from the next record on, and a call *)
(* or return forgets it.                                                    *)
LEMMA BranchesLastGrows ==
  ASSUME NEW rec, Grows(rec), NEW n, n = Len(trace), NEW j \in 1..(n + 1)
  PROVE  BranchesLast(j, n + 2)'
           <=> \/ j = n + 1 /\ rec.flow = "cond"
               \/ j # n + 1 /\ BranchesLast(j, n + 1) /\ rec.flow = "next"
<1>1. CASE j = n + 1
  BY <1>1, Appended DEF BranchesLast
<1>2. CASE j # n + 1
  <2>1. j \in 1..n /\ n \in Nat /\ (j + 1)..(n + 1) = (j + 1)..n \cup {n + 1}
    BY <1>2, Appended
  <2>2. BranchesLast(j, n + 2)' <=> /\ trace'[j].flow = "cond"
                                    /\ \A k \in (j + 1)..(n + 1) : trace'[k].flow = "next"
    BY <2>1 DEF BranchesLast
  <2> QED BY <1>2, <2>1, <2>2, Appended DEF BranchesLast
<1> QED BY <1>1, <1>2

-----------------------------------------------------------------------------
(* Scanning a record keeps the invariant.                                   *)

(* One record of the forward pass: its row, then the tables for the next.   *)
LEMMA ScanKeepsInv ==
  ASSUME ScanInv, NEW rec \in Records, Scan(rec)
  PROVE  ScanInv'
<1> DEFINE n == Len(trace)
<1>1. PICK m : m = n
  OBVIOUS
<1>2. Grows(rec) /\ MaxRecords \in Nat /\ m < MaxRecords
  BY <1>1, RecordsAssumption DEF Scan, ScanInv, ScanType, Grows
<1>3. /\ m \in Nat /\ Len(trace') = m + 1 /\ DOMAIN trace = 1..m /\ DOMAIN trace' = 1..(m + 1)
      /\ rec \in Record
  BY <1>1, <1>2, Appended DEF Grows
<1>4. /\ Len(rows) = m /\ rows \in Seq(SUBSET Edge) /\ rows' = Append(rows, Row(rec))
      /\ Row(rec) = {e \in Edge : e.idx \in DOMAIN trace' /\ DependsOn(m + 1, e.idx, e.kind)'}
  BY <1>1, <1>2, NextRow DEF Scan, ScanInv, ScanType
<1>5. /\ Len(rows') = m + 1 /\ rows' \in Seq(SUBSET Edge) /\ rows'[m + 1] = Row(rec)
      /\ \A i \in 1..m : rows'[i] = rows[i]
  <2>1. Row(rec) \in SUBSET Edge
    BY <1>4
  <2> QED BY <2>1, <1>3, <1>4, AppendProperties
<1>6. ScanType'
  BY <1>1, <1>2, <1>3, <1>5, Appended DEF Scan, ScanInv, ScanType, CondAfter
<1>7. RegLastExact'
  <2>1. SUFFICES ASSUME NEW r \in Regs, NEW j \in 1..(m + 1)
                 PROVE  DefinesLast(j, m + 2, r)' <=> j = regLast'[r]
    BY <1>3 DEF RegLastExact, DefinesLast
  <2>2. regLast'[r] = IF r \in rec.def THEN m + 1 ELSE regLast[r]
    BY <1>1 DEF Scan
  <2>3. regLast[r] \in 0..m /\ (j \in 1..m => (DefinesLast(j, m + 1, r) <=> j = regLast[r]))
    BY <1>1 DEF ScanInv, ScanType, RegLastExact
  <2> QED BY <1>1, <1>2, <1>3, <2>2, <2>3, DefinesLastGrows
<1>8. MemLastExact'
  <2>1. SUFFICES ASSUME NEW b \in Bytes, NEW j \in 1..(m + 1)
                 PROVE  WritesLast(j, m + 2, b)' <=> j = memLast'[b]
    BY <1>3 DEF MemLastExact, WritesLast
  <2>2. memLast'[b] = IF b \in UNION rec.writes THEN m + 1 ELSE memLast[b]
    BY <1>1 DEF Scan
  <2>3. memLast[b] \in 0..m /\ (j \in 1..m => (WritesLast(j, m + 1, b) <=> j = memLast[b]))
    BY <1>1 DEF ScanInv, ScanType, MemLastExact
  <2> QED BY <1>1, <1>2, <1>3, <2>2, <2>3, WritesLastGrows
<1>9. CondExact'
  <2>1. SUFFICES ASSUME NEW j \in 1..(m + 1)
                 PROVE  BranchesLast(j, m + 2)' <=> j = lastCond'
    BY <1>3 DEF CondExact, BranchesLast
  <2>2. lastCond' = CondAfter(rec, m + 1) /\ rec.flow \in Flows
    BY <1>1, <1>3 DEF Scan, Record
  <2>3. lastCond \in 0..m /\ (j \in 1..m => (BranchesLast(j, m + 1) <=> j = lastCond))
    BY <1>1 DEF ScanInv, ScanType, CondExact
  <2>4. BranchesLast(j, m + 2)' <=> \/ j = m + 1 /\ rec.flow = "cond"
                                    \/ j # m + 1 /\ BranchesLast(j, m + 1) /\ rec.flow = "next"
    BY <1>1, <1>2, BranchesLastGrows
  <2> QED BY <1>3, <2>2, <2>3, <2>4 DEF CondAfter, IsBoundary, Flows
<1>10. RowsExact'
  <2>1. SUFFICES ASSUME NEW i \in 1..(m + 1)
                 PROVE  rows'[i] = {e \in Edge : /\ e.idx \in 1..(m + 1)
                                                 /\ DependsOn(i, e.idx, e.kind)'}
    BY <1>3 DEF RowsExact
  <2>2. CASE i = m + 1
    BY <2>2, <1>3, <1>4, <1>5
  <2>3. CASE i \in 1..m
    <3>1. rows'[i] = {e \in Edge : e.idx \in 1..m /\ DependsOn(i, e.idx, e.kind)}
      BY <2>3, <1>3, <1>5 DEF ScanInv, RowsExact
    <3>2. ASSUME NEW e \in Edge
          PROVE  DependsOn(i, e.idx, e.kind)' <=> DependsOn(i, e.idx, e.kind)
      BY <2>3, <1>1, <1>2, DependsOnKept DEF Edge
    <3>3. ASSUME NEW e \in Edge, DependsOn(i, e.idx, e.kind)
          PROVE  e.idx \in 1..m
      <4>1. e.idx \in Nat \ {0} /\ e.kind \in Kinds
        BY <1>2 DEF Edge
      <4>2. e.idx < i
        BY <3>3, <4>1 DEF DependsOn, DefinesLast, WritesLast, BranchesLast, Kinds
      <4> QED BY <4>1, <4>2, <2>3, <1>3
    <3> QED BY <3>1, <3>2, <3>3, <1>3
  <2> QED BY <2>2, <2>3, <1>3
<1> QED BY <1>6, <1>7, <1>8, <1>9, <1>10 DEF ScanInv
scanVars == <<trace, rows, regLast, memLast, lastCond>>

(* The other steps write neither the trace nor its tables.                  *)
LEMMA IdleKeepsInv ==
  ASSUME ScanInv, UNCHANGED scanVars
  PROVE  ScanInv'
<1>1. ScanType'
  BY DEF scanVars, ScanInv, ScanType
<1>2. RegLastExact' /\ MemLastExact' /\ CondExact'
  BY DEF scanVars, ScanInv, RegLastExact, MemLastExact, CondExact,
         DefinesLast, WritesLast, BranchesLast
<1>3. ASSUME NEW i, NEW j, NEW kind
      PROVE  DependsOn(i, j, kind)' <=> DependsOn(i, j, kind)
  BY DEF scanVars, DependsOn, DefinesLast, WritesLast, BranchesLast, IsBoundary, IsData
<1>4. RowsExact'
  BY <1>3 DEF scanVars, ScanInv, RowsExact
<1> QED BY <1>1, <1>2, <1>4 DEF ScanInv

(* An empty trace has empty tables.                                         *)
LEMMA InitScanInv == Init => ScanInv
<1> SUFFICES ASSUME Init PROVE ScanInv
  OBVIOUS
<1>1. /\ trace = <<>> /\ rows = <<>> /\ lastCond = 0 /\ MaxRecords \in Nat
      /\ regLast = [r \in Regs |-> 0] /\ memLast = [b \in Bytes |-> 0]
  BY RecordsAssumption DEF Init, IndexInit
<1> QED
  BY <1>1 DEF ScanInv, ScanType, RegLastExact, MemLastExact, CondExact, RowsExact

(* The invariant of the pass is inductive.                                  *)
LEMMA NextScanInv == ScanInv /\ [Next]_vars => ScanInv'
<1> SUFFICES ASSUME ScanInv, [Next]_vars PROVE ScanInv'
  OBVIOUS
<1>1. ASSUME NEW rec \in Records, Scan(rec)
      PROVE  ScanInv'
  BY <1>1, ScanKeepsInv
<1>2. CASE ScanEnds
  BY <1>2, IdleKeepsInv DEF ScanEnds, scanVars
<1>3. ASSUME NEW q \in Queries, Ask(q)
      PROVE  ScanInv'
  BY <1>3, IdleKeepsInv DEF Ask, scanVars, indexVars
<1>4. CASE Walk
  <2>1. UNCHANGED indexVars
    BY <1>4 DEF Walk, TakeSeed, SeedsTaken, Expand, FollowEdge, WalkEnds
  <2> QED BY <2>1, IdleKeepsInv DEF scanVars, indexVars
<1>5. CASE Answer
  BY <1>5, IdleKeepsInv DEF Answer, scanVars, indexVars
<1>6. CASE UNCHANGED vars
  BY <1>6, IdleKeepsInv DEF vars, scanVars, indexVars
<1> QED BY <1>1, <1>2, <1>3, <1>4, <1>5, <1>6 DEF Next

(* AnalysisIndex::build gives every record of every trace exactly the       *)
(* records that last defined a register it uses, last wrote a byte it       *)
(* loads, or last branched without a call or return in between.             *)
THEOREM DependencyRowsExact == Spec => []RowsExact
<1>1. ScanInv => RowsExact
  BY DEF ScanInv
<1> QED BY <1>1, InitScanInv, NextScanInv, PTL DEF Spec

-----------------------------------------------------------------------------
(* The walk over the rows.                                                  *)

Seeded == RowsOf(query, from)

(* An edge that a walk never follows, and one that needs no following.      *)
Barred(e) == e.idx \notin 1..NRows \/ (query.dataOnly /\ e.kind = "Control")
Done(e) == Barred(e) \/ e.idx \in marked

Active == phase \in {"seed", "walk"}

(* Marked rows are reached; a marked row is waiting, or being expanded, or  *)
(* all its edges are done; and a seed is marked or still to be taken.       *)
WalkInv ==
  Active =>
    /\ queue \in Seq(marked) /\ marked \subseteq 1..NRows
    /\ seeds \subseteq from /\ from \subseteq Valid(query)
    /\ phase = "seed" => todo = {}
    /\ phase = "walk" => seeds = {}
    /\ marked \subseteq Reach(Seeded)
    /\ todo # {} => here \in marked /\ todo \subseteq Neighbours(here)
    /\ ~cut => \A k \in from \ seeds : query.seeds[k] \in marked
    /\ ~cut => \A i \in marked : \/ i \in Range(queue)
                                 \/ \A e \in Neighbours(i) : Done(e) \/ (i = here /\ e \in todo)

JobsInv == phase # "build" => jobs \subseteq Valid(query)

(* What a walk reads and does not write.                                    *)
graphVars == <<rows, query, users>>

-----------------------------------------------------------------------------
(* The least closed set that holds the seeds.                               *)

(* The seeds are reached,                                                   *)
LEMMA ReachHolds ==
  ASSUME NEW S, NEW s \in S, s \in 1..NRows
  PROVE  s \in Reach(S)
BY DEF Reach

(* and what a reached row leads to is,                                      *)
LEMMA ReachClosed ==
  ASSUME NEW S, NEW i \in Reach(S), NEW e \in Neighbours(i), ~Barred(e)
  PROVE  e.idx \in Reach(S)
<1>1. SUFFICES ASSUME NEW C \in SUBSET (1..NRows), S \subseteq C, Closed(C)
               PROVE  e.idx \in C
  BY DEF Reach, Barred
<1>2. i \in C
  BY <1>1 DEF Reach
<1>3. e.idx \in OneAway(C)
  BY <1>2 DEF OneAway, Barred
<1> QED BY <1>1, <1>3 DEF Closed

(* and every closed set that holds the seeds holds all that is.             *)
LEMMA ReachLeast ==
  ASSUME NEW S, NEW C \in SUBSET (1..NRows), S \subseteq C, Closed(C)
  PROVE  Reach(S) \subseteq C
BY DEF Reach

(* A walk over a graph that stays the same reaches the same rows.           *)
LEMMA GraphKept ==
  ASSUME UNCHANGED graphVars
  PROVE  /\ NRows' = NRows /\ (\A i : Neighbours(i)' = Neighbours(i))
         /\ (\A S : Reach(S)' = Reach(S)) /\ (\A e : Barred(e)' <=> Barred(e))
         /\ Valid(query)' = Valid(query)
<1>1. NRows' = NRows /\ query' = query /\ \A i : Neighbours(i)' = Neighbours(i)
  BY DEF graphVars, NRows, Neighbours
<1>2. ASSUME NEW C
      PROVE  OneAway(C)' = OneAway(C)
  BY <1>1 DEF OneAway
<1>3. ASSUME NEW S
      PROVE  Reach(S)' = Reach(S)
  BY <1>1, <1>2 DEF Reach, Closed
<1> QED BY <1>1, <1>3 DEF Barred, Valid

(* Rows of the sequence after a row was appended, or its head taken.        *)
LEMMA RangeAppend ==
  ASSUME NEW T, NEW s \in Seq(T), NEW x
  PROVE  Range(Append(s, x)) = Range(s) \cup {x}
<1> DEFINE a == Append(s, x)
<1>2. /\ DOMAIN a = 1..(Len(s) + 1) /\ DOMAIN s = 1..Len(s) /\ Len(s) \in Nat
      /\ (\A k \in 1..Len(s) : a[k] = s[k]) /\ a[Len(s) + 1] = x
  BY SeqMonotonic, AppendProperties, LenProperties
<1> QED BY <1>2 DEF Range

(* The elements of a sequence are its head and those of its tail.           *)
LEMMA RangeHead ==
  ASSUME NEW T, NEW s \in Seq(T), s # <<>>
  PROVE  /\ Head(s) \in T /\ Tail(s) \in Seq(T)
         /\ \A x \in Range(s) : x = Head(s) \/ x \in Range(Tail(s))
<1>1. /\ Head(s) \in T /\ Tail(s) \in Seq(T) /\ Len(Tail(s)) = Len(s) - 1 /\ Len(s) \in Nat
      /\ \A k \in 1..Len(Tail(s)) : Tail(s)[k] = s[k + 1]
  BY HeadTailProperties, LenProperties
<1>2. DOMAIN s = 1..Len(s) /\ DOMAIN Tail(s) = 1..Len(Tail(s)) /\ Head(s) = s[1]
  BY <1>1, LenProperties
<1>3. ASSUME NEW k \in 1..Len(s)
      PROVE  s[k] = Head(s) \/ s[k] \in Range(Tail(s))
  <2>1. CASE k = 1
    BY <2>1, <1>2
  <2>2. CASE k # 1
    <3>1. k - 1 \in 1..Len(Tail(s)) /\ Tail(s)[k - 1] = s[k]
      BY <2>2, <1>1
    <3> QED BY <3>1, <1>2 DEF Range
  <2> QED BY <2>1, <2>2
<1> QED BY <1>1, <1>2, <1>3 DEF Range
-----------------------------------------------------------------------------
(* The steps of a walk.                                                     *)

(* A walk begins with nothing marked and everything that is asked for to    *)
(* take.                                                                    *)
LEMMA BeginKeepsInv ==
  ASSUME NEW ks, phase' = "seed", BeginWalk(ks), (ks \subseteq Valid(query))'
  PROVE  WalkInv'
<1>1. /\ queue' = <<>> /\ marked' = {} /\ seeds' = ks /\ from' = ks /\ todo' = {}
  BY DEF BeginWalk
<1> QED BY <1>1 DEF WalkInv, Active

(* Marking a row that is led to keeps what holds of the queue and the rows. *)
LEMMA MarkKeeps ==
  ASSUME NEW i \in 1..NRows, NEW depth, Mark(i, depth), queue \in Seq(marked),
         marked \subseteq 1..NRows
  PROVE  /\ marked' = marked \cup {i} /\ queue' \in Seq(marked')
         /\ Range(queue') = Range(queue) \cup {i}
<1>1. marked' = marked \cup {i} /\ queue' = Append(queue, i)
  BY DEF Mark
<1>2. queue \in Seq(marked') /\ i \in marked'
  BY <1>1, SeqMonotonic
<1>3. queue' \in Seq(marked')
  BY <1>1, <1>2, AppendProperties
<1> QED BY <1>1, <1>2, <1>3, RangeAppend

(* A seed is marked and queued unless it was met before.                    *)
LEMMA TakeSeedKeepsInv ==
  ASSUME WalkInv, TakeSeed
  PROVE  WalkInv'
<1>1. /\ phase = "seed" /\ phase' = phase /\ todo = {} /\ todo' = {} /\ from' = from
      /\ UNCHANGED graphVars /\ Active /\ here' = here
  BY DEF TakeSeed, queryVars, indexVars, graphVars, WalkInv, Active
<1>2. /\ NRows' = NRows /\ Reach(Seeded)' = Reach(Seeded) /\ Valid(query)' = Valid(query)
      /\ \A i : Neighbours(i)' = Neighbours(i)
      /\ query' = query /\ \A e : Barred(e)' <=> Barred(e)
  BY <1>1, GraphKept DEF Seeded, graphVars, RowsOf
<1>3. PICK k \in seeds :
        LET s == query.seeds[k] IN
          \/ s \in marked /\ seeds' = seeds \ {k} /\ UNCHANGED <<marked, queue, cut>>
          \/ cut' = TRUE /\ seeds' = {} /\ UNCHANGED <<marked, queue>>
          \/ s \in 1..NRows /\ Mark(s, 0) /\ seeds' = seeds \ {k} /\ UNCHANGED cut
  BY <1>1 DEF TakeSeed, WalkInv, Valid
<1> DEFINE s == query.seeds[k]
<1>4. s \in 1..NRows /\ s \in Reach(Seeded) /\ k \in from
  BY <1>1, <1>3, ReachHolds DEF WalkInv, Valid, Seeded, RowsOf
<1>5. CASE s \in marked /\ seeds' = seeds \ {k} /\ UNCHANGED <<marked, queue, cut>>
  BY <1>1, <1>2, <1>5 DEF WalkInv, Active, Done
<1>6. CASE cut' = TRUE /\ seeds' = {} /\ UNCHANGED <<marked, queue>>
  BY <1>1, <1>2, <1>6 DEF WalkInv, Active
<1>7. CASE Mark(s, 0) /\ seeds' = seeds \ {k} /\ UNCHANGED cut
  <2>1. /\ marked' = marked \cup {s} /\ queue' \in Seq(marked')
        /\ Range(queue') = Range(queue) \cup {s}
    BY <1>1, <1>4, <1>7, MarkKeeps DEF WalkInv
  <2> QED BY <1>1, <1>2, <1>4, <1>7, <2>1 DEF WalkInv, Active, Done
<1> QED BY <1>3, <1>5, <1>6, <1>7

(* The edges of the row in front are those still to follow.                 *)
LEMMA ExpandKeepsInv ==
  ASSUME WalkInv, Expand
  PROVE  WalkInv'
<1>1. /\ phase = "walk" /\ phase' = phase /\ todo = {} /\ from' = from /\ seeds' = seeds
      /\ UNCHANGED graphVars /\ Active /\ marked' = marked /\ cut' = cut
      /\ queue # <<>> /\ here' = Head(queue) /\ todo' = Neighbours(here') /\ queue' = Tail(queue)
  BY DEF Expand, queryVars, indexVars, graphVars, WalkInv, Active
<1>2. /\ NRows' = NRows /\ Reach(Seeded)' = Reach(Seeded) /\ Valid(query)' = Valid(query)
      /\ \A i : Neighbours(i)' = Neighbours(i)
      /\ query' = query /\ \A e : Barred(e)' <=> Barred(e)
  BY <1>1, GraphKept DEF Seeded, graphVars, RowsOf
<1>3. /\ here' \in marked /\ queue' \in Seq(marked)
      /\ \A x \in Range(queue) : x = here' \/ x \in Range(queue')
  BY <1>1, RangeHead DEF WalkInv
<1> QED BY <1>1, <1>2, <1>3 DEF WalkInv, Active, Done

(* An edge is followed, barred, or met before.                              *)
LEMMA FollowEdgeKeepsInv ==
  ASSUME WalkInv, NEW e \in todo, FollowEdge(e)
  PROVE  WalkInv'
<1>1. /\ phase = "walk" /\ phase' = phase /\ from' = from /\ seeds' = seeds
      /\ UNCHANGED graphVars /\ Active /\ here' = here /\ todo' = todo \ {e}
      /\ here \in marked /\ todo \subseteq Neighbours(here)
  BY DEF FollowEdge, queryVars, indexVars, graphVars, WalkInv, Active
<1>2. /\ NRows' = NRows /\ Reach(Seeded)' = Reach(Seeded) /\ Valid(query)' = Valid(query)
      /\ \A i : Neighbours(i)' = Neighbours(i)
      /\ query' = query /\ \A d : Barred(d)' <=> Barred(d)
  BY <1>1, GraphKept DEF Seeded, graphVars, RowsOf
<1>3. CASE Skipped(e) /\ UNCHANGED <<marked, queue, cut>>
  BY <1>1, <1>2, <1>3 DEF WalkInv, Active, Done, Barred, Skipped
<1>4. CASE cut' = TRUE /\ UNCHANGED <<marked, queue>>
  BY <1>1, <1>2, <1>4 DEF WalkInv, Active
<1>5. CASE ~Skipped(e) /\ Mark(e.idx, depths[here] + 1) /\ UNCHANGED cut
  <2>1. ~Barred(e) /\ e.idx \in 1..NRows /\ e.idx \in Reach(Seeded)
    BY <1>1, <1>5, ReachClosed DEF Skipped, Barred, WalkInv
  <2>2. /\ marked' = marked \cup {e.idx} /\ queue' \in Seq(marked')
        /\ Range(queue') = Range(queue) \cup {e.idx}
    BY <1>1, <1>5, <2>1, MarkKeeps DEF WalkInv
  <2> QED BY <1>1, <1>2, <1>5, <2>1, <2>2 DEF WalkInv, Active, Done
<1> QED BY <1>3, <1>4, <1>5 DEF FollowEdge

(* The next walk of a query begins from its own seeds.                      *)
LEMMA NextWalkKeepsInv ==
  ASSUME NEW ks, NextWalk(ks), (ks \subseteq Valid(query))'
  PROVE  WalkInv' /\ jobs' \subseteq Valid(query)'
<1>1. CASE phase' = "combined" /\ jobs' = {}
  BY <1>1 DEF WalkInv, Active
<1>2. CASE \E k \in ks : phase' = "seed" /\ jobs' = ks \ {k} /\ BeginWalk({k})
  BY <1>2, BeginKeepsInv
<1> QED BY <1>1, <1>2 DEF NextWalk

-----------------------------------------------------------------------------

(* Before the first query nothing is marked.                                *)
LEMMA InitWalkInv == Init => WalkInv /\ JobsInv
BY DEF Init, WalkInv, Active, JobsInv

(* The invariant of the walks is inductive.                                 *)
LEMMA NextWalkInv == WalkInv /\ JobsInv /\ [Next]_vars => (WalkInv /\ JobsInv)'
<1> SUFFICES ASSUME WalkInv, JobsInv, [Next]_vars PROVE WalkInv' /\ JobsInv'
  OBVIOUS
<1>1. CASE phase = "build" /\ UNCHANGED queryVars
  BY <1>1 DEF queryVars, WalkInv, Active, JobsInv
<1>2. ASSUME NEW q \in Queries, Ask(q)
      PROVE  WalkInv' /\ JobsInv'
  <2>1. query' = q /\ Valid(q)' = Valid(q)
    BY <1>2 DEF Ask, indexVars, Valid, NRows
  <2>2. CASE NextWalk(Valid(q))
    BY <2>1, <2>2, NextWalkKeepsInv DEF JobsInv
  <2>3. CASE phase' = "seed" /\ jobs' = {} /\ BeginWalk(Valid(q))
    BY <2>1, <2>3, BeginKeepsInv DEF JobsInv
  <2> QED BY <1>2, <2>2, <2>3 DEF Ask
<1>3. CASE Walk
  <2>1. UNCHANGED graphVars /\ phase # "build" /\ Valid(query)' = Valid(query)
    <3>1. UNCHANGED graphVars /\ phase # "build"
      BY <1>3 DEF Walk, TakeSeed, SeedsTaken, Expand, FollowEdge, WalkEnds, queryVars,
                  indexVars, graphVars
    <3> QED BY <3>1, GraphKept
  <2>2. CASE WalkEnds
    BY <2>1, <2>2, NextWalkKeepsInv DEF WalkEnds, JobsInv
  <2>3. CASE SeedsTaken
    <3>1. /\ phase = "seed" /\ seeds = {} /\ UNCHANGED walkVars /\ jobs' = jobs
          /\ \A i : Neighbours(i)' = Neighbours(i) /\ Reach(i)' = Reach(i)
          /\ \A e : Barred(e)' <=> Barred(e)
          /\ NRows' = NRows /\ query' = query
      BY <2>1, <2>3, GraphKept DEF SeedsTaken, graphVars
    <3>2. Reach(Seeded)' = Reach(Seeded)
      BY <3>1 DEF Seeded, RowsOf, walkVars
    <3> QED BY <2>1, <3>1, <3>2 DEF WalkInv, Active, JobsInv, walkVars, Done
  <2>4. CASE TakeSeed \/ Expand \/ \E e \in todo : FollowEdge(e)
    <3>1. WalkInv'
      BY <2>4, TakeSeedKeepsInv, ExpandKeepsInv, FollowEdgeKeepsInv
    <3>2. jobs' = jobs
      BY <2>4 DEF TakeSeed, Expand, FollowEdge, queryVars
    <3> QED BY <2>1, <3>1, <3>2 DEF JobsInv
  <2> QED BY <1>3, <2>2, <2>3, <2>4 DEF Walk
<1>4. CASE Answer
  <2>1. phase' = "done" /\ jobs' = jobs /\ UNCHANGED graphVars /\ phase # "build"
    BY <1>4 DEF Answer, indexVars, graphVars
  <2> QED BY <2>1, GraphKept DEF WalkInv, Active, JobsInv
<1>5. CASE UNCHANGED vars
  <2>1. UNCHANGED graphVars /\ UNCHANGED walkVars /\ phase' = phase /\ jobs' = jobs
    BY <1>5 DEF vars, queryVars, indexVars, graphVars
  <2>2. /\ \A i : Neighbours(i)' = Neighbours(i) /\ Reach(i)' = Reach(i)
        /\ \A e : Barred(e)' <=> Barred(e)
        /\ NRows' = NRows /\ query' = query /\ Valid(query)' = Valid(query)
    BY <2>1, GraphKept DEF graphVars
  <2>3. Reach(Seeded)' = Reach(Seeded)
    BY <2>1, <2>2 DEF Seeded, RowsOf, walkVars
  <2> QED BY <2>1, <2>2, <2>3 DEF WalkInv, Active, JobsInv, walkVars, Done
<1> QED BY <1>1, <1>2, <1>3, <1>4, <1>5 DEF Next

(* A walk that is done and was not cut has marked a closed set.             *)
LEMMA WalkInvExact == WalkInv => WalkExact
<1> SUFFICES ASSUME WalkInv, phase = "walk", todo = {}, queue = <<>>
             PROVE  /\ marked \subseteq Reach(Seeded)
                    /\ ~cut => marked = Reach(Seeded)
  BY DEF WalkExact, Seeded
<1>1. marked \subseteq Reach(Seeded) /\ marked \subseteq 1..NRows /\ seeds = {}
  BY DEF WalkInv, Active
<1>2. ASSUME ~cut
      PROVE  Reach(Seeded) \subseteq marked
  <2>1. Seeded \subseteq marked
    BY <1>1, <1>2 DEF WalkInv, Active, Seeded, RowsOf
  <2>2. Range(queue) = {}
    BY DEF Range
  <2>3. \A i \in marked : \A e \in Neighbours(i) : Done(e)
    BY <1>2, <2>2 DEF WalkInv, Active
  <2>4. Closed(marked)
    BY <2>3 DEF Closed, OneAway, Done, Barred
  <2> QED BY <1>1, <2>1, <2>4, ReachLeast
<1> QED BY <1>1, <1>2

(* walk_slice over any rows, seeds and limits: what it marks its seeds lead *)
(* to, and unless it says it was cut there is nothing else they lead to.    *)
THEOREM DependencyWalkExact == Spec => []WalkExact
BY InitWalkInv, NextWalkInv, WalkInvExact, PTL DEF Spec

-----------------------------------------------------------------------------
(* The lists and the layers are recursive functions. That there are such    *)
(* functions is an induction over a set of numbers.                         *)

(* What holds of 0 and of the next number with each number holds of all.    *)
LEMMA Induction ==
  ASSUME NEW T, 0 \in T, \A n \in Nat : n \in T => n + 1 \in T
  PROVE  \A n \in Nat : n \in T
<1> DEFINE rest == Nat \ T
<1> SUFFICES ASSUME rest # {} PROVE FALSE
  OBVIOUS
<1>1. IsWellFoundedOn(OpToRel(<, Nat), Nat)
  BY NatLessThanWellFounded
<1>2. \E x \in rest : \A y \in rest : ~(<<y, x>> \in OpToRel(<, Nat))
  <2>1. rest \in SUBSET Nat
    OBVIOUS
  <2> HIDE DEF rest
  <2> QED BY <1>1, <2>1, WFMin
<1>3. PICK x \in rest : \A y \in rest : ~(<<y, x>> \in OpToRel(<, Nat))
  BY <1>2
<1>4. x \in Nat /\ x - 1 \in Nat /\ x - 1 < x
  <2>1. x \in Nat /\ x \notin T
    BY <1>3
  <2>2. x # 0
    BY <2>1
  <2> QED BY <2>1, <2>2
<1>5. <<x - 1, x>> \in OpToRel(<, Nat)
  BY <1>4 DEF OpToRel
<1>6. x - 1 \in T
  BY <1>3, <1>4, <1>5
<1>7. (x - 1) + 1 = x
  BY <1>4
<1> QED BY <1>3, <1>4, <1>6, <1>7

(* Iteration: from a value, and what follows each one at each count.        *)
Follows(A, next) == next \in [Nat -> [A -> A]]
Iterated(A, a, next, n, f) ==
  f \in [0..n -> A] /\ f[0] = a /\ \A k \in 1..n : f[k] = next[k][f[k - 1]]

(* There is an iteration of any length.                                     *)
LEMMA Iterates ==
  ASSUME NEW A, NEW a \in A, NEW next, Follows(A, next), NEW n \in Nat
  PROVE  \E f : Iterated(A, a, next, n, f)
<1> DEFINE Is(m, g) == g \in [0..m -> A] /\ g[0] = a /\ \A k \in 1..m : g[k] = next[k][g[k - 1]]
           T == {m \in Nat : \E g : Is(m, g)}
<1>0. next \in [Nat -> [A -> A]]
  BY DEF Follows
<1>1. 0 \in T
  <2>1. Is(0, [k \in 0..0 |-> a])
    OBVIOUS
  <2> QED BY <2>1
<1>2. ASSUME NEW m \in Nat, m \in T
      PROVE  m + 1 \in T
  <2>1. PICK f : Is(m, f)
    BY <1>2
  <2> DEFINE g == [k \in 0..(m + 1) |-> IF k <= m THEN f[k] ELSE next[m + 1][f[m]]]
  <2>2. f[m] \in A /\ next[m + 1][f[m]] \in A
    BY <1>0, <2>1
  <2>3. g \in [0..(m + 1) -> A] /\ g[0] = a
    BY <2>1, <2>2
  <2>4. ASSUME NEW k \in 1..(m + 1)
        PROVE  g[k] = next[k][g[k - 1]]
    <3>1. k - 1 \in 0..m /\ g[k - 1] = f[k - 1]
      OBVIOUS
    <3>2. CASE k <= m
      BY <2>1, <3>1, <3>2
    <3>3. CASE k = m + 1
      <4>1. k - 1 = m /\ g[k] = next[m + 1][f[m]]
        BY <3>3
      <4> QED BY <3>1, <3>3, <4>1
    <3> QED BY <3>2, <3>3
  <2>5. Is(m + 1, g)
    BY <2>3, <2>4
  <2>6. m + 1 \in Nat /\ \E h : Is(m + 1, h)
    <3> HIDE DEF Is, g
    <3> QED BY <2>5
  <2> QED BY <2>6
<1>3. \A m \in Nat : m \in T
  <2> HIDE DEF T
  <2> QED BY <1>1, <1>2, Induction
<1> QED BY <1>3 DEF Iterated

(* What retain has kept of the first so many elements of a list.            *)
Keeps(list, S, f) ==
  /\ f[0] = <<>>
  /\ \A k \in 1..Len(list) : f[k] = IF list[k] \in S THEN Append(f[k - 1], list[k]) ELSE f[k - 1]

(* Such a function exists, and its last value is what retain returns.       *)
LEMMA RetainedIs ==
  ASSUME NEW T, NEW list \in Seq(T), NEW S
  PROVE  \E f \in [0..Len(list) -> Seq(T)] : Keeps(list, S, f) /\ Retained(list, S) = f[Len(list)]
<1> DEFINE N == Len(list)
           Body(f) == [n \in 0..N |->
                         IF n = 0 THEN <<>>
                         ELSE IF list[n] \in S THEN Append(f[n - 1], list[n]) ELSE f[n - 1]]
           next == [k \in Nat |-> [x \in Seq(T) |->
                      IF k \in 1..N /\ list[k] \in S THEN Append(x, list[k]) ELSE x]]
<1>1. N \in Nat /\ \A k \in 1..N : list[k] \in T
  BY LenProperties, ElementOfSeq
<1>2. Follows(Seq(T), next)
  <2>1. \A k \in Nat, x \in Seq(T) :
          (IF k \in 1..N /\ list[k] \in S THEN Append(x, list[k]) ELSE x) \in Seq(T)
    BY <1>1, AppendProperties
  <2> QED BY <2>1 DEF Follows
<1>3. <<>> \in Seq(T)
  OBVIOUS
<1>4. PICK f : f \in [0..N -> Seq(T)] /\ f[0] = <<>> /\ \A k \in 1..N : f[k] = next[k][f[k - 1]]
  <2>1. \E f : Iterated(Seq(T), <<>>, next, N, f)
    <3> HIDE DEF next, N
    <3> QED BY <1>1, <1>2, <1>3, Iterates
  <2> QED BY <2>1 DEF Iterated
<1>5. Keeps(list, S, f)
  <2>1. \A k \in 1..N : f[k - 1] \in Seq(T) /\ k \in Nat
    <3>1. \A k \in 1..N : k - 1 \in 0..N /\ k \in Nat
      BY <1>1
    <3> QED BY <1>4, <3>1
  <2> QED BY <1>4, <2>1 DEF Keeps
<1>6. f = Body(f)
  <2>1. ASSUME NEW n \in 0..N
        PROVE  f[n] = Body(f)[n]
    <3>1. CASE n = 0
      BY <1>4, <3>1
    <3>2. CASE n # 0
      <4>1. n \in 1..N
        BY <1>1, <3>2
      <4> QED BY <1>5, <3>2, <4>1 DEF Keeps
    <3> QED BY <3>1, <3>2
  <2>2. f = [n \in 0..N |-> f[n]] /\ Body(f) = [n \in 0..N |-> Body(f)[n]]
    BY <1>4
  <2> HIDE DEF Body
  <2> QED BY <2>1, <2>2
<1> DEFINE kept == CHOOSE g : g = Body(g)
<1>7. kept = Body(kept)
  <2> HIDE DEF Body
  <2> QED BY <1>6
<1>8. kept \in [0..N -> Seq(T)] /\ Keeps(list, S, kept)
  <2> DEFINE Same == {n \in Nat : n \in 0..N => kept[n] = f[n]}
  <2>1. \A n \in 0..N : kept[n] = Body(kept)[n] /\ DOMAIN kept = 0..N
    <3> HIDE DEF kept
    <3> QED BY <1>7
  <2> HIDE DEF kept
  <2>2. 0 \in Same
    BY <1>1, <1>4, <2>1
  <2>3. ASSUME NEW n \in Nat, n \in Same
        PROVE  n + 1 \in Same
    <3>1. CASE n + 1 \in 0..N
      <4>1. n + 1 \in 1..N /\ n \in 0..N /\ (n + 1) - 1 = n /\ n + 1 # 0
        BY <1>1, <3>1
      <4>2. kept[n] = f[n]
        BY <2>3, <4>1
      <4>3. kept[n + 1] = IF list[n + 1] \in S THEN Append(kept[n], list[n + 1]) ELSE kept[n]
        BY <2>1, <4>1
      <4>4. f[n + 1] = IF list[n + 1] \in S THEN Append(f[n], list[n + 1]) ELSE f[n]
        BY <1>5, <4>1 DEF Keeps
      <4> QED BY <4>2, <4>3, <4>4
    <3> QED BY <3>1
  <2>4. \A n \in Nat : n \in Same
    <3> HIDE DEF Same
    <3> QED BY <2>2, <2>3, Induction
  <2>5. \A n \in 0..N : kept[n] = f[n]
    BY <1>1, <2>4
  <2>6. kept = f
    BY <1>6, <1>7, <2>1, <2>5
  <2> QED BY <1>4, <1>5, <2>6
<1>9. Retained(list, S) = kept[N]
  BY DEF Retained
<1> QED BY <1>8, <1>9

(* A list names each of its elements once.                                  *)
Distinct(s) == \A a, b \in DOMAIN s : s[a] = s[b] => a = b

(* A list stays such when a new element is put at its end,                  *)
LEMMA DistinctAppend ==
  ASSUME NEW T, NEW s \in Seq(T), Distinct(s), NEW x, x \notin Range(s)
  PROVE  Distinct(Append(s, x))
<1>1. /\ DOMAIN Append(s, x) = 1..(Len(s) + 1) /\ DOMAIN s = 1..Len(s) /\ Len(s) \in Nat
      /\ (\A k \in 1..Len(s) : Append(s, x)[k] = s[k]) /\ Append(s, x)[Len(s) + 1] = x
  BY SeqMonotonic, AppendProperties, LenProperties
<1>2. ASSUME NEW a \in 1..(Len(s) + 1), NEW b \in 1..(Len(s) + 1), Append(s, x)[a] = Append(s, x)[b]
      PROVE  a = b
  <2>1. \A c \in 1..Len(s) : s[c] # x
    BY <1>1 DEF Range
  <2>2. \A c \in 1..(Len(s) + 1) : c = Len(s) + 1 \/ c \in 1..Len(s)
    BY <1>1
  <2>3. CASE a \in 1..Len(s) /\ b \in 1..Len(s)
    BY <1>1, <1>2, <2>3 DEF Distinct
  <2> QED BY <1>1, <1>2, <2>1, <2>2, <2>3
<1> QED BY <1>1, <1>2 DEF Distinct

(* and is as long as the set of its elements is large.                      *)
LEMMA DistinctCounts ==
  ASSUME NEW T, NEW s \in Seq(T), Distinct(s)
  PROVE  IsFiniteSet(Range(s)) /\ Len(s) = Cardinality(Range(s)) /\ Len(s) \in Nat
<1>1. DOMAIN s = 1..Len(s) /\ Len(s) \in Nat
  BY LenProperties
<1>2. s \in [1..Len(s) -> Range(s)]
  BY <1>1 DEF Range
<1>3. IsFiniteSet(1..Len(s)) /\ Cardinality(1..Len(s)) = Len(s)
  BY <1>1, FS_Interval
<1>4. s \in Bijection(1..Len(s), Range(s))
  BY <1>1, <1>2 DEF Bijection, Injection, IsInjective, Surjection, Distinct, Range
<1> QED BY <1>1, <1>3, <1>4, FS_Bijection DEF ExistsBijection

(* What retain returns names the elements that are in the set, once each.   *)
LEMMA RetainedDoes ==
  ASSUME NEW T, NEW list \in Seq(T), Distinct(list), NEW S
  PROVE  /\ Retained(list, S) \in Seq(T) /\ Distinct(Retained(list, S))
         /\ Range(Retained(list, S)) = Range(list) \cap S
<1>1. PICK f \in [0..Len(list) -> Seq(T)] : Keeps(list, S, f) /\ Retained(list, S) = f[Len(list)]
  BY RetainedIs
<1>2. Len(list) \in Nat /\ DOMAIN list = 1..Len(list)
  BY LenProperties
<1> DEFINE First(n) == {list[k] : k \in 1..n}
           Right(n) == Distinct(f[n]) /\ Range(f[n]) = First(n) \cap S
           T0 == {n \in Nat : n \in 0..Len(list) => Right(n)}
<1>3. 0 \in T0
  <2>1. f[0] = <<>>
    BY <1>1 DEF Keeps
  <2>2. Distinct(<<>>) /\ Range(<<>>) = {} /\ First(0) = {}
    BY DEF Distinct, Range
  <2> QED BY <2>1, <2>2
<1>4. ASSUME NEW n \in Nat, n \in T0, n + 1 \in 0..Len(list)
      PROVE  Right(n + 1)
  <2>1. n + 1 \in 1..Len(list) /\ n \in 0..Len(list) /\ (n + 1) - 1 = n /\ f[n] \in Seq(T)
    BY <1>1, <1>2, <1>4
  <2>2. Right(n)
    BY <1>4, <2>1
  <2>3. First(n + 1) = First(n) \cup {list[n + 1]}
    OBVIOUS
  <2>4. list[n + 1] \notin First(n)
    <3>1. n + 1 \in DOMAIN list
      BY <1>2, <2>1
    <3>2. ASSUME NEW k \in 1..n
          PROVE  list[k] # list[n + 1]
      <4>1. k \in DOMAIN list /\ k # n + 1
        BY <1>2, <2>1
      <4> QED BY <3>1, <4>1 DEF Distinct
    <3> QED BY <3>2
  <2>5. f[n + 1] = IF list[n + 1] \in S THEN Append(f[n], list[n + 1]) ELSE f[n]
    BY <1>1, <2>1 DEF Keeps
  <2> HIDE DEF First
  <2>6. CASE list[n + 1] \in S
    <3>1. Distinct(f[n + 1])
      BY <2>1, <2>2, <2>4, <2>5, <2>6, DistinctAppend
    <3>2. Range(f[n + 1]) = Range(f[n]) \cup {list[n + 1]}
      BY <2>1, <2>5, <2>6, RangeAppend
    <3> QED BY <2>2, <2>3, <2>6, <3>1, <3>2
  <2>7. CASE list[n + 1] \notin S
    BY <2>2, <2>3, <2>5, <2>7
  <2> QED BY <2>6, <2>7
<1>5. \A n \in Nat : n \in T0
  <2>1. ASSUME NEW n \in Nat, n \in T0
        PROVE  n + 1 \in T0
    <3>1. n + 1 \in 0..Len(list) => Right(n + 1)
      BY <1>4, <2>1
    <3> HIDE DEF Right
    <3> QED BY <3>1
  <2> HIDE DEF T0
  <2> QED BY <1>3, <2>1, Induction
<1>6. Right(Len(list))
  <2>1. Len(list) \in 0..Len(list)
    BY <1>2
  <2>2. Len(list) \in T0
    <3> HIDE DEF T0
    <3> QED BY <1>2, <1>5
  <2> HIDE DEF Right
  <2> QED BY <2>1, <2>2
<1>7. First(Len(list)) = Range(list)
  BY <1>2 DEF Range
<1> QED BY <1>1, <1>2, <1>6, <1>7

-----------------------------------------------------------------------------
(* The marked rows level by level: the queue rises by at most one, and a    *)
(* row is marked at the first layer that holds it.                          *)

(* A list names the rows of a set, each once.                               *)
Names(list, S) == list \in Seq(1..NRows) /\ Distinct(list) /\ Range(list) = S

(* The rows at most k edges away from S, for every k.                       *)
IsLayers(w, S) ==
  w[0] = S /\ \A k \in 1..MaxRecords : w[k] = w[k - 1] \cup OneAway(w[k - 1])

(* Each row of a set at the first layer that holds it.                      *)
Shortest(w, S, d) ==
  \A i \in S : i \in w[d[i]] /\ (d[i] > 0 => i \notin w[d[i] - 1])

(* After a query was asked: what walk_slice keeps in its list, its bit set  *)
(* and its depth map are the same rows;                                     *)
Seen ==
  /\ Names(idxs, marked) /\ Len(idxs) <= query.cap
  /\ depths \in [marked -> Nat] /\ marked \subseteq 1..NRows
  /\ \A i \in marked : depths[i] < Len(idxs)

(* the queue goes up by at most one in depth;                               *)
Rising ==
  /\ \A a, b \in DOMAIN queue :
       a <= b => depths[queue[a]] <= depths[queue[b]] /\ depths[queue[b]] <= depths[queue[a]] + 1
  /\ todo # {} => \A a \in DOMAIN queue :
                    depths[here] <= depths[queue[a]] /\ depths[queue[a]] <= depths[here] + 1
  /\ phase = "seed" => \A i \in marked : depths[i] = 0

(* a walk that was cut marks no more, and something is missing from it;     *)
CutShort ==
  cut => /\ ~(Reach(Seeded) \subseteq marked)
         /\ \/ Full
            \/ /\ phase = "walk" /\ (todo # {} => depths[here] >= query.depth)
               /\ \A a \in DOMAIN queue : depths[queue[a]] >= query.depth

(* and each marked row is at its shortest distance, as all that is nearer   *)
(* than the row in front was marked before: the layer of the row that is    *)
(* being expanded, or between two rows the one of the row before.           *)
Layered ==
  \A w : IsLayers(w, Seeded) =>
    /\ Shortest(w, marked, depths)
    /\ ~cut /\ phase = "walk" =>
         /\ todo # {} => w[depths[here]] \subseteq marked
         /\ todo = {} /\ queue # <<>> =>
              \E d \in Nat : w[d] \subseteq marked /\ depths[queue[1]] \in {d, d + 1}

LevelInv == Active => Seen /\ Rising /\ CutShort /\ Layered
AskInv == phase # "build" => query \in Queries

(* The limits of a query are numbers.                                       *)
LEMMA QueryIs ==
  ASSUME ScanInv, AskInv, phase # "build"
  PROVE  /\ query.cap \in Nat \ {0} /\ query.depth \in Nat /\ query.seeds \in Seq(Nat)
         /\ query.seeds # <<>> /\ NRows \in Nat /\ NRows <= MaxRecords /\ MaxRecords \in Nat
<1>1. query \in Query /\ query.seeds # <<>>
  BY QueriesAssumption DEF AskInv
<1>2. NRows \in Nat /\ NRows <= MaxRecords
  BY LenProperties DEF ScanInv, ScanType, NRows
<1> QED BY <1>1, <1>2, RecordsAssumption DEF Query

(* Nobody marks more rows than there are.                                   *)
LEMMA SeenBounded ==
  ASSUME ScanInv, AskInv, phase # "build", Seen
  PROVE  Len(idxs) \in Nat /\ Len(idxs) = Cardinality(marked) /\ Len(idxs) <= NRows
         /\ IsFiniteSet(marked)
<1>1. IsFiniteSet(1..NRows) /\ Cardinality(1..NRows) = NRows /\ NRows \in Nat
  BY QueryIs, FS_Interval
<1>2. /\ IsFiniteSet(Range(idxs)) /\ Len(idxs) = Cardinality(Range(idxs)) /\ Len(idxs) \in Nat
      /\ Range(idxs) = marked
  BY DistinctCounts DEF Seen, Names
<1>3. Cardinality(marked) <= Cardinality(1..NRows)
  BY <1>1, FS_Subset DEF Seen
<1> QED BY <1>1, <1>2, <1>3

(* Marking a row puts it at the end of the list and of the queue.           *)
LEMMA MarkAdds ==
  ASSUME ScanInv, AskInv, phase # "build", Seen, ~Full, queue \in Seq(marked),
         NEW i \in 1..NRows, i \notin marked, NEW d \in Nat, d <= Len(idxs), Mark(i, d),
         NRows' = NRows, query' = query
  PROVE  /\ Seen' /\ marked' = marked \cup {i} /\ depths'[i] = d
         /\ \A j \in marked : depths'[j] = depths[j]
         /\ Len(idxs') = Len(idxs) + 1 /\ Len(queue) \in Nat
         /\ DOMAIN queue = 1..Len(queue) /\ DOMAIN queue' = 1..(Len(queue) + 1)
         /\ queue'[Len(queue) + 1] = i
         /\ \A a \in 1..Len(queue) : queue'[a] = queue[a] /\ queue[a] \in marked
<1>1. /\ marked' = marked \cup {i} /\ idxs' = Append(idxs, i) /\ queue' = Append(queue, i)
      /\ depths' = [j \in marked \cup {i} |-> IF j = i THEN d ELSE depths[j]]
  BY DEF Mark
<1>2. /\ idxs \in Seq(1..NRows) /\ Distinct(idxs) /\ Range(idxs) = marked
      /\ Len(idxs) <= query.cap /\ marked \subseteq 1..NRows
  BY DEF Seen, Names
<1>3. Len(idxs) \in Nat /\ query.cap \in Nat /\ NRows \in Nat
  BY SeenBounded, QueryIs
<1>4. idxs' \in Seq(1..NRows) /\ Len(idxs') = Len(idxs) + 1
  BY <1>1, <1>2, AppendProperties
<1>5. Distinct(idxs') /\ Range(idxs') = marked'
  BY <1>1, <1>2, DistinctAppend, RangeAppend
<1>6. Len(idxs') <= query'.cap
  BY <1>2, <1>3, <1>4 DEF Full
<1>7. /\ depths' \in [marked' -> Nat] /\ depths'[i] = d
      /\ \A j \in marked : depths'[j] = depths[j]
  BY <1>1 DEF Seen
<1>8. \A j \in marked' : depths'[j] < Len(idxs')
  <2>1. \A j \in marked : depths[j] < Len(idxs) /\ depths[j] \in Nat
    BY DEF Seen
  <2> QED BY <1>1, <1>3, <1>4, <1>7, <2>1
<1>9. Seen'
  BY <1>1, <1>2, <1>4, <1>5, <1>6, <1>7, <1>8 DEF Seen, Names
<1>10. /\ Len(queue) \in Nat /\ DOMAIN queue = 1..Len(queue)
       /\ \A a \in 1..Len(queue) : queue[a] \in marked
  BY LenProperties, ElementOfSeq
<1>11. /\ DOMAIN queue' = 1..(Len(queue) + 1) /\ queue'[Len(queue) + 1] = i
       /\ \A a \in 1..Len(queue) : queue'[a] = queue[a]
  BY <1>1, AppendProperties, LenProperties
<1> QED BY <1>1, <1>4, <1>7, <1>9, <1>10, <1>11

(* The layers of a graph that stays the same are the same.                  *)
LEMMA LayersKept ==
  ASSUME UNCHANGED graphVars
  PROVE  /\ \A S : OneAway(S)' = OneAway(S)
         /\ \A w, S : IsLayers(w, S)' <=> IsLayers(w, S)
<1>1. NRows' = NRows /\ query' = query /\ \A i : Neighbours(i)' = Neighbours(i)
  BY DEF graphVars, NRows, Neighbours
<1>2. ASSUME NEW S
      PROVE  OneAway(S)' = OneAway(S)
  BY <1>1 DEF OneAway
<1> QED BY <1>2 DEF IsLayers

(* A walk begins with nothing in its list.                                  *)
LEMMA BeginLevels ==
  ASSUME AskInv', phase' = "seed", NEW ks, BeginWalk(ks)
  PROVE  LevelInv'
<1>1. /\ marked' = {} /\ idxs' = <<>> /\ depths' = <<>> /\ queue' = <<>> /\ todo' = {}
      /\ cut' = FALSE
  BY DEF BeginWalk
<1>2. query'.cap \in Nat
  <2>1. query' \in Query
    BY QueriesAssumption DEF AskInv
  <2> QED BY <2>1 DEF Query
<1>3. Distinct(<<>>) /\ Range(<<>>) = {} /\ <<>> \in [{} -> Nat] /\ DOMAIN <<>> = {}
  BY DEF Distinct, Range
<1>4. Seen'
  BY <1>1, <1>2, <1>3 DEF Seen, Names
<1>5. Rising' /\ CutShort' /\ Layered'
  BY <1>1, <1>3 DEF Rising, CutShort, Layered, Shortest
<1> QED BY <1>4, <1>5 DEF LevelInv

(* What every step of a walk leaves as it is.                               *)
LEMMA WalkKeeps ==
  ASSUME UNCHANGED graphVars, from' = from
  PROVE  /\ NRows' = NRows /\ query' = query /\ Reach(Seeded)' = Reach(Seeded)
         /\ Seeded' = Seeded /\ \A i : Neighbours(i)' = Neighbours(i)
         /\ \A w : IsLayers(w, Seeded)' <=> IsLayers(w, Seeded)
<1>1. /\ NRows' = NRows /\ query' = query /\ \A i : Neighbours(i)' = Neighbours(i)
      /\ \A S : Reach(S)' = Reach(S)
  BY GraphKept DEF graphVars
<1>2. Seeded' = Seeded
  BY <1>1 DEF Seeded, RowsOf
<1>3. \A w : IsLayers(w, Seeded)' <=> IsLayers(w, Seeded')
  BY LayersKept, <1>2
<1> QED BY <1>1, <1>2, <1>3

(* A seed goes into the list at distance 0.                                 *)
LEMMA TakeSeedLevels ==
  ASSUME ScanInv, AskInv, WalkInv, LevelInv, TakeSeed
  PROVE  LevelInv'
<1>1. /\ phase = "seed" /\ phase' = phase /\ todo = {} /\ todo' = {} /\ from' = from
      /\ UNCHANGED graphVars /\ Active /\ here' = here
      /\ queue \in Seq(marked) /\ marked \subseteq 1..NRows /\ seeds \subseteq from
  BY DEF TakeSeed, queryVars, indexVars, graphVars, WalkInv, Active
<1>2. /\ NRows' = NRows /\ query' = query /\ Reach(Seeded)' = Reach(Seeded)
      /\ \A w : IsLayers(w, Seeded)' <=> IsLayers(w, Seeded)
  BY <1>1, WalkKeeps
<1>3. Seen /\ Rising /\ CutShort /\ Layered
  BY <1>1 DEF LevelInv
<1>4. PICK k \in seeds :
        LET s == query.seeds[k] IN
          \/ UNCHANGED <<marked, idxs, depths, queue, cut>>
          \/ /\ s \in 1..NRows /\ s \notin marked /\ Full
             /\ cut' = TRUE /\ UNCHANGED <<marked, idxs, depths, queue>>
          \/ s \in 1..NRows /\ s \notin marked /\ ~Full /\ Mark(s, 0) /\ UNCHANGED cut
  BY <1>1 DEF TakeSeed
<1> DEFINE s == query.seeds[k]
<1>5. s \in Seeded
  BY <1>1, <1>4 DEF Seeded, RowsOf
<1>6. CASE UNCHANGED <<marked, idxs, depths, queue, cut>>
  <2>1. Seen' /\ Rising' /\ CutShort'
    BY <1>1, <1>2, <1>3, <1>6 DEF Seen, Names, Rising, CutShort, Full
  <2>2. Layered'
    BY <1>1, <1>2, <1>3, <1>6 DEF Layered, Shortest
  <2> QED BY <2>1, <2>2 DEF LevelInv
<1>7. CASE /\ s \in 1..NRows /\ s \notin marked /\ Full
           /\ cut' = TRUE /\ UNCHANGED <<marked, idxs, depths, queue>>
  <2>1. s \in Reach(Seeded)
    BY <1>5, <1>7, ReachHolds
  <2>2. Seen' /\ Rising' /\ CutShort'
    BY <1>1, <1>2, <1>3, <1>7, <2>1 DEF Seen, Names, Rising, CutShort, Full
  <2>3. Layered'
    BY <1>1, <1>2, <1>3, <1>7 DEF Layered, Shortest
  <2> QED BY <2>2, <2>3 DEF LevelInv
<1>8. CASE s \in 1..NRows /\ s \notin marked /\ ~Full /\ Mark(s, 0) /\ UNCHANGED cut
  <2>1. ~cut
    BY <1>1, <1>3, <1>8 DEF CutShort
  <2>2. Len(idxs) \in Nat
    BY <1>1, <1>3, SeenBounded
  <2>3. /\ Seen' /\ marked' = marked \cup {s} /\ depths'[s] = 0
        /\ \A j \in marked : depths'[j] = depths[j]
        /\ Len(queue) \in Nat
        /\ DOMAIN queue = 1..Len(queue) /\ DOMAIN queue' = 1..(Len(queue) + 1)
        /\ queue'[Len(queue) + 1] = s
        /\ \A a \in 1..Len(queue) : queue'[a] = queue[a] /\ queue[a] \in marked
    BY <1>1, <1>2, <1>3, <1>8, <2>2, MarkAdds
  <2>4. \A j \in marked' : depths'[j] = 0
    BY <1>1, <1>3, <2>3 DEF Rising
  <2>5. \A a \in DOMAIN queue' : queue'[a] \in marked'
    <3>1. \A a \in 1..(Len(queue) + 1) : a \in 1..Len(queue) \/ a = Len(queue) + 1
      BY <2>3
    <3> QED BY <2>3, <3>1
  <2>6. Rising'
    BY <1>1, <2>4, <2>5 DEF Rising
  <2>7. CutShort'
    BY <1>8, <2>1 DEF CutShort
  <2>8. Layered'
    <3>1. SUFFICES ASSUME NEW w, IsLayers(w, Seeded)
                   PROVE  \A i \in marked' : i \in w[0]
      BY <1>1, <1>2, <2>4 DEF Layered, Shortest
    <3>2. \A i \in marked : i \in w[0]
      BY <1>1, <1>3, <3>1 DEF Layered, Shortest, Rising
    <3>3. s \in w[0]
      BY <1>5, <3>1 DEF IsLayers
    <3> QED BY <2>3, <3>2, <3>3
  <2> QED BY <2>3, <2>6, <2>7, <2>8 DEF LevelInv
<1> QED BY <1>4, <1>6, <1>7, <1>8

(* Once every seed was taken, unless cut, the first layer is marked.        *)
LEMMA SeedsTakenLevels ==
  ASSUME ScanInv, AskInv, WalkInv, LevelInv, SeedsTaken
  PROVE  LevelInv'
<1>1. /\ phase = "seed" /\ phase' = "walk" /\ todo = {} /\ seeds = {} /\ from' = from
      /\ UNCHANGED graphVars /\ Active
      /\ UNCHANGED <<marked, idxs, depths, queue, here, todo, cut>>
      /\ queue \in Seq(marked)
  BY DEF SeedsTaken, queryVars, indexVars, graphVars, walkVars, WalkInv, Active
<1>2. /\ NRows' = NRows /\ query' = query /\ Reach(Seeded)' = Reach(Seeded)
      /\ \A w : IsLayers(w, Seeded)' <=> IsLayers(w, Seeded)
  BY <1>1, WalkKeeps
<1>3. Seen /\ Rising /\ CutShort /\ Layered
  BY <1>1 DEF LevelInv
<1>4. Seen' /\ Rising' /\ CutShort'
  BY <1>1, <1>2, <1>3 DEF Seen, Names, Rising, CutShort, Full
<1>5. ASSUME ~cut, queue # <<>>, NEW w, IsLayers(w, Seeded)
      PROVE  w[0] \subseteq marked /\ depths[queue[1]] = 0
  <2>1. queue[1] \in marked
    <3>1. 1 \in 1..Len(queue)
      BY <1>1, <1>5, EmptySeq, LenProperties
    <3> QED BY <1>1, <3>1, ElementOfSeq
  <2>2. depths[queue[1]] = 0
    BY <1>1, <1>3, <2>1 DEF Rising
  <2>3. Seeded \subseteq marked
    BY <1>1, <1>5 DEF WalkInv, Seeded, RowsOf
  <2> QED BY <1>5, <2>2, <2>3 DEF IsLayers
<1>6. Layered'
  <2>1. SUFFICES ASSUME NEW w, IsLayers(w, Seeded)
                 PROVE  /\ Shortest(w, marked, depths)
                        /\ ~cut /\ queue # <<>> =>
                             \E d \in Nat : w[d] \subseteq marked /\ depths[queue[1]] \in {d, d + 1}
    BY <1>1, <1>2 DEF Layered, Shortest
  <2>2. Shortest(w, marked, depths)
    BY <1>3, <2>1 DEF Layered
  <2> QED BY <1>5, <2>1, <2>2
<1> QED BY <1>4, <1>6 DEF LevelInv

(* The layers lie within each other.                                        *)
LEMMA LayersGrow ==
  ASSUME NEW S, NEW w, IsLayers(w, S), NEW a \in 0..MaxRecords
  PROVE  \A b \in 0..MaxRecords : a <= b => w[a] \subseteq w[b]
<1>. DEFINE T == {n \in Nat : a + n \in 0..MaxRecords => w[a] \subseteq w[a + n]}
<1>0. MaxRecords \in Nat /\ a \in Nat
  BY RecordsAssumption
<1>1. 0 \in T
  BY <1>0
<1>2. ASSUME NEW n \in Nat, n \in T
      PROVE  n + 1 \in T
  <2>1. CASE a + (n + 1) \in 0..MaxRecords
    <3>1. a + n \in 0..MaxRecords /\ a + (n + 1) \in 1..MaxRecords /\ (a + (n + 1)) - 1 = a + n
      BY <1>0, <2>1
    <3>2. w[a + (n + 1)] = w[a + n] \cup OneAway(w[a + n])
      BY <3>1 DEF IsLayers
    <3>3. w[a] \subseteq w[a + n]
      BY <1>2, <3>1
    <3> QED BY <3>2, <3>3
  <2> QED BY <2>1
<1>3. \A n \in Nat : n \in T
  <2> HIDE DEF T
  <2> QED BY <1>1, <1>2, Induction
<1>4. ASSUME NEW b \in 0..MaxRecords, a <= b
      PROVE  w[a] \subseteq w[b]
  <2>1. b - a \in Nat /\ a + (b - a) = b
    BY <1>0, <1>4
  <2>2. b - a \in T
    <3> HIDE DEF T
    <3> QED BY <1>3, <2>1
  <2> QED BY <2>1, <2>2
<1> QED BY <1>4

(* When the row in front of the queue is the first of its depth, all rows   *)
(* of the layer before it have been expanded, so its own layer is marked.   *)
LEMMA NextLayer ==
  ASSUME ScanInv, AskInv, WalkInv, Active, Seen, Rising, ~cut, todo = {}, queue # <<>>,
         NEW w, IsLayers(w, Seeded), Shortest(w, marked, depths),
         NEW d \in Nat, w[d] \subseteq marked, depths[queue[1]] = d + 1
  PROVE  w[d + 1] \subseteq marked
<1>1. /\ queue \in Seq(marked) /\ marked \subseteq 1..NRows /\ 1 \in 1..Len(queue)
      /\ DOMAIN queue = 1..Len(queue) /\ Len(queue) \in Nat
      /\ \A a \in 1..Len(queue) : queue[a] \in marked
  BY EmptySeq, LenProperties, ElementOfSeq DEF WalkInv
<1>2. /\ phase # "build" /\ Len(idxs) \in Nat /\ Len(idxs) <= MaxRecords /\ MaxRecords \in Nat
  BY SeenBounded, QueryIs DEF Active
<1>3. \A i \in marked : depths[i] \in Nat /\ depths[i] < Len(idxs)
  BY DEF Seen
<1>4. d + 1 \in 1..MaxRecords /\ (d + 1) - 1 = d /\ d \in 0..MaxRecords
  <2>1. queue[1] \in marked
    BY <1>1
  <2>2. d + 1 < Len(idxs)
    BY <1>3, <2>1
  <2> QED BY <1>2, <2>2
<1>5. ASSUME NEW i \in w[d]
      PROVE  i \in marked /\ \A e \in Neighbours(i) : Done(e)
  <2>1. i \in marked
    BY <1>5
  <2>2. depths[i] <= d
    <3> SUFFICES ASSUME depths[i] > d PROVE FALSE
      BY <1>3, <2>1
    <3>1. depths[i] - 1 \in 0..MaxRecords /\ d <= depths[i] - 1 /\ depths[i] > 0
      BY <1>2, <1>3, <2>1
    <3>2. i \in w[depths[i] - 1]
      BY <1>4, <1>5, <3>1, LayersGrow
    <3> QED BY <2>1, <3>1, <3>2 DEF Shortest
  <2>3. i \notin Range(queue)
    <3>1. \A a \in 1..Len(queue) : d + 1 <= depths[queue[a]]
      BY <1>1 DEF Rising
    <3> QED BY <1>1, <1>3, <2>1, <2>2, <3>1 DEF Range
  <2> QED BY <2>1, <2>3 DEF WalkInv
<1>6. OneAway(w[d]) \subseteq marked
  BY <1>5 DEF OneAway, Done, Barred
<1>7. w[d + 1] = w[d] \cup OneAway(w[d])
  BY <1>4 DEF IsLayers
<1> QED BY <1>6, <1>7

(* The next row of the queue is expanded: everything at its depth or nearer *)
(* has been marked.                                                         *)
LEMMA ExpandLevels ==
  ASSUME ScanInv, AskInv, WalkInv, LevelInv, Expand
  PROVE  LevelInv'
<1>1. /\ phase = "walk" /\ phase' = phase /\ todo = {} /\ from' = from
      /\ UNCHANGED graphVars /\ Active
      /\ UNCHANGED <<marked, idxs, depths, cut>>
      /\ queue \in Seq(marked) /\ queue # <<>> /\ here' = Head(queue) /\ queue' = Tail(queue)
  BY DEF Expand, queryVars, indexVars, graphVars, WalkInv, Active
<1>2. /\ NRows' = NRows /\ query' = query /\ Reach(Seeded)' = Reach(Seeded)
      /\ \A w : IsLayers(w, Seeded)' <=> IsLayers(w, Seeded)
  BY <1>1, WalkKeeps
<1>3. Seen /\ Rising /\ CutShort /\ Layered
  BY <1>1 DEF LevelInv
<1>4. /\ here' = queue[1] /\ here' \in marked /\ Len(queue) \in Nat /\ 1 \in DOMAIN queue
      /\ DOMAIN queue = 1..Len(queue)
      /\ DOMAIN queue' = 1..(Len(queue) - 1) /\ queue' \in Seq(marked)
      /\ \A a \in DOMAIN queue' : queue'[a] = queue[a + 1] /\ a + 1 \in DOMAIN queue /\ a \in Nat
      /\ \A a \in DOMAIN queue : queue[a] \in marked
  <2>1. DOMAIN queue = 1..Len(queue) /\ Len(queue) \in Nat /\ Len(queue) # 0
    BY <1>1, EmptySeq, LenProperties
  <2>2. /\ Tail(queue) \in Seq(marked) /\ Len(Tail(queue)) = Len(queue) - 1
        /\ \A a \in 1..Len(Tail(queue)) : Tail(queue)[a] = queue[a + 1]
        /\ Head(queue) = queue[1] /\ Head(queue) \in marked
    BY <1>1, HeadTailProperties, LenProperties
  <2>3. DOMAIN Tail(queue) = 1..(Len(queue) - 1)
    BY <2>2, LenProperties
  <2> QED BY <1>1, <2>1, <2>2, <2>3, ElementOfSeq
<1>5. Seen'
  BY <1>1, <1>2, <1>3 DEF Seen, Names
<1>6. Rising'
  <2>1. ASSUME NEW a \in DOMAIN queue', NEW b \in DOMAIN queue', a <= b
        PROVE  /\ depths[queue'[a]] <= depths[queue'[b]]
               /\ depths[queue'[b]] <= depths[queue'[a]] + 1
    <3>1. a + 1 \in DOMAIN queue /\ b + 1 \in DOMAIN queue /\ a + 1 <= b + 1
      BY <1>4, <2>1
    <3> QED BY <1>3, <1>4, <3>1 DEF Rising
  <2>2. ASSUME NEW a \in DOMAIN queue'
        PROVE  depths[here'] <= depths[queue'[a]] /\ depths[queue'[a]] <= depths[here'] + 1
    <3>1. a + 1 \in DOMAIN queue /\ 1 <= a + 1
      BY <1>4, <2>2
    <3> QED BY <1>3, <1>4, <3>1 DEF Rising
  <2> QED BY <1>1, <2>1, <2>2 DEF Rising
<1>7. CutShort'
  BY <1>1, <1>2, <1>3, <1>4 DEF CutShort, Full
<1>8. Layered'
  <2>1. SUFFICES ASSUME NEW w, IsLayers(w, Seeded)
                 PROVE  /\ Shortest(w, marked, depths)
                        /\ ~cut =>
                             /\ w[depths[here']] \subseteq marked
                             /\ queue' # <<>> => depths[queue'[1]] \in {depths[here'], depths[here'] + 1}
                        /\ depths[here'] \in Nat
    BY <1>1, <1>2, <1>4 DEF Layered, Shortest
  <2>2. Shortest(w, marked, depths) /\ depths[here'] \in Nat
    BY <1>3, <1>4, <2>1 DEF Layered, Seen
  <2>3. ASSUME ~cut
        PROVE  w[depths[here']] \subseteq marked
    <3>1. PICK d \in Nat : w[d] \subseteq marked /\ depths[queue[1]] \in {d, d + 1}
      BY <1>1, <1>3, <2>1, <2>3 DEF Layered
    <3>2. CASE depths[queue[1]] = d + 1
      BY <1>1, <1>3, <1>4, <2>1, <2>2, <2>3, <3>1, <3>2, NextLayer
    <3> QED BY <1>4, <3>1, <3>2
  <2>4. ASSUME queue' # <<>>
        PROVE  depths[queue'[1]] \in {depths[here'], depths[here'] + 1}
    <3>1. 1 \in DOMAIN queue'
      BY <1>4, <2>4, EmptySeq, LenProperties
    <3>2. queue'[1] = queue[2] /\ 2 \in DOMAIN queue /\ queue[2] \in marked
      BY <1>4, <3>1
    <3>3. depths[queue[1]] <= depths[queue[2]] /\ depths[queue[2]] <= depths[queue[1]] + 1
      BY <1>3, <1>4, <3>2 DEF Rising
    <3>4. depths[queue[1]] \in Nat /\ depths[queue[2]] \in Nat
      BY <1>3, <1>4, <3>2 DEF Seen
    <3> QED BY <1>4, <3>2, <3>3, <3>4
  <2> QED BY <2>2, <2>3, <2>4
<1> QED BY <1>5, <1>6, <1>7, <1>8 DEF LevelInv

(* An edge is followed to a row that is one further away, or to none.       *)
LEMMA FollowEdgeLevels ==
  ASSUME ScanInv, AskInv, WalkInv, LevelInv, NEW e \in todo, FollowEdge(e)
  PROVE  LevelInv'
<1>1. /\ phase = "walk" /\ phase' = phase /\ todo # {} /\ from' = from
      /\ UNCHANGED graphVars /\ Active /\ here' = here /\ here \in marked
      /\ e \in Neighbours(here) /\ queue \in Seq(marked) /\ marked \subseteq 1..NRows
  BY DEF FollowEdge, queryVars, indexVars, graphVars, WalkInv, Active
<1>2. /\ NRows' = NRows /\ query' = query /\ Reach(Seeded)' = Reach(Seeded)
      /\ \A w : IsLayers(w, Seeded)' <=> IsLayers(w, Seeded)
  BY <1>1, WalkKeeps
<1>3. Seen /\ Rising /\ CutShort /\ Layered
  BY <1>1 DEF LevelInv
<1>4. /\ DOMAIN queue = 1..Len(queue) /\ Len(queue) \in Nat
      /\ \A a \in DOMAIN queue : queue[a] \in marked
      /\ \A j \in marked : depths[j] \in Nat
      /\ query.depth \in Nat /\ MaxRecords \in Nat
  BY <1>1, <1>3, QueryIs, LenProperties, ElementOfSeq DEF Seen
<1>5. ASSUME UNCHANGED <<marked, idxs, depths, queue>>
      PROVE  Seen' /\ Rising' /\ ((cut => cut') => Layered')
  <2>1. Seen' /\ Rising'
    BY <1>1, <1>2, <1>3, <1>5 DEF Seen, Names, Rising
  <2>2. ASSUME cut => cut'
        PROVE  Layered'
    <3>1. SUFFICES ASSUME NEW w, IsLayers(w, Seeded)
                   PROVE  /\ Shortest(w, marked, depths)
                          /\ ~cut => /\ w[depths[here]] \subseteq marked
                                     /\ queue # <<>> => \E d \in Nat : /\ w[d] \subseteq marked
                                                                     /\ depths[queue[1]] \in {d, d + 1}
      BY <1>1, <1>2, <1>5, <2>2 DEF Layered, Shortest
    <3>2. ASSUME queue # <<>>
          PROVE  depths[queue[1]] \in {depths[here], depths[here] + 1}
      <4>1. 1 \in DOMAIN queue
        BY <1>1, <1>4, <3>2, EmptySeq, LenProperties
      <4>2. depths[here] <= depths[queue[1]] /\ depths[queue[1]] <= depths[here] + 1
        BY <1>1, <1>3, <4>1 DEF Rising
      <4>3. depths[queue[1]] \in Nat /\ depths[here] \in Nat
        BY <1>1, <1>4, <4>1
      <4> QED BY <4>2, <4>3
    <3>3. Shortest(w, marked, depths) /\ (~cut => w[depths[here]] \subseteq marked)
      BY <1>1, <1>3, <3>1 DEF Layered
    <3>4. depths[here] \in Nat
      BY <1>1, <1>4
    <3> QED BY <3>1, <3>2, <3>3, <3>4
  <2> QED BY <2>1, <2>2
<1>6. CASE Skipped(e) /\ UNCHANGED <<marked, idxs, depths, queue, cut>>
  <2>1. CutShort'
    BY <1>1, <1>2, <1>3, <1>6 DEF CutShort, Full
  <2> QED BY <1>5, <1>6, <2>1 DEF LevelInv
<1>7. CASE /\ ~Skipped(e) /\ (depths[here] >= query.depth \/ Full)
           /\ cut' = TRUE /\ UNCHANGED <<marked, idxs, depths, queue>>
  <2>1. ~Barred(e) /\ e.idx \notin marked
    BY <1>7 DEF Skipped, Barred
  <2>2. e.idx \in Reach(Seeded)
    BY <1>1, <2>1, ReachClosed DEF WalkInv
  <2>3. \A a \in DOMAIN queue : depths[here] <= depths[queue[a]]
    BY <1>1, <1>3 DEF Rising
  <2>4. depths[here] >= query.depth => \A a \in DOMAIN queue : depths[queue[a]] >= query.depth
    <3>1. depths[here] \in Nat /\ \A a \in DOMAIN queue : depths[queue[a]] \in Nat
      BY <1>1, <1>4
    <3> HIDE DEF Rising
    <3> QED BY <1>4, <2>3, <3>1
  <2>5. CutShort'
    BY <1>1, <1>2, <1>7, <2>1, <2>2, <2>4 DEF CutShort, Full
  <2> QED BY <1>5, <1>7, <2>5 DEF LevelInv
<1>8. CASE /\ ~Skipped(e) /\ depths[here] < query.depth /\ ~Full
           /\ Mark(e.idx, depths[here] + 1) /\ UNCHANGED cut
  <2>. DEFINE i == e.idx
              d == depths[here]
  <2>1. ~Barred(e) /\ i \notin marked /\ i \in 1..NRows
    BY <1>8 DEF Skipped, Barred
  <2>2. ~cut
    <3>1. ~(d >= query.depth) /\ todo # {}
      BY <1>1, <1>4, <1>8
    <3> QED BY <1>3, <1>8, <3>1 DEF CutShort
  <2>3. Len(idxs) \in Nat /\ d \in Nat /\ d + 1 \in Nat /\ d + 1 <= Len(idxs) /\ phase # "build"
    BY <1>1, <1>3, <1>4, SeenBounded DEF Seen
  <2>4. /\ Seen' /\ marked' = marked \cup {i} /\ depths'[i] = d + 1
        /\ \A j \in marked : depths'[j] = depths[j]
        /\ Len(idxs') = Len(idxs) + 1
        /\ DOMAIN queue' = 1..(Len(queue) + 1)
        /\ queue'[Len(queue) + 1] = i
        /\ \A a \in 1..Len(queue) : queue'[a] = queue[a]
    <3>1. Mark(i, d + 1)
      BY <1>8
    <3> HIDE DEF i, d
    <3> QED BY <1>1, <1>2, <1>3, <1>8, <2>1, <2>3, <3>1, MarkAdds
  <2>5. \A a \in DOMAIN queue' : \/ a \in DOMAIN queue /\ queue'[a] = queue[a]
                                    /\ depths'[queue'[a]] = depths[queue[a]]
                                 \/ a = Len(queue) + 1 /\ depths'[queue'[a]] = d + 1
    <3>1. \A a \in 1..(Len(queue) + 1) : a \in 1..Len(queue) \/ a = Len(queue) + 1
      BY <1>4
    <3> QED BY <1>4, <2>4, <3>1
  <2>6. \A a \in DOMAIN queue : /\ depths[queue[a]] \in Nat /\ d <= depths[queue[a]]
                                /\ depths[queue[a]] <= d + 1
    BY <1>1, <1>3, <1>4 DEF Rising
  <2>7. Rising'
    <3>1. ASSUME NEW a \in DOMAIN queue', NEW b \in DOMAIN queue', a <= b
          PROVE  /\ depths'[queue'[a]] <= depths'[queue'[b]]
                 /\ depths'[queue'[b]] <= depths'[queue'[a]] + 1
      <4>1. CASE b \in DOMAIN queue
        <5>1. a \in DOMAIN queue /\ b \in 1..Len(queue) /\ a \in 1..Len(queue)
          BY <1>4, <2>4, <3>1, <4>1
        <5>2. depths'[queue'[a]] = depths[queue[a]] /\ depths'[queue'[b]] = depths[queue[b]]
          BY <1>4, <2>4, <5>1
        <5> QED BY <1>3, <3>1, <5>1, <5>2 DEF Rising
      <4>2. CASE b \notin DOMAIN queue
        <5>1. depths'[queue'[b]] = d + 1
          BY <2>5, <3>1, <4>2
        <5>2. /\ depths'[queue'[a]] \in Nat /\ d <= depths'[queue'[a]]
              /\ depths'[queue'[a]] <= d + 1
          BY <2>3, <2>5, <2>6, <3>1
        <5> QED BY <2>3, <5>1, <5>2
      <4> QED BY <4>1, <4>2
    <3>2. ASSUME NEW a \in DOMAIN queue'
          PROVE  depths'[here'] <= depths'[queue'[a]] /\ depths'[queue'[a]] <= depths'[here'] + 1
      <4>1. depths'[here'] = d
        BY <1>1, <2>4
      <4> QED BY <2>3, <2>5, <2>6, <3>2, <4>1
    <3> QED BY <1>1, <3>1, <3>2 DEF Rising
  <2>8. CutShort'
    BY <1>8, <2>2 DEF CutShort
  <2>9. Layered'
    <3>1. SUFFICES ASSUME NEW w, IsLayers(w, Seeded)
                   PROVE  /\ Shortest(w, marked', depths')
                          /\ w[d] \subseteq marked' /\ depths'[here'] = d
                          /\ queue' # <<>> => depths'[queue'[1]] \in {d, d + 1}
      BY <1>1, <1>2, <2>3 DEF Layered, Shortest
    <3>2. Shortest(w, marked, depths) /\ w[d] \subseteq marked
      BY <1>1, <1>3, <2>2, <3>1 DEF Layered
    <3>3. d + 1 \in 1..MaxRecords /\ (d + 1) - 1 = d
      <4>1. Len(idxs) <= NRows /\ NRows <= MaxRecords /\ NRows \in Nat
        BY <1>3, <2>3, SeenBounded, QueryIs
      <4> QED BY <1>4, <2>3, <4>1
    <3>4. w[d + 1] = w[d] \cup OneAway(w[d])
      BY <3>1, <3>3 DEF IsLayers
    <3>5. i \in OneAway(w[d])
      <4>1. here \in w[d]
        BY <1>1, <3>2 DEF Shortest
      <4> QED BY <1>1, <2>1, <4>1 DEF OneAway, Barred
    <3>6. Shortest(w, marked', depths')
      <4>1. i \in w[d + 1] /\ i \notin w[d]
        BY <2>1, <3>2, <3>4, <3>5
      <4>2. i \in w[depths'[i]] /\ i \notin w[depths'[i] - 1]
        <5>1. depths'[i] = d + 1 /\ depths'[i] - 1 = d
          BY <2>3, <2>4
        <5> QED BY <4>1, <5>1
      <4>3. \A j \in marked : j \in w[depths'[j]] /\ (depths'[j] > 0 => j \notin w[depths'[j] - 1])
        BY <2>4, <3>2 DEF Shortest
      <4> QED BY <2>4, <4>2, <4>3 DEF Shortest
    <3>7. 1 \in DOMAIN queue'
      BY <1>4, <2>4
    <3>8. depths'[queue'[1]] \in {d, d + 1}
      <4>1. CASE 1 \in DOMAIN queue
        <5>1. depths'[queue'[1]] = depths[queue[1]]
          BY <1>4, <2>4, <4>1
        <5> QED BY <2>3, <2>6, <4>1, <5>1
      <4>2. CASE 1 \notin DOMAIN queue
        BY <2>5, <3>7, <4>2
      <4> QED BY <4>1, <4>2
    <3> QED BY <1>1, <2>4, <3>2, <3>6, <3>8
  <2> QED BY <2>4, <2>7, <2>8, <2>9 DEF LevelInv
<1> QED BY <1>6, <1>7, <1>8 DEF FollowEdge

-----------------------------------------------------------------------------
(* The walks of one query, and the answer that is combined from them.       *)

(* The query of a walk is one of those that are asked.                      *)
LEMMA NextAskInv == AskInv /\ [Next]_vars => AskInv'
<1> SUFFICES ASSUME AskInv, [Next]_vars PROVE AskInv'
  OBVIOUS
<1>1. CASE \E q \in Queries : Ask(q)
  BY <1>1 DEF Ask, AskInv
<1>2. ASSUME phase' = phase \/ phase # "build", query' = query
      PROVE  AskInv'
  BY <1>2 DEF AskInv
<1>3. CASE phase = "build" /\ UNCHANGED queryVars
  BY <1>2, <1>3 DEF queryVars
<1>4. CASE Walk
  BY <1>2, <1>4 DEF Walk, TakeSeed, SeedsTaken, Expand, FollowEdge, WalkEnds, queryVars
<1>5. CASE Answer
  BY <1>2, <1>5 DEF Answer
<1>6. CASE UNCHANGED vars
  BY <1>2, <1>6 DEF vars, queryVars
<1> QED BY <1>1, <1>3, <1>4, <1>5, <1>6 DEF Next

(* The next walk of a query begins with an empty list.                      *)
LEMMA NextWalkLevels ==
  ASSUME AskInv', NEW ks, NextWalk(ks)
  PROVE  LevelInv'
<1>1. CASE phase' = "combined"
  BY <1>1 DEF LevelInv, Active
<1>2. CASE phase' = "seed" /\ \E k \in ks : BeginWalk({k})
  BY <1>2, BeginLevels
<1> QED BY <1>1, <1>2 DEF NextWalk

(* Every step of a walk keeps its list, its depths and its queue in order.  *)
LEMMA NextLevelInv ==
  ASSUME ScanInv, AskInv, AskInv', WalkInv, LevelInv, [Next]_vars
  PROVE  LevelInv'
<1>1. CASE phase = "build" /\ UNCHANGED queryVars
  BY <1>1 DEF queryVars, LevelInv, Active
<1>2. CASE \E q \in Queries : Ask(q)
  BY <1>2, NextWalkLevels, BeginLevels DEF Ask
<1>3. CASE Walk
  BY <1>3, TakeSeedLevels, SeedsTakenLevels, ExpandLevels, FollowEdgeLevels, NextWalkLevels
     DEF Walk, WalkEnds
<1>4. CASE Answer
  BY <1>4 DEF Answer, LevelInv, Active
<1>5. CASE UNCHANGED vars
  <2>1. UNCHANGED graphVars /\ UNCHANGED <<phase, from, marked, idxs, depths, queue, here, todo, cut>>
    BY <1>5 DEF vars, queryVars, indexVars, walkVars, graphVars
  <2>2. /\ NRows' = NRows /\ query' = query /\ Reach(Seeded)' = Reach(Seeded)
        /\ \A w : IsLayers(w, Seeded)' <=> IsLayers(w, Seeded)
    BY <2>1, WalkKeeps
  <2>3. Seen' <=> Seen
    BY <2>1, <2>2 DEF Seen, Names
  <2>4. (Rising' <=> Rising) /\ (CutShort' <=> CutShort)
    BY <2>1, <2>2 DEF Rising, CutShort, Full
  <2>5. Layered' <=> Layered
    BY <2>1, <2>2 DEF Layered, Shortest
  <2> QED BY <2>1, <2>3, <2>4, <2>5 DEF LevelInv, Active
<1> QED BY <1>1, <1>2, <1>3, <1>4, <1>5 DEF Next

-----------------------------------------------------------------------------
(* The answer while the walks of a query are combined.                      *)

(* The seeds whose walks have ended, the rows all of them lead to, and what *)
(* the walks so far should have made of the answer.                         *)
Past == Valid(query) \ (jobs \cup (IF Active THEN from ELSE {}))
Common(ks) == {i \in 1..NRows : \A k \in ks : i \in Reach({query.seeds[k]})}
Led == Reach(RowsOf(query, Valid(query)))
Wanted == IF query.intersect THEN Common(Past) ELSE Led

Nearest(S, d) == \A w : IsLayers(w, RowsOf(query, Valid(query))) => Shortest(w, S, d)

AnswerShape ==
  /\ answer = [marked |-> answer.marked, idxs |-> answer.idxs, depths |-> answer.depths,
               truncated |-> answer.truncated, any |-> answer.any, edges |-> answer.edges]
  /\ Names(answer.idxs, answer.marked) /\ Len(answer.idxs) <= query.cap
  /\ DOMAIN answer.depths = answer.marked /\ answer.marked \subseteq 1..NRows

(* An answer is what the walks so far lead to, and says so if it is not.    *)
Combines ==
  /\ answer.any <=> (IF query.intersect THEN Past # {} ELSE phase = "combined")
  /\ answer.any => /\ answer.marked \subseteq Wanted
                   /\ ~answer.truncated => answer.marked = Wanted
                   /\ ~query.intersect => /\ answer.truncated => answer.marked # Wanted
                                          /\ Nearest(answer.marked, answer.depths)

JobsOpen ==
  /\ jobs \subseteq Valid(query)
  /\ Active => IF query.intersect THEN \E k \in Valid(query) : k \notin jobs /\ from = {k}
                                  ELSE from = Valid(query) /\ jobs = {}
  /\ phase = "combined" => jobs = {}

Open == phase \in {"seed", "walk", "combined"}
CombInv == Open => AnswerShape /\ JobsOpen /\ Combines

(* Before the first walk has ended nothing is answered.                     *)
LEMMA AskCombines ==
  ASSUME ScanInv, AskInv', NEW q \in Queries, Ask(q)
  PROVE  CombInv'
<1>1. /\ query' = q /\ answer' = NoAnswer /\ q \in Query
      /\ Valid(q)' = Valid(q)
  BY QueriesAssumption DEF Ask, Valid, NRows, indexVars
<1>2. AnswerShape'
  <2>1. Distinct(<<>>) /\ Range(<<>>) = {} /\ DOMAIN <<>> = {} /\ Len(<<>>) = 0 /\ q.cap \in Nat
    BY <1>1 DEF Distinct, Range, Query
  <2> QED BY <1>1, <2>1 DEF AnswerShape, Names, NoAnswer
<1>3. CASE q.intersect
  <2>1. CASE Valid(q) = {} /\ phase' = "combined" /\ jobs' = {}
    <3>1. Past' = {}
      BY <1>1, <2>1 DEF Past, Active
    <3> QED BY <1>1, <1>2, <1>3, <2>1, <3>1 DEF CombInv, JobsOpen, Combines, NoAnswer, Active
  <2>2. ASSUME NEW k \in Valid(q), phase' = "seed", jobs' = Valid(q) \ {k}, BeginWalk({k})
        PROVE  CombInv'
    <3>1. from' = {k} /\ Active'
      BY <2>2 DEF BeginWalk, Active
    <3>2. Past' = {}
      BY <1>1, <2>2, <3>1 DEF Past
    <3>3. JobsOpen'
      BY <1>1, <1>3, <2>2, <3>1 DEF JobsOpen
    <3> QED BY <1>1, <1>2, <1>3, <3>2, <3>3 DEF CombInv, Combines, NoAnswer
  <2> QED BY <1>3, <2>1, <2>2 DEF Ask, NextWalk
<1>4. CASE ~q.intersect
  <2>1. phase' = "seed" /\ jobs' = {} /\ from' = Valid(q) /\ Active'
    BY <1>4 DEF Ask, BeginWalk, Active
  <2>2. JobsOpen'
    BY <1>1, <1>4, <2>1 DEF JobsOpen
  <2> QED BY <1>1, <1>2, <1>4, <2>1, <2>2 DEF CombInv, Combines, NoAnswer
<1> QED BY <1>3, <1>4

(* What a graph that stays the same keeps of the wanted rows.               *)
LEMMA WantedKept ==
  ASSUME UNCHANGED graphVars
  PROVE  /\ Led' = Led /\ Valid(query)' = Valid(query) /\ query' = query /\ NRows' = NRows
         /\ \A ks : Common(ks)' = Common(ks)
         /\ \A w : IsLayers(w, RowsOf(query, Valid(query)))' <=> IsLayers(w, RowsOf(query, Valid(query)))
<1>1. /\ NRows' = NRows /\ query' = query /\ Valid(query)' = Valid(query)
      /\ \A S : Reach(S)' = Reach(S)
  BY GraphKept DEF graphVars
<1>2. RowsOf(query, Valid(query))' = RowsOf(query, Valid(query))
  BY <1>1 DEF RowsOf
<1>3. \A w : IsLayers(w, RowsOf(query, Valid(query)))' <=> IsLayers(w, RowsOf(query, Valid(query))')
  BY LayersKept
<1> QED BY <1>1, <1>2, <1>3 DEF Led, Common

(* A walk that goes on changes neither the answer nor the seeds to come.    *)
LEMMA SameCombines ==
  ASSUME UNCHANGED graphVars, UNCHANGED <<answer, jobs, from>>, CombInv, Active, Active'
  PROVE  CombInv'
<1>1. /\ Led' = Led /\ Valid(query)' = Valid(query) /\ query' = query /\ NRows' = NRows
      /\ \A ks : Common(ks)' = Common(ks)
      /\ \A w : IsLayers(w, RowsOf(query, Valid(query)))' <=> IsLayers(w, RowsOf(query, Valid(query)))
  BY WantedKept
<1>2. Open /\ Open' /\ phase # "combined" /\ phase' # "combined"
  BY DEF Open, Active
<1>3. AnswerShape /\ JobsOpen /\ Combines
  BY <1>2 DEF CombInv
<1>4. AnswerShape'
  BY <1>1, <1>3 DEF AnswerShape, Names
<1>5. JobsOpen'
  BY <1>1, <1>2, <1>3 DEF JobsOpen
<1>6. Past' = Past
  BY <1>1 DEF Past
<1>7. Wanted' = Wanted
  BY <1>1, <1>6 DEF Wanted
<1>8. Combines'
  BY <1>1, <1>2, <1>3, <1>6, <1>7 DEF Combines, Nearest
<1> QED BY <1>4, <1>5, <1>8 DEF CombInv

(* A walk that ends has marked what its seeds lead to, or says that it has  *)
(* not.                                                                     *)
LEMMA WalkDone ==
  ASSUME WalkInv, LevelInv, phase = "walk", todo = {}, queue = <<>>
  PROVE  /\ Seen /\ marked \subseteq Reach(Seeded)
         /\ ~cut => marked = Reach(Seeded)
         /\ cut => marked # Reach(Seeded)
         /\ \A w : IsLayers(w, Seeded) => Shortest(w, marked, depths)
<1>1. Active /\ Seen /\ CutShort /\ Layered
  BY DEF LevelInv, Active
<1>2. marked \subseteq Reach(Seeded) /\ (~cut => marked = Reach(Seeded))
  BY WalkInvExact DEF WalkExact, Seeded
<1> QED BY <1>1, <1>2 DEF CutShort, Layered

(* The next walk takes one seed from those to come, or there is none left.  *)
LEMMA PastGrows ==
  ASSUME NextWalk(jobs), JobsOpen, phase = "walk", query.intersect, UNCHANGED graphVars
  PROVE  /\ Past' = Past \cup from /\ JobsOpen' /\ Open'
         /\ \E k \in Valid(query) : from = {k}
<1>1. Valid(query)' = Valid(query) /\ query' = query
  BY WantedKept
<1>2. Active /\ phase # "combined"
  BY DEF Active
<1>3. /\ jobs \subseteq Valid(query)
      /\ \E k \in Valid(query) : k \notin jobs /\ from = {k}
  BY <1>2 DEF JobsOpen
<1>4. CASE jobs = {} /\ phase' = "combined" /\ jobs' = {}
  <2>1. ~Active' /\ Open'
    BY <1>4 DEF Active, Open
  <2>2. Past' = Valid(query)
    BY <1>1, <1>4, <2>1 DEF Past
  <2>3. Past = Valid(query) \ from
    BY <1>2, <1>4 DEF Past
  <2>4. JobsOpen'
    BY <1>4, <2>1 DEF JobsOpen
  <2> QED BY <1>3, <2>1, <2>2, <2>3, <2>4
<1>5. ASSUME NEW k \in jobs, phase' = "seed", jobs' = jobs \ {k}, BeginWalk({k})
      PROVE  Past' = Past \cup from /\ JobsOpen' /\ Open'
  <2>1. Active' /\ Open' /\ from' = {k}
    BY <1>5 DEF Active, Open, BeginWalk
  <2>2. Past' = Valid(query) \ jobs
    BY <1>1, <1>5, <2>1 DEF Past
  <2>3. Past = Valid(query) \ (jobs \cup from)
    BY <1>2 DEF Past
  <2>4. JobsOpen'
    BY <1>1, <1>3, <1>5, <2>1 DEF JobsOpen
  <2> QED BY <1>3, <2>1, <2>2, <2>3, <2>4
<1> QED BY <1>3, <1>4, <1>5 DEF NextWalk

(* The first walk of an intersection, and the only one of a union, gives    *)
(* the answer as it is.                                                     *)
LEMMA FirstCombines ==
  ASSUME ScanInv, AskInv, WalkInv, LevelInv, CombInv, WalkEnds, ~answer.any
  PROVE  CombInv'
<1>1. /\ phase = "walk" /\ todo = {} /\ queue = <<>> /\ UNCHANGED graphVars /\ NextWalk(jobs)
      /\ answer' = [answer EXCEPT !.marked = marked, !.idxs = idxs, !.depths = depths,
                                  !.truncated = cut, !.any = TRUE]
      /\ Active /\ Open /\ phase # "combined"
  BY DEF WalkEnds, Combined, indexVars, graphVars, Active, Open
<1>2. AnswerShape /\ JobsOpen /\ Combines
  BY <1>1 DEF CombInv
<1>3. /\ Seen /\ marked \subseteq Reach(Seeded)
      /\ ~cut => marked = Reach(Seeded)
      /\ cut => marked # Reach(Seeded)
      /\ \A w : IsLayers(w, Seeded) => Shortest(w, marked, depths)
  BY <1>1, WalkDone
<1>4. /\ answer'.marked = marked /\ answer'.idxs = idxs /\ answer'.depths = depths
      /\ answer'.truncated = cut /\ answer'.any = TRUE
      /\ answer' = [marked |-> marked, idxs |-> idxs, depths |-> depths,
                    truncated |-> cut, any |-> TRUE, edges |-> answer.edges]
  <2>1. answer = [marked |-> answer.marked, idxs |-> answer.idxs, depths |-> answer.depths,
                  truncated |-> answer.truncated, any |-> answer.any, edges |-> answer.edges]
    BY <1>2 DEF AnswerShape
  <2> QED BY <1>1, <2>1
<1>5. /\ Led' = Led /\ Valid(query)' = Valid(query) /\ query' = query /\ NRows' = NRows
      /\ \A ks : Common(ks)' = Common(ks)
      /\ \A w : IsLayers(w, RowsOf(query, Valid(query)))' <=> IsLayers(w, RowsOf(query, Valid(query)))
  BY <1>1, WantedKept
<1>6. AnswerShape'
  BY <1>3, <1>4, <1>5 DEF AnswerShape, Names, Seen
<1>7. CASE query.intersect
  <2>1. /\ Past' = Past \cup from /\ JobsOpen' /\ Open'
        /\ \E k \in Valid(query) : from = {k}
    BY <1>1, <1>2, <1>7, PastGrows
  <2>2. Past = {}
    BY <1>2, <1>7 DEF Combines
  <2>3. PICK k \in Valid(query) : from = {k}
    BY <2>1
  <2>4. Past' = {k} /\ Seeded = {query.seeds[k]}
    BY <2>1, <2>2, <2>3 DEF Seeded, RowsOf
  <2>5. Wanted' = Common(Past')
    BY <1>5, <1>7 DEF Wanted
  <2>6. Common({k}) = Reach({query.seeds[k]})
    BY DEF Common, Reach
  <2>7. Wanted' = Reach(Seeded)
    BY <2>4, <2>5, <2>6
  <2>8. Combines'
    BY <1>3, <1>4, <1>5, <1>7, <2>4, <2>7 DEF Combines
  <2> QED BY <1>6, <2>1, <2>8 DEF CombInv
<1>8. CASE ~query.intersect
  <2>1. from = Valid(query) /\ jobs = {}
    BY <1>1, <1>2, <1>8 DEF JobsOpen
  <2>2. phase' = "combined" /\ jobs' = {} /\ ~Active'
    BY <1>1, <2>1 DEF NextWalk, Active
  <2>3. JobsOpen'
    BY <2>2 DEF JobsOpen
  <2>4. Wanted' = Reach(Seeded) /\ Seeded = RowsOf(query, Valid(query))
    BY <1>5, <1>8, <2>1 DEF Wanted, Led, Seeded
  <2>5. Nearest(answer.marked, answer.depths)'
    BY <1>3, <1>4, <1>5, <2>4 DEF Nearest
  <2>6. Combines'
    BY <1>3, <1>4, <1>5, <1>8, <2>2, <2>4, <2>5 DEF Combines
  <2> QED BY <1>6, <2>3, <2>6 DEF CombInv
<1> QED BY <1>7, <1>8

(* A later walk of an intersection leaves of the answer what it has marked. *)
LEMMA LaterCombines ==
  ASSUME ScanInv, AskInv, WalkInv, LevelInv, CombInv, WalkEnds, answer.any
  PROVE  CombInv'
<1>. DEFINE both == answer.marked \cap marked
            kept == Retained(answer.idxs, both)
<1>1. /\ phase = "walk" /\ todo = {} /\ queue = <<>> /\ UNCHANGED graphVars /\ NextWalk(jobs)
      /\ answer' = [answer EXCEPT !.marked = both, !.idxs = kept,
                                  !.depths = Restricted(answer.depths, both),
                                  !.truncated = answer.truncated \/ cut]
      /\ Active /\ Open /\ phase # "combined"
  BY DEF WalkEnds, Combined, indexVars, graphVars, Active, Open
<1>2. AnswerShape /\ JobsOpen /\ Combines
  BY <1>1 DEF CombInv
<1>3. query.intersect
  BY <1>1, <1>2 DEF Combines
<1>4. /\ marked \subseteq Reach(Seeded) /\ (~cut => marked = Reach(Seeded))
  BY <1>1, WalkDone
<1>5. /\ answer'.marked = both /\ answer'.idxs = kept
      /\ answer'.depths = Restricted(answer.depths, both)
      /\ (answer'.truncated <=> answer.truncated \/ cut) /\ answer'.any = answer.any
      /\ answer' = [marked |-> answer'.marked, idxs |-> answer'.idxs, depths |-> answer'.depths,
                    truncated |-> answer'.truncated, any |-> answer'.any, edges |-> answer'.edges]
  <2>1. answer = [marked |-> answer.marked, idxs |-> answer.idxs, depths |-> answer.depths,
                  truncated |-> answer.truncated, any |-> answer.any, edges |-> answer.edges]
    BY <1>2 DEF AnswerShape
  <2> HIDE DEF both, kept
  <2> QED BY <1>1, <2>1
<1>6. /\ Led' = Led /\ Valid(query)' = Valid(query) /\ query' = query /\ NRows' = NRows
      /\ \A ks : Common(ks)' = Common(ks)
  BY <1>1, WantedKept
<1>7. /\ kept \in Seq(1..NRows) /\ Distinct(kept) /\ Range(kept) = both
      /\ Len(kept) <= query.cap
  <2>1. /\ answer.idxs \in Seq(1..NRows) /\ Distinct(answer.idxs) /\ Range(answer.idxs) = answer.marked
        /\ Len(answer.idxs) <= query.cap
    BY <1>2 DEF AnswerShape, Names
  <2>2. kept \in Seq(1..NRows) /\ Distinct(kept) /\ Range(kept) = answer.marked \cap both
    BY <2>1, RetainedDoes
  <2>3. Range(kept) = both
    BY <2>2
  <2>4. /\ IsFiniteSet(answer.marked) /\ Len(answer.idxs) = Cardinality(answer.marked)
        /\ Len(answer.idxs) \in Nat
    BY <2>1, DistinctCounts
  <2>5. Len(kept) = Cardinality(both) /\ Len(kept) \in Nat
    BY <2>2, <2>3, DistinctCounts
  <2>6. Cardinality(both) <= Cardinality(answer.marked)
    BY <2>4, FS_Subset
  <2>7. query.cap \in Nat
    BY <1>1, QueryIs
  <2>8. Len(kept) <= query.cap
    <3> HIDE DEF kept, both
    <3> QED BY <2>1, <2>4, <2>5, <2>6, <2>7
  <2> QED BY <2>2, <2>3, <2>8
<1>8. AnswerShape'
  <2>1. DOMAIN Restricted(answer.depths, both) = both /\ both \subseteq 1..NRows
    BY <1>2 DEF AnswerShape, Restricted
  <2> HIDE DEF both, kept
  <2> QED BY <1>5, <1>6, <1>7, <2>1 DEF AnswerShape, Names
<1>9. /\ Past' = Past \cup from /\ JobsOpen' /\ Open'
      /\ \E k \in Valid(query) : from = {k}
  BY <1>1, <1>2, <1>3, PastGrows
<1>10. PICK k \in Valid(query) : from = {k}
  BY <1>9
<1>11. Past' = Past \cup {k} /\ Seeded = {query.seeds[k]}
  BY <1>9, <1>10 DEF Seeded, RowsOf
<1>12. Wanted' = Wanted \cap Reach(Seeded)
  <2>1. Wanted' = Common(Past \cup {k}) /\ Wanted = Common(Past)
    BY <1>3, <1>6, <1>11 DEF Wanted
  <2>2. Common(Past \cup {k}) = Common(Past) \cap Reach({query.seeds[k]})
    BY DEF Common, Reach
  <2> QED BY <1>11, <2>1, <2>2
<1>13. Combines'
  <2>1. answer.marked \subseteq Wanted /\ (~answer.truncated => answer.marked = Wanted)
    BY <1>2 DEF Combines
  <2>2. answer'.marked \subseteq Wanted'
    BY <1>4, <1>5, <1>12, <2>1
  <2>3. ~answer'.truncated => answer'.marked = Wanted'
    BY <1>4, <1>5, <1>12, <2>1
  <2> QED BY <1>3, <1>5, <1>6, <1>11, <2>2, <2>3 DEF Combines
<1> QED BY <1>8, <1>9, <1>13 DEF CombInv

-----------------------------------------------------------------------------
(* What was given, and the theorem.                                         *)

(* What is true of an answer that was given.                                *)
Given ==
  /\ AnswerShape /\ answer.marked \subseteq Expected(query)
  /\ ~answer.truncated => answer.marked = Expected(query) /\ answer.edges = Within(answer.marked)
  /\ ~query.intersect => /\ answer.truncated => \/ answer.marked # Expected(query)
                                                \/ Valid(query) # DOMAIN query.seeds
                                                \/ answer.edges # Within(answer.marked)
                         /\ Nearest(answer.marked, answer.depths)
GivenInv == phase = "done" => Given

SliceInv == ScanInv /\ AskInv /\ WalkInv /\ JobsInv /\ LevelInv /\ CombInv /\ GivenInv

(* The combined walks, and what becomes of them when a seed was dropped,    *)
(* are what is expected.                                                    *)
LEMMA SettledIs ==
  ASSUME ScanInv, AskInv, CombInv, phase = "combined"
  PROVE  /\ Settled = [marked |-> Settled.marked, idxs |-> Settled.idxs, depths |-> Settled.depths,
                       truncated |-> Settled.truncated, any |-> Settled.any, edges |-> Settled.edges]
         /\ Names(Settled.idxs, Settled.marked) /\ Len(Settled.idxs) <= query.cap
         /\ DOMAIN Settled.depths = Settled.marked /\ Settled.marked \subseteq 1..NRows
         /\ Settled.marked \subseteq Expected(query)
         /\ ~Settled.truncated => Settled.marked = Expected(query)
         /\ ~query.intersect => /\ Settled.truncated => \/ Settled.marked # Expected(query)
                                                        \/ Valid(query) # DOMAIN query.seeds
                                /\ Nearest(Settled.marked, Settled.depths)
<1>1. AnswerShape /\ JobsOpen /\ Combines /\ jobs = {} /\ ~Active
  BY DEF CombInv, Open, JobsOpen, Active
<1>2. /\ query.cap \in Nat /\ query.seeds \in Seq(Nat) /\ query.seeds # <<>>
  BY QueryIs
<1>3. Past = Valid(query)
  BY <1>1 DEF Past
<1>4. CASE ~query.intersect
  <2>1. Expected(query) = Led /\ Wanted = Led /\ answer.any
    BY <1>1, <1>4 DEF Expected, Led, Wanted, Combines
  <2>2. /\ answer.marked \subseteq Led /\ (~answer.truncated => answer.marked = Led)
        /\ answer.truncated => answer.marked # Led
        /\ Nearest(answer.marked, answer.depths)
    BY <1>1, <1>4, <2>1 DEF Combines
  <2>3. CASE Valid(query) = DOMAIN query.seeds
    <3>1. Settled = answer
      BY <2>3 DEF Settled
    <3> QED BY <1>1, <2>1, <2>2, <3>1 DEF AnswerShape
  <2>4. CASE Valid(query) # DOMAIN query.seeds
    <3>1. Settled = [answer EXCEPT !.truncated = TRUE]
      BY <1>4, <2>4 DEF Settled
    <3>2. answer = [marked |-> answer.marked, idxs |-> answer.idxs, depths |-> answer.depths,
                    truncated |-> answer.truncated, any |-> answer.any, edges |-> answer.edges]
      BY <1>1 DEF AnswerShape
    <3>3. /\ Settled = [marked |-> answer.marked, idxs |-> answer.idxs, depths |-> answer.depths,
                        truncated |-> TRUE, any |-> answer.any, edges |-> answer.edges]
      BY <3>1, <3>2
    <3> QED BY <1>1, <2>1, <2>2, <2>4, <3>3 DEF AnswerShape
  <2> QED BY <2>3, <2>4
<1>5. CASE query.intersect
  <2>1. CASE Valid(query) = DOMAIN query.seeds
    <3>1. Settled = answer
      BY <2>1 DEF Settled
    <3>2. Valid(query) # {}
      <4>1. DOMAIN query.seeds = 1..Len(query.seeds) /\ Len(query.seeds) \in Nat /\ Len(query.seeds) # 0
        BY <1>2, EmptySeq, LenProperties
      <4> QED BY <2>1, <4>1
    <3>3. answer.any /\ Wanted = Common(Valid(query))
      BY <1>1, <1>3, <1>5, <3>2 DEF Combines, Wanted
    <3>4. Expected(query) = Common(Valid(query))
      BY <1>5, <2>1 DEF Expected, Common, Valid
    <3> QED BY <1>1, <1>5, <3>1, <3>3, <3>4 DEF AnswerShape, Combines
  <2>2. CASE Valid(query) # DOMAIN query.seeds
    <3>1. Settled = [answer EXCEPT !.truncated = TRUE, !.marked = {}, !.idxs = <<>>, !.depths = <<>>]
      BY <1>5, <2>2 DEF Settled
    <3>2. answer = [marked |-> answer.marked, idxs |-> answer.idxs, depths |-> answer.depths,
                    truncated |-> answer.truncated, any |-> answer.any, edges |-> answer.edges]
      BY <1>1 DEF AnswerShape
    <3>3. Settled = [marked |-> {}, idxs |-> <<>>, depths |-> <<>>,
                     truncated |-> TRUE, any |-> answer.any, edges |-> answer.edges]
      BY <3>1, <3>2
    <3>4. Distinct(<<>>) /\ Range(<<>>) = {} /\ DOMAIN <<>> = {} /\ Len(<<>>) = 0
      BY DEF Distinct, Range
    <3> QED BY <1>2, <1>5, <3>3, <3>4 DEF Names
  <2> QED BY <2>1, <2>2
<1> QED BY <1>4, <1>5

(* The answer adds the edges between the rows of the slice.                 *)
LEMMA AnswerGives ==
  ASSUME ScanInv, AskInv, CombInv, Answer
  PROVE  Given'
<1>. DEFINE all == Within(Settled.marked)
<1>1. phase = "combined" /\ UNCHANGED graphVars
  BY DEF Answer, indexVars, graphVars
<1>2. PICK listed : answer' = [Settled EXCEPT !.edges = listed,
                                 !.truncated = Settled.truncated \/ listed # all]
  BY DEF Answer
<1>3. /\ Settled = [marked |-> Settled.marked, idxs |-> Settled.idxs, depths |-> Settled.depths,
                    truncated |-> Settled.truncated, any |-> Settled.any, edges |-> Settled.edges]
      /\ Names(Settled.idxs, Settled.marked) /\ Len(Settled.idxs) <= query.cap
      /\ DOMAIN Settled.depths = Settled.marked /\ Settled.marked \subseteq 1..NRows
      /\ Settled.marked \subseteq Expected(query)
      /\ ~Settled.truncated => Settled.marked = Expected(query)
      /\ ~query.intersect => /\ Settled.truncated => \/ Settled.marked # Expected(query)
                                                     \/ Valid(query) # DOMAIN query.seeds
                             /\ Nearest(Settled.marked, Settled.depths)
  BY <1>1, SettledIs
<1>4. /\ answer' = [marked |-> Settled.marked, idxs |-> Settled.idxs, depths |-> Settled.depths,
                    truncated |-> (Settled.truncated \/ listed # all), any |-> Settled.any,
                    edges |-> listed]
  <2>. DEFINE old == Settled
  <2>1. old = [marked |-> old.marked, idxs |-> old.idxs, depths |-> old.depths,
               truncated |-> old.truncated, any |-> old.any, edges |-> old.edges]
    BY <1>3
  <2>2. answer' = [old EXCEPT !.edges = listed, !.truncated = old.truncated \/ listed # all]
    BY <1>2
  <2> HIDE DEF old, all
  <2> QED BY <2>1, <2>2 DEF old
<1>5. /\ Valid(query)' = Valid(query) /\ query' = query /\ NRows' = NRows
      /\ Expected(query)' = Expected(query)
      /\ \A S : Within(S)' = Within(S)
      /\ \A w : IsLayers(w, RowsOf(query, Valid(query)))' <=> IsLayers(w, RowsOf(query, Valid(query)))
  <2>1. /\ Led' = Led /\ Valid(query)' = Valid(query) /\ query' = query /\ NRows' = NRows
        /\ \A w : IsLayers(w, RowsOf(query, Valid(query)))' <=> IsLayers(w, RowsOf(query, Valid(query)))
    BY <1>1, WantedKept
  <2>2. \A S : Reach(S)' = Reach(S)
    BY <1>1, GraphKept
  <2>3. Expected(query)' = Expected(query)
    BY <2>1, <2>2 DEF Expected, Led
  <2>4. \A S : Within(S)' = Within(S)
    BY <1>1, <2>1 DEF Within, graphVars
  <2> QED BY <2>1, <2>3, <2>4
<1>6. /\ answer'.marked = Settled.marked /\ answer'.idxs = Settled.idxs
      /\ answer'.depths = Settled.depths /\ answer'.any = Settled.any /\ answer'.edges = listed
      /\ (answer'.truncated <=> Settled.truncated \/ listed # all)
  BY <1>4
<1>7. AnswerShape'
  <2>1. answer' = [marked |-> answer'.marked, idxs |-> answer'.idxs, depths |-> answer'.depths,
                   truncated |-> answer'.truncated, any |-> answer'.any, edges |-> answer'.edges]
    BY <1>4
  <2> QED BY <1>3, <1>5, <1>6, <2>1 DEF AnswerShape, Names
<1>8. Within(answer.marked)' = all
  BY <1>5, <1>6
<1>9. ~query.intersect => Nearest(answer.marked, answer.depths)'
  BY <1>3, <1>5, <1>6 DEF Nearest
<1>. HIDE DEF all
<1> QED BY <1>3, <1>5, <1>6, <1>7, <1>8, <1>9 DEF Given

(* The answer is right while it is made, and when it is given.              *)
LEMMA NextCombInv ==
  ASSUME ScanInv, AskInv, AskInv', WalkInv, LevelInv, CombInv, [Next]_vars
  PROVE  CombInv'
<1>1. CASE phase = "build" /\ UNCHANGED queryVars
  BY <1>1 DEF queryVars, CombInv, Open
<1>2. CASE \E q \in Queries : Ask(q)
  BY <1>2, AskCombines
<1>3. CASE TakeSeed \/ SeedsTaken \/ Expand \/ \E e \in todo : FollowEdge(e)
  <2>1. UNCHANGED graphVars /\ UNCHANGED <<answer, jobs, from>> /\ Active /\ Active'
    BY <1>3 DEF TakeSeed, SeedsTaken, Expand, FollowEdge, queryVars, indexVars, walkVars,
                graphVars, Active
  <2> QED BY <2>1, SameCombines
<1>4. CASE WalkEnds
  BY <1>4, FirstCombines, LaterCombines
<1>5. CASE Answer
  BY <1>5 DEF Answer, CombInv, Open
<1>6. CASE UNCHANGED vars
  <2>1. UNCHANGED graphVars /\ UNCHANGED <<answer, jobs, from, phase>>
    BY <1>6 DEF vars, queryVars, indexVars, walkVars, graphVars
  <2>2. CASE Active
    <3>1. Active'
      BY <2>1, <2>2 DEF Active
    <3> QED BY <2>1, <2>2, <3>1, SameCombines
  <2>3. CASE ~Active /\ Open
    <3>1. /\ Led' = Led /\ Valid(query)' = Valid(query) /\ query' = query /\ NRows' = NRows
          /\ \A ks : Common(ks)' = Common(ks)
          /\ \A w : IsLayers(w, RowsOf(query, Valid(query)))' <=> IsLayers(w, RowsOf(query, Valid(query)))
      BY <2>1, WantedKept
    <3>2. phase = "combined" /\ phase' = "combined" /\ ~Active'
      BY <2>1, <2>3 DEF Active, Open
    <3>3. AnswerShape /\ JobsOpen /\ Combines
      BY <2>3 DEF CombInv
    <3>4. AnswerShape'
      BY <2>1, <3>1, <3>3 DEF AnswerShape, Names
    <3>5. JobsOpen'
      BY <2>1, <3>1, <3>2, <3>3 DEF JobsOpen
    <3>6. Past' = Past
      BY <2>1, <2>3, <3>1, <3>2 DEF Past
    <3>7. Wanted' = Wanted
      BY <3>1, <3>6 DEF Wanted
    <3>8. Combines'
      BY <2>1, <3>1, <3>2, <3>3, <3>6, <3>7 DEF Combines, Nearest
    <3> QED BY <3>4, <3>5, <3>8 DEF CombInv
  <2>4. CASE ~Open
    BY <2>1, <2>4 DEF CombInv, Open
  <2> QED BY <2>2, <2>3, <2>4
<1> QED BY <1>1, <1>2, <1>3, <1>4, <1>5, <1>6 DEF Next, Walk

(* An answer that was given does not change.                                *)
LEMMA NextGivenInv ==
  ASSUME ScanInv, AskInv, CombInv, GivenInv, [Next]_vars
  PROVE  GivenInv'
<1>1. CASE Answer
  BY <1>1, AnswerGives DEF GivenInv
<1>2. CASE phase' # "done"
  BY <1>2 DEF GivenInv
<1>3. CASE UNCHANGED vars
  <2>1. UNCHANGED graphVars /\ UNCHANGED <<answer, phase>>
    BY <1>3 DEF vars, queryVars, indexVars, walkVars, graphVars
  <2>2. /\ Led' = Led /\ Valid(query)' = Valid(query) /\ query' = query /\ NRows' = NRows
        /\ \A w : IsLayers(w, RowsOf(query, Valid(query)))' <=> IsLayers(w, RowsOf(query, Valid(query)))
    BY <2>1, WantedKept
  <2>3. \A S : Reach(S)' = Reach(S)
    BY <2>1, GraphKept
  <2>4. Expected(query)' = Expected(query)
    BY <2>2, <2>3 DEF Expected, Led
  <2>5. Within(answer.marked)' = Within(answer.marked)
    BY <2>1, <2>2 DEF Within, graphVars
  <2>6. AnswerShape' <=> AnswerShape
    BY <2>1, <2>2 DEF AnswerShape, Names
  <2>7. Nearest(answer.marked, answer.depths)' <=> Nearest(answer.marked, answer.depths)
    BY <2>1, <2>2 DEF Nearest
  <2> QED BY <2>1, <2>2, <2>4, <2>5, <2>6, <2>7 DEF GivenInv, Given
<1>4. CASE phase = "build" /\ UNCHANGED queryVars
  BY <1>2, <1>4 DEF queryVars
<1>5. CASE \E q \in Queries : Ask(q)
  BY <1>2, <1>5 DEF Ask, NextWalk
<1>6. CASE Walk
  BY <1>2, <1>6 DEF Walk, TakeSeed, SeedsTaken, Expand, FollowEdge, WalkEnds, NextWalk, queryVars
<1> QED BY <1>1, <1>3, <1>4, <1>5, <1>6 DEF Next

(* There are layers, and the recursive definition gives them.               *)
LEMMA LayersAre ==
  ASSUME NEW S
  PROVE  IsLayers(Layers(S), S)
<1> DEFINE N == MaxRecords
           A == SUBSET (S \cup 1..NRows)
           Body(f) == [k \in 0..N |-> IF k = 0 THEN S ELSE f[k - 1] \cup OneAway(f[k - 1])]
           next == [k \in Nat |-> [x \in A |-> x \cup OneAway(x)]]
<1>1. N \in Nat
  BY RecordsAssumption
<1>2. Follows(A, next)
  <2>1. \A x \in A : x \cup OneAway(x) \in A
    BY DEF OneAway
  <2> HIDE DEF A
  <2> QED BY <2>1 DEF Follows
<1>3. PICK f : f \in [0..N -> A] /\ f[0] = S /\ \A k \in 1..N : f[k] = next[k][f[k - 1]]
  <2>1. S \in A
    OBVIOUS
  <2>2. \E f : Iterated(A, S, next, N, f)
    <3> HIDE DEF next, N, A
    <3> QED BY <1>1, <1>2, <2>1, Iterates
  <2> QED BY <2>2 DEF Iterated
<1>4. \A k \in 1..N : f[k] = f[k - 1] \cup OneAway(f[k - 1])
  <2>1. \A k \in 1..N : k \in Nat /\ k - 1 \in 0..N
    BY <1>1
  <2>2. \A k \in 1..N : f[k - 1] \in A
    BY <1>3, <2>1
  <2> HIDE DEF A
  <2> QED BY <1>3, <2>1, <2>2
<1>5. f = Body(f)
  <2>1. ASSUME NEW k \in 0..N
        PROVE  f[k] = Body(f)[k]
    <3>1. k = 0 \/ k \in 1..N
      BY <1>1
    <3> QED BY <1>3, <1>4, <3>1
  <2>2. f = [k \in 0..N |-> f[k]] /\ Body(f) = [k \in 0..N |-> Body(f)[k]]
    BY <1>3
  <2> HIDE DEF Body
  <2> QED BY <2>1, <2>2
<1> DEFINE layer == CHOOSE g : g = Body(g)
<1>6. layer = Body(layer)
  <2> HIDE DEF Body
  <2> QED BY <1>5
<1>7. Layers(S) = layer
  BY DEF Layers
<1>8. \A k \in 0..N : layer[k] = IF k = 0 THEN S ELSE layer[k - 1] \cup OneAway(layer[k - 1])
  <2> HIDE DEF layer
  <2> QED BY <1>6
<1> HIDE DEF layer
<1>9. layer[0] = S
  <2>1. 0 \in 0..N
    BY <1>1
  <2> QED BY <1>8, <2>1
<1>10. ASSUME NEW k \in 1..N
       PROVE  layer[k] = layer[k - 1] \cup OneAway(layer[k - 1])
  <2>1. k \in 0..N /\ k # 0
    BY <1>1
  <2> HIDE DEF N
  <2> QED BY <1>8, <2>1
<1> QED BY <1>7, <1>9, <1>10 DEF IsLayers

(* What was given is exact, nearest and honest.                             *)
LEMMA GivenIsTrue == GivenInv => SliceTrue
<1> SUFFICES ASSUME GivenInv PROVE SliceTrue
  OBVIOUS
<1>1. SliceExact
  <2> SUFFICES ASSUME phase = "done"
               PROVE  /\ ToSet(answer.idxs) = answer.marked /\ DOMAIN answer.depths = answer.marked
                      /\ Len(answer.idxs) = Cardinality(answer.marked) /\ Len(answer.idxs) <= query.cap
                      /\ answer.marked \subseteq Expected(query)
                      /\ ~answer.truncated => answer.marked = Expected(query) /\ answer.edges = Within(answer.marked)
    BY DEF SliceExact
  <2>1. Given
    BY DEF GivenInv
  <2>2. /\ answer.idxs \in Seq(1..NRows) /\ Distinct(answer.idxs) /\ Range(answer.idxs) = answer.marked
    BY <2>1 DEF Given, AnswerShape, Names
  <2>3. ToSet(answer.idxs) = answer.marked
    BY <2>2 DEF ToSet, Range
  <2>4. Len(answer.idxs) = Cardinality(answer.marked)
    BY <2>2, DistinctCounts
  <2> QED BY <2>1, <2>3, <2>4 DEF Given, AnswerShape
<1>2. DepthsShortest
  <2> SUFFICES ASSUME phase = "done", ~query.intersect
               PROVE  Shortest(Layers(RowsOf(query, Valid(query))), answer.marked, answer.depths)
    BY DEF DepthsShortest, Shortest
  <2> QED BY LayersAre DEF GivenInv, Given, Nearest
<1>3. TruncatedHonest
  BY DEF TruncatedHonest, GivenInv, Given
<1> QED BY <1>1, <1>2, <1>3 DEF SliceTrue

(* dependencies over any rows, for any query: a slice holds only rows that  *)
(* the seeds lead to, an answer that does not call itself truncated holds   *)
(* all of them and every edge between them, its depths are the shortest,    *)
(* and it calls itself truncated only when something is missing             *)
(* (bfs_slice.rs walk_slice, dependency_query.rs dependencies).             *)
THEOREM DependencySliceTrue == Spec => []SliceTrue
<1>1. Init => SliceInv
  <2>1. Init => AskInv /\ LevelInv /\ CombInv /\ GivenInv
    BY DEF Init, AskInv, LevelInv, CombInv, GivenInv, Active, Open
  <2> QED BY <2>1, InitScanInv, InitWalkInv DEF SliceInv
<1>2. SliceInv /\ [Next]_vars => SliceInv'
  <2> SUFFICES ASSUME SliceInv, [Next]_vars PROVE SliceInv'
    OBVIOUS
  <2>1. ScanInv' /\ AskInv' /\ (WalkInv /\ JobsInv)'
    BY NextScanInv, NextAskInv, NextWalkInv DEF SliceInv
  <2>2. LevelInv'
    BY <2>1, NextLevelInv DEF SliceInv
  <2>3. CombInv'
    BY <2>1, NextCombInv DEF SliceInv
  <2>4. GivenInv'
    BY NextGivenInv DEF SliceInv
  <2> QED BY <2>1, <2>2, <2>3, <2>4 DEF SliceInv
<1>3. SliceInv => SliceTrue
  BY GivenIsTrue DEF SliceInv
<1> QED BY <1>1, <1>2, <1>3, PTL DEF Spec

-----------------------------------------------------------------------------
(* What is kept beside the rows: the state of a walk, the counters, and the *)
(* forward table.                                                           *)

(* What a walk keeps, in every phase.                                       *)
WalkTypes ==
  /\ phase \in {"build", "seed", "walk", "combined", "done"}
  /\ built \in BOOLEAN /\ cut \in BOOLEAN
  /\ marked \subseteq 1..NRows /\ DOMAIN depths = marked
  /\ idxs \in Seq(marked) /\ queue \in Seq(marked) /\ here \in marked \cup {NoRow}

(* A walk that begins has marked nothing.                                   *)
LEMMA BeginTypes ==
  ASSUME NEW ks, BeginWalk(ks)
  PROVE  /\ cut' \in BOOLEAN /\ marked' = {} /\ DOMAIN depths' = {}
         /\ idxs' \in Seq({}) /\ queue' \in Seq({}) /\ here' = NoRow
<1>1. <<>> \in Seq({}) /\ DOMAIN <<>> = {}
  OBVIOUS
<1> QED BY <1>1 DEF BeginWalk

(* The next walk begins, or the last one stays as it was.                   *)
LEMMA NextWalkTypes ==
  ASSUME WalkTypes, NEW ks, NextWalk(ks), UNCHANGED indexVars
  PROVE  WalkTypes'
<1>1. NRows' = NRows /\ built' = built
  BY DEF NRows, indexVars
<1>2. CASE phase' = "combined" /\ UNCHANGED walkVars
  BY <1>1, <1>2 DEF WalkTypes, walkVars
<1>3. CASE \E k \in ks : phase' = "seed" /\ BeginWalk({k})
  BY <1>1, <1>3, BeginTypes DEF WalkTypes
<1> QED BY <1>2, <1>3 DEF NextWalk

(* One more row is marked.                                                  *)
LEMMA MarkTypes ==
  ASSUME WalkTypes, NEW i \in 1..NRows, NEW d, Mark(i, d), NRows' = NRows,
         here' = here, phase' = phase, built' = built, cut' = cut
  PROVE  WalkTypes'
<1>1. marked' = marked \cup {i} /\ DOMAIN depths' = marked'
  BY DEF Mark
<1>2. idxs \in Seq(marked') /\ queue \in Seq(marked')
  BY <1>1 DEF WalkTypes
<1>3. idxs' \in Seq(marked') /\ queue' \in Seq(marked')
  BY <1>1, <1>2, AppendProperties DEF Mark
<1>4. marked' \subseteq 1..NRows' /\ here' \in marked' \cup {NoRow}
  BY <1>1 DEF WalkTypes
<1> QED BY <1>1, <1>3, <1>4 DEF WalkTypes

(* No step puts a row into a walk that is none, or in one list only.        *)
LEMMA NextWalkTyped == ScanInv /\ WalkTypes /\ [Next]_vars => WalkTypes'
<1> SUFFICES ASSUME ScanInv, WalkTypes, [Next]_vars PROVE WalkTypes'
  OBVIOUS
<1>0. NRows \in Nat /\ rows \in Seq(SUBSET Edge)
  BY LenProperties DEF ScanInv, ScanType, NRows
<1>1. CASE phase = "build" /\ UNCHANGED <<queryVars, walkVars>>
             /\ (ScanEnds \/ \E rec \in Records : Scan(rec))
  <2>1. NRows' \in Nat /\ NRows <= NRows'
    <3>1. rows' = rows \/ \E row : rows' = Append(rows, row)
      BY <1>1 DEF Scan, ScanEnds
    <3> QED BY <1>0, <3>1 DEF NRows
  <2>2. built' \in BOOLEAN
    BY <1>1 DEF WalkTypes, ScanEnds, Scan
  <2>3. marked \subseteq 1..NRows'
    BY <1>0, <2>1 DEF WalkTypes
  <2> QED BY <1>1, <2>2, <2>3 DEF WalkTypes, walkVars, queryVars
<1>2. CASE \E q \in Queries : Ask(q)
  <2>1. PICK q \in Queries : Ask(q)
    BY <1>2
  <2>2. UNCHANGED indexVars /\ NRows' = NRows /\ built' = built
    BY <2>1 DEF Ask, NRows, indexVars
  <2>3. CASE NextWalk(Valid(q))
    BY <2>2, <2>3, NextWalkTypes
  <2>4. CASE phase' = "seed" /\ BeginWalk(Valid(q))
    BY <2>2, <2>4, BeginTypes DEF WalkTypes
  <2> QED BY <2>1, <2>3, <2>4 DEF Ask
<1>3. CASE TakeSeed
  <2>1. PICK k \in seeds :
          \/ /\ query.seeds[k] \notin 1..NRows \/ query.seeds[k] \in marked
             /\ UNCHANGED <<marked, idxs, depths, queue, cut>>
          \/ cut' = TRUE /\ UNCHANGED <<marked, idxs, depths, queue>>
          \/ query.seeds[k] \in 1..NRows /\ Mark(query.seeds[k], 0) /\ UNCHANGED cut
    BY <1>3 DEF TakeSeed
  <2>2. NRows' = NRows /\ built' = built /\ phase' = phase /\ here' = here
    BY <1>3 DEF TakeSeed, indexVars, queryVars, NRows
  <2>3. CASE UNCHANGED <<marked, idxs, depths, queue>> /\ cut' \in {cut, TRUE}
    BY <2>2, <2>3 DEF WalkTypes
  <2>4. CASE query.seeds[k] \in 1..NRows /\ Mark(query.seeds[k], 0) /\ UNCHANGED cut
    BY <2>2, <2>4, MarkTypes
  <2> QED BY <2>1, <2>3, <2>4
<1>4. CASE SeedsTaken
  BY <1>4 DEF SeedsTaken, WalkTypes, indexVars, walkVars, NRows
<1>5. CASE Expand
  <2>1. Head(queue) \in marked /\ Tail(queue) \in Seq(marked)
    BY <1>5, HeadTailProperties DEF Expand, WalkTypes
  <2> QED BY <1>5, <2>1 DEF Expand, WalkTypes, indexVars, queryVars, NRows
<1>6. CASE \E e \in todo : FollowEdge(e)
  <2>1. PICK e \in todo : FollowEdge(e)
    BY <1>6
  <2>2. NRows' = NRows /\ built' = built /\ phase' = phase /\ here' = here
    BY <2>1 DEF FollowEdge, indexVars, queryVars, NRows
  <2>3. CASE UNCHANGED <<marked, idxs, depths, queue>> /\ cut' \in {cut, TRUE}
    BY <2>2, <2>3 DEF WalkTypes
  <2>4. CASE ~Skipped(e) /\ Mark(e.idx, depths[here] + 1) /\ UNCHANGED cut
    <3>1. e.idx \in 1..NRows
      BY <2>4 DEF Skipped
    <3> QED BY <2>2, <2>4, <3>1, MarkTypes
  <2> QED BY <2>1, <2>3, <2>4 DEF FollowEdge
<1>7. CASE WalkEnds
  BY <1>7, NextWalkTypes DEF WalkEnds
<1>8. CASE Answer
  BY <1>8 DEF Answer, WalkTypes, indexVars, walkVars, NRows
<1>9. CASE UNCHANGED vars
  BY <1>9 DEF vars, WalkTypes, indexVars, walkVars, queryVars, NRows
<1> QED BY <1>1, <1>2, <1>3, <1>4, <1>5, <1>6, <1>7, <1>8, <1>9 DEF Next, Walk

(* A set that grows by others is larger by as many.                         *)
LEMMA GrowsBy ==
  ASSUME NEW S, NEW T, IsFiniteSet(S), IsFiniteSet(T), S \cap T = {}
  PROVE  IsFiniteSet(S \cup T) /\ Cardinality(S \cup T) = Cardinality(S) + Cardinality(T)
<1>1. Cardinality(S) \in Nat /\ Cardinality(T) \in Nat
  BY FS_CardinalityType
<1>2. Cardinality(S \cap T) = 0
  BY FS_EmptySet
<1>3. /\ IsFiniteSet(S \cup T)
      /\ Cardinality(S \cup T) = Cardinality(S) + Cardinality(T) - Cardinality(S \cap T)
  BY FS_Union
<1> QED BY <1>1, <1>2, <1>3

(* Sets whose elements belong together one by one are equally large.        *)
LEMMA SameSize ==
  ASSUME NEW S, NEW T, IsFiniteSet(S), NEW f \in [S -> T],
         \A a, b \in S : f[a] = f[b] => a = b,
         \A t \in T : \E s \in S : f[s] = t
  PROVE  IsFiniteSet(T) /\ Cardinality(T) = Cardinality(S)
<1>1. f \in Bijection(S, T)
  BY DEF Bijection, Injection, IsInjective, Surjection
<1> QED BY <1>1, FS_Bijection DEF ExistsBijection

(* The edges of a kind, and the loads of memory that nothing wrote before.  *)
OfKind(k) == {p \in (DOMAIN trace) \X (DOMAIN trace) :
                [idx |-> p[2], kind |-> k] \in rows[p[1]]}
Unwritten == {p \in (DOMAIN trace) \X (SUBSET Bytes) :
                /\ p[2] \in trace[p[1]].reads
                /\ \A b \in p[2], j \in 1..(p[1] - 1) : b \notin UNION trace[j].writes}

(* A byte has no last writer when it has none.                              *)
NeverWritten ==
  \A b \in Bytes : memLast[b] = 0 <=> \A j \in 1..Len(trace) : b \notin UNION trace[j].writes

Summed == NeverWritten /\ SummaryExact /\ counts = [k \in Kinds |-> counts[k]]

(* There are so many of them.                                               *)
LEMMA SummaryCounts ==
  ASSUME ScanInv
  PROVE  /\ IsFiniteSet(Unwritten) /\ Cardinality(Unwritten) \in Nat
         /\ \A k : IsFiniteSet(OfKind(k)) /\ Cardinality(OfKind(k)) \in Nat
<1>1. DOMAIN trace = 1..Len(trace) /\ Len(trace) \in Nat
  BY LenProperties DEF ScanInv, ScanType
<1>2. IsFiniteSet(DOMAIN trace)
  BY <1>1, FS_Interval
<1>3. IsFiniteSet((DOMAIN trace) \X (DOMAIN trace))
  BY <1>2, FS_Product
<1>4. IsFiniteSet((DOMAIN trace) \X (SUBSET Bytes))
  BY <1>2, BytesAssumption, FS_SUBSET, FS_Product
<1>5. IsFiniteSet(Unwritten)
  <2>1. Unwritten \in SUBSET ((DOMAIN trace) \X (SUBSET Bytes))
    BY DEF Unwritten
  <2> QED BY <1>4, <2>1, FS_Subset
<1>6. ASSUME NEW k
      PROVE  IsFiniteSet(OfKind(k))
  <2>1. OfKind(k) \in SUBSET ((DOMAIN trace) \X (DOMAIN trace))
    BY DEF OfKind
  <2> QED BY <1>3, <2>1, FS_Subset
<1> QED BY <1>5, <1>6, FS_CardinalityType

(* There are finitely many kinds,                                           *)
LEMMA KindsFinite == IsFiniteSet(Kinds)
<1>1. IsFiniteSet({"Reg"})
  BY FS_Singleton
<1>2. IsFiniteSet({"Reg"} \cup {"Address"})
  BY <1>1, FS_AddElement
<1>3. IsFiniteSet(({"Reg"} \cup {"Address"}) \cup {"Mem"})
  BY <1>2, FS_AddElement
<1>4. IsFiniteSet((({"Reg"} \cup {"Address"}) \cup {"Mem"}) \cup {"Control"})
  BY <1>3, FS_AddElement
<1>5. Kinds = (({"Reg"} \cup {"Address"}) \cup {"Mem"}) \cup {"Control"}
  BY DEF Kinds
<1> QED BY <1>4, <1>5

(* and so there are finitely many edges.                                    *)
LEMMA EdgesFinite == IsFiniteSet(Edge)
<1>1. IsFiniteSet(Kinds)
  BY KindsFinite
<1>2. IsFiniteSet((1..MaxRecords) \X Kinds)
  <2>1. IsFiniteSet(1..MaxRecords)
    BY RecordsAssumption, FS_Interval
  <2> QED BY <1>1, <2>1, FS_Product
<1> DEFINE f == [e \in Edge |-> <<e.idx, e.kind>>]
<1>3. f \in Injection(Edge, (1..MaxRecords) \X Kinds)
  <2>1. f \in [Edge -> (1..MaxRecords) \X Kinds]
    BY DEF Edge
  <2>2. \A a, b \in Edge : f[a] = f[b] => a = b
    BY DEF Edge
  <2> QED BY <2>1, <2>2 DEF Injection, IsInjective
<1> QED BY <1>2, <1>3, FS_Injection

(* A row holds edges to records scanned before it.                          *)
LEMMA RowEdges ==
  ASSUME ScanInv, NEW rec \in Record
  PROVE  \A e \in Row(rec) : e \in Edge /\ e.idx \in 1..Len(trace)
<1>1. Len(trace) \in Nat /\ MaxRecords \in Nat /\ Len(trace) <= MaxRecords
  BY LenProperties, RecordsAssumption DEF ScanInv, ScanType
<1>2. /\ regLast \in [Regs -> 0..Len(trace)] /\ memLast \in [Bytes -> 0..Len(trace)]
      /\ lastCond \in 0..Len(trace)
  BY DEF ScanInv, ScanType
<1> QED BY <1>1, <1>2 DEF Row, ControlEdges, AddressEdges, RegEdges, MemEdges, Known, Edge, Kinds, Record

(* What one record adds: its edges of a kind,                               *)
LEMMA ScanAddsEdges ==
  ASSUME ScanInv, ScanInv', NEW rec \in Records, Scan(rec), NEW k \in Kinds
  PROVE  Cardinality(OfKind(k))' = Cardinality(OfKind(k)) + Cardinality({e \in Row(rec) : e.kind = k})
<1> DEFINE i == Len(trace) + 1
           mine == {e \in Row(rec) : e.kind = k}
           fresh == {<<i, e.idx>> : e \in mine}
<1>1. /\ trace \in Seq(Record) /\ rows \in Seq(SUBSET Edge) /\ Len(rows) = Len(trace)
      /\ trace' = Append(trace, rec) /\ rows' = Append(rows, Row(rec)) /\ Len(trace) \in Nat
  BY LenProperties DEF ScanInv, ScanType, Scan
<1>2. /\ DOMAIN trace = 1..Len(trace) /\ DOMAIN rows = 1..Len(trace)
      /\ DOMAIN trace' = 1..i
  BY <1>1, LenProperties, AppendProperties
<1>3. rows'[i] = Row(rec) /\ \A j \in 1..Len(trace) : rows'[j] = rows[j]
  BY <1>1, <1>2, AppendProperties
<1>4. \A e \in Row(rec) : e \in Edge /\ e.idx \in 1..Len(trace)
  BY RowEdges, RecordsAssumption DEF ScanInv
<1>5. IsFiniteSet(mine)
  <2>1. mine \in SUBSET Edge
    BY <1>4
  <2> HIDE DEF mine
  <2> QED BY <2>1, EdgesFinite, FS_Subset
<1>6. IsFiniteSet(fresh) /\ Cardinality(fresh) = Cardinality(mine)
  <2> DEFINE f == [e \in mine |-> <<i, e.idx>>]
  <2>1. f \in [mine -> fresh]
    OBVIOUS
  <2>2. \A a, b \in mine : f[a] = f[b] => a = b
    <3>1. \A e \in mine : e = [idx |-> e.idx, kind |-> k]
      BY <1>4 DEF Edge
    <3> QED BY <3>1
  <2>3. \A t \in fresh : \E s \in mine : f[s] = t
    OBVIOUS
  <2> HIDE DEF f, mine, fresh
  <2> QED BY <1>5, <2>1, <2>2, <2>3, SameSize
<1>7. OfKind(k)' = OfKind(k) \cup fresh
  <2>1. \A j \in 1..Len(trace) : \A e \in rows[j] : e.idx \in 1..Len(trace)
    BY <1>1, <1>2 DEF ScanInv, RowsExact
  <2>2. ASSUME NEW a \in 1..Len(trace), NEW b \in 1..i
        PROVE  <<a, b>> \in OfKind(k)' <=> <<a, b>> \in OfKind(k)
    <3>1. <<a, b>> \in OfKind(k)' <=> [idx |-> b, kind |-> k] \in rows[a]
      BY <1>2, <1>3 DEF OfKind
    <3>2. <<a, b>> \in OfKind(k) <=> b \in 1..Len(trace) /\ [idx |-> b, kind |-> k] \in rows[a]
      BY <1>2 DEF OfKind
    <3>3. [idx |-> b, kind |-> k] \in rows[a] => b \in 1..Len(trace)
      BY <2>1
    <3> QED BY <3>1, <3>2, <3>3
  <2>3. ASSUME NEW b \in 1..i
        PROVE  <<i, b>> \in OfKind(k)' <=> <<i, b>> \in fresh
    <3>1. <<i, b>> \in OfKind(k)' <=> [idx |-> b, kind |-> k] \in Row(rec)
      BY <1>2, <1>3 DEF OfKind
    <3>2. <<i, b>> \in fresh <=> \E e \in Row(rec) : e.kind = k /\ e.idx = b
      OBVIOUS
    <3>3. \A e \in Row(rec) : e = [idx |-> e.idx, kind |-> e.kind]
      BY <1>4 DEF Edge
    <3> QED BY <3>1, <3>2, <3>3
  <2>4. OfKind(k)' \subseteq (1..i) \X (1..i) /\ OfKind(k) \subseteq (1..Len(trace)) \X (1..Len(trace))
    BY <1>2 DEF OfKind
  <2>5. \A p \in fresh : p[1] = i /\ p[2] \in 1..Len(trace) /\ p = <<p[1], p[2]>>
    BY <1>4
  <2>6. \A a \in 1..i : a = i \/ a \in 1..Len(trace)
    BY <1>1
  <2>7. i \notin 1..Len(trace) /\ 1..Len(trace) \subseteq 1..i
    BY <1>1
  <2> HIDE DEF fresh, i
  <2>8. \A a \in 1..i, b \in 1..i : <<a, b>> \in OfKind(k)' <=> <<a, b>> \in OfKind(k) \/ <<a, b>> \in fresh
    <3> SUFFICES ASSUME NEW a \in 1..i, NEW b \in 1..i
                 PROVE  <<a, b>> \in OfKind(k)' <=> <<a, b>> \in OfKind(k) \/ <<a, b>> \in fresh
      OBVIOUS
    <3>1. CASE a = i
      <4>1. <<a, b>> \notin OfKind(k)
        BY <2>4, <2>7, <3>1
      <4> QED BY <2>3, <3>1, <4>1
    <3>2. CASE a \in 1..Len(trace)
      <4>1. <<a, b>> \notin fresh
        BY <2>5, <2>7, <3>2
      <4> QED BY <2>2, <3>2, <4>1
    <3> QED BY <2>6, <3>1, <3>2
  <2>9. \A p \in OfKind(k)' \cup OfKind(k) \cup fresh : \E a \in 1..i, b \in 1..i : p = <<a, b>>
    <3>1. i \in 1..i
      BY <1>1 DEF i
    <3> QED BY <2>4, <2>5, <2>7, <3>1
  <2> QED BY <2>8, <2>9
<1>8. OfKind(k) \cap fresh = {}
  BY <1>1, <1>2 DEF OfKind
<1> HIDE DEF fresh, mine
<1>9. Cardinality(OfKind(k) \cup fresh) = Cardinality(OfKind(k)) + Cardinality(fresh)
  BY <1>6, <1>8, SummaryCounts, GrowsBy
<1> QED BY <1>6, <1>7, <1>9 DEF mine

(* its loads of bytes that nothing wrote.                                   *)
LEMMA ScanAddsLoads ==
  ASSUME ScanInv, NeverWritten, NEW rec \in Records, Scan(rec)
  PROVE  /\ Cardinality(Unwritten)' = Cardinality(Unwritten) + InitLoads(rec)
         /\ InitLoads(rec) \in Nat
<1> DEFINE i == Len(trace) + 1
           mine == {op \in rec.reads : \A b \in op : memLast[b] = 0}
           fresh == {<<i, op>> : op \in mine}
<1>1. /\ trace \in Seq(Record) /\ trace' = Append(trace, rec) /\ Len(trace) \in Nat
      /\ rec \in Record /\ rec.reads \subseteq SUBSET Bytes
  BY LenProperties, RecordsAssumption DEF ScanInv, ScanType, Scan, Record
<1>2. /\ DOMAIN trace = 1..Len(trace) /\ DOMAIN trace' = 1..i /\ i \notin 1..Len(trace)
      /\ 1..Len(trace) \subseteq 1..i /\ i \in 1..i /\ \A a \in 1..i : a = i \/ a \in 1..Len(trace)
  BY <1>1, LenProperties, AppendProperties
<1>3. trace'[i] = rec /\ \A j \in 1..Len(trace) : trace'[j] = trace[j]
  BY <1>1, <1>2, AppendProperties
<1>4. IsFiniteSet(mine) /\ Cardinality(mine) \in Nat
  <2>1. mine \in SUBSET (SUBSET Bytes)
    BY <1>1
  <2> HIDE DEF mine
  <2> QED BY <2>1, BytesAssumption, FS_SUBSET, FS_Subset, FS_CardinalityType
<1>5. IsFiniteSet(fresh) /\ Cardinality(fresh) = Cardinality(mine)
  <2> DEFINE f == [op \in mine |-> <<i, op>>]
  <2>1. f \in [mine -> fresh]
    OBVIOUS
  <2>2. \A a, b \in mine : f[a] = f[b] => a = b
    OBVIOUS
  <2>3. \A t \in fresh : \E s \in mine : f[s] = t
    OBVIOUS
  <2> HIDE DEF f, mine, fresh
  <2> QED BY <1>4, <2>1, <2>2, <2>3, SameSize
<1> DEFINE Is(a, op) == /\ op \in trace[a].reads
                        /\ \A b \in op, j \in 1..(a - 1) : b \notin UNION trace[j].writes
<1>6. \A a \in 1..Len(trace), op \in SUBSET Bytes : <<a, op>> \in Unwritten <=> Is(a, op)
  BY <1>2 DEF Unwritten
<1>7. ASSUME NEW a \in 1..i, NEW op \in SUBSET Bytes
      PROVE  <<a, op>> \in Unwritten'
             <=> /\ op \in trace'[a].reads
                 /\ \A b \in op, j \in 1..(a - 1) : b \notin UNION trace'[j].writes
  BY <1>2 DEF Unwritten
<1>8. ASSUME NEW a \in 1..Len(trace), NEW op \in SUBSET Bytes
      PROVE  <<a, op>> \in Unwritten' <=> <<a, op>> \in Unwritten
  <2>1. \A j \in 1..(a - 1) : j \in 1..Len(trace)
    BY <1>1
  <2>2. a \in 1..i
    BY <1>2
  <2> HIDE DEF i
  <2> QED BY <1>3, <1>6, <1>7, <2>1, <2>2
<1>9. ASSUME NEW op \in SUBSET Bytes
      PROVE  <<i, op>> \in Unwritten' <=> <<i, op>> \in fresh
  <2>1. i - 1 = Len(trace) /\ i \in 1..i
    BY <1>1, <1>2
  <2>2. <<i, op>> \in Unwritten'
        <=> /\ op \in rec.reads
            /\ \A b \in op, j \in 1..Len(trace) : b \notin UNION trace'[j].writes
    <3> HIDE DEF i
    <3> QED BY <1>3, <1>7, <2>1
  <2>3. \A b \in op : memLast[b] = 0 <=> \A j \in 1..Len(trace) : b \notin UNION trace'[j].writes
    BY <1>3 DEF NeverWritten
  <2>4. <<i, op>> \in fresh <=> op \in rec.reads /\ \A b \in op : memLast[b] = 0
    OBVIOUS
  <2> QED BY <2>2, <2>3, <2>4
<1>10. Unwritten' = Unwritten \cup fresh
  <2>1. Unwritten' \subseteq (1..i) \X SUBSET Bytes /\ Unwritten \subseteq (1..Len(trace)) \X SUBSET Bytes
    BY <1>2 DEF Unwritten
  <2>2. \A p \in fresh : \E op \in SUBSET Bytes : p = <<i, op>>
    BY <1>1
  <2> HIDE DEF fresh, i, Is
  <2>3. ASSUME NEW a \in 1..i, NEW op \in SUBSET Bytes
        PROVE  <<a, op>> \in Unwritten' <=> <<a, op>> \in Unwritten \/ <<a, op>> \in fresh
    <3>1. CASE a = i
      <4>1. <<a, op>> \notin Unwritten
        BY <1>2, <2>1, <3>1
      <4> QED BY <1>9, <3>1, <4>1
    <3>2. CASE a \in 1..Len(trace)
      <4>1. <<a, op>> \notin fresh
        BY <1>2, <2>2, <3>2
      <4> QED BY <1>8, <3>2, <4>1
    <3> QED BY <1>2, <3>1, <3>2
  <2>4. \A p \in Unwritten' \cup Unwritten \cup fresh : \E a \in 1..i, op \in SUBSET Bytes : p = <<a, op>>
    BY <1>2, <2>1, <2>2
  <2> QED BY <2>3, <2>4
<1>11. Unwritten \cap fresh = {}
  BY <1>2 DEF Unwritten
<1> HIDE DEF fresh
<1>12. Cardinality(Unwritten \cup fresh) = Cardinality(Unwritten) + Cardinality(fresh)
  BY <1>5, <1>11, SummaryCounts, GrowsBy
<1>13. InitLoads(rec) = Cardinality(mine)
  BY DEF InitLoads
<1> QED BY <1>4, <1>5, <1>10, <1>12, <1>13

(* Whether a byte was ever written is what the table of last writers says.  *)
LEMMA ScanKeepsWritten ==
  ASSUME ScanInv, NeverWritten, NEW rec \in Records, Scan(rec)
  PROVE  NeverWritten'
<1>1. /\ trace \in Seq(Record) /\ trace' = Append(trace, rec) /\ Len(trace) \in Nat
  BY LenProperties DEF ScanInv, ScanType, Scan
<1>2. /\ Len(trace') = Len(trace) + 1 /\ trace'[Len(trace) + 1] = rec
      /\ \A j \in 1..Len(trace) : trace'[j] = trace[j]
  BY <1>1, AppendProperties, LenProperties
<1> SUFFICES ASSUME NEW b \in Bytes
             PROVE  memLast'[b] = 0 <=> \A j \in 1..(Len(trace) + 1) : b \notin UNION trace'[j].writes
  BY <1>2 DEF NeverWritten
<1>3. memLast'[b] = IF b \in UNION rec.writes THEN Len(trace) + 1 ELSE memLast[b]
  BY DEF Scan
<1>4. (\A j \in 1..(Len(trace) + 1) : b \notin UNION trace'[j].writes)
      <=> b \notin UNION rec.writes /\ \A j \in 1..Len(trace) : b \notin UNION trace[j].writes
  <2>1. 1..(Len(trace) + 1) = 1..Len(trace) \cup {Len(trace) + 1}
    BY <1>1
  <2> QED BY <1>2, <2>1
<1>5. Len(trace) + 1 # 0
  BY <1>1
<1> QED BY <1>3, <1>4, <1>5 DEF NeverWritten

(* The counters and the rows agree, record by record.                       *)
LEMMA NextSummed == ScanInv /\ ScanInv' /\ Summed /\ [Next]_vars => Summed'
<1> SUFFICES ASSUME ScanInv, ScanInv', Summed, [Next]_vars PROVE Summed'
  OBVIOUS
<1>1. ASSUME NEW rec \in Records, Scan(rec)
      PROVE  Summed'
  <2>1. NeverWritten'
    BY <1>1, ScanKeepsWritten DEF Summed
  <2>2. ASSUME NEW k \in Kinds
        PROVE  counts'[k] = Cardinality(OfKind(k))'
    <3>1. counts[k] = Cardinality(OfKind(k))
      BY DEF Summed, SummaryExact, OfKind
    <3>2. counts'[k] = counts[k] + Cardinality({e \in Row(rec) : e.kind = k})
      BY <1>1 DEF Scan
    <3> QED BY <1>1, <3>1, <3>2, ScanAddsEdges
  <2>3. initLoads' = Cardinality(Unwritten)'
    <3>1. initLoads = Cardinality(Unwritten)
      BY DEF Summed, SummaryExact, Unwritten
    <3>2. initLoads' = initLoads + InitLoads(rec)
      BY <1>1 DEF Scan
    <3> QED BY <1>1, <3>1, <3>2, ScanAddsLoads DEF Summed
  <2>4. counts' = [k \in Kinds |-> counts'[k]]
    BY <1>1 DEF Scan
  <2> QED BY <2>1, <2>2, <2>3, <2>4 DEF Summed, SummaryExact, OfKind, Unwritten
<1>2. CASE UNCHANGED <<trace, rows, memLast, counts, initLoads>>
  <2>1. Unwritten' = Unwritten /\ \A k : OfKind(k)' = OfKind(k)
    BY <1>2 DEF Unwritten, OfKind
  <2>2. SummaryExact <=> /\ \A k \in Kinds : counts[k] = Cardinality(OfKind(k))
                         /\ initLoads = Cardinality(Unwritten)
    BY DEF SummaryExact, OfKind, Unwritten
  <2>3. SummaryExact' <=> /\ \A k \in Kinds : counts'[k] = Cardinality(OfKind(k))'
                          /\ initLoads' = Cardinality(Unwritten)'
    BY DEF SummaryExact, OfKind, Unwritten
  <2>4. NeverWritten'
    BY <1>2 DEF NeverWritten, Summed
  <2> QED BY <1>2, <2>1, <2>2, <2>3, <2>4 DEF Summed
<1>3. CASE UNCHANGED indexVars
  BY <1>2, <1>3 DEF indexVars
<1>4. CASE ScanEnds
  BY <1>2, <1>4 DEF ScanEnds
<1> QED BY <1>1, <1>3, <1>4
    DEF Next, Ask, Walk, TakeSeed, SeedsTaken, Expand, FollowEdge, WalkEnds, Answer, vars

-----------------------------------------------------------------------------
(* The forward table: the ranks of the edges into a row, the offsets, and   *)
(* the places that they make together.                                      *)

(* What the table is built from.                                            *)
RowsShape == rows \in Seq(SUBSET Edge) /\ Len(rows) <= MaxRecords

(* The edges into a row are finitely many,                                  *)
LEMMA IntoFinite ==
  ASSUME RowsShape, NEW p
  PROVE  /\ IsFiniteSet(EdgesInto(p)) /\ Cardinality(EdgesInto(p)) \in Nat
         /\ EdgesInto(p) \subseteq (1..Len(rows)) \X Kinds /\ Len(rows) \in Nat
<1>1. Len(rows) \in Nat
  BY LenProperties DEF RowsShape
<1>2. EdgesInto(p) \in SUBSET ((1..Len(rows)) \X Kinds)
  BY DEF EdgesInto
<1>3. IsFiniteSet((1..Len(rows)) \X Kinds)
  <2>1. IsFiniteSet(1..Len(rows))
    BY <1>1, FS_Interval
  <2> QED BY <2>1, KindsFinite, FS_Product
<1> QED BY <1>1, <1>2, <1>3, FS_Subset, FS_CardinalityType

(* and one edge into it comes before another in the fill.                   *)
LEMMA BeforeOrders ==
  ASSUME NEW E, E \subseteq Nat \X Kinds
  PROVE  /\ \A a \in E : ~Before(a, a)
         /\ \A a, b \in E : a = b \/ Before(a, b) \/ Before(b, a)
         /\ \A a, b, c \in E : Before(a, b) /\ Before(b, c) => Before(a, c)
<1>1. \A k \in Kinds : KindByte[k] \in 1..4
  BY DEF Kinds, KindByte
<1>2. \A k, l \in Kinds : KindByte[k] = KindByte[l] => k = l
  BY DEF Kinds, KindByte
<1>3. \A a \in E : a[1] \in Nat /\ a[2] \in Kinds /\ a = <<a[1], a[2]>> /\ KindByte[a[2]] \in 1..4
  BY <1>1
<1>4. \A a \in E : ~Before(a, a)
  BY <1>3 DEF Before
<1>5. ASSUME NEW a \in E, NEW b \in E
      PROVE  a = b \/ Before(a, b) \/ Before(b, a)
  <2>1. CASE a[1] # b[1]
    BY <1>3, <2>1 DEF Before
  <2>2. CASE a[1] = b[1] /\ a[2] # b[2]
    <3>1. KindByte[a[2]] # KindByte[b[2]]
      BY <1>2, <1>3, <2>2
    <3>2. KindByte[a[2]] < KindByte[b[2]] \/ KindByte[b[2]] < KindByte[a[2]]
      BY <1>3, <3>1
    <3> QED BY <2>2, <3>2 DEF Before
  <2>3. CASE a[1] = b[1] /\ a[2] = b[2]
    BY <1>3, <2>3
  <2> QED BY <2>1, <2>2, <2>3
<1>6. ASSUME NEW a \in E, NEW b \in E, NEW c \in E, Before(a, b), Before(b, c)
      PROVE  Before(a, c)
  <2>1. /\ a[1] \in Nat /\ b[1] \in Nat /\ c[1] \in Nat
        /\ KindByte[a[2]] \in 1..4 /\ KindByte[b[2]] \in 1..4 /\ KindByte[c[2]] \in 1..4
    BY <1>3
  <2>2. /\ a[1] < b[1] \/ (a[1] = b[1] /\ KindByte[a[2]] < KindByte[b[2]])
        /\ b[1] < c[1] \/ (b[1] = c[1] /\ KindByte[b[2]] < KindByte[c[2]])
    BY <1>6 DEF Before
  <2>3. a[1] < c[1] \/ (a[1] = c[1] /\ KindByte[a[2]] < KindByte[c[2]])
    BY <2>1, <2>2
  <2> QED BY <2>3 DEF Before
<1> QED BY <1>4, <1>5, <1>6

(* How many come before an edge.                                            *)
Rank(E, e) == Cardinality({d \in E : Before(d, e)})

(* No two edges have the same rank, and the ranks leave none out.           *)
LEMMA RankIs ==
  ASSUME NEW E, E \subseteq Nat \X Kinds, IsFiniteSet(E)
  PROVE  /\ Cardinality(E) \in Nat
         /\ \A e \in E : Rank(E, e) \in 0..(Cardinality(E) - 1)
         /\ \A a, b \in E : Rank(E, a) = Rank(E, b) => a = b
         /\ \A r \in 0..(Cardinality(E) - 1) : \E e \in E : Rank(E, e) = r
<1> DEFINE Below(e) == {d \in E : Before(d, e)}
           n == Cardinality(E)
<1>1. n \in Nat
  BY FS_CardinalityType
<1>2. \A e \in E : IsFiniteSet(Below(e)) /\ Cardinality(Below(e)) \in Nat
  <2> SUFFICES ASSUME NEW e \in E PROVE IsFiniteSet(Below(e)) /\ Cardinality(Below(e)) \in Nat
    OBVIOUS
  <2>1. Below(e) \in SUBSET E
    OBVIOUS
  <2> HIDE DEF Below
  <2> QED BY <2>1, FS_Subset, FS_CardinalityType
<1>3. ASSUME NEW S \in SUBSET E, NEW T \in SUBSET E, NEW e \in T, e \notin S, S \subseteq T
      PROVE  Cardinality(S) < Cardinality(T)
  <2>1. IsFiniteSet(T) /\ IsFiniteSet(S) /\ S \in SUBSET (T \ {e})
    BY <1>3, FS_Subset
  <2>2. IsFiniteSet(T \ {e}) /\ Cardinality(T \ {e}) = Cardinality(T) - 1
    BY <2>1, FS_RemoveElement
  <2>3. Cardinality(S) <= Cardinality(T \ {e})
    BY <2>1, <2>2, FS_Subset
  <2>4. Cardinality(T) \in Nat /\ Cardinality(S) \in Nat
    BY <2>1, FS_CardinalityType
  <2> QED BY <2>2, <2>3, <2>4
<1>4. ASSUME NEW e \in E
      PROVE  Cardinality(Below(e)) \in 0..(n - 1)
  <2>1. Below(e) \in SUBSET E /\ e \notin Below(e)
    BY BeforeOrders
  <2> HIDE DEF Below
  <2>2. Cardinality(Below(e)) < n
    BY <1>3, <2>1
  <2> HIDE DEF n
  <2> QED BY <1>1, <1>2, <2>2
<1>5. ASSUME NEW a \in E, NEW b \in E, Before(a, b)
      PROVE  Cardinality(Below(a)) < Cardinality(Below(b))
  <2>1. Below(a) \in SUBSET E /\ Below(b) \in SUBSET E /\ a \notin Below(a) /\ a \in Below(b)
    BY <1>5, BeforeOrders
  <2>2. Below(a) \subseteq Below(b)
    BY <1>5, BeforeOrders
  <2> HIDE DEF Below
  <2> QED BY <1>3, <2>1, <2>2
<1>6. ASSUME NEW a \in E, NEW b \in E, Cardinality(Below(a)) = Cardinality(Below(b))
      PROVE  a = b
  <2>1. ~Before(a, b) /\ ~Before(b, a)
    <3> HIDE DEF Below
    <3> QED BY <1>2, <1>5, <1>6
  <2> QED BY <2>1, BeforeOrders
<1> DEFINE f == [e \in E |-> Cardinality(Below(e))]
<1> HIDE DEF n, Below
<1>7. f \in Injection(E, 0..(n - 1))
  BY <1>4, <1>6 DEF Injection, IsInjective
<1>8. IsFiniteSet(0..(n - 1)) /\ Cardinality(0..(n - 1)) = n
  BY <1>1, FS_Interval
<1>9. f \in Surjection(E, 0..(n - 1))
  <2> HIDE DEF f
  <2> QED BY <1>7, <1>8, FS_Injection DEF n
<1>10. \A r \in 0..(n - 1) : \E e \in E : Cardinality(Below(e)) = r
  BY <1>9 DEF Surjection
<1> QED BY <1>1, <1>4, <1>6, <1>10 DEF Rank, n, Below

(* The offsets are sums of the numbers of edges into the earlier rows.      *)
LEMMA OffsetIs ==
  ASSUME RowsShape
  PROVE  /\ RowOffset \in [0..MaxRecords -> Nat] /\ RowOffset[0] = 0
         /\ \A p \in 1..MaxRecords : RowOffset[p] = RowOffset[p - 1] + Cardinality(EdgesInto(p))
<1> DEFINE N == MaxRecords
           Body(f) == [p \in 0..N |-> IF p = 0 THEN 0 ELSE f[p - 1] + Cardinality(EdgesInto(p))]
           next == [k \in Nat |-> [x \in Nat |-> x + Cardinality(EdgesInto(k))]]
<1>1. N \in Nat
  BY RecordsAssumption
<1>2. Follows(Nat, next)
  <2>1. \A k \in Nat, x \in Nat : x + Cardinality(EdgesInto(k)) \in Nat
    BY IntoFinite
  <2> QED BY <2>1 DEF Follows
<1>3. PICK f : f \in [0..N -> Nat] /\ f[0] = 0 /\ \A k \in 1..N : f[k] = next[k][f[k - 1]]
  <2>1. \E f : Iterated(Nat, 0, next, N, f)
    <3> HIDE DEF next, N
    <3> QED BY <1>1, <1>2, Iterates
  <2> QED BY <2>1 DEF Iterated
<1>4. \A k \in 1..N : f[k] = f[k - 1] + Cardinality(EdgesInto(k))
  <2>1. \A k \in 1..N : k \in Nat /\ k - 1 \in 0..N
    BY <1>1
  <2>2. \A k \in 1..N : f[k - 1] \in Nat
    BY <1>3, <2>1
  <2> QED BY <1>3, <2>1, <2>2
<1>5. f = Body(f)
  <2>1. ASSUME NEW k \in 0..N
        PROVE  f[k] = Body(f)[k]
    <3>1. k = 0 \/ k \in 1..N
      BY <1>1
    <3> QED BY <1>3, <1>4, <3>1
  <2>2. f = [k \in 0..N |-> f[k]] /\ Body(f) = [k \in 0..N |-> Body(f)[k]]
    BY <1>3
  <2> HIDE DEF Body
  <2> QED BY <2>1, <2>2
<1> DEFINE offset == CHOOSE g : g = Body(g)
<1>6. offset = Body(offset)
  <2> HIDE DEF Body
  <2> QED BY <1>5
<1>7. RowOffset = offset
  BY DEF RowOffset
<1>8. \A k \in 0..N : offset[k] = IF k = 0 THEN 0 ELSE offset[k - 1] + Cardinality(EdgesInto(k))
  <2> HIDE DEF offset
  <2> QED BY <1>6
<1>9. offset = [k \in 0..N |-> offset[k]]
  <2> HIDE DEF offset
  <2> QED BY <1>6
<1> HIDE DEF offset
<1>10. offset[0] = 0
  <2>1. 0 \in 0..N
    BY <1>1
  <2> QED BY <1>8, <2>1
<1>11. ASSUME NEW k \in 1..N
       PROVE  offset[k] = offset[k - 1] + Cardinality(EdgesInto(k))
  <2>1. k \in 0..N /\ k # 0
    BY <1>1
  <2> HIDE DEF N
  <2> QED BY <1>8, <2>1
<1> DEFINE T == {k \in Nat : k \in 0..N => offset[k] \in Nat}
<1>12. \A k \in Nat : k \in T
  <2>1. 0 \in T
    BY <1>10
  <2>2. ASSUME NEW k \in Nat, k \in T
        PROVE  k + 1 \in T
    <3>1. ASSUME k + 1 \in 0..N
          PROVE  offset[k + 1] \in Nat
      <4>1. k \in 0..N /\ k + 1 \in 1..N /\ (k + 1) - 1 = k
        BY <1>1, <3>1
      <4>2. offset[k] \in Nat
        BY <2>2, <4>1
      <4>3. offset[k + 1] = offset[k] + Cardinality(EdgesInto(k + 1))
        BY <1>11, <4>1
      <4> QED BY <4>2, <4>3, IntoFinite
    <3> QED BY <3>1
  <2> HIDE DEF T
  <2> QED BY <2>1, <2>2, Induction
<1>13. offset \in [0..N -> Nat]
  <2>1. \A k \in 0..N : k \in Nat
    BY <1>1
  <2> QED BY <1>9, <1>12, <2>1
<1> QED BY <1>7, <1>10, <1>11, <1>13

(* They never fall,                                                         *)
LEMMA OffsetsRise ==
  ASSUME RowsShape, NEW p \in 0..MaxRecords, NEW q \in p..MaxRecords
  PROVE  RowOffset[p] <= RowOffset[q]
<1>0. MaxRecords \in Nat
  BY RecordsAssumption
<1> DEFINE T == {k \in Nat : k \in p..MaxRecords => RowOffset[p] <= RowOffset[k]}
<1>1. 0 \in T
  BY <1>0, OffsetIs
<1>2. ASSUME NEW k \in Nat, k \in T
      PROVE  k + 1 \in T
  <2> SUFFICES ASSUME k + 1 \in p..MaxRecords PROVE RowOffset[p] <= RowOffset[k + 1]
    OBVIOUS
  <2>1. RowOffset[p] \in Nat
    BY <1>0, OffsetIs
  <2>2. CASE k + 1 = p
    BY <2>1, <2>2
  <2>3. CASE k \in p..MaxRecords
    <3>1. k + 1 \in 1..MaxRecords /\ k \in 0..MaxRecords /\ (k + 1) - 1 = k
      BY <1>0, <2>3
    <3>2. RowOffset[k + 1] = RowOffset[k] + Cardinality(EdgesInto(k + 1))
      BY <3>1, OffsetIs
    <3>3. RowOffset[k] \in Nat /\ Cardinality(EdgesInto(k + 1)) \in Nat
      BY <3>1, OffsetIs, IntoFinite
    <3>4. RowOffset[p] <= RowOffset[k]
      BY <1>2, <2>3
    <3> QED BY <2>1, <3>2, <3>3, <3>4
  <2> QED BY <1>0, <2>2, <2>3
<1>3. q \in T
  <2>1. q \in Nat
    BY <1>0
  <2> HIDE DEF T
  <2> QED BY <1>1, <1>2, <2>1, Induction
<1> QED BY <1>3

(* so every place of the table is in the bucket of a row.                   *)
LEMMA BucketOf ==
  ASSUME RowsShape, NEW n \in 0..MaxRecords, NEW pos \in 0..(RowOffset[n] - 1)
  PROVE  \E p \in 1..n : RowOffset[p - 1] <= pos /\ pos < RowOffset[p]
<1>0. MaxRecords \in Nat
  BY RecordsAssumption
<1> DEFINE Has(k) == \E p \in 1..k : RowOffset[p - 1] <= pos /\ pos < RowOffset[p]
           T == {k \in Nat : k \in 0..MaxRecords /\ pos < RowOffset[k] => Has(k)}
<1>1. 0 \in T
  BY <1>0, OffsetIs
<1>2. ASSUME NEW k \in Nat, k \in T
      PROVE  k + 1 \in T
  <2> SUFFICES ASSUME k + 1 \in 0..MaxRecords, pos < RowOffset[k + 1] PROVE Has(k + 1)
    OBVIOUS
  <2>1. k \in 0..MaxRecords /\ (k + 1) - 1 = k /\ 1..(k + 1) = 1..k \cup {k + 1}
    BY <1>0
  <2>2. CASE pos < RowOffset[k]
    <3>1. Has(k)
      BY <1>2, <2>1, <2>2
    <3> QED BY <2>1, <3>1
  <2>3. CASE RowOffset[k] <= pos
    BY <2>1, <2>3
  <2>4. RowOffset[k] \in Nat /\ pos \in Nat
    BY <2>1, OffsetIs
  <2>5. pos < RowOffset[k] \/ RowOffset[k] <= pos
    BY <2>4
  <2> HIDE DEF Has
  <2> QED BY <2>2, <2>3, <2>5
<1>3. n \in T
  <2>1. n \in Nat
    BY <1>0
  <2> HIDE DEF T
  <2> QED BY <1>1, <1>2, <2>1, Induction
<1>4. RowOffset[n] \in Nat
  BY OffsetIs
<1>5. pos < RowOffset[n]
  BY <1>4
<1> QED BY <1>3, <1>5

(* Every edge into a row has a place of its own in the bucket of the row,   *)
LEMMA PlaceOf ==
  ASSUME RowsShape, NEW p \in 1..Len(rows)
  PROVE  /\ p \in 1..MaxRecords /\ RowOffset[p - 1] \in Nat /\ RowOffset[p] \in Nat
         /\ \A e \in EdgesInto(p) : Position(p, e) \in RowOffset[p - 1]..(RowOffset[p] - 1)
         /\ \A a, b \in EdgesInto(p) : Position(p, a) = Position(p, b) => a = b
         /\ \A pos \in RowOffset[p - 1]..(RowOffset[p] - 1) :
              \E e \in EdgesInto(p) : Position(p, e) = pos
<1> DEFINE E == EdgesInto(p)
<1>1. /\ MaxRecords \in Nat /\ Len(rows) \in Nat /\ Len(rows) <= MaxRecords
      /\ IsFiniteSet(E) /\ E \subseteq (1..Len(rows)) \X Kinds
  BY RecordsAssumption, IntoFinite DEF RowsShape
<1>2. p \in 1..MaxRecords /\ p - 1 \in 0..MaxRecords /\ p \in 0..MaxRecords
  BY <1>1
<1>3. E \subseteq Nat \X Kinds
  <2>1. 1..Len(rows) \subseteq Nat
    BY <1>1
  <2> QED BY <1>1, <2>1
<1>4. /\ RowOffset[p - 1] \in Nat /\ RowOffset[p] \in Nat
      /\ RowOffset[p] = RowOffset[p - 1] + Cardinality(E)
  BY <1>2, OffsetIs
<1>5. \A e : Position(p, e) = RowOffset[p - 1] + Rank(E, e)
  BY DEF Position, Rank
<1> HIDE DEF E
<1>6. /\ Cardinality(E) \in Nat
      /\ \A e \in E : Rank(E, e) \in 0..(Cardinality(E) - 1)
      /\ \A a, b \in E : Rank(E, a) = Rank(E, b) => a = b
      /\ \A r \in 0..(Cardinality(E) - 1) : \E e \in E : Rank(E, e) = r
  BY <1>1, <1>3, RankIs
<1>7. \A e \in E : Position(p, e) \in RowOffset[p - 1]..(RowOffset[p] - 1)
  BY <1>4, <1>5, <1>6
<1>8. ASSUME NEW a \in E, NEW b \in E, Position(p, a) = Position(p, b)
      PROVE  a = b
  <2>1. Rank(E, a) \in Nat /\ Rank(E, b) \in Nat
    BY <1>6
  <2>2. Rank(E, a) = Rank(E, b)
    BY <1>4, <1>5, <1>8, <2>1
  <2> QED BY <1>6, <2>2
<1>9. ASSUME NEW pos \in RowOffset[p - 1]..(RowOffset[p] - 1)
      PROVE  \E e \in E : Position(p, e) = pos
  <2>1. pos - RowOffset[p - 1] \in 0..(Cardinality(E) - 1)
    BY <1>4, <1>6
  <2>2. PICK e \in E : Rank(E, e) = pos - RowOffset[p - 1]
    BY <1>6, <2>1
  <2> QED BY <1>4, <1>5, <2>2
<1> QED BY <1>2, <1>4, <1>7, <1>8, <1>9 DEF E

(* and the buckets do not overlap.                                          *)
LEMMA BucketsApart ==
  ASSUME RowsShape, NEW p \in 1..Len(rows), NEW q \in 1..Len(rows),
         NEW pos \in RowOffset[p - 1]..(RowOffset[p] - 1),
         pos \in RowOffset[q - 1]..(RowOffset[q] - 1)
  PROVE  p = q
<1>1. /\ MaxRecords \in Nat /\ Len(rows) \in Nat /\ Len(rows) <= MaxRecords
  BY RecordsAssumption, IntoFinite DEF RowsShape
<1>2. ASSUME NEW a \in 1..Len(rows), NEW b \in 1..Len(rows), a < b
      PROVE  RowOffset[a] <= RowOffset[b - 1]
  <2>1. a \in 0..MaxRecords /\ b - 1 \in a..MaxRecords
    BY <1>1, <1>2
  <2> QED BY <2>1, OffsetsRise
<1>3. /\ RowOffset[p - 1] \in Nat /\ RowOffset[p] \in Nat
      /\ RowOffset[q - 1] \in Nat /\ RowOffset[q] \in Nat
  BY PlaceOf
<1>4. pos < RowOffset[p] /\ pos < RowOffset[q] /\ RowOffset[p - 1] <= pos /\ RowOffset[q - 1] <= pos
      /\ pos \in Int
  BY <1>3
<1>5. ~(p < q)
  BY <1>2, <1>3, <1>4
<1>6. ~(q < p)
  BY <1>2, <1>3, <1>4
<1> QED BY <1>1, <1>5, <1>6

(* So each place of the table is filled once,                               *)
LEMMA FilledOnce ==
  ASSUME RowsShape
  PROVE  \A pos \in DOMAIN Filled : Cardinality(Filled[pos]) = 1
<1> DEFINE N == Len(rows)
           At(pos) == {f \in (1..N) \X ((1..N) \X Kinds) :
                         f[2] \in EdgesInto(f[1]) /\ Position(f[1], f[2]) = pos}
<1>1. /\ MaxRecords \in Nat /\ N \in Nat /\ N <= MaxRecords
  BY RecordsAssumption, IntoFinite DEF RowsShape
<1>2. DOMAIN Filled = 0..(RowOffset[N] - 1) /\ \A pos \in DOMAIN Filled : Filled[pos] = At(pos)
  BY DEF Filled
<1> SUFFICES ASSUME NEW pos \in 0..(RowOffset[N] - 1)
             PROVE  Cardinality(At(pos)) = 1
  BY <1>2
<1>3. PICK p \in 1..N : RowOffset[p - 1] <= pos /\ pos < RowOffset[p]
  <2>1. N \in 0..MaxRecords
    BY <1>1
  <2> HIDE DEF N
  <2> QED BY <2>1, BucketOf
<1>4. RowOffset[p - 1] \in Nat /\ RowOffset[p] \in Nat /\ RowOffset[N] \in Nat
  <2>1. N \in 0..MaxRecords
    BY <1>1
  <2> QED BY <2>1, PlaceOf, OffsetIs
<1>5. pos \in RowOffset[p - 1]..(RowOffset[p] - 1)
  BY <1>3, <1>4
<1>6. PICK e \in EdgesInto(p) : Position(p, e) = pos
  BY <1>5, PlaceOf
<1>7. <<p, e>> \in At(pos)
  <2>1. e \in (1..N) \X Kinds
    BY IntoFinite
  <2> QED BY <1>6, <2>1
<1>8. ASSUME NEW f \in At(pos)
      PROVE  f = <<p, e>>
  <2>1. /\ f[1] \in 1..N /\ f[2] \in EdgesInto(f[1]) /\ Position(f[1], f[2]) = pos
        /\ f = <<f[1], f[2]>>
    OBVIOUS
  <2>2. pos \in RowOffset[f[1] - 1]..(RowOffset[f[1]] - 1)
    BY <2>1, PlaceOf
  <2>3. f[1] = p
    <3> HIDE DEF At
    <3> QED BY <1>5, <2>1, <2>2, BucketsApart
  <2>4. f[2] = e
    BY <1>6, <2>1, <2>3, PlaceOf
  <2> QED BY <2>1, <2>3, <2>4
<1>9. At(pos) = {<<p, e>>}
  <2> HIDE DEF At
  <2> QED BY <1>7, <1>8
<1> HIDE DEF At
<1> QED BY <1>9, FS_Singleton

(* and a row of the table lists the edges into the row of the trace.        *)
LEMMA UsersAre ==
  ASSUME RowsShape
  PROVE  Users = [p \in 1..Len(rows) |-> {[idx |-> e[1], kind |-> e[2]] : e \in EdgesInto(p)}]
<1> DEFINE N == Len(rows)
           Listed(p) == {[idx |-> f[2][1], kind |-> f[2][2]] :
                           f \in UNION {Filled[pos] : pos \in RowOffset[p - 1]..(RowOffset[p] - 1)}}
           Meant(p) == {[idx |-> e[1], kind |-> e[2]] : e \in EdgesInto(p)}
<1>1. /\ MaxRecords \in Nat /\ N \in Nat /\ N <= MaxRecords
  BY RecordsAssumption, IntoFinite DEF RowsShape
<1>2. ASSUME NEW p \in 1..N
      PROVE  Listed(p) = Meant(p)
  <2> DEFINE bucket == RowOffset[p - 1]..(RowOffset[p] - 1)
             held == UNION {Filled[pos] : pos \in bucket}
  <2>1. RowOffset[p - 1] \in Nat /\ RowOffset[p] \in Nat /\ RowOffset[N] \in Nat
        /\ RowOffset[p] <= RowOffset[N]
    <3>1. N \in 0..MaxRecords /\ p \in 0..MaxRecords /\ N \in p..MaxRecords
      BY <1>1
    <3> HIDE DEF N
    <3> QED BY <3>1, PlaceOf, OffsetIs, OffsetsRise DEF N
  <2>2. \A pos \in bucket : pos \in 0..(RowOffset[N] - 1)
    BY <2>1
  <2>3. \A pos \in bucket :
          Filled[pos] = {f \in (1..N) \X ((1..N) \X Kinds) :
                           f[2] \in EdgesInto(f[1]) /\ Position(f[1], f[2]) = pos}
    <3> HIDE DEF bucket
    <3> QED BY <2>2 DEF Filled
  <2>4. ASSUME NEW f \in held
        PROVE  f[2] \in EdgesInto(p)
    <3>1. PICK pos \in bucket : f \in Filled[pos]
      <4> HIDE DEF bucket
      <4> QED OBVIOUS
    <3>2. f[1] \in 1..N /\ f[2] \in EdgesInto(f[1]) /\ Position(f[1], f[2]) = pos
      <4> HIDE DEF bucket, held
      <4> QED BY <2>3, <3>1
    <3>3. pos \in RowOffset[f[1] - 1]..(RowOffset[f[1]] - 1)
      BY <3>2, PlaceOf
    <3>4. f[1] = p
      <4> HIDE DEF held
      <4> QED BY <3>1, <3>2, <3>3, BucketsApart
    <3> QED BY <3>2, <3>4
  <2>5. ASSUME NEW e \in EdgesInto(p)
        PROVE  <<p, e>> \in held
    <3>1. Position(p, e) \in bucket
      BY PlaceOf
    <3>2. e \in (1..N) \X Kinds
      BY IntoFinite
    <3>3. <<p, e>> \in Filled[Position(p, e)]
      <4> HIDE DEF bucket
      <4> QED BY <2>3, <3>1, <3>2
    <3> HIDE DEF bucket
    <3> QED BY <3>1, <3>3
  <2>6. Listed(p) = {[idx |-> f[2][1], kind |-> f[2][2]] : f \in held}
    OBVIOUS
  <2> HIDE DEF held, Listed
  <2>7. Listed(p) \subseteq Meant(p)
    BY <2>4, <2>6
  <2>8. Meant(p) \subseteq Listed(p)
    <3> SUFFICES ASSUME NEW e \in EdgesInto(p)
                 PROVE  [idx |-> e[1], kind |-> e[2]] \in Listed(p)
      OBVIOUS
    <3>1. <<p, e>> \in held /\ <<p, e>>[2] = e
      BY <2>5
    <3> QED BY <2>6, <3>1
  <2> QED BY <2>7, <2>8
<1>3. Users = [p \in 1..N |-> Listed(p)]
  BY DEF Users
<1> HIDE DEF Listed, Meant
<1>4. [p \in 1..N |-> Listed(p)] = [p \in 1..N |-> Meant(p)]
  BY <1>2
<1> QED BY <1>3, <1>4 DEF Meant

(* The forward table that was built for a query is that of the rows.        *)
UsersRight ==
  phase # "build" /\ query.forward =>
    users = [p \in 1..NRows |-> {[idx |-> e[1], kind |-> e[2]] : e \in EdgesInto(p)}]

(* Nothing is scanned once a query was asked.                               *)
LEMMA NextUsersRight == ScanInv /\ UsersRight /\ [Next]_vars => UsersRight'
<1> SUFFICES ASSUME ScanInv, UsersRight, [Next]_vars PROVE UsersRight'
  OBVIOUS
<1>0. RowsShape
  BY DEF RowsShape, ScanInv, ScanType
<1>1. CASE phase = "build" /\ UNCHANGED queryVars
  BY <1>1 DEF UsersRight, queryVars
<1>2. CASE \E q \in Queries : Ask(q)
  <2>1. PICK q \in Queries : Ask(q)
    BY <1>2
  <2>2. /\ query' = q /\ users' = (IF q.forward THEN Users ELSE <<>>) /\ rows' = rows
    BY <2>1 DEF Ask, indexVars
  <2>3. NRows' = NRows /\ \A p : EdgesInto(p)' = EdgesInto(p)
    BY <2>2 DEF NRows, EdgesInto
  <2>4. q.forward => users' = [p \in 1..NRows |-> {[idx |-> e[1], kind |-> e[2]] : e \in EdgesInto(p)}]
    BY <1>0, <2>2, UsersAre DEF NRows
  <2> QED BY <2>2, <2>3, <2>4 DEF UsersRight
<1>3. CASE phase # "build" /\ UNCHANGED <<rows, query, users>>
  BY <1>3 DEF UsersRight, NRows, EdgesInto
<1>4. CASE UNCHANGED vars
  BY <1>4 DEF UsersRight, NRows, EdgesInto, vars, indexVars, queryVars
<1> QED BY <1>1, <1>2, <1>3, <1>4
    DEF Next, Walk, TakeSeed, SeedsTaken, Expand, FollowEdge, WalkEnds, Answer, queryVars, indexVars

(* All of it is right at every step.                                        *)
TablesInv == ScanInv /\ WalkTypes /\ Summed /\ UsersRight

(* The tables beside the rows of a trace of any length: the counters are    *)
(* the numbers of the edges and of the loads from memory that nothing wrote *)
(* (AnalysisIndex::build); the two passes of DependencyUsers::build put     *)
(* each edge in a place of its own, leave no place empty, and list for a    *)
(* row exactly the rows that depend on it.                                  *)
THEOREM DependencyTablesTrue == Spec => []TablesTrue
<1>1. Init => TablesInv
  <2> SUFFICES ASSUME Init PROVE TablesInv
    OBVIOUS
  <2>1. WalkTypes
    <3>1. marked = {} /\ DOMAIN depths = {} /\ idxs \in Seq({}) /\ queue \in Seq({})
      BY DEF Init
    <3> QED BY <3>1 DEF Init, IndexInit, WalkTypes
  <2>2. Summed
    <3>1. trace = <<>> /\ DOMAIN trace = {} /\ Len(trace) = 0
      BY DEF Init, IndexInit
    <3>2. OfKind("Reg") = {} /\ (\A k : OfKind(k) = {}) /\ Unwritten = {}
      BY <3>1 DEF OfKind, Unwritten
    <3>3. Cardinality({}) = 0
      BY FS_EmptySet
    <3>4. SummaryExact
      BY <3>2, <3>3 DEF SummaryExact, OfKind, Unwritten, Init, IndexInit
    <3>5. NeverWritten
      BY <3>1 DEF NeverWritten, Init, IndexInit
    <3>6. counts = [k \in Kinds |-> counts[k]]
      BY DEF Init, IndexInit
    <3> QED BY <3>4, <3>5, <3>6 DEF Summed
  <2>3. UsersRight
    BY DEF Init, UsersRight
  <2> QED BY <2>1, <2>2, <2>3, InitScanInv DEF TablesInv
<1>2. TablesInv /\ [Next]_vars => TablesInv'
  BY NextScanInv, NextWalkTyped, NextSummed, NextUsersRight DEF TablesInv
<1>3. TablesInv => TablesTrue
  <2> SUFFICES ASSUME TablesInv PROVE TypeOK /\ BesideRows
    BY DEF TablesTrue
  <2>1. counts \in [Kinds -> Nat] /\ initLoads \in Nat
    <3>1. \A k \in Kinds : counts[k] = Cardinality(OfKind(k))
      BY DEF TablesInv, Summed, SummaryExact, OfKind
    <3>2. initLoads = Cardinality(Unwritten)
      BY DEF TablesInv, Summed, SummaryExact, Unwritten
    <3>3. counts = [k \in Kinds |-> counts[k]]
      BY DEF TablesInv, Summed
    <3> QED BY <3>1, <3>2, <3>3, SummaryCounts DEF TablesInv
  <2>2. TypeOK
    BY <2>1 DEF TypeOK, TablesInv, ScanInv, ScanType, WalkTypes
  <2>3. RowsShape
    BY DEF RowsShape, TablesInv, ScanInv, ScanType
  <2>4. BesideRows
    BY <2>3, FilledOnce DEF BesideRows, TablesInv, Summed, UsersRight
  <2> QED BY <2>2, <2>4
<1> QED BY <1>1, <1>2, <1>3, PTL DEF Spec
=============================================================================
