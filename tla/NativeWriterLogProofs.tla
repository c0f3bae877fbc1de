------------------------ MODULE NativeWriterLogProofs ------------------------
(***************************************************************************)
(* What the records of every call are, for every instance of NativeWriter: *)
(* NativeWriter implements RecordLog, and a call holds an unbroken run of  *)
(* each thread's instructions and, beside it, what belongs to it.          *)
(***************************************************************************)
EXTENDS NativeWriterProofs

-------------------------------------------------------------------------------
(* What division does.                                                      *)

(* A number is its quotient and its rest.                                   *)
LEMMA Divided ==
  ASSUME NEW n \in Nat, NEW d \in Nat \ {0}
  PROVE  /\ n \div d \in Nat /\ n % d \in 0..(d - 1)
         /\ n = (n \div d) * d + (n % d)
OBVIOUS

(* And it has one quotient and one rest.                                    *)
LEMMA DividedOnce ==
  ASSUME NEW d \in Nat \ {0}, NEW q \in Nat, NEW r \in 0..(d - 1)
  PROVE  (q * d + r) \div d = q /\ (q * d + r) % d = r
<1>. DEFINE n == q * d + r
            p == n \div d
            s == n % d
<1>1. n \in Nat
  OBVIOUS
<1>2. p \in Nat /\ s \in 0..(d - 1) /\ n = p * d + s
  BY <1>1, Divided
<1>. HIDE DEF p, s
<1>3. ~(p > q)
  <2>. SUFFICES ASSUME p > q PROVE FALSE
    OBVIOUS
  <2>1. PICK k \in Nat : p = q + 1 + k
    BY <1>2
  <2>2. p * d = q * d + d + k * d /\ k * d \in Nat
    BY <2>1
  <2>. QED  BY <1>2, <2>2
<1>4. ~(p < q)
  <2>. SUFFICES ASSUME p < q PROVE FALSE
    OBVIOUS
  <2>1. PICK k \in Nat : q = p + 1 + k
    BY <1>2
  <2>2. q * d = p * d + d + k * d /\ k * d \in Nat
    BY <2>1, <1>2
  <2>. QED  BY <1>2, <2>2
<1>. QED  BY <1>2, <1>3, <1>4 DEF p, s

(* Two numbers closer than the size of a ring have two places in it.        *)
LEMMA PlacesDiffer ==
  ASSUME NEW d \in Nat \ {0}, NEW i \in Nat, NEW j \in Nat, i < j, j - i < d
  PROVE  i % d # j % d
<1>. DEFINE a == i \div d
            b == j \div d
            r == i % d
<1>1. a \in Nat /\ b \in Nat /\ r \in 0..(d - 1) /\ i = a * d + r /\ j = b * d + (j % d)
  BY Divided
<1>. SUFFICES ASSUME j % d = r PROVE FALSE
  OBVIOUS
<1>. HIDE DEF a, b, r
<1>2. a < b
  <2>. SUFFICES ASSUME b <= a PROVE FALSE
    BY <1>1
  <2>1. PICK k \in Nat : a = b + k
    BY <1>1
  <2>2. a * d = b * d + k * d /\ k * d \in Nat
    BY <2>1, <1>1
  <2>. QED  BY <1>1, <2>2
<1>3. PICK k \in Nat : b = a + 1 + k
  BY <1>1, <1>2
<1>4. b * d = a * d + d + k * d /\ k * d \in Nat
  BY <1>1, <1>3
<1>. QED  BY <1>1, <1>4

(* Within a batch that does not cross the end of the ring, places follow    *)
(* one another.                                                             *)
LEMMA PlacesFollow ==
  ASSUME NEW d \in Nat \ {0}, NEW t \in Nat, NEW k \in Nat, (t % d) + k < d
  PROVE  (t + k) % d = (t % d) + k
<1>1. t \div d \in Nat /\ t % d \in 0..(d - 1) /\ t = (t \div d) * d + (t % d)
  BY Divided
<1>. DEFINE q == t \div d
            r == t % d
<1>. HIDE DEF q, r
<1>2. q \in Nat /\ r + k \in 0..(d - 1) /\ t + k = q * d + (r + k)
  <2>1. q \in Nat /\ r \in 0..(d - 1) /\ t = q * d + r /\ r + k < d
    BY <1>1 DEF q, r
  <2>. QED  BY <2>1
<1>3. (q * d + (r + k)) % d = r + k
  BY <1>2, DividedOnce
<1>. QED  BY <1>2, <1>3 DEF r

-------------------------------------------------------------------------------
(* Records of a file.                                                       *)

\* Record i of a sequence of units, as OnDisk reads it.
Piece(s, i) == SubSeq(s, (i - 1) * RecUnits + 1, i * RecUnits)
RecordAt(s, i) ==
  IF i * RecUnits > Len(s) THEN Torn
  ELSE IF \A k \in 1..RecUnits : Piece(s, i)[k] = [rec |-> Piece(s, i)[1].rec, u |-> k - 1]
       THEN Piece(s, i)[1].rec ELSE Torn

(* OnDisk is that of a file.                                                *)
LEMMA OnDiskIs ==
  ASSUME NEW c, NEW ch, NEW i
  PROVE  OnDisk(c, ch, i) = RecordAt(disk[c][ch], i)
BY DEF OnDisk, RecordAt, Piece

(* The units of a record that is there.                                     *)
LEMMA PieceIs ==
  ASSUME NEW T, NEW s \in Seq(T), NEW i \in Nat \ {0}, i * RecUnits <= Len(s)
  PROVE  /\ (i - 1) * RecUnits \in Nat /\ i * RecUnits = (i - 1) * RecUnits + RecUnits
         /\ \A k \in 1..RecUnits : Piece(s, i)[k] = s[(i - 1) * RecUnits + k]
<1>. USE CallNumbers
<1>1. (i - 1) * RecUnits \in Nat /\ i * RecUnits = (i - 1) * RecUnits + RecUnits
  <2>1. PICK j \in Nat : i = j + 1
    OBVIOUS
  <2>2. i * RecUnits = j * RecUnits + RecUnits /\ j * RecUnits \in Nat /\ i - 1 = j
    BY <2>1
  <2>. QED  BY <2>2
<1>. DEFINE m == (i - 1) * RecUnits
            n == i * RecUnits
<1>2. m \in Nat /\ n = m + RecUnits /\ n <= Len(s) /\ Piece(s, i) = SubSeq(s, m + 1, n)
  BY <1>1 DEF Piece
<1>. HIDE DEF m, n
<1>3. ASSUME NEW k \in 1..RecUnits PROVE Piece(s, i)[k] = s[m + k]
  BY <1>2
<1>. QED  BY <1>1, <1>3 DEF m

(* What is appended to a file leaves the records that are there.            *)
LEMMA RecordKept ==
  ASSUME NEW s \in Seq(Unit), NEW t \in Seq(Unit), NEW i \in Nat \ {0}, i * RecUnits <= Len(s)
  PROVE  RecordAt(s \o t, i) = RecordAt(s, i)
<1>. USE CallNumbers
<1>1. /\ s \o t \in Seq(Unit) /\ Len(s \o t) = Len(s) + Len(t)
      /\ \A k \in 1..Len(s) : (s \o t)[k] = s[k]
      /\ Len(s) \in Nat /\ Len(t) \in Nat
  BY ConcatProperties, LenProperties
<1>2. i * RecUnits <= Len(s \o t) /\ i * RecUnits \in Nat
  BY <1>1
<1>3. \A k \in 1..RecUnits : Piece(s \o t, i)[k] = Piece(s, i)[k]
  <2>. DEFINE m == (i - 1) * RecUnits
              n == i * RecUnits
  <2>1. m \in Nat /\ n = m + RecUnits /\ n <= Len(s)
    BY PieceIs
  <2>2. \A k \in 1..RecUnits : Piece(s \o t, i)[k] = (s \o t)[m + k]
    BY <1>1, <1>2, PieceIs
  <2>3. \A k \in 1..RecUnits : Piece(s, i)[k] = s[m + k]
    BY PieceIs
  <2>. HIDE DEF m, n
  <2>4. \A k \in 1..RecUnits : m + k \in 1..Len(s)
    BY <1>1, <2>1
  <2>. QED  BY <1>1, <2>2, <2>3, <2>4
<1>4. ~(i * RecUnits > Len(s)) /\ ~(i * RecUnits > Len(s \o t))
  BY <1>1, <1>2
<1>5. 1 \in 1..RecUnits
  OBVIOUS
<1>. QED  BY <1>3, <1>4, <1>5 DEF RecordAt

(* A record that was written whole is read.                                 *)
LEMMA RecordRead ==
  ASSUME NEW s \in Seq(Unit), NEW i \in Nat \ {0}, i * RecUnits <= Len(s), NEW r,
         \A k \in 1..RecUnits : s[(i - 1) * RecUnits + k] = [rec |-> r, u |-> k - 1]
  PROVE  RecordAt(s, i) = r
<1>. USE CallNumbers
<1>1. \A k \in 1..RecUnits : Piece(s, i)[k] = [rec |-> r, u |-> k - 1]
  BY PieceIs
<1>2. 1 \in 1..RecUnits /\ i * RecUnits \in Nat /\ Len(s) \in Nat
  BY LenProperties
<1>3. ~(i * RecUnits > Len(s))
  BY <1>2
<1>4. Piece(s, i)[1].rec = r
  <2>1. Piece(s, i)[1] = [rec |-> r, u |-> 1 - 1]
    BY <1>1, <1>2
  <2>. QED  BY <2>1
<1>. QED  BY <1>1, <1>3, <1>4 DEF RecordAt

-------------------------------------------------------------------------------
(* What the log of each call is.                                            *)

\* The call is open.
Logging == call \in Calls /\ agent # "idle" /\ ~Failing

\* Every earlier call was sealed, and so is the last one if there is none open.
Ended == \A c \in Calls : c < call \/ (c = call /\ agent = "idle") => sealed[c] # Unsealed

\* The slot that is stored in holds a record of an instruction, and a batch that
\* is written has its first units in the file.
FilledInv ==
  Logging =>
    /\ \A p \in Threads : pc[p] \in {"drain_simd", "publish"} =>
         buf[<<"trace", head["trace"] % RingRecs>>] \in [insn : Insn, idx : {0}]
    /\ \A ch \in Chan : Draining(ch) => \A k \in 1..job.done :
         disk[call][ch][tail[ch] * RecUnits + k] = BatchUnit(ch, k - 1)

LogInv == RingInv /\ FilesInv /\ Ended /\ FilledInv

\* The life of a call, by what the agent does.
Phase(c) ==
  IF c > call THEN "none"
  ELSE IF c < call \/ agent = "idle" THEN "sealed"
  ELSE IF Failing THEN "failed" ELSE "open"

\* Record i of a channel of the open call.
Entry(ch, i) == IF i <= tail[ch] THEN RecordAt(disk[call][ch], i)
                ELSE buf[<<ch, (i - 1) % Size[ch]>>]

\* The records of a call in each phase of its life.
RecordsOf(c, ch) ==
  IF Phase(c) = "sealed"
  THEN [i \in 1..(Len(disk[c][ch]) \div RecUnits) |-> RecordAt(disk[c][ch], i)]
  ELSE IF Phase(c) = "open" THEN [i \in 1..head[ch] |-> Entry(ch, i)]
  ELSE <<>>

Logs   == [c \in Calls |-> Recorded(c, "trace")]
Totals == [c \in Calls |-> IF sealed[c] = Unsealed THEN 0 ELSE sealed[c].total]

(* The mapped state of a call is its phase.                                 *)
LEMMA PhaseIs ==
  ASSUME TypeOK, FilesInv, Ended, NEW c \in Calls
  PROVE  CallState[c] = Phase(c)
<1>1. /\ call \in 0..MaxCalls /\ c \in 1..MaxCalls /\ MaxCalls \in Nat
      /\ Failing => agent # "idle"
  BY CallNumbers DEF TypeOK, Failing
<1>2. sealed[c] # Unsealed => c <= call /\ (c = call => agent = "idle")
  BY DEF FilesInv, SealInv
<1>3. CASE c > call
  <2>1. sealed[c] = Unsealed /\ c # call
    BY <1>1, <1>2, <1>3
  <2>2. CallState[c] = "none"
    BY <1>3, <2>1 DEF CallState
  <2>. QED  BY <1>3, <2>2 DEF Phase
<1>4. CASE c < call \/ (c = call /\ agent = "idle")
  <2>1. sealed[c] # Unsealed /\ ~(c > call) /\ ~(c = call /\ Failing)
    BY <1>1, <1>4 DEF Ended
  <2>2. CallState[c] = "sealed"
    BY <2>1 DEF CallState
  <2>. QED  BY <1>4, <2>1, <2>2 DEF Phase
<1>5. CASE c = call /\ agent # "idle"
  <2>1. sealed[c] = Unsealed /\ ~(c > call) /\ ~(c < call)
    BY <1>1, <1>2, <1>5
  <2>2. CallState[c] = IF Failing THEN "failed" ELSE "open"
    BY <1>5, <2>1 DEF CallState
  <2>. QED  BY <1>5, <2>1, <2>2 DEF Phase
<1>. QED  BY <1>1, <1>3, <1>4, <1>5

(* And its mapped log is that of its phase.                                 *)
LEMMA LogIs ==
  ASSUME TypeOK, FilesInv, Ended, NEW c \in Calls, NEW ch \in Chan
  PROVE  Recorded(c, ch) = RecordsOf(c, ch)
<1>1. CallState[c] = Phase(c)
  BY PhaseIs
<1>2. CASE Phase(c) = "sealed"
  BY <1>1, <1>2, OnDiskIs DEF Recorded, RecordsOf
<1>3. CASE Phase(c) = "open"
  <2>1. c = call
    BY <1>3, CallNumbers DEF Phase, TypeOK
  <2>. QED  BY <1>1, <1>3, <2>1, OnDiskIs DEF Recorded, RecordsOf, Entry
<1>4. CASE Phase(c) \notin {"sealed", "open"}
  BY <1>1, <1>4 DEF Recorded, RecordsOf
<1>. QED  BY <1>2, <1>3, <1>4

(* The mapped variables in the terms of the writer,                         *)
LEMMA MappedIs ==
  LogInv => /\ CallState = [c \in Calls |-> Phase(c)]
            /\ Logs = [c \in Calls |-> RecordsOf(c, "trace")]
<1>. SUFFICES ASSUME LogInv
              PROVE  /\ CallState = [c \in Calls |-> Phase(c)]
                     /\ Logs = [c \in Calls |-> RecordsOf(c, "trace")]
  OBVIOUS
<1>1. \A c \in Calls : CallState[c] = Phase(c) /\ Recorded(c, "trace") = RecordsOf(c, "trace")
  BY PhaseIs, LogIs, Channels DEF LogInv, RingInv
<1>2. CallState = [c \in Calls |-> CallState[c]]
  BY DEF CallState
<1>3. CallState = [c \in Calls |-> Phase(c)]
  BY <1>1, <1>2
<1>. QED  BY <1>1, <1>3 DEF Logs

(* after a step too.                                                        *)
LEMMA MappedNext ==
  ASSUME LogInv'
  PROVE  /\ CallState' = [c \in Calls |-> Phase(c)']
         /\ Logs' = [c \in Calls |-> RecordsOf(c, "trace")']
<1>1. (/\ CallState = [c \in Calls |-> Phase(c)]
       /\ Logs = [c \in Calls |-> RecordsOf(c, "trace")])'
  BY MappedIs, PTL
<1>. QED  BY <1>1

-------------------------------------------------------------------------------
(* LogInv is inductive *)

(* Only a seal ends a call well.                                            *)
LEMMA OnlySealEnds ==
  ASSUME TypeOK, Next, agent # "idle", agent' = "idle"
  PROVE  Seal
<1> USE Channels
<1>1. ASSUME NEW d \in Chan, OpenFile(d) \/ FlushLock(d) \/ FlushSync(d) PROVE FALSE
  BY <1>1 DEF OpenFile, FlushLock, FlushSync
<1>2. ASSUME NEW d \in Chan, CloseDone(d) \/ CloseError(d) \/ FailClosed(d) PROVE FALSE
  BY <1>2 DEF CloseDone, CloseError, FailClosed
<1>3. ASSUME NEW p \in Threads, OnInsn(p) \/ Follow(p) \/ EndCall(p) PROVE FALSE
  BY <1>3 DEF OnInsn, Lock, Skip, Store, Publish, Drained, Follow, EndCall
<1>4. ASSUME NEW d \in Chan, WriteLoop(d) \/ OpenError(d) \/ SyncError(d) \/ CloseFd(d)
      PROVE  FALSE
  BY <1>4 DEF WriteLoop, Write, WriteError, WriteAstray, OpenError, SyncError, CloseFd
<1>5. CASE BeginCall \/ FailCapture \/ Terminated
  BY <1>5 DEF BeginCall, FailCapture, Terminated, vars
<1>. QED  BY <1>1, <1>2, <1>3, <1>4, <1>5 DEF Next, AgentStep

(* And only BeginCall leaves "idle" or goes to another call.                *)
LEMMA OnlyBegins ==
  ASSUME TypeOK, Next, ~BeginCall
  PROVE  call' = call /\ (agent = "idle" => agent' = "idle")
<1> USE Channels
<1>1. ASSUME NEW d \in Chan, OpenFile(d) \/ FlushLock(d) \/ FlushSync(d)
      PROVE  call' = call /\ agent # "idle"
  BY <1>1 DEF OpenFile, OpenPC, FlushLock, FlushSync, DrainPC
<1>2. ASSUME NEW d \in Chan, CloseDone(d) \/ CloseError(d) \/ FailClosed(d)
      PROVE  call' = call /\ agent # "idle"
  BY <1>2 DEF CloseDone, CloseError, FailClosed, ClosePC, FailPC
<1>3. ASSUME NEW p \in Threads, OnInsn(p) \/ Follow(p) PROVE UNCHANGED <<agent, call>>
  BY <1>3 DEF OnInsn, Lock, Skip, Store, Publish, Drained, Follow
<1>4. ASSUME NEW d \in Chan, WriteLoop(d) \/ OpenError(d) \/ SyncError(d) \/ CloseFd(d)
      PROVE  UNCHANGED <<agent, call>>
  BY <1>4 DEF WriteLoop, Write, WriteError, WriteAstray, OpenError, SyncError, CloseFd
<1>5. ASSUME Seal \/ FailCapture \/ \E p \in Threads : EndCall(p)
      PROVE  call' = call /\ agent # "idle"
  BY <1>5 DEF Seal, FailCapture, EndCall
<1>6. CASE Terminated
  BY <1>6 DEF Terminated, vars
<1>. QED  BY <1>1, <1>2, <1>3, <1>4, <1>5, <1>6 DEF Next, AgentStep

(* A new call begins only when the last one is sealed.                      *)
LEMMA EndedStep ==
  ASSUME LogInv, Next
  PROVE  Ended'
<1>. SUFFICES ASSUME NEW c \in Calls, c < call' \/ (c = call' /\ agent' = "idle")
              PROVE  sealed'[c] # Unsealed
  BY DEF Ended
<1>. USE DEF LogInv
<1>b. TypeOK
  BY DEF RingInv
<1>a. /\ call \in 0..MaxCalls /\ c \in Nat
      /\ sealed \in [Calls -> [total : Nat, simd : Nat, firstPc : Insn \cup {Null}]
                            \cup {Unsealed}]
  BY <1>b, CallNumbers DEF TypeOK
<1>1. CASE sealed[c] # Unsealed
  BY <1>1, SealedUnchanged DEF FilesInv
<1>2. CASE sealed[c] = Unsealed
  <2>1. ~(c < call) /\ ~(c = call /\ agent = "idle")
    BY <1>2 DEF Ended
  <2>2. call' = call
    <3>. SUFFICES ASSUME agent = "idle", call' = call + 1 PROVE FALSE
      BY <1>a, <1>b, AgentPhases
    <3>1. c = call + 1 /\ agent' = "idle"
      BY <1>a, <2>1
    <3>2. BeginCall
      BY <1>b, OnlyBegins
    <3>. QED  BY <3>1, <3>2 DEF BeginCall
  <2>3. c = call /\ agent # "idle" /\ agent' = "idle"
    BY <2>1, <2>2
  <2>4. Seal
    BY <1>b, <2>3, OnlySealEnds
  <2>5. sealed'[c].total = head["trace"] /\ head["trace"] \in Nat
    BY <1>a, <1>b, <2>3, <2>4, Channels DEF Seal, TypeOK
  <2>. QED  BY <2>5 DEF Unsealed
<1>. QED  BY <1>1, <1>2

(* A write to a file of the call appends the next units of the running batch: *)
(* after it, the file holds what was drained and then the first units of     *)
(* the batch, in order.                                                      *)
LEMMA WrittenUnits ==
  ASSUME LogInv, Logging, NEW ch \in Chan, Write(ch)
  PROVE  \E n \in Nat \ {0}, t \in Seq(Unit) :
           LET old == disk[call][ch]
               new == disk'[call][ch]
               base == tail[ch] * RecUnits
           IN  /\ Advance(ch, n) /\ job.done + n <= Batch(ch) * RecUnits
               /\ old \in Seq(Unit) /\ new = old \o t
               /\ Len(old) = base + job.done /\ Len(new) = base + job.done + n
               /\ \A k \in 1..(job.done + n) : new[base + k] = BatchUnit(ch, k - 1)
<1>. USE Channels, CallNumbers
<1>a. /\ call \in Calls /\ ~Failing /\ RingInv /\ FdInv /\ FileInv /\ TypeOK
  BY DEF LogInv, Logging, FilesInv, RingInv
<1>b. /\ disk \in [Calls -> [Chan -> Seq(Unit)]] /\ tail \in [Chan -> Nat]
      /\ job \in [t : Nat, h : Nat, done : Nat]
  BY <1>a DEF TypeOK
<1>1. PICK n \in WriteSizes(ch) :
        /\ disk' = [disk EXCEPT ![fd[ch]][ch] =
                      @ \o [k \in 1..n |-> BatchUnit(ch, job.done + k - 1)]]
        /\ Advance(ch, n)
  BY DEF Write
<1>2. Draining(ch) /\ job.t < job.h /\ fd[ch] = call
  BY <1>a DEF Write, FdInv
<1>3. /\ n \in Nat \ {0} /\ job.done + n <= Batch(ch) * RecUnits
      /\ [k \in 1..n |-> BatchUnit(ch, job.done + k - 1)] \in Seq(Unit)
  BY <1>a, <1>2, WriteType DEF WriteSizes
<1>. DEFINE t == [k \in 1..n |-> BatchUnit(ch, job.done + k - 1)]
            old == disk[call][ch]
            new == disk'[call][ch]
            base == tail[ch] * RecUnits
<1>4. t \in Seq(Unit) /\ Len(t) = n /\ \A k \in 1..n : t[k] = BatchUnit(ch, job.done + k - 1)
  BY <1>3, LenProperties
<1>5. old \in Seq(Unit) /\ base \in Nat /\ job.done \in Nat
  <2>1. old \in Seq(Unit) /\ tail[ch] \in Nat /\ job.done \in Nat
    BY <1>a, <1>b
  <2>. QED  BY <2>1
<1>6. new = old \o t
  BY <1>1, <1>2, <1>a, <1>b
<1>7. Len(old) = base + job.done
  BY <1>a, <1>2 DEF FileInv, OfBatch
<1>8. \A k \in 1..job.done : old[base + k] = BatchUnit(ch, k - 1)
  BY <1>2 DEF LogInv, FilledInv
<1>. HIDE DEF t, old, base
<1>9. /\ Len(old \o t) = base + job.done + n
      /\ \A i \in 1..(base + job.done) : (old \o t)[i] = old[i]
      /\ \A i \in 1..n : (old \o t)[base + job.done + i] = t[i]
  <2>1. Len(old \o t) = Len(old) + Len(t)
    BY <1>4, <1>5, ConcatProperties
  <2>2. \A i \in 1..Len(old) : (old \o t)[i] = old[i]
    BY <1>4, <1>5, ConcatProperties
  <2>3. ASSUME NEW i \in 1..Len(t) PROVE (old \o t)[Len(old) + i] = t[i]
    <3>0. Len(old) \in Nat /\ Len(t) \in Nat
      BY <1>4, <1>5, LenProperties
    <3>1. /\ Len(old) + i \in 1..(Len(old) + Len(t)) /\ ~(Len(old) + i <= Len(old))
          /\ (Len(old) + i) - Len(old) = i
      BY <3>0
    <3>2. (old \o t)[Len(old) + i] = t[(Len(old) + i) - Len(old)]
      BY <1>4, <1>5, <3>1, ConcatProperties
    <3>. QED  BY <3>1, <3>2
  <2>. QED  BY <1>3, <1>4, <1>5, <1>7, <2>1, <2>2, <2>3
<1>10. ASSUME NEW k \in 1..(job.done + n) PROVE (old \o t)[base + k] = BatchUnit(ch, k - 1)
  <2>1. CASE k <= job.done
    <3>1. k \in 1..job.done /\ base + k \in 1..(base + job.done)
      BY <1>3, <1>5, <2>1
    <3>. QED  BY <1>8, <1>9, <3>1
  <2>2. CASE k > job.done
    <3>1. PICK i \in 1..n : k = job.done + i
      <4>1. k - job.done \in 1..n /\ k = job.done + (k - job.done)
        BY <1>3, <1>5, <2>2
      <4>. QED  BY <4>1
    <3>2. base + k = base + job.done + i /\ k - 1 = job.done + i - 1
      BY <1>3, <1>5, <3>1
    <3>3. (old \o t)[base + k] = t[i]
      BY <1>9, <3>2
    <3>. QED  BY <1>4, <3>2, <3>3
  <2>3. k <= job.done \/ k > job.done
    BY <1>3, <1>5
  <2>. QED  BY <2>1, <2>2, <2>3
<1>11. /\ Advance(ch, n) /\ job.done + n <= Batch(ch) * RecUnits
       /\ old \in Seq(Unit) /\ new = old \o t
       /\ Len(old) = base + job.done /\ Len(new) = base + job.done + n
       /\ \A k \in 1..(job.done + n) : new[base + k] = BatchUnit(ch, k - 1)
  <2>1. Advance(ch, n) /\ job.done + n <= Batch(ch) * RecUnits
    BY <1>1, <1>3
  <2>2. old \in Seq(Unit) /\ new = old \o t /\ Len(old) = base + job.done
    BY <1>5, <1>6, <1>7
  <2>3. Len(new) = base + job.done + n
    BY <1>6, <1>9
  <2>4. \A k \in 1..(job.done + n) : new[base + k] = BatchUnit(ch, k - 1)
    BY <1>6, <1>10
  <2>. QED  BY <2>1, <2>2, <2>3, <2>4
<1>. QED  BY <1>3, <1>4, <1>11 DEF old, base

\* A step that no log can tell from stuttering: the phases, the rings and the files
\* stay.
Plain ==
  /\ UNCHANGED <<call, sealed, buf>>
  /\ agent' = "idle" <=> agent = "idle"
  /\ Failing' <=> Failing
  /\ UNCHANGED <<head, tail, disk>>
  /\ \A p \in Threads : pc'[p] \in {"drain_simd", "publish"} => pc[p] \in {"drain_simd", "publish"}
  /\ \A ch \in Chan : Draining(ch)' => job'.done = 0 \/ (Draining(ch) /\ job' = job)

(* The steps of on_insn and of the loops that are plain,                    *)
LEMMA PlainOnInsn ==
  ASSUME LogInv, NEW p \in Threads, Lock(p) \/ Skip(p) \/ Drained(p)
  PROVE  Plain
<1>. USE Channels
<1>a. pc \in [Threads -> ThreadPC]
  BY DEF LogInv, RingInv, TypeOK
<1>1. /\ UNCHANGED <<call, sealed, agent, buf, head, tail, disk, job>>
      /\ \E x \in {"locked", "run", "publish"} : pc' = [pc EXCEPT ![p] = x]
      /\ pc'[p] = "publish" => pc[p] = "drain_simd"
  BY <1>a DEF Lock, Skip, Drained, ring, files
<1>2. \A q \in Threads : pc'[q] \in {"drain_simd", "publish"} => pc[q] \in {"drain_simd", "publish"}
  BY <1>1, <1>a
<1>3. \A ch \in Chan : Draining(ch)' => Draining(ch)
  BY <1>1, <1>a DEF Draining
<1>. QED  BY <1>1, <1>2, <1>3 DEF Plain, Failing

(* of a write that fails,                                                   *)
LEMMA PlainError ==
  ASSUME NEW ch \in Chan, WriteError(ch)
  PROVE  Plain
BY DEF WriteError, ring, threads, Plain, Failing, Draining

(* and of the agent inside a call.                                          *)
LEMMA PlainAgentStep ==
  ASSUME LogInv, AgentStep, ~BeginCall, ~Seal, ~FailCapture, \A ch \in Chan : ~CloseError(ch)
  PROVE  Plain
<1>. USE Channels
<1>1. ASSUME NEW p \in Threads, Follow(p) \/ EndCall(p) PROVE Plain
  BY <1>1 DEF Follow, EndCall, Plain, Failing, Draining, ring, files
<1>2. ASSUME NEW ch \in Chan, OpenFile(ch) PROVE Plain
  BY <1>2 DEF OpenFile, OpenPC, Plain, Failing, Draining, ring, threads
<1>3. ASSUME NEW ch \in Chan, OpenError(ch) \/ SyncError(ch) PROVE Plain
  BY <1>3 DEF OpenError, SyncError, Plain, Failing, Draining, ring, threads
<1>4. ASSUME NEW ch \in Chan, FlushLock(ch) PROVE Plain
  <2>1. /\ UNCHANGED <<call, sealed, buf, head, tail, disk, pc>> /\ job'.done = 0
        /\ agent \in {"lock_trace", "lock_simd"} /\ agent' \in {"drain_trace", "drain_simd"}
    BY <1>4 DEF FlushLock, ring, files, threads
  <2>. QED  BY <2>1 DEF Plain, Failing
<1>5. ASSUME NEW ch \in Chan, FlushSync(ch) PROVE Plain
  <2>1. /\ UNCHANGED <<call, sealed, buf, head, tail, disk, pc, job>>
        /\ agent \in {"drain_trace", "drain_simd"} /\ agent' \in {"lock_simd", "close_trace"}
    BY <1>5 DEF FlushSync, ring, threads
  <2>2. \A d \in Chan : Draining(d)' => Draining(d)
    BY <2>1 DEF Draining
  <2>. QED  BY <2>1, <2>2 DEF Plain, Failing
<1>6. ASSUME NEW ch \in Chan, CloseFd(ch) PROVE Plain
  BY <1>6 DEF CloseFd, Plain, Failing, Draining, ring, threads
<1>7. ASSUME NEW ch \in Chan, CloseDone(ch) \/ FailClosed(ch) PROVE Plain
  <2>1. /\ UNCHANGED <<call, sealed, buf, head, tail, disk, pc, job>>
        /\ \/ agent \in {"close_trace", "close_simd"} /\ agent' \in {"close_simd", "seal"}
           \/ agent \in {"fail_trace", "fail_simd"} /\ agent' \in {"fail_simd", "failed"}
    BY <1>7 DEF CloseDone, FailClosed, ClosePC, FailPC, ring, threads
  <2>2. \A d \in Chan : Draining(d)' => Draining(d)
    BY <2>1 DEF Draining
  <2>. QED  BY <2>1, <2>2 DEF Plain, Failing
<1>. QED  BY <1>1, <1>2, <1>3, <1>4, <1>5, <1>6, <1>7 DEF AgentStep

(* Every step is plain or one of those that a log can tell.                 *)
LEMMA KindsOfStep ==
  ASSUME LogInv, Next
  PROVE  \/ Plain \/ BeginCall \/ Seal \/ FailCapture \/ \E ch \in Chan : CloseError(ch)
         \/ \E p \in Threads : Store(p) \/ Publish(p)
         \/ \E ch \in Chan : Write(ch) \/ WriteAstray(ch)
<1>1. ASSUME NEW p \in Threads, OnInsn(p) PROVE Plain \/ Store(p) \/ Publish(p)
  BY <1>1, PlainOnInsn DEF OnInsn
<1>2. ASSUME NEW ch \in Chan, WriteLoop(ch)
      PROVE  Plain \/ Write(ch) \/ WriteAstray(ch)
  BY <1>2, PlainError DEF WriteLoop
<1>3. CASE AgentStep
  BY <1>3, PlainAgentStep
<1>4. CASE Terminated
  BY <1>4 DEF Terminated, vars, ring, files, threads, Plain, Failing, Draining
<1>. QED  BY <1>1, <1>2, <1>3, <1>4 DEF Next

(* What a thread stores goes to the next slot of the trace ring and, if the  *)
(* instruction is sampled, to the next slot of the SIMD ring; the records    *)
(* that wait in the rings stay.                                              *)
LEMMA StoredSlot ==
  ASSUME LogInv, NEW p \in Threads, Store(p)
  PROVE  /\ UNCHANGED <<call, sealed, agent, tail, disk>> /\ head'["trace"] = head["trace"]
         /\ [by |-> p, n |-> insns[p]] \in Insn
         /\ buf'[<<"trace", head["trace"] % RingRecs>>]
              = [insn |-> [by |-> p, n |-> insns[p]], idx |-> 0]
         /\ Sampled => /\ head'["simd"] = head["simd"] + 1
                       /\ buf'[<<"simd", head["simd"] % SimdRingRecs>>]
                            = [insn |-> [by |-> p, n |-> insns[p]], idx |-> head["trace"]]
         /\ ~Sampled => head'["simd"] = head["simd"]
         /\ \A ch \in Chan : \A i \in tail[ch]..(head[ch] - 1) :
              buf'[<<ch, i % Size[ch]>>] = buf[<<ch, i % Size[ch]>>]
         /\ ~Draining("trace")' /\ (Draining("simd")' => job'.done = 0)
<1>. USE Channels
<1>a. /\ pc \in [Threads -> ThreadPC] /\ insns \in [Threads -> 0..MaxInsns]
      /\ head \in [Chan -> Nat] /\ tail \in [Chan -> Nat]
      /\ MutexInv /\ CountInv /\ Agent \notin Threads
  BY WriterAssumption DEF LogInv, RingInv, TypeOK
<1>. DEFINE insn == [by |-> p, n |-> insns[p]]
            slot == <<"trace", head["trace"] % RingRecs>>
            simdSlot == <<"simd", head["simd"] % SimdRingRecs>>
<1>1. /\ UNCHANGED <<call, sealed, agent, tail, disk>> /\ head'["trace"] = head["trace"]
      /\ head'["simd"] = IF Sampled THEN head["simd"] + 1 ELSE head["simd"]
      /\ \E x \in {"drain_simd", "publish"} : pc' = [pc EXCEPT ![p] = x]
      /\ pc[p] = "locked"
      /\ pc'[p] = "drain_simd" => job'.done = 0
  BY <1>a DEF Store, files
<1>2. \A ch \in Chan : ~Draining(ch)
  BY <1>1, <1>a DEF Draining, MutexInv
<1>3. ~Draining("trace")' /\ (Draining("simd")' => job'.done = 0)
  BY <1>1, <1>2, <1>a DEF Draining
<1>4. \A ch \in Chan, k \in Nat : <<ch, k % Size[ch]>> \in Slots
  <2>1. \A ch \in Chan, k \in Nat : k % Size[ch] \in 0..(Size[ch] - 1)
    OBVIOUS
  <2>. QED  BY <2>1 DEF Slots
<1>5. insn \in Insn
  BY <1>a DEF Insn
<1>6. slot \in Slots /\ simdSlot \in Slots /\ slot # simdSlot
  BY <1>4, <1>a
<1>7. /\ buf'[slot] = [insn |-> insn, idx |-> 0]
      /\ Sampled => buf'[simdSlot] = [insn |-> insn, idx |-> head["trace"]]
      /\ \A x \in Slots : x # slot /\ x # simdSlot => buf'[x] = buf[x]
  <2>1. buf' = [x \in Slots |->
               IF x = slot THEN [insn |-> insn, idx |-> 0]
               ELSE IF x = simdSlot /\ Sampled THEN [insn |-> insn, idx |-> head["trace"]]
               ELSE buf[x]]
    BY DEF Store
  <2>. HIDE DEF slot, simdSlot, insn
  <2>. QED  BY <1>6, <2>1
<1>8. ASSUME NEW ch \in Chan, NEW i \in tail[ch]..(head[ch] - 1)
      PROVE  buf'[<<ch, i % Size[ch]>>] = buf[<<ch, i % Size[ch]>>]
  <2>1. /\ i \in Nat /\ head[ch] \in Nat /\ i < head[ch] /\ Size[ch] \in Nat \ {0}
        /\ head[ch] - i < Size[ch]
    <3>1. head[ch] - tail[ch] < Size[ch] /\ tail[ch] \in Nat /\ head[ch] \in Nat
      BY <1>2, <1>a DEF CountInv
    <3>. QED  BY <3>1
  <2>2. i % Size[ch] # head[ch] % Size[ch]
    BY <2>1, PlacesDiffer
  <2>3. <<ch, i % Size[ch]>> \in Slots
    BY <1>4, <2>1
  <2>4. <<ch, i % Size[ch]>> # slot /\ <<ch, i % Size[ch]>> # simdSlot
    BY <2>2
  <2>. HIDE DEF slot, simdSlot
  <2>. QED  BY <1>7, <2>3, <2>4
<1>. QED  BY <1>1, <1>3, <1>5, <1>7, <1>8

(* What a drain has written of its batch, and what is stored, after a step.  *)
LEMMA FilledStep ==
  ASSUME LogInv, Next
  PROVE  FilledInv'
<1>. USE Channels
<1>. DEFINE Kept == \A p \in Threads : pc'[p] \in {"drain_simd", "publish"} =>
                      buf'[<<"trace", head'["trace"] % RingRecs>>] \in [insn : Insn, idx : {0}]
            Drains(ch) == Draining(ch)' => \A k \in 1..job'.done :
                            disk'[call'][ch][tail'[ch] * RecUnits + k] = BatchUnit(ch, k - 1)'
<1>. SUFFICES ASSUME Logging' PROVE Kept /\ \A ch \in Chan : Drains(ch)
  BY DEF FilledInv
<1>a. /\ pc \in [Threads -> ThreadPC] /\ ~Failing' /\ agent' # "idle"
      /\ MutexInv /\ TypeOK /\ QuietInv /\ JobInv /\ Agent \notin Threads
  BY WriterAssumption DEF LogInv, RingInv, TypeOK, Logging
<1>1. ~Failing
  BY <1>a, AgentPhases
<1>2. CASE Plain
  <2>1. Logging
    BY <1>2, <1>1 DEF Plain, Logging
  <2>2. Kept
    BY <2>1, <1>2 DEF Plain, LogInv, FilledInv
  <2>3. ASSUME NEW ch \in Chan, Draining(ch)', NEW k \in 1..job'.done
        PROVE  disk'[call'][ch][tail'[ch] * RecUnits + k] = BatchUnit(ch, k - 1)'
    <3>1. CASE job'.done = 0
      BY <2>3, <3>1
    <3>2. CASE Draining(ch) /\ job' = job
      <4>1. disk[call][ch][tail[ch] * RecUnits + k] = BatchUnit(ch, k - 1)
        BY <2>1, <2>3, <3>2 DEF LogInv, FilledInv
      <4>2. BatchUnit(ch, k - 1)' = BatchUnit(ch, k - 1)
        BY <3>2, <1>2 DEF BatchUnit, Plain
      <4>. QED  BY <4>1, <4>2, <1>2 DEF Plain
    <3>. QED  BY <1>2, <2>3, <3>1, <3>2 DEF Plain
  <2>. QED  BY <2>2, <2>3
<1>3. CASE BeginCall
  <2>1. /\ \A p \in Threads : pc'[p] \in {"run", "locked"}
        /\ agent' = "open_trace"
    BY <1>3, <1>a DEF BeginCall, threads, QuietInv, Quiet
  <2>2. \A ch \in Chan : ~Draining(ch)'
    BY <2>1 DEF Draining
  <2>. QED  BY <2>1, <2>2
<1>4. CASE Seal \/ FailCapture \/ \E ch \in Chan : CloseError(ch)
  BY <1>4, <1>a DEF Seal, FailCapture, CloseError, Failing
<1>5. ASSUME NEW p \in Threads, Store(p) PROVE Kept /\ \A ch \in Chan : Drains(ch)
  <2>1. \E r \in Insn : buf'[<<"trace", head'["trace"] % RingRecs>>] = [insn |-> r, idx |-> 0]
    BY <1>5, StoredSlot
  <2>2. \A ch \in Chan : Draining(ch)' => job'.done = 0
    BY <1>5, StoredSlot
  <2>3. \A ch \in Chan : Draining(ch)' => 1..job'.done = {}
    BY <2>2
  <2>. QED  BY <2>1, <2>3
<1>6. ASSUME NEW p \in Threads, Publish(p) PROVE Kept /\ \A ch \in Chan : Drains(ch)
  <2>1. pc[p] = "publish" /\ agent' = agent
    BY <1>6 DEF Publish
  <2>2. mutex = p /\ \A q \in Threads : q # p => pc[q] = "run"
    BY <2>1, <1>a DEF MutexInv
  <2>3. pc' = [pc EXCEPT ![p] = IF TraceFull THEN "drain_trace" ELSE "run"]
    BY <1>6 DEF Publish
  <2>4. \A q \in Threads : pc'[q] \notin {"drain_simd", "publish"}
    BY <2>2, <2>3, <1>a
  <2>5. ASSUME NEW ch \in Chan, Draining(ch)' PROVE job'.done = 0
    <3>1. ~Draining(ch)
      BY <2>1, <2>2, <1>a DEF Draining, MutexInv
    <3>2. TraceFull
      BY <2>1, <2>3, <2>5, <3>1, <1>a DEF Draining
    <3>. QED  BY <3>2, <1>6 DEF Publish
  <2>6. \A ch \in Chan : Draining(ch)' => 1..job'.done = {}
    BY <2>5
  <2>. QED  BY <2>4, <2>6
<1>7. ASSUME NEW ch \in Chan, Write(ch) PROVE Kept /\ \A d \in Chan : Drains(d)
  <2>1. /\ UNCHANGED <<call, agent, buf, head, pc>> /\ Draining(ch) /\ Logging
    BY <1>7, <1>1 DEF Write, threads, Logging
  <2>2. Kept
    BY <2>1 DEF LogInv, FilledInv
  <2>3. \A d \in Chan : Draining(d)' => d = ch
    BY <2>1, <1>a, OneDrain DEF Draining
  <2>4. ASSUME NEW k \in 1..job'.done
        PROVE  disk'[call'][ch][tail'[ch] * RecUnits + k] = BatchUnit(ch, k - 1)'
    <3>1. PICK n \in Nat \ {0} :
            /\ Advance(ch, n)
            /\ \A i \in 1..(job.done + n) :
                 disk'[call][ch][tail[ch] * RecUnits + i] = BatchUnit(ch, i - 1)
      BY <1>7, <2>1, WrittenUnits
    <3>2. job \in [t : Nat, h : Nat, done : Nat]
      BY <1>a DEF TypeOK
    <3>3. CASE job.done + n = Batch(ch) * RecUnits
      <4>1. job'.done = 0
        BY <3>1, <3>2, <3>3 DEF Advance
      <4>. QED  BY <4>1
    <3>4. CASE job.done + n # Batch(ch) * RecUnits
      <4>1. tail' = tail /\ job'.done = job.done + n /\ job'.t = job.t
        BY <3>1, <3>2, <3>4 DEF Advance
      <4>2. BatchUnit(ch, k - 1)' = BatchUnit(ch, k - 1)
        BY <2>1, <4>1 DEF BatchUnit
      <4>. QED  BY <2>1, <3>1, <4>1, <4>2
    <3>. QED  BY <3>3, <3>4
  <2>. QED  BY <2>2, <2>3, <2>4
<1>8. \A ch \in Chan : ~WriteAstray(ch)
  BY <1>1, NeverAstray DEF LogInv, FilesInv
<1>. QED  BY <1>2, <1>3, <1>4, <1>5, <1>6, <1>7, <1>8, KindsOfStep

-------------------------------------------------------------------------------
(* Every step is one of RecordLog *)

\* The specification that is implemented, in the writer's variables.
logVars == <<CallState, Logs, Totals>>

(* What the log and the count of a call become when its phase stays.        *)
LEMMA SameTotals ==
  ASSUME sealed' = sealed
  PROVE  Totals' = Totals
BY DEF Totals

(* The first step of a call opens its log (agent.ts beginCaptureSession).    *)
LEMMA BeginOpens ==
  ASSUME LogInv, LogInv', Next, BeginCall
  PROVE  call + 1 \in Calls /\ Log!Open(call + 1)
<1>. USE CallNumbers, Channels
<1>a. call \in 0..MaxCalls
  BY DEF LogInv, RingInv, TypeOK
<1>1. /\ agent = "idle" /\ agent' = "open_trace" /\ call' = call + 1 /\ call + 1 \in Calls
      /\ head'["trace"] = 0 /\ disk' = disk /\ sealed' = sealed
  BY <1>a DEF BeginCall, NextCall, MoreCalls, files
<1>2. ASSUME NEW c \in Calls, c # call + 1
      PROVE  /\ Phase(c)' = Phase(c)
             /\ RecordsOf(c, "trace")' = RecordsOf(c, "trace")
  <2>1. CASE c > call + 1
    <3>1. Phase(c) = "none" /\ Phase(c)' = "none"
      BY <1>a, <1>1, <2>1 DEF Phase
    <3>. QED  BY <3>1 DEF RecordsOf
  <2>2. CASE c <= call
    <3>1. Phase(c) = "sealed" /\ Phase(c)' = "sealed"
      BY <1>a, <1>1, <2>2 DEF Phase
    <3>. QED  BY <1>1, <3>1 DEF RecordsOf
  <2>. QED  BY <1>a, <1>2, <2>1, <2>2
<1>3. Phase(call + 1) = "none" /\ RecordsOf(call + 1, "trace") = <<>>
  <2>1. Phase(call + 1) = "none"
    BY <1>a DEF Phase
  <2>. QED  BY <2>1 DEF RecordsOf
<1>4. ASSUME NEW c \in Calls, c = call + 1 PROVE Phase(c)' = "open" /\ RecordsOf(c, "trace")' = <<>>
  <2>1. Phase(c)' = "open"
    BY <1>a, <1>1, <1>4 DEF Phase, Failing
  <2>2. RecordsOf(c, "trace")' = [i \in 1..0 |-> Entry("trace", i)']
    BY <1>1, <2>1 DEF RecordsOf
  <2>. QED  BY <2>1, <2>2
<1>5. \A c \in Calls : Phase(c) \notin {"open", "failed"}
  BY <1>a, <1>1 DEF Phase
<1>6. /\ CallState = [c \in Calls |-> Phase(c)] /\ CallState' = [c \in Calls |-> Phase(c)']
      /\ Logs = [c \in Calls |-> RecordsOf(c, "trace")]
      /\ Logs' = [c \in Calls |-> RecordsOf(c, "trace")']
  BY MappedIs, MappedNext
<1>7. CallState' = [CallState EXCEPT ![call + 1] = "open"]
  BY <1>1, <1>2, <1>4, <1>6
<1>8. Logs' = Logs
  BY <1>1, <1>2, <1>3, <1>4, <1>6
<1>9. /\ CallState[call + 1] = "none"
      /\ \A d \in Calls : CallState[d] \notin {"open", "failed"}
  BY <1>1, <1>3, <1>5, <1>6
<1>. QED  BY <1>1, <1>7, <1>8, <1>9, SameTotals DEF Log!Open, Logs, Totals

(* The phase of the open call, and of the others.                           *)
LEMMA OpenPhase ==
  ASSUME TypeOK, NEW c \in Calls
  PROVE  /\ c < call => Phase(c) = "sealed"
         /\ c > call => Phase(c) = "none"
         /\ c = call /\ agent = "idle" => Phase(c) = "sealed"
         /\ c = call /\ Failing => Phase(c) = "failed"
         /\ c = call /\ Logging => Phase(c) = "open"
<1>1. call \in Nat /\ c \in Nat
  BY CallNumbers DEF TypeOK
<1>. QED  BY <1>1 DEF Phase, Logging, Failing

(* Sealing freezes the log of the open call and publishes its length         *)
(* (manifest.ts sealManifest).                                               *)
LEMMA SealSeals ==
  ASSUME LogInv, LogInv', Next, Seal
  PROVE  call \in Calls /\ Log!Seal(call)
<1>. USE CallNumbers, Channels
<1>b. TypeOK /\ FdInv /\ FileInv /\ SyncInv /\ QuietInv
  BY DEF LogInv, RingInv, FilesInv
<1>a. /\ call \in Nat
      /\ head \in [Chan -> Nat] /\ tail \in [Chan -> Nat]
      /\ sealed \in [Calls -> [total : Nat, simd : Nat, firstPc : Insn \cup {Null}]
                            \cup {Unsealed}]
  BY <1>b DEF TypeOK
<1>1. /\ agent = "seal" /\ agent' = "idle" /\ UNCHANGED <<call, disk, head, tail>>
      /\ \E s, f : sealed' = [sealed EXCEPT ![call] =
                               [total |-> head["trace"], simd |-> s, firstPc |-> f]]
  BY DEF Seal, ring, files
<1>2. call \in Calls /\ ~Failing /\ Logging
  BY <1>1, <1>b DEF FdInv, Failing, Logging
<1>3. tail["trace"] = head["trace"] /\ ~Draining("trace")
  BY <1>1, <1>b DEF SyncInv, SyncedPC, QuietInv, Quiet, Draining
<1>4. Len(disk[call]["trace"]) = head["trace"] * RecUnits + 0
  BY <1>2, <1>3, <1>a, <1>b DEF FileInv, OfBatch
<1>5. Len(disk[call]["trace"]) \div RecUnits = head["trace"]
  <2>1. head["trace"] \in Nat /\ 0 \in 0..(RecUnits - 1)
    BY <1>a
  <2>2. (head["trace"] * RecUnits + 0) \div RecUnits = head["trace"]
    BY <2>1, DividedOnce
  <2>. QED  BY <1>4, <2>2
<1>6. ASSUME NEW c \in Calls, c # call
      PROVE  /\ Phase(c)' = Phase(c)
             /\ RecordsOf(c, "trace")' = RecordsOf(c, "trace")
  <2>1. CASE c > call
    <3>1. Phase(c) = "none" /\ Phase(c)' = "none"
      BY <1>a, <1>1, <2>1 DEF Phase
    <3>. QED  BY <3>1 DEF RecordsOf
  <2>2. CASE c < call
    <3>1. Phase(c) = "sealed" /\ Phase(c)' = "sealed"
      BY <1>a, <1>1, <2>2 DEF Phase
    <3>. QED  BY <1>1, <3>1 DEF RecordsOf
  <2>. QED  BY <1>a, <1>6, <2>1, <2>2
<1>7. /\ Phase(call) = "open"
      /\ RecordsOf(call, "trace") = [i \in 1..head["trace"] |-> Entry("trace", i)]
  <2>1. Phase(call) = "open"
    BY <1>2, <1>b, OpenPhase
  <2>. QED  BY <2>1 DEF RecordsOf
<1>8. ASSUME NEW c \in Calls, c = call
      PROVE  /\ Phase(c)' = "sealed"
             /\ RecordsOf(c, "trace")' = RecordsOf(c, "trace")
  <2>1. Phase(c)' = "sealed"
    BY <1>a, <1>1, <1>8 DEF Phase
  <2>2. RecordsOf(c, "trace")' = [i \in 1..head["trace"] |-> RecordAt(disk[call]["trace"], i)]
    BY <1>1, <1>5, <1>8, <2>1 DEF RecordsOf
  <2>3. \A i \in 1..head["trace"] : Entry("trace", i) = RecordAt(disk[call]["trace"], i)
    BY <1>3, <1>a DEF Entry
  <2>. QED  BY <1>7, <1>8, <2>1, <2>2, <2>3
<1>9. /\ CallState = [c \in Calls |-> Phase(c)] /\ CallState' = [c \in Calls |-> Phase(c)']
      /\ Logs = [c \in Calls |-> RecordsOf(c, "trace")]
      /\ Logs' = [c \in Calls |-> RecordsOf(c, "trace")']
  BY MappedIs, MappedNext
<1>10. CallState' = [CallState EXCEPT ![call] = "sealed"] /\ CallState[call] = "open"
  BY <1>2, <1>6, <1>7, <1>8, <1>9
<1>11. Logs' = Logs /\ Logs[call] = [i \in 1..head["trace"] |-> Entry("trace", i)]
  BY <1>2, <1>6, <1>7, <1>8, <1>9
<1>12. Len(Logs[call]) = head["trace"]
  BY <1>11, <1>a, LenProperties
<1>13. Totals' = [Totals EXCEPT ![call] = Len(Logs[call])]
  <2>1. sealed'[call].total = head["trace"] /\ sealed'[call] # Unsealed
    <3>1. sealed'[call].total = head["trace"] /\ head["trace"] \in Nat
      BY <1>1, <1>2, <1>a
    <3>. QED  BY <3>1 DEF Unsealed
  <2>2. \A c \in Calls : c # call => sealed'[c] = sealed[c]
    BY <1>1, <1>a
  <2>. QED  BY <1>2, <1>12, <2>1, <2>2 DEF Totals
<1>. QED  BY <1>2, <1>10, <1>11, <1>13 DEF Log!Seal, Logs, Totals

(* A failure withdraws the log of the open call (agent.ts failCapture).      *)
LEMMA FailureFails ==
  ASSUME LogInv, LogInv', Next, FailCapture \/ \E ch \in Chan : CloseError(ch)
  PROVE  call \in Calls /\ Log!Fail(call)
<1>. USE CallNumbers, Channels
<1>b. TypeOK /\ FdInv
  BY DEF LogInv, RingInv, FilesInv
<1>a. call \in Nat
  BY <1>b DEF TypeOK
<1>1. /\ agent \in {"capturing", "seal", "close_trace", "close_simd"}
      /\ agent' = "fail_trace" /\ UNCHANGED <<call, disk, sealed>>
  BY DEF FailCapture, CloseError, ClosePC, files
<1>2. call \in Calls /\ Logging /\ Failing'
  BY <1>1, <1>b DEF FdInv, Failing, Logging
<1>3. ASSUME NEW c \in Calls, c # call
      PROVE  /\ Phase(c)' = Phase(c)
             /\ RecordsOf(c, "trace")' = RecordsOf(c, "trace")
  <2>1. CASE c > call
    <3>1. Phase(c) = "none" /\ Phase(c)' = "none"
      BY <1>a, <1>1, <2>1 DEF Phase
    <3>. QED  BY <3>1 DEF RecordsOf
  <2>2. CASE c < call
    <3>1. Phase(c) = "sealed" /\ Phase(c)' = "sealed"
      BY <1>a, <1>1, <2>2 DEF Phase
    <3>. QED  BY <1>1, <3>1 DEF RecordsOf
  <2>. QED  BY <1>a, <1>3, <2>1, <2>2
<1>4. Phase(call) = "open"
  BY <1>2, <1>b, OpenPhase
<1>5. ASSUME NEW c \in Calls, c = call PROVE Phase(c)' = "failed" /\ RecordsOf(c, "trace")' = <<>>
  <2>1. Phase(c)' = "failed"
    BY <1>a, <1>1, <1>2, <1>5 DEF Phase
  <2>. QED  BY <2>1 DEF RecordsOf
<1>6. /\ CallState = [c \in Calls |-> Phase(c)] /\ CallState' = [c \in Calls |-> Phase(c)']
      /\ Logs = [c \in Calls |-> RecordsOf(c, "trace")]
      /\ Logs' = [c \in Calls |-> RecordsOf(c, "trace")']
  BY MappedIs, MappedNext
<1>7. CallState' = [CallState EXCEPT ![call] = "failed"] /\ CallState[call] = "open"
  BY <1>2, <1>3, <1>4, <1>5, <1>6
<1>8. Logs' = [Logs EXCEPT ![call] = <<>>]
  BY <1>2, <1>3, <1>5, <1>6
<1>. QED  BY <1>1, <1>2, <1>7, <1>8, SameTotals DEF Log!Fail, Logs, Totals

(* A failed session stays as it is, whatever threads and drains still do.    *)
LEMMA FailedStays ==
  ASSUME LogInv, LogInv', Next, Failing
  PROVE  UNCHANGED logVars
<1>. USE CallNumbers
<1>b. TypeOK /\ RingInv /\ FdInv
  BY DEF LogInv, RingInv, FilesInv
<1>a. call \in Nat
  BY <1>b DEF TypeOK
<1>1. call' = call /\ Failing' /\ agent # "idle" /\ agent' # "idle"
  BY <1>b, AgentPhases DEF Failing
<1>2. sealed' = sealed
  BY <1>b, ManifestsUnchanged DEF Seal, Failing
<1>3. ASSUME NEW c \in Calls
      PROVE  /\ Phase(c)' = Phase(c)
             /\ RecordsOf(c, "trace")' = RecordsOf(c, "trace")
  <2>1. CASE c >= call
    <3>1. Phase(c)' = Phase(c) /\ Phase(c) \in {"none", "failed"}
      BY <1>a, <1>1, <2>1 DEF Phase
    <3>. QED  BY <3>1 DEF RecordsOf
  <2>2. CASE c < call
    <3>1. Phase(c) = "sealed" /\ Phase(c)' = "sealed"
      BY <1>a, <1>1, <2>2 DEF Phase
    <3>2. disk'[c] = disk[c]
      <4>1. c # call
        BY <1>a, <2>2
      <4>. QED  BY <4>1, <1>b, OtherFilesUnchanged
    <3>. QED  BY <3>1, <3>2 DEF RecordsOf
  <2>. QED  BY <1>a, <2>1, <2>2
<1>4. /\ CallState = [c \in Calls |-> Phase(c)] /\ CallState' = [c \in Calls |-> Phase(c)']
      /\ Logs = [c \in Calls |-> RecordsOf(c, "trace")]
      /\ Logs' = [c \in Calls |-> RecordsOf(c, "trace")']
  BY MappedIs, MappedNext
<1>5. CallState' = CallState /\ Logs' = Logs
  BY <1>3, <1>4
<1>. QED  BY <1>2, <1>5, SameTotals DEF logVars

(* Between two calls no log changes.                                        *)
LEMMA IdleStays ==
  ASSUME LogInv, LogInv', Next, Plain, agent = "idle"
  PROVE  UNCHANGED logVars
<1>. USE CallNumbers
<1>b. TypeOK /\ RingInv /\ FdInv
  BY DEF LogInv, RingInv, FilesInv
<1>a. call \in Nat
  BY <1>b DEF TypeOK
<1>1. UNCHANGED <<call, sealed>> /\ agent' = "idle"
  BY DEF Plain
<1>2. ASSUME NEW c \in Calls
      PROVE  /\ Phase(c)' = Phase(c)
             /\ RecordsOf(c, "trace")' = RecordsOf(c, "trace")
  <2>1. Phase(c)' = Phase(c) /\ Phase(c) \in {"none", "sealed"}
    BY <1>a, <1>1 DEF Phase
  <2>2. disk'[c] = disk[c]
    BY <1>b, OtherFilesUnchanged
  <2>. QED  BY <2>1, <2>2 DEF RecordsOf
<1>4. /\ CallState = [c \in Calls |-> Phase(c)] /\ CallState' = [c \in Calls |-> Phase(c)']
      /\ Logs = [c \in Calls |-> RecordsOf(c, "trace")]
      /\ Logs' = [c \in Calls |-> RecordsOf(c, "trace")']
  BY MappedIs, MappedNext
<1>5. CallState' = CallState /\ Logs' = Logs
  BY <1>2, <1>4
<1>. QED  BY <1>1, <1>5, SameTotals DEF logVars

(* Nor does the log of an open call, whose records are those it had.         *)
LEMMA OpenStays ==
  ASSUME LogInv, LogInv', Next, Logging, Logging', UNCHANGED <<call, sealed>>,
         head'["trace"] = head["trace"],
         \A i \in 1..head["trace"] : Entry("trace", i)' = Entry("trace", i)
  PROVE  UNCHANGED logVars
<1>. USE CallNumbers
<1>b. TypeOK /\ RingInv /\ FdInv
  BY DEF LogInv, RingInv, FilesInv
<1>a. call \in Nat
  BY <1>b DEF TypeOK
<1>1. ASSUME NEW c \in Calls
      PROVE  /\ Phase(c)' = Phase(c)
             /\ RecordsOf(c, "trace")' = RecordsOf(c, "trace")
  <2>1. CASE c > call
    <3>1. Phase(c) = "none" /\ Phase(c)' = "none"
      BY <1>a, <2>1 DEF Phase
    <3>. QED  BY <3>1 DEF RecordsOf
  <2>2. CASE c < call
    <3>1. Phase(c) = "sealed" /\ Phase(c)' = "sealed"
      BY <1>a, <2>2 DEF Phase
    <3>2. disk'[c] = disk[c]
      <4>1. c # call
        BY <1>a, <2>2
      <4>. QED  BY <4>1, <1>b, OtherFilesUnchanged
    <3>. QED  BY <3>1, <3>2 DEF RecordsOf
  <2>3. CASE c = call
    <3>1. Phase(c) = "open" /\ Phase(c)' = "open"
      BY <1>a, <2>3 DEF Phase, Logging, Failing
    <3>2. /\ RecordsOf(c, "trace") = [i \in 1..head["trace"] |-> Entry("trace", i)]
          /\ RecordsOf(c, "trace")' = [i \in 1..head["trace"] |-> Entry("trace", i)']
      BY <3>1 DEF RecordsOf
    <3>. QED  BY <3>1, <3>2
  <2>. QED  BY <1>a, <2>1, <2>2, <2>3
<1>4. /\ CallState = [c \in Calls |-> Phase(c)] /\ CallState' = [c \in Calls |-> Phase(c)']
      /\ Logs = [c \in Calls |-> RecordsOf(c, "trace")]
      /\ Logs' = [c \in Calls |-> RecordsOf(c, "trace")']
  BY MappedIs, MappedNext
<1>5. CallState' = CallState /\ Logs' = Logs
  BY <1>1, <1>4
<1>. QED  BY <1>5, SameTotals DEF logVars

(* A plain step leaves the records of the open call, also the one that is    *)
(* stored and not yet published.                                             *)
LEMMA PlainKeeps ==
  ASSUME LogInv, Plain
  PROVE  \A ch \in Chan, i \in Nat : Entry(ch, i)' = Entry(ch, i)
BY DEF Plain, Entry

(* And so does storing in the next slots: they are not those of waiting      *)
(* records.                                                                  *)
LEMMA StoreKeeps ==
  ASSUME LogInv, NEW p \in Threads, Store(p), NEW ch \in Chan, NEW i \in 1..head[ch]
  PROVE  Entry(ch, i)' = Entry(ch, i)
<1>. USE Channels
<1>a. head[ch] \in Nat /\ tail[ch] \in Nat
  BY DEF LogInv, RingInv, TypeOK
<1>1. UNCHANGED <<call, tail, disk>>
  BY StoredSlot
<1>2. CASE i <= tail[ch]
  BY <1>1, <1>2 DEF Entry
<1>3. CASE ~(i <= tail[ch])
  <2>1. i - 1 \in tail[ch]..(head[ch] - 1)
    BY <1>a, <1>3
  <2>2. buf'[<<ch, (i - 1) % Size[ch]>>] = buf[<<ch, (i - 1) % Size[ch]>>]
    BY <2>1, StoredSlot
  <2>. QED  BY <1>1, <1>3, <2>2 DEF Entry
<1>. QED  BY <1>2, <1>3

(* A batch that is written whole becomes records of the file, each the one   *)
(* that was in its slot of the ring.                                         *)
LEMMA BatchRead ==
  ASSUME NEW ch \in Chan, NEW s \in Seq(Unit), TypeOK, job.t < job.h,
         Len(s) = (job.t + Batch(ch)) * RecUnits,
         \A k \in 1..(Batch(ch) * RecUnits) :
           s[job.t * RecUnits + k] = BatchUnit(ch, k - 1),
         NEW j \in 0..(Batch(ch) - 1)
  PROVE  RecordAt(s, job.t + j + 1) = buf[<<ch, (job.t + j) % Size[ch]>>]
<1>. USE CallNumbers, Channels
<1>a. /\ job.t \in Nat /\ Batch(ch) \in Nat
      /\ (job.t % Size[ch]) + Batch(ch) <= Size[ch] /\ job.t % Size[ch] \in Nat
  <2>1. job.t \in Nat
    BY DEF TypeOK
  <2>2. /\ job.t % Size[ch] \in 0..(Size[ch] - 1)
        /\ Batch(ch) \in Nat \ {0}
        /\ (job.t % Size[ch]) + Batch(ch) <= Size[ch]
    BY BatchBounds
  <2>. QED  BY <2>1, <2>2
<1>. DEFINE t == job.t
            b == Batch(ch)
            off == job.t % Size[ch]
            r == buf[<<ch, off + j>>]
<1>c. Size[ch] \in Nat \ {0} /\ off = t % Size[ch]
  OBVIOUS
<1>d. b = Batch(ch) /\ j \in 0..(b - 1)
  OBVIOUS
<1>e. t \in Nat /\ b \in Nat /\ off \in Nat /\ off + b <= Size[ch]
  BY <1>a
<1>. HIDE DEF t, b, off, r
<1>b. /\ t \in Nat /\ b \in Nat /\ off \in Nat /\ off + b <= Size[ch] /\ j \in Nat /\ j < b
  BY <1>d, <1>e
<1>1. (t + j) % Size[ch] = off + j
  <2>1. off + j < Size[ch]
    BY <1>b, <1>c
  <2>. QED  BY <1>b, <1>c, <2>1, PlacesFollow
<1>2. ASSUME NEW k \in 1..RecUnits
      PROVE  s[t * RecUnits + (j * RecUnits + k)] = [rec |-> r, u |-> k - 1]
  <2>1. /\ j * RecUnits \in Nat /\ j * RecUnits + k \in Nat
        /\ j * RecUnits + k \in 1..(b * RecUnits)
    <3>1. PICK m \in Nat : b = j + 1 + m
      <4>1. b - j - 1 \in Nat /\ b = j + 1 + (b - j - 1)
        BY <1>b
      <4>. QED  BY <4>1
    <3>2. b * RecUnits = j * RecUnits + RecUnits + m * RecUnits
      BY <1>b, <3>1
    <3>3. j * RecUnits \in Nat /\ m * RecUnits \in Nat
      BY <1>b, <3>1
    <3>. QED  BY <3>2, <3>3
  <2>2. s[t * RecUnits + (j * RecUnits + k)] = BatchUnit(ch, (j * RecUnits + k) - 1)
    BY <2>1 DEF t, b
  <2>3. (j * RecUnits + k) - 1 = j * RecUnits + (k - 1) /\ k - 1 \in 0..(RecUnits - 1)
    BY <2>1
  <2>4. /\ (j * RecUnits + (k - 1)) \div RecUnits = j
        /\ (j * RecUnits + (k - 1)) % RecUnits = k - 1
    BY <1>b, <2>3, DividedOnce
  <2>5. BatchUnit(ch, j * RecUnits + (k - 1)) = [rec |-> r, u |-> k - 1]
    BY <2>4 DEF BatchUnit, off, r
  <2>. QED  BY <2>2, <2>3, <2>5
<1>3. /\ (t + j + 1) - 1 = t + j /\ t + j + 1 \in Nat \ {0}
      /\ (t + j) * RecUnits = t * RecUnits + j * RecUnits
      /\ t * RecUnits \in Nat /\ j * RecUnits \in Nat
  BY <1>b
<1>4. (t + j + 1) * RecUnits <= (t + b) * RecUnits
  <2>1. PICK m \in Nat : t + b = t + j + 1 + m
    <3>1. b - j - 1 \in Nat /\ t + b = t + j + 1 + (b - j - 1)
      BY <1>b
    <3>. QED  BY <3>1
  <2>2. (t + b) * RecUnits = (t + j + 1) * RecUnits + m * RecUnits /\ m * RecUnits \in Nat
    BY <1>b, <2>1
  <2>3. (t + j + 1) * RecUnits \in Nat
    BY <1>b
  <2>. QED  BY <2>2, <2>3
<1>5. ASSUME NEW k \in 1..RecUnits
      PROVE  s[((t + j + 1) - 1) * RecUnits + k] = [rec |-> r, u |-> k - 1]
  <2>1. ((t + j + 1) - 1) * RecUnits + k = t * RecUnits + (j * RecUnits + k)
    BY <1>3
  <2>. QED  BY <1>2, <2>1
<1>6. (t + j + 1) * RecUnits <= Len(s)
  BY <1>4 DEF t, b
<1>7. RecordAt(s, t + j + 1) = r
  <2>. DEFINE i == t + j + 1
  <2>1. i \in Nat \ {0} /\ i * RecUnits <= Len(s)
    BY <1>3, <1>6
  <2>2. \A k \in 1..RecUnits : s[(i - 1) * RecUnits + k] = [rec |-> r, u |-> k - 1]
    BY <1>5
  <2>. HIDE DEF i
  <2>3. RecordAt(s, i) = r
    BY <2>1, <2>2, RecordRead
  <2>. QED  BY <2>3 DEF i
<1>. QED  BY <1>1, <1>7 DEF t, r

(* Neither a write to a file nor the end of a batch changes a               *)
(* record: what moves from the ring to the file is what was in the ring.     *)
LEMMA WriteKeeps ==
  ASSUME LogInv, Logging, NEW ch \in Chan, Write(ch), NEW d \in Chan, NEW i \in Nat \ {0}
  PROVE  Entry(d, i)' = Entry(d, i)
<1>. USE CallNumbers, Channels
<1>b. TypeOK /\ RingInv
  BY DEF LogInv, RingInv
<1>a. /\ tail \in [Chan -> Nat] /\ tail[ch] \in Nat
      /\ job \in [t : Nat, h : Nat, done : Nat]
  BY <1>b DEF TypeOK
<1>1. /\ UNCHANGED <<call, buf, head>> /\ Draining(ch) /\ job.t < job.h
  BY DEF Write
<1>2. job.t = tail[ch] /\ Batch(ch) \in Nat
  BY <1>b, <1>1, BatchBounds DEF RingInv, JobInv
<1>3. PICK n \in Nat \ {0}, t \in Seq(Unit) :
        LET old == disk[call][ch]
            new == disk'[call][ch]
            base == tail[ch] * RecUnits
        IN  /\ Advance(ch, n) /\ job.done + n <= Batch(ch) * RecUnits
            /\ old \in Seq(Unit) /\ new = old \o t
            /\ Len(old) = base + job.done /\ Len(new) = base + job.done + n
            /\ \A k \in 1..(job.done + n) : new[base + k] = BatchUnit(ch, k - 1)
  BY WrittenUnits
<1>. DEFINE old == disk[call][ch]
            new == disk'[call][ch]
            base == tail[ch] * RecUnits
<1>4. /\ Advance(ch, n) /\ job.done + n <= Batch(ch) * RecUnits
      /\ old \in Seq(Unit) /\ new = old \o t
      /\ Len(old) = base + job.done /\ Len(new) = base + job.done + n
      /\ \A k \in 1..(job.done + n) : new[base + k] = BatchUnit(ch, k - 1)
  BY <1>3
<1>5. new \in Seq(Unit)
  BY <1>4, ConcatProperties
<1>. SUFFICES ASSUME d = ch PROVE Entry(ch, i)' = Entry(ch, i)
  <2>1. CASE d # ch
    <3>1. tail'[d] = tail[d]
      BY <1>4, <1>a, <2>1 DEF Advance
    <3>2. disk'[call][d] = disk[call][d]
      <4>1. \E x : disk' = [disk EXCEPT ![fd[ch]][ch] = x]
        BY DEF Write
      <4>2. disk \in [Calls -> [Chan -> Seq(Unit)]] /\ call \in Calls
        BY <1>b DEF TypeOK, Logging
      <4>. QED  BY <4>1, <4>2, <2>1
    <3>. QED  BY <1>1, <3>1, <3>2 DEF Entry
  <2>. QED  BY <2>1
<1>6. CASE i <= tail[ch]
  <2>1. i * RecUnits <= Len(old)
    <3>1. PICK m \in Nat : tail[ch] = i + m
      <4>1. tail[ch] - i \in Nat /\ tail[ch] = i + (tail[ch] - i)
        BY <1>a, <1>6
      <4>. QED  BY <4>1
    <3>2. tail[ch] * RecUnits = i * RecUnits + m * RecUnits
      BY <3>1
    <3>3. i * RecUnits \in Nat /\ m * RecUnits \in Nat /\ job.done \in Nat
      BY <1>a
    <3>4. Len(old) = tail[ch] * RecUnits + job.done
      BY <1>4
    <3>. DEFINE x == i * RecUnits
                y == m * RecUnits
                z == tail[ch] * RecUnits
    <3>5. z = x + y /\ x \in Nat /\ y \in Nat /\ Len(old) = z + job.done
      BY <3>2, <3>3, <3>4
    <3>. HIDE DEF old, x, y, z
    <3>6. x <= Len(old)
      BY <3>3, <3>5
    <3>. QED  BY <3>6 DEF x
  <2>2. RecordAt(new, i) = RecordAt(old, i)
    BY <1>4, <2>1, RecordKept
  <2>3. i <= tail'[ch]
    <3>1. tail'[ch] = tail[ch] \/ tail'[ch] = job.t + Batch(ch)
      BY <1>4, <1>a DEF Advance
    <3>. QED  BY <3>1, <1>2, <1>6, <1>a
  <2>. QED  BY <1>1, <1>6, <2>2, <2>3 DEF Entry
<1>7. CASE ~(i <= tail[ch])
  <2>1. CASE job.done + n # Batch(ch) * RecUnits
    <3>1. tail' = tail
      BY <1>4, <2>1 DEF Advance
    <3>. QED  BY <1>1, <1>7, <3>1 DEF Entry
  <2>2. CASE job.done + n = Batch(ch) * RecUnits
    <3>1. tail'[ch] = job.t + Batch(ch)
      BY <1>4, <1>a, <2>2 DEF Advance
    <3>2. CASE ~(i <= job.t + Batch(ch))
      BY <1>1, <1>7, <3>1, <3>2 DEF Entry
    <3>3. CASE i <= job.t + Batch(ch)
      <4>1. PICK j \in 0..(Batch(ch) - 1) : i = job.t + j + 1
        <5>1. /\ i - job.t - 1 \in 0..(Batch(ch) - 1)
              /\ i = job.t + (i - job.t - 1) + 1
          BY <1>2, <1>7, <1>a, <3>3
        <5>. QED  BY <5>1
      <4>2. i - 1 = job.t + j
        BY <4>1, <1>2, <1>a
      <4>3. /\ Len(new) = (job.t + Batch(ch)) * RecUnits
            /\ \A k \in 1..(Batch(ch) * RecUnits) :
                 new[job.t * RecUnits + k] = BatchUnit(ch, k - 1)
        <5>1. (job.t + Batch(ch)) * RecUnits = job.t * RecUnits + Batch(ch) * RecUnits
          BY <1>2, <1>a
        <5>2. /\ job.t * RecUnits \in Nat /\ job.done \in Nat
              /\ base = job.t * RecUnits
          BY <1>2, <1>a
        <5>. HIDE DEF new, base
        <5>3. Len(new) = base + Batch(ch) * RecUnits
          BY <1>4, <2>2, <5>2
        <5>. QED  BY <1>4, <2>2, <5>1, <5>2, <5>3
      <4>4. RecordAt(new, job.t + j + 1) = buf[<<ch, (job.t + j) % Size[ch]>>]
        <5>1. TypeOK /\ job.t < job.h
          BY <1>b, <1>1
        <5>. HIDE DEF new
        <5>. QED  BY ONLY ch \in Chan, j \in 0..(Batch(ch) - 1), <5>1, <1>5, <4>3, BatchRead
      <4>5. RecordAt(new, i) = buf[<<ch, (i - 1) % Size[ch]>>]
        BY <4>1, <4>2, <4>4
      <4>. QED  BY <1>1, <1>7, <3>1, <3>3, <4>5 DEF Entry
    <3>. QED  BY <3>2, <3>3
  <2>. QED  BY <2>1, <2>2
<1>. QED  BY <1>6, <1>7

(* A record that is published while a call is open is appended to its log    *)
(* (cmodule.ts on_insn).                                                     *)
LEMMA PublishAppends ==
  ASSUME LogInv, LogInv', Next, NEW p \in Threads, Publish(p), Logging
  PROVE  call \in Calls /\ Log!Append1(call)
<1>. USE CallNumbers, Channels
<1>b. TypeOK /\ RingInv
  BY DEF LogInv, RingInv
<1>a. /\ call \in Nat /\ call \in Calls /\ head \in [Chan -> Nat] /\ head["trace"] \in Nat
      /\ tail["trace"] \in Nat /\ tail["trace"] <= head["trace"]
  BY <1>b DEF TypeOK, Logging, RingInv, CountInv
<1>1. /\ UNCHANGED <<call, sealed, agent, buf, tail, disk>> /\ pc[p] = "publish"
      /\ head'["trace"] = head["trace"] + 1
  BY <1>a DEF Publish, files
<1>2. PICK r \in [insn : Insn, idx : {0}] : r = buf[<<"trace", head["trace"] % RingRecs>>]
  BY <1>1 DEF LogInv, FilledInv
<1>3. Logging'
  BY <1>1 DEF Logging, Failing
<1>4. \A i \in 1..head["trace"] : Entry("trace", i)' = Entry("trace", i)
  BY <1>1 DEF Entry
<1>5. ASSUME NEW i, i = head["trace"] + 1 PROVE Entry("trace", i)' = r
  <2>1. ~(i <= tail["trace"]) /\ i - 1 = head["trace"]
    BY <1>a, <1>5
  <2>. QED  BY <1>1, <1>2, <2>1 DEF Entry
<1>6. ASSUME NEW c \in Calls, c # call
      PROVE  /\ Phase(c)' = Phase(c)
             /\ RecordsOf(c, "trace")' = RecordsOf(c, "trace")
  <2>1. CASE c > call
    <3>1. Phase(c) = "none" /\ Phase(c)' = "none"
      BY <1>a, <1>1, <2>1 DEF Phase
    <3>. QED  BY <3>1 DEF RecordsOf
  <2>2. CASE c < call
    <3>1. Phase(c) = "sealed" /\ Phase(c)' = "sealed"
      BY <1>a, <1>1, <2>2 DEF Phase
    <3>. QED  BY <1>1, <3>1 DEF RecordsOf
  <2>. QED  BY <1>a, <1>6, <2>1, <2>2
<1>7. ASSUME NEW c \in Calls, c = call
      PROVE  /\ Phase(c) = "open" /\ Phase(c)' = "open"
             /\ RecordsOf(c, "trace")' = Append(RecordsOf(c, "trace"), r)
  <2>1. Phase(c) = "open" /\ Phase(c)' = "open"
    BY <1>a, <1>1, <1>3, <1>7 DEF Phase, Logging, Failing
  <2>2. RecordsOf(c, "trace") = [i \in 1..head["trace"] |-> Entry("trace", i)]
    BY <2>1 DEF RecordsOf
  <2>3. RecordsOf(c, "trace")' = [i \in 1..(head["trace"] + 1) |-> Entry("trace", i)']
    BY <1>1, <2>1 DEF RecordsOf
  <2>4. PICK n \in Nat : n = head["trace"]
    BY <1>a
  <2>. DEFINE T == {Entry("trace", i) : i \in 1..n} \cup {r}
              s == RecordsOf(c, "trace")
              e == RecordsOf(c, "trace")'
  <2>5. /\ s \in Seq(T) /\ Len(s) = n
        /\ \A i \in 1..n : s[i] = Entry("trace", i)
    BY <2>2, <2>4, LenProperties
  <2>6. /\ DOMAIN e = 1..(n + 1) /\ e[n + 1] = r
        /\ \A i \in 1..n : e[i] = Entry("trace", i)
    <3>1. e = [i \in 1..(n + 1) |-> Entry("trace", i)']
      BY <2>3, <2>4
    <3>2. \A i \in 1..n : Entry("trace", i)' = Entry("trace", i)
      BY <1>4, <2>4
    <3>3. Entry("trace", n + 1)' = r
      BY <1>5, <2>4
    <3>. HIDE DEF e
    <3>. QED  BY <3>1, <3>2, <3>3
  <2>7. e \in Seq(T) /\ Len(e) = n + 1
    <3>1. e = [i \in 1..(n + 1) |-> e[i]]
      BY <2>3, <2>4
    <3>2. \A i \in 1..(n + 1) : e[i] \in T
      BY <2>6
    <3>. HIDE DEF e, T
    <3>. QED  BY <3>1, <3>2, IsASeq, LenProperties
  <2>8. r \in T
    OBVIOUS
  <2>. HIDE DEF s, e, T
  <2>9. e = Append(s, r)
    <3>1. /\ Append(s, r) \in Seq(T) /\ Len(Append(s, r)) = n + 1
          /\ \A i \in 1..n : Append(s, r)[i] = s[i]
          /\ Append(s, r)[n + 1] = r
      BY <2>5, <2>8, AppendProperties
    <3>2. \A i \in 1..(n + 1) : e[i] = Append(s, r)[i]
      BY <2>5, <2>6, <3>1
    <3>. QED  BY <2>7, <3>1, <3>2, SeqEqual
  <2>. QED  BY <2>1, <2>9 DEF s, e
<1>8. /\ CallState = [c \in Calls |-> Phase(c)] /\ CallState' = [c \in Calls |-> Phase(c)']
      /\ Logs = [c \in Calls |-> RecordsOf(c, "trace")]
      /\ Logs' = [c \in Calls |-> RecordsOf(c, "trace")']
  BY MappedIs, MappedNext
<1>9. CallState' = CallState /\ CallState[call] = "open"
  BY <1>a, <1>6, <1>7, <1>8
<1>10. Logs' = [Logs EXCEPT ![call] = Append(@, r)]
  BY <1>a, <1>6, <1>7, <1>8
<1>. QED  BY <1>1, <1>2, <1>9, <1>10, <1>a, SameTotals DEF Log!Append1, Logs, Totals

-------------------------------------------------------------------------------
(* The refinement *)

(* The invariant the refinement needs: the invariant of the files, that      *)
(* every earlier call was sealed, and that what waits in the ring and in the *)
(* running batch are whole records.                                          *)
LEMMA WriterLogInv == Spec => []LogInv
<1>1. Init => LogInv
  <2>. SUFFICES ASSUME Init PROVE LogInv
    OBVIOUS
  <2>1. Ended
    <3>1. call = 0
      BY DEF Init
    <3>. QED  BY <3>1, CallNumbers DEF Ended
  <2>2. FilledInv
    BY CallNumbers DEF Init, FilledInv, Logging
  <2>. QED  BY <2>1, <2>2, RingInit, FilesInit DEF LogInv
<1>2. (RingInv /\ FilesInv)' /\ LogInv /\ [Next]_vars => LogInv'
  <2>. SUFFICES ASSUME (RingInv /\ FilesInv)', LogInv, [Next]_vars PROVE LogInv'
    OBVIOUS
  <2>1. CASE Next
    BY <2>1, EndedStep, FilledStep DEF LogInv
  <2>2. CASE UNCHANGED vars
    <3>1. Ended'
      BY <2>2 DEF LogInv, Ended, vars
    <3>2. FilledInv'
      BY <2>2 DEF LogInv, FilledInv, Logging, Failing, Draining, BatchUnit, vars, ring, files,
                  threads
    <3>. QED  BY <3>1, <3>2 DEF LogInv
  <2>. QED  BY <2>1, <2>2
<1>. QED  BY <1>1, <1>2, WriterRingInv, WriterFilesInv, PTL DEF Spec

(* At first no call has begun.                                              *)
LEMMA LogBegins == Init => Log!LogInit
<1>. SUFFICES ASSUME Init PROVE Log!LogInit
  OBVIOUS
<1>1. \A c \in Calls : CallState[c] = "none"
  <2>1. \A c \in Calls : c > call /\ sealed[c] = Unsealed /\ c # call
    BY CallNumbers DEF Init
  <2>. QED  BY <2>1 DEF CallState
<1>2. CallState = [c \in Calls |-> "none"]
  BY <1>1 DEF CallState
<1>3. \A c \in Calls : Recorded(c, "trace") = <<>>
  BY <1>1 DEF Recorded
<1>4. \A c \in Calls : sealed[c] = Unsealed
  BY DEF Init
<1>. QED  BY <1>2, <1>3, <1>4 DEF Log!LogInit

(* Every step of the writer is a step of RecordLog or none.                  *)
LEMMA LogStep ==
  ASSUME LogInv, LogInv', Next
  PROVE  (\E c \in Calls : Log!Open(c) \/ Log!Append1(c) \/ Log!Seal(c) \/ Log!Fail(c))
           \/ UNCHANGED logVars
<1>b. TypeOK /\ RingInv /\ FdInv /\ QuietInv /\ call \in 0..MaxCalls
  BY DEF LogInv, RingInv, FilesInv, TypeOK
<1>1. CASE BeginCall
  BY <1>1, BeginOpens
<1>2. CASE Seal
  <2>1. call \in Calls /\ Log!Seal(call)
    BY <1>2, SealSeals
  <2>. QED  BY <2>1 DEF Log!Seal
<1>3. CASE FailCapture \/ \E ch \in Chan : CloseError(ch)
  BY <1>3, FailureFails
<1>4. CASE Failing
  BY <1>4, FailedStays
<1>5. CASE ~Failing /\ Plain
  <2>1. CASE agent = "idle"
    BY <1>5, <2>1, IdleStays
  <2>2. CASE agent # "idle"
    <3>1. call \in Calls
      BY <2>2, <1>b DEF FdInv
    <3>2. Logging /\ Logging'
      BY <1>5, <2>2, <3>1 DEF Plain, Logging
    <3>3. UNCHANGED <<call, sealed>> /\ head'["trace"] = head["trace"]
      BY <1>5 DEF Plain
    <3>4. \A i \in 1..head["trace"] : Entry("trace", i)' = Entry("trace", i)
      BY <1>5, PlainKeeps, Channels
    <3>. QED  BY <1>5, <3>2, <3>3, <3>4, OpenStays
  <2>. QED  BY <2>1, <2>2
<1>6. ASSUME ~Failing, NEW p \in Threads, Store(p) \/ Publish(p)
      PROVE  Logging
  <2>1. agent # "idle"
    BY <1>6, <1>b DEF Store, Publish, QuietInv, Quiet
  <2>. QED  BY <1>6, <1>b, <2>1 DEF Logging, FdInv
<1>7. ASSUME ~Failing, NEW p \in Threads, Store(p)
      PROVE  UNCHANGED logVars
  <2>1. Logging /\ UNCHANGED <<call, sealed, agent>> /\ head'["trace"] = head["trace"]
    BY <1>6, <1>7, StoredSlot
  <2>2. Logging'
    BY <2>1 DEF Logging, Failing
  <2>3. \A i \in 1..head["trace"] : Entry("trace", i)' = Entry("trace", i)
    BY <1>7, StoreKeeps, Channels
  <2>. QED  BY <2>1, <2>2, <2>3, OpenStays
<1>8. ASSUME ~Failing, NEW p \in Threads, Publish(p)
      PROVE  \E c \in Calls : Log!Append1(c)
  BY <1>6, <1>8, PublishAppends
<1>9. ASSUME ~Failing, NEW ch \in Chan, Write(ch)
      PROVE  UNCHANGED logVars
  <2>1. UNCHANGED <<call, sealed, agent>> /\ head' = head /\ Draining(ch)
    BY <1>9 DEF Write
  <2>2. agent # "idle"
    BY <2>1, <1>b, Channels DEF Draining, QuietInv, Quiet
  <2>3. Logging /\ Logging'
    BY <1>9, <1>b, <2>1, <2>2 DEF Logging, Failing, FdInv
  <2>4. \A i \in 1..head["trace"] : Entry("trace", i)' = Entry("trace", i)
    BY <1>9, <2>3, WriteKeeps, Channels
  <2>. QED  BY <1>9, <2>1, <2>3, <2>4, OpenStays
<1>10. ~Failing => \A ch \in Chan : ~WriteAstray(ch)
  BY <1>b, NeverAstray
<1>. QED  BY <1>1, <1>2, <1>3, <1>4, <1>5, <1>7, <1>8, <1>9, <1>10, KindsOfStep

(* The writer implements RecordLog: each call owns one log, a record of an   *)
(* instruction is appended to the log of the open call and is never          *)
(* changed, reordered or dropped, sealing freezes the log and publishes its  *)
(* exact length (cmodule.ts on_insn, drain, flush; manifest.ts sealManifest).*)
THEOREM WriterImplementsRecordLog == Spec => ImplementsRecordLog
<1>1. Init => Log!LogInit
  BY LogBegins
<1>2. LogInv /\ LogInv' /\ [Next]_vars => [Log!LogNext]_(Log!logVars)
  <2>. SUFFICES ASSUME LogInv, LogInv', [Next]_vars
                PROVE  Log!LogNext \/ UNCHANGED Log!logVars
    OBVIOUS
  <2>1. CASE Next
    BY <2>1, LogStep DEF Log!LogNext, Log!logVars, logVars, Logs, Totals
  <2>2. CASE UNCHANGED vars
    BY <2>2 DEF vars, ring, files, threads, Log!logVars, CallState, Failing, Recorded, OnDisk
  <2>. QED  BY <2>1, <2>2
<1>. QED  BY <1>1, <1>2, WriterLogInv, PTL DEF Spec, ImplementsRecordLog, Log!LogSpec

-------------------------------------------------------------------------------
(* What the records of a call say                                            *)

\* Of n records s, the records of each thread are an unbroken run; and n + 1 is
\* where thread p goes on after the last of them.
Unbroken(s, n) ==
  \A p \in Threads, i, j \in 1..n :
    i < j /\ s[i].insn.by = p /\ s[j].insn.by = p
      /\ (\A k \in (i + 1)..(j - 1) : s[k].insn.by # p)
        => s[j].insn.n = s[i].insn.n + 1
GoesOn(s, n, p, next) ==
  \A i \in 1..n :
    s[i].insn.by = p /\ (\A k \in (i + 1)..n : s[k].insn.by # p) => next = s[i].insn.n + 1

\* The m vectors v belong to the n records s, one for each Stride of them.
Beside(v, m, s, n) ==
  \A i \in 1..m : /\ v[i].idx = (i - 1) * Stride
                  /\ v[i].idx < n => v[i].insn = s[v[i].idx + 1].insn
Sampling(m, n) == (\A i \in 1..m : (i - 1) * Stride < n) /\ n <= m * Stride

\* Between Store and Publish one record is stored and not yet counted by `head`.
Storing == \E p \in Threads : pc[p] \in {"drain_simd", "publish"}
Stored  == IF Storing THEN head["trace"] + 1 ELSE head["trace"]
Stream  == [i \in 1..Stored |-> Entry("trace", i)]
Vectors == [i \in 1..head["simd"] |-> Entry("simd", i)]

\* The number of the instruction that a thread stores next.
NextOf(p) == IF pc[p] = "locked" THEN insns[p] ELSE insns[p] + 1

OpenInv ==
  Logging =>
    /\ Unbroken(Stream, Stored)
    /\ active => \A p \in Threads : GoesOn(Stream, Stored, p, NextOf(p))
    /\ Beside(Vectors, head["simd"], Stream, Stored)
    /\ Sampling(head["simd"], Stored)
    /\ Stored > 0 => firstPc = Stream[1].insn
    /\ agent = "open_trace" => head["trace"] = 0

\* Records of the file of a sealed call.
InFile(c, ch) == Len(disk[c][ch]) \div RecUnits
Kept(c, ch)   == [i \in 1..InFile(c, ch) |-> RecordAt(disk[c][ch], i)]

\* What those records and the manifest say.
FilesSay(c) ==
  /\ Unbroken(Kept(c, "trace"), InFile(c, "trace"))
  /\ Beside(Kept(c, "simd"), InFile(c, "simd"), Kept(c, "trace"), InFile(c, "trace"))
  /\ Sampling(InFile(c, "simd"), InFile(c, "trace"))
  /\ sealed[c].firstPc = IF InFile(c, "trace") = 0 THEN Null ELSE Kept(c, "trace")[1].insn

SealedInv == \A c \in Calls : Phase(c) = "sealed" => FilesSay(c)

RunsInv == LogInv /\ OpenInv /\ SealedInv

(* A record of p that goes on where p was extends the run of p and leaves    *)
(* those of the others.                                                      *)
LEMMA RunExtends ==
  ASSUME NEW n \in Nat, NEW s, NEW e, \A i \in 1..n : e[i] = s[i],
         NEW p \in Threads, NEW m, e[n + 1].insn.by = p, e[n + 1].insn.n = m,
         Unbroken(s, n), GoesOn(s, n, p, m)
  PROVE  /\ Unbroken(e, n + 1)
         /\ GoesOn(e, n + 1, p, m + 1)
         /\ \A q \in Threads \ {p} : \A x : GoesOn(s, n, q, x) => GoesOn(e, n + 1, q, x)
<1>1. ASSUME NEW q \in Threads, NEW i \in 1..(n + 1), NEW j \in 1..(n + 1),
             i < j, e[i].insn.by = q, e[j].insn.by = q,
             \A k \in (i + 1)..(j - 1) : e[k].insn.by # q
      PROVE  e[j].insn.n = e[i].insn.n + 1
  <2>1. i \in 1..n /\ s[i] = e[i]
    BY <1>1
  <2>2. CASE j \in 1..n
    <3>1. \A k \in (i + 1)..(j - 1) : k \in 1..n /\ s[k] = e[k]
      BY <2>1, <2>2
    <3>. QED  BY <1>1, <2>1, <2>2, <3>1 DEF Unbroken
  <2>3. CASE j = n + 1
    <3>1. \A k \in (i + 1)..n : k \in (i + 1)..(j - 1) /\ k \in 1..n /\ s[k] = e[k]
      BY <2>1, <2>3
    <3>. QED  BY <1>1, <2>1, <2>3, <3>1 DEF GoesOn
  <2>. QED  BY <1>1, <2>2, <2>3
<1>2. ASSUME NEW i \in 1..(n + 1), e[i].insn.by = p,
             \A k \in (i + 1)..(n + 1) : e[k].insn.by # p
      PROVE  m + 1 = e[i].insn.n + 1
  <2>1. i = n + 1
    BY <1>2
  <2>. QED  BY <2>1
<1>3. ASSUME NEW q \in Threads \ {p}, NEW x, GoesOn(s, n, q, x), NEW i \in 1..(n + 1),
             e[i].insn.by = q, \A k \in (i + 1)..(n + 1) : e[k].insn.by # q
      PROVE  x = e[i].insn.n + 1
  <2>1. i \in 1..n /\ s[i] = e[i]
    BY <1>3
  <2>2. \A k \in (i + 1)..n : s[k] = e[k] /\ k \in (i + 1)..(n + 1)
    BY <2>1
  <2>. QED  BY <1>3, <2>1, <2>2 DEF GoesOn
<1>. QED  BY <1>1, <1>2, <1>3 DEF Unbroken, GoesOn

(* The m-th sample is due exactly when m * Stride records are there.         *)
LEMMA SampleDue ==
  ASSUME NEW m \in Nat, NEW n \in Nat, Sampling(m, n)
  PROVE  /\ n % Stride = 0 => n = m * Stride /\ Sampling(m + 1, n + 1)
         /\ n % Stride # 0 => /\ \A i \in 1..m : (i - 1) * Stride # n
                             /\ Sampling(m, n + 1)
<1>a. Stride \in Nat \ {0} /\ m * Stride \in Nat
  BY WriterAssumption
<1>b. \A i \in Nat : i * Stride \in Nat
  BY <1>a
<1>1. CASE n % Stride = 0
  <2>1. PICK q \in Nat : n = q * Stride
    <3>1. n \div Stride \in Nat /\ n = (n \div Stride) * Stride + 0
      BY <1>a, <1>1, Divided
    <3>. QED  BY <3>1, <1>b
  <2>2. ~(q > m)
    <3>. SUFFICES ASSUME q > m PROVE FALSE
      OBVIOUS
    <3>1. PICK k \in Nat : q = m + 1 + k
      <4>1. q - m - 1 \in Nat /\ q = m + 1 + (q - m - 1)
        BY <2>1
      <4>. QED  BY <4>1
    <3>2. q * Stride = m * Stride + Stride + k * Stride /\ k * Stride \in Nat
      BY <1>a, <3>1
    <3>3. n <= m * Stride
      BY DEF Sampling
    <3>. QED  BY <1>a, <2>1, <3>2, <3>3
  <2>3. ~(q < m)
    <3>. SUFFICES ASSUME q < m PROVE FALSE
      OBVIOUS
    <3>1. q + 1 \in 1..m /\ (q + 1) - 1 = q
      BY <2>1
    <3>2. q * Stride < n
      BY <3>1 DEF Sampling
    <3>. QED  BY <2>1, <3>2, <1>b
  <2>4. q = m
    BY <2>1, <2>2, <2>3
  <2>5. n = m * Stride /\ (m + 1) * Stride = m * Stride + Stride
    BY <1>a, <2>1, <2>4
  <2>6. \A i \in 1..(m + 1) : (i - 1) * Stride < n + 1
    <3>1. ASSUME NEW i \in 1..m PROVE (i - 1) * Stride < n + 1
      BY <1>b DEF Sampling
    <3>2. ((m + 1) - 1) * Stride = m * Stride
      OBVIOUS
    <3>. QED  BY <1>a, <2>5, <3>1, <3>2
  <2>. QED  BY <1>1, <1>a, <2>5, <2>6 DEF Sampling
<1>2. CASE n % Stride # 0
  <2>1. \A q \in Nat : q * Stride # n
    <3>. SUFFICES ASSUME NEW q \in Nat, n = q * Stride + 0 PROVE FALSE
      BY <1>b
    <3>1. 0 \in 0..(Stride - 1)
      BY <1>a
    <3>. QED  BY <1>a, <1>2, <3>1, DividedOnce
  <2>2. \A i \in 1..m : (i - 1) \in Nat /\ (i - 1) * Stride < n
    BY DEF Sampling
  <2>3. n <= m * Stride /\ m * Stride # n
    BY <2>1 DEF Sampling
  <2>. QED  BY <1>2, <1>b, <2>1, <2>2, <2>3, <1>a DEF Sampling
<1>. QED  BY <1>1, <1>2

(* So m samples of n records are ceil(n / Stride).                           *)
LEMMA SampleCount ==
  ASSUME NEW m \in Nat, NEW n \in Nat, Sampling(m, n)
  PROVE  m = (n + Stride - 1) \div Stride
<1>a. Stride \in Nat \ {0} /\ m * Stride \in Nat
  BY WriterAssumption
<1>1. CASE m = 0
  <2>1. n = 0
    BY <1>1, <1>a DEF Sampling
  <2>2. n + Stride - 1 = 0 * Stride + (Stride - 1) /\ Stride - 1 \in 0..(Stride - 1)
    BY <1>a, <2>1
  <2>. QED  BY <1>a, <1>1, <2>2, DividedOnce
<1>2. CASE m > 0
  <2>1. PICK k \in Nat : m = k + 1
    <3>1. m - 1 \in Nat /\ m = (m - 1) + 1
      BY <1>2
    <3>. QED  BY <3>1
  <2>2. m * Stride = k * Stride + Stride /\ k * Stride \in Nat
    BY <1>a, <2>1
  <2>3. k * Stride < n
    <3>1. m \in 1..m /\ m - 1 = k
      BY <1>2, <2>1
    <3>. QED  BY <3>1 DEF Sampling
  <2>4. n <= m * Stride
    BY DEF Sampling
  <2>5. PICK r \in 0..(Stride - 1) : n + Stride - 1 = m * Stride + r
    <3>1. /\ n - 1 - k * Stride \in 0..(Stride - 1)
          /\ n + Stride - 1 = m * Stride + (n - 1 - k * Stride)
      BY <1>a, <2>2, <2>3, <2>4
    <3>. QED  BY <3>1
  <2>. QED  BY <1>a, <2>5, DividedOnce
<1>. QED  BY <1>1, <1>2

\* A step that neither stores nor counts a record nor begins a call.
Still ==
  /\ UNCHANGED <<head, firstPc>>
  /\ Storing' <=> Storing
  /\ active' => \/ agent = "open_trace"
                \/ active /\ \A p \in Threads : NextOf(p)' = NextOf(p)
  /\ agent' = "open_trace" => agent = "open_trace"

(* Every step is still, stores, publishes or begins a call: in particular a  *)
(* thread skips an instruction only when `active` is clear for good.         *)
LEMMA StillStep ==
  ASSUME LogInv, Next, ~BeginCall, \A p \in Threads : ~Store(p) /\ ~Publish(p)
  PROVE  Still
<1>. USE Channels
<1>a. /\ pc \in [Threads -> ThreadPC] /\ insns \in [Threads -> 0..MaxInsns]
      /\ MutexInv
  BY DEF LogInv, RingInv, TypeOK
<1>1. ASSUME UNCHANGED <<head, firstPc, pc, insns>>, active' => active,
             agent' = "open_trace" => agent = "open_trace"
      PROVE  Still
  BY <1>1 DEF Still, Storing, NextOf
<1>2. ASSUME NEW p \in Threads, Lock(p) PROVE Still
  <2>1. /\ UNCHANGED <<head, firstPc, active, agent>> /\ pc[p] = "run"
        /\ pc' = [pc EXCEPT ![p] = "locked"] /\ insns' = [insns EXCEPT ![p] = @ + 1]
    BY <1>2 DEF Lock, ring
  <2>2. \A q \in Threads : NextOf(q)' = NextOf(q)
    BY <2>1, <1>a DEF NextOf
  <2>. QED  BY <2>1, <2>2, <1>a DEF Still, Storing
<1>3. ASSUME NEW p \in Threads, Skip(p) PROVE Still
  <2>1. /\ UNCHANGED <<head, firstPc, active, agent>> /\ pc[p] = "locked" /\ ~active
        /\ pc' = [pc EXCEPT ![p] = "run"]
    BY <1>3 DEF Skip, ring
  <2>. QED  BY <2>1, <1>a DEF Still, Storing
<1>4. ASSUME NEW p \in Threads, Drained(p) PROVE Still
  <2>1. /\ UNCHANGED <<head, firstPc, active, agent, insns>>
        /\ \/ pc[p] = "drain_simd" /\ pc' = [pc EXCEPT ![p] = "publish"]
           \/ pc[p] = "drain_trace" /\ pc' = [pc EXCEPT ![p] = "run"]
    BY <1>4 DEF Drained, ring
  <2>2. \A q \in Threads : NextOf(q)' = NextOf(q)
    BY <2>1, <1>a DEF NextOf
  <2>3. Storing' <=> Storing
    BY <2>1, <1>a DEF Storing
  <2>. QED  BY <2>1, <2>2, <2>3 DEF Still
<1>5. ASSUME NEW ch \in Chan, WriteLoop(ch) PROVE Still
  BY <1>1, <1>5 DEF WriteLoop, Write, WriteError, WriteAstray, ring, threads
<1>6. ASSUME NEW p \in Threads, Follow(p) \/ EndCall(p) PROVE Still
  BY <1>1, <1>6 DEF Follow, EndCall, ring
<1>7. ASSUME NEW ch \in Chan, OpenFile(ch) PROVE Still
  <2>1. /\ UNCHANGED <<head, firstPc, pc, insns>> /\ agent' # "open_trace"
        /\ agent = "open_trace" \/ active' = active
    BY <1>7 DEF OpenFile, OpenPC, ring, threads
  <2>. QED  BY <2>1 DEF Still, Storing, NextOf
<1>8. ASSUME NEW ch \in Chan,
             OpenError(ch) \/ FlushLock(ch) \/ FlushSync(ch) \/ SyncError(ch) \/ CloseFd(ch)
      PROVE  Still
  BY <1>1, <1>8 DEF OpenError, FlushLock, FlushSync, SyncError, CloseFd, ActiveAfter, ring, threads
<1>9. ASSUME NEW ch \in Chan, CloseDone(ch) \/ CloseError(ch) \/ FailClosed(ch) PROVE Still
  BY <1>1, <1>9 DEF CloseDone, CloseError, FailClosed, ring, threads
<1>10. CASE Seal \/ FailCapture
  BY <1>1, <1>10 DEF Seal, FailCapture, ring, threads
<1>11. CASE Terminated
  BY <1>1, <1>11 DEF Terminated, vars, ring, threads
<1>. QED  BY <1>2, <1>3, <1>4, <1>5, <1>6, <1>7, <1>8, <1>9, <1>10, <1>11
          DEF Next, OnInsn, AgentStep

(* What is stored and what is counted are numbers.                           *)
LEMMA StoredType ==
  ASSUME TypeOK
  PROVE  /\ Stored \in Nat /\ head["trace"] \in Nat /\ head["simd"] \in Nat
         /\ \A i \in 1..Stored : Stream[i] = Entry("trace", i)
         /\ \A i \in 1..head["simd"] : Vectors[i] = Entry("simd", i)
<1>1. head["trace"] \in Nat /\ head["simd"] \in Nat
  BY Channels DEF TypeOK
<1>2. Stored \in Nat
  BY <1>1 DEF TypeOK, Stored
<1>3. \A i \in 1..Stored : Stream[i] = Entry("trace", i)
  BY DEF Stream
<1>4. \A i \in 1..head["simd"] : Vectors[i] = Entry("simd", i)
  BY DEF Vectors
<1>. QED  BY <1>1, <1>2, <1>3, <1>4

(* A still step of an open call leaves what its records say.                 *)
LEMMA OpenStill ==
  ASSUME LogInv, OpenInv, Next, Logging, Logging', Still,
         \A ch \in Chan, i \in Nat \ {0} : Entry(ch, i)' = Entry(ch, i)
  PROVE  OpenInv'
<1>. USE Channels
<1>a. Stored \in Nat /\ head["simd"] \in Nat
  BY StoredType DEF LogInv, RingInv
<1>1. Stored' = Stored /\ head' = head /\ firstPc' = firstPc
  BY DEF Still, Stored
<1>2. Stream' = Stream
  <2>1. Stream' = [i \in 1..Stored |-> Entry("trace", i)']
    BY <1>1 DEF Stream
  <2>2. \A i \in 1..Stored : Entry("trace", i)' = Entry("trace", i)
    BY <1>a
  <2>. QED  BY <2>1, <2>2 DEF Stream
<1>3. Vectors' = Vectors
  <2>1. Vectors' = [i \in 1..head["simd"] |-> Entry("simd", i)']
    BY <1>1 DEF Vectors
  <2>2. \A i \in 1..head["simd"] : Entry("simd", i)' = Entry("simd", i)
    BY <1>a
  <2>. QED  BY <2>1, <2>2 DEF Vectors
<1>4. ASSUME active', NEW p \in Threads PROVE GoesOn(Stream, Stored, p, NextOf(p)')
  <2>1. CASE agent = "open_trace"
    <3>1. Stored = 0
      BY <2>1 DEF OpenInv, Stored, Storing, LogInv, RingInv, QuietInv, Quiet
    <3>. QED  BY <3>1 DEF GoesOn
  <2>2. CASE active /\ NextOf(p)' = NextOf(p)
    BY <2>2 DEF OpenInv
  <2>. QED  BY <1>4, <2>1, <2>2 DEF Still
<1>5. agent' = "open_trace" => head["trace"] = 0
  BY DEF Still, OpenInv
<1>6. /\ Unbroken(Stream, Stored) /\ Beside(Vectors, head["simd"], Stream, Stored)
      /\ Sampling(head["simd"], Stored) /\ (Stored > 0 => firstPc = Stream[1].insn)
  BY DEF OpenInv
<1>. HIDE DEF Stream, Vectors, Stored
<1>7. /\ Unbroken(Stream, Stored)' /\ Beside(Vectors, head["simd"], Stream, Stored)'
      /\ Sampling(head["simd"], Stored)' /\ (Stored > 0 => firstPc = Stream[1].insn)'
  BY <1>1, <1>2, <1>3, <1>6 DEF Unbroken, Beside, Sampling
<1>8. \A p \in Threads : active' => GoesOn(Stream, Stored, p, NextOf(p))'
  BY <1>1, <1>2, <1>4 DEF GoesOn
<1>. QED  BY <1>1, <1>5, <1>7, <1>8 DEF OpenInv

(* Publishing counts what was stored (cmodule.ts on_insn).                   *)
LEMMA OpenPublish ==
  ASSUME LogInv, OpenInv, Logging, NEW p \in Threads, Publish(p)
  PROVE  OpenInv'
<1>. USE Channels
<1>a. /\ pc \in [Threads -> ThreadPC] /\ head \in [Chan -> Nat] /\ MutexInv /\ QuietInv
      /\ Stored \in Nat /\ head["simd"] \in Nat
  BY StoredType DEF LogInv, RingInv, TypeOK
<1>1. /\ UNCHANGED <<call, agent, active, buf, tail, disk, firstPc, insns>> /\ pc[p] = "publish"
      /\ head'["trace"] = head["trace"] + 1 /\ head'["simd"] = head["simd"]
      /\ \E x \in {"run", "drain_trace"} : pc' = [pc EXCEPT ![p] = x]
  BY <1>a DEF Publish, files
<1>2. Storing /\ ~Storing'
  <2>1. \A q \in Threads : q # p => pc[q] = "run"
    BY <1>1, <1>a DEF MutexInv
  <2>. QED  BY <1>1, <1>a, <2>1 DEF Storing
<1>3. Stored' = Stored
  BY <1>1, <1>2 DEF Stored
<1>4. Stream' = Stream /\ Vectors' = Vectors
  BY <1>1, <1>3 DEF Stream, Vectors, Entry
<1>5. \A q \in Threads : NextOf(q)' = NextOf(q)
  BY <1>1, <1>a DEF NextOf
<1>6. agent # "open_trace"
  BY <1>1, <1>a DEF QuietInv, Quiet
<1>7. /\ Unbroken(Stream, Stored) /\ Beside(Vectors, head["simd"], Stream, Stored)
      /\ Sampling(head["simd"], Stored) /\ (Stored > 0 => firstPc = Stream[1].insn)
      /\ active => \A q \in Threads : GoesOn(Stream, Stored, q, NextOf(q))
  BY DEF OpenInv
<1>. HIDE DEF Stream, Vectors, Stored
<1>8. /\ Unbroken(Stream, Stored)' /\ Beside(Vectors, head["simd"], Stream, Stored)'
      /\ Sampling(head["simd"], Stored)' /\ (Stored > 0 => firstPc = Stream[1].insn)'
      /\ \A q \in Threads : active' => GoesOn(Stream, Stored, q, NextOf(q))'
  BY <1>1, <1>3, <1>4, <1>5, <1>7 DEF Unbroken, Beside, Sampling, GoesOn
<1>. QED  BY <1>1, <1>6, <1>8 DEF OpenInv

(* Storing extends the run of the thread, and takes the vectors of the       *)
(* instruction with it when they are due (cmodule.ts on_insn, write_simd).   *)
LEMMA OpenStore ==
  ASSUME LogInv, OpenInv, Logging, NEW p \in Threads, Store(p)
  PROVE  OpenInv'
<1>. USE Channels
<1>b. TypeOK /\ MutexInv /\ QuietInv /\ CountInv
  BY DEF LogInv, RingInv
<1>a. /\ pc \in [Threads -> ThreadPC] /\ insns \in [Threads -> 0..MaxInsns]
      /\ head["trace"] \in Nat /\ head["simd"] \in Nat
      /\ tail["trace"] <= head["trace"] /\ tail["simd"] <= head["simd"]
      /\ tail["trace"] \in Nat /\ tail["simd"] \in Nat
  BY <1>b DEF TypeOK, CountInv
<1>c. PICK n \in Nat, m \in Nat : n = head["trace"] /\ m = head["simd"]
  BY <1>a
<1>. DEFINE insn == [by |-> p, n |-> insns[p]]
<1>1. /\ UNCHANGED <<active, insns>> /\ pc[p] = "locked" /\ active
      /\ firstPc' = IF n = 0 THEN insn ELSE firstPc
      /\ \E x \in {"drain_simd", "publish"} : pc' = [pc EXCEPT ![p] = x]
  BY <1>c DEF Store, FirstRecord
<1>2. /\ UNCHANGED <<call, agent, tail, disk>> /\ head'["trace"] = n
      /\ buf'[<<"trace", n % RingRecs>>] = [insn |-> insn, idx |-> 0]
      /\ Sampled => /\ head'["simd"] = m + 1
                    /\ buf'[<<"simd", m % SimdRingRecs>>] = [insn |-> insn, idx |-> n]
      /\ ~Sampled => head'["simd"] = m
  BY <1>c, StoredSlot
<1>3. ~Storing /\ Storing'
  <2>1. \A q \in Threads : q # p => pc[q] = "run"
    BY <1>1, <1>b DEF MutexInv
  <2>. QED  BY <1>1, <1>a, <2>1 DEF Storing
<1>4. Stored = n /\ Stored' = n + 1
  BY <1>2, <1>3, <1>c DEF Stored
<1>5. /\ \A i \in 1..(n + 1) : Stream'[i] = Entry("trace", i)'
      /\ \A i \in 1..n : Stream[i] = Entry("trace", i)
      /\ \A i \in 1..head'["simd"] : Vectors'[i] = Entry("simd", i)'
      /\ \A i \in 1..m : Vectors[i] = Entry("simd", i)
  BY <1>4, <1>c DEF Stream, Vectors
<1>6. \A ch \in Chan : \A i \in 1..head[ch] : Entry(ch, i)' = Entry(ch, i)
  BY StoreKeeps
<1>7. Entry("trace", n + 1)' = [insn |-> insn, idx |-> 0]
  <2>1. ~(n + 1 <= tail["trace"]) /\ (n + 1) - 1 = n
    BY <1>a, <1>c
  <2>. QED  BY <1>2, <2>1 DEF Entry
<1>8. ASSUME Sampled PROVE Entry("simd", m + 1)' = [insn |-> insn, idx |-> n]
  <2>1. ~(m + 1 <= tail["simd"]) /\ (m + 1) - 1 = m
    BY <1>a, <1>c
  <2>2. buf'[<<"simd", m % SimdRingRecs>>] = [insn |-> insn, idx |-> n]
    BY <1>2, <1>8
  <2>. QED  BY <1>2, <2>1, <2>2 DEF Entry
<1>9. /\ Unbroken(Stream, n) /\ (\A q \in Threads : GoesOn(Stream, n, q, NextOf(q)))
      /\ Beside(Vectors, m, Stream, n) /\ Sampling(m, n)
      /\ n > 0 => firstPc = Stream[1].insn
  BY <1>1, <1>4, <1>c DEF OpenInv
<1>. HIDE DEF Stream, Vectors, Stored
<1>10. /\ \A i \in 1..n : Stream'[i] = Stream[i]
       /\ Stream'[n + 1] = [insn |-> insn, idx |-> 0]
       /\ \A i \in 1..m : Vectors'[i] = Vectors[i]
       /\ Sampled => Vectors'[m + 1] = [insn |-> insn, idx |-> n]
  <2>1. /\ n + 1 \in 1..(n + 1) /\ m + 1 \in 1..(m + 1)
        /\ \A i \in 1..n : i \in 1..(n + 1)
        /\ \A i \in 1..m : i \in 1..head'["simd"]
    BY <1>2, <1>c
  <2>. HIDE DEF insn
  <2>2. \A i \in 1..n : Entry("trace", i)' = Entry("trace", i)
    BY <1>6, <1>c
  <2>3. \A i \in 1..m : Entry("simd", i)' = Entry("simd", i)
    BY <1>6, <1>c
  <2>. QED  BY <1>2, <1>5, <1>7, <1>8, <2>1, <2>2, <2>3
<1>. DEFINE s == Stream
            e == Stream'
            v == Vectors
            w == Vectors'
            k == head'["simd"]
<1>11. /\ Unbroken(e, n + 1) /\ GoesOn(e, n + 1, p, insns[p] + 1)
       /\ \A q \in Threads \ {p} : GoesOn(e, n + 1, q, NextOf(q))
  <2>1. GoesOn(s, n, p, insns[p])
    BY <1>1, <1>9 DEF NextOf
  <2>2. e[n + 1].insn.by = p /\ e[n + 1].insn.n = insns[p] /\ \A i \in 1..n : e[i] = s[i]
    BY <1>10
  <2>. HIDE DEF s, e, insn
  <2>3. /\ Unbroken(e, n + 1) /\ GoesOn(e, n + 1, p, insns[p] + 1)
        /\ \A q \in Threads \ {p} : \A x : GoesOn(s, n, q, x) => GoesOn(e, n + 1, q, x)
    BY <1>9, <1>c, <2>1, <2>2, RunExtends DEF s
  <2>. QED  BY <2>3, <1>9 DEF s
<1>12. \A q \in Threads : GoesOn(e, n + 1, q, NextOf(q)')
  <2>1. NextOf(p)' = insns[p] + 1
    BY <1>1, <1>a DEF NextOf
  <2>2. \A q \in Threads \ {p} : NextOf(q)' = NextOf(q)
    BY <1>1, <1>a DEF NextOf
  <2>. QED  BY <1>11, <2>1, <2>2
<1>13. Beside(w, k, e, n + 1) /\ Sampling(k, n + 1)
  <2>a. \A i \in 1..m : /\ v[i].idx = (i - 1) * Stride
                        /\ v[i].idx < n => v[i].insn = s[v[i].idx + 1].insn
    BY <1>9 DEF Beside
  <2>b. \A i \in 1..m : (i - 1) * Stride \in Nat /\ (i - 1) * Stride < n
    <3>1. \A i \in Nat : i * Stride \in Nat
      BY WriterAssumption
    <3>2. \A i \in 1..m : i - 1 \in Nat
      BY <1>c
    <3>. QED  BY <1>9, <3>1, <3>2 DEF Sampling
  <2>c. ASSUME NEW i \in 1..m
        PROVE  /\ w[i].idx = (i - 1) * Stride
               /\ w[i].idx < n + 1 => w[i].insn = e[w[i].idx + 1].insn
    <3>1. w[i] = v[i] /\ v[i].idx = (i - 1) * Stride /\ v[i].insn = s[v[i].idx + 1].insn
      BY <1>10, <2>a, <2>b
    <3>2. (i - 1) * Stride + 1 \in 1..n
      BY <2>b, <1>c
    <3>3. e[v[i].idx + 1] = s[v[i].idx + 1]
      BY <1>10, <3>1, <3>2
    <3>. QED  BY <3>1, <3>3
  <2>1. CASE Sampled
    <3>1. k = m + 1 /\ n = m * Stride /\ Sampling(m + 1, n + 1)
      BY <1>2, <1>9, <1>c, <2>1, SampleDue DEF Sampled
    <3>2. /\ w[m + 1].idx = n /\ w[m + 1].insn = insn /\ e[n + 1].insn = insn
          /\ (m + 1) - 1 = m
      BY <1>10, <1>c, <2>1
    <3>. HIDE DEF w, k, e, insn
    <3>3. \A i \in 1..(m + 1) : i \in 1..m \/ i = m + 1
      BY <1>c
    <3>. QED  BY <2>c, <3>1, <3>2, <3>3 DEF Beside
  <2>2. CASE ~Sampled
    <3>1. k = m /\ Sampling(m, n + 1)
      BY <1>2, <1>9, <1>c, <2>2, SampleDue DEF Sampled
    <3>. HIDE DEF w, k, e, insn
    <3>. QED  BY <2>c, <3>1 DEF Beside
  <2>. QED  BY <2>1, <2>2
<1>14. firstPc' = e[1].insn
  <2>1. CASE n = 0
    BY <1>1, <1>10, <2>1
  <2>2. CASE n # 0
    BY <1>1, <1>9, <1>10, <1>c, <2>2
  <2>. QED  BY <2>1, <2>2
<1>15. agent # "open_trace"
  BY <1>1, <1>b DEF QuietInv, Quiet
<1>. QED  BY <1>2, <1>4, <1>11, <1>12, <1>13, <1>14, <1>15 DEF OpenInv

(* In every step of an open call its records go on saying what they said.    *)
LEMMA OpenStep ==
  ASSUME LogInv, LogInv', OpenInv, Next
  PROVE  OpenInv'
<1>. SUFFICES ASSUME Logging' PROVE OpenInv'
  BY DEF OpenInv
<1>. USE Channels
<1>b. TypeOK /\ RingInv /\ FdInv /\ QuietInv
  BY DEF LogInv, RingInv, FilesInv
<1>1. CASE BeginCall
  <2>1. /\ head'["trace"] = 0 /\ head'["simd"] = 0
        /\ agent = "idle" /\ UNCHANGED pc
    BY <1>1 DEF BeginCall, threads
  <2>2. ~Storing'
    BY <2>1, <1>b DEF QuietInv, Quiet, Storing
  <2>3. Stored' = 0
    BY <2>1, <2>2 DEF Stored
  <2>. HIDE DEF Stored
  <2>4. Sampling(head["simd"], Stored)'
    <3>1. 0 * Stride = 0
      BY WriterAssumption
    <3>. QED  BY <2>1, <2>3, <3>1 DEF Sampling
  <2>. HIDE DEF Stream, Vectors
  <2>5. /\ Unbroken(Stream, Stored)' /\ Beside(Vectors, head["simd"], Stream, Stored)'
        /\ \A p \in Threads : GoesOn(Stream, Stored, p, NextOf(p))'
    BY <2>1, <2>3 DEF Unbroken, Beside, GoesOn
  <2>. QED  BY <2>1, <2>3, <2>4, <2>5 DEF OpenInv
<1>2. CASE ~BeginCall
  <2>1. call' = call /\ (agent = "idle" => agent' = "idle") /\ (Failing => Failing')
    BY <1>2, <1>b, OnlyBegins, AgentPhases
  <2>2. Logging
    BY <2>1 DEF Logging
  <2>3. ASSUME NEW p \in Threads, Store(p) \/ Publish(p) PROVE OpenInv'
    BY <2>2, <2>3, OpenStore, OpenPublish
  <2>4. CASE \A p \in Threads : ~Store(p) /\ ~Publish(p)
    <3>1. Still
      BY <1>2, <2>4, StillStep
    <3>2. ASSUME \A ch \in Chan, i \in Nat \ {0} : Entry(ch, i)' = Entry(ch, i)
          PROVE  OpenInv'
      BY <2>2, <3>1, <3>2, OpenStill
    <3>3. CASE Plain
      BY <3>2, <3>3, PlainKeeps
    <3>4. ASSUME NEW ch \in Chan, Write(ch) PROVE OpenInv'
      BY <2>2, <3>2, <3>4, WriteKeeps
    <3>5. \A ch \in Chan : ~WriteAstray(ch)
      BY <1>b, <2>2, NeverAstray DEF Logging
    <3>6. ~Seal /\ ~FailCapture /\ \A ch \in Chan : ~CloseError(ch)
      BY DEF Logging, Failing, Seal, FailCapture, CloseError
    <3>. QED  BY <1>2, <2>4, <3>3, <3>4, <3>5, <3>6, KindsOfStep
  <2>. QED  BY <2>3, <2>4
<1>. QED  BY <1>1, <1>2

(* At the seal everything is in the files: they hold the records of the open *)
(* call (cmodule.ts flush_*, manifest.ts sealManifest).                      *)
LEMMA SealKeeps ==
  ASSUME LogInv, Seal
  PROVE  /\ call \in Calls /\ Logging /\ Stored = head["trace"]
         /\ Kept(call, "trace") = Stream /\ InFile(call, "trace") = Stored
         /\ Kept(call, "simd") = Vectors /\ InFile(call, "simd") = head["simd"]
<1>. USE CallNumbers, Channels
<1>b. TypeOK /\ FdInv /\ FileInv /\ SyncInv /\ QuietInv
  BY DEF LogInv, RingInv, FilesInv
<1>a. head \in [Chan -> Nat] /\ tail \in [Chan -> Nat]
  BY <1>b DEF TypeOK
<1>1. agent = "seal"
  BY DEF Seal
<1>2. call \in Calls /\ ~Failing /\ Logging
  BY <1>1, <1>b DEF FdInv, Failing, Logging
<1>3. Stored = head["trace"]
  BY <1>1, <1>b DEF QuietInv, Quiet, Storing, Stored
<1>4. \A ch \in Chan : tail[ch] = head[ch] /\ ~Draining(ch)
  BY <1>1, <1>b DEF SyncInv, SyncedPC, QuietInv, Quiet, Draining
<1>5. ASSUME NEW ch \in Chan
      PROVE  /\ InFile(call, ch) = head[ch]
             /\ Kept(call, ch) = [i \in 1..head[ch] |-> Entry(ch, i)]
  <2>1. head[ch] \in Nat /\ 0 \in 0..(RecUnits - 1) /\ tail[ch] = head[ch]
    BY <1>a, <1>4
  <2>2. Len(disk[call][ch]) = head[ch] * RecUnits + 0
    BY <1>2, <1>4, <1>b DEF FileInv, OfBatch
  <2>3. (head[ch] * RecUnits + 0) \div RecUnits = head[ch]
    BY <2>1, DividedOnce
  <2>4. InFile(call, ch) = head[ch]
    BY <2>2, <2>3 DEF InFile
  <2>5. \A i \in 1..head[ch] : Entry(ch, i) = RecordAt(disk[call][ch], i)
    BY <2>1 DEF Entry
  <2>. QED  BY <2>4, <2>5 DEF Kept
<1>. QED  BY <1>2, <1>3, <1>5 DEF Stream, Vectors

(* What the files of a sealed call say is what they said when it was open,   *)
(* and stays.                                                                *)
LEMMA SealedStep ==
  ASSUME LogInv, LogInv', OpenInv, SealedInv, Next
  PROVE  SealedInv'
<1>. USE CallNumbers, Channels
<1>. SUFFICES ASSUME NEW c \in Calls, Phase(c)' = "sealed"
              PROVE  FilesSay(c)'
  BY DEF SealedInv
<1>b. TypeOK /\ RingInv /\ FdInv /\ SealInv
  BY DEF LogInv, RingInv, FilesInv
<1>a. call \in Nat /\ c \in Nat
  BY <1>b DEF TypeOK
<1>1. CASE Phase(c) = "sealed"
  <2>1. c < call \/ (c = call /\ agent = "idle")
    BY <1>1, <1>a DEF Phase
  <2>2. sealed[c] # Unsealed
    BY <2>1 DEF LogInv, Ended
  <2>3. disk'[c] = disk[c] /\ sealed'[c] = sealed[c]
    BY <1>b, <2>2, SealedUnchanged
  <2>4. \A ch \in Chan : InFile(c, ch)' = InFile(c, ch) /\ Kept(c, ch)' = Kept(c, ch)
    BY <2>3 DEF Kept, InFile
  <2>5. FilesSay(c)
    BY <1>1 DEF SealedInv
  <2>. QED  BY <2>3, <2>4, <2>5 DEF FilesSay, Unbroken, Beside, Sampling
<1>2. CASE Phase(c) # "sealed"
  <2>1. c = call /\ Seal
    <3>1. ~(c < call) /\ ~(c = call /\ agent = "idle")
      BY <1>2, <1>a DEF Phase
    <3>2. ~(c > call') /\ (c < call' \/ agent' = "idle")
      BY DEF Phase
    <3>3. CASE BeginCall
      <4>1. agent = "idle" /\ call' = call + 1 /\ agent' = "open_trace"
        BY <3>3 DEF BeginCall, NextCall
      <4>. QED  BY <1>a, <3>1, <3>2, <4>1
    <3>4. CASE ~BeginCall
      <4>1. call' = call /\ (agent = "idle" => agent' = "idle")
        BY <1>b, <3>4, OnlyBegins
      <4>2. c = call /\ agent # "idle" /\ agent' = "idle"
        BY <1>a, <3>1, <3>2, <4>1
      <4>. QED  BY <1>b, <4>2, OnlySealEnds
    <3>. QED  BY <3>3, <3>4
  <2>2. /\ UNCHANGED disk
        /\ sealed'[c].firstPc = IF head["trace"] > 0 THEN firstPc ELSE Null
    <3>1. sealed \in [Calls -> [total : Nat, simd : Nat, firstPc : Insn \cup {Null}]
                              \cup {Unsealed}]
      BY <1>b DEF TypeOK
    <3>. QED  BY <2>1, <3>1 DEF Seal, files
  <2>3. \A ch \in Chan : InFile(c, ch)' = InFile(c, ch) /\ Kept(c, ch)' = Kept(c, ch)
    BY <2>2 DEF Kept, InFile
  <2>4. /\ Logging /\ Stored = head["trace"] /\ Stored \in Nat
        /\ Kept(c, "trace") = Stream /\ InFile(c, "trace") = Stored
        /\ Kept(c, "simd") = Vectors /\ InFile(c, "simd") = head["simd"]
    BY <2>1, <1>b, SealKeeps, StoredType
  <2>5. /\ Unbroken(Stream, Stored) /\ Beside(Vectors, head["simd"], Stream, Stored)
        /\ Sampling(head["simd"], Stored) /\ (Stored > 0 => firstPc = Stream[1].insn)
    BY <2>4 DEF OpenInv
  <2>. HIDE DEF Stored, Stream, Vectors, Kept, InFile
  <2>6. sealed'[c].firstPc = IF InFile(c, "trace") = 0 THEN Null ELSE Kept(c, "trace")[1].insn
    BY <2>2, <2>4, <2>5
  <2>. QED  BY <2>3, <2>4, <2>5, <2>6 DEF FilesSay, Unbroken, Beside, Sampling
<1>. QED  BY <1>1, <1>2


(* In every reachable state the records of a call are unbroken runs of its   *)
(* threads with what belongs to them beside: the one that is open, with the  *)
(* record that is stored and not yet published, and those that are sealed.   *)
LEMMA WriterRunsInv == Spec => []RunsInv
<1>1. Init => OpenInv /\ SealedInv
  <2>. SUFFICES ASSUME Init PROVE OpenInv /\ SealedInv
    OBVIOUS
  <2>1. call = 0
    BY DEF Init
  <2>2. ~Logging
    BY <2>1, CallNumbers DEF Logging
  <2>3. \A c \in Calls : Phase(c) = "none"
    BY <2>1, CallNumbers DEF Phase
  <2>. QED  BY <2>2, <2>3 DEF OpenInv, SealedInv
<1>2. LogInv /\ LogInv' /\ OpenInv /\ SealedInv /\ [Next]_vars => OpenInv' /\ SealedInv'
  <2>. SUFFICES ASSUME LogInv, LogInv', OpenInv, SealedInv, [Next]_vars
                PROVE  OpenInv' /\ SealedInv'
    OBVIOUS
  <2>1. CASE Next
    BY <2>1, OpenStep, SealedStep
  <2>2. CASE UNCHANGED vars
    <3>0. UNCHANGED <<head, tail, buf, disk, call, agent, active, pc, insns, firstPc, sealed>>
      BY <2>2 DEF vars, ring, files, threads
    <3>a. Stored' = Stored /\ (Logging' <=> Logging) /\ \A p \in Threads : NextOf(p)' = NextOf(p)
      BY <3>0 DEF Stored, Storing, Logging, Failing, NextOf
    <3>b. Stream' = Stream /\ Vectors' = Vectors
      BY <3>0, <3>a DEF Stream, Vectors, Entry
    <3>c. \A c \in Calls : /\ Phase(c)' = Phase(c)
                           /\ \A ch \in Chan : /\ InFile(c, ch)' = InFile(c, ch)
                                               /\ Kept(c, ch)' = Kept(c, ch)
      BY <3>0 DEF Phase, Failing, InFile, Kept
    <3>. HIDE DEF Stored, Stream, Vectors
    <3>1. OpenInv'
      BY <3>0, <3>a, <3>b DEF OpenInv, Unbroken, GoesOn, Beside, Sampling
    <3>2. SealedInv'
      <4>. SUFFICES ASSUME NEW c \in Calls, Phase(c)' = "sealed"
                    PROVE  FilesSay(c)'
        BY DEF SealedInv
      <4>1. FilesSay(c)
        BY <3>c DEF SealedInv
      <4>2. \A ch \in Chan : InFile(c, ch)' = InFile(c, ch) /\ Kept(c, ch)' = Kept(c, ch)
        BY <3>c
      <4>. QED  BY <3>0, <4>1, <4>2, Channels DEF FilesSay, Unbroken, Beside, Sampling
    <3>. QED  BY <3>1, <3>2
  <2>. QED  BY <2>1, <2>2
<1>. QED  BY <1>1, <1>2, WriterLogInv, PTL DEF Spec, RunsInv

(* So what a call holds, published or not, are unbroken runs, and what is    *)
(* kept beside them belongs to them.                                         *)
LEMMA RecordsSay ==
  ASSUME RunsInv, NEW c \in Calls
  PROVE  \E n, m \in Nat :
           LET trace == RecordsOf(c, "trace")
               simd == RecordsOf(c, "simd")
           IN  /\ Len(trace) = n /\ Len(simd) = m
               /\ Unbroken(trace, n) /\ Beside(simd, m, trace, n)
               /\ Phase(c) = "sealed" =>
                    /\ Sampling(m, n)
                    /\ sealed[c].firstPc = IF n = 0 THEN Null ELSE trace[1].insn
<1>. USE CallNumbers, Channels
<1>b. LogInv /\ OpenInv /\ SealedInv /\ TypeOK /\ FdInv
  BY DEF RunsInv, LogInv, RingInv, FilesInv
<1>a. call \in Nat /\ c \in Nat
  BY <1>b DEF TypeOK
<1>c. disk \in [Calls -> [Chan -> Seq(Unit)]]
  BY <1>b DEF TypeOK
<1>1. CASE Phase(c) = "sealed"
  <2>1. PICK n \in Nat, m \in Nat : n = InFile(c, "trace") /\ m = InFile(c, "simd")
    <3>1. \A ch \in Chan : Len(disk[c][ch]) \in Nat
      BY <1>c, LenProperties
    <3>. QED  BY <3>1, Divided DEF InFile
  <2>2. RecordsOf(c, "trace") = Kept(c, "trace") /\ RecordsOf(c, "simd") = Kept(c, "simd")
    BY <1>1 DEF RecordsOf, Kept, InFile
  <2>3. Len(Kept(c, "trace")) = n /\ Len(Kept(c, "simd")) = m
    BY <2>1, LenProperties DEF Kept
  <2>. QED  BY <1>1, <1>b, <2>1, <2>2, <2>3 DEF SealedInv, FilesSay
<1>2. CASE Phase(c) = "open"
  <2>1. c = call /\ Logging
    BY <1>2, <1>a DEF Phase, Logging
  <2>2. PICK n \in Nat, m \in Nat : n = head["trace"] /\ m = head["simd"]
    BY <1>b, StoredType
  <2>3. PICK trace, simd : trace = RecordsOf(c, "trace") /\ simd = RecordsOf(c, "simd")
    OBVIOUS
  <2>4. /\ trace = [i \in 1..n |-> Entry("trace", i)]
        /\ simd = [i \in 1..m |-> Entry("simd", i)]
    BY <1>2, <2>2, <2>3 DEF RecordsOf
  <2>5. Len(trace) = n /\ Len(simd) = m
    BY <2>4, LenProperties
  <2>6. n <= Stored /\ Stored \in Nat
    BY <1>b, <2>2, StoredType DEF Stored
  <2>7. (\A i \in 1..n : trace[i] = Stream[i]) /\ (\A i \in 1..m : simd[i] = Vectors[i])
    BY <2>2, <2>4, <2>6 DEF Stream, Vectors
  <2>8. Unbroken(Stream, Stored) /\ Beside(Vectors, m, Stream, Stored)
    BY <1>b, <2>1, <2>2 DEF OpenInv
  <2>. HIDE DEF Stream, Vectors, Stored
  <2>9. Unbroken(trace, n)
    <3>1. ASSUME NEW p \in Threads, NEW i \in 1..n, NEW j \in 1..n,
                 i < j, trace[i].insn.by = p, trace[j].insn.by = p,
                 \A k \in (i + 1)..(j - 1) : trace[k].insn.by # p
          PROVE  trace[j].insn.n = trace[i].insn.n + 1
      <4>1. i \in 1..Stored /\ j \in 1..Stored /\ \A k \in (i + 1)..(j - 1) : k \in 1..n
        BY <2>6
      <4>2. \A k \in (i + 1)..(j - 1) : Stream[k].insn.by # p
        BY <2>7, <3>1, <4>1
      <4>. QED  BY <2>7, <2>8, <3>1, <4>1, <4>2 DEF Unbroken
    <3>. QED  BY <3>1 DEF Unbroken
  <2>10. Beside(simd, m, trace, n)
    <3>1. ASSUME NEW i \in 1..m
          PROVE  /\ simd[i].idx = (i - 1) * Stride
                 /\ simd[i].idx < n => simd[i].insn = trace[simd[i].idx + 1].insn
      <4>1. /\ simd[i] = Vectors[i] /\ Vectors[i].idx = (i - 1) * Stride
            /\ Vectors[i].idx < Stored => Vectors[i].insn = Stream[Vectors[i].idx + 1].insn
        BY <2>7, <2>8 DEF Beside
      <4>2. (i - 1) * Stride \in Nat
        <5>1. i - 1 \in Nat /\ Stride \in Nat
          BY WriterAssumption
        <5>. QED  BY <5>1
      <4>3. ASSUME simd[i].idx < n PROVE simd[i].insn = trace[simd[i].idx + 1].insn
        <5>1. simd[i].idx \in Nat /\ simd[i].idx < Stored /\ simd[i].idx + 1 \in 1..n
          BY <2>6, <4>1, <4>2, <4>3
        <5>. QED  BY <2>7, <4>1, <5>1
      <4>. QED  BY <4>1, <4>3
    <3>. QED  BY <3>1 DEF Beside
  <2>. QED  BY <1>2, <2>3, <2>5, <2>9, <2>10
<1>3. CASE Phase(c) \notin {"sealed", "open"}
  <2>1. RecordsOf(c, "trace") = <<>> /\ RecordsOf(c, "simd") = <<>>
    BY <1>3 DEF RecordsOf
  <2>. QED  BY <1>3, <2>1 DEF Unbroken, Beside
<1>. QED  BY <1>1, <1>2, <1>3

(* No instruction of a followed thread is lost, duplicated or reordered: of  *)
(* every thread a call holds an unbroken run of its stream, its vectors are  *)
(* those of the sampled records, a sealed call has all of them, and its      *)
(* first pc is that of its first record (cmodule.ts on_insn, write_simd,     *)
(* drain; native_io.ts: "no dropping").                                      *)
THEOREM WriterRunsTrue == Spec => []RunsTrue
<1>1. RunsInv => RunsTrue
  <2>. SUFFICES ASSUME RunsInv PROVE RunsTrue
    OBVIOUS
  <2>a. TypeOK /\ FilesInv /\ Ended
    BY DEF RunsInv, LogInv, RingInv
  <2>1. \A c \in Calls : /\ CallState[c] = Phase(c)
                         /\ Recorded(c, "trace") = RecordsOf(c, "trace")
                         /\ Recorded(c, "simd") = RecordsOf(c, "simd")
    BY <2>a, PhaseIs, LogIs, Channels
  <2>2. UnbrokenRuns
    <3>. SUFFICES ASSUME NEW c \in Calls, NEW p \in Threads
                  PROVE  LET trace == RecordsOf(c, "trace")
                             mine(i) == trace[i].insn.by = p
                         IN  \A i, j \in 1..Len(trace) :
                               i < j /\ mine(i) /\ mine(j)
                                 /\ (\A k \in (i + 1)..(j - 1) : ~mine(k))
                                 => trace[j].insn.n = trace[i].insn.n + 1
      BY <2>1 DEF UnbrokenRuns
    <3>1. Unbroken(RecordsOf(c, "trace"), Len(RecordsOf(c, "trace")))
      BY RecordsSay
    <3>. QED  BY <3>1 DEF Unbroken
  <2>3. BesideTrace
    <3>. SUFFICES ASSUME NEW c \in Calls
                  PROVE  LET trace == RecordsOf(c, "trace")
                             simd == RecordsOf(c, "simd")
                         IN  /\ \A i \in 1..Len(simd) :
                                  /\ simd[i].idx = (i - 1) * Stride
                                  /\ simd[i].idx < Len(trace) =>
                                        simd[i].insn = trace[simd[i].idx + 1].insn
                             /\ Phase(c) = "sealed" =>
                                  /\ Len(simd) = (Len(trace) + Stride - 1) \div Stride
                                  /\ sealed[c].firstPc = IF trace = <<>> THEN Null
                                                         ELSE trace[1].insn
      BY <2>1 DEF BesideTrace
    <3>1. PICK trace, simd : trace = RecordsOf(c, "trace") /\ simd = RecordsOf(c, "simd")
      OBVIOUS
    <3>2. PICK n, m \in Nat :
            /\ Len(trace) = n /\ Len(simd) = m /\ Beside(simd, m, trace, n)
            /\ Phase(c) = "sealed" =>
                 /\ Sampling(m, n)
                 /\ sealed[c].firstPc = IF n = 0 THEN Null ELSE trace[1].insn
      BY <3>1, RecordsSay
    <3>3. Phase(c) = "sealed" => m = (n + Stride - 1) \div Stride
      BY <3>2, SampleCount
    <3>4. trace = <<>> <=> n = 0
      BY <3>1, <3>2
    <3>. QED  BY <3>1, <3>2, <3>3, <3>4 DEF Beside
  <2>. QED  BY <2>a, <2>2, <2>3 DEF RunsTrue
<1>. QED  BY <1>1, WriterRunsInv, PTL
==============================================================================
