-------------------------- MODULE EventStreamProofs --------------------------
(***************************************************************************)
(* Proofs about EventStream: whatever the threads, batches, short writes   *)
(* and calls, a file a sealed manifest lists is final and holds every      *)
(* batch in its order; two threads in one call keep theirs; and the        *)
(* semantic stream is a RecordLog that its manifest tells the truth about. *)
(***************************************************************************)
EXTENDS EventStream, SequenceTheorems, TLAPS

-------------------------------------------------------------------------------
(* Lines and their units.                                                   *)

(* A number is its quotient and its rest.                                   *)
LEMMA Divided ==
  ASSUME NEW n \in Nat, NEW d \in Nat \ {0}
  PROVE  /\ n \div d \in Nat /\ n % d \in 0..(d - 1)
         /\ n = (n \div d) * d + (n % d)
OBVIOUS

(* And it has one quotient and one rest.                                    *)
LEMMA DividedOnce ==
  ASSUME NEW d \in Nat \ {0}, NEW q \in Nat, NEW r \in 0..(d - 1)
  PROVE  (q * d + r) \div d = q /\ (q * d + r) % d = r
<1>. DEFINE n == q * d + r
            p == n \div d
            s == n % d
<1>1. n \in Nat
  OBVIOUS
<1>2. p \in Nat /\ s \in 0..(d - 1) /\ n = p * d + s
  BY <1>1, Divided
<1>. HIDE DEF p, s
<1>3. ~(p > q)
  <2>. SUFFICES ASSUME p > q PROVE FALSE
    OBVIOUS
  <2>1. PICK k \in Nat : p = q + 1 + k
    BY <1>2
  <2>2. p * d = q * d + d + k * d /\ k * d \in Nat
    BY <2>1
  <2>. QED  BY <1>2, <2>2
<1>4. ~(p < q)
  <2>. SUFFICES ASSUME p < q PROVE FALSE
    OBVIOUS
  <2>1. PICK k \in Nat : q = p + 1 + k
    BY <1>2
  <2>2. q * d = p * d + d + k * d /\ k * d \in Nat
    BY <2>1, <1>2
  <2>. QED  BY <1>2, <2>2
<1>. QED  BY <1>2, <1>3, <1>4 DEF p, s

(* A unit lies in the line of one of n events.                              *)
Line(k) == ((k - 1) \div LineUnits) + 1

(* The unit's line and its place in that line give the unit's number.       *)
LEMMA LineIs ==
  ASSUME NEW n \in Nat, NEW k \in 1..(n * LineUnits)
  PROVE  /\ Line(k) \in 1..n /\ (k - 1) % LineUnits \in 0..(LineUnits - 1)
         /\ k = (Line(k) - 1) * LineUnits + ((k - 1) % LineUnits) + 1
<1>. DEFINE p == (k - 1) \div LineUnits
            s == (k - 1) % LineUnits
<1>1. LineUnits \in Nat \ {0} /\ k - 1 \in Nat
  BY StreamAssumption
<1>2. p \in Nat /\ s \in 0..(LineUnits - 1) /\ k - 1 = p * LineUnits + s
  BY <1>1, Divided
<1>. HIDE DEF p, s
<1>3. p < n
  <2>. SUFFICES ASSUME p >= n PROVE FALSE
    BY <1>2
  <2>1. PICK j \in Nat : p = n + j
    BY <1>2
  <2>2. p * LineUnits = n * LineUnits + j * LineUnits /\ j * LineUnits \in Nat
    BY <2>1, <1>1
  <2>3. n * LineUnits \in Nat
    BY <1>1
  <2>. QED  BY <1>1, <1>2, <2>2, <2>3
<1>. QED  BY <1>1, <1>2, <1>3 DEF Line, p, s

(* The text of a sequence of events is a sequence of units.                 *)
LEMMA TextIs ==
  ASSUME NEW s \in Seq(Event)
  PROVE  /\ Text(s) \in Seq(Unit) /\ Len(Text(s)) = Len(s) * LineUnits
         /\ DOMAIN Text(s) = 1..(Len(s) * LineUnits)
         /\ \A k \in 1..(Len(s) * LineUnits) :
              Text(s)[k] = [ev |-> s[Line(k)], u |-> (k - 1) % LineUnits]
<1>1. Len(s) \in Nat /\ LineUnits \in Nat /\ Len(s) * LineUnits \in Nat
  BY StreamAssumption
<1>2. /\ DOMAIN Text(s) = 1..(Len(s) * LineUnits)
      /\ \A k \in 1..(Len(s) * LineUnits) :
           Text(s)[k] = [ev |-> s[Line(k)], u |-> (k - 1) % LineUnits]
  BY DEF Text, Line
<1>3. ASSUME NEW k \in 1..(Len(s) * LineUnits)
      PROVE  Text(s)[k] \in Unit
  <2>1. Line(k) \in 1..Len(s) /\ (k - 1) % LineUnits \in 0..(LineUnits - 1)
    BY <1>1, LineIs
  <2>2. s[Line(k)] \in Event
    BY <2>1
  <2>. QED  BY <1>2, <2>1, <2>2 DEF Unit
<1>4. Text(s) = [k \in 1..(Len(s) * LineUnits) |-> Text(s)[k]]
  BY DEF Text
<1>5. Text(s) \in [1..(Len(s) * LineUnits) -> Unit]
  BY <1>2, <1>3, <1>4
<1>. QED  BY <1>1, <1>2, <1>5, LenProperties, SeqDef

(* Each unit of each event is at its place in the text.                     *)
LEMMA UnitAt ==
  ASSUME NEW s \in Seq(Event), NEW i \in 1..Len(s), NEW u \in 0..(LineUnits - 1)
  PROVE  /\ (i - 1) * LineUnits + u + 1 \in 1..(Len(s) * LineUnits)
         /\ Text(s)[(i - 1) * LineUnits + u + 1] = [ev |-> s[i], u |-> u]
<1>. DEFINE k == (i - 1) * LineUnits + u + 1
<1>1. LineUnits \in Nat \ {0} /\ Len(s) \in Nat /\ i - 1 \in Nat
  BY StreamAssumption
<1>2. (i - 1) * LineUnits \in Nat /\ k - 1 = (i - 1) * LineUnits + u
  BY <1>1
<1>3. (k - 1) \div LineUnits = i - 1 /\ (k - 1) % LineUnits = u
  BY <1>1, <1>2, DividedOnce
<1>4. k <= Len(s) * LineUnits
  <2>1. PICK j \in Nat : Len(s) = i + j
    BY <1>1
  <2>2. Len(s) * LineUnits = (i - 1) * LineUnits + LineUnits + j * LineUnits
    BY <1>1, <2>1
  <2>3. j * LineUnits \in Nat
    BY <1>1
  <2>. QED  BY <1>1, <1>2, <2>2, <2>3
<1>5. k \in 1..(Len(s) * LineUnits) /\ Line(k) = i
  BY <1>1, <1>2, <1>3, <1>4 DEF Line
<1>. QED  BY <1>3, <1>5, TextIs

(* A text that is longer begins with the text of what it began with.        *)
LEMMA TextGrows ==
  ASSUME NEW s \in Seq(Event), NEW r \in Seq(Event), Len(s) <= Len(r),
         \A i \in 1..Len(s) : r[i] = s[i]
  PROVE  /\ Len(Text(s)) <= Len(Text(r))
         /\ \A k \in 1..Len(Text(s)) : Text(r)[k] = Text(s)[k]
<1>1. LineUnits \in Nat /\ Len(s) \in Nat /\ Len(r) \in Nat
  BY StreamAssumption
<1>2. Len(s) * LineUnits <= Len(r) * LineUnits /\ Len(s) * LineUnits \in Nat
  <2>. DEFINE j == Len(r) - Len(s)
  <2>1. j \in Nat /\ Len(r) = Len(s) + j
    BY <1>1
  <2>. HIDE DEF j
  <2>2. Len(r) * LineUnits = Len(s) * LineUnits + j * LineUnits
    BY <1>1, <2>1
  <2>3. j * LineUnits \in Nat
    BY <1>1, <2>1
  <2>4. Len(s) * LineUnits \in Nat
    BY <1>1
  <2>. QED  BY <2>2, <2>3, <2>4
<1>3. ASSUME NEW k \in 1..(Len(s) * LineUnits)
      PROVE  Text(r)[k] = Text(s)[k]
  <2>1. Line(k) \in 1..Len(s)
    BY <1>1, LineIs
  <2>2. k \in 1..(Len(r) * LineUnits)
    <3>1. Len(r) * LineUnits \in Nat
      BY <1>1
    <3>. QED  BY <1>2, <3>1
  <2>3. r[Line(k)] = s[Line(k)]
    BY <2>1
  <2>. QED  BY <2>2, <2>3, TextIs
<1>4. Len(Text(s)) = Len(s) * LineUnits /\ Len(Text(r)) = Len(r) * LineUnits
  BY TextIs
<1>. QED  BY <1>2, <1>3, <1>4

-------------------------------------------------------------------------------
(* What the arrays are after a step.                                        *)

(* A new array is current, and empty.                                       *)
LEMMA NewArray ==
  ASSUME NEW s \in Seq(Seq(Event)), NEW new, new = Append(s, <<>>)
  PROVE  /\ new \in Seq(Seq(Event)) /\ Len(new) = Len(s) + 1 /\ Len(s) \in Nat
         /\ DOMAIN new = 1..(Len(s) + 1) /\ DOMAIN s = 1..Len(s)
         /\ new[Len(s) + 1] = <<>> /\ \A a \in 1..Len(s) : new[a] = s[a]
<1>1. <<>> \in Seq(Event)
  OBVIOUS
<1>2. new \in Seq(Seq(Event)) /\ Len(new) = Len(s) + 1
  BY <1>1, AppendProperties
<1>. QED  BY <1>1, <1>2, AppendProperties, LenProperties

(* Or one array has other events than before.                               *)
LEMMA OtherArray ==
  ASSUME NEW s \in Seq(Seq(Event)), NEW arr \in 1..Len(s), NEW events \in Seq(Event),
         NEW new, new = [s EXCEPT ![arr] = events]
  PROVE  /\ new \in Seq(Seq(Event)) /\ Len(new) = Len(s) /\ Len(s) \in Nat
         /\ DOMAIN new = 1..Len(s) /\ DOMAIN s = 1..Len(s)
         /\ new[arr] = events /\ \A a \in 1..Len(s) : a # arr => new[a] = s[a]
<1>1. new \in Seq(Seq(Event)) /\ Len(new) = Len(s)
  BY ExceptSeq
<1>. QED  BY <1>1, LenProperties

-------------------------------------------------------------------------------
(* Whatever races.                                                          *)

\* A manifest is begun in every call, and what a thread is to create is the file of the call
\* that it saw, or of an earlier one.
CallNumbers ==
  /\ manifest = (IF phase = "begin" THEN call - 1 ELSE call)
  /\ phase # "none" => call > 0
  /\ call <= kind.calls

Aimed(t) ==
  /\ pc[t] # "out" => job[t].arr \in 1..Len(arrays) /\ job[t].file \in Calls
  /\ pc[t] = "open" =>
       /\ job[t].manifest \in 1..manifest /\ job[t].file <= call
       /\ job[t].manifest <= job[t].file /\ job[t].file <= job[t].manifest + 1
JobsAim == \A t \in Threads : Aimed(t)

\* The current file is one of this manifest, and a sealed manifest lists a closed file.
StreamOpen == stream # 0 => stream \in exists /\ manifest <= stream /\ stream <= call
ListedClosed ==
  \A c \in Calls : listed[c] # NotListed =>
    c \in fdClosed /\ (c < call \/ (c = call /\ phase \in {"end", "none"}))

StreamInv == TypeOK /\ arrays # <<>> /\ CallNumbers /\ JobsAim /\ StreamOpen /\ ListedClosed

(* What the constants are.                                                  *)
LEMMA Constants ==
  /\ Batch \in Nat \ {0} /\ MaxEvents \in Nat /\ MaxCalls \in Nat \ {0}
  /\ LineUnits \in Nat \ {0} /\ Calls = 1..MaxCalls /\ Primary \in Threads
  /\ \A k \in Kinds : /\ k.guarded \in BOOLEAN /\ k.pushers \subseteq Threads
                      /\ k.events \in 0..MaxEvents /\ k.calls \in 1..MaxCalls
BY StreamAssumption DEF Calls

(* The current array holds events, and one more event makes another.        *)
LEMMA CurrentIs ==
  ASSUME TypeOK, arrays # <<>>
  PROVE  /\ Len(arrays) \in 1..Len(arrays) /\ Current \in Seq(Event)
         /\ Len(Current) \in Nat /\ Len(arrays) \in Nat
<1>1. arrays \in Seq(Seq(Event))
  BY DEF TypeOK
<1>2. Len(arrays) \in Nat /\ Len(arrays) # 0
  BY <1>1, EmptySeq, LenProperties
<1>3. arrays[Len(arrays)] \in Seq(Event)
  BY <1>1, <1>2, ElementOfSeq
<1>. QED  BY <1>2, <1>3, LenProperties DEF Current

\* The two things Persist does to an array, and how it hands the array to a flush.
NewJob(arr, events) ==
  [arr |-> arr, text |-> IF stream = 0 THEN <<>> ELSE Text(events), done |-> 0,
   file |-> IF stream = 0 THEN call ELSE stream, manifest |-> manifest]
Enters(t, events) ==
  /\ manifest # 0 /\ stream \notin fdClosed
  /\ pc' = [pc EXCEPT ![t] = IF stream = 0 THEN "open" ELSE "write"]
  /\ job' = [job EXCEPT ![t] = NewJob(Len(arrays), events)]
Drops == manifest = 0 /\ arrays' = Append(arrays, <<>>) /\ UNCHANGED <<pc, job>>
Stores(t, events) ==
  /\ arrays' = [arrays EXCEPT ![Len(arrays)] = events]
  /\ UNCHANGED <<pc, job>> \/ Enters(t, events)

NewEvent(t) == [by |-> t, n |-> pushed[t] + 1]

(* A hook stores its event at the end of the current array.                 *)
LEMMA PushDoes ==
  ASSUME StreamInv, NEW t \in Threads, Push(t)
  PROVE  /\ pc[t] = "out" /\ t \in kind.pushers /\ (Guarded => Window)
         /\ t = Primary => phase \in {"none", "run"}
         /\ pushed[t] < kind.events /\ NewEvent(t) \in Event
         /\ pushed' = [pushed EXCEPT ![t] = @ + 1]
         /\ Append(Current, NewEvent(t)) \in Seq(Event)
         /\ Drops \/ Stores(t, Append(Current, NewEvent(t)))
         /\ UNCHANGED <<callVars, stream, count, fileVars, listed>>
<1>1. Current \in Seq(Event) /\ Len(arrays) \in Nat
  BY CurrentIs DEF StreamInv
<1>2. kind.events \in 0..MaxEvents /\ MaxEvents \in Nat
  BY Constants DEF StreamInv, TypeOK
<1>3. pushed[t] \in Nat /\ pushed[t] < kind.events
  BY DEF StreamInv, TypeOK, Push
<1>4. NewEvent(t) \in Event
  BY <1>2, <1>3 DEF Event, NewEvent
<1>5. Append(Current, NewEvent(t)) \in Seq(Event)
  BY <1>1, <1>4, AppendProperties
<1>6. Drops \/ Stores(t, Append(Current, NewEvent(t)))
  BY DEF Push, Persist, Drops, Stores, Enters, NewEvent, NewJob
<1>. QED  BY <1>3, <1>4, <1>5, <1>6 DEF Push

(* The primary thread flushes the current array when it leaves.             *)
LEMMA LeaveDoes ==
  ASSUME StreamInv, Leave
  PROVE  /\ phase = "run" /\ phase' = "leave" /\ pc[Primary] = "out"
         /\ Current \in Seq(Event) /\ pushed' = pushed
         /\ \/ Current = <<>> /\ UNCHANGED <<arrays, pc, job>>
            \/ Current # <<>> /\ (Drops \/ Stores(Primary, Current))
         /\ UNCHANGED <<kind, call, manifest, stream, count, fileVars, listed>>
<1>1. Current \in Seq(Event)
  BY CurrentIs DEF StreamInv
<1>. QED  BY <1>1 DEF Leave, Persist, Drops, Stores, Enters, NewJob

(* Storing events keeps what is said of the threads and the arrays.         *)
LEMMA StoreKeeps ==
  ASSUME StreamInv, NEW t \in Threads, NEW events \in Seq(Event), Drops \/ Stores(t, events),
         pc[t] = "out", UNCHANGED <<kind, call, manifest, stream, exists>>
  PROVE  /\ arrays' \in Seq(Seq(Event)) /\ arrays' # <<>> /\ Len(arrays') \in Nat
         /\ Len(arrays) <= Len(arrays') /\ Len(arrays) \in 1..Len(arrays)
         /\ pc' \in [Threads -> {"out", "open", "retry", "write"}]
         /\ job' \in [Threads -> [arr : Nat, text : Seq(Unit), done : Nat,
                                  file : 0..MaxCalls, manifest : 0..MaxCalls]]
         /\ JobsAim'
<1>1. /\ Len(arrays) \in 1..Len(arrays) /\ arrays \in Seq(Seq(Event))
      /\ call \in 0..MaxCalls /\ manifest \in 0..MaxCalls /\ stream \in 0..MaxCalls
      /\ manifest <= call /\ (manifest # 0 => call \in Calls)
  <2>1. call \in 0..MaxCalls /\ manifest \in 0..MaxCalls /\ MaxCalls \in Nat
    BY Constants DEF StreamInv, TypeOK
  <2>2. manifest <= call /\ (manifest # 0 => call \in Calls)
    BY <2>1, Constants DEF StreamInv, CallNumbers
  <2>3. Len(arrays) \in 1..Len(arrays)
    BY CurrentIs DEF StreamInv
  <2>. QED  BY <2>1, <2>2, <2>3 DEF StreamInv, TypeOK
<1>2. CASE Drops
  <2>1. arrays' \in Seq(Seq(Event)) /\ Len(arrays') = Len(arrays) + 1 /\ Len(arrays) \in Nat
    BY <1>1, <1>2, NewArray DEF Drops
  <2>2. arrays' # <<>> /\ Len(arrays) <= Len(arrays') /\ Len(arrays') \in Nat
    BY <2>1, EmptySeq
  <2>3. pc' = pc /\ job' = job
    BY <1>2 DEF Drops
  <2>4. JobsAim'
    BY <2>1, <2>2, <2>3 DEF StreamInv, JobsAim, Aimed
  <2>. QED  BY <1>1, <2>1, <2>2, <2>3, <2>4 DEF StreamInv, TypeOK
<1>3. CASE Stores(t, events)
  <2>1. arrays' \in Seq(Seq(Event)) /\ Len(arrays') = Len(arrays) /\ Len(arrays) \in Nat
    BY <1>1, <1>3, OtherArray DEF Stores
  <2>2. arrays' # <<>> /\ Len(arrays) <= Len(arrays') /\ Len(arrays') \in Nat
    BY <1>1, <2>1, EmptySeq
  <2>3. CASE UNCHANGED <<pc, job>>
    <3>1. JobsAim'
      BY <2>1, <2>3 DEF StreamInv, JobsAim, Aimed
    <3>. QED  BY <1>1, <2>1, <2>2, <2>3, <3>1 DEF StreamInv, TypeOK
  <2>4. CASE Enters(t, events)
    <3>1. NewJob(Len(arrays), events) \in [arr : Nat, text : Seq(Unit), done : Nat,
                                           file : 0..MaxCalls, manifest : 0..MaxCalls]
      <4>1. Text(events) \in Seq(Unit) /\ <<>> \in Seq(Unit)
        BY TextIs
      <4>. QED  BY <1>1, <2>1, <4>1 DEF NewJob
    <3>2. /\ pc' \in [Threads -> {"out", "open", "retry", "write"}]
          /\ job' \in [Threads -> [arr : Nat, text : Seq(Unit), done : Nat,
                                   file : 0..MaxCalls, manifest : 0..MaxCalls]]
      BY <2>4, <3>1 DEF StreamInv, TypeOK, Enters
    <3>3. /\ pc'[t] = (IF stream = 0 THEN "open" ELSE "write")
          /\ job'[t] = NewJob(Len(arrays), events)
          /\ \A o \in Threads : o # t => pc'[o] = pc[o] /\ job'[o] = job[o]
      BY <2>4 DEF StreamInv, TypeOK, Enters
    <3>4. Aimed(t)'
      <4>1. manifest \in 1..call /\ call \in Calls
        BY <1>1, <2>4 DEF Enters
      <4>2. call <= manifest + 1
        BY <1>1 DEF StreamInv, CallNumbers
      <4>3. stream # 0 => stream \in Calls
        BY <1>1, Constants
      <4>. QED  BY <1>1, <2>1, <3>3, <4>1, <4>2, <4>3 DEF Aimed, NewJob
    <3>5. ASSUME NEW o \in Threads, o # t
          PROVE  Aimed(o)'
      BY <2>1, <3>3, <3>5 DEF StreamInv, JobsAim, Aimed
    <3>. QED  BY <1>1, <2>1, <2>2, <3>2, <3>4, <3>5 DEF JobsAim
  <2>. QED  BY <1>3, <2>3, <2>4 DEF Stores
<1>. QED  BY <1>2, <1>3

(* At first no thread is in a flush, and no file exists.                    *)
LEMMA StreamBegins == Init => StreamInv
<1>. SUFFICES ASSUME Init PROVE StreamInv
  OBVIOUS
<1>1. arrays \in Seq(Seq(Event)) /\ arrays # <<>> /\ <<>> \in Seq(Unit)
  BY DEF Init
<1>2. kind \in Kinds /\ kind.calls \in 1..MaxCalls /\ MaxCalls \in Nat /\ MaxEvents \in Nat
  BY Constants DEF Init
<1>3. TypeOK
  BY <1>1, <1>2 DEF Init, TypeOK, Idle
<1>4. CallNumbers /\ JobsAim /\ StreamOpen /\ ListedClosed
  BY <1>2 DEF Init, CallNumbers, JobsAim, Aimed, StreamOpen, ListedClosed
<1>. QED  BY <1>1, <1>3, <1>4 DEF StreamInv

(* Pushing and leaving keep it,                                             *)
LEMMA PushKeeps ==
  ASSUME StreamInv, NEW t \in Threads, Push(t)
  PROVE  StreamInv'
<1>. DEFINE events == Append(Current, NewEvent(t))
<1>1. /\ pc[t] = "out" /\ NewEvent(t) \in Event /\ events \in Seq(Event)
      /\ pushed[t] < kind.events /\ pushed' = [pushed EXCEPT ![t] = @ + 1]
      /\ Drops \/ Stores(t, events)
      /\ UNCHANGED <<callVars, stream, count, fileVars, listed>>
  BY PushDoes
<1>. HIDE DEF events
<1>2. UNCHANGED <<kind, phase, call, manifest, file, exists, fdClosed, written>>
  BY <1>1 DEF callVars, fileVars
<1>3. /\ arrays' \in Seq(Seq(Event)) /\ arrays' # <<>>
      /\ pc' \in [Threads -> {"out", "open", "retry", "write"}]
      /\ job' \in [Threads -> [arr : Nat, text : Seq(Unit), done : Nat,
                               file : 0..MaxCalls, manifest : 0..MaxCalls]]
      /\ JobsAim'
  BY <1>1, <1>2, StoreKeeps
<1>4. pushed' \in [Threads -> 0..MaxEvents]
  <2>1. kind.events \in 0..MaxEvents /\ MaxEvents \in Nat
    BY Constants DEF StreamInv, TypeOK
  <2>2. pushed \in [Threads -> 0..MaxEvents]
    BY DEF StreamInv, TypeOK
  <2>3. pushed[t] \in Nat /\ pushed[t] < kind.events
    BY <1>1, <2>1, <2>2
  <2>4. pushed[t] + 1 \in 0..MaxEvents
    BY <2>1, <2>3
  <2>5. pushed' = [pushed EXCEPT ![t] = pushed[t] + 1]
    BY <1>1
  <2>. QED  BY <2>2, <2>4, <2>5
<1>5. TypeOK'
  BY <1>1, <1>2, <1>3, <1>4 DEF StreamInv, TypeOK
<1>. QED  BY <1>1, <1>2, <1>3, <1>5 DEF StreamInv, CallNumbers, StreamOpen, ListedClosed

(* The flush that session end starts, or its absence, keeps the stream's facts.*)
LEMMA LeaveKeeps ==
  ASSUME StreamInv, Leave
  PROVE  StreamInv'
<1>1. /\ phase = "run" /\ phase' = "leave" /\ pc[Primary] = "out"
      /\ Current \in Seq(Event) /\ pushed' = pushed
      /\ \/ Current = <<>> /\ UNCHANGED <<arrays, pc, job>>
         \/ Drops \/ Stores(Primary, Current)
      /\ UNCHANGED <<kind, call, manifest, stream, count, file, exists, fdClosed, written, listed>>
  BY LeaveDoes DEF fileVars
<1>2. /\ arrays' \in Seq(Seq(Event)) /\ arrays' # <<>>
      /\ pc' \in [Threads -> {"out", "open", "retry", "write"}]
      /\ job' \in [Threads -> [arr : Nat, text : Seq(Unit), done : Nat,
                               file : 0..MaxCalls, manifest : 0..MaxCalls]]
      /\ JobsAim'
  <2>1. CASE UNCHANGED <<arrays, pc, job>>
    BY <1>1, <2>1 DEF StreamInv, TypeOK, JobsAim, Aimed
  <2>2. CASE Drops \/ Stores(Primary, Current)
    BY <1>1, <2>2, Constants, StoreKeeps
  <2>. QED  BY <1>1, <2>1, <2>2
<1>3. TypeOK'
  BY <1>1, <1>2 DEF StreamInv, TypeOK
<1>. QED  BY <1>1, <1>2, <1>3 DEF StreamInv, CallNumbers, StreamOpen, ListedClosed

(* and so does every step of a flush,                                       *)
LEMMA CreateKeeps ==
  ASSUME StreamInv, NEW t \in Threads, Create(t)
  PROVE  StreamInv'
<1>. DEFINE f == job[t].file
<1>1. /\ pc[t] = "open" /\ f \in Calls /\ f \notin exists /\ exists' = exists \cup {f}
      /\ job[t].arr \in 1..Len(arrays) /\ job[t].manifest \in 1..manifest /\ f <= call
      /\ job[t].manifest <= f
      /\ stream' = (IF job[t].manifest = manifest THEN f ELSE stream)
      /\ job' = [job EXCEPT ![t].text = Text(arrays[job[t].arr])]
      /\ pc' = [pc EXCEPT ![t] = "write"]
      /\ UNCHANGED <<kind, phase, call, manifest, arrays, count, file, fdClosed, written, listed,
                     pushed>>
  BY DEF Create, Registers, StreamInv, JobsAim, Aimed, callVars
<1>2. Text(arrays[job[t].arr]) \in Seq(Unit)
  <2>1. arrays[job[t].arr] \in Seq(Event)
    BY <1>1, ElementOfSeq DEF StreamInv, TypeOK
  <2>. QED  BY <2>1, TextIs
<1>3. TypeOK'
  <2>1. f \in 0..MaxCalls /\ stream' \in 0..MaxCalls
    BY <1>1, Constants DEF StreamInv, TypeOK
  <2>2. job' \in [Threads -> [arr : Nat, text : Seq(Unit), done : Nat,
                               file : 0..MaxCalls, manifest : 0..MaxCalls]]
    BY <1>1, <1>2 DEF StreamInv, TypeOK
  <2>3. pc' \in [Threads -> {"out", "open", "retry", "write"}]
    BY <1>1 DEF StreamInv, TypeOK
  <2>. QED  BY <1>1, <2>1, <2>2, <2>3 DEF StreamInv, TypeOK
<1>4. StreamOpen'
  BY <1>1 DEF StreamInv, StreamOpen
<1>5. JobsAim'
  <2>1. \A o \in Threads : /\ job'[o].arr = job[o].arr /\ job'[o].file = job[o].file
                           /\ job'[o].manifest = job[o].manifest
                           /\ pc'[o] = (IF o = t THEN "write" ELSE pc[o])
    BY <1>1 DEF StreamInv, TypeOK
  <2>. QED  BY <1>1, <2>1 DEF StreamInv, JobsAim, Aimed
<1>. QED  BY <1>1, <1>3, <1>4, <1>5 DEF StreamInv, CallNumbers, ListedClosed

(* A flush that finds no file to open leaves the stream's facts as they are.*)
LEMMA OpenFailsKeeps ==
  ASSUME StreamInv, NEW t \in Threads, OpenFails(t)
  PROVE  StreamInv'
<1>1. /\ pc[t] = "open" /\ pc' = [pc EXCEPT ![t] = IF Window THEN "retry" ELSE "out"]
      /\ UNCHANGED <<kind, phase, call, manifest, arrays, stream, count, file, exists, fdClosed,
                     written, listed, job, pushed>>
  BY DEF OpenFails, callVars, fileVars
<1>2. TypeOK'
  <2>1. pc' \in [Threads -> {"out", "open", "retry", "write"}]
    BY <1>1 DEF StreamInv, TypeOK
  <2>. QED  BY <1>1, <2>1 DEF StreamInv, TypeOK
<1>3. JobsAim'
  <2>1. \A o \in Threads : o # t => pc'[o] = pc[o]
    BY <1>1 DEF StreamInv, TypeOK
  <2>2. pc'[t] \in {"retry", "out"}
    BY <1>1 DEF StreamInv, TypeOK
  <2>. QED  BY <1>1, <2>1, <2>2 DEF StreamInv, JobsAim, Aimed
<1>. QED  BY <1>1, <1>2, <1>3 DEF StreamInv, CallNumbers, StreamOpen, ListedClosed

(* A write appends a part of the text to the file it goes to.               *)
LEMMA WriteDoes ==
  ASSUME StreamInv, NEW t \in Threads, WriteUnits(t)
  PROVE  /\ pc[t] = "write" /\ job[t].file \in Calls /\ job[t].file \notin fdClosed
         /\ job[t].done < Len(job[t].text) /\ job[t].text \in Seq(Unit)
         /\ UNCHANGED <<kind, phase, call, manifest, arrays, stream, count, exists, fdClosed,
                        listed, pc, pushed>>
         /\ \E n \in 1..(Len(job[t].text) - job[t].done) :
              /\ SubSeq(job[t].text, job[t].done + 1, job[t].done + n) \in Seq(Unit)
              /\ file' = [file EXCEPT ![job[t].file] =
                            @ \o SubSeq(job[t].text, job[t].done + 1, job[t].done + n)]
              /\ job' = [job EXCEPT ![t].done = @ + n]
              /\ \/ written' = [written EXCEPT ![job[t].file] = @ + n]
                 \/ /\ \E u \in Threads \ {t} : pc[u] = "write" /\ job[u].file = job[t].file
                    /\ UNCHANGED written
<1>1. /\ pc[t] = "write" /\ job[t].file \in Calls /\ job[t].file \notin fdClosed
      /\ job[t].done < Len(job[t].text)
      /\ UNCHANGED <<kind, phase, call, manifest, arrays, stream, count, exists, fdClosed,
                     listed, pc, pushed>>
  BY DEF WriteUnits, Writable, callVars, StreamInv, JobsAim, Aimed
<1>2. job[t].text \in Seq(Unit) /\ job[t].done \in Nat
  BY DEF StreamInv, TypeOK
<1>3. ASSUME NEW n \in 1..(Len(job[t].text) - job[t].done)
      PROVE  SubSeq(job[t].text, job[t].done + 1, job[t].done + n) \in Seq(Unit)
  <2>1. Len(job[t].text) \in Nat
    BY <1>2, LenProperties
  <2>2. job[t].done + 1 \in 1..(Len(job[t].text) + 1) /\ job[t].done + n \in 0..Len(job[t].text)
    BY <1>2, <2>1
  <2>. QED  BY <1>2, <2>2, SubSeqProperties
<1>. QED  BY <1>1, <1>2, <1>3 DEF WriteUnits

(* One write, whole or short, lengthens one file of a call by units.        *)
LEMMA WriteKeeps ==
  ASSUME StreamInv, NEW t \in Threads, WriteUnits(t)
  PROVE  StreamInv'
<1>. DEFINE f == job[t].file
            part(n) == SubSeq(job[t].text, job[t].done + 1, job[t].done + n)
<1>1. /\ pc[t] = "write" /\ f \in Calls
      /\ UNCHANGED <<kind, phase, call, manifest, arrays, stream, count, exists, fdClosed,
                     listed, pc, pushed>>
  BY WriteDoes
<1>2. PICK n \in 1..(Len(job[t].text) - job[t].done) :
        /\ part(n) \in Seq(Unit) /\ file' = [file EXCEPT ![f] = @ \o part(n)]
        /\ job' = [job EXCEPT ![t].done = @ + n]
        /\ written' = [written EXCEPT ![f] = @ + n] \/ UNCHANGED written
  BY WriteDoes
<1>. HIDE DEF part
<1>3. n \in Nat
  <2>1. job[t].text \in Seq(Unit) /\ job[t].done \in Nat
    BY DEF StreamInv, TypeOK
  <2>2. Len(job[t].text) \in Nat
    BY <2>1, LenProperties
  <2>. QED  BY <2>1, <2>2
<1>4. file' \in [Calls -> Seq(Unit)]
  <2>1. file \in [Calls -> Seq(Unit)] /\ file[f] \o part(n) \in Seq(Unit)
    BY <1>1, <1>2, ConcatProperties DEF StreamInv, TypeOK
  <2>. QED  BY <1>2, <2>1
<1>5. written' \in [Calls -> Nat]
  <2>1. written \in [Calls -> Nat]
    BY DEF StreamInv, TypeOK
  <2>2. written[f] + n \in Nat
    BY <1>1, <1>3, <2>1
  <2>. QED  BY <1>2, <2>1, <2>2
<1>6. job' \in [Threads -> [arr : Nat, text : Seq(Unit), done : Nat,
                            file : 0..MaxCalls, manifest : 0..MaxCalls]]
  <2>1. job[t].done + n \in Nat
    BY <1>3 DEF StreamInv, TypeOK
  <2>. QED  BY <1>2, <2>1 DEF StreamInv, TypeOK
<1>7. TypeOK'
  BY <1>1, <1>4, <1>5, <1>6 DEF StreamInv, TypeOK
<1>8. JobsAim'
  <2>1. \A o \in Threads : /\ job'[o].arr = job[o].arr /\ job'[o].file = job[o].file
                           /\ job'[o].manifest = job[o].manifest
    BY <1>2 DEF StreamInv, TypeOK
  <2>. QED  BY <1>1, <2>1 DEF StreamInv, JobsAim, Aimed
<1>. QED  BY <1>1, <1>7, <1>8 DEF StreamInv, CallNumbers, StreamOpen, ListedClosed

(* The end of a flush puts a new, empty array in the place of the stored one.*)
LEMMA FinishKeeps ==
  ASSUME StreamInv, NEW t \in Threads, FinishFlush(t)
  PROVE  StreamInv'
<1>1. /\ pc[t] = "write" /\ count' = count + Len(arrays[job[t].arr])
      /\ job[t].arr \in 1..Len(arrays)
      /\ arrays' = Append(arrays, <<>>) /\ pc' = [pc EXCEPT ![t] = "out"]
      /\ job' = [job EXCEPT ![t] = Idle]
      /\ UNCHANGED <<kind, phase, call, manifest, stream, file, exists, fdClosed, written, listed,
                     pushed>>
  BY DEF FinishFlush, CountAfter, ArraysAfter, callVars, fileVars, StreamInv, JobsAim, Aimed
<1>2. arrays' \in Seq(Seq(Event)) /\ Len(arrays') = Len(arrays) + 1 /\ Len(arrays) \in Nat
  BY <1>1, NewArray DEF StreamInv, TypeOK
<1>3. arrays' # <<>>
  BY <1>2, EmptySeq
<1>4. count' \in Nat
  <2>1. arrays[job[t].arr] \in Seq(Event)
    BY <1>1, ElementOfSeq DEF StreamInv, TypeOK
  <2>2. Len(arrays[job[t].arr]) \in Nat /\ count \in Nat
    BY <2>1, LenProperties DEF StreamInv, TypeOK
  <2>. QED  BY <1>1, <2>2
<1>5. /\ pc' \in [Threads -> {"out", "open", "retry", "write"}]
      /\ job' \in [Threads -> [arr : Nat, text : Seq(Unit), done : Nat,
                               file : 0..MaxCalls, manifest : 0..MaxCalls]]
  <2>1. Idle \in [arr : Nat, text : Seq(Unit), done : Nat,
                  file : 0..MaxCalls, manifest : 0..MaxCalls]
    BY Constants DEF Idle
  <2>. QED  BY <1>1, <2>1 DEF StreamInv, TypeOK
<1>6. TypeOK'
  BY <1>1, <1>2, <1>4, <1>5 DEF StreamInv, TypeOK
<1>7. JobsAim'
  <2>1. pc'[t] = "out" /\ \A o \in Threads : o # t => pc'[o] = pc[o] /\ job'[o] = job[o]
    BY <1>1 DEF StreamInv, TypeOK
  <2>. QED  BY <1>1, <1>2, <2>1 DEF StreamInv, JobsAim, Aimed
<1>. QED  BY <1>1, <1>3, <1>6, <1>7 DEF StreamInv, CallNumbers, StreamOpen, ListedClosed

(* and every step of the call.                                              *)
LEMMA BeginKeeps ==
  ASSUME StreamInv, Begin
  PROVE  StreamInv'
<1>1. /\ phase = "none" /\ phase' = "begin" /\ call < kind.calls /\ call' = call + 1
      /\ arrays' = Append(arrays, <<>>) \/ arrays' = arrays
      /\ UNCHANGED <<kind, manifest, stream, count, file, exists, fdClosed, written, listed, pc,
                     job, pushed>>
  BY DEF Begin, fileVars
<1>2. /\ arrays' \in Seq(Seq(Event)) /\ arrays' # <<>>
      /\ Len(arrays) \in Nat /\ Len(arrays') \in Nat /\ Len(arrays) <= Len(arrays')
  <2>1. arrays \in Seq(Seq(Event)) /\ arrays # <<>> /\ Len(arrays) \in Nat
    BY CurrentIs DEF StreamInv, TypeOK
  <2>2. CASE arrays' = Append(arrays, <<>>)
    <3>1. arrays' \in Seq(Seq(Event)) /\ Len(arrays') = Len(arrays) + 1
      BY <2>1, <2>2, NewArray
    <3>. QED  BY <2>1, <3>1, EmptySeq
  <2>3. CASE arrays' = arrays
    BY <2>1, <2>3
  <2>. QED  BY <1>1, <2>2, <2>3
<1>3. call \in Nat /\ manifest = call /\ call' \in 0..MaxCalls /\ call' <= kind.calls
      /\ MaxCalls \in Nat /\ manifest \in Nat
  <2>1. kind.calls \in 1..MaxCalls /\ MaxCalls \in Nat
    BY Constants DEF StreamInv, TypeOK
  <2>2. call \in 0..MaxCalls /\ manifest = call
    BY <1>1 DEF StreamInv, TypeOK, CallNumbers
  <2>. QED  BY <1>1, <2>1, <2>2
<1>4. TypeOK'
  BY <1>1, <1>2, <1>3 DEF StreamInv, TypeOK
<1>5. JobsAim'
  <2>1. job \in [Threads -> [arr : Nat, text : Seq(Unit), done : Nat,
                             file : 0..MaxCalls, manifest : 0..MaxCalls]]
    BY DEF StreamInv, TypeOK
  <2>. QED  BY <1>1, <1>2, <1>3, <2>1 DEF StreamInv, JobsAim, Aimed
<1>6. CallNumbers'
  BY <1>1, <1>3 DEF CallNumbers
<1>7. StreamOpen'
  <2>1. stream \in 0..MaxCalls
    BY DEF StreamInv, TypeOK
  <2>. QED  BY <1>1, <1>3, <2>1 DEF StreamInv, StreamOpen
<1>8. ListedClosed'
  BY <1>1, <1>3, Constants DEF StreamInv, ListedClosed
<1>. QED  BY <1>2, <1>4, <1>5, <1>6, <1>7, <1>8 DEF StreamInv

(* The start of a call opens its manifest and counts nothing yet.           *)
LEMMA BeginManifestKeeps ==
  ASSUME StreamInv, BeginManifest
  PROVE  StreamInv'
<1>1. /\ phase = "begin" /\ phase' = "run" /\ manifest' = manifest + 1
      /\ stream' = 0 /\ count' = 0
      /\ UNCHANGED <<kind, call, arrays, file, exists, fdClosed, written, listed, pc, job, pushed>>
  BY DEF BeginManifest, fileVars
<1>2. call \in 0..MaxCalls /\ MaxCalls \in Nat /\ manifest' = call /\ manifest \in Nat /\ call > 0
  <2>1. call \in 0..MaxCalls /\ MaxCalls \in Nat /\ manifest \in Nat
    BY Constants DEF StreamInv, TypeOK
  <2>. QED  BY <1>1, <2>1 DEF StreamInv, CallNumbers
<1>3. TypeOK'
  BY <1>1, <1>2 DEF StreamInv, TypeOK
<1>4. JobsAim'
  <2>1. job \in [Threads -> [arr : Nat, text : Seq(Unit), done : Nat,
                             file : 0..MaxCalls, manifest : 0..MaxCalls]]
    BY DEF StreamInv, TypeOK
  <2>. QED  BY <1>1, <1>2, <2>1 DEF StreamInv, JobsAim, Aimed
<1>5. CallNumbers' /\ StreamOpen' /\ ListedClosed'
  BY <1>1, <1>2 DEF StreamInv, CallNumbers, StreamOpen, ListedClosed
<1>. QED  BY <1>1, <1>3, <1>4, <1>5 DEF StreamInv

(* Closing, listing and ending a call leave its file closed once it is listed.*)
LEMMA SealKeeps ==
  ASSUME StreamInv, CloseFile \/ ListFile \/ End
  PROVE  StreamInv'
<1>1. /\ phase \in {"leave", "list", "end"}
      /\ phase' = (CASE phase = "leave" -> "list" [] phase = "list" -> "end"
                     [] OTHER -> "none")
      /\ fdClosed' \in {fdClosed, fdClosed \cup ({stream} \ {0})}
      /\ UNCHANGED <<kind, call, manifest, arrays, stream, count, file, exists, written, pc, job,
                     pushed>>
  BY DEF CloseFile, ListFile, End, fileVars
<1>2. \/ listed' = listed
      \/ /\ phase = "list" /\ stream \in fdClosed /\ fdClosed' = fdClosed
         /\ listed' = [listed EXCEPT ![call] = [records |-> count, units |-> written[stream]]]
  BY DEF CloseFile, ListFile, End, fileVars
<1>3. /\ call \in Calls /\ manifest = call /\ call \in Nat
      /\ stream \in 0..MaxCalls /\ MaxCalls \in Nat /\ fdClosed \subseteq exists
      /\ exists \subseteq Calls /\ Calls = 1..MaxCalls
  <2>1. call \in 0..MaxCalls /\ MaxCalls \in Nat /\ Calls = 1..MaxCalls
    BY Constants DEF StreamInv, TypeOK
  <2>2. call > 0 /\ manifest = call
    BY <1>1 DEF StreamInv, CallNumbers
  <2>. QED  BY <2>1, <2>2 DEF StreamInv, TypeOK
<1>4. fdClosed' \subseteq exists' /\ fdClosed \subseteq fdClosed'
  BY <1>1, <1>3 DEF StreamInv, StreamOpen
<1>5. listed' \in [Calls -> [records : Nat, units : Nat] \cup {NotListed}]
  <2>1. listed \in [Calls -> [records : Nat, units : Nat] \cup {NotListed}]
    BY DEF StreamInv, TypeOK
  <2>2. CASE listed' = listed
    BY <2>1, <2>2
  <2>3. CASE stream \in fdClosed
    <3>1. count \in Nat /\ written[stream] \in Nat
      BY <1>3, <2>3 DEF StreamInv, TypeOK
    <3>. QED  BY <1>2, <2>1, <3>1
  <2>. QED  BY <1>2, <2>2, <2>3
<1>6. phase' \in {"none", "list", "end"} /\ (phase = "list" => phase' = "end")
  BY <1>1
<1>7. TypeOK'
  BY <1>1, <1>3, <1>4, <1>5, <1>6 DEF StreamInv, TypeOK
<1>8. CallNumbers' /\ JobsAim' /\ StreamOpen'
  BY <1>1, <1>3, <1>6 DEF StreamInv, CallNumbers, JobsAim, Aimed, StreamOpen
<1>9. ListedClosed'
  <2>1. ASSUME NEW c \in Calls, listed'[c] # NotListed
        PROVE  c \in fdClosed' /\ (c < call' \/ (c = call' /\ phase' \in {"end", "none"}))
    <3>1. CASE listed[c] # NotListed
      BY <1>1, <1>4, <3>1 DEF StreamInv, ListedClosed
    <3>2. CASE listed[c] = NotListed
      <4>1. c = call /\ phase = "list" /\ stream \in fdClosed
        BY <1>2, <2>1, <3>2 DEF StreamInv, TypeOK
      <4>2. stream = call
        BY <1>3, <4>1 DEF StreamInv, StreamOpen
      <4>. QED  BY <1>1, <1>4, <1>6, <4>1, <4>2
    <3>. QED  BY <3>1, <3>2
  <2>. QED  BY <2>1 DEF ListedClosed
<1>. QED  BY <1>1, <1>7, <1>8, <1>9 DEF StreamInv

(* Every step of the stream, and every stutter, keeps the stream's facts.   *)
LEMMA StreamKeeps == StreamInv /\ [Next]_vars => StreamInv'
<1>. SUFFICES ASSUME StreamInv, [Next]_vars PROVE StreamInv'
  OBVIOUS
<1>1. CASE \E t \in Threads : Push(t) \/ Flush(t)
  BY <1>1, PushKeeps, CreateKeeps, OpenFailsKeeps, WriteKeeps, FinishKeeps DEF Flush
<1>2. CASE Begin \/ CallStep
  BY <1>2, BeginKeeps, BeginManifestKeeps, LeaveKeeps, SealKeeps DEF CallStep
<1>3. CASE UNCHANGED vars
  BY <1>3 DEF vars, callVars, fileVars, StreamInv, TypeOK, CallNumbers, JobsAim, Aimed,
              StreamOpen, ListedClosed
<1>. QED  BY <1>1, <1>2, <1>3 DEF Next

(* So they hold in every state a run reaches.                               *)
LEMMA StreamAlways == Spec => []StreamInv
BY StreamBegins, StreamKeeps, PTL DEF Spec

(* Every variable of every run has its type.                                *)
THEOREM EventStreamTypes == Spec => []TypeOK
<1>1. StreamInv => TypeOK
  BY DEF StreamInv
<1>. QED  BY <1>1, StreamAlways, PTL

(* Nothing is written to a closed file, and a call is listed once.          *)
LEMMA ListedStays ==
  ASSUME StreamInv, Next, NEW c \in Calls, listed[c] # NotListed
  PROVE  file'[c] = file[c] /\ listed'[c] = listed[c]
<1>1. c \in fdClosed /\ (c < call \/ (c = call /\ phase \in {"end", "none"}))
  BY DEF StreamInv, ListedClosed
<1>2. CASE \E t \in Threads : WriteUnits(t)
  <2>1. PICK t \in Threads : WriteUnits(t)
    BY <1>2
  <2>2. job[t].file # c /\ listed' = listed
    BY <1>1, <2>1, WriteDoes
  <2>3. \E units : file' = [file EXCEPT ![job[t].file] = units]
    BY <2>1, WriteDoes
  <2>4. file'[c] = file[c]
    BY <2>2, <2>3 DEF StreamInv, TypeOK
  <2>. QED  BY <2>2, <2>4
<1>3. CASE ListFile
  <2>1. phase = "list" /\ file' = file
        /\ (listed' = listed
             \/ listed' = [listed EXCEPT ![call] = [records |-> count, units |-> written[stream]]])
    BY <1>3 DEF ListFile, fileVars
  <2>2. call \in Int /\ c \in Int /\ c < call
    BY <1>1, <2>1, Constants DEF StreamInv, TypeOK
  <2>. QED  BY <2>1, <2>2 DEF StreamInv, TypeOK
<1>4. CASE UNCHANGED <<file, listed>>
  BY <1>4
<1>5. \/ \E t \in Threads : WriteUnits(t)
      \/ ListFile
      \/ UNCHANGED <<file, listed>>
  BY DEF Next, Flush, CallStep, Push, Create, OpenFails, FinishFlush, Begin, BeginManifest, Leave,
         CloseFile, End, fileVars
<1>. QED  BY <1>2, <1>3, <1>4, <1>5

(* Whatever races: a file a sealed manifest lists never changes again, and  *)
(* neither does what the manifest says of it (manifest.ts sealManifest,     *)
(* native_io.ts write_all).                                                 *)
THEOREM SealedFileIsFinal == Spec => ListedIsFinal
<1>1. StreamInv /\ [Next]_vars
        => [\A c \in Calls : listed[c] # NotListed =>
              file'[c] = file[c] /\ listed'[c] = listed[c]]_vars
  BY ListedStays
<1>. QED  BY <1>1, StreamAlways, PTL DEF Spec, ListedIsFinal

-------------------------------------------------------------------------------
(* A batch in its file.                                                     *)

\* An event is in one place of one array, and has the number its thread gave it.
Unique ==
  \A a, b \in 1..Len(arrays) : \A i \in 1..Len(arrays[a]), j \in 1..Len(arrays[b]) :
    arrays[a][i] = arrays[b][j] => a = b /\ i = j
Numbered(e) == e.n <= pushed[e.by]
AllNumbered ==
  /\ \A a \in 1..Len(arrays) : \A i \in 1..Len(arrays[a]) : Numbered(arrays[a][i])
  /\ \A c \in Calls : \A k \in 1..Len(file[c]) : Numbered(file[c][k].ev)

\* A flush writes the text of its array as it was when the flush looked at it, and what it has
\* written is in its file.
Copies(t) ==
  /\ Len(job[t].text) <= Len(Text(arrays[job[t].arr]))
  /\ \A k \in 1..Len(job[t].text) : job[t].text[k] = Text(arrays[job[t].arr])[k]
Wrote(t) ==
  /\ job[t].done <= Len(job[t].text)
  /\ \A k \in 1..job[t].done :
       \E h \in 1..Len(file[job[t].file]) : file[job[t].file][h] = job[t].text[k]
JobTexts ==
  \A t \in Threads : /\ pc[t] = "open" => job[t].done = 0
                     /\ pc[t] = "write" => Copies(t) /\ Wrote(t)

BatchInv == Unique /\ AllNumbered /\ JobTexts /\ BatchOrder

\* No event leaves its place, and a new one has a new number.
Grown ==
  /\ Len(arrays) <= Len(arrays')
  /\ \A a \in 1..Len(arrays) : /\ Len(arrays[a]) <= Len(arrays'[a])
                               /\ \A i \in 1..Len(arrays[a]) : arrays'[a][i] = arrays[a][i]
New(a, i) == ~(a \in 1..Len(arrays) /\ i \in 1..Len(arrays[a]))
Fresh ==
  \A a \in 1..Len(arrays') : \A i \in 1..Len(arrays'[a]) :
    New(a, i) => arrays'[a][i].n > pushed[arrays'[a][i].by]

(* What an array and its text are.                                          *)
LEMMA ArrayIs ==
  ASSUME StreamInv, NEW a \in 1..Len(arrays)
  PROVE  /\ arrays[a] \in Seq(Event) /\ Len(arrays[a]) \in Nat /\ Len(arrays) \in Nat
         /\ \A i \in 1..Len(arrays[a]) : arrays[a][i] \in Event
         /\ Text(arrays[a]) \in Seq(Unit) /\ Len(Text(arrays[a])) = Len(arrays[a]) * LineUnits
         /\ DOMAIN Text(arrays[a]) = 1..Len(Text(arrays[a])) /\ Len(Text(arrays[a])) \in Nat
<1>1. arrays \in Seq(Seq(Event)) /\ arrays[a] \in Seq(Event)
  BY ElementOfSeq DEF StreamInv, TypeOK
<1>2. Text(arrays[a]) \in Seq(Unit) /\ Len(Text(arrays[a])) = Len(arrays[a]) * LineUnits
  BY <1>1, TextIs
<1>3. DOMAIN Text(arrays[a]) = 1..Len(Text(arrays[a])) /\ Len(Text(arrays[a])) \in Nat
  BY <1>2, LenProperties
<1>4. Len(arrays[a]) \in Nat /\ Len(arrays) \in Nat
  BY <1>1, LenProperties
<1>5. \A i \in 1..Len(arrays[a]) : arrays[a][i] \in Event
  BY <1>1, ElementOfSeq
<1>. QED  BY <1>1, <1>2, <1>3, <1>4, <1>5

(* The text of an array that has grown begins as it was.                    *)
LEMMA GrownText ==
  ASSUME StreamInv, StreamInv', Grown, NEW a \in 1..Len(arrays)
  PROVE  /\ a \in 1..Len(arrays') /\ Len(Text(arrays[a])) <= Len(Text(arrays'[a]))
         /\ \A k \in 1..Len(Text(arrays[a])) : Text(arrays'[a])[k] = Text(arrays[a])[k]
<1>1. arrays' \in Seq(Seq(Event)) /\ arrays[a] \in Seq(Event) /\ Len(arrays) \in Nat
  BY ArrayIs DEF StreamInv, TypeOK
<1>2. a \in 1..Len(arrays') /\ arrays'[a] \in Seq(Event)
  <2>1. Len(arrays') \in Nat
    BY <1>1, LenProperties
  <2>2. a \in 1..Len(arrays')
    BY <1>1, <2>1 DEF Grown
  <2>. QED  BY <1>1, <2>2, ElementOfSeq
<1>. QED  BY <1>1, <1>2, TextGrows DEF Grown

(* A flush that waits copies and has written what it did.                   *)
LEMMA JobStays ==
  ASSUME StreamInv, StreamInv', JobTexts, Grown, NEW t \in Threads,
         pc'[t] = pc[t], job'[t] = job[t],
         \A c \in Calls : /\ Len(file[c]) <= Len(file'[c])
                          /\ \A k \in 1..Len(file[c]) : file'[c][k] = file[c][k]
  PROVE  /\ pc'[t] = "open" => job'[t].done = 0
         /\ pc'[t] = "write" => Copies(t)' /\ Wrote(t)'
<1>1. CASE pc[t] = "write"
  <2>. DEFINE a == job[t].arr
              f == job[t].file
              text == job[t].text
  <2>1. a \in 1..Len(arrays) /\ f \in Calls
    BY <1>1 DEF StreamInv, JobsAim, Aimed
  <2>2. /\ Len(text) <= Len(Text(arrays[a]))
        /\ \A k \in 1..Len(text) : text[k] = Text(arrays[a])[k]
    BY <1>1 DEF JobTexts, Copies
  <2>3. /\ job[t].done <= Len(text)
        /\ \A k \in 1..job[t].done : \E h \in 1..Len(file[f]) : file[f][h] = text[k]
    BY <1>1 DEF JobTexts, Wrote
  <2>4. Len(text) \in Nat /\ Len(Text(arrays[a])) \in Nat /\ Len(Text(arrays'[a])) \in Nat
    <3>1. text \in Seq(Unit) /\ Len(Text(arrays[a])) \in Nat
      BY <2>1, ArrayIs DEF StreamInv, TypeOK
    <3>2. a \in 1..Len(arrays')
      BY <2>1, GrownText
    <3>3. arrays'[a] \in Seq(Event)
      BY <3>2, ElementOfSeq DEF StreamInv, TypeOK
    <3>. QED  BY <3>1, <3>3, TextIs, LenProperties
  <2>5. Len(Text(arrays[a])) <= Len(Text(arrays'[a]))
        /\ \A k \in 1..Len(Text(arrays[a])) : Text(arrays'[a])[k] = Text(arrays[a])[k]
    BY <2>1, GrownText
  <2>6. Copies(t)'
    <3>1. Len(text) <= Len(Text(arrays'[a]))
      BY <2>2, <2>4, <2>5
    <3>2. \A k \in 1..Len(text) : text[k] = Text(arrays'[a])[k]
      BY <2>2, <2>4, <2>5
    <3>. QED  BY <3>1, <3>2 DEF Copies
  <2>7. Wrote(t)'
    <3>1. Len(file[f]) \in Nat /\ Len(file'[f]) \in Nat
      <4>1. file[f] \in Seq(Unit)
        BY <2>1 DEF StreamInv, TypeOK
      <4>2. file'[f] \in Seq(Unit)
        BY <2>1 DEF StreamInv, TypeOK
      <4>. QED  BY <4>1, <4>2, LenProperties
    <3>2. ASSUME NEW k \in 1..job[t].done
          PROVE  \E h \in 1..Len(file'[f]) : file'[f][h] = text[k]
      <4>1. PICK h \in 1..Len(file[f]) : file[f][h] = text[k]
        BY <2>3
      <4>2. h \in 1..Len(file'[f]) /\ file'[f][h] = file[f][h]
        BY <2>1, <3>1
      <4>. QED  BY <4>1, <4>2
    <3>. QED  BY <2>3, <3>2 DEF Wrote
  <2>. QED  BY <1>1, <2>6, <2>7
<1>2. CASE pc[t] # "write"
  BY <1>2 DEF JobTexts
<1>. QED  BY <1>1, <1>2

(* What the arrays gain is in no file.                                      *)
LEMMA GrowthKeepsOrder ==
  ASSUME StreamInv, StreamInv', AllNumbered, BatchOrder, Grown, Fresh, file' = file
  PROVE  BatchOrder'
<1>. SUFFICES ASSUME NEW c \in Calls, NEW a \in 1..Len(arrays')
              PROVE  InOrder(file[c], Text(arrays'[a]))
  <2>1. DOMAIN arrays' = 1..Len(arrays')
    BY LenProperties DEF StreamInv, TypeOK
  <2>. QED  BY <2>1 DEF BatchOrder
<1>. SUFFICES ASSUME NEW k \in 1..Len(file[c]), NEW m \in 1..Len(Text(arrays'[a])),
                     file[c][k] = Text(arrays'[a])[m], NEW i \in 1..(m - 1)
              PROVE  \E h \in 1..(k - 1) : file[c][h] = Text(arrays'[a])[i]
  <2>1. DOMAIN file[c] = 1..Len(file[c])
    BY LenProperties DEF StreamInv, TypeOK
  <2>2. arrays'[a] \in Seq(Event)
    BY ElementOfSeq DEF StreamInv, TypeOK
  <2>3. DOMAIN Text(arrays'[a]) = 1..Len(Text(arrays'[a]))
    BY <2>2, TextIs
  <2>. QED  BY <2>1, <2>3 DEF InOrder
<1>1. arrays'[a] \in Seq(Event) /\ LineUnits \in Nat /\ Len(arrays'[a]) \in Nat
  <2>1. arrays'[a] \in Seq(Event)
    BY ElementOfSeq DEF StreamInv, TypeOK
  <2>. QED  BY <2>1, Constants, LenProperties
<1>2. /\ m \in 1..(Len(arrays'[a]) * LineUnits)
      /\ Text(arrays'[a])[m] = [ev |-> arrays'[a][Line(m)], u |-> (m - 1) % LineUnits]
  BY <1>1, TextIs
<1>3. Line(m) \in 1..Len(arrays'[a])
  BY <1>1, <1>2, LineIs
<1>4. ~New(a, Line(m))
  <2>. SUFFICES ASSUME New(a, Line(m)) PROVE FALSE
    OBVIOUS
  <2>1. arrays'[a][Line(m)].n > pushed[arrays'[a][Line(m)].by]
    BY <1>3 DEF Fresh
  <2>2. arrays'[a][Line(m)] = file[c][k].ev
    BY <1>2
  <2>3. Numbered(file[c][k].ev)
    BY DEF AllNumbered
  <2>4. file[c][k].ev.n \in Nat /\ pushed[file[c][k].ev.by] \in Nat
    <3>1. file[c] \in Seq(Unit)
      BY DEF StreamInv, TypeOK
    <3>2. file[c][k] \in Unit
      BY <3>1, ElementOfSeq
    <3>3. file[c][k].ev \in Event
      BY <3>2 DEF Unit
    <3>4. file[c][k].ev.n \in Nat /\ file[c][k].ev.by \in Threads
      BY <3>3, Constants DEF Event
    <3>5. pushed \in [Threads -> 0..MaxEvents] /\ MaxEvents \in Nat
      BY Constants DEF StreamInv, TypeOK
    <3>. QED  BY <3>4, <3>5
  <2>. QED  BY <2>1, <2>2, <2>3, <2>4 DEF Numbered
<1>5. a \in 1..Len(arrays) /\ Line(m) \in 1..Len(arrays[a])
  BY <1>4 DEF New
<1>6. /\ arrays[a] \in Seq(Event) /\ Len(arrays[a]) \in Nat
      /\ Len(Text(arrays[a])) = Len(arrays[a]) * LineUnits
      /\ Len(Text(arrays[a])) \in Nat /\ DOMAIN Text(arrays[a]) = 1..Len(Text(arrays[a]))
      /\ DOMAIN arrays = 1..Len(arrays)
  <2>1. DOMAIN arrays = 1..Len(arrays)
    BY LenProperties DEF StreamInv, TypeOK
  <2>. QED  BY <1>5, <2>1, ArrayIs
<1>7. m \in 1..Len(Text(arrays[a]))
  <2>. DEFINE r == (m - 1) % LineUnits
  <2>1. /\ r \in 0..(LineUnits - 1) /\ m = (Line(m) - 1) * LineUnits + r + 1
        /\ m \in Nat
    BY <1>1, <1>2, LineIs
  <2>2. (Line(m) - 1) * LineUnits + r + 1 \in 1..(Len(arrays[a]) * LineUnits)
    BY <1>5, <1>6, <2>1, UnitAt
  <2>. QED  BY <1>6, <2>1, <2>2
<1>8. \A x \in 1..Len(Text(arrays[a])) : Text(arrays'[a])[x] = Text(arrays[a])[x]
  BY <1>5, GrownText
<1>9. /\ file[c][k] = Text(arrays[a])[m] /\ i \in 1..Len(Text(arrays[a]))
      /\ k \in DOMAIN file[c]
  <2>1. file[c] \in Seq(Unit)
    BY DEF StreamInv, TypeOK
  <2>2. k \in DOMAIN file[c]
    BY <2>1, LenProperties
  <2>3. i \in 1..Len(Text(arrays[a]))
    BY <1>6, <1>7
  <2>. QED  BY <1>7, <1>8, <2>2, <2>3
<1>10. \E h \in 1..(k - 1) : file[c][h] = Text(arrays[a])[i]
  <2>1. InOrder(file[c], Text(arrays[a]))
    BY <1>5, <1>6 DEF BatchOrder
  <2>2. m \in DOMAIN Text(arrays[a])
    BY <1>6, <1>7
  <2>. QED  BY <1>9, <2>1, <2>2 DEF InOrder
<1>. QED  BY <1>8, <1>9, <1>10

(* Events that are each in one place make units that are.                   *)
LEMMA UnitOnce ==
  ASSUME StreamInv, Unique, NEW a \in 1..Len(arrays), NEW b \in 1..Len(arrays),
         NEW k \in 1..Len(Text(arrays[a])), NEW m \in 1..Len(Text(arrays[b])),
         Text(arrays[a])[k] = Text(arrays[b])[m]
  PROVE  a = b /\ k = m
<1>1. /\ arrays[a] \in Seq(Event) /\ Len(arrays[a]) \in Nat
      /\ arrays[b] \in Seq(Event) /\ Len(arrays[b]) \in Nat
      /\ k \in 1..(Len(arrays[a]) * LineUnits) /\ m \in 1..(Len(arrays[b]) * LineUnits)
  BY ArrayIs
<1>2. /\ Text(arrays[a])[k] = [ev |-> arrays[a][Line(k)], u |-> (k - 1) % LineUnits]
      /\ Text(arrays[b])[m] = [ev |-> arrays[b][Line(m)], u |-> (m - 1) % LineUnits]
  BY <1>1, TextIs
<1>3. /\ Line(k) \in 1..Len(arrays[a])
      /\ k = (Line(k) - 1) * LineUnits + ((k - 1) % LineUnits) + 1
  BY <1>1, LineIs
<1>4. /\ Line(m) \in 1..Len(arrays[b])
      /\ m = (Line(m) - 1) * LineUnits + ((m - 1) % LineUnits) + 1
  BY <1>1, LineIs
<1>5. arrays[a][Line(k)] = arrays[b][Line(m)] /\ (k - 1) % LineUnits = (m - 1) % LineUnits
  <2>. DEFINE e == arrays[a][Line(k)]
              f == arrays[b][Line(m)]
              r == (k - 1) % LineUnits
              q == (m - 1) % LineUnits
  <2>1. [ev |-> e, u |-> r] = [ev |-> f, u |-> q]
    BY <1>2
  <2>. HIDE DEF e, f, r, q
  <2>2. e = f /\ r = q
    BY <2>1
  <2>. QED  BY <2>2 DEF e, f, r, q
<1>6. a = b /\ Line(k) = Line(m)
  <2>1. Line(k) \in 1..Len(arrays[a]) /\ Line(m) \in 1..Len(arrays[b])
    BY <1>3, <1>4
  <2>2. arrays[a][Line(k)] = arrays[b][Line(m)]
    BY <1>5
  <2>. DEFINE x == Line(k)
              y == Line(m)
  <2>. HIDE DEF x, y
  <2>3. x \in 1..Len(arrays[a]) /\ y \in 1..Len(arrays[b]) /\ arrays[a][x] = arrays[b][y]
    BY <2>1, <2>2 DEF x, y
  <2>4. a = b /\ x = y
    BY ONLY <2>3, Unique, a \in 1..Len(arrays), b \in 1..Len(arrays) DEF Unique
  <2>. QED  BY <2>4 DEF x, y
<1>7. k = m
  <2>. DEFINE at(x, y) == (x - 1) * LineUnits + y + 1
  <2>1. k = at(Line(k), (k - 1) % LineUnits) /\ m = at(Line(m), (m - 1) % LineUnits)
    BY <1>3, <1>4
  <2>. HIDE DEF at
  <2>. QED  BY <1>5, <1>6, <2>1
<1>. QED  BY <1>6, <1>7

NumberedNext(e) == e.n <= pushed'[e.by]

\* A step that adds at most one event, with a new number, to the arrays.
Adds ==
  /\ Grown /\ Fresh
  /\ \A a, b \in 1..Len(arrays') : \A i \in 1..Len(arrays'[a]), j \in 1..Len(arrays'[b]) :
       New(a, i) /\ New(b, j) => a = b /\ i = j
  /\ \A a \in 1..Len(arrays') : \A i \in 1..Len(arrays'[a]) :
       New(a, i) => NumberedNext(arrays'[a][i])
  /\ \A t \in Threads : pushed[t] <= pushed'[t]

(* Such a step keeps events in one place and files in order.                *)
LEMMA AddsKeeps ==
  ASSUME StreamInv, StreamInv', Unique, AllNumbered, BatchOrder, Adds, file' = file
  PROVE  Unique' /\ AllNumbered' /\ BatchOrder'
<1>1. Grown /\ Fresh
  BY DEF Adds
<1>2. BatchOrder'
  BY <1>1, GrowthKeepsOrder
<1>3. \A e \in Event : e.by \in Threads /\ e.n \in Nat /\ pushed[e.by] \in Nat
                       /\ pushed'[e.by] \in Nat
  <2>1. \A e \in Event : e.by \in Threads /\ e.n \in Nat
    BY Constants DEF Event
  <2>2. /\ pushed \in [Threads -> 0..MaxEvents] /\ MaxEvents \in Nat
        /\ pushed' \in [Threads -> 0..MaxEvents]
    BY Constants DEF StreamInv, TypeOK
  <2>. QED  BY <2>1, <2>2
<1>4. \A a \in 1..Len(arrays') : \A i \in 1..Len(arrays'[a]) : arrays'[a][i] \in Event
  <2>1. \A a \in 1..Len(arrays') : arrays'[a] \in Seq(Event)
    BY ElementOfSeq DEF StreamInv, TypeOK
  <2>. QED  BY <2>1, ElementOfSeq
<1>5. \A a \in 1..Len(arrays') : \A i \in 1..Len(arrays'[a]) :
        ~New(a, i) => /\ a \in 1..Len(arrays) /\ i \in 1..Len(arrays[a])
                      /\ arrays'[a][i] = arrays[a][i] /\ Numbered(arrays'[a][i])
  BY <1>1 DEF New, Grown, AllNumbered
<1>6. \A a \in 1..Len(arrays') : \A i \in 1..Len(arrays'[a]) :
         New(a, i) => ~Numbered(arrays'[a][i])
  <2>. SUFFICES ASSUME NEW a \in 1..Len(arrays'), NEW i \in 1..Len(arrays'[a]), New(a, i),
                       Numbered(arrays'[a][i])
                PROVE  FALSE
    OBVIOUS
  <2>1. arrays'[a][i].n > pushed[arrays'[a][i].by]
    BY <1>1 DEF Fresh
  <2>. QED  BY <1>3, <1>4, <2>1 DEF Numbered
<1>7. Unique'
  <2>. SUFFICES ASSUME NEW a \in 1..Len(arrays'), NEW b \in 1..Len(arrays'),
                       NEW i \in 1..Len(arrays'[a]), NEW j \in 1..Len(arrays'[b]),
                       arrays'[a][i] = arrays'[b][j]
                PROVE  a = b /\ i = j
    BY DEF Unique
  <2>1. CASE New(a, i) /\ New(b, j)
    <3>1. \A x, y \in 1..Len(arrays') : \A v \in 1..Len(arrays'[x]), w \in 1..Len(arrays'[y]) :
            New(x, v) /\ New(y, w) => x = y /\ v = w
      BY DEF Adds
    <3>. QED  BY <2>1, <3>1
  <2>2. CASE ~New(a, i) /\ ~New(b, j)
    <3>1. a \in 1..Len(arrays) /\ i \in 1..Len(arrays[a]) /\ arrays'[a][i] = arrays[a][i]
      BY <1>5, <2>2
    <3>2. b \in 1..Len(arrays) /\ j \in 1..Len(arrays[b]) /\ arrays'[b][j] = arrays[b][j]
      BY <1>5, <2>2
    <3>3. arrays[a][i] = arrays[b][j]
      BY <3>1, <3>2
    <3>. QED  BY ONLY <3>1, <3>2, <3>3, Unique DEF Unique
  <2>3. CASE New(a, i) /\ ~New(b, j)
    BY <1>6, <1>4, <1>5, <2>3
  <2>4. CASE ~New(a, i) /\ New(b, j)
    BY <1>6, <1>4, <1>5, <2>4
  <2>. QED  BY <2>1, <2>2, <2>3, <2>4
<1>8. \A e \in Event : Numbered(e) => NumberedNext(e)
  <2>. SUFFICES ASSUME NEW e \in Event, Numbered(e) PROVE NumberedNext(e)
    OBVIOUS
  <2>1. pushed[e.by] <= pushed'[e.by]
    BY <1>3 DEF Adds
  <2>. QED  BY <1>3, <2>1 DEF Numbered, NumberedNext
<1>9. \A a \in 1..Len(arrays') : \A i \in 1..Len(arrays'[a]) : NumberedNext(arrays'[a][i])
  <2>. SUFFICES ASSUME NEW a \in 1..Len(arrays'), NEW i \in 1..Len(arrays'[a])
                PROVE  NumberedNext(arrays'[a][i])
    OBVIOUS
  <2>1. CASE New(a, i)
    BY <2>1 DEF Adds
  <2>2. CASE ~New(a, i)
    <3>1. arrays'[a][i] \in Event /\ Numbered(arrays'[a][i])
      BY <1>4, <1>5, <2>2
    <3>. QED  BY <1>8, <3>1
  <2>. QED  BY <2>1, <2>2
<1>10. \A c \in Calls : \A k \in 1..Len(file[c]) : NumberedNext(file[c][k].ev)
  <2>. SUFFICES ASSUME NEW c \in Calls, NEW k \in 1..Len(file[c])
                PROVE  NumberedNext(file[c][k].ev)
    OBVIOUS
  <2>1. file[c] \in Seq(Unit)
    BY DEF StreamInv, TypeOK
  <2>2. file[c][k] \in Unit
    BY <2>1, ElementOfSeq
  <2>3. file[c][k].ev \in Event /\ Numbered(file[c][k].ev)
    BY <2>2 DEF Unit, AllNumbered
  <2>. QED  BY <1>8, <2>3
<1>11. AllNumbered'
  BY <1>9, <1>10 DEF AllNumbered, Numbered, NumberedNext
<1>. QED  BY <1>2, <1>7, <1>11

(* A new array adds no event, and neither does a step that leaves them.     *)
LEMMA EmptyAdds ==
  ASSUME StreamInv, StreamInv', arrays' = Append(arrays, <<>>) \/ arrays' = arrays,
         \A t \in Threads : pushed[t] <= pushed'[t]
  PROVE  Adds
<1>1. /\ Len(arrays) <= Len(arrays') /\ Len(arrays) \in Nat /\ Len(arrays') \in Nat
      /\ \A a \in 1..Len(arrays) : arrays'[a] = arrays[a]
      /\ \A a \in 1..Len(arrays') : a \notin 1..Len(arrays) => arrays'[a] = <<>>
  <2>1. arrays \in Seq(Seq(Event)) /\ Len(arrays) \in Nat
    BY LenProperties DEF StreamInv, TypeOK
  <2>2. CASE arrays' = arrays
    BY <2>1, <2>2
  <2>3. CASE arrays' = Append(arrays, <<>>)
    BY <2>1, <2>3, NewArray
  <2>. QED  BY <2>2, <2>3
<1>2. \A a \in 1..Len(arrays) : Len(arrays[a]) \in Nat
  BY ArrayIs
<1>3. Grown
  BY <1>1, <1>2 DEF Grown
<1>4. \A a \in 1..Len(arrays') : \A i \in 1..Len(arrays'[a]) : ~New(a, i)
  <2>. SUFFICES ASSUME NEW a \in 1..Len(arrays'), NEW i \in 1..Len(arrays'[a]), New(a, i)
                PROVE  FALSE
    OBVIOUS
  <2>1. a \notin 1..Len(arrays)
    BY <1>1 DEF New
  <2>2. arrays'[a] = <<>> /\ Len(<<>>) = 0
    BY <1>1, <2>1
  <2>. QED  BY <2>2
<1>. QED  BY <1>3, <1>4 DEF Adds, Fresh

(* A hook adds one, at the end of the current array.                        *)
LEMMA StoreAdds ==
  ASSUME StreamInv, StreamInv', NEW t \in Threads, NewEvent(t) \in Event,
         arrays' = [arrays EXCEPT ![Len(arrays)] = Append(Current, NewEvent(t))],
         pushed' = [pushed EXCEPT ![t] = @ + 1]
  PROVE  Adds
<1>. DEFINE L == Len(arrays)
            n == Len(Current)
<1>1. /\ L \in 1..L /\ Current \in Seq(Event) /\ n \in Nat /\ L \in Nat /\ Current = arrays[L]
      /\ arrays \in Seq(Seq(Event))
  BY CurrentIs DEF StreamInv, TypeOK, Current
<1>2. /\ Append(Current, NewEvent(t)) \in Seq(Event) /\ Len(Append(Current, NewEvent(t))) = n + 1
      /\ \A i \in 1..n : Append(Current, NewEvent(t))[i] = Current[i]
      /\ Append(Current, NewEvent(t))[n + 1] = NewEvent(t)
  BY <1>1, AppendProperties
<1>3. /\ Len(arrays') = L /\ arrays'[L] = Append(Current, NewEvent(t))
      /\ \A a \in 1..L : a # L => arrays'[a] = arrays[a]
  BY <1>1, <1>2, OtherArray
<1>4. \A a \in 1..L : Len(arrays[a]) \in Nat
  BY ArrayIs
<1>5. /\ Len(arrays'[L]) = n + 1 /\ arrays'[L][n + 1] = NewEvent(t)
      /\ Len(arrays[L]) = n /\ \A i \in 1..n : arrays'[L][i] = arrays[L][i]
  BY <1>1, <1>2, <1>3
<1>6. pushed \in [Threads -> 0..MaxEvents] /\ MaxEvents \in Nat
      /\ \A o \in Threads : pushed[o] \in Nat
  <2>1. pushed \in [Threads -> 0..MaxEvents] /\ MaxEvents \in Nat
    BY Constants DEF StreamInv, TypeOK
  <2>. QED  BY <2>1
<1>7. pushed'[t] = pushed[t] + 1 /\ \A o \in Threads : o # t => pushed'[o] = pushed[o]
  BY <1>6
<1>. HIDE DEF L, n
<1>8. Grown
  <2>1. ASSUME NEW a \in 1..L
        PROVE  /\ Len(arrays[a]) <= Len(arrays'[a])
               /\ \A i \in 1..Len(arrays[a]) : arrays'[a][i] = arrays[a][i]
    <3>1. CASE a = L
      BY <1>1, <1>5, <3>1
    <3>2. CASE a # L
      BY <1>3, <1>4, <3>2
    <3>. QED  BY <3>1, <3>2
  <2>2. Len(arrays) = L /\ Len(arrays') = L
    BY <1>3 DEF L
  <2>3. L <= L
    BY <1>1
  <2>. QED  BY <2>1, <2>2, <2>3 DEF Grown
<1>9. ASSUME NEW a \in 1..Len(arrays'), NEW i \in 1..Len(arrays'[a]), New(a, i)
      PROVE  a = L /\ i = n + 1 /\ arrays'[a][i] = NewEvent(t)
  <2>1. a \in 1..L /\ a \in 1..Len(arrays)
    BY <1>3 DEF L
  <2>2. a = L
    BY <1>3, <1>9, <2>1 DEF New
  <2>3. i \in 1..(n + 1) /\ i \notin 1..n
    BY <1>5, <1>9, <2>1, <2>2 DEF New
  <2>4. i = n + 1
    BY <1>1, <2>3
  <2>. QED  BY <1>5, <2>2, <2>4
<1>10. NewEvent(t).by = t /\ NewEvent(t).n = pushed[t] + 1
  BY DEF NewEvent
<1>11. Fresh
  BY <1>6, <1>9, <1>10 DEF Fresh
<1>12. \A o \in Threads : pushed[o] <= pushed'[o]
  BY <1>6, <1>7
<1>13. \A a \in 1..Len(arrays') : \A i \in 1..Len(arrays'[a]) :
         New(a, i) => NumberedNext(arrays'[a][i])
  BY <1>6, <1>7, <1>9, <1>10 DEF NumberedNext
<1>14. \A a, b \in 1..Len(arrays') : \A i \in 1..Len(arrays'[a]), j \in 1..Len(arrays'[b]) :
         New(a, i) /\ New(b, j) => a = b /\ i = j
  BY <1>9
<1>. QED  BY <1>8, <1>11, <1>12, <1>13, <1>14 DEF Adds

(* What a write adds to its file.                                           *)
LEMMA PartIs ==
  ASSUME StreamInv, NEW t \in Threads, WriteUnits(t)
  PROVE  \E n \in Nat \ {0} :
           LET f == job[t].file
               d == job[t].done
               new == file'[f]
           IN /\ f \in Calls /\ job' = [job EXCEPT ![t].done = d + n]
              /\ d \in Nat /\ d + n <= Len(job[t].text) /\ Len(job[t].text) \in Nat
              /\ Len(file[f]) \in Nat /\ Len(new) = Len(file[f]) + n
              /\ new \in Seq(Unit) /\ DOMAIN new = 1..Len(new)
              /\ \A k \in 1..Len(file[f]) : new[k] = file[f][k]
              /\ \A x \in 1..n : new[Len(file[f]) + x] = job[t].text[d + x]
              /\ \A c \in Calls : c # f => file'[c] = file[c]
<1>. DEFINE f == job[t].file
            d == job[t].done
            text == job[t].text
            part(n) == SubSeq(text, d + 1, d + n)
<1>1. /\ f \in Calls /\ text \in Seq(Unit) /\ d \in Nat /\ Len(text) \in Nat
      /\ file \in [Calls -> Seq(Unit)] /\ file[f] \in Seq(Unit) /\ Len(file[f]) \in Nat
  <2>1. f \in Calls
    BY WriteDoes
  <2>2. text \in Seq(Unit) /\ d \in Nat /\ file \in [Calls -> Seq(Unit)]
    BY DEF StreamInv, TypeOK
  <2>. QED  BY <2>1, <2>2, LenProperties
<1>2. PICK n \in 1..(Len(text) - d) :
        /\ part(n) \in Seq(Unit) /\ file' = [file EXCEPT ![f] = @ \o part(n)]
        /\ job' = [job EXCEPT ![t].done = @ + n]
  BY WriteDoes
<1>3. n \in Nat \ {0} /\ d + n <= Len(text)
  BY <1>1
<1>4. Len(part(n)) = n /\ \A x \in 1..n : part(n)[x] = text[d + x]
  <2>1. d + 1 \in 1..(Len(text) + 1) /\ d + n \in d..Len(text)
    BY <1>1, <1>3
  <2>2. /\ Len(part(n)) = (IF d + 1 <= d + n THEN (d + n) - (d + 1) + 1 ELSE 0)
        /\ \A x \in 1..((d + n) - (d + 1) + 1) : part(n)[x] = text[(d + 1) + x - 1]
    <3>1. d + 1 \in Int /\ d + n \in Int /\ \A i \in (d + 1)..(d + n) : i \in 1..Len(text)
      BY <1>1, <1>3
    <3>2. \A i \in (d + 1)..(d + n) : text[i] \in Unit
      BY <1>1, <3>1, ElementOfSeq
    <3>. HIDE DEF d, text
    <3>. QED  BY <3>1, <3>2, SubSeqProperties DEF part
  <2>3. Len(part(n)) = n
    <3>. HIDE DEF part, d, text
    <3>1. d \in Nat /\ n \in Nat \ {0}
      BY <1>1, <1>3
    <3>2. d + 1 <= d + n /\ (d + n) - (d + 1) + 1 = n
      BY <3>1
    <3>. QED  BY <2>2, <3>2
  <2>4. ASSUME NEW x \in 1..n
        PROVE  part(n)[x] = text[d + x]
    <3>1. x \in 1..((d + n) - (d + 1) + 1) /\ (d + 1) + x - 1 = d + x
      BY <1>1, <1>3
    <3>. QED  BY <2>2, <3>1
  <2>. QED  BY <2>3, <2>4
<1>. HIDE DEF part
<1>5. /\ file'[f] \in Seq(Unit) /\ Len(file'[f]) = Len(file[f]) + n
      /\ \A k \in 1..Len(file[f]) : file'[f][k] = file[f][k]
      /\ \A x \in 1..n : file'[f][Len(file[f]) + x] = text[d + x]
  <2>1. file'[f] = file[f] \o part(n)
    BY <1>1, <1>2
  <2>2. /\ file'[f] \in Seq(Unit) /\ Len(file'[f]) = Len(file[f]) + n
        /\ \A k \in 1..(Len(file[f]) + n) :
             file'[f][k] = IF k <= Len(file[f]) THEN file[f][k]
                                                ELSE part(n)[k - Len(file[f])]
    <3>. DEFINE old == file[f]
                new == file'[f]
                add == part(n)
    <3>1. old \in Seq(Unit) /\ add \in Seq(Unit) /\ Len(add) = n /\ new = old \o add
      BY <1>1, <1>2, <1>4, <2>1
    <3>. HIDE DEF f, d, text, old, new, add
    <3>2. /\ new \in Seq(Unit) /\ Len(new) = Len(old) + n
          /\ \A k \in 1..(Len(old) + n) :
               new[k] = IF k <= Len(old) THEN old[k] ELSE add[k - Len(old)]
      BY <3>1, ConcatProperties
    <3>. QED  BY <3>2 DEF old, new, add
  <2>3. ASSUME NEW x \in 1..n
        PROVE  file'[f][Len(file[f]) + x] = text[d + x]
    <3>1. /\ Len(file[f]) + x \in 1..(Len(file[f]) + n) /\ ~(Len(file[f]) + x <= Len(file[f]))
          /\ Len(file[f]) + x - Len(file[f]) = x
      BY <1>1, <1>3
    <3>. DEFINE k == Len(file[f]) + x
    <3>. HIDE DEF k
    <3>2. file'[f][k] = part(n)[k - Len(file[f])]
      <4>1. k \in 1..(Len(file[f]) + n) /\ ~(k <= Len(file[f]))
        BY <3>1 DEF k
      <4>. HIDE DEF f
      <4>. QED  BY <2>2, <4>1
    <3>. USE DEF k
    <3>. QED  BY <1>4, <3>1, <3>2
  <2>4. ASSUME NEW k \in 1..Len(file[f])
        PROVE  file'[f][k] = file[f][k]
    <3>1. k \in 1..(Len(file[f]) + n) /\ k <= Len(file[f])
      BY <1>1, <1>3
    <3>. QED  BY <2>2, <3>1
  <2>. QED  BY <2>2, <2>3, <2>4
<1>6. \A c \in Calls : c # f => file'[c] = file[c]
  BY <1>1, <1>2
<1>7. DOMAIN file'[f] = 1..Len(file'[f])
  BY <1>5, LenProperties
<1>8. job' = [job EXCEPT ![t].done = d + n]
  BY <1>2
<1>. QED  BY <1>1, <1>3, <1>5, <1>6, <1>7, <1>8

\* A file to which the units d + 1 .. d + n of a text were appended; two texts that hold the
\* same unit begin alike.
Appended(new, units, own, d, n) ==
  /\ Len(new) = Len(units) + n
  /\ \A k \in 1..Len(units) : new[k] = units[k]
  /\ \A x \in 1..n : new[Len(units) + x] = own[d + x]
BeginAlike(own, text) ==
  \A k \in 1..Len(own), m \in 1..Len(text) :
    own[k] = text[m] => k = m /\ \A i \in 1..(m - 1) : text[i] = own[i]

(* Appending the next part of a text keeps every text in order.             *)
LEMMA PartInOrder ==
  ASSUME NEW units \in Seq(Unit), NEW new \in Seq(Unit), NEW text \in Seq(Unit),
         NEW own \in Seq(Unit), NEW d \in Nat, NEW n \in Nat \ {0}, d + n <= Len(own),
         Appended(new, units, own, d, n), BeginAlike(own, text), InOrder(units, text),
         \A k \in 1..d : \E h \in 1..Len(units) : units[h] = own[k]
  PROVE  InOrder(new, text)
<1>1. /\ DOMAIN units = 1..Len(units) /\ DOMAIN new = 1..Len(new)
      /\ DOMAIN text = 1..Len(text) /\ Len(units) \in Nat /\ Len(new) \in Nat
      /\ Len(text) \in Nat /\ Len(own) \in Nat
  BY LenProperties
<1>. SUFFICES ASSUME NEW k \in 1..Len(new), NEW m \in 1..Len(text), new[k] = text[m],
                     NEW i \in 1..(m - 1)
              PROVE  \E h \in 1..(k - 1) : new[h] = text[i]
  <2>1. DOMAIN new = 1..Len(new) /\ DOMAIN text = 1..Len(text)
    BY <1>1
  <2>. QED  BY <2>1 DEF InOrder
<1>. DEFINE L == Len(units)
<1>a. /\ Len(new) = L + n /\ \A h \in 1..L : new[h] = units[h]
      /\ \A x \in 1..n : new[L + x] = own[d + x]
  BY DEF Appended
<1>2. CASE k <= L
  <2>1. k \in 1..L /\ units[k] = text[m]
    BY <1>1, <1>a, <1>2
  <2>2. k \in DOMAIN units /\ m \in DOMAIN text
    BY <1>1, <2>1
  <2>3. PICK h \in 1..(k - 1) : units[h] = text[i]
    BY <2>1, <2>2 DEF InOrder
  <2>4. h \in 1..L
    BY <1>1, <2>1, <2>3
  <2>. QED  BY <1>a, <2>3, <2>4
<1>3. CASE k > L
  <2>. DEFINE x == k - L
  <2>1. x \in 1..n /\ k = L + x
    BY <1>1, <1>a, <1>3
  <2>2. d + x \in 1..Len(own) /\ own[d + x] = text[m]
    <3>1. x \in Nat /\ d + x \in 1..Len(own)
      BY <1>1, <2>1
    <3>2. new[L + x] = own[d + x]
      BY <1>a, <2>1
    <3>. QED  BY <2>1, <3>1, <3>2
  <2>3. m = d + x /\ text[i] = own[i]
    <3>. HIDE DEF x
    <3>. QED  BY <2>2 DEF BeginAlike
  <2>4. CASE i <= d
    <3>1. PICK h \in 1..L : units[h] = own[i]
      BY <2>4, <1>1
    <3>2. h \in 1..(k - 1) /\ new[h] = text[i]
      <4>1. h \in 1..(k - 1)
        BY <1>1, <1>3, <3>1
      <4>2. new[h] = units[h]
        BY <1>a, <3>1
      <4>. QED  BY <2>3, <3>1, <4>1, <4>2
    <3>. QED  BY <3>2
  <2>5. CASE i > d
    <3>. DEFINE y == i - d
    <3>1. y \in 1..n /\ L + y \in 1..(k - 1) /\ d + y = i
      BY <1>1, <2>1, <2>3, <2>5
    <3>2. new[L + y] = own[d + y]
      BY <1>a, <3>1
    <3>. QED  BY <2>3, <3>1, <3>2
  <2>. QED  BY <1>1, <2>4, <2>5
<1>. QED  BY <1>1, <1>2, <1>3

(* A write adds to a file the next units of the one job that owns them.     *)
LEMMA WriteKeepsBatch ==
  ASSUME StreamInv, StreamInv', BatchInv, NEW t \in Threads, WriteUnits(t)
  PROVE  BatchInv'
<1>. DEFINE f == job[t].file
            d == job[t].done
            a == job[t].arr
            own == job[t].text
<1>1. /\ pc[t] = "write" /\ UNCHANGED <<arrays, pushed, pc>>
      /\ a \in 1..Len(arrays)
  BY WriteDoes DEF StreamInv, JobsAim, Aimed
<1>2. PICK n \in Nat \ {0} :
        /\ f \in Calls /\ job' = [job EXCEPT ![t].done = d + n]
        /\ d \in Nat /\ d + n <= Len(own) /\ Len(own) \in Nat
        /\ Len(file[f]) \in Nat /\ Len(file'[f]) = Len(file[f]) + n
        /\ file'[f] \in Seq(Unit) /\ DOMAIN file'[f] = 1..Len(file'[f])
        /\ \A k \in 1..Len(file[f]) : file'[f][k] = file[f][k]
        /\ \A x \in 1..n : file'[f][Len(file[f]) + x] = own[d + x]
        /\ \A c \in Calls : c # f => file'[c] = file[c]
  BY PartIs
<1>3. Copies(t) /\ Wrote(t)
  BY <1>1 DEF BatchInv, JobTexts
<1>4. /\ own \in Seq(Unit) /\ file[f] \in Seq(Unit)
      /\ Text(arrays[a]) \in Seq(Unit) /\ Len(Text(arrays[a])) \in Nat
  BY <1>1, <1>2, ArrayIs DEF StreamInv, TypeOK
<1>5. \A k \in 1..Len(own) : k \in 1..Len(Text(arrays[a])) /\ own[k] = Text(arrays[a])[k]
  BY <1>2, <1>3, <1>4 DEF Copies
<1>6. BatchOrder'
  <2>. SUFFICES ASSUME NEW c \in Calls, NEW b \in 1..Len(arrays)
                PROVE  InOrder(file'[c], Text(arrays[b]))
    <3>1. DOMAIN arrays = 1..Len(arrays)
      BY LenProperties DEF StreamInv, TypeOK
    <3>. QED  BY <1>1, <3>1 DEF BatchOrder
  <2>1. InOrder(file[c], Text(arrays[b]))
    <3>1. DOMAIN arrays = 1..Len(arrays)
      BY LenProperties DEF StreamInv, TypeOK
    <3>. QED  BY <3>1 DEF BatchInv, BatchOrder
  <2>2. CASE c # f
    BY <1>2, <2>1, <2>2
  <2>3. CASE c = f
    <3>1. Text(arrays[b]) \in Seq(Unit) /\ Len(Text(arrays[b])) \in Nat
      BY ArrayIs
    <3>2. ASSUME NEW k \in 1..Len(own), NEW m \in 1..Len(Text(arrays[b])),
                 own[k] = Text(arrays[b])[m]
          PROVE  k = m /\ \A i \in 1..(m - 1) : Text(arrays[b])[i] = own[i]
      <4>1. k \in 1..Len(Text(arrays[a])) /\ Text(arrays[a])[k] = Text(arrays[b])[m]
        BY <1>5, <3>2
      <4>2. a = b /\ k = m
        BY <1>1, <4>1, UnitOnce DEF BatchInv
      <4>3. \A i \in 1..(m - 1) : i \in 1..Len(own)
        BY <1>2, <4>2
      <4>. QED  BY <1>5, <4>2, <4>3
    <3>3. \A k \in 1..d : \E h \in 1..Len(file[f]) : file[f][h] = own[k]
      BY <1>3 DEF Wrote
    <3>4. InOrder(file'[f], Text(arrays[b]))
      <4>. HIDE DEF f, d, own
      <4>1. InOrder(file[f], Text(arrays[b]))
        BY <2>1, <2>3
      <4>2. Appended(file'[f], file[f], own, d, n)
        BY <1>2 DEF Appended
      <4>3. BeginAlike(own, Text(arrays[b]))
        BY <3>2 DEF BeginAlike
      <4>4. d \in Nat /\ d + n <= Len(own) /\ file'[f] \in Seq(Unit)
        BY <1>2
      <4>. QED  BY <1>4, <3>1, <3>3, <4>1, <4>2, <4>3, <4>4, PartInOrder
    <3>. QED  BY <2>3, <3>4
  <2>. QED  BY <2>2, <2>3
<1>7. Unique'
  <2>1. arrays' = arrays /\ Unique
    BY <1>1 DEF BatchInv
  <2>. QED  BY <2>1 DEF Unique
<1>8. AllNumbered'
  <2>1. ASSUME NEW c \in Calls, NEW k \in 1..Len(file'[c])
        PROVE  Numbered(file'[c][k].ev)
    <3>1. CASE c # f \/ k \in 1..Len(file[f])
      BY <1>2, <2>1, <3>1 DEF BatchInv, AllNumbered
    <3>2. CASE c = f /\ k \notin 1..Len(file[f])
      <4>. DEFINE x == k - Len(file[f])
                  e == arrays[a][Line(d + x)]
      <4>1. x \in 1..n /\ k = Len(file[f]) + x
        <5>1. k \in 1..(Len(file[f]) + n) /\ Len(file[f]) \in Nat /\ n \in Nat
          BY <1>2, <2>1, <3>2
        <5>. QED  BY <3>2, <5>1
      <4>2. d + x \in 1..Len(own) /\ file'[c][k] = own[d + x]
        <5>1. file'[f][Len(file[f]) + x] = own[d + x]
          BY <1>2, <4>1
        <5>2. d + x \in 1..Len(own)
          <6>. HIDE DEF x, d, own
          <6>. QED  BY <1>2, <4>1
        <5>. QED  BY <3>2, <4>1, <5>1, <5>2
      <4>3. d + x \in 1..Len(Text(arrays[a])) /\ own[d + x] = Text(arrays[a])[d + x]
        BY <1>5, <4>2
      <4>4. /\ arrays[a] \in Seq(Event) /\ Len(arrays[a]) \in Nat
            /\ d + x \in 1..(Len(arrays[a]) * LineUnits)
        BY <1>1, <4>3, ArrayIs
      <4>5. Line(d + x) \in 1..Len(arrays[a]) /\ Text(arrays[a])[d + x].ev = e
        <5>1. Line(d + x) \in 1..Len(arrays[a])
          BY <4>4, LineIs
        <5>. DEFINE y == d + x
        <5>. HIDE DEF y
        <5>2. y \in 1..(Len(arrays[a]) * LineUnits) /\ arrays[a] \in Seq(Event)
          BY <4>4 DEF y
        <5>3. Text(arrays[a])[y] = [ev |-> arrays[a][Line(y)], u |-> (y - 1) % LineUnits]
          BY <5>2, TextIs
        <5>4. Text(arrays[a])[y].ev = arrays[a][Line(y)]
          BY <5>3
        <5>. QED  BY <5>1, <5>4 DEF y
      <4>6. Numbered(e)
        BY <1>1, <4>5 DEF BatchInv, AllNumbered
      <4>. QED  BY <4>2, <4>3, <4>5, <4>6
    <3>. QED  BY <3>1, <3>2
  <2>. QED  BY <1>1, <2>1 DEF BatchInv, AllNumbered, Numbered
<1>9. JobTexts'
  <2>1. \A c \in Calls : /\ Len(file[c]) <= Len(file'[c])
                         /\ \A k \in 1..Len(file[c]) : file'[c][k] = file[c][k]
    <3>1. \A c \in Calls : file[c] \in Seq(Unit)
      BY DEF StreamInv, TypeOK
    <3>2. \A c \in Calls : Len(file[c]) \in Nat
      BY <3>1, LenProperties
    <3>3. Len(file[f]) <= Len(file'[f]) /\ \A k \in 1..Len(file[f]) : file'[f][k] = file[f][k]
      <4>1. n \in Nat /\ Len(file[f]) \in Nat /\ Len(file'[f]) = Len(file[f]) + n
        BY <1>2
      <4>. HIDE DEF f
      <4>2. Len(file[f]) <= Len(file'[f])
        BY <4>1
      <4>. QED  BY <1>2, <4>2
    <3>4. ASSUME NEW c \in Calls, c # f
          PROVE  /\ Len(file[c]) <= Len(file'[c])
                 /\ \A k \in 1..Len(file[c]) : file'[c][k] = file[c][k]
      <4>1. file'[c] = file[c]
        BY <1>2, <3>4
      <4>. QED  BY <3>2, <4>1
    <3>. QED  BY <3>3, <3>4
  <2>2. Grown
    <3>1. \A b \in 1..Len(arrays) : Len(arrays[b]) \in Nat
      BY ArrayIs
    <3>2. Len(arrays) \in Nat
      BY LenProperties DEF StreamInv, TypeOK
    <3>. QED  BY <1>1, <3>1, <3>2 DEF Grown
  <2>3. \A o \in Threads : o # t => job'[o] = job[o] /\ pc'[o] = pc[o]
    BY <1>1, <1>2 DEF StreamInv, TypeOK
  <2>4. ASSUME NEW o \in Threads, o # t
        PROVE  /\ pc'[o] = "open" => job'[o].done = 0
               /\ pc'[o] = "write" => Copies(o)' /\ Wrote(o)'
    BY <2>1, <2>2, <2>3, <2>4, JobStays DEF BatchInv
  <2>5. /\ job'[t].text = own /\ job'[t].arr = a /\ job'[t].file = f /\ job'[t].done = d + n
        /\ pc'[t] = "write"
    BY <1>1, <1>2 DEF StreamInv, TypeOK
  <2>6. Copies(t)'
    BY <1>1, <1>3, <2>5 DEF Copies
  <2>7. Wrote(t)'
    <3>1. ASSUME NEW k \in 1..(d + n)
          PROVE  \E h \in 1..Len(file'[f]) : file'[f][h] = own[k]
      <4>1. CASE k <= d
        <5>1. PICK h \in 1..Len(file[f]) : file[f][h] = own[k]
          BY <1>2, <1>3, <4>1 DEF Wrote
        <5>. QED  BY <1>2, <5>1
      <4>2. CASE k > d
        <5>. DEFINE x == k - d
        <5>1. x \in 1..n /\ d + x = k /\ Len(file[f]) + x \in 1..Len(file'[f])
          <6>1. d \in Nat /\ n \in Nat /\ Len(file[f]) \in Nat /\ k \in 1..(d + n)
                /\ Len(file'[f]) = Len(file[f]) + n
            BY <1>2, <3>1
          <6>. HIDE DEF d, f
          <6>. QED  BY <4>2, <6>1
        <5>2. file'[f][Len(file[f]) + x] = own[d + x]
          BY <1>2, <5>1
        <5>. QED  BY <5>1, <5>2
      <4>. QED  BY <1>2, <4>1, <4>2
    <3>. QED  BY <1>2, <2>5, <3>1 DEF Wrote
  <2>. QED  BY <2>4, <2>5, <2>6, <2>7 DEF JobTexts
<1>. QED  BY <1>6, <1>7, <1>8, <1>9 DEF BatchInv

\* What a step that writes nothing does to a flush: nothing, or it ends or begins.
Waits(o) == pc'[o] = pc[o] /\ job'[o] = job[o]
Ends(o) == pc'[o] \in {"out", "retry"}
Starts(o) ==
  /\ job'[o].done = 0
  /\ pc'[o] = "open" \/ (pc'[o] = "write" /\ job'[o].text = Text(arrays'[job'[o].arr]))

(* Such a step keeps batches in order:                                      *)
LEMMA QuietKeepsBatch ==
  ASSUME StreamInv, StreamInv', BatchInv, Adds, file' = file,
         \A o \in Threads : Waits(o) \/ Ends(o) \/ Starts(o)
  PROVE  BatchInv'
<1>1. Unique' /\ AllNumbered' /\ BatchOrder'
  BY AddsKeeps DEF BatchInv
<1>2. \A c \in Calls : /\ Len(file[c]) <= Len(file'[c])
                       /\ \A k \in 1..Len(file[c]) : file'[c][k] = file[c][k]
  <2>1. \A c \in Calls : file[c] \in Seq(Unit)
    BY DEF StreamInv, TypeOK
  <2>2. \A c \in Calls : Len(file[c]) \in Nat
    BY <2>1, LenProperties
  <2>. QED  BY <2>2
<1>3. ASSUME NEW o \in Threads
      PROVE  /\ pc'[o] = "open" => job'[o].done = 0
             /\ pc'[o] = "write" => Copies(o)' /\ Wrote(o)'
  <2>1. CASE Waits(o)
    BY <1>2, <2>1, JobStays DEF Waits, BatchInv, Adds
  <2>2. CASE Ends(o)
    BY <2>2 DEF Ends
  <2>3. CASE Starts(o) /\ pc'[o] = "open"
    BY <2>3 DEF Starts
  <2>4. CASE Starts(o) /\ pc'[o] = "write"
    <3>1. job'[o].done = 0 /\ job'[o].text = Text(arrays'[job'[o].arr])
      BY <2>4 DEF Starts
    <3>2. Len(job'[o].text) \in Nat
      <4>1. job'[o].text \in Seq(Unit)
        BY DEF StreamInv, TypeOK
      <4>. QED  BY <4>1, LenProperties
    <3>3. Copies(o)'
      BY <3>1, <3>2 DEF Copies
    <3>4. Wrote(o)'
      BY <3>1, <3>2 DEF Wrote
    <3>. QED  BY <2>4, <3>3, <3>4
  <2>. QED  BY <2>1, <2>2, <2>3, <2>4 DEF Starts
<1>. QED  BY <1>1, <1>3 DEF BatchInv, JobTexts

(* No thread takes back an event.                                           *)
LEMMA PushedGrows ==
  ASSUME StreamInv, Next
  PROVE  \A t \in Threads : pushed[t] <= pushed'[t]
<1>1. pushed \in [Threads -> Nat]
  <2>1. pushed \in [Threads -> 0..MaxEvents] /\ MaxEvents \in Nat
    BY Constants DEF StreamInv, TypeOK
  <2>. QED  BY <2>1
<1>2. pushed' = pushed \/ \E t \in Threads : pushed' = [pushed EXCEPT ![t] = @ + 1]
  BY DEF Next, Push, Flush, Create, OpenFails, WriteUnits, FinishFlush, Begin, CallStep,
         BeginManifest, Leave, CloseFile, ListFile, End
<1>. QED  BY <1>1, <1>2

(* opening and finishing,                                                   *)
LEMMA FlushKeepsBatch ==
  ASSUME StreamInv, StreamInv', BatchInv, Next, NEW t \in Threads,
         Create(t) \/ OpenFails(t) \/ FinishFlush(t)
  PROVE  BatchInv'
<1>1. file' = file /\ (arrays' = arrays \/ arrays' = Append(arrays, <<>>))
  BY DEF Create, OpenFails, FinishFlush, ArraysAfter, fileVars
<1>2. Adds
  BY <1>1, EmptyAdds, PushedGrows
<1>3. \A o \in Threads : o # t => Waits(o)
  BY DEF Create, OpenFails, FinishFlush, Waits, StreamInv, TypeOK
<1>4. Ends(t) \/ Starts(t)
  <2>1. CASE Create(t)
    <3>1. pc[t] = "open" /\ job[t].done = 0
      BY <2>1 DEF Create, BatchInv, JobTexts
    <3>2. /\ pc'[t] = "write" /\ job'[t].done = 0 /\ job'[t].arr = job[t].arr
          /\ job'[t].text = Text(arrays[job[t].arr]) /\ arrays' = arrays
      BY <2>1, <3>1 DEF Create, StreamInv, TypeOK
    <3>. QED  BY <3>2 DEF Starts
  <2>2. CASE OpenFails(t) \/ FinishFlush(t)
    BY <2>2 DEF OpenFails, FinishFlush, Ends, StreamInv, TypeOK
  <2>. QED  BY <2>1, <2>2
<1>. QED  BY <1>1, <1>2, <1>3, <1>4, QuietKeepsBatch

(* a hook and the end of a call,                                            *)
LEMMA StoreStarts ==
  ASSUME StreamInv, StreamInv', NEW t \in Threads, NEW events \in Seq(Event),
         Drops \/ Stores(t, events)
  PROVE  \A o \in Threads : Waits(o) \/ Ends(o) \/ Starts(o)
<1>1. CASE UNCHANGED <<pc, job>>
  BY <1>1 DEF Waits
<1>2. CASE Stores(t, events) /\ Enters(t, events)
  <2>1. \A o \in Threads : o # t => Waits(o)
    BY <1>2 DEF Enters, Waits, StreamInv, TypeOK
  <2>2. arrays'[Len(arrays)] = events
    <3>1. Len(arrays) \in 1..Len(arrays) /\ arrays \in Seq(Seq(Event))
      BY CurrentIs DEF StreamInv, TypeOK
    <3>. QED  BY <1>2, <3>1, OtherArray DEF Stores
  <2>3. /\ job'[t] = NewJob(Len(arrays), events)
        /\ pc'[t] = (IF stream = 0 THEN "open" ELSE "write")
    BY <1>2 DEF Enters, StreamInv, TypeOK
  <2>4. Starts(t)
    BY <2>2, <2>3 DEF Starts, NewJob
  <2>. QED  BY <2>1, <2>4
<1>. QED  BY <1>1, <1>2 DEF Drops, Stores

(* Storing an event, and the last flush's start, only touch arrays and jobs.*)
LEMMA StoringKeepsBatch ==
  ASSUME StreamInv, StreamInv', BatchInv, Next, (\E t \in Threads : Push(t)) \/ Leave
  PROVE  BatchInv'
<1>1. CASE \E t \in Threads : Push(t)
  <2>1. PICK t \in Threads : Push(t)
    BY <1>1
  <2>2. /\ NewEvent(t) \in Event /\ pushed' = [pushed EXCEPT ![t] = @ + 1]
        /\ Append(Current, NewEvent(t)) \in Seq(Event) /\ file' = file
        /\ Drops \/ Stores(t, Append(Current, NewEvent(t)))
    BY <2>1, PushDoes DEF fileVars
  <2>3. Adds
    <3>1. CASE Drops
      BY <3>1, EmptyAdds, PushedGrows DEF Drops
    <3>2. CASE Stores(t, Append(Current, NewEvent(t)))
      BY <2>2, <3>2, StoreAdds DEF Stores
    <3>. QED  BY <2>2, <3>1, <3>2
  <2>. QED  BY <2>2, <2>3, StoreStarts, QuietKeepsBatch
<1>2. CASE Leave
  <2>1. /\ Current \in Seq(Event) /\ file' = file /\ Primary \in Threads
        /\ \/ UNCHANGED <<arrays, pc, job>>
           \/ Drops \/ Stores(Primary, Current)
    BY <1>2, LeaveDoes, Constants DEF fileVars
  <2>2. arrays' = arrays \/ arrays' = Append(arrays, <<>>)
    <3>1. [arrays EXCEPT ![Len(arrays)] = Current] = arrays
      BY CurrentIs DEF StreamInv, TypeOK, Current
    <3>. QED  BY <2>1, <3>1 DEF Drops, Stores
  <2>3. Adds
    BY <2>2, EmptyAdds, PushedGrows
  <2>4. \A o \in Threads : Waits(o) \/ Ends(o) \/ Starts(o)
    <3>1. CASE UNCHANGED <<arrays, pc, job>>
      BY <3>1 DEF Waits
    <3>. QED  BY <2>1, <3>1, StoreStarts
  <2>. QED  BY <2>1, <2>3, <2>4, QuietKeepsBatch
<1>. QED  BY <1>1, <1>2

(* and every other step of a call.                                          *)
LEMMA CallKeepsBatch ==
  ASSUME StreamInv, StreamInv', BatchInv, Next,
         Begin \/ BeginManifest \/ CloseFile \/ ListFile \/ End
  PROVE  BatchInv'
<1>1. /\ UNCHANGED <<file, pc, job>>
      /\ arrays' = arrays \/ arrays' = Append(arrays, <<>>)
  BY DEF Begin, BeginManifest, CloseFile, ListFile, End, fileVars
<1>2. Adds
  BY <1>1, EmptyAdds, PushedGrows
<1>3. \A o \in Threads : Waits(o)
  BY <1>1 DEF Waits
<1>. QED  BY <1>1, <1>2, <1>3, QuietKeepsBatch

(* Every step, and every stutter, keeps the order of the batches.           *)
LEMMA BatchKeeps == StreamInv /\ StreamInv' /\ BatchInv /\ [Next]_vars => BatchInv'
<1>. SUFFICES ASSUME StreamInv, StreamInv', BatchInv, [Next]_vars PROVE BatchInv'
  OBVIOUS
<1>1. CASE Next
  BY <1>1, StoringKeepsBatch, FlushKeepsBatch, WriteKeepsBatch, CallKeepsBatch
     DEF Next, Flush, CallStep
<1>2. CASE UNCHANGED vars
  <2>1. UNCHANGED <<arrays, file, pc, job, pushed>>
    BY <1>2 DEF vars, fileVars
  <2>2. Unique' /\ AllNumbered'
    BY <2>1 DEF BatchInv, Unique, AllNumbered, Numbered
  <2>3. JobTexts'
    BY <2>1 DEF BatchInv, JobTexts, Copies, Wrote
  <2>4. BatchOrder'
    BY <2>1 DEF BatchInv, BatchOrder
  <2>. QED  BY <2>2, <2>3, <2>4 DEF BatchInv
<1>. QED  BY <1>1, <1>2

(* The empty stream has no batch out of order.                              *)
LEMMA BatchBegins == Init => BatchInv
<1>. SUFFICES ASSUME Init PROVE BatchInv
  OBVIOUS
<1>1. arrays = << <<>> >> /\ \A a \in 1..Len(arrays) : Len(arrays[a]) = 0
  BY DEF Init
<1>2. \A c \in Calls : file[c] = <<>>
  BY DEF Init
<1>3. Unique
  BY <1>1 DEF Unique
<1>4. AllNumbered
  BY <1>1, <1>2 DEF AllNumbered
<1>5. JobTexts
  BY DEF Init, JobTexts
<1>6. BatchOrder
  BY <1>2 DEF BatchOrder, InOrder
<1>. QED  BY <1>3, <1>4, <1>5, <1>6 DEF BatchInv

(* Whatever races: nothing of a batch gets into a file before all that is   *)
(* in front of it in its array, although several hooks flush one array,     *)
(* each as long as it was when it looked (semantic.ts pushSemanticEvent,    *)
(* manifest.ts persistEvents).                                              *)
THEOREM BatchesKeepOrder == Spec => []BatchOrder
<1>1. BatchInv => BatchOrder
  BY DEF BatchInv
<1>. QED  BY <1>1, StreamAlways, BatchBegins, BatchKeeps, PTL DEF Spec

-------------------------------------------------------------------------------
(* Two threads in one call.                                                 *)

\* The threads that push or flush; a thread that is in a flush; whether a file has the beginning
\* of an event's line.
Members == kind.pushers \cup {Primary}
Active(w) == pc[w] \in {"open", "write"}
Later(e, f) == e.by = f.by /\ e.n < f.n
Got(e) == \E k \in 1..Len(file[1]) : file[1][k] = [ev |-> e, u |-> 0]

\* One file, and its writers.
OneFile ==
  /\ \A w \in Threads : Active(w) => w \in Members /\ job[w].file = 1 /\ manifest # 0
  /\ \A c \in Calls : c # 1 => file[c] = <<>>
  /\ \A a \in 1..Len(arrays) : \A i \in 1..Len(arrays[a]) : arrays[a][i].by \in Members

\* A thread's events are in the arrays in the order in which it pushed them.
Sorted ==
  \A a, b \in 1..Len(arrays) : \A i \in 1..Len(arrays[a]), j \in 1..Len(arrays[b]) :
    (/\ arrays[a][i].by = arrays[b][j].by
     /\ a < b \/ (a = b /\ i < j))
      => arrays[a][i].n < arrays[b][j].n

\* A thread in a flush does not push: its own events are in the array that it writes, or in
\* earlier ones, and in the text that it writes; when that array has been replaced, the flush
\* that replaced it has written the events of the other thread.
OwnLast(w) ==
  \A b \in 1..Len(arrays) : b > job[w].arr =>
    \A i \in 1..Len(arrays[b]) : arrays[b][i].by # w
OwnText(w) ==
  pc[w] = "write" =>
    \A i \in 1..Len(arrays[job[w].arr]) :
      arrays[job[w].arr][i].by = w => i * LineUnits <= Len(job[w].text)
PutAway(w) ==
  job[w].arr = Len(arrays) \/
    \A i \in 1..Len(arrays[job[w].arr]) :
      arrays[job[w].arr][i].by # w => Got(arrays[job[w].arr][i])
Owns == \A w \in Threads : Active(w) => OwnLast(w) /\ OwnText(w) /\ PutAway(w)

\* What may still be written, and what is to be written for the first time is overtaken by nothing.
Pending(a) == a = Len(arrays) \/ \E w \in Threads : Active(w) /\ job[w].arr = a
Overtaken(e) == \E k \in 1..Len(file[1]) : Later(e, file[1][k].ev)
NoneOvertaken ==
  \A a \in 1..Len(arrays) : Pending(a) =>
    \A i \in 1..Len(arrays[a]) : Got(arrays[a][i]) \/ ~Overtaken(arrays[a][i])

PairInv == OneFile /\ Sorted /\ Owns /\ NoneOvertaken /\ ThreadOrder

(* An event has the number that its thread gave it.                         *)
LEMMA EventIs ==
  ASSUME StreamInv, NEW e \in Event
  PROVE  e.by \in Threads /\ e.n \in Nat /\ pushed[e.by] \in Nat
<1>1. e.by \in Threads /\ e.n \in Nat
  BY Constants DEF Event
<1>2. pushed \in [Threads -> 0..MaxEvents] /\ MaxEvents \in Nat
  BY Constants DEF StreamInv, TypeOK
<1>. QED  BY <1>1, <1>2

(* The events of the arrays and of the file are events.                     *)
LEMMA EventsHere ==
  ASSUME StreamInv
  PROVE  /\ \A a \in 1..Len(arrays) : \A i \in 1..Len(arrays[a]) : arrays[a][i] \in Event
         /\ \A e \in Event : e.by \in Threads /\ e.n \in Nat /\ pushed[e.by] \in Nat
         /\ 1 \in Calls /\ file[1] \in Seq(Unit) /\ Len(file[1]) \in Nat
         /\ DOMAIN file[1] = 1..Len(file[1])
         /\ \A k \in 1..Len(file[1]) : file[1][k] \in Unit /\ file[1][k].ev \in Event
<1>1. \A a \in 1..Len(arrays) : \A i \in 1..Len(arrays[a]) : arrays[a][i] \in Event
  BY ArrayIs
<1>2. \A e \in Event : e.by \in Threads /\ e.n \in Nat /\ pushed[e.by] \in Nat
  BY EventIs
<1>3. 1 \in Calls /\ file[1] \in Seq(Unit)
  BY Constants DEF StreamInv, TypeOK
<1>4. Len(file[1]) \in Nat /\ DOMAIN file[1] = 1..Len(file[1])
  BY <1>3, LenProperties
<1>5. \A k \in 1..Len(file[1]) : file[1][k] \in Unit
  BY <1>3, ElementOfSeq
<1>6. \A k \in 1..Len(file[1]) : file[1][k].ev \in Event
  BY <1>5 DEF Unit
<1>. QED  BY <1>1, <1>2, <1>3, <1>4, <1>5, <1>6

(* An array that gains events keeps its threads' order: the new one is last. *)
LEMMA AddsKeepsSorted ==
  ASSUME StreamInv, StreamInv', AllNumbered, Sorted, Adds,
         \A a \in 1..Len(arrays') : \A i \in 1..Len(arrays'[a]) :
           New(a, i) => a = Len(arrays) /\ Len(arrays') = Len(arrays)
  PROVE  Sorted'
<1>. SUFFICES ASSUME NEW a \in 1..Len(arrays'), NEW b \in 1..Len(arrays'),
                     NEW i \in 1..Len(arrays'[a]), NEW j \in 1..Len(arrays'[b]),
                     arrays'[a][i].by = arrays'[b][j].by, a < b \/ (a = b /\ i < j)
              PROVE  arrays'[a][i].n < arrays'[b][j].n
  BY DEF Sorted
<1>1. Grown /\ Fresh
  BY DEF Adds
<1>2. Len(arrays) \in Nat /\ \A x \in 1..Len(arrays) : Len(arrays[x]) \in Nat
  <2>1. Len(arrays) \in Nat
    BY LenProperties DEF StreamInv, TypeOK
  <2>. QED  BY <2>1, ArrayIs
<1>3. ~New(a, i)
  <2>. SUFFICES ASSUME New(a, i) PROVE FALSE
    OBVIOUS
  <2>1. a = Len(arrays) /\ Len(arrays') = Len(arrays)
    OBVIOUS
  <2>2. a = b /\ i < j
    BY <1>2, <2>1
  <2>3. a \in 1..Len(arrays) /\ i \notin 1..Len(arrays[a])
    BY <2>1 DEF New
  <2>4. Len(arrays[a]) \in Nat /\ Len(arrays'[a]) \in Nat
    <3>1. arrays'[a] \in Seq(Event)
      BY ElementOfSeq DEF StreamInv, TypeOK
    <3>. QED  BY <1>2, <2>3, <3>1, LenProperties
  <2>5. j \notin 1..Len(arrays[b])
    BY <2>2, <2>3, <2>4
  <2>6. New(b, j)
    BY <2>5 DEF New
  <2>7. \A x, y \in 1..Len(arrays') : \A v \in 1..Len(arrays'[x]), w \in 1..Len(arrays'[y]) :
          New(x, v) /\ New(y, w) => x = y /\ v = w
    BY DEF Adds
  <2>8. i = j
    BY <2>6, <2>7
  <2>. QED  BY <2>2, <2>4, <2>8
<1>4. a \in 1..Len(arrays) /\ i \in 1..Len(arrays[a]) /\ arrays'[a][i] = arrays[a][i]
  BY <1>1, <1>3 DEF New, Grown
<1>5. CASE ~New(b, j)
  <2>1. b \in 1..Len(arrays) /\ j \in 1..Len(arrays[b]) /\ arrays'[b][j] = arrays[b][j]
    BY <1>1, <1>5 DEF New, Grown
  <2>. QED  BY <1>4, <2>1 DEF Sorted
<1>6. CASE New(b, j)
  <2>1. arrays'[b][j].n > pushed[arrays'[b][j].by]
    BY <1>1, <1>6 DEF Fresh
  <2>2. arrays[a][i].n <= pushed[arrays[a][i].by]
    BY <1>4 DEF AllNumbered, Numbered
  <2>3. arrays[a][i] \in Event /\ arrays'[b][j] \in Event
    <3>1. arrays'[b] \in Seq(Event)
      BY ElementOfSeq DEF StreamInv, TypeOK
    <3>2. arrays'[b][j] \in Event
      BY <3>1, ElementOfSeq
    <3>3. arrays[a][i] \in Event
      BY <1>4, EventsHere
    <3>. QED  BY <1>4, <3>2, <3>3
  <2>4. arrays[a][i].n \in Nat /\ pushed[arrays[a][i].by] \in Nat
    BY <2>3, EventIs
  <2>5. arrays'[b][j].n \in Nat
    BY <2>3, EventIs
  <2>6. arrays[a][i].by = arrays'[b][j].by
    BY <1>4
  <2>7. arrays[a][i].n < arrays'[b][j].n
    <3>. DEFINE x == arrays[a][i].n
                y == arrays'[b][j].n
                z == pushed[arrays[a][i].by]
    <3>1. x <= z /\ y > z
      BY <2>1, <2>2, <2>6
    <3>2. x \in Nat /\ y \in Nat /\ z \in Nat
      BY <2>4, <2>5
    <3>. HIDE DEF x, y, z
    <3>3. x < y
      BY <3>1, <3>2
    <3>. QED  BY <3>3 DEF x, y
  <2>. QED  BY <1>4, <2>7
<1>. QED  BY <1>5, <1>6

\* How a flush goes on, or begins, when nothing is written.
Full(w) == job[w].text = Text(arrays[job[w].arr])
Continues(w) ==
  /\ Active(w) /\ job'[w].arr = job[w].arr /\ job'[w].file = job[w].file
  /\ pc'[w] = "write" => (pc[w] = "write" /\ job'[w].text = job[w].text) \/ Full(w)'
Enlists(w) ==
  /\ w \in Members /\ job'[w].arr = Len(arrays') /\ job'[w].file = 1 /\ manifest' # 0
  /\ pc'[w] = "write" => Full(w)'

\* A step that writes nothing: a thread that is in no flush may push an event, flushes go on or
\* begin, and an array is replaced when its events are put away.
Quiet ==
  /\ Adds /\ UNCHANGED <<kind, file>> /\ (manifest # 0 => manifest' # 0)
  /\ \A a \in 1..Len(arrays') : \A i \in 1..Len(arrays'[a]) :
       New(a, i) => /\ a = Len(arrays) /\ Len(arrays') = Len(arrays)
                    /\ arrays'[a][i].by \in Members /\ pc[arrays'[a][i].by] = "out"
  /\ \A w \in Threads : Active(w)' => Continues(w) \/ Enlists(w)
  /\ Len(arrays') = Len(arrays) \/ \A w \in Threads : Active(w)' => PutAway(w)'

(* Its arrays are those of before, where nothing is new.                    *)
LEMMA QuietArrays ==
  ASSUME StreamInv, StreamInv', Quiet
  PROVE  /\ Len(arrays) \in Nat /\ Len(arrays') \in Nat /\ Len(arrays) <= Len(arrays')
         /\ Len(arrays) > 0
         /\ \A a \in 1..Len(arrays') : Len(arrays'[a]) \in Nat
         /\ \A a \in 1..Len(arrays) : Len(arrays[a]) \in Nat
         /\ \A a \in 1..Len(arrays') : \A i \in 1..Len(arrays'[a]) :
              ~New(a, i) => /\ a \in 1..Len(arrays) /\ i \in 1..Len(arrays[a])
                            /\ arrays'[a][i] = arrays[a][i]
         /\ \A a \in 1..Len(arrays') : \A i \in 1..Len(arrays'[a]) :
              New(a, i) => /\ a = Len(arrays) /\ Len(arrays') = Len(arrays)
                           /\ arrays'[a][i].by \in Members /\ pc[arrays'[a][i].by] = "out"
<1>1. Len(arrays) \in Nat /\ Len(arrays') \in Nat /\ Len(arrays) > 0
  <2>1. Len(arrays) \in 1..Len(arrays) /\ Len(arrays) \in Nat
    BY CurrentIs DEF StreamInv
  <2>. QED  BY <2>1, LenProperties DEF StreamInv, TypeOK
<1>2. \A a \in 1..Len(arrays) : Len(arrays[a]) \in Nat
  BY ArrayIs
<1>3. \A a \in 1..Len(arrays') : Len(arrays'[a]) \in Nat
  <2>1. \A a \in 1..Len(arrays') : arrays'[a] \in Seq(Event)
    BY ElementOfSeq DEF StreamInv, TypeOK
  <2>. QED  BY <2>1, LenProperties
<1>. QED  BY <1>1, <1>2, <1>3 DEF Quiet, Adds, Grown, New

(* It keeps the one file, the owners of events,                             *)
LEMMA QuietKeepsFile ==
  ASSUME StreamInv, StreamInv', OneFile, Quiet
  PROVE  OneFile'
<1>1. Members' = Members
  BY DEF Quiet, Members
<1>2. ASSUME NEW w \in Threads, Active(w)'
      PROVE  w \in Members' /\ job'[w].file = 1 /\ manifest' # 0
  <2>1. CASE Continues(w)
    BY <1>1, <2>1 DEF Continues, OneFile, Quiet
  <2>2. CASE Enlists(w)
    BY <1>1, <2>2 DEF Enlists
  <2>. QED  BY <1>2, <2>1, <2>2 DEF Quiet
<1>3. ASSUME NEW a \in 1..Len(arrays'), NEW i \in 1..Len(arrays'[a])
      PROVE  arrays'[a][i].by \in Members'
  BY <1>1, QuietArrays DEF OneFile
<1>4. \A c \in Calls : c # 1 => file'[c] = <<>>
  BY DEF OneFile, Quiet
<1>. QED  BY <1>2, <1>3, <1>4 DEF OneFile

(* what a thread in a flush has in the arrays,                              *)
LEMMA QuietKeepsOwns ==
  ASSUME StreamInv, StreamInv', Owns, Quiet, NEW w \in Threads, Active(w)'
  PROVE  OwnLast(w)' /\ OwnText(w)' /\ PutAway(w)'
<1>. DEFINE a == job'[w].arr
<1>1. /\ Len(arrays) \in Nat /\ Len(arrays') \in Nat /\ Len(arrays) <= Len(arrays')
      /\ \A b \in 1..Len(arrays') : Len(arrays'[b]) \in Nat
      /\ a \in 1..Len(arrays')
  <2>1. a \in 1..Len(arrays')
    BY DEF StreamInv, JobsAim, Aimed, Active
  <2>. QED  BY <2>1, QuietArrays
<1>2. Continues(w) \/ Enlists(w)
  BY DEF Quiet
<1>3. OwnLast(w)'
  <2>. SUFFICES ASSUME NEW b \in 1..Len(arrays'), b > a, NEW i \in 1..Len(arrays'[b]),
                       arrays'[b][i].by = w
                PROVE  FALSE
    BY DEF OwnLast
  <2>1. CASE Continues(w)
    <3>1. ~New(b, i)
      BY <2>1, QuietArrays DEF Continues, Active
    <3>2. b \in 1..Len(arrays) /\ i \in 1..Len(arrays[b]) /\ arrays[b][i].by = w
      BY <3>1, QuietArrays
    <3>3. OwnLast(w) /\ job[w].arr = a
      BY <2>1 DEF Continues, Owns
    <3>. QED  BY <3>2, <3>3 DEF OwnLast
  <2>2. CASE Enlists(w)
    BY <1>1, <2>2 DEF Enlists
  <2>. QED  BY <1>2, <2>1, <2>2
<1>4. OwnText(w)'
  <2>. SUFFICES ASSUME pc'[w] = "write", NEW i \in 1..Len(arrays'[a]), arrays'[a][i].by = w
                PROVE  i * LineUnits <= Len(job'[w].text)
    BY DEF OwnText
  <2>1. CASE Full(w)'
    <3>1. arrays'[a] \in Seq(Event) /\ Len(arrays'[a]) \in Nat /\ LineUnits \in Nat
      <4>1. arrays'[a] \in Seq(Event)
        BY <1>1, ElementOfSeq DEF StreamInv, TypeOK
      <4>. QED  BY <1>1, <4>1, Constants
    <3>2. Len(job'[w].text) = Len(arrays'[a]) * LineUnits
      BY <2>1, <3>1, TextIs DEF Full
    <3>3. i * LineUnits <= Len(arrays'[a]) * LineUnits
      <4>. DEFINE n == Len(arrays'[a])
      <4>1. n \in Nat /\ i \in 1..n
        BY <3>1
      <4>. HIDE DEF n
      <4>2. PICK x \in Nat : n = i + x
        BY <4>1
      <4>3. n * LineUnits = i * LineUnits + x * LineUnits /\ x * LineUnits \in Nat
        BY <3>1, <4>1, <4>2
      <4>4. i * LineUnits \in Nat
        BY <3>1, <4>1
      <4>. QED  BY <4>3, <4>4 DEF n
    <3>. QED  BY <3>2, <3>3
  <2>2. CASE Continues(w) /\ pc[w] = "write" /\ job'[w].text = job[w].text
    <3>1. ~New(a, i)
      BY <1>1, <2>2, QuietArrays
    <3>2. a \in 1..Len(arrays) /\ i \in 1..Len(arrays[a]) /\ arrays[a][i].by = w
      BY <1>1, <3>1, QuietArrays
    <3>3. OwnText(w) /\ job[w].arr = a
      BY <2>2 DEF Continues, Owns
    <3>. QED  BY <2>2, <3>2, <3>3 DEF OwnText
  <2>. QED  BY <1>2, <2>1, <2>2 DEF Continues, Enlists
<1>5. PutAway(w)'
  <2>1. CASE Len(arrays') = Len(arrays)
    <3>1. CASE Enlists(w)
      BY <3>1 DEF Enlists, PutAway
    <3>2. CASE Continues(w) /\ a # Len(arrays')
      <4>1. PutAway(w) /\ job[w].arr = a
        BY <3>2 DEF Continues, Owns
      <4>2. ASSUME NEW i \in 1..Len(arrays'[a]), arrays'[a][i].by # w
            PROVE  Got(arrays[job[w].arr][i])'
        <5>1. ~New(a, i)
          BY <1>1, <2>1, <3>2, QuietArrays
        <5>2. i \in 1..Len(arrays[a]) /\ arrays'[a][i] = arrays[a][i]
          BY <1>1, <5>1, QuietArrays
        <5>3. Got(arrays[a][i])
          BY <2>1, <3>2, <4>1, <4>2, <5>2 DEF PutAway
        <5>. QED  BY <5>2, <5>3 DEF Got, Quiet
      <4>. QED  BY <4>2 DEF PutAway
    <3>3. CASE a = Len(arrays')
      BY <3>3 DEF PutAway
    <3>. QED  BY <1>2, <3>1, <3>2, <3>3
  <2>2. CASE Len(arrays') # Len(arrays)
    BY <2>2 DEF Quiet
  <2>. QED  BY <2>1, <2>2
<1>. QED  BY <1>3, <1>4, <1>5

(* and that nothing is overtaken: a new event has the greatest number.      *)
LEMMA QuietKeepsTurn ==
  ASSUME StreamInv, StreamInv', AllNumbered, NoneOvertaken, Quiet
  PROVE  NoneOvertaken'
<1>. SUFFICES ASSUME NEW a \in 1..Len(arrays'), Pending(a)', NEW i \in 1..Len(arrays'[a]),
                     Overtaken(arrays[a][i])'
              PROVE  Got(arrays[a][i])'
  BY DEF NoneOvertaken
<1>1. PICK k \in 1..Len(file[1]) : Later(arrays'[a][i], file[1][k].ev)
  BY DEF Overtaken, Quiet
<1>2. CASE New(a, i)
  <2>1. arrays'[a][i].n > pushed[arrays'[a][i].by]
    BY <1>2 DEF Quiet, Adds, Fresh
  <2>2. /\ file[1][k].ev.n <= pushed[file[1][k].ev.by] /\ file[1][k].ev \in Event
        /\ file[1][k].ev.n \in Nat /\ pushed[file[1][k].ev.by] \in Nat
    BY EventsHere DEF AllNumbered, Numbered
  <2>3. arrays'[a][i].n \in Nat
    <3>1. arrays'[a] \in Seq(Event)
      BY ElementOfSeq DEF StreamInv, TypeOK
    <3>2. arrays'[a][i] \in Event
      BY <3>1, ElementOfSeq
    <3>. QED  BY <3>2, EventIs
  <2>. QED  BY <1>1, <2>1, <2>2, <2>3 DEF Later
<1>3. CASE ~New(a, i)
  <2>1. a \in 1..Len(arrays) /\ i \in 1..Len(arrays[a]) /\ arrays'[a][i] = arrays[a][i]
    BY <1>3, QuietArrays
  <2>2. Pending(a)
    <3>1. CASE a = Len(arrays')
      BY <2>1, <3>1, QuietArrays DEF Pending
    <3>2. ASSUME NEW w \in Threads, Active(w)', job'[w].arr = a
          PROVE  Pending(a)
      <4>1. CASE Continues(w)
        BY <3>2, <4>1 DEF Continues, Pending
      <4>2. CASE Enlists(w)
        BY <2>1, <3>2, <4>2, QuietArrays DEF Enlists, Pending
      <4>. QED  BY <3>2, <4>1, <4>2 DEF Quiet
    <3>. QED  BY <3>1, <3>2 DEF Pending
  <2>3. Overtaken(arrays[a][i])
    BY <1>1, <2>1 DEF Overtaken
  <2>4. Got(arrays[a][i])
    BY <2>1, <2>2, <2>3 DEF NoneOvertaken
  <2>. QED  BY <2>1, <2>4 DEF Got, Quiet
<1>. QED  BY <1>2, <1>3

(* So it keeps all that is said of two threads.                             *)
LEMMA QuietKeepsPair ==
  ASSUME StreamInv, StreamInv', BatchInv, PairInv, Quiet
  PROVE  PairInv'
<1>1. OneFile'
  BY QuietKeepsFile DEF PairInv
<1>2. Sorted'
  BY AddsKeepsSorted DEF PairInv, BatchInv, Quiet
<1>3. Owns'
  BY QuietKeepsOwns DEF PairInv, Owns
<1>4. NoneOvertaken'
  BY QuietKeepsTurn DEF PairInv, BatchInv
<1>5. ThreadOrder'
  BY DEF PairInv, Quiet, ThreadOrder, TwoThreads, FirstAt
<1>. QED  BY <1>1, <1>2, <1>3, <1>4, <1>5 DEF PairInv

(* A new array has no event.                                                *)
LEMMA NothingNew ==
  ASSUME StreamInv, StreamInv', arrays' = Append(arrays, <<>>) \/ arrays' = arrays
  PROVE  \A a \in 1..Len(arrays') : \A i \in 1..Len(arrays'[a]) : ~New(a, i)
<1>1. /\ \A a \in 1..Len(arrays) : arrays'[a] = arrays[a]
      /\ \A a \in 1..Len(arrays') : a \notin 1..Len(arrays) => arrays'[a] = <<>>
  <2>1. arrays \in Seq(Seq(Event)) /\ Len(arrays) \in Nat
    BY LenProperties DEF StreamInv, TypeOK
  <2>2. CASE arrays' = arrays
    BY <2>1, <2>2
  <2>3. CASE arrays' = Append(arrays, <<>>)
    BY <2>1, <2>3, NewArray
  <2>. QED  BY <2>2, <2>3
<1>. SUFFICES ASSUME NEW a \in 1..Len(arrays'), NEW i \in 1..Len(arrays'[a]), New(a, i)
              PROVE  FALSE
  OBVIOUS
<1>2. a \notin 1..Len(arrays)
  BY <1>1 DEF New
<1>3. arrays'[a] = <<>> /\ Len(<<>>) = 0
  BY <1>1, <1>2
<1>. QED  BY <1>3

(* A step that stores nothing is quiet when flushes go on, and a new array is no loss. *)
LEMMA StillQuiet ==
  ASSUME StreamInv, StreamInv', arrays' = Append(arrays, <<>>) \/ arrays' = arrays,
         UNCHANGED <<kind, file, pushed>>, manifest # 0 => manifest' # 0,
         \A w \in Threads : Active(w)' => Continues(w) \/ Enlists(w),
         arrays' = arrays \/ \A w \in Threads : Active(w)' => PutAway(w)'
  PROVE  Quiet
<1>1. \A o \in Threads : pushed[o] <= pushed'[o]
  <2>1. pushed \in [Threads -> 0..MaxEvents] /\ MaxEvents \in Nat
    BY Constants DEF StreamInv, TypeOK
  <2>2. \A o \in Threads : pushed[o] \in Nat
    BY <2>1
  <2>. QED  BY <2>2
<1>2. Adds
  BY <1>1, EmptyAdds
<1>. QED  BY <1>2, NothingNew DEF Quiet

(* Before a call of its only one, nothing is in a flush; in it all is for one file. *)
LEMMA OnlyCall ==
  ASSUME StreamInv, kind.calls = 1
  PROVE  /\ manifest # 0 => call = 1 /\ (stream # 0 => stream = 1)
         /\ call < kind.calls => manifest = 0
<1>1. call \in Nat /\ manifest \in Nat /\ stream \in Nat
  <2>1. call \in 0..MaxCalls /\ manifest \in 0..MaxCalls /\ stream \in 0..MaxCalls
        /\ MaxCalls \in Nat
    BY Constants DEF StreamInv, TypeOK
  <2>. QED  BY <2>1
<1>2. call <= 1 /\ manifest <= call
  BY <1>1 DEF StreamInv, CallNumbers
<1>3. stream # 0 => manifest <= stream /\ stream <= call
  BY DEF StreamInv, StreamOpen
<1>. QED  BY <1>1, <1>2, <1>3

(* A thread whose hook stores events enlists in a flush of the current array. *)
LEMMA StoreEnlists ==
  ASSUME StreamInv, StreamInv', OneFile, kind.calls = 1, NEW t \in Members,
         NEW events \in Seq(Event), Drops \/ Stores(t, events), pc[t] = "out",
         UNCHANGED <<kind, call, manifest, stream, fdClosed>>
  PROVE  /\ \A w \in Threads : Active(w)' => Continues(w) \/ Enlists(w)
         /\ Len(arrays') = Len(arrays) \/ \A w \in Threads : ~Active(w)'
<1>1. t \in Threads
  BY Constants DEF Members, StreamInv, TypeOK
<1>2. CASE Drops
  <2>1. manifest = 0 /\ pc' = pc
    BY <1>2 DEF Drops
  <2>2. \A w \in Threads : ~Active(w)'
    BY <2>1 DEF OneFile, Active
  <2>. QED  BY <2>2
<1>3. CASE Stores(t, events)
  <2>1. Len(arrays') = Len(arrays) /\ arrays'[Len(arrays)] = events
    <3>1. Len(arrays) \in 1..Len(arrays) /\ arrays \in Seq(Seq(Event))
      BY CurrentIs DEF StreamInv, TypeOK
    <3>. QED  BY <1>3, <3>1, OtherArray DEF Stores
  <2>2. CASE UNCHANGED <<pc, job>>
    <3>1. \A w \in Threads : Active(w)' => Continues(w)
      BY <2>2 DEF Active, Continues
    <3>. QED  BY <2>1, <3>1
  <2>3. CASE Enters(t, events)
    <3>1. \A w \in Threads : w # t => pc'[w] = pc[w] /\ job'[w] = job[w]
      BY <2>3 DEF Enters, StreamInv, TypeOK
    <3>2. \A w \in Threads : w # t /\ Active(w)' => Continues(w)
      BY <3>1 DEF Active, Continues
    <3>3. job'[t] = NewJob(Len(arrays), events)
          /\ pc'[t] = (IF stream = 0 THEN "open" ELSE "write")
      BY <1>1, <2>3 DEF Enters, StreamInv, TypeOK
    <3>4. /\ job'[t].arr = Len(arrays') /\ manifest' # 0
          /\ job'[t].file = (IF stream = 0 THEN call ELSE stream)
          /\ pc'[t] = "write" => job'[t].text = Text(events)
      BY <2>1, <2>3, <3>3 DEF NewJob, Enters
    <3>5. job'[t].file = 1
      BY <2>3, <3>4, OnlyCall DEF Enters
    <3>6. pc'[t] = "write" => Full(t)'
      BY <2>1, <3>4 DEF Full
    <3>7. Enlists(t)
      BY <3>4, <3>5, <3>6 DEF Enlists
    <3>. QED  BY <2>1, <3>2, <3>7
  <2>. QED  BY <1>3, <2>2, <2>3 DEF Stores
<1>. QED  BY <1>2, <1>3

(* A hook is quiet,                                                         *)
LEMMA PushQuiet ==
  ASSUME StreamInv, StreamInv', OneFile, kind.calls = 1, Next, NEW t \in Threads, Push(t)
  PROVE  Quiet
<1>. DEFINE events == Append(Current, NewEvent(t))
<1>1. /\ pc[t] = "out" /\ t \in Members /\ NewEvent(t) \in Event /\ events \in Seq(Event)
      /\ pushed' = [pushed EXCEPT ![t] = @ + 1]
      /\ Drops \/ Stores(t, events)
      /\ UNCHANGED <<kind, call, manifest, stream, file, fdClosed>>
  BY PushDoes DEF Members, callVars, fileVars
<1>2. /\ \A w \in Threads : Active(w)' => Continues(w) \/ Enlists(w)
      /\ Len(arrays') = Len(arrays) \/ \A w \in Threads : ~Active(w)'
  BY <1>1, StoreEnlists
<1>3. CASE Drops
  <2>1. arrays' = Append(arrays, <<>>)
    BY <1>3 DEF Drops
  <2>2. Adds
    BY <2>1, EmptyAdds, PushedGrows
  <2>. QED  BY <1>1, <1>2, <2>1, <2>2, NothingNew DEF Quiet
<1>4. CASE Stores(t, events)
  <2>. DEFINE L == Len(arrays)
              n == Len(Current)
  <2>1. /\ L \in 1..L /\ Current \in Seq(Event) /\ n \in Nat /\ L \in Nat /\ Current = arrays[L]
        /\ arrays \in Seq(Seq(Event))
    BY CurrentIs DEF StreamInv, TypeOK, Current
  <2>2. arrays' = [arrays EXCEPT ![L] = events]
    BY <1>4 DEF Stores
  <2>3. Adds
    BY <1>1, <1>4, StoreAdds DEF Stores
  <2>4. Len(events) = n + 1 /\ events[n + 1] = NewEvent(t)
    BY <1>1, <2>1, AppendProperties
  <2>5. Len(arrays') = L /\ arrays'[L] = events /\ \A a \in 1..L : a # L => arrays'[a] = arrays[a]
    <3>. HIDE DEF events
    <3>. QED  BY <1>1, <2>1, <2>2, OtherArray
  <2>6. ASSUME NEW a \in 1..Len(arrays'), NEW i \in 1..Len(arrays'[a]), New(a, i)
        PROVE  a = L /\ arrays'[a][i].by = t
    <3>. HIDE DEF L, n, events
    <3>1. a \in 1..L
      BY <2>5
    <3>2. a = L
      BY <2>5, <2>6, <3>1 DEF New, L
    <3>3. i \in 1..(n + 1) /\ i \notin 1..n
      BY <2>1, <2>4, <2>5, <2>6, <3>1, <3>2 DEF New, L, n
    <3>4. i = n + 1
      BY <2>1, <3>3
    <3>. QED  BY <2>4, <2>5, <3>2, <3>4 DEF NewEvent
  <2>. QED  BY <1>1, <1>2, <2>3, <2>5, <2>6 DEF Quiet
<1>. QED  BY <1>1, <1>3, <1>4

(* so is the flush at the end of a call,                                    *)
LEMMA LeaveQuiet ==
  ASSUME StreamInv, StreamInv', OneFile, kind.calls = 1, Leave
  PROVE  Quiet
<1>1. /\ Current \in Seq(Event) /\ pushed' = pushed /\ pc[Primary] = "out" /\ Primary \in Members
      /\ UNCHANGED <<arrays, pc, job>> \/ Drops \/ Stores(Primary, Current)
      /\ UNCHANGED <<kind, call, manifest, stream, file, fdClosed>>
  BY LeaveDoes DEF Members, fileVars
<1>2. arrays' = arrays \/ (Drops /\ arrays' = Append(arrays, <<>>))
  <2>1. [arrays EXCEPT ![Len(arrays)] = Current] = arrays
    BY CurrentIs DEF StreamInv, TypeOK, Current
  <2>. QED  BY <1>1, <2>1 DEF Drops, Stores
<1>3. /\ \A w \in Threads : Active(w)' => Continues(w) \/ Enlists(w)
      /\ arrays' = arrays \/ \A w \in Threads : ~Active(w)'
  <2>1. CASE UNCHANGED <<arrays, pc, job>>
    BY <2>1 DEF Active, Continues
  <2>2. CASE Drops \/ Stores(Primary, Current)
    <3>1. /\ \A w \in Threads : Active(w)' => Continues(w) \/ Enlists(w)
          /\ Len(arrays') = Len(arrays) \/ \A w \in Threads : ~Active(w)'
      BY <1>1, <2>2, StoreEnlists
    <3>2. Drops => \A w \in Threads : ~Active(w)'
      BY DEF Drops, OneFile, Active
    <3>. QED  BY <1>2, <3>1, <3>2
  <2>. QED  BY <1>1, <2>1, <2>2
<1>. QED  BY <1>1, <1>2, <1>3, StillQuiet

(* opening the file,                                                        *)
LEMMA OpenQuiet ==
  ASSUME StreamInv, StreamInv', NEW t \in Threads, Create(t) \/ OpenFails(t)
  PROVE  Quiet
<1>1. UNCHANGED <<kind, manifest, arrays, file, pushed>> /\ pc[t] = "open"
  BY DEF Create, OpenFails, callVars, fileVars
<1>2. \A w \in Threads : w # t => pc'[w] = pc[w] /\ job'[w] = job[w]
  BY DEF Create, OpenFails, StreamInv, TypeOK
<1>3. \A w \in Threads : w # t /\ Active(w)' => Continues(w)
  BY <1>2 DEF Active, Continues
<1>4. Active(t)' => Continues(t)
  <2>1. CASE Create(t)
    <3>1. /\ job'[t].arr = job[t].arr /\ job'[t].file = job[t].file
          /\ job'[t].text = Text(arrays[job[t].arr])
      BY <2>1 DEF Create, StreamInv, TypeOK
    <3>2. Full(t)'
      BY <1>1, <3>1 DEF Full
    <3>. QED  BY <1>1, <3>1, <3>2 DEF Active, Continues
  <2>2. CASE OpenFails(t)
    <3>1. pc'[t] \in {"out", "retry"}
      BY <2>2 DEF OpenFails, StreamInv, TypeOK
    <3>. QED  BY <3>1 DEF Active
  <2>. QED  BY <2>1, <2>2
<1>. QED  BY <1>1, <1>3, <1>4, StillQuiet

(* the steps of the call,                                                   *)
LEMMA CallQuiet ==
  ASSUME StreamInv, StreamInv', OneFile, kind.calls = 1,
         Begin \/ BeginManifest \/ CloseFile \/ ListFile \/ End
  PROVE  Quiet
<1>1. /\ UNCHANGED <<kind, file, pc, job, pushed>>
      /\ arrays' = arrays \/ (Begin /\ arrays' = Append(arrays, <<>>))
  BY DEF Begin, BeginManifest, CloseFile, ListFile, End, fileVars
<1>2. manifest # 0 => manifest' # 0
  <2>1. manifest \in Nat
    <3>1. manifest \in 0..MaxCalls /\ MaxCalls \in Nat
      BY Constants DEF StreamInv, TypeOK
    <3>. QED  BY <3>1
  <2>. QED  BY <2>1 DEF Begin, BeginManifest, CloseFile, ListFile, End
<1>3. \A w \in Threads : Active(w)' => Continues(w)
  BY <1>1 DEF Active, Continues
<1>4. Begin => \A w \in Threads : ~Active(w)'
  <2>. SUFFICES ASSUME Begin PROVE \A w \in Threads : ~Active(w)'
    OBVIOUS
  <2>1. manifest = 0
    BY OnlyCall DEF Begin
  <2>. QED  BY <1>1, <2>1 DEF OneFile, Active
<1>. QED  BY <1>1, <1>2, <1>3, <1>4, StillQuiet

(* Of three that push or flush, two are the same.                           *)
LEMMA OnlyTwo ==
  ASSUME TwoThreads, NEW u \in Members, NEW v \in Members, NEW w \in Members, u # v, w # v
  PROVE  u = w
<1>1. PICK t \in Threads : kind.pushers \subseteq {Primary, t}
  BY DEF TwoThreads
<1>2. Members \subseteq {Primary, t}
  BY <1>1 DEF Members
<1>. QED  BY <1>2

(* A flush that has written all of its text leaves no event of its thread unwritten. *)
LEMMA OwnWritten ==
  ASSUME StreamInv, JobTexts, OneFile, Owns, NEW t \in Threads, pc[t] = "write",
         job[t].done = Len(job[t].text), NEW i \in 1..Len(arrays[job[t].arr]),
         arrays[job[t].arr][i].by = t
  PROVE  Got(arrays[job[t].arr][i])
<1>. DEFINE a == job[t].arr
            text == job[t].text
            k == (i - 1) * LineUnits + 0 + 1
<1>1. a \in 1..Len(arrays) /\ arrays[a] \in Seq(Event) /\ Len(arrays[a]) \in Nat
  BY ArrayIs DEF StreamInv, JobsAim, Aimed
<1>2. i * LineUnits <= Len(text) /\ Copies(t) /\ Wrote(t) /\ job[t].file = 1
  BY DEF Owns, OneFile, Active, OwnText, JobTexts
<1>3. LineUnits \in Nat \ {0} /\ Len(text) \in Nat
  <2>1. text \in Seq(Unit)
    BY DEF StreamInv, TypeOK
  <2>. QED  BY <2>1, Constants, LenProperties
<1>4. 0 \in 0..(LineUnits - 1) /\ i \in 1..Len(arrays[a])
  BY <1>3
<1>5. Text(arrays[a])[k] = [ev |-> arrays[a][i], u |-> 0]
  <2>. HIDE DEF a
  <2>. QED  BY <1>1, <1>4, UnitAt
<1>6. k \in 1..Len(text)
  <2>. DEFINE m == i - 1
  <2>1. m \in Nat /\ i = m + 1
    BY <1>1
  <2>3. k = m * LineUnits + 0 + 1
    OBVIOUS
  <2>. HIDE DEF m, text, k
  <2>2. i * LineUnits = m * LineUnits + LineUnits /\ m * LineUnits \in Nat
    BY <1>3, <2>1
  <2>. QED  BY <1>2, <1>3, <2>2, <2>3
<1>. HIDE DEF k
<1>7. text[k] = [ev |-> arrays[a][i], u |-> 0]
  BY <1>2, <1>5, <1>6 DEF Copies
<1>8. \E h \in 1..Len(file[1]) : file[1][h] = text[k]
  BY <1>2, <1>6 DEF Wrote
<1>. QED  BY <1>7, <1>8 DEF Got

(* and the end of a flush: the other thread's flush of that array, if there is one, *)
(* goes on with what it must still write of its own.                                *)
LEMMA FinishQuiet ==
  ASSUME StreamInv, StreamInv', JobTexts, OneFile, Owns, TwoThreads, NEW t \in Threads,
         FinishFlush(t)
  PROVE  Quiet
<1>1. /\ pc[t] = "write" /\ job[t].done = Len(job[t].text) /\ Active(t)
      /\ UNCHANGED <<kind, manifest, file, pushed>> /\ arrays' = Append(arrays, <<>>)
  BY DEF FinishFlush, ArraysAfter, Active, callVars, fileVars
<1>2. pc'[t] = "out" /\ \A w \in Threads : w # t => pc'[w] = pc[w] /\ job'[w] = job[w]
  BY DEF FinishFlush, StreamInv, TypeOK
<1>3. \A w \in Threads : Active(w)' => w # t /\ Active(w) /\ Continues(w)
  BY <1>2 DEF Active, Continues
<1>4. ASSUME NEW w \in Threads, Active(w)'
      PROVE  PutAway(w)'
  <2>. DEFINE a == job[w].arr
  <2>1. w # t /\ Active(w) /\ job'[w] = job[w] /\ w \in Members /\ t \in Members
    BY <1>1, <1>2, <1>3, <1>4 DEF OneFile
  <2>2. a \in 1..Len(arrays) /\ Len(arrays) \in Nat /\ job[t].arr \in 1..Len(arrays)
    BY <1>1, <2>1, ArrayIs DEF StreamInv, JobsAim, Aimed, Active
  <2>3. arrays'[a] = arrays[a]
    BY <1>1, <2>2, NewArray DEF StreamInv, TypeOK
  <2>4. ASSUME NEW i \in 1..Len(arrays[a]), arrays[a][i].by # w
        PROVE  Got(arrays[a][i])
    <3>1. CASE a # Len(arrays)
      BY <2>1, <2>4, <3>1 DEF Owns, PutAway
    <3>2. CASE a = Len(arrays)
      <4>1. arrays[a][i].by \in Members
        BY <2>2 DEF OneFile
      <4>2. arrays[a][i].by = t
        BY <2>1, <2>4, <4>1, OnlyTwo
      <4>3. job[t].arr = a
        BY <1>1, <2>2, <3>2, <4>2 DEF Owns, OwnLast
      <4>. QED  BY <1>1, <4>2, <4>3, OwnWritten
    <3>. QED  BY <3>1, <3>2
  <2>5. \A i \in 1..Len(arrays'[a]) : arrays'[a][i].by # w => Got(arrays[job[w].arr][i])'
    BY <1>1, <2>1, <2>3, <2>4 DEF Got
  <2>. QED  BY <2>1, <2>5 DEF PutAway
<1>. QED  BY <1>1, <1>3, <1>4, StillQuiet

\* Unit k of the file after a write of t is unit m of the text of its array.
Puts(t, k, m) ==
  m \in 1..Len(Text(arrays[job[t].arr])) /\ file'[1][k] = Text(arrays[job[t].arr])[m]

(* What a write of the one file does.                                       *)
LEMMA WritePuts ==
  ASSUME StreamInv, JobTexts, OneFile, NEW t \in Threads, WriteUnits(t)
  PROVE  /\ Active(t) /\ job[t].arr \in 1..Len(arrays)
         /\ UNCHANGED <<kind, manifest, arrays, pc>>
         /\ \A w \in Threads : /\ job'[w].arr = job[w].arr /\ job'[w].file = job[w].file
                               /\ job'[w].text = job[w].text
         /\ \A c \in Calls : c # 1 => file'[c] = file[c]
         /\ Len(file[1]) \in Nat /\ Len(file'[1]) \in Nat /\ Len(file[1]) <= Len(file'[1])
         /\ \A k \in 1..Len(file[1]) : k \in 1..Len(file'[1]) /\ file'[1][k] = file[1][k]
         /\ \E s \in Int : \A k \in 1..Len(file'[1]) : k > Len(file[1]) => Puts(t, k, k + s)
<1>. DEFINE a == job[t].arr
            d == job[t].done
            own == job[t].text
            L == Len(file[1])
<1>1. /\ pc[t] = "write" /\ Active(t) /\ a \in 1..Len(arrays) /\ job[t].file = 1
      /\ UNCHANGED <<kind, manifest, arrays, pc>>
  BY WriteDoes DEF Active, OneFile, StreamInv, JobsAim, Aimed
<1>2. PICK n \in Nat \ {0} :
        LET f == job[t].file IN
        /\ job' = [job EXCEPT ![t].done = d + n]
        /\ d \in Nat /\ d + n <= Len(own) /\ Len(own) \in Nat
        /\ Len(file[f]) \in Nat /\ Len(file'[f]) = Len(file[f]) + n
        /\ \A k \in 1..Len(file[f]) : file'[f][k] = file[f][k]
        /\ \A x \in 1..n : file'[f][Len(file[f]) + x] = own[d + x]
        /\ \A c \in Calls : c # f => file'[c] = file[c]
  BY PartIs
<1>3. /\ job' = [job EXCEPT ![t].done = d + n]
      /\ d \in Nat /\ d + n <= Len(own) /\ Len(own) \in Nat
      /\ L \in Nat /\ Len(file'[1]) = L + n
      /\ \A k \in 1..L : file'[1][k] = file[1][k]
      /\ \A x \in 1..n : file'[1][L + x] = own[d + x]
      /\ \A c \in Calls : c # 1 => file'[c] = file[c]
  BY <1>1, <1>2
<1>4. \A w \in Threads : /\ job'[w].arr = job[w].arr /\ job'[w].file = job[w].file
                         /\ job'[w].text = job[w].text
  BY <1>3 DEF StreamInv, TypeOK
<1>5. /\ Len(own) <= Len(Text(arrays[a])) /\ Len(Text(arrays[a])) \in Nat
      /\ \A k \in 1..Len(own) : own[k] = Text(arrays[a])[k]
  BY <1>1, ArrayIs DEF JobTexts, Copies
<1>6. ASSUME NEW k \in 1..Len(file'[1]), k > L
      PROVE  Puts(t, k, k + (d - L))
  <2>. DEFINE x == k - L
              m == d + x
              T == Text(arrays[a])
  <2>. HIDE DEF d, own, L, a, T
  <2>1. x \in 1..n /\ L + x = k /\ m = k + (d - L) /\ m \in 1..Len(own)
    BY <1>3, <1>6
  <2>2. file'[1][k] = own[m]
    BY <1>3, <2>1
  <2>3. m \in 1..Len(T) /\ own[m] = T[m]
    BY <1>3, <1>5, <2>1 DEF T
  <2>4. m \in 1..Len(T) /\ file'[1][k] = T[m]
    BY <2>2, <2>3
  <2>5. k + (d - L) \in 1..Len(T) /\ file'[1][k] = T[k + (d - L)]
    BY <2>1, <2>4
  <2>. QED  BY <2>5 DEF Puts, T, a
<1>7. d - L \in Int
  BY <1>3
<1>8. Len(file'[1]) \in Nat /\ L <= Len(file'[1]) /\ \A k \in 1..L : k \in 1..Len(file'[1])
  BY <1>3
<1>. HIDE DEF d, own
<1>9. \E s \in Int : \A k \in 1..Len(file'[1]) : k > L => Puts(t, k, k + s)
  BY <1>6, <1>7
<1>. QED  BY <1>1, <1>3, <1>4, <1>8, <1>9

(* What is put is a unit of an event, and all events before it are in the file. *)
LEMMA PutIs ==
  ASSUME StreamInv, StreamInv', BatchOrder', NEW t \in Threads, NEW a \in 1..Len(arrays),
         job[t].arr = a, UNCHANGED arrays, NEW k \in 1..Len(file'[1]), NEW m, Puts(t, k, m)
  PROVE  /\ m \in 1..(Len(arrays[a]) * LineUnits)
         /\ Line(m) \in 1..Len(arrays[a])
         /\ file'[1][k] = [ev |-> arrays[a][Line(m)], u |-> (m - 1) % LineUnits]
         /\ \A i \in 1..Len(arrays[a]) : i < Line(m) => Got(arrays[a][i])'
<1>. DEFINE s == arrays[a]
<1>1. /\ s \in Seq(Event) /\ Len(s) \in Nat /\ Len(Text(s)) = Len(s) * LineUnits
      /\ DOMAIN Text(s) = 1..Len(Text(s)) /\ LineUnits \in Nat \ {0}
  BY ArrayIs, Constants
<1>2. m \in 1..(Len(s) * LineUnits) /\ file'[1][k] = Text(s)[m]
  BY <1>1 DEF Puts
<1>. HIDE DEF s
<1>3. /\ Line(m) \in 1..Len(s) /\ (m - 1) % LineUnits \in Nat
      /\ m = (Line(m) - 1) * LineUnits + ((m - 1) % LineUnits) + 1
  BY <1>1, <1>2, LineIs
<1>4. Text(s)[m] = [ev |-> s[Line(m)], u |-> (m - 1) % LineUnits]
  BY <1>1, <1>2, TextIs
<1>5. ASSUME NEW i \in 1..Len(s), i < Line(m)
      PROVE  \E h \in 1..Len(file'[1]) : file'[1][h] = [ev |-> s[i], u |-> 0]
  <2>. DEFINE p == (i - 1) * LineUnits + 0 + 1
              l == Line(m)
              r == (m - 1) % LineUnits
  <2>1. 0 \in 0..(LineUnits - 1)
    BY <1>1
  <2>2. p \in 1..(Len(s) * LineUnits) /\ Text(s)[p] = [ev |-> s[i], u |-> 0]
    BY <1>1, <2>1, UnitAt
  <2>3. m = (l - 1) * LineUnits + r + 1 /\ r \in Nat /\ l \in 1..Len(s)
    BY <1>3
  <2>4. p = (i - 1) * LineUnits + 0 + 1
    OBVIOUS
  <2>14. i < l
    BY <1>5
  <2>. HIDE DEF p, l, r
  <2>5. PICK x \in Nat : l = i + 1 + x
    BY <1>1, <2>3, <2>14
  <2>. DEFINE j == i - 1
  <2>6. j \in Nat /\ l - 1 = j + 1 + x /\ p = j * LineUnits + 0 + 1
    BY <1>1, <2>4, <2>5
  <2>. HIDE DEF j
  <2>7. (l - 1) * LineUnits = j * LineUnits + LineUnits + x * LineUnits
        /\ x * LineUnits \in Nat /\ j * LineUnits \in Nat
    BY <1>1, <2>5, <2>6
  <2>8. p < m
    BY <1>1, <2>3, <2>6, <2>7
  <2>9. InOrder(file'[1], Text(s))
    <3>1. a \in DOMAIN arrays' /\ 1 \in Calls
      <4>1. DOMAIN arrays = 1..Len(arrays)
        BY LenProperties DEF StreamInv, TypeOK
      <4>. QED  BY <4>1, Constants
    <3>2. InOrder(file'[1], Text(arrays'[a]))
      BY <3>1 DEF BatchOrder
    <3>. QED  BY <3>2 DEF s
  <2>10. k \in DOMAIN file'[1] /\ Len(file'[1]) \in Nat
    <3>1. file'[1] \in Seq(Unit)
      BY Constants DEF StreamInv, TypeOK
    <3>. QED  BY <3>1, LenProperties
  <2>11. p \in 1..(m - 1) /\ m \in DOMAIN Text(s)
    BY <1>1, <1>2, <2>2, <2>8
  <2>12. PICK h \in 1..(k - 1) : file'[1][h] = Text(s)[p]
    BY <1>2, <2>9, <2>10, <2>11 DEF InOrder
  <2>13. h \in 1..Len(file'[1])
    BY <2>10
  <2>. QED  BY <2>2, <2>12, <2>13
<1>6. \A i \in 1..Len(s) : i < Line(m) => Got(arrays[a][i])'
  BY <1>5 DEF Got, s
<1>. QED  BY <1>2, <1>3, <1>4, <1>6 DEF s

(* Of two first units, the later one is of the later line.                  *)
LEMMA LaterLine ==
  ASSUME NEW n \in Nat, NEW k \in 1..(n * LineUnits), NEW m \in 1..(n * LineUnits), k < m,
         (k - 1) % LineUnits = 0, (m - 1) % LineUnits = 0
  PROVE  Line(k) < Line(m)
<1>1. /\ Line(k) \in 1..n /\ k = (Line(k) - 1) * LineUnits + 0 + 1
      /\ Line(m) \in 1..n /\ m = (Line(m) - 1) * LineUnits + 0 + 1
  BY LineIs
<1>. DEFINE x == Line(k)
            y == Line(m)
<1>2. x \in 1..n /\ y \in 1..n /\ LineUnits \in Nat
  BY <1>1, Constants
<1>3. k = (x - 1) * LineUnits + 0 + 1 /\ m = (y - 1) * LineUnits + 0 + 1
  BY <1>1
<1>. HIDE DEF x, y
<1>4. ~(x >= y)
  <2>. SUFFICES ASSUME x >= y PROVE FALSE
    OBVIOUS
  <2>. DEFINE q == y - 1
  <2>1. PICK j \in Nat : x - 1 = q + j
    BY <1>2
  <2>2. q \in Nat /\ m = q * LineUnits + 0 + 1
    BY <1>2, <1>3
  <2>. HIDE DEF q
  <2>3. (x - 1) * LineUnits = q * LineUnits + j * LineUnits /\ j * LineUnits \in Nat
        /\ q * LineUnits \in Nat
    BY <1>2, <2>1, <2>2
  <2>. QED  BY <1>3, <2>2, <2>3
<1>. QED  BY <1>2, <1>4 DEF x, y

(* A write puts nothing in the file that another event should be in front of: what is *)
(* pending in its own array is written first, the other thread waits with later events, *)
(* and what is in an earlier array has been written.                                    *)
LEMMA WriteKeepsTurn ==
  ASSUME StreamInv, StreamInv', JobTexts, BatchOrder', OneFile, Sorted, Owns, NoneOvertaken,
         NEW t \in Threads, WriteUnits(t)
  PROVE  NoneOvertaken'
<1>1. /\ Active(t) /\ UNCHANGED <<arrays, pc>>
      /\ \A w \in Threads : job'[w].arr = job[w].arr
      /\ \A k \in 1..Len(file[1]) : k \in 1..Len(file'[1]) /\ file'[1][k] = file[1][k]
  BY WritePuts
<1>2. PICK s \in Int : \A k \in 1..Len(file'[1]) : k > Len(file[1]) => Puts(t, k, k + s)
  BY WritePuts
<1>b. PICK b \in 1..Len(arrays) : job[t].arr = b
  BY WritePuts
<1>3. b \in 1..Len(arrays) /\ Len(arrays) \in Nat /\ Len(file[1]) \in Nat
  BY WritePuts, ArrayIs
<1>. SUFFICES ASSUME NEW a \in 1..Len(arrays), Pending(a), NEW i \in 1..Len(arrays[a]),
                     NEW k \in 1..Len(file'[1]), Later(arrays[a][i], file'[1][k].ev)
              PROVE  \E h \in 1..Len(file'[1]) : file'[1][h] = [ev |-> arrays[a][i], u |-> 0]
  <2>1. \A a \in 1..Len(arrays) : Pending(a)' => Pending(a)
    BY <1>1 DEF Pending, Active
  <2>. QED  BY <1>1, <2>1 DEF NoneOvertaken, Overtaken, Got
<1>4. Got(arrays[a][i]) => \E h \in 1..Len(file'[1]) : file'[1][h] = [ev |-> arrays[a][i], u |-> 0]
  BY <1>1 DEF Got
<1>5. CASE ~(k > Len(file[1]))
  <2>1. k \in 1..Len(file[1]) /\ file'[1][k] = file[1][k]
    BY <1>1, <1>3, <1>5
  <2>2. Overtaken(arrays[a][i])
    BY <2>1 DEF Overtaken
  <2>3. Got(arrays[a][i])
    BY <2>2 DEF NoneOvertaken
  <2>. QED  BY <1>4, <2>3
<1>6. CASE k > Len(file[1])
  <2>. DEFINE l == Line(k + s)
  <2>1. Puts(t, k, k + s)
    BY <1>2, <1>6
  <2>2. /\ l \in 1..Len(arrays[b]) /\ file'[1][k].ev = arrays[b][l]
        /\ \A j \in 1..Len(arrays[b]) : j < l =>
             \E h \in 1..Len(file'[1]) : file'[1][h] = [ev |-> arrays[b][j], u |-> 0]
    <3>. DEFINE m == k + s
    <3>. HIDE DEF m
    <3>1. /\ Line(m) \in 1..Len(arrays[b])
          /\ file'[1][k] = [ev |-> arrays[b][Line(m)], u |-> (m - 1) % LineUnits]
          /\ \A j \in 1..Len(arrays[b]) : j < Line(m) => Got(arrays[b][j])'
      <4>1. arrays' = arrays
        BY <1>1
      <4>2. Puts(t, k, m)
        BY <2>1 DEF m
      <4>. QED  BY <1>b, <4>1, <4>2, PutIs
    <3>2. file'[1][k].ev = arrays[b][Line(m)]
      BY <3>1
    <3>3. \A j \in 1..Len(arrays[b]) : j < Line(m) =>
            \E h \in 1..Len(file'[1]) : file'[1][h] = [ev |-> arrays[b][j], u |-> 0]
      BY <1>1, <3>1 DEF Got
    <3>. QED  BY <3>1, <3>2, <3>3 DEF m
  <2>. HIDE DEF l
  <2>3. /\ arrays[a][i].by = arrays[b][l].by /\ arrays[a][i].n < arrays[b][l].n
        /\ arrays[a][i].n \in Nat /\ arrays[b][l].n \in Nat
    BY <1>3, <2>2, EventsHere DEF Later
  <2>4. ~(a > b) /\ (a = b => i < l)
    <3>1. Len(arrays[a]) \in Nat /\ Len(arrays[b]) \in Nat
      BY <1>3, ArrayIs
    <3>2. ~(b < a \/ (b = a /\ l < i))
      <4>. SUFFICES ASSUME b < a \/ (b = a /\ l < i) PROVE FALSE
        OBVIOUS
      <4>1. arrays[b][l].n < arrays[a][i].n
        <5>1. arrays[b][l].by = arrays[a][i].by /\ l \in 1..Len(arrays[b])
          BY <2>2, <2>3
        <5>. QED  BY <5>1 DEF Sorted
      <4>. QED  BY <2>3, <4>1
    <3>3. ~(a = b /\ i = l)
      BY <2>3
    <3>. QED  BY <1>3, <2>2, <3>1, <3>2, <3>3
  <2>5. CASE a = b
    BY <2>2, <2>4, <2>5
  <2>6. CASE a < b
    <3>1. a # Len(arrays)
      BY <1>3, <2>6
    <3>2. PICK w \in Threads : Active(w) /\ job[w].arr = a
      BY <3>1 DEF Pending
    <3>3. OwnLast(w) /\ PutAway(w)
      BY <3>2 DEF Owns
    <3>4. arrays[b][l].by # w
      BY <1>3, <2>2, <2>6, <3>2, <3>3 DEF OwnLast
    <3>5. Got(arrays[a][i])
      BY <2>3, <3>1, <3>2, <3>3, <3>4 DEF PutAway
    <3>. QED  BY <1>4, <3>5
  <2>. QED  BY <1>3, <2>4, <2>5, <2>6
<1>. QED  BY <1>5, <1>6

(* So the first units of two events of a thread come in its order.          *)
LEMMA WriteKeepsThreads ==
  ASSUME StreamInv, StreamInv', JobTexts, BatchOrder', OneFile, Sorted, NoneOvertaken,
         ThreadOrder, TwoThreads, NEW t \in Threads, WriteUnits(t)
  PROVE  ThreadOrder'
<1>1. /\ Active(t) /\ UNCHANGED <<arrays, pc>>
      /\ \A c \in Calls : c # 1 => file'[c] = file[c]
      /\ \A k \in 1..Len(file[1]) : k \in 1..Len(file'[1]) /\ file'[1][k] = file[1][k]
      /\ \A w \in Threads : job'[w].arr = job[w].arr
  BY WritePuts
<1>2. PICK s \in Int : \A k \in 1..Len(file'[1]) : k > Len(file[1]) => Puts(t, k, k + s)
  BY WritePuts
<1>b. PICK b \in 1..Len(arrays) : job[t].arr = b
  BY WritePuts
<1>. DEFINE new == file'[1]
            old == file[1]
<1>3. /\ b \in 1..Len(arrays) /\ Len(old) \in Nat /\ Len(new) \in Nat /\ Len(old) <= Len(new)
      /\ 1 \in Calls
  BY WritePuts, EventsHere
<1>4. ASSUME NEW k \in 1..Len(new), NEW i \in 1..(k - 1),
             FirstAt(new, i), FirstAt(new, k), new[i].ev.by = new[k].ev.by
      PROVE  new[i].ev.n < new[k].ev.n
  <2>1. CASE ~(k > Len(old))
    <3>1. k \in 1..Len(old) /\ i \in 1..Len(old) /\ i \in Nat
      BY <1>3, <1>4, <2>1
    <3>. HIDE DEF old, new
    <3>2. \A h \in 1..k : h \in 1..Len(old) /\ new[h] = old[h]
      <4>1. \A h \in 1..Len(old) : new[h] = old[h]
        BY <1>1 DEF old, new
      <4>. QED  BY <1>3, <3>1, <4>1
    <3>3. \A h \in 1..(i - 1) : h \in 1..k
      BY <1>3, <1>4, <3>1
    <3>4. FirstAt(old, i) /\ FirstAt(old, k)
      BY <1>3, <1>4, <3>1, <3>2, <3>3 DEF FirstAt
    <3>5. old[i] = new[i] /\ old[k] = new[k]
      BY <3>1, <3>2
    <3>6. old[i].ev.by = old[k].ev.by
      BY <1>4, <3>5
    <3>7. old[i].ev.n < old[k].ev.n
      BY <1>3, <1>4, <3>1, <3>4, <3>6 DEF ThreadOrder, old
    <3>. QED  BY <3>5, <3>7
  <2>2. CASE k > Len(old)
    <3>. DEFINE m == k + s
                l == Line(m)
    <3>1. /\ m \in 1..(Len(arrays[b]) * LineUnits) /\ l \in 1..Len(arrays[b])
          /\ new[k] = [ev |-> arrays[b][l], u |-> (m - 1) % LineUnits]
      <4>1. Puts(t, k, m)
        BY <1>2, <2>2
      <4>2. arrays' = arrays
        BY <1>1
      <4>. HIDE DEF m
      <4>. QED  BY <1>b, <4>1, <4>2, PutIs
    <3>2. new[k].ev = arrays[b][l] /\ new[k].u = (m - 1) % LineUnits /\ new[k].u = 0
      BY <1>4, <3>1 DEF FirstAt
    <3>3. Pending(b)
      BY <1>b, <1>1 DEF Pending
    <3>. HIDE DEF m, l
    <3>4. CASE ~(i > Len(old))
      <4>1. i \in 1..Len(old) /\ new[i] = old[i]
        BY <1>1, <1>3, <1>4, <3>4
      <4>2. ~Got(arrays[b][l])
        <5>1. ASSUME NEW h \in 1..Len(old), old[h] = [ev |-> arrays[b][l], u |-> 0]
              PROVE  FALSE
          <6>1. h \in 1..(k - 1) /\ new[h] = old[h]
            BY <1>1, <1>3, <2>2
          <6>2. new[k] = [ev |-> arrays[b][l], u |-> 0]
            BY <3>1, <3>2
          <6>. QED  BY <1>4, <5>1, <6>1, <6>2 DEF FirstAt
        <5>. QED  BY <5>1 DEF Got
      <4>3. ~Later(arrays[b][l], old[i].ev)
        BY <1>3, <3>1, <3>3, <4>1, <4>2 DEF NoneOvertaken, Overtaken
      <4>4. /\ old[i].ev \in Event /\ old[i] \in Unit /\ arrays[b][l] \in Event
            /\ old[i].ev.n \in Nat /\ arrays[b][l].n \in Nat
        BY <1>3, <3>1, <4>1, EventsHere
      <4>5. old[i].ev.by = arrays[b][l].by /\ old[i].u = 0
        BY <1>4, <3>2, <4>1 DEF FirstAt
      <4>6. old[i].ev.n # arrays[b][l].n
        <5>. SUFFICES ASSUME old[i].ev.n = arrays[b][l].n PROVE FALSE
          OBVIOUS
        <5>1. old[i].ev = arrays[b][l]
          BY <4>4, <4>5 DEF Event
        <5>2. old[i] = [ev |-> old[i].ev, u |-> old[i].u]
          BY <4>4 DEF Unit
        <5>3. Got(arrays[b][l])
          BY <4>1, <4>5, <5>1, <5>2 DEF Got
        <5>. QED  BY <4>2, <5>3
      <4>. QED  BY <3>2, <4>1, <4>3, <4>4, <4>5, <4>6 DEF Later
    <3>5. CASE i > Len(old)
      <4>. DEFINE x == i + s
                  y == Line(x)
      <4>1. i \in 1..Len(new) /\ x < m
        BY <1>3, <1>4 DEF m
      <4>2. /\ x \in 1..(Len(arrays[b]) * LineUnits) /\ y \in 1..Len(arrays[b])
            /\ new[i] = [ev |-> arrays[b][y], u |-> (x - 1) % LineUnits]
        <5>1. Puts(t, i, x)
          BY <1>2, <3>5, <4>1
        <5>2. arrays' = arrays
          BY <1>1
        <5>. HIDE DEF x
        <5>. QED  BY <1>b, <4>1, <5>1, <5>2, PutIs
      <4>3. new[i].ev = arrays[b][y] /\ (x - 1) % LineUnits = 0
        BY <1>4, <4>2 DEF FirstAt
      <4>. HIDE DEF x, y
      <4>4. y < l
        <5>1. Len(arrays[b]) \in Nat
          BY <1>3, ArrayIs
        <5>. QED  BY <3>1, <3>2, <4>1, <4>2, <4>3, <5>1, LaterLine DEF l, y
      <4>5. arrays[b][y].n < arrays[b][l].n
        BY <1>3, <1>4, <3>1, <3>2, <4>2, <4>3, <4>4 DEF Sorted
      <4>. QED  BY <3>2, <4>3, <4>5
    <3>. QED  BY <3>4, <3>5
  <2>. QED  BY <2>1, <2>2
<1>5. ASSUME NEW c \in Calls, c # 1
      PROVE  Len(file'[c]) = 0
  BY <1>1, <1>5 DEF OneFile
<1>6. ASSUME NEW c \in Calls, NEW k \in 1..Len(file'[c]), NEW i \in 1..(k - 1),
             FirstAt(file'[c], i), FirstAt(file'[c], k),
             file'[c][i].ev.by = file'[c][k].ev.by
      PROVE  file'[c][i].ev.n < file'[c][k].ev.n
  <2>1. c = 1
    BY <1>5
  <2>. QED  BY <1>4, <1>6, <2>1
<1>. QED  BY <1>6 DEF ThreadOrder, FirstAt

(* A write keeps all that is said of two threads.                           *)
LEMMA WriteKeepsPair ==
  ASSUME StreamInv, StreamInv', BatchInv, BatchInv', PairInv, TwoThreads, NEW t \in Threads,
         WriteUnits(t)
  PROVE  PairInv'
<1>1. /\ UNCHANGED <<kind, manifest, arrays, pc>>
      /\ \A w \in Threads : /\ job'[w].arr = job[w].arr /\ job'[w].file = job[w].file
                            /\ job'[w].text = job[w].text
      /\ \A c \in Calls : c # 1 => file'[c] = file[c]
      /\ \A k \in 1..Len(file[1]) : k \in 1..Len(file'[1]) /\ file'[1][k] = file[1][k]
  BY WritePuts DEF PairInv, BatchInv
<1>2. OneFile'
  BY <1>1 DEF PairInv, OneFile, Active, Members
<1>3. Sorted'
  BY <1>1 DEF PairInv, Sorted
<1>4. Owns'
  <2>. SUFFICES ASSUME NEW w \in Threads, Active(w)
                PROVE  OwnLast(w)' /\ OwnText(w)' /\ PutAway(w)'
    BY <1>1 DEF Owns, Active
  <2>1. OwnLast(w) /\ OwnText(w) /\ PutAway(w)
    BY DEF PairInv, Owns
  <2>2. OwnLast(w)' /\ OwnText(w)'
    BY <1>1, <2>1 DEF OwnLast, OwnText
  <2>3. PutAway(w)'
    BY <1>1, <2>1 DEF PutAway, Got
  <2>. QED  BY <2>2, <2>3
<1>5. NoneOvertaken'
  BY WriteKeepsTurn DEF PairInv, BatchInv
<1>6. ThreadOrder'
  BY WriteKeepsThreads DEF PairInv, BatchInv
<1>. QED  BY <1>2, <1>3, <1>4, <1>5, <1>6 DEF PairInv

(* Every step, and every stutter, keeps it,                                 *)
LEMMA PairKeeps ==
  StreamInv /\ StreamInv' /\ BatchInv /\ BatchInv' /\ (TwoThreads => PairInv) /\ [Next]_vars
    => (TwoThreads => PairInv)'
<1>. SUFFICES ASSUME StreamInv, StreamInv', BatchInv, BatchInv', TwoThreads => PairInv,
                     [Next]_vars, TwoThreads'
              PROVE  PairInv'
  OBVIOUS
<1>1. kind' = kind
  BY DEF Next, Push, Flush, Create, OpenFails, WriteUnits, FinishFlush, Begin, CallStep,
         BeginManifest, Leave, CloseFile, ListFile, End, vars, callVars
<1>2. TwoThreads /\ kind.calls = 1 /\ PairInv
  BY <1>1 DEF TwoThreads
<1>3. OneFile /\ Owns /\ JobTexts
  BY <1>2 DEF PairInv, BatchInv
<1>4. CASE \E t \in Threads : WriteUnits(t)
  BY <1>2, <1>4, WriteKeepsPair
<1>5. CASE Next /\ ~\E t \in Threads : WriteUnits(t)
  <2>1. Quiet
    BY <1>2, <1>3, <1>5, PushQuiet, LeaveQuiet, OpenQuiet, FinishQuiet, CallQuiet
       DEF Next, Flush, CallStep
  <2>. QED  BY <1>2, <2>1, QuietKeepsPair
<1>6. CASE UNCHANGED vars
  <2>1. UNCHANGED <<kind, manifest, arrays, file, pc, job, pushed>>
    BY <1>6 DEF vars, callVars, fileVars
  <2>2. \A w \in Threads : Active(w)' => Continues(w)
    BY <2>1 DEF Active, Continues
  <2>3. Quiet
    BY <2>1, <2>2, StillQuiet
  <2>. QED  BY <1>2, <2>3, QuietKeepsPair
<1>. QED  BY <1>4, <1>5, <1>6

(* and it holds at first.                                                   *)
LEMMA PairBegins == Init => PairInv
<1>. SUFFICES ASSUME Init PROVE PairInv
  OBVIOUS
<1>1. Len(arrays) = 1 /\ Len(arrays[1]) = 0 /\ \A c \in Calls : file[c] = <<>> /\ Len(file[c]) = 0
  BY DEF Init
<1>2. \A w \in Threads : ~Active(w)
  BY DEF Init, Active
<1>3. \A a \in 1..Len(arrays) : Len(arrays[a]) = 0
  BY <1>1
<1>4. OneFile /\ Owns
  BY <1>1, <1>2, <1>3 DEF OneFile, Owns
<1>5. Sorted /\ NoneOvertaken
  BY <1>3 DEF Sorted, NoneOvertaken
<1>6. ThreadOrder
  BY <1>1 DEF ThreadOrder
<1>. QED  BY <1>4, <1>5, <1>6 DEF PairInv

(* Two threads in one call: the events of a thread get into the file in the order in which *)
(* it pushed them, although batches of both hooks are written twice and interleave         *)
(* (semantic.ts pushSemanticEvent, manifest.ts persistEvents).                             *)
THEOREM ThreadsKeepOrder == Spec => []ThreadOrder
<1>1. Init => (TwoThreads => PairInv)
  BY PairBegins
<1>2. (TwoThreads => PairInv) => ThreadOrder
  BY DEF PairInv, ThreadOrder
<1>. QED  BY <1>1, <1>2, StreamAlways, BatchBegins, BatchKeeps, PairKeeps, PTL DEF Spec

-------------------------------------------------------------------------------
(* What whole lines hold.                                                   *)

Units(n) == n * LineUnits

(* The lines of m events and of n more are those of m + n; each of n has a  *)
(* last unit, which is in no other line.                                    *)
LEMMA UnitsAre ==
  ASSUME NEW n \in Nat
  PROVE  /\ Units(n) \in Nat /\ Units(0) = 0 /\ Units(n) \div LineUnits = n
         /\ (Units(n) = 0 => n = 0)
         /\ \A m \in Nat : Units(m + n) = Units(m) + Units(n)
<1>1. LineUnits \in Nat \ {0}
  BY Constants
<1>2. n * LineUnits \in Nat /\ 0 * LineUnits = 0
  BY <1>1
<1>3. (n * LineUnits + 0) \div LineUnits = n
  BY <1>1, DividedOnce
<1>4. n * LineUnits = 0 => n = 0
  BY <1>1
<1>5. \A m \in Nat : (m + n) * LineUnits = m * LineUnits + n * LineUnits
  BY <1>1
<1>6. n * LineUnits + 0 = n * LineUnits
  BY <1>2
<1>. QED  BY <1>2, <1>3, <1>4, <1>5, <1>6 DEF Units

(* The last unit of the i-th of n lines is one of theirs, and lies in line i.*)
LEMMA LastUnit ==
  ASSUME NEW n \in Nat, NEW i \in 1..n
  PROVE  Units(i) \in 1..Units(n) /\ Line(Units(i)) = i
<1>1. LineUnits \in Nat \ {0} /\ i - 1 \in Nat /\ LineUnits - 1 \in 0..(LineUnits - 1)
  BY Constants
<1>2. Units(i) - 1 = (i - 1) * LineUnits + (LineUnits - 1)
  <2>1. i * LineUnits = (i - 1) * LineUnits + LineUnits /\ (i - 1) * LineUnits \in Nat
    BY <1>1
  <2>. QED  BY <1>1, <2>1 DEF Units
<1>3. (Units(i) - 1) \div LineUnits = i - 1
  BY <1>1, <1>2, DividedOnce
<1>4. Units(i) \in 1..Units(n)
  <2>. DEFINE j == n - i
  <2>1. j \in Nat /\ n = j + i /\ i \in Nat
    OBVIOUS
  <2>. HIDE DEF j
  <2>2. Units(n) = Units(j) + Units(i) /\ Units(j) \in Nat /\ Units(i) \in Nat
    BY <2>1, UnitsAre
  <2>3. Units(i) # 0
    BY <2>1, UnitsAre
  <2>. QED  BY <2>2, <2>3
<1>. QED  BY <1>1, <1>3, <1>4 DEF Line

\* The events of n whole lines, and then those of an array.
Kept(units, n, events) == SubSeq(EventsOf(units), 1, n) \o events
KeptAt(units, n, events, i) ==
  IF i <= n THEN units[Units(i)].ev ELSE events[i - n]

(* They are a sequence of events.                                           *)
LEMMA EventsAre ==
  ASSUME NEW units \in Seq(Unit), NEW n \in Nat, NEW d \in Nat, Len(units) = Units(n) + d
  PROVE  \A i \in 1..n : /\ i \in 1..(Len(units) \div LineUnits)
                         /\ EventsOf(units)[i] = units[Units(i)].ev
                         /\ units[Units(i)].ev \in Event
<1>. DEFINE q == Len(units) \div LineUnits
            r == Len(units) % LineUnits
<1>1. LineUnits \in Nat \ {0} /\ Len(units) \in Nat /\ Units(n) \in Nat
  BY Constants, LenProperties, UnitsAre
<1>2. q \in Nat /\ r \in 0..(LineUnits - 1) /\ Len(units) = q * LineUnits + r
  BY <1>1, Divided
<1>. HIDE DEF q, r
<1>3. n <= q
  <2>. SUFFICES ASSUME n > q PROVE FALSE
    BY <1>2
  <2>. DEFINE j == n - (q + 1)
  <2>1. j \in Nat /\ n = j + (q + 1) /\ q + 1 \in Nat /\ q + 1 = 1 + q
    BY <1>2
  <2>. HIDE DEF j
  <2>2. Units(n) = Units(j) + Units(q + 1) /\ Units(j) \in Nat
    BY <2>1, UnitsAre
  <2>3. Units(q + 1) = Units(1) + Units(q) /\ Units(q) \in Nat
    BY <1>2, <2>1, UnitsAre
  <2>4. Units(1) = LineUnits /\ Units(q) = q * LineUnits
    BY <1>1 DEF Units
  <2>5. Len(units) = Units(q) + r /\ r < LineUnits /\ r \in Nat
    BY <1>1, <1>2, <2>4
  <2>6. Units(n) = Units(j) + (LineUnits + Units(q))
    BY <2>2, <2>3, <2>4
  <2>. QED  BY <1>1, <2>2, <2>3, <2>5, <2>6
<1>4. ASSUME NEW i \in 1..n
      PROVE  /\ i \in 1..q /\ EventsOf(units)[i] = units[Units(i)].ev
             /\ units[Units(i)].ev \in Event
  <2>1. i \in 1..q
    BY <1>2, <1>3
  <2>2. EventsOf(units)[i] = units[Units(i)].ev
    BY <2>1 DEF EventsOf, Units, q
  <2>3. Units(i) \in 1..Len(units)
    BY <1>1, LastUnit
  <2>4. units[Units(i)] \in Unit
    BY <2>3, ElementOfSeq
  <2>. QED  BY <2>1, <2>2, <2>4 DEF Unit
<1>. QED  BY <1>4 DEF q

(* The log of a call by position: its first n lines' events, then the array's.*)
LEMMA KeptIs ==
  ASSUME NEW units \in Seq(Unit), NEW n \in Nat, NEW d \in Nat, Len(units) = Units(n) + d,
         NEW events \in Seq(Event)
  PROVE  /\ Kept(units, n, events) \in Seq(Event)
         /\ Len(Kept(units, n, events)) = n + Len(events) /\ Len(events) \in Nat
         /\ \A i \in 1..(n + Len(events)) :
              Kept(units, n, events)[i] = KeptAt(units, n, events, i)
<1>. DEFINE s == SubSeq(EventsOf(units), 1, n)
<1>1. \A i \in 1..n : EventsOf(units)[i] = units[Units(i)].ev /\ EventsOf(units)[i] \in Event
  BY EventsAre
<1>2. /\ s \in Seq(Event) /\ Len(s) = (IF 1 <= n THEN n - 1 + 1 ELSE 0)
      /\ \A i \in 1..(n - 1 + 1) : s[i] = EventsOf(units)[1 + i - 1]
  BY <1>1, SubSeqProperties
<1>3. Len(s) = n /\ \A i \in 1..n : s[i] = units[Units(i)].ev
  <2>1. Len(s) = n /\ n - 1 + 1 = n /\ \A i \in 1..n : 1 + i - 1 = i
    BY <1>2
  <2>. QED  BY <1>1, <1>2, <2>1
<1>. HIDE DEF s
<1>4. /\ s \o events \in Seq(Event) /\ Len(s \o events) = n + Len(events)
      /\ \A i \in 1..(n + Len(events)) :
           (s \o events)[i] = IF i <= n THEN s[i] ELSE events[i - n]
  BY <1>2, <1>3, ConcatProperties
<1>5. Len(events) \in Nat
  BY LenProperties
<1>6. ASSUME NEW i \in 1..(n + Len(events))
      PROVE  (s \o events)[i] = KeptAt(units, n, events, i)
  <2>1. CASE i <= n
    <3>1. i \in 1..n
      BY <1>5, <2>1
    <3>. QED  BY <1>3, <1>4, <2>1, <3>1 DEF KeptAt
  <2>2. CASE ~(i <= n)
    BY <1>4, <2>2 DEF KeptAt
  <2>. QED  BY <2>1, <2>2
<1>. QED  BY <1>4, <1>5, <1>6 DEF Kept, s

(* A file of whole lines holds their events and no others.                  *)
LEMMA AllEvents ==
  ASSUME NEW units \in Seq(Unit), NEW n \in Nat, Len(units) = Units(n)
  PROVE  EventsOf(units) = Kept(units, n, <<>>) /\ Len(Kept(units, n, <<>>)) = n
<1>1. Len(units) \div LineUnits = n
  BY UnitsAre
<1>2. EventsOf(units) = [i \in 1..n |-> units[i * LineUnits].ev]
  BY <1>1 DEF EventsOf
<1>3. \A i \in 1..n : EventsOf(units)[i] \in Event /\ EventsOf(units)[i] = units[Units(i)].ev
  <2>1. Len(units) = Units(n) + 0
    BY UnitsAre
  <2>. QED  BY <2>1, EventsAre
<1>4. EventsOf(units) \in [1..n -> Event]
  BY <1>2, <1>3
<1>5. EventsOf(units) \in Seq(Event) /\ Len(EventsOf(units)) = n
  <2>1. EventsOf(units) \in Seq(Event)
    BY <1>4, SeqDef
  <2>. QED  BY <1>4, <2>1, LenProperties
<1>6. /\ Kept(units, n, <<>>) \in Seq(Event) /\ Len(Kept(units, n, <<>>)) = n
      /\ \A i \in 1..n : Kept(units, n, <<>>)[i] = units[Units(i)].ev
  <2>1. PICK d \in Nat : d = 0
    OBVIOUS
  <2>2. PICK none \in Seq(Event) : none = <<>>
    <3>1. <<>> \in Seq(Event)
      BY EmptySeq
    <3>. QED  BY <3>1
  <2>3. Len(units) = Units(n) + d /\ n + Len(none) = n
    BY <2>1, <2>2, UnitsAre
  <2>4. /\ Kept(units, n, none) \in Seq(Event) /\ Len(Kept(units, n, none)) = n + Len(none)
        /\ \A i \in 1..(n + Len(none)) :
             Kept(units, n, none)[i] = KeptAt(units, n, none, i)
    BY <2>3, KeptIs
  <2>. QED  BY <2>2, <2>3, <2>4 DEF KeptAt
<1>. QED  BY <1>3, <1>5, <1>6, SeqEqual

(* They stay when more is written,                                          *)
LEMMA KeptStays ==
  ASSUME NEW units \in Seq(Unit), NEW new \in Seq(Unit), NEW n \in Nat, NEW d \in Nat, NEW e \in Nat,
         Len(units) = Units(n) + d, Len(new) = Units(n) + e,
         \A k \in 1..Units(n) : new[k] = units[k], NEW events \in Seq(Event)
  PROVE  Kept(new, n, events) = Kept(units, n, events)
<1>1. \A i \in 1..n : Units(i) \in 1..Units(n)
  BY LastUnit
<1>2. \A i \in 1..(n + Len(events)) : KeptAt(new, n, events, i) = KeptAt(units, n, events, i)
  <2>. SUFFICES ASSUME NEW i \in 1..(n + Len(events))
                PROVE  KeptAt(new, n, events, i) = KeptAt(units, n, events, i)
    OBVIOUS
  <2>1. CASE i <= n
    <3>1. i \in 1..n
      BY <2>1, LenProperties
    <3>. QED  BY <1>1, <2>1, <3>1 DEF KeptAt
  <2>2. CASE ~(i <= n)
    BY <2>2 DEF KeptAt
  <2>. QED  BY <2>1, <2>2
<1>3. /\ Kept(units, n, events) \in Seq(Event)
      /\ Len(Kept(units, n, events)) = n + Len(events)
      /\ \A i \in 1..(n + Len(events)) :
           Kept(units, n, events)[i] = KeptAt(units, n, events, i)
  BY KeptIs
<1>4. /\ Kept(new, n, events) \in Seq(Event)
      /\ Len(Kept(new, n, events)) = n + Len(events)
      /\ \A i \in 1..(n + Len(events)) :
           Kept(new, n, events)[i] = KeptAt(new, n, events, i)
  BY KeptIs
<1>. DEFINE s == Kept(units, n, events)
            t == Kept(new, n, events)
<1>5. /\ s \in Seq(Event) /\ t \in Seq(Event) /\ Len(t) = Len(s)
      /\ \A i \in 1..Len(t) : t[i] = s[i]
  BY <1>2, <1>3, <1>4
<1>. HIDE DEF s, t
<1>6. t = s
  BY <1>5, SeqEqual
<1>. QED  BY <1>6 DEF s, t

(* an event that is pushed comes last,                                      *)
LEMMA KeptAppend ==
  ASSUME NEW units \in Seq(Unit), NEW n \in Nat, NEW d \in Nat, Len(units) = Units(n) + d,
         NEW events \in Seq(Event), NEW e \in Event
  PROVE  Kept(units, n, Append(events, e)) = Append(Kept(units, n, events), e)
<1>. DEFINE s == SubSeq(EventsOf(units), 1, n)
<1>1. s \in Seq(Event)
  <2>1. \A i \in 1..n : EventsOf(units)[i] \in Event
    BY EventsAre
  <2>. QED  BY <2>1, SubSeqProperties
<1>. HIDE DEF s
<1>2. <<e>> \in Seq(Event)
  OBVIOUS
<1>3. Append(events, e) = events \o <<e>>
  BY AppendIsConcat
<1>4. (s \o events) \o <<e>> = s \o (events \o <<e>>)
  BY <1>1, <1>2, ConcatAssociative
<1>5. s \o events \in Seq(Event)
  BY <1>1, ConcatProperties
<1>6. Append(s \o events, e) = (s \o events) \o <<e>>
  BY <1>5, AppendIsConcat
<1>. QED  BY <1>3, <1>4, <1>6 DEF Kept, s

\* A file of n whole lines to which the text of an array was written.
Flushed(units, n, events) ==
  /\ Len(units) = Units(n) + Units(Len(events))
  /\ \A x \in 1..Units(Len(events)) : units[Units(n) + x] = Text(events)[x]

(* a flush moves the array into the file,                                   *)
LEMMA FlushedAt ==
  ASSUME NEW units \in Seq(Unit), NEW n \in Nat, NEW events \in Seq(Event),
         Flushed(units, n, events), NEW k \in 1..Units(Len(events))
  PROVE  /\ Line(k) \in 1..Len(events) /\ Line(Units(n) + k) = n + Line(k)
         /\ ((Units(n) + k) - 1) % LineUnits = (k - 1) % LineUnits
         /\ units[Units(n) + k] = [ev |-> events[Line(k)], u |-> (k - 1) % LineUnits]
<1>1. Len(events) \in Nat /\ LineUnits \in Nat \ {0} /\ Units(Len(events)) = Len(events) * LineUnits
  BY Constants, LenProperties DEF Units
<1>2. Line(k) \in 1..Len(events) /\ (k - 1) % LineUnits \in 0..(LineUnits - 1)
      /\ k = (Line(k) - 1) * LineUnits + ((k - 1) % LineUnits) + 1
  BY <1>1, LineIs
<1>. DEFINE p == Line(k) - 1
            r == (k - 1) % LineUnits
<1>3. p \in Nat /\ r \in 0..(LineUnits - 1) /\ k - 1 = p * LineUnits + r /\ n + p \in Nat
      /\ p + 1 = Line(k)
  <2>1. p \in Nat
    BY <1>2
  <2>2. k - 1 = p * LineUnits + r
    <3>1. p * LineUnits \in Nat /\ r \in Nat /\ k = p * LineUnits + r + 1
      <4>1. r \in Nat /\ k = p * LineUnits + r + 1
        BY <1>2
      <4>. HIDE DEF p
      <4>2. p * LineUnits \in Nat
        BY <1>1, <2>1
      <4>. QED  BY <4>1, <4>2
    <3>. HIDE DEF p, r
    <3>. QED  BY <3>1
  <2>. QED  BY <1>2, <2>1, <2>2
<1>. HIDE DEF p, r
<1>4. (Units(n) + k) - 1 = (n + p) * LineUnits + r
  <2>. DEFINE v == n + p
  <2>1. Units(n + p) = Units(n) + Units(p) /\ Units(n) \in Nat /\ Units(p) \in Nat
    BY <1>3, UnitsAre
  <2>2. Units(p) = p * LineUnits /\ Units(v) = v * LineUnits
    BY DEF Units
  <2>3. k - 1 = Units(p) + r /\ r \in Nat /\ k \in Nat
    BY <1>1, <1>3, <2>2
  <2>. DEFINE a == Units(n)
              b == Units(p)
  <2>. HIDE DEF a, b
  <2>4. Units(v) = a + b /\ a \in Nat /\ b \in Nat /\ k - 1 = b + r
    BY <2>1, <2>3 DEF a, b
  <2>5. (a + k) - 1 = (a + b) + r
    BY <2>3, <2>4
  <2>. QED  BY <2>2, <2>4, <2>5 DEF a
<1>5. ((Units(n) + k) - 1) \div LineUnits = n + p /\ ((Units(n) + k) - 1) % LineUnits = r
  <2>. DEFINE v == n + p
              x == (Units(n) + k) - 1
  <2>1. v \in Nat /\ x = v * LineUnits + r /\ LineUnits \in Nat \ {0} /\ r \in 0..(LineUnits - 1)
    BY <1>1, <1>3, <1>4
  <2>. HIDE DEF v, x
  <2>2. (v * LineUnits + r) \div LineUnits = v /\ (v * LineUnits + r) % LineUnits = r
    BY <2>1, DividedOnce
  <2>3. x \div LineUnits = v /\ x % LineUnits = r
    BY <2>1, <2>2
  <2>. QED  BY <2>3 DEF v, x
<1>6. Line(Units(n) + k) = n + Line(k)
  <2>. DEFINE x == Units(n) + k
  <2>. HIDE DEF x
  <2>1. Line(x) = ((x - 1) \div LineUnits) + 1
    BY DEF Line
  <2>2. (x - 1) \div LineUnits = n + p
    BY <1>5 DEF x
  <2>3. Line(x) = n + Line(k)
    <3>. HIDE DEF p
    <3>. QED  BY <1>3, <2>1, <2>2
  <2>. QED  BY <2>3 DEF x
<1>7. units[Units(n) + k] = [ev |-> events[Line(k)], u |-> (k - 1) % LineUnits]
  <2>1. units[Units(n) + k] = Text(events)[k]
    BY DEF Flushed
  <2>2. Text(events)[k] = [ev |-> events[Line(k)], u |-> (k - 1) % LineUnits]
    BY <1>1, TextIs
  <2>. QED  BY <2>1, <2>2
<1>. QED  BY <1>2, <1>5, <1>6, <1>7 DEF r

(* A flush that wrote the whole array has moved its events, not changed them.*)
LEMMA KeptFlushed ==
  ASSUME NEW units \in Seq(Unit), NEW n \in Nat, NEW events \in Seq(Event),
         Flushed(units, n, events)
  PROVE  Kept(units, n + Len(events), <<>>) = Kept(units, n, events)
<1>. DEFINE m == Len(events)
<1>1. m \in Nat /\ n + m \in Nat /\ Units(n + m) = Units(n) + Units(m)
      /\ Units(m) \in Nat /\ Units(n) \in Nat
  BY LenProperties, UnitsAre
<1>2. Len(units) = Units(n) + Units(m) /\ Len(units) = Units(n + m) + 0
      /\ <<>> \in Seq(Event) /\ n + m + Len(<<>>) = n + m
  BY <1>1 DEF Flushed
<1>3. /\ Kept(units, n, events) \in Seq(Event) /\ Len(Kept(units, n, events)) = n + m
      /\ \A i \in 1..(n + m) : Kept(units, n, events)[i] = KeptAt(units, n, events, i)
  BY <1>1, <1>2, KeptIs
<1>4. /\ Kept(units, n + m, <<>>) \in Seq(Event) /\ Len(Kept(units, n + m, <<>>)) = n + m
      /\ \A i \in 1..(n + m) : Kept(units, n + m, <<>>)[i] = KeptAt(units, n + m, <<>>, i)
  <2>. DEFINE w == n + m
  <2>1. PICK d \in Nat : d = 0
    OBVIOUS
  <2>2. PICK none \in Seq(Event) : none = <<>>
    <3>1. <<>> \in Seq(Event)
      BY EmptySeq
    <3>. QED  BY <3>1
  <2>3. w \in Nat /\ Len(units) = Units(w) + d /\ w + Len(none) = w
    BY <1>1, <1>2, <2>1, <2>2
  <2>. HIDE DEF w
  <2>4. /\ Kept(units, w, none) \in Seq(Event) /\ Len(Kept(units, w, none)) = w + Len(none)
        /\ \A i \in 1..(w + Len(none)) :
             Kept(units, w, none)[i] = KeptAt(units, w, none, i)
    BY <2>3, KeptIs
  <2>. QED  BY <2>2, <2>3, <2>4 DEF w
<1>5. ASSUME NEW i \in 1..(n + m)
      PROVE  KeptAt(units, n + m, <<>>, i) = KeptAt(units, n, events, i)
  <2>1. CASE i <= n
    BY <1>1, <2>1 DEF KeptAt
  <2>2. CASE i > n
    <3>. DEFINE j == i - n
    <3>1. j \in 1..m /\ i = n + j
      BY <1>1, <2>2
    <3>. HIDE DEF j
    <3>2. Units(j) \in 1..Units(m) /\ Line(Units(j)) = j /\ Units(i) = Units(n) + Units(j)
      BY <1>1, <3>1, LastUnit, UnitsAre
    <3>3. units[Units(n) + Units(j)] = [ev |-> events[j], u |-> (Units(j) - 1) % LineUnits]
      BY <3>2, FlushedAt
    <3>4. units[Units(i)].ev = events[j]
      BY <3>2, <3>3
    <3>. QED  BY <1>1, <2>2, <3>1, <3>4 DEF KeptAt, j
  <2>. QED  BY <1>1, <2>1, <2>2
<1>. HIDE DEF m
<1>6. Kept(units, n + m, <<>>) = Kept(units, n, events)
  BY <1>3, <1>4, <1>5, SeqEqual
<1>. QED  BY <1>6 DEF m

\* The first n lines of a file are whole.
Lined(units, n) ==
  \A k \in 1..Units(n) :
    units[k] = [ev |-> units[Units(Line(k))].ev, u |-> (k - 1) % LineUnits]

(* and its lines are then whole in the file,                                *)
LEMMA LinedFlushed ==
  ASSUME NEW units \in Seq(Unit), NEW n \in Nat, NEW events \in Seq(Event),
         Flushed(units, n, events), Lined(units, n)
  PROVE  Lined(units, n + Len(events))
<1>. DEFINE m == Len(events)
<1>1. m \in Nat /\ n + m \in Nat /\ Units(n + m) = Units(n) + Units(m)
      /\ Units(m) \in Nat /\ Units(n) \in Nat
  BY LenProperties, UnitsAre
<1>2. ASSUME NEW k \in 1..Units(n + m)
      PROVE  units[k] = [ev |-> units[Units(Line(k))].ev, u |-> (k - 1) % LineUnits]
  <2>1. CASE k <= Units(n)
    <3>1. k \in 1..Units(n)
      BY <1>1, <2>1
    <3>. QED  BY <3>1 DEF Lined
  <2>2. CASE k > Units(n)
    <3>. DEFINE x == k - Units(n)
    <3>1. x \in 1..Units(m) /\ k = Units(n) + x
      BY <1>1, <2>2
    <3>. HIDE DEF x
    <3>2. /\ Line(x) \in 1..m /\ Line(k) = n + Line(x)
          /\ (k - 1) % LineUnits = (x - 1) % LineUnits
          /\ units[k] = [ev |-> events[Line(x)], u |-> (x - 1) % LineUnits]
      BY <3>1, FlushedAt
    <3>. DEFINE j == Line(x)
    <3>3. j \in 1..m
      BY <3>2
    <3>. HIDE DEF j
    <3>4. Units(j) \in 1..Units(m) /\ Line(Units(j)) = j /\ Units(n + j) = Units(n) + Units(j)
      BY <1>1, <3>3, LastUnit, UnitsAre
    <3>5. units[Units(n) + Units(j)] = [ev |-> events[j], u |-> (Units(j) - 1) % LineUnits]
      BY <3>4, FlushedAt
    <3>6. units[Units(n + j)].ev = events[j]
      BY <3>4, <3>5
    <3>7. Line(k) = n + j /\ units[k] = [ev |-> events[j], u |-> (x - 1) % LineUnits]
      BY <3>2 DEF j
    <3>. QED  BY <3>2, <3>6, <3>7
  <2>. QED  BY <1>1, <2>1, <2>2
<1>. HIDE DEF m
<1>3. Lined(units, n + m)
  BY <1>2 DEF Lined
<1>. QED  BY <1>3 DEF m

(* and stay whole when more is written.                                     *)
LEMMA LinedStays ==
  ASSUME NEW units, NEW new, NEW n \in Nat, Lined(units, n), \A k \in 1..Units(n) : new[k] = units[k]
  PROVE  Lined(new, n)
<1>1. ASSUME NEW k \in 1..Units(n)
      PROVE  new[k] = [ev |-> new[Units(Line(k))].ev, u |-> (k - 1) % LineUnits]
  <2>1. Line(k) \in 1..n
    BY LineIs DEF Units
  <2>2. Units(Line(k)) \in 1..Units(n)
    BY <2>1, LastUnit
  <2>3. new[Units(Line(k))] = units[Units(Line(k))] /\ new[k] = units[k]
    BY <2>2
  <2>. QED  BY <2>3 DEF Lined
<1>. QED  BY <1>1 DEF Lined

(* A file of whole lines is the text of its events.                         *)
LEMMA LinedIsText ==
  ASSUME NEW units \in Seq(Unit), NEW n \in Nat, Len(units) = Units(n), Lined(units, n)
  PROVE  units = Text(EventsOf(units))
<1>. DEFINE s == EventsOf(units)
<1>0. n \in Nat /\ Len(units) = Units(n) + 0 /\ <<>> \in Seq(Event) /\ 0 \in Nat
  BY UnitsAre
<1>1. s \in Seq(Event) /\ Len(s) = n
  <2>1. s = Kept(units, n, <<>>) /\ Len(Kept(units, n, <<>>)) = n
    BY AllEvents
  <2>2. Kept(units, n, <<>>) \in Seq(Event)
    BY <1>0, KeptIs
  <2>. QED  BY <2>1, <2>2
<1>2. \A i \in 1..n : s[i] = units[Units(i)].ev
  BY <1>0, EventsAre
<1>. HIDE DEF s
<1>3. /\ Text(s) \in Seq(Unit) /\ Len(Text(s)) = Units(n)
      /\ \A k \in 1..Units(n) : Text(s)[k] = [ev |-> s[Line(k)], u |-> (k - 1) % LineUnits]
  BY <1>1, TextIs DEF Units
<1>4. ASSUME NEW k \in 1..Units(n)
      PROVE  units[k] = Text(s)[k]
  <2>1. Line(k) \in 1..n
    BY LineIs DEF Units
  <2>2. s[Line(k)] = units[Units(Line(k))].ev
    BY <1>2, <2>1
  <2>. QED  BY <1>3, <2>2 DEF Lined
<1>. DEFINE t == Text(s)
<1>5. t \in Seq(Unit) /\ Len(units) = Len(t) /\ \A k \in 1..Len(units) : units[k] = t[k]
  BY <1>3, <1>4
<1>. HIDE DEF t
<1>6. units = t
  BY <1>5, SeqEqual
<1>. QED  BY <1>6 DEF s, t

-------------------------------------------------------------------------------
(* The semantic stream.                                                     *)

\* Only the primary thread pushes to it, so a flush is of the current array, and ends in the
\* call in which it began.
Busy == pc[Primary] # "out"
Solo ==
  /\ \A t \in Threads : t # Primary => pc[t] = "out"
  /\ pc[Primary] # "retry"
  /\ Busy => /\ phase \in {"run", "leave"} /\ job[Primary].arr = Len(arrays)
             /\ job[Primary].file = call /\ job[Primary].manifest = manifest
  /\ pc[Primary] = "open" => stream = 0 /\ job[Primary].done = 0
  /\ pc[Primary] = "write" => /\ stream = call /\ job[Primary].text = Text(Current)
                              /\ job[Primary].done <= Len(Text(Current))

\* What is not in the file is pushed in the call that is open.
Emptied == Current = <<>> \/ phase = "run" \/ (phase = "leave" /\ Busy)

\* Each call has a file of its own, which is open until the call is sealed.
OwnFile ==
  /\ \A c \in exists : c <= call
  /\ phase = "begin" => call \notin exists
  /\ phase \in {"run", "leave", "list"} => (call \in exists <=> stream = call)
  /\ phase \in {"run", "leave"} => call \notin fdClosed
  /\ phase = "list" /\ stream # 0 => stream \in fdClosed
Counted == \A c \in Calls : written[c] = Len(file[c]) /\ (c \notin exists => file[c] = <<>>)

\* The open file holds whole lines, and what a flush has written of its text.
Ahead == IF pc[Primary] = "write" THEN job[Primary].done ELSE 0
Contents ==
  phase \in {"run", "leave", "list"} =>
    /\ Len(file[call]) = Units(count) + Ahead /\ Lined(file[call], count)
    /\ \A x \in 1..Ahead : file[call][Units(count) + x] = Text(Current)[x]

\* The manifest of a call says what its file holds.
Sealed(c) == c < call \/ (c = call /\ phase \in {"end", "none"})
Told(c) ==
  IF listed[c] = NotListed
    THEN file[c] = <<>>
    ELSE /\ listed[c].units = Len(file[c]) /\ Units(listed[c].records) = Len(file[c])
         /\ Lined(file[c], listed[c].records)
Manifests == \A c \in Calls : Sealed(c) => Told(c)

SoloInv == Solo /\ Emptied /\ OwnFile /\ Counted /\ Contents /\ Manifests

(* Which call is open, and which file.                                      *)
LEMMA OpenCall ==
  ASSUME StreamInv
  PROVE  /\ call \in 0..MaxCalls /\ call \in Nat /\ MaxCalls \in Nat /\ Calls = 1..MaxCalls
         /\ phase # "none" => call \in Calls /\ call # 0
         /\ phase \notin {"none", "begin"} => manifest = call /\ manifest # 0
                                              /\ stream \in {0, call}
         /\ 0 \notin exists /\ 0 \notin fdClosed /\ fdClosed \subseteq exists
<1>1. call \in 0..MaxCalls /\ MaxCalls \in Nat /\ Calls = 1..MaxCalls /\ stream \in 0..MaxCalls
  BY Constants DEF StreamInv, TypeOK
<1>2. phase # "none" => call \in Calls /\ call # 0
  BY <1>1 DEF StreamInv, CallNumbers
<1>3. phase \notin {"none", "begin"} => manifest = call /\ manifest # 0
  BY <1>2 DEF StreamInv, CallNumbers
<1>4. phase \notin {"none", "begin"} => stream \in {0, call}
  BY <1>1, <1>3 DEF StreamInv, StreamOpen
<1>5. 0 \notin exists /\ 0 \notin fdClosed /\ fdClosed \subseteq exists
  BY <1>1 DEF StreamInv, TypeOK
<1>. QED  BY <1>1, <1>2, <1>3, <1>4, <1>5

(* At first there is no event.                                              *)
LEMMA SoloBegins == Init => SoloInv
<1>. SUFFICES ASSUME Init PROVE SoloInv
  OBVIOUS
<1>1. Current = <<>>
  BY DEF Init, Current
<1>2. Solo
  <2>1. pc[Primary] = "out"
    BY Constants DEF Init
  <2>. QED  BY <2>1 DEF Init, Solo, Busy
<1>3. OwnFile /\ Contents
  BY DEF Init, OwnFile, Contents
<1>4. Counted
  BY DEF Init, Counted
<1>5. Manifests
  BY DEF Init, Manifests, Told
<1>. QED  BY <1>1, <1>2, <1>3, <1>4, <1>5 DEF SoloInv, Emptied

(* The primary thread stores events in the current array, or hands them to  *)
(* a flush.                                                                 *)
LEMMA SoloStores ==
  ASSUME StreamInv, SoloInv, pc[Primary] = "out", phase = "run",
         NEW events \in Seq(Event), Stores(Primary, events),
         phase' = "run" \/ (phase' = "leave" /\ Enters(Primary, events)),
         UNCHANGED <<kind, call, manifest, stream, count, fileVars, listed>>
  PROVE  SoloInv' /\ Len(arrays') = Len(arrays) /\ arrays'[Len(arrays')] = events
<1>0. UNCHANGED <<kind, call, manifest, stream, count, file, exists, fdClosed, written, listed>>
  BY DEF fileVars
<1>1. /\ call \in Calls /\ call # 0 /\ call \in Nat /\ manifest = call /\ manifest # 0
      /\ stream \in {0, call}
  BY OpenCall
<1>2. Len(arrays') = Len(arrays) /\ arrays'[Len(arrays')] = events
  <2>1. Len(arrays) \in 1..Len(arrays) /\ arrays \in Seq(Seq(Event))
    BY CurrentIs DEF StreamInv, TypeOK
  <2>. QED  BY <2>1, OtherArray DEF Stores
<1>3. \/ UNCHANGED <<pc, job>>
      \/ /\ Primary \in Threads /\ \A t \in Threads : t # Primary => pc'[t] = pc[t]
         /\ pc'[Primary] = (IF stream = 0 THEN "open" ELSE "write")
         /\ job'[Primary] = NewJob(Len(arrays), events)
  BY Constants DEF Stores, Enters, StreamInv, TypeOK
<1>4. \A t \in Threads : t # Primary => pc'[t] = "out"
  BY <1>3 DEF SoloInv, Solo
<1>5. Len(Text(events)) \in Nat
  BY TextIs, LenProperties
<1>6. Solo'
  <2>1. CASE UNCHANGED <<pc, job>>
    BY <1>4, <2>1 DEF Solo, Busy
  <2>2. CASE pc'[Primary] = "open"
    BY <1>0, <1>1, <1>2, <1>3, <1>4, <2>2 DEF Solo, Busy, NewJob
  <2>3. CASE pc'[Primary] = "write"
    <3>1. /\ stream = call /\ job'[Primary] = NewJob(Len(arrays), events) /\ stream # 0
      BY <1>1, <1>3, <2>3
    <3>2. /\ job'[Primary].arr = Len(arrays) /\ job'[Primary].file = call
          /\ job'[Primary].manifest = manifest /\ job'[Primary].done = 0
          /\ job'[Primary].text = Text(events)
      BY <3>1 DEF NewJob
    <3>3. Current' = events
      BY <1>2 DEF Current
    <3>. QED  BY <1>0, <1>2, <1>4, <1>5, <2>3, <3>1, <3>2, <3>3 DEF Solo, Busy
  <2>. QED  BY <1>3, <2>1, <2>2, <2>3
<1>7. Emptied'
  <2>1. Enters(Primary, events) => pc'[Primary] # "out"
    BY Constants DEF Enters, StreamInv, TypeOK
  <2>. QED  BY <2>1 DEF Emptied, Busy
<1>8. OwnFile'
  BY <1>0 DEF SoloInv, OwnFile
<1>9. Ahead = 0 /\ Ahead' = 0
  <2>1. pc'[Primary] = "write" => job'[Primary].done = 0
    BY <1>3 DEF NewJob
  <2>. QED  BY <2>1 DEF Ahead
<1>10. Contents'
  <2>1. Len(file[call]) = Units(count) + Ahead /\ Lined(file[call], count)
    BY DEF SoloInv, Contents
  <2>2. Len(file'[call']) = Units(count') + Ahead' /\ Lined(file'[call'], count')
    BY <1>0, <1>9, <2>1
  <2>3. \A x \in 1..Ahead' : FALSE
    BY <1>9
  <2>. QED  BY <2>2, <2>3 DEF Contents
<1>11. Counted'
  BY <1>0 DEF SoloInv, Counted
<1>12. Manifests'
  BY <1>0 DEF SoloInv, Manifests, Sealed, Told
<1>. QED  BY <1>2, <1>6, <1>7, <1>8, <1>10, <1>11, <1>12 DEF SoloInv

(* A hook of the semantic stream runs in the call of the primary thread.    *)
LEMMA SoloPush ==
  ASSUME StreamInv, SoloInv, Guarded, NEW t \in Threads, Push(t)
  PROVE  /\ t = Primary /\ phase = "run" /\ phase' = "run" /\ NewEvent(t) \in Event
         /\ UNCHANGED <<callVars, stream, count, fileVars, listed>>
         /\ Current' = Append(Current, NewEvent(t)) /\ SoloInv'
<1>1. /\ pc[t] = "out" /\ t \in kind.pushers /\ Window /\ NewEvent(t) \in Event
      /\ t = Primary => phase \in {"none", "run"}
      /\ Append(Current, NewEvent(t)) \in Seq(Event)
      /\ Drops \/ Stores(t, Append(Current, NewEvent(t)))
      /\ UNCHANGED <<callVars, stream, count, fileVars, listed>>
  BY PushDoes
<1>2. t = Primary
  BY <1>1, GuardedAssumption DEF Guarded, StreamInv, TypeOK
<1>3. phase = "run" /\ UNCHANGED <<kind, phase, call, manifest>>
  BY <1>1, <1>2 DEF Window, callVars
<1>4. manifest # 0
  BY <1>3, OpenCall
<1>5. Stores(Primary, Append(Current, NewEvent(t)))
  BY <1>1, <1>2, <1>4 DEF Drops
<1>6. /\ SoloInv' /\ Len(arrays') = Len(arrays)
      /\ arrays'[Len(arrays')] = Append(Current, NewEvent(t))
  BY <1>1, <1>2, <1>3, <1>5, SoloStores
<1>. QED  BY <1>1, <1>2, <1>3, <1>6 DEF Current

(* It leaves with nothing to flush, or flushes.                             *)
LEMMA SoloLeave ==
  ASSUME StreamInv, SoloInv, Leave
  PROVE  /\ phase = "run" /\ phase' = "leave" /\ Current' = Current /\ SoloInv'
         /\ UNCHANGED <<kind, call, manifest, stream, count, fileVars, listed>>
<1>1. /\ phase = "run" /\ phase' = "leave" /\ pc[Primary] = "out" /\ Current \in Seq(Event)
      /\ UNCHANGED <<kind, call, manifest, stream, count, fileVars, listed>>
  BY LeaveDoes
<1>2. manifest # 0 /\ stream \notin fdClosed
  <2>1. manifest # 0 /\ stream \in {0, call} /\ 0 \notin fdClosed
    BY <1>1, OpenCall
  <2>. QED  BY <1>1, <2>1 DEF SoloInv, OwnFile
<1>3. CASE Current = <<>>
  <2>1. UNCHANGED <<arrays, pc, job>>
    BY <1>1, <1>3 DEF Leave
  <2>2. Current' = Current /\ Busy' = Busy /\ Ahead' = Ahead
    BY <2>1 DEF Current, Busy, Ahead
  <2>3. UNCHANGED <<call, manifest, stream, count, file, exists, fdClosed, written, listed>>
    BY <1>1 DEF fileVars
  <2>4. Solo'
    BY <1>1, <2>1, <2>2, <2>3 DEF SoloInv, Solo
  <2>5. Emptied' /\ OwnFile'
    BY <1>1, <1>3, <2>2, <2>3 DEF SoloInv, Emptied, OwnFile
  <2>6. Contents'
    BY <1>1, <2>2, <2>3 DEF SoloInv, Contents
  <2>7. Counted' /\ Manifests'
    BY <1>1, <2>3 DEF SoloInv, Counted, Manifests, Sealed, Told
  <2>. QED  BY <1>1, <2>2, <2>4, <2>5, <2>6, <2>7 DEF SoloInv
<1>4. CASE Current # <<>>
  <2>1. Stores(Primary, Current) /\ Enters(Primary, Current)
    BY <1>2, <1>4 DEF Leave, Persist, Stores, Enters, NewJob
  <2>2. SoloInv' /\ Len(arrays') = Len(arrays) /\ arrays'[Len(arrays')] = Current
    BY <1>1, <2>1, SoloStores
  <2>. QED  BY <1>1, <2>2 DEF Current
<1>. QED  BY <1>3, <1>4

(* A flush creates the file of its call,                                    *)
LEMMA SoloCreate ==
  ASSUME StreamInv, SoloInv, NEW t \in Threads, Create(t)
  PROVE  /\ phase \in {"run", "leave"} /\ UNCHANGED <<callVars, arrays, count, file, listed>>
         /\ SoloInv'
<1>1. /\ pc[t] = "open" /\ exists' = exists \cup {job[t].file}
      /\ stream' = (IF job[t].manifest = manifest THEN job[t].file ELSE stream)
      /\ job' = [job EXCEPT ![t].text = Text(arrays[job[t].arr])]
      /\ pc' = [pc EXCEPT ![t] = "write"]
      /\ UNCHANGED <<kind, phase, call, manifest, arrays, count, file, fdClosed, written, listed>>
  BY DEF Create, Registers, callVars
<1>2. t = Primary /\ Primary \in Threads
  BY <1>1 DEF SoloInv, Solo
<1>3. /\ phase \in {"run", "leave"} /\ job[t].arr = Len(arrays) /\ job[t].file = call
      /\ job[t].manifest = manifest /\ stream = 0 /\ job[t].done = 0
  BY <1>1, <1>2 DEF SoloInv, Solo, Busy
<1>4. exists' = exists \cup {call} /\ stream' = call /\ call \in Calls /\ call \in Nat
  BY <1>1, <1>3, OpenCall
<1>5. /\ pc'[Primary] = "write" /\ \A o \in Threads : o # Primary => pc'[o] = pc[o]
      /\ job'[Primary].text = Text(Current) /\ job'[Primary].done = 0
      /\ job'[Primary].arr = Len(arrays) /\ job'[Primary].file = call
      /\ job'[Primary].manifest = manifest
  BY <1>1, <1>2, <1>3 DEF StreamInv, TypeOK, Current
<1>6. Current' = Current /\ Ahead = 0 /\ Ahead' = 0 /\ Busy /\ Busy'
  BY <1>1, <1>2, <1>5 DEF Current, Ahead, Busy
<1>7. Solo'
  <2>1. Len(Text(Current)) \in Nat
    BY CurrentIs, TextIs, LenProperties DEF StreamInv
  <2>. QED  BY <1>1, <1>3, <1>4, <1>5, <1>6, <2>1 DEF SoloInv, Solo
<1>8. Emptied'
  BY <1>1, <1>6 DEF SoloInv, Emptied
<1>9. OwnFile'
  <2>1. phase' \in {"run", "leave"} /\ call' = call /\ fdClosed' = fdClosed
    BY <1>1, <1>3
  <2>2. \A c \in exists' : c <= call
    BY <1>4 DEF SoloInv, OwnFile
  <2>3. call \notin fdClosed
    BY <1>3 DEF SoloInv, OwnFile
  <2>. QED  BY <1>4, <2>1, <2>2, <2>3 DEF OwnFile
<1>10. Counted'
  BY <1>1, <1>4 DEF SoloInv, Counted
<1>11. Contents'
  <2>1. Len(file[call]) = Units(count) + Ahead /\ Lined(file[call], count)
    BY <1>3 DEF SoloInv, Contents
  <2>2. Len(file'[call']) = Units(count') + Ahead' /\ Lined(file'[call'], count')
    BY <1>1, <1>6, <2>1
  <2>3. \A x \in 1..Ahead' : FALSE
    BY <1>6
  <2>. QED  BY <2>2, <2>3 DEF Contents
<1>12. Manifests'
  BY <1>1 DEF SoloInv, Manifests, Sealed, Told
<1>. QED  BY <1>1, <1>3, <1>7, <1>8, <1>9, <1>10, <1>11, <1>12 DEF SoloInv, callVars

(* which did not exist,                                                     *)
LEMMA SoloOpens ==
  ASSUME StreamInv, SoloInv, NEW t \in Threads
  PROVE  ~OpenFails(t)
<1>. SUFFICES ASSUME OpenFails(t) PROVE FALSE
  OBVIOUS
<1>1. pc[t] = "open" /\ job[t].file \in exists
  BY DEF OpenFails
<1>2. t = Primary
  BY <1>1 DEF SoloInv, Solo
<1>3. phase \in {"run", "leave"} /\ job[t].file = call /\ stream = 0
  BY <1>1, <1>2 DEF SoloInv, Solo, Busy
<1>4. call # 0
  BY <1>3, OpenCall
<1>. QED  BY <1>1, <1>3, <1>4 DEF SoloInv, OwnFile

(* writes its text, every unit of which is counted,                         *)
LEMMA SoloWrite ==
  ASSUME StreamInv, StreamInv', SoloInv, NEW t \in Threads, WriteUnits(t)
  PROVE  /\ phase \in {"run", "leave"} /\ UNCHANGED <<callVars, arrays, count, listed>>
         /\ \A c \in Calls : c # call => file'[c] = file[c]
         /\ \A k \in 1..Units(count) : file'[call][k] = file[call][k]
         /\ SoloInv'
<1>1. /\ pc[t] = "write" /\ job[t].text \in Seq(Unit)
      /\ UNCHANGED <<kind, phase, call, manifest, arrays, stream, count, exists, fdClosed, listed,
                     pc, pushed>>
  BY WriteDoes
<1>2. t = Primary /\ Primary \in Threads
  BY <1>1 DEF SoloInv, Solo
<1>3. /\ phase \in {"run", "leave"} /\ job[t].arr = Len(arrays) /\ job[t].file = call
      /\ job[t].manifest = manifest /\ stream = call /\ job[t].text = Text(Current)
  BY <1>1, <1>2 DEF SoloInv, Solo, Busy
<1>. DEFINE d == job[t].done
            old == file[call]
            new == file'[call]
            text == Text(Current)
<1>4. PICK n \in Nat \ {0} :
        /\ call \in Calls /\ job' = [job EXCEPT ![t].done = d + n]
        /\ d \in Nat /\ d + n <= Len(text) /\ Len(text) \in Nat
        /\ Len(old) \in Nat /\ Len(new) = Len(old) + n
        /\ \A k \in 1..Len(old) : new[k] = old[k]
        /\ \A x \in 1..n : new[Len(old) + x] = text[d + x]
        /\ \A c \in Calls : c # call => file'[c] = file[c]
  <2>1. \E n \in Nat \ {0} :
           /\ job[t].file \in Calls /\ job' = [job EXCEPT ![t].done = d + n]
           /\ d \in Nat /\ d + n <= Len(job[t].text) /\ Len(job[t].text) \in Nat
           /\ Len(file[job[t].file]) \in Nat
           /\ Len(file'[job[t].file]) = Len(file[job[t].file]) + n
           /\ \A k \in 1..Len(file[job[t].file]) : file'[job[t].file][k] = file[job[t].file][k]
           /\ \A x \in 1..n : file'[job[t].file][Len(file[job[t].file]) + x] = job[t].text[d + x]
           /\ \A c \in Calls : c # job[t].file => file'[c] = file[c]
    BY PartIs
  <2>. QED  BY <1>3, <2>1
<1>5. /\ job'[Primary].done = d + n /\ job'[Primary].arr = Len(arrays)
      /\ job'[Primary].file = call /\ job'[Primary].manifest = manifest
      /\ job'[Primary].text = text
  BY <1>2, <1>3, <1>4 DEF StreamInv, TypeOK
<1>6. Ahead = d /\ Ahead' = d + n /\ Current' = Current /\ Busy' = Busy
  BY <1>1, <1>2, <1>5 DEF Ahead, Current, Busy
<1>7. count \in Nat /\ Units(count) \in Nat /\ call \in Nat
  BY UnitsAre, OpenCall DEF StreamInv, TypeOK
<1>8. /\ Len(old) = Units(count) + d /\ Lined(old, count)
      /\ \A x \in 1..d : old[Units(count) + x] = text[x]
  BY <1>3, <1>6 DEF SoloInv, Contents
<1>9. written' = [written EXCEPT ![call] = Len(new)]
  <2>1. \E m \in 1..(Len(job[t].text) - d) :
          /\ job' = [job EXCEPT ![t].done = d + m]
          /\ \/ written' = [written EXCEPT ![call] = @ + m]
             \/ \E u \in Threads \ {t} : pc[u] = "write"
    BY <1>3, WriteDoes
  <2>2. \A u \in Threads \ {t} : pc[u] # "write"
    BY <1>2 DEF SoloInv, Solo
  <2>3. PICK m \in 1..(Len(text) - d) :
          /\ job' = [job EXCEPT ![t].done = d + m]
          /\ written' = [written EXCEPT ![call] = @ + m]
    BY <1>3, <2>1, <2>2
  <2>4. job'[Primary].done = d + m
    BY <1>2, <2>3 DEF StreamInv, TypeOK
  <2>5. m = n
    <3>1. d + m = d + n /\ m \in Int /\ d \in Int /\ n \in Int
      BY <1>4, <1>5, <2>4
    <3>. HIDE DEF d
    <3>. QED  BY <3>1
  <2>6. written[call] = Len(old)
    BY <1>4 DEF SoloInv, Counted
  <2>. QED  BY <1>4, <2>3, <2>5, <2>6 DEF StreamInv, TypeOK
<1>. HIDE DEF d, text
<1>10. Solo'
  BY <1>1, <1>3, <1>4, <1>5, <1>6 DEF SoloInv, Solo, text
<1>11. Emptied' /\ OwnFile'
  BY <1>1, <1>6 DEF SoloInv, Emptied, OwnFile
<1>12. Counted'
  <2>1. written \in [Calls -> Nat]
    BY DEF StreamInv, TypeOK
  <2>2. call \in exists'
    BY <1>1, <1>3 DEF SoloInv, OwnFile
  <2>. QED  BY <1>1, <1>4, <1>9, <2>1, <2>2 DEF SoloInv, Counted
<1>13. \A k \in 1..Units(count) : new[k] = old[k]
  <2>1. \A k \in 1..Units(count) : k \in 1..Len(old)
    BY <1>4, <1>7, <1>8
  <2>. QED  BY <1>4, <2>1
<1>14. Contents'
  <2>1. Len(new) = Units(count) + (d + n)
    BY <1>4, <1>7, <1>8
  <2>2. Lined(new, count)
    BY <1>7, <1>8, <1>13, LinedStays
  <2>3. ASSUME NEW x \in 1..(d + n)
        PROVE  new[Units(count) + x] = text[x]
    <3>1. CASE x <= d
      <4>1. x \in 1..d /\ Units(count) + x \in 1..Len(old)
        BY <1>4, <1>7, <1>8, <3>1
      <4>. QED  BY <1>4, <1>8, <4>1
    <3>2. CASE x > d
      <4>. DEFINE y == x - d
      <4>1. y \in 1..n /\ d + y = x /\ Len(old) + y = Units(count) + x
        <5>1. d \in Nat /\ n \in Nat /\ Units(count) \in Nat /\ Len(old) = Units(count) + d
              /\ x \in 1..(d + n)
          BY <1>4, <1>7, <1>8
        <5>. HIDE DEF old
        <5>. QED  BY <3>2, <5>1
      <4>2. new[Len(old) + y] = text[d + y]
        BY <1>4, <4>1
      <4>. QED  BY <4>1, <4>2
    <3>. QED  BY <1>4, <3>1, <3>2
  <2>4. /\ Len(file'[call']) = Units(count') + Ahead' /\ Lined(file'[call'], count')
        /\ \A x \in 1..Ahead' : file'[call'][Units(count') + x] = Text(Current')[x]
    BY <1>1, <1>6, <2>1, <2>2, <2>3 DEF text
  <2>. QED  BY <2>4 DEF Contents
<1>15. Manifests'
  <2>1. \A c \in Calls : Sealed(c)' => Sealed(c) /\ c # call
    BY <1>1, <1>3, <1>7, Constants DEF Sealed
  <2>2. \A c \in Calls : c # call => file'[c] = file[c] /\ listed'[c] = listed[c]
    BY <1>1, <1>4
  <2>. QED  BY <2>1, <2>2 DEF SoloInv, Manifests, Told
<1>. QED  BY <1>1, <1>3, <1>4, <1>10, <1>11, <1>12, <1>13, <1>14, <1>15 DEF SoloInv, callVars

(* and ends with all of it in the file.                                     *)
LEMMA SoloFinish ==
  ASSUME StreamInv, StreamInv', SoloInv, NEW t \in Threads, FinishFlush(t)
  PROVE  /\ phase \in {"run", "leave"} /\ UNCHANGED <<callVars, file, listed>>
         /\ Flushed(file[call], count, Current) /\ count' = count + Len(Current)
         /\ Current' = <<>> /\ SoloInv'
<1>1. /\ pc[t] = "write" /\ job[t].done = Len(job[t].text)
      /\ count' = count + Len(arrays[job[t].arr]) /\ arrays' = Append(arrays, <<>>)
      /\ pc' = [pc EXCEPT ![t] = "out"]
      /\ UNCHANGED <<kind, phase, call, manifest, stream, file, exists, fdClosed, written, listed>>
  BY DEF FinishFlush, CountAfter, ArraysAfter, callVars, fileVars
<1>2. t = Primary /\ Primary \in Threads
  BY <1>1 DEF SoloInv, Solo
<1>3. /\ phase \in {"run", "leave"} /\ job[t].arr = Len(arrays) /\ job[t].text = Text(Current)
      /\ call \in Calls
  BY <1>1, <1>2, OpenCall DEF SoloInv, Solo, Busy
<1>4. /\ Current \in Seq(Event) /\ Len(Current) \in Nat /\ count \in Nat
      /\ Len(Text(Current)) = Units(Len(Current))
  BY CurrentIs, TextIs DEF StreamInv, TypeOK, Units
<1>5. Ahead = Units(Len(Current)) /\ Ahead' = 0 /\ pc'[Primary] = "out"
      /\ \A o \in Threads : pc'[o] = "out"
  BY <1>1, <1>2, <1>3, <1>4 DEF Ahead, SoloInv, Solo, StreamInv, TypeOK
<1>6. Current' = <<>> /\ count' = count + Len(Current)
  <2>1. Len(arrays') = Len(arrays) + 1 /\ arrays'[Len(arrays) + 1] = <<>>
    BY <1>1, NewArray DEF StreamInv, TypeOK
  <2>. QED  BY <1>1, <1>3, <2>1 DEF Current
<1>7. Flushed(file[call], count, Current) /\ Lined(file[call], count)
  BY <1>3, <1>5 DEF SoloInv, Contents, Flushed
<1>8. Lined(file[call], count') /\ Len(file[call]) = Units(count')
  <2>1. file[call] \in Seq(Unit)
    BY <1>3 DEF StreamInv, TypeOK
  <2>2. Units(count') = Units(count) + Units(Len(Current))
    BY <1>4, <1>6, UnitsAre
  <2>. QED  BY <1>4, <1>6, <1>7, <2>1, <2>2, LinedFlushed DEF Flushed
<1>9. Solo'
  BY <1>5 DEF Solo, Busy
<1>10. Emptied' /\ OwnFile' /\ Counted'
  BY <1>1, <1>6 DEF SoloInv, Emptied, OwnFile, Counted
<1>11. Contents'
  <2>1. count' \in Nat /\ Units(count') \in Nat
    BY <1>4, <1>6, UnitsAre
  <2>2. Len(file'[call']) = Units(count') + Ahead' /\ Lined(file'[call'], count')
    BY <1>1, <1>5, <1>8, <2>1
  <2>3. \A x \in 1..Ahead' : FALSE
    BY <1>5
  <2>. QED  BY <2>2, <2>3 DEF Contents
<1>12. Manifests'
  BY <1>1 DEF SoloInv, Manifests, Sealed, Told
<1>. QED  BY <1>1, <1>3, <1>6, <1>7, <1>9, <1>10, <1>11, <1>12 DEF SoloInv, callVars

(* The next call has no file yet,                                           *)
LEMMA SoloBegin ==
  ASSUME StreamInv, SoloInv, Guarded, Begin
  PROVE  /\ phase = "none" /\ phase' = "begin" /\ call' = call + 1 /\ SoloInv'
         /\ UNCHANGED <<kind, manifest, stream, count, fileVars, listed>>
<1>1. /\ phase = "none" /\ phase' = "begin" /\ call' = call + 1 /\ pc[Primary] = "out"
      /\ arrays' = Append(arrays, <<>>)
      /\ UNCHANGED <<kind, manifest, stream, count, fileVars, listed, pc, job>>
      /\ UNCHANGED <<file, exists, fdClosed, written>>
  BY DEF Begin, fileVars
<1>2. call \in Nat /\ Calls = 1..MaxCalls /\ MaxCalls \in Nat
  BY OpenCall
<1>3. Current' = <<>>
  <2>1. Len(arrays') = Len(arrays) + 1 /\ arrays'[Len(arrays) + 1] = <<>>
    BY <1>1, NewArray DEF StreamInv, TypeOK
  <2>. QED  BY <2>1 DEF Current
<1>4. Solo'
  BY <1>1 DEF SoloInv, Solo, Busy
<1>5. Emptied' /\ Counted' /\ Contents'
  BY <1>1, <1>3 DEF SoloInv, Emptied, Counted, Contents
<1>6. OwnFile'
  <2>1. \A c \in exists : c \in Nat /\ c <= call
    BY <1>2 DEF SoloInv, OwnFile, StreamInv, TypeOK
  <2>. QED  BY <1>1, <1>2, <2>1 DEF OwnFile
<1>7. Manifests'
  <2>1. \A c \in Calls : Sealed(c)' => Sealed(c)
    BY <1>1, <1>2 DEF Sealed
  <2>. QED  BY <1>1, <2>1 DEF SoloInv, Manifests, Told
<1>. QED  BY <1>1, <1>4, <1>5, <1>6, <1>7 DEF SoloInv

(* and no stream when its manifest begins;                                  *)
LEMMA SoloBeginManifest ==
  ASSUME StreamInv, SoloInv, BeginManifest
  PROVE  /\ phase = "begin" /\ phase' = "run" /\ count' = 0 /\ Current' = <<>>
         /\ file[call] = <<>> /\ SoloInv' /\ UNCHANGED <<kind, call, fileVars, listed>>
<1>1. /\ phase = "begin" /\ phase' = "run" /\ stream' = 0 /\ count' = 0
      /\ UNCHANGED <<kind, call, fileVars, listed, arrays, pc, job>>
      /\ UNCHANGED <<file, exists, fdClosed, written>>
  BY DEF BeginManifest, fileVars
<1>2. call \in Calls /\ call # 0 /\ fdClosed \subseteq exists
  BY <1>1, OpenCall
<1>3. call \notin exists /\ call \notin fdClosed /\ file[call] = <<>>
  BY <1>1, <1>2 DEF SoloInv, OwnFile, Counted
<1>4. ~Busy /\ ~Busy' /\ Current' = Current /\ Current = <<>> /\ Ahead' = 0
  BY <1>1 DEF SoloInv, Solo, Emptied, Busy, Current, Ahead
<1>5. Solo'
  BY <1>1, <1>4 DEF SoloInv, Solo, Busy
<1>6. OwnFile'
  BY <1>1, <1>2, <1>3 DEF SoloInv, OwnFile
<1>7. Contents'
  <2>1. Units(0) = 0 /\ Len(file[call]) = 0
    BY <1>3, UnitsAre
  <2>2. Lined(file[call], 0)
    BY <2>1 DEF Lined
  <2>3. Len(file'[call']) = Units(count') + Ahead' /\ Lined(file'[call'], count')
    BY <1>1, <1>4, <2>1, <2>2
  <2>4. \A x \in 1..Ahead' : FALSE
    BY <1>4
  <2>. QED  BY <2>3, <2>4 DEF Contents
<1>8. Manifests'
  BY <1>1 DEF SoloInv, Manifests, Sealed, Told
<1>9. Emptied' /\ Counted'
  BY <1>1, <1>4 DEF SoloInv, Emptied, Counted
<1>. QED  BY <1>1, <1>3, <1>4, <1>5, <1>6, <1>7, <1>8, <1>9 DEF SoloInv

(* its file is closed when all of its lines are whole,                      *)
LEMMA SoloClose ==
  ASSUME StreamInv, SoloInv, CloseFile
  PROVE  /\ phase = "leave" /\ phase' = "list" /\ Current = <<>> /\ Ahead = 0 /\ SoloInv'
         /\ UNCHANGED <<kind, call, manifest, arrays, stream, count, file, listed>>
<1>1. /\ phase = "leave" /\ phase' = "list" /\ pc[Primary] = "out"
      /\ fdClosed' = (IF stream = 0 THEN fdClosed ELSE fdClosed \cup {stream})
      /\ UNCHANGED <<kind, call, manifest, arrays, stream, count, file, exists, written, listed,
                     pc, job>>
  BY DEF CloseFile
<1>2. Current' = Current /\ Current = <<>> /\ ~Busy /\ ~Busy' /\ Ahead = 0 /\ Ahead' = 0
  BY <1>1 DEF SoloInv, Emptied, Current, Busy, Ahead
<1>3. Solo'
  BY <1>1, <1>2 DEF SoloInv, Solo, Busy
<1>4. Emptied' /\ Counted'
  BY <1>1, <1>2 DEF SoloInv, Emptied, Counted
<1>5. OwnFile'
  BY <1>1 DEF SoloInv, OwnFile
<1>6. Contents'
  <2>1. Len(file[call]) = Units(count) + Ahead /\ Lined(file[call], count)
    BY <1>1 DEF SoloInv, Contents
  <2>2. Len(file'[call']) = Units(count') + Ahead' /\ Lined(file'[call'], count')
    BY <1>1, <1>2, <2>1
  <2>3. \A x \in 1..Ahead' : FALSE
    BY <1>2
  <2>. QED  BY <2>2, <2>3 DEF Contents
<1>7. Manifests'
  BY <1>1 DEF SoloInv, Manifests, Sealed, Told
<1>. QED  BY <1>1, <1>2, <1>3, <1>4, <1>5, <1>6, <1>7 DEF SoloInv

(* and the manifest counts them, or there are none.                         *)
LEMMA SoloList ==
  ASSUME StreamInv, SoloInv, ListFile
  PROVE  /\ phase = "list" /\ phase' = "end" /\ SoloInv'
         /\ UNCHANGED <<kind, call, manifest, arrays, stream, count, fileVars>>
         /\ Len(file[call]) = Units(count) /\ listed[call] = NotListed
         /\ \/ listed' = listed /\ count = 0
            \/ listed' = [listed EXCEPT ![call] = [records |-> count, units |-> Len(file[call])]]
<1>1. /\ phase = "list" /\ phase' = "end"
      /\ listed' = (IF stream \notin fdClosed THEN listed
                    ELSE [listed EXCEPT ![call] = [records |-> count, units |-> written[stream]]])
      /\ UNCHANGED <<kind, call, manifest, arrays, stream, count, fileVars, pc, job>>
      /\ UNCHANGED <<file, exists, fdClosed, written>>
  BY DEF ListFile, fileVars
<1>2. /\ call \in Calls /\ call # 0 /\ stream \in {0, call} /\ call \in Nat
      /\ 0 \notin fdClosed /\ Calls = 1..MaxCalls
  BY <1>1, OpenCall
<1>3. listed[call] = NotListed
  BY <1>1, <1>2 DEF StreamInv, ListedClosed
<1>4. ~Busy /\ ~Busy' /\ Current' = Current /\ Ahead = 0
  BY <1>1 DEF SoloInv, Solo, Busy, Current, Ahead
<1>5. Len(file[call]) = Units(count) /\ Lined(file[call], count) /\ count \in Nat
  <2>1. Len(file[call]) = Units(count) + Ahead /\ Lined(file[call], count) /\ count \in Nat
    BY <1>1 DEF SoloInv, Contents, StreamInv, TypeOK
  <2>2. Units(count) \in Nat
    BY <2>1, UnitsAre
  <2>. QED  BY <1>4, <2>1, <2>2
<1>6. stream \notin fdClosed => file[call] = <<>> /\ count = 0 /\ listed' = listed
  <2>. SUFFICES ASSUME stream \notin fdClosed
                PROVE  file[call] = <<>> /\ count = 0 /\ listed' = listed
    OBVIOUS
  <2>1. call \notin exists
    BY <1>1, <1>2 DEF SoloInv, OwnFile
  <2>2. file[call] = <<>>
    BY <1>2, <2>1 DEF SoloInv, Counted
  <2>3. Units(count) = 0
    BY <1>5, <2>2
  <2>. QED  BY <1>1, <1>5, <2>2, <2>3, UnitsAre
<1>7. stream \in fdClosed =>
        listed' = [listed EXCEPT ![call] = [records |-> count, units |-> Len(file[call])]]
  BY <1>1, <1>2 DEF SoloInv, Counted
<1>8. \A c \in Calls : c # call => listed'[c] = listed[c]
  BY <1>6, <1>7 DEF StreamInv, TypeOK
<1>9. Told(call)'
  <2>1. CASE stream \notin fdClosed
    BY <1>1, <1>3, <1>6, <2>1 DEF Told
  <2>2. CASE stream \in fdClosed
    <3>1. listed'[call] = [records |-> count, units |-> Len(file[call])]
      BY <1>2, <1>7, <2>2 DEF StreamInv, TypeOK
    <3>2. listed'[call].records = count /\ listed'[call].units = Len(file[call])
      BY <3>1
    <3>3. listed'[call] # NotListed
      <4>1. NotListed.records = -1
        BY DEF NotListed
      <4>. QED  BY <1>5, <3>2, <4>1
    <3>. QED  BY <1>1, <1>5, <3>2, <3>3 DEF Told
  <2>. QED  BY <2>1, <2>2
<1>10. Manifests'
  <2>1. \A c \in Calls : c # call => (Sealed(c)' => Sealed(c))
    BY <1>1, <1>2 DEF Sealed
  <2>2. \A c \in Calls : c # call => (Sealed(c)' => Told(c)')
    BY <1>1, <1>8, <2>1 DEF SoloInv, Manifests, Told
  <2>. QED  BY <1>1, <1>9, <2>2 DEF Manifests
<1>11. Solo'
  BY <1>1, <1>4 DEF SoloInv, Solo, Busy
<1>12. Emptied' /\ OwnFile' /\ Counted' /\ Contents'
  BY <1>1, <1>4 DEF SoloInv, Emptied, OwnFile, Counted, Contents
<1>. QED  BY <1>1, <1>3, <1>5, <1>6, <1>7, <1>10, <1>11, <1>12 DEF SoloInv

(* Then the window closes.                                                  *)
LEMMA SoloEnd ==
  ASSUME StreamInv, SoloInv, End
  PROVE  /\ phase = "end" /\ phase' = "none" /\ SoloInv'
         /\ UNCHANGED <<kind, call, manifest, arrays, stream, count, fileVars, listed>>
<1>1. /\ phase = "end" /\ phase' = "none"
      /\ UNCHANGED <<kind, call, manifest, arrays, stream, count, fileVars, listed, pc, job>>
      /\ UNCHANGED <<file, exists, fdClosed, written>>
  BY DEF End, fileVars
<1>2. ~Busy /\ ~Busy' /\ Current' = Current
  BY <1>1 DEF SoloInv, Solo, Busy, Current
<1>3. Solo'
  BY <1>1, <1>2 DEF SoloInv, Solo, Busy
<1>4. Emptied' /\ OwnFile' /\ Counted' /\ Contents'
  BY <1>1, <1>2 DEF SoloInv, Emptied, OwnFile, Counted, Contents
<1>5. Manifests'
  <2>1. \A c \in Calls : Sealed(c)' => Sealed(c)
    BY <1>1 DEF Sealed
  <2>. QED  BY <1>1, <2>1 DEF SoloInv, Manifests, Told
<1>. QED  BY <1>1, <1>3, <1>4, <1>5 DEF SoloInv

(* A stutter keeps what is said of the guarded stream.                      *)
LEMMA SoloStays ==
  ASSUME SoloInv, UNCHANGED vars
  PROVE  SoloInv'
<1>1. UNCHANGED <<phase, call, manifest, arrays, stream, count, file, exists, fdClosed, written,
                  listed, pc, job>>
  BY DEF vars, callVars, fileVars
<1>2. Solo' /\ Emptied' /\ OwnFile' /\ Counted'
  BY <1>1 DEF SoloInv, Solo, Emptied, OwnFile, Counted, Busy, Current
<1>3. Contents'
  BY <1>1 DEF SoloInv, Contents, Ahead, Current
<1>4. Manifests'
  BY <1>1 DEF SoloInv, Manifests, Sealed, Told
<1>. QED  BY <1>2, <1>3, <1>4 DEF SoloInv

(* The stream looked at stays the same, and the semantic one keeps all that.*)
LEMMA SoloKeeps ==
  StreamInv /\ StreamInv' /\ (Guarded => SoloInv) /\ [Next]_vars => (Guarded => SoloInv)'
<1>. SUFFICES ASSUME StreamInv, StreamInv', Guarded => SoloInv, [Next]_vars, Guarded'
              PROVE  SoloInv'
  OBVIOUS
<1>1. kind' = kind
  BY DEF vars, callVars, Next, Push, Flush, Create, OpenFails, WriteUnits, FinishFlush, Begin,
         CallStep, BeginManifest, Leave, CloseFile, ListFile, End
<1>2. Guarded /\ SoloInv
  BY <1>1 DEF Guarded
<1>3. CASE \E t \in Threads : Push(t) \/ Flush(t)
  BY <1>2, <1>3, SoloPush, SoloCreate, SoloOpens, SoloWrite, SoloFinish DEF Flush
<1>4. CASE Begin \/ CallStep
  BY <1>2, <1>4, SoloBegin, SoloBeginManifest, SoloLeave, SoloClose, SoloList, SoloEnd
     DEF CallStep
<1>5. CASE UNCHANGED vars
  BY <1>2, <1>5, SoloStays
<1>. QED  BY <1>3, <1>4, <1>5 DEF Next

(* So it holds in every state of every run whose stream is guarded.         *)
LEMMA SoloAlways == Spec => [](StreamInv /\ (Guarded => SoloInv))
<1>1. Init => (Guarded => SoloInv)
  BY SoloBegins
<1>. QED  BY <1>1, StreamAlways, SoloKeeps, PTL DEF Spec

(* The manifest of a sealed call tells the truth about the file of the      *)
(* semantic stream: as many bytes, and as many whole lines, although the    *)
(* byte count is kept by write_all and the record count by persistEvents    *)
(* (manifest.ts sealManifest, native_io.ts write_all).                      *)
THEOREM ManifestsTellTruth == Spec => []ManifestTrue
<1>1. StreamInv /\ (Guarded => SoloInv) => ManifestTrue
  <2>. SUFFICES ASSUME StreamInv, SoloInv, Guarded, NEW c \in Calls
                PROVE  IF listed[c] = NotListed
                         THEN c < call => file[c] = <<>>
                         ELSE /\ listed[c].units = Len(file[c])
                              /\ listed[c].records * LineUnits = Len(file[c])
                              /\ file[c] = Text(EventsOf(file[c]))
    BY DEF ManifestTrue
  <2>1. CASE listed[c] = NotListed
    <3>1. c < call => Told(c)
      BY DEF SoloInv, Manifests, Sealed
    <3>. QED  BY <2>1, <3>1 DEF Told
  <2>2. CASE listed[c] # NotListed
    <3>1. Sealed(c)
      BY <2>2 DEF StreamInv, ListedClosed, Sealed
    <3>2. /\ listed[c].units = Len(file[c]) /\ Units(listed[c].records) = Len(file[c])
          /\ Lined(file[c], listed[c].records)
      BY <2>2, <3>1 DEF SoloInv, Manifests, Told
    <3>3. listed[c].records \in Nat /\ file[c] \in Seq(Unit)
      BY <2>2 DEF StreamInv, TypeOK
    <3>4. file[c] = Text(EventsOf(file[c]))
      BY <3>2, <3>3, LinedIsText
    <3>. QED  BY <2>2, <3>2, <3>4 DEF Units
  <2>. QED  BY <2>1, <2>2
<1>. QED  BY <1>1, SoloAlways, PTL

-------------------------------------------------------------------------------
(* The semantic stream is a RecordLog.                                      *)

States == [c \in Calls |-> IF Guarded THEN StreamState(c) ELSE "none"]
Logs == [c \in Calls |-> IF Guarded THEN Stored(c) ELSE <<>>]
Totals == [c \in Calls |-> IF Guarded /\ listed[c] # NotListed THEN listed[c].records ELSE 0]

(* What a call has stored while it is open, when its file is closed, and    *)
(* otherwise.                                                               *)
LEMMA StoredIs ==
  ASSUME NEW c \in Calls
  PROVE  /\ c = call /\ phase \in {"run", "leave"} => Stored(c) = Kept(file[c], count, Current)
         /\ ~(c = call /\ phase \in {"run", "leave"}) => Stored(c) = EventsOf(file[c])
BY DEF Stored, Kept

(* A call without a file has stored nothing.                                *)
LEMMA NoEvents == EventsOf(<<>>) = <<>> /\ Kept(<<>>, 0, <<>>) = <<>>
<1>1. <<>> \in Seq(Unit) /\ Len(<<>>) = Units(0) /\ 0 \in Nat /\ <<>> \in Seq(Event)
      /\ Len(<<>>) = Units(0) + 0
  BY UnitsAre
<1>2. EventsOf(<<>>) = Kept(<<>>, 0, <<>>) /\ Len(Kept(<<>>, 0, <<>>)) = 0
  BY <1>1, AllEvents
<1>3. Kept(<<>>, 0, <<>>) \in Seq(Event)
  BY <1>1, KeptIs
<1>. QED  BY <1>2, <1>3, EmptySeq

(* A step that leaves what is stored, sealed and listed is none of the log. *)
LEMMA LogsStay ==
  ASSUME Guarded, kind' = kind, listed' = listed,
         \A c \in Calls : StreamState(c)' = StreamState(c),
         \A c \in Calls : Stored(c)' = Stored(c)
  PROVE  States' = States /\ Logs' = Logs /\ Totals' = Totals
<1>1. Guarded'
  BY DEF Guarded
<1>. QED  BY <1>1 DEF States, Logs, Totals

(* Of a stream that others push to, nothing is promised.                    *)
LEMMA OthersStay ==
  ASSUME ~Guarded, kind' = kind
  PROVE  States' = States /\ Logs' = Logs /\ Totals' = Totals
<1>1. ~Guarded'
  BY DEF Guarded
<1>. QED  BY <1>1 DEF States, Logs, Totals

(* What a step within a call does not change.                               *)
LEMMA StateStays ==
  ASSUME call' = call,
         \/ phase' = phase
         \/ phase \in {"run", "leave"} /\ phase' \in {"leave", "list"}
         \/ phase = "end" /\ phase' = "none",
         NEW c \in Calls
  PROVE  StreamState(c)' = StreamState(c)
BY DEF StreamState

\* The steps of RecordLog, of what is mapped to it.
Mapped == <<States, Logs, Totals>>
Opens(c) ==
  /\ States[c] = "none" /\ \A d \in Calls : States[d] \notin {"open", "failed"}
  /\ States' = [States EXCEPT ![c] = "open"] /\ UNCHANGED <<Logs, Totals>>
Appends(c) ==
  /\ States[c] = "open" /\ UNCHANGED <<States, Totals>>
  /\ \E e \in Event : Logs' = [Logs EXCEPT ![c] = Append(@, e)]
Seals(c) ==
  /\ States[c] = "open" /\ Logs' = Logs
  /\ States' = [States EXCEPT ![c] = "sealed"]
  /\ Totals' = [Totals EXCEPT ![c] = Len(Logs[c])]

(* An event is appended to the log of the open call when it is pushed,      *)
LEMMA PushAppends ==
  ASSUME StreamInv, SoloInv, Guarded, NEW t \in Threads, Push(t)
  PROVE  call \in Calls /\ Appends(call)
<1>1. /\ phase = "run" /\ phase' = "run" /\ NewEvent(t) \in Event
      /\ UNCHANGED <<kind, call, count, file, listed>>
      /\ Current' = Append(Current, NewEvent(t)) /\ Guarded'
  BY SoloPush DEF callVars, fileVars, Guarded
<1>2. call \in Calls /\ file[call] \in Seq(Unit) /\ count \in Nat /\ Current \in Seq(Event)
  BY <1>1, OpenCall, CurrentIs DEF StreamInv, TypeOK
<1>3. Len(file[call]) = Units(count) + Ahead /\ Ahead \in Nat
  BY <1>1, Constants DEF SoloInv, Contents, Ahead, StreamInv, TypeOK
<1>4. Stored(call)' = Append(Stored(call), NewEvent(t))
  <2>1. /\ Stored(call) = Kept(file[call], count, Current)
        /\ Stored(call)' = Kept(file[call], count, Append(Current, NewEvent(t)))
    BY <1>1, <1>2 DEF Stored, Kept
  <2>. QED  BY <1>1, <1>2, <1>3, <2>1, KeptAppend
<1>5. \A c \in Calls : c # call => Stored(c)' = Stored(c)
  BY <1>1 DEF Stored
<1>6. \A c \in Calls : StreamState(c)' = StreamState(c)
  BY <1>1, StateStays
<1>7. States' = States /\ Totals' = Totals
  BY <1>1, <1>6 DEF States, Totals
<1>8. Logs' = [Logs EXCEPT ![call] = Append(@, NewEvent(t))]
  <2>. DEFINE new(c) == IF c = call THEN Append(Stored(call), NewEvent(t)) ELSE Stored(c)
  <2>1. \A c \in Calls : Stored(c)' = new(c)
    BY <1>1, <1>4, <1>5
  <2>2. Logs' = [c \in Calls |-> new(c)]
    BY <1>1, <2>1 DEF Logs
  <2>. QED  BY <1>2, <2>2 DEF Logs
<1>9. States[call] = "open"
  <2>1. ~(call > call)
    BY OpenCall
  <2>. QED  BY <1>1, <1>2, <2>1 DEF States, StreamState
<1>. QED  BY <1>1, <1>2, <1>7, <1>8, <1>9 DEF Appends

(* the flush of the events and the end of the call leave the log as it is,  *)
LEMMA FlushStays ==
  ASSUME StreamInv, StreamInv', SoloInv, Guarded, NEW t \in Threads, Flush(t)
  PROVE  Mapped' = Mapped
<1>1. /\ phase \in {"run", "leave"} /\ UNCHANGED <<kind, phase, call, listed>>
      /\ \A c \in Calls : c # call => file'[c] = file[c]
  BY SoloCreate, SoloOpens, SoloWrite, SoloFinish DEF Flush, callVars
<1>2. /\ call \in Calls /\ file[call] \in Seq(Unit) /\ count \in Nat /\ Current \in Seq(Event)
      /\ file'[call] \in Seq(Unit)
  BY <1>1, OpenCall, CurrentIs DEF StreamInv, TypeOK
<1>3. \A c \in Calls : c = call => /\ Stored(c) = Kept(file[call], count, Current)
                                  /\ Stored(c)' = Kept(file'[call], count', Current')
  BY <1>1, <1>2 DEF Stored, Kept
<1>4. Len(file[call]) = Units(count) + Ahead /\ Ahead \in Nat
  BY <1>1, Constants DEF SoloInv, Contents, Ahead, StreamInv, TypeOK
<1>5. Kept(file'[call], count', Current') = Kept(file[call], count, Current)
  <2>1. CASE Create(t)
    BY <2>1, SoloCreate DEF Current
  <2>2. CASE WriteUnits(t)
    <3>1. /\ count' = count /\ Current' = Current /\ SoloInv'
          /\ \A k \in 1..Units(count) : file'[call][k] = file[call][k]
      BY <2>2, SoloWrite DEF Current
    <3>2. Len(file'[call]) = Units(count) + Ahead' /\ Ahead' \in Nat
      BY <1>1, <3>1, Constants DEF SoloInv, Contents, Ahead, StreamInv, TypeOK
    <3>3. PICK d \in Nat, e \in Nat : d = Ahead /\ e = Ahead'
      BY <1>4, <3>2
    <3>. DEFINE old == file[call]
                new == file'[call]
                stored == Current
    <3>4. /\ old \in Seq(Unit) /\ new \in Seq(Unit) /\ stored \in Seq(Event) /\ count \in Nat
          /\ Len(old) = Units(count) + d /\ Len(new) = Units(count) + e
          /\ \A k \in 1..Units(count) : new[k] = old[k]
      BY <1>2, <1>4, <3>1, <3>2, <3>3
    <3>5. Kept(new, count, stored) = Kept(old, count, stored)
      <4>. HIDE DEF old, new, stored
      <4>. QED  BY ONLY <3>3, <3>4, KeptStays
    <3>. QED  BY <3>1, <3>5
  <2>3. CASE FinishFlush(t)
    <3>1. /\ file' = file /\ Flushed(file[call], count, Current)
          /\ count' = count + Len(Current) /\ Current' = <<>>
      BY <2>3, SoloFinish
    <3>. QED  BY <1>2, <3>1, KeptFlushed
  <2>. QED  BY <2>1, <2>2, <2>3, SoloOpens DEF Flush
<1>6. \A c \in Calls : Stored(c)' = Stored(c)
  <2>1. \A c \in Calls : c # call => Stored(c)' = Stored(c)
    BY <1>1 DEF Stored
  <2>. QED  BY <1>3, <1>5, <2>1
<1>7. \A c \in Calls : StreamState(c)' = StreamState(c)
  BY <1>1, StateStays
<1>. QED  BY <1>1, <1>6, <1>7, LogsStay DEF Mapped

(* The call's own bookkeeping, apart from its end, leaves the log alone.    *)
LEMMA CallStays ==
  ASSUME StreamInv, StreamInv', SoloInv, Guarded, Begin \/ Leave \/ CloseFile \/ End
  PROVE  Mapped' = Mapped
<1>0. call \in Nat /\ Calls = 1..MaxCalls /\ MaxCalls \in Nat
  BY OpenCall
<1>1. CASE Begin
  <2>1. /\ phase = "none" /\ phase' = "begin" /\ call' = call + 1
        /\ UNCHANGED <<kind, count, file, listed>>
    BY <1>1, SoloBegin DEF fileVars
  <2>2. \A c \in Calls : Stored(c)' = Stored(c)
    BY <2>1 DEF Stored
  <2>3. ASSUME NEW c \in Calls
        PROVE  StreamState(c)' = StreamState(c)
    <3>1. CASE c > call
      BY <1>0, <2>1, <3>1 DEF StreamState
    <3>2. CASE c <= call
      <4>1. c < call' /\ ~(c > call') /\ c # call'
        BY <1>0, <2>1, <3>2
      <4>2. StreamState(c)' = "sealed"
        BY <4>1 DEF StreamState
      <4>3. StreamState(c) = "sealed"
        BY <1>0, <2>1, <3>2 DEF StreamState
      <4>. QED  BY <4>2, <4>3
    <3>. QED  BY <1>0, <3>1, <3>2
  <2>. QED  BY <2>1, <2>2, <2>3, LogsStay DEF Mapped
<1>2. CASE Leave
  <2>1. /\ phase = "run" /\ phase' = "leave" /\ Current' = Current
        /\ UNCHANGED <<kind, call, count, file, listed>>
    BY <1>2, SoloLeave DEF fileVars
  <2>2. \A c \in Calls : Stored(c)' = Stored(c)
    BY <2>1 DEF Stored
  <2>3. \A c \in Calls : StreamState(c)' = StreamState(c)
    BY <2>1, StateStays
  <2>. QED  BY <2>1, <2>2, <2>3, LogsStay DEF Mapped
<1>3. CASE CloseFile
  <2>1. /\ phase = "leave" /\ phase' = "list" /\ Current = <<>> /\ Ahead = 0
        /\ UNCHANGED <<kind, call, count, file, listed>>
    BY <1>3, SoloClose
  <2>2. call \in Calls /\ file[call] \in Seq(Unit) /\ count \in Nat /\ Units(count) \in Nat
    BY <2>1, OpenCall, UnitsAre DEF StreamInv, TypeOK
  <2>3. Len(file[call]) = Units(count)
    BY <2>1, <2>2 DEF SoloInv, Contents
  <2>4. \A c \in Calls : c = call => /\ Stored(c)' = EventsOf(file[call])
                                    /\ Stored(c) = Kept(file[call], count, <<>>)
    BY <2>1 DEF Stored, Kept
  <2>5. \A c \in Calls : c # call => Stored(c)' = Stored(c)
    BY <2>1 DEF Stored
  <2>6. \A c \in Calls : Stored(c)' = Stored(c)
    BY <2>2, <2>3, <2>4, <2>5, AllEvents
  <2>7. \A c \in Calls : StreamState(c)' = StreamState(c)
    BY <2>1, StateStays
  <2>. QED  BY <2>1, <2>6, <2>7, LogsStay DEF Mapped
<1>4. CASE End
  <2>1. phase = "end" /\ phase' = "none" /\ UNCHANGED <<kind, call, count, file, listed>>
    BY <1>4, SoloEnd DEF fileVars
  <2>2. \A c \in Calls : Stored(c)' = Stored(c)
    BY <2>1 DEF Stored
  <2>3. \A c \in Calls : StreamState(c)' = StreamState(c)
    BY <2>1, StateStays
  <2>. QED  BY <2>1, <2>2, <2>3, LogsStay DEF Mapped
<1>. QED  BY <1>1, <1>2, <1>3, <1>4

(* its manifest opens the log,                                              *)
LEMMA ManifestOpens ==
  ASSUME StreamInv, SoloInv, Guarded, BeginManifest
  PROVE  call \in Calls /\ Opens(call)
<1>1. /\ phase = "begin" /\ phase' = "run" /\ count' = 0 /\ Current' = <<>> /\ file[call] = <<>>
      /\ UNCHANGED <<kind, call, file, listed>> /\ Guarded'
  BY SoloBeginManifest DEF fileVars, Guarded
<1>2. call \in Calls /\ call \in Nat /\ Calls = 1..MaxCalls
  BY <1>1, OpenCall
<1>3. \A c \in Calls : Stored(c)' = Stored(c)
  <2>1. \A c \in Calls : c # call => Stored(c)' = Stored(c)
    BY <1>1 DEF Stored
  <2>2. \A c \in Calls : c = call => /\ Stored(c) = EventsOf(<<>>)
                                     /\ Stored(c)' = Kept(<<>>, 0, <<>>)
    BY <1>1 DEF Stored, Kept
  <2>. QED  BY <2>1, <2>2, NoEvents
<1>4. \A c \in Calls : /\ StreamState(c) = (IF c < call THEN "sealed" ELSE "none")
                       /\ StreamState(c)' = (IF c = call THEN "open" ELSE StreamState(c))
  <2>. SUFFICES ASSUME NEW c \in Calls
                PROVE  /\ StreamState(c) = (IF c < call THEN "sealed" ELSE "none")
                       /\ StreamState(c)' = (IF c = call THEN "open" ELSE StreamState(c))
    OBVIOUS
  <2>0. c \in Nat
    BY <1>2, Constants
  <2>1. CASE c < call
    <3>1. ~(c > call) /\ c # call
      BY <1>2, <2>0, <2>1
    <3>. QED  BY <1>1, <2>1, <3>1 DEF StreamState
  <2>2. CASE c = call
    <3>1. ~(c > call) /\ ~(c < call)
      BY <1>2, <2>2
    <3>. QED  BY <1>1, <2>2, <3>1 DEF StreamState
  <2>3. CASE c > call
    <3>1. c # call /\ ~(c < call)
      BY <1>2, <2>0, <2>3
    <3>. QED  BY <1>1, <2>3, <3>1 DEF StreamState
  <2>. QED  BY <1>2, <2>0, <2>1, <2>2, <2>3
<1>5. States[call] = "none" /\ \A d \in Calls : States[d] \notin {"open", "failed"}
  <2>1. ~(call < call)
    BY <1>2
  <2>2. \A c \in Calls : States[c] = StreamState(c)
    BY DEF States
  <2>3. \A c \in Calls : StreamState(c) \in {"sealed", "none"}
    BY <1>4
  <2>. QED  BY <1>2, <1>4, <2>1, <2>2, <2>3
<1>6. States' = [States EXCEPT ![call] = "open"]
  <2>. DEFINE new(c) == IF c = call THEN "open" ELSE StreamState(c)
  <2>1. \A c \in Calls : StreamState(c)' = new(c)
    BY <1>4
  <2>2. States' = [c \in Calls |-> new(c)]
    BY <1>1, <2>1 DEF States
  <2>. QED  BY <1>2, <2>2 DEF States
<1>7. Logs' = Logs /\ Totals' = Totals
  BY <1>1, <1>3 DEF Logs, Totals
<1>. QED  BY <1>2, <1>5, <1>6, <1>7 DEF Opens

(* and seals it with the exact number of events.                            *)
LEMMA ListSeals ==
  ASSUME StreamInv, SoloInv, Guarded, ListFile
  PROVE  call \in Calls /\ Seals(call)
<1>1. /\ phase = "list" /\ phase' = "end" /\ UNCHANGED <<kind, call, count, file, Current>>
      /\ Len(file[call]) = Units(count) /\ listed[call] = NotListed
      /\ \/ listed' = listed /\ count = 0
         \/ listed' = [listed EXCEPT ![call] = [records |-> count, units |-> Len(file[call])]]
      /\ Guarded'
  BY SoloList DEF fileVars, Guarded, Current
<1>2. call \in Calls /\ call \in Nat /\ Calls = 1..MaxCalls /\ count \in Nat
      /\ file[call] \in Seq(Unit)
  BY <1>1, OpenCall DEF StreamInv, TypeOK
<1>3. \A c \in Calls : Stored(c)' = Stored(c)
  BY <1>1 DEF Stored
<1>4. Logs' = Logs
  BY <1>1, <1>3 DEF Logs
<1>5. Len(Logs[call]) = count
  <2>1. Stored(call) = EventsOf(file[call])
    BY <1>1 DEF Stored
  <2>2. Len(Stored(call)) = count
    BY <1>1, <1>2, <2>1, AllEvents
  <2>. QED  BY <1>2, <2>2 DEF Logs
<1>6. StreamState(call) = "open" /\ States[call] = "open"
  <2>1. ~(call > call)
    BY <1>2
  <2>2. StreamState(call) = "open"
    BY <1>1, <2>1 DEF StreamState
  <2>. QED  BY <1>2, <2>2 DEF States
<1>7. \A c \in Calls : StreamState(c)' = (IF c = call THEN "sealed" ELSE StreamState(c))
  <2>. SUFFICES ASSUME NEW c \in Calls
                PROVE  StreamState(c)' = (IF c = call THEN "sealed" ELSE StreamState(c))
    OBVIOUS
  <2>1. CASE c # call
    <3>1. (c < call /\ ~(c > call)) \/ (c > call /\ ~(c < call))
      BY <1>2, <2>1, Constants
    <3>. QED  BY <1>1, <2>1, <3>1 DEF StreamState
  <2>2. CASE c = call
    <3>1. ~(c > call)
      BY <1>2, <2>2
    <3>. QED  BY <1>1, <2>2, <3>1 DEF StreamState
  <2>. QED  BY <2>1, <2>2
<1>8. States' = [States EXCEPT ![call] = "sealed"]
  <2>. DEFINE new(c) == IF c = call THEN "sealed" ELSE StreamState(c)
  <2>1. \A c \in Calls : StreamState(c)' = new(c)
    BY <1>7
  <2>2. States' = [c \in Calls |-> new(c)]
    BY <1>1, <2>1 DEF States
  <2>. QED  BY <1>2, <2>2 DEF States
<1>9. Totals' = [Totals EXCEPT ![call] = count]
  <2>. DEFINE new(c) == IF c = call THEN count ELSE Totals[c]
  <2>0. Totals[call] = 0
    BY <1>1, <1>2 DEF Totals
  <2>1. ASSUME NEW c \in Calls
        PROVE  (IF listed'[c] # NotListed THEN listed'[c].records ELSE 0) = new(c)
    <3>1. CASE listed' = listed /\ count = 0
      BY <2>0, <3>1 DEF Totals
    <3>2. CASE listed' = [listed EXCEPT ![call] = [records |-> count, units |-> Len(file[call])]]
      <4>1. CASE c = call
        <5>1. listed'[call] = [records |-> count, units |-> Len(file[call])]
          BY <1>2, <3>2 DEF StreamInv, TypeOK
        <5>2. listed'[call].records = count
          BY <5>1
        <5>3. NotListed.records = -1
          BY DEF NotListed
        <5>4. listed'[call] # NotListed
          BY <1>2, <5>2, <5>3
        <5>. QED  BY <4>1, <5>2, <5>4
      <4>2. CASE c # call
        <5>1. listed'[c] = listed[c]
          BY <3>2, <4>2 DEF StreamInv, TypeOK
        <5>. QED  BY <4>2, <5>1 DEF Totals
      <4>. QED  BY <4>1, <4>2
    <3>. QED  BY <1>1, <3>1, <3>2
  <2>2. Totals' = [c \in Calls |-> new(c)]
    BY <1>1, <2>1 DEF Totals
  <2>. QED  BY <1>2, <2>2 DEF Totals
<1>. QED  BY <1>2, <1>4, <1>5, <1>6, <1>8, <1>9 DEF Seals

(* Every step of the semantic stream is a step of RecordLog or none.        *)
LEMMA StreamLogStep ==
  ASSUME StreamInv, StreamInv', Guarded => SoloInv, [Next]_vars
  PROVE  (\E c \in Calls : Opens(c) \/ Appends(c) \/ Seals(c)) \/ Mapped' = Mapped
<1>1. CASE ~Guarded
  <2>1. kind' = kind
    BY DEF vars, callVars, Next, Push, Flush, Create, OpenFails, WriteUnits, FinishFlush, Begin,
           CallStep, BeginManifest, Leave, CloseFile, ListFile, End
  <2>. QED  BY <1>1, <2>1, OthersStay DEF Mapped
<1>2. CASE Guarded /\ UNCHANGED vars
  <2>1. UNCHANGED <<kind, phase, call, arrays, count, file, listed>>
    BY <1>2 DEF vars, callVars, fileVars
  <2>2. \A c \in Calls : Stored(c)' = Stored(c)
    BY <2>1 DEF Stored, Current
  <2>3. \A c \in Calls : StreamState(c)' = StreamState(c)
    BY <2>1, StateStays
  <2>. QED  BY <1>2, <2>1, <2>2, <2>3, LogsStay DEF Mapped
<1>3. CASE Guarded /\ Next
  <2>1. CASE \E t \in Threads : Push(t) \/ Flush(t)
    BY <1>3, <2>1, PushAppends, FlushStays
  <2>2. CASE BeginManifest
    BY <1>3, <2>2, ManifestOpens
  <2>3. CASE ListFile
    BY <1>3, <2>3, ListSeals
  <2>4. CASE Begin \/ Leave \/ CloseFile \/ End
    BY <1>3, <2>4, CallStays
  <2>. QED  BY <1>3, <2>1, <2>2, <2>3, <2>4 DEF Next, CallStep
<1>. QED  BY <1>1, <1>2, <1>3

(* The semantic stream implements RecordLog: what a hook pushes is appended *)
(* to the log of the open call, no flush, short write or new file loses,    *)
(* repeats or reorders an event, and the manifest publishes the exact       *)
(* number (semantic.ts, manifest.ts persistEvents and sealManifest).        *)
THEOREM StreamImplementsRecordLog == Spec => ImplementsRecordLog
<1>1. Init => Log!LogInit
  <2>. SUFFICES ASSUME Init PROVE Log!LogInit
    OBVIOUS
  <2>1. call = 0 /\ phase = "none" /\ \A c \in Calls : file[c] = <<>> /\ listed[c] = NotListed
    BY DEF Init
  <2>2. \A c \in Calls : c > call /\ c # call /\ ~(c < call)
    BY <2>1, Constants
  <2>3. \A c \in Calls : StreamState(c) = "none"
    BY <2>2 DEF StreamState
  <2>4. \A c \in Calls : Stored(c) = <<>>
    BY <2>1, NoEvents DEF Stored
  <2>. QED  BY <2>1, <2>3, <2>4 DEF Log!LogInit
<1>2. StreamInv /\ StreamInv' /\ (Guarded => SoloInv) /\ [Next]_vars
        => [Log!LogNext]_(Log!logVars)
  <2>. SUFFICES ASSUME StreamInv, StreamInv', Guarded => SoloInv, [Next]_vars
                PROVE  Log!LogNext \/ UNCHANGED Log!logVars
    OBVIOUS
  <2>1. CASE Mapped' = Mapped
    BY <2>1 DEF Mapped, States, Logs, Totals, Log!logVars
  <2>2. ASSUME NEW c \in Calls, Opens(c) \/ Appends(c) \/ Seals(c)
        PROVE  Log!LogNext
    <3>1. CASE Opens(c)
      BY <3>1 DEF Opens, States, Logs, Totals, Log!Open, Log!LogNext
    <3>2. CASE Appends(c)
      BY <3>2 DEF Appends, States, Logs, Totals, Log!Append1, Log!LogNext
    <3>3. CASE Seals(c)
      BY <3>3 DEF Seals, States, Logs, Totals, Log!Seal, Log!LogNext
    <3>. QED  BY <2>2, <3>1, <3>2, <3>3
  <2>. QED  BY <2>1, <2>2, StreamLogStep
<1>. QED  BY <1>1, <1>2, SoloAlways, PTL DEF Spec, ImplementsRecordLog, Log!LogSpec

(* The file of a call is what its manifest says, keeps every batch in its   *)
(* order and, for two threads in one call, every thread in its order        *)
(* (manifest.ts persistEvents, sealManifest).                               *)
THEOREM EventFilesTrue == Spec => []StreamTrue
<1>. QED  BY EventStreamTypes, ManifestsTellTruth, BatchesKeepOrder, ThreadsKeepOrder, PTL
          DEF StreamTrue
==============================================================================
