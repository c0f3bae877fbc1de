----------------------------- MODULE EventStream ------------------------------
(***************************************************************************)
(* One event stream of a call (semantic, fork, JNI, worker or external     *)
(* write events) on its way from a hook to the call manifest:              *)
(*   tracer/src/hooks/fork_monitor.ts, tracer/src/sidecar/semantic.ts      *)
(*                                      push, flush                        *)
(*   tracer/src/transport/manifest.ts   persistEvents, sealManifest        *)
(*   tracer/src/core/native_io.ts       NativeFile, write_all              *)
(*                                                                         *)
(* A hook pushes to an array that STATE refers to; a full array is written *)
(* to a file that the first flush of a call creates, and is replaced AFTER *)
(* it was written.  open, write, fsync and close are native calls that     *)
(* release the JavaScript lock, so hooks of other threads run inside a     *)
(* flush: every native call is a step of its own, and what the code does   *)
(* between two of them is one step.                                        *)
(*                                                                         *)
(* A file is a sequence of units, LineUnits of them to an event, so that a *)
(* short write may cut a line.  A call that fails is CaptureSession's.     *)
(***************************************************************************)
EXTENDS Integers, Sequences, FiniteSets

CONSTANTS Threads,     \* threads whose hooks push to the stream
          Primary,     \* the thread that enters and leaves the target function
          Kinds,       \* the kinds of stream, with the bounds they are run in
          Batch,       \* events in a batch: 128 (4096 external writes)
          MaxEvents,   \* bound: events a thread pushes
          MaxCalls,    \* opts.maxCalls
          LineUnits    \* bound: units a line is cut into by short writes

ASSUME StreamAssumption ==
  /\ Primary \in Threads /\ IsFiniteSet(Threads)
  /\ Kinds \subseteq [guarded : BOOLEAN, pushers : SUBSET Threads,
                      events : 0..MaxEvents, calls : 1..MaxCalls]
  /\ Batch \in Nat \ {0} /\ MaxEvents \in Nat
  /\ MaxCalls \in Nat \ {0} /\ LineUnits \in Nat \ {0}

\* The libc and JNI hooks of the semantic stream skip every thread but the primary one
\* (semantic.ts, jni_vtable.ts), and the code of a worker is compiled without its callback
\* (cmodule.ts buildTraceRingCModule).
ASSUME GuardedAssumption == \A k \in Kinds : k.guarded => k.pushers \subseteq {Primary}

Calls == 1..MaxCalls
Event == [by : Threads, n : 1..MaxEvents]
Unit  == [ev : Event, u : 0..(LineUnits - 1)]
NotListed == [records |-> -1, units |-> -1]
Idle == [arr |-> 0, text |-> <<>>, done |-> 0, file |-> 0, manifest |-> 0]

VARIABLES
  kind,      \* the stream looked at; it does not change
  phase,     \* the call: "none" is outside of any capture window
  call,      \* STATE.callIdx
  manifest,  \* beginManifest calls so far: which `streams` object is current
  arrays,    \* every array STATE.forkEvents referred to; the last is current
  stream,    \* streams[name]: the call whose file it is, 0 for none
  count,     \* counts[name]
  file,      \* contents of the stream's file of each call
  exists,    \* calls whose file has been created
  fdClosed,  \* calls whose file descriptor is closed
  written,   \* state[2] of each file: the units write_all has counted
  listed,    \* what the sealed manifest of a call says of the file
  pc, job,   \* where the flush of a thread is, and its locals
  pushed     \* events each thread has pushed

callVars == <<kind, phase, call, manifest>>
fileVars == <<file, exists, fdClosed, written>>
vars == <<callVars, arrays, stream, count, fileVars, listed, pc, job, pushed>>

\* Pushes happen in a capture window only, and a call starts with an empty
\* array: the semantic stream.
Guarded == kind.guarded

Current == arrays[Len(arrays)]
Window == phase # "none"       \* fnEntered || preEntryActive

\* Every value has its type.
TypeOK ==
  /\ kind \in Kinds
  /\ phase \in {"none", "begin", "run", "leave", "list", "end"}
  /\ call \in 0..MaxCalls /\ manifest \in 0..MaxCalls
  /\ arrays \in Seq(Seq(Event))
  /\ stream \in 0..MaxCalls
  /\ count \in Nat
  /\ file \in [Calls -> Seq(Unit)]
  /\ exists \subseteq Calls /\ fdClosed \subseteq exists
  /\ written \in [Calls -> Nat]
  /\ listed \in [Calls -> [records : Nat, units : Nat] \cup {NotListed}]
  /\ pc \in [Threads -> {"out", "open", "retry", "write"}]
  /\ job \in [Threads -> [arr : Nat, text : Seq(Unit), done : Nat,
                          file : 0..MaxCalls, manifest : 0..MaxCalls]]
  /\ pushed \in [Threads -> 0..MaxEvents]

Init ==
  /\ kind \in Kinds
  /\ phase = "none" /\ call = 0 /\ manifest = 0
  /\ arrays = << <<>> >>
  /\ stream = 0 /\ count = 0
  /\ file = [c \in Calls |-> <<>>]
  /\ exists = {} /\ fdClosed = {}
  /\ written = [c \in Calls |-> 0]
  /\ listed = [c \in Calls |-> NotListed]
  /\ pc = [t \in Threads |-> "out"]
  /\ job = [t \in Threads |-> Idle]
  /\ pushed = [t \in Threads |-> 0]

-------------------------------------------------------------------------------
(* persistEvents, and the flush around it *)

\* The lines of an array, rendered when it is handed to write_all.
Text(events) ==
  [k \in 1..(Len(events) * LineUnits) |->
     [ev |-> events[((k - 1) \div LineUnits) + 1], u |-> (k - 1) % LineUnits]]

\* Thread t persists array number arr, which holds events.  No manifest yet:
\* the events are dropped with their array.  A closed file: write throws, the
\* hook ends and the array stays.  Otherwise on to open or to write_all.
Persist(t, arr, events) ==
  \/ /\ manifest = 0
     /\ arrays' = Append(arrays, <<>>)
     /\ UNCHANGED <<pc, job>>
  \/ /\ manifest # 0 /\ stream \in fdClosed
     /\ arrays' = [arrays EXCEPT ![arr] = events]
     /\ UNCHANGED <<pc, job>>
  \/ /\ manifest # 0 /\ stream \notin fdClosed
     /\ arrays' = [arrays EXCEPT ![arr] = events]
     /\ pc' = [pc EXCEPT ![t] = IF stream = 0 THEN "open" ELSE "write"]
     /\ job' = [job EXCEPT ![t] =
          [arr |-> arr, text |-> IF stream = 0 THEN <<>> ELSE Text(events), done |-> 0,
           file |-> IF stream = 0 THEN call ELSE stream, manifest |-> manifest]]

\* Mutant: the new file is used once and forgotten.
NeverRegisters(t) == FALSE

\* The new NativeFile is stored in the `streams` object of the flush's start.
Registers(t) == job[t].manifest = manifest

\* NativeFile opens with O_EXCL: this thread creates the file ...
Create(t) ==
  /\ pc[t] = "open" /\ job[t].file \notin exists
  /\ exists' = exists \cup {job[t].file}
  /\ stream' = IF Registers(t) THEN job[t].file ELSE stream
  /\ job' = [job EXCEPT ![t].text = Text(arrays[job[t].arr])]
  /\ pc' = [pc EXCEPT ![t] = "write"]
  /\ UNCHANGED <<callVars, arrays, count, file, fdClosed, written, listed, pushed>>

\* ... or finds that it exists: the constructor throws outside of a window, and
\* in a window open_retry tries the same path for ever.
OpenFails(t) ==
  /\ pc[t] = "open" /\ job[t].file \in exists
  /\ pc' = [pc EXCEPT ![t] = IF Window THEN "retry" ELSE "out"]
  /\ UNCHANGED <<callVars, arrays, stream, count, fileVars, listed, job, pushed>>

\* Mutant: the file of a sealed call still takes writes.
AlwaysWritable(t) == TRUE

\* The descriptor a thread writes to is still open.
Writable(t) == job[t].file \notin fdClosed

\* write_all: one write(2) of n units, possibly short.  A failed attempt changes
\* nothing but the error counters.  state[2] += n is a plain read and write, so
\* one of two concurrent updates may be lost.
WriteUnits(t) ==
  LET j == job[t] IN
  /\ pc[t] = "write" /\ j.done < Len(j.text) /\ Writable(t)
  /\ \E n \in 1..(Len(j.text) - j.done) :
       /\ file' = [file EXCEPT ![j.file] = @ \o SubSeq(j.text, j.done + 1, j.done + n)]
       /\ job' = [job EXCEPT ![t].done = @ + n]
       /\ \/ written' = [written EXCEPT ![j.file] = @ + n]
          \/ /\ \E u \in Threads \ {t} : pc[u] = "write" /\ job[u].file = j.file
             /\ UNCHANGED written
  /\ UNCHANGED <<callVars, arrays, stream, count, exists, fdClosed, listed, pc, pushed>>

\* Mutant: every flush counts a full batch, also the last one of a call.
CountBatch(t) == count + Batch

\* counts[name] after a flush: the length of the array NOW.
CountAfter(t) == count + Len(arrays[job[t].arr])

\* Mutant: the written array stays current.
ArrayStays(t) == arrays

\* The arrays when a flush is done: STATE.forkEvents = [].
ArraysAfter(t) == Append(arrays, <<>>)

\* write_all returns: count, then let STATE refer to a new array.
FinishFlush(t) ==
  /\ pc[t] = "write" /\ job[t].done = Len(job[t].text)
  /\ count' = CountAfter(t)
  /\ arrays' = ArraysAfter(t)
  /\ pc' = [pc EXCEPT ![t] = "out"]
  /\ job' = [job EXCEPT ![t] = Idle]
  /\ UNCHANGED <<callVars, stream, fileVars, listed, pushed>>

-------------------------------------------------------------------------------
(* The hooks *)

\* Is an array of this length handed to persistEvents?
Flushes(len) == len >= Batch

\* Thread t's hook pushes an event; a full array is flushed by the same hook.
Push(t) ==
  LET e == [by |-> t, n |-> pushed[t] + 1]
      events == Append(Current, e)
      arr == Len(arrays)
  IN /\ pc[t] = "out" /\ t \in kind.pushers /\ pushed[t] < kind.events
     /\ Guarded => Window
     /\ t = Primary => phase \in {"none", "run"}
     /\ pushed' = [pushed EXCEPT ![t] = @ + 1]
     /\ IF Flushes(Len(events))
          THEN Persist(t, arr, events)
          ELSE /\ arrays' = [arrays EXCEPT ![arr] = events]
               /\ UNCHANGED <<pc, job>>
     /\ UNCHANGED <<callVars, stream, count, fileVars, listed>>

-------------------------------------------------------------------------------
(* The primary thread: the call around the events *)

\* beginCaptureSession: the window opens.  Only the semantic stream starts with
\* a new array.
Begin ==
  /\ phase = "none" /\ call < kind.calls /\ pc[Primary] = "out"
  /\ phase' = "begin" /\ call' = call + 1
  /\ arrays' = IF Guarded THEN Append(arrays, <<>>) ELSE arrays
  /\ UNCHANGED <<kind, manifest, stream, count, fileVars, listed, pc, job, pushed>>

\* beginManifest: no streams, no counts.
BeginManifest ==
  /\ phase = "begin"
  /\ phase' = "run" /\ manifest' = manifest + 1
  /\ stream' = 0 /\ count' = 0
  /\ UNCHANGED <<kind, call, arrays, fileVars, listed, pc, job, pushed>>

\* onLeave flushes what is left in the current array.
Leave ==
  /\ phase = "run" /\ pc[Primary] = "out"
  /\ phase' = "leave"
  /\ IF Current = <<>> THEN UNCHANGED <<arrays, pc, job>>
                       ELSE Persist(Primary, Len(arrays), Current)
  /\ UNCHANGED <<kind, call, manifest, stream, count, fileVars, listed, pushed>>

\* sealManifest closes the descriptor of the stream, if it has a file ...
CloseFile ==
  /\ phase = "leave" /\ pc[Primary] = "out"
  /\ phase' = "list"
  /\ fdClosed' = IF stream = 0 THEN fdClosed ELSE fdClosed \cup {stream}
  /\ UNCHANGED <<kind, call, manifest, arrays, stream, count, file, exists, written, listed,
                 pc, job, pushed>>

\* ... and then reads the byte and record counts for the manifest.  A file that
\* was created in between is not among the streams that the loop visits.
ListFile ==
  /\ phase = "list"
  /\ phase' = "end"
  /\ listed' = IF stream \notin fdClosed THEN listed
                 ELSE [listed EXCEPT ![call] = [records |-> count, units |-> written[stream]]]
  /\ UNCHANGED <<kind, call, manifest, arrays, stream, count, fileVars, pc, job, pushed>>

\* The manifest is published and the window closes.
End ==
  /\ phase = "end"
  /\ phase' = "none"
  /\ UNCHANGED <<kind, call, manifest, arrays, stream, count, fileVars, listed, pc, job, pushed>>

Flush(t) == Create(t) \/ OpenFails(t) \/ WriteUnits(t) \/ FinishFlush(t)
CallStep == BeginManifest \/ Leave \/ CloseFile \/ ListFile \/ End

Next ==
  \/ \E t \in Threads : Push(t) \/ Flush(t)
  \/ Begin \/ CallStep

Spec == Init /\ [][Next]_vars

\* The disk takes the data in the end, and the thread that runs a hook goes on.
\* Nothing makes a hook fire or the target function be called; Begin and Push
\* have no fairness.
FairSpec ==
  /\ Spec
  /\ \A t \in Threads : WF_vars(Flush(t))
  /\ WF_vars(CallStep)

-------------------------------------------------------------------------------
(* Properties *)

\* The events a sequence of units spells out, line by line.
EventsOf(units) ==
  [k \in 1..(Len(units) \div LineUnits) |-> units[k * LineUnits].ev]

\* The sealed manifest tells the truth about the file: it holds exactly as many
\* bytes and whole, untorn lines as the manifest says, although the byte count
\* is kept by write_all, the record count by persistEvents, and the contents
\* come from several flushes and short writes.
ManifestTrue ==
  Guarded => \A c \in Calls :
    IF listed[c] = NotListed
      THEN c < call => file[c] = <<>>
      ELSE /\ listed[c].units = Len(file[c])
           /\ listed[c].records * LineUnits = Len(file[c])
           /\ file[c] = Text(EventsOf(file[c]))

\* The stream of the call that is open: what finished flushes have put into the
\* file, then the current array.
Stored(c) ==
  IF c = call /\ phase \in {"run", "leave"}
    THEN SubSeq(EventsOf(file[c]), 1, count) \o Current
    ELSE EventsOf(file[c])

StreamState(c) ==
  CASE c > call \/ (c = call /\ phase = "begin")            -> "none"
    [] c = call /\ phase \in {"run", "leave", "list"}       -> "open"
    [] c < call \/ (c = call /\ phase \in {"end", "none"})  -> "sealed"

\* The semantic stream, which one thread pushes to, is a RecordLog: what a hook
\* pushes is appended, no flush, short write or new file loses, repeats or reorders an
\* event, and the manifest publishes the exact number.
Log == INSTANCE RecordLog
         WITH Recs  <- Event,
              state <- [c \in Calls |-> IF Guarded THEN StreamState(c) ELSE "none"],
              log   <- [c \in Calls |-> IF Guarded THEN Stored(c) ELSE <<>>],
              total <- [c \in Calls |-> IF Guarded /\ listed[c] # NotListed
                                          THEN listed[c].records ELSE 0]
ImplementsRecordLog == Log!LogSpec

\* A hook of the semantic stream that flushes returns to the program it interrupted, so the target
\* function gets on (persistEvents, open_retry, write_all).
HookReturns == \A t \in Threads : (Guarded /\ pc[t] # "out") ~> pc[t] = "out"

\* Whatever races: a file that a sealed manifest lists never changes again.
ListedIsFinal ==
  [][\A c \in Calls : listed[c] # NotListed =>
        file'[c] = file[c] /\ listed'[c] = listed[c]]_vars

\* Nothing of a text is among the units before all that is in front of it in the text.
InOrder(units, text) ==
  \A k \in DOMAIN units, m \in DOMAIN text :
    units[k] = text[m] => \A i \in 1..(m - 1) : \E h \in 1..(k - 1) : units[h] = text[i]

\* Whatever races: a batch gets into a file in its order, although several hooks may flush its
\* array, each as long as it was when it looked (push, flush, persistEvents).
BatchOrder == \A c \in Calls, a \in DOMAIN arrays : InOrder(file[c], Text(arrays[a]))

\* Two threads in one call: in a file, two events of one thread appear for the first time in
\* the order in which that thread pushed them, although batches of both hooks are written twice
\* and interleave.  Of a third thread, or of a flush that outlives its call, that is not so: it
\* puts away an array that others have begun to write, and what is pushed next may overtake them.
FirstAt(units, k) == units[k].u = 0 /\ \A h \in 1..(k - 1) : units[h] # units[k]
TwoThreads == kind.calls = 1 /\ \E t \in Threads : kind.pushers \subseteq {Primary, t}
ThreadOrder ==
  TwoThreads => \A c \in Calls : \A k \in 1..Len(file[c]) : \A i \in 1..(k - 1) :
    (/\ FirstAt(file[c], i) /\ FirstAt(file[c], k)
     /\ file[c][i].ev.by = file[c][k].ev.by)
      => file[c][i].ev.n < file[c][k].ev.n

\* The file of a call is what its manifest says, and keeps the order of a batch and of a thread
\* (persistEvents, sealManifest).
StreamTrue == TypeOK /\ ManifestTrue /\ BatchOrder /\ ThreadOrder
===============================================================================
