---------------------------- MODULE CaptureSession ----------------------------
(***************************************************************************)
(* The life of a capture session inside the target process:                *)
(*   tracer/src/agent.ts                entry and exit callbacks of the    *)
(*                                      target function and of JNI_OnLoad, *)
(*                                      failCapture, retireCapture,        *)
(*                                      startCapture, stopCapture          *)
(*   tracer/src/transport/manifest.ts   call and session manifests         *)
(*   tracemiku_capture.py               the host's wait loop               *)
(*                                                                         *)
(* Callbacks run under one JavaScript lock, but every call of a native     *)
(* function (open, write, fsync, rename, a flush) releases it, so another  *)
(* thread's callback or an RPC runs in between.  One action is the code    *)
(* from one such call to the next.                                         *)
(***************************************************************************)
EXTENDS Naturals, FiniteSets

CONSTANTS Threads,       \* threads of the target process
          Rpc,           \* the thread of the control bridge
          NoThread,
          MaxCalls,      \* opts.maxCalls
          MaxRuns,       \* bound: captured or refused runs of the function per thread
          MaxInits,      \* runs of JNI_OnLoad with --trace-init; 0 without it
          Overlap,       \* may an entry or a stop fall into the opening of the
                         \* initialisation window?
          MayFail,       \* may the native file operations throw?
          MayInterrupt   \* may the host's user press Ctrl+C?

ASSUME SessionAssumption ==
  /\ Rpc \notin Threads /\ NoThread \notin Threads \cup {Rpc}
  /\ MaxCalls \in Nat \ {0} /\ MaxRuns \in Nat /\ MaxInits \in Nat
  /\ Overlap \in BOOLEAN /\ MayFail \in BOOLEAN /\ MayInterrupt \in BOOLEAN

Actors == Threads \cup {Rpc}
Calls  == 1..MaxCalls

VARIABLES
  \* agent.ts and STATE
  accepting, fnEntered, preEntry, finalized, callIdx, primary,
  fatal,      \* fatalError # null
  retired, disposed, completed,
  \* Stalker and the native writer
  followed,   \* threads Stalker follows
  traceFile,  \* the call STATE.traceFile belongs to, 0 for null
  \* manifest.ts
  manifest,   \* the object: its call (0 for null) and state
  calls,      \* the list of call manifests
  callFile,   \* call_N.json: its state and which actor sealed it
  session,    \* session.json: its state and the calls it lists
  \* control flow
  pc,         \* where each actor is in a callback
  job,        \* locals of that callback: the call, and the state it publishes
  runs, inits,
  host        \* the host: "waiting", "stop", "raised" or "gone"

agentVars == <<accepting, fnEntered, preEntry, finalized, callIdx, primary>>
endVars   == <<fatal, retired, disposed, completed>>
traceVars == <<followed, traceFile>>
fileVars  == <<manifest, calls, callFile, session>>
vars == <<agentVars, endVars, traceVars, fileVars, pc, job, runs, inits, host>>

NoFile == [state |-> "none", by |-> NoThread]

PCs == {"out",
        "open", "begin_call", "begin_session", "follow",          \* beginCaptureSession
        "body", "init_body",                                      \* target code
        "flush", "close", "seal", "seal_call", "seal_session", "end",
        "stop_publish", "stop_end",
        "fail_close", "fail_publish"}

Manifest == [call : 0..MaxCalls, state : {"none", "CAPTURING", "SEALED"}]
CallFile == [state : {"none", "CAPTURING", "SEALED"}, by : Actors \cup {NoThread}]
Session  == [state : {"READY", "CAPTURING", "WAITING", "SEALED", "FAILED", "STOPPED"},
             calls : SUBSET Calls]
Job      == [kind : {"fn", "init", "stop"}, call : 0..MaxCalls,
             state : {"none", "WAITING", "SEALED", "STOPPED"}]

TypeOK ==
  /\ accepting \in BOOLEAN /\ fnEntered \in BOOLEAN /\ preEntry \in BOOLEAN
  /\ finalized \in BOOLEAN /\ fatal \in BOOLEAN /\ retired \in BOOLEAN /\ disposed \in BOOLEAN
  /\ callIdx \in 0..MaxCalls /\ completed \in 0..MaxCalls
  /\ primary \in Actors \cup {NoThread}
  /\ followed \subseteq Threads /\ traceFile \in 0..MaxCalls
  /\ manifest \in Manifest /\ calls \subseteq Calls
  /\ callFile \in [Calls -> CallFile] /\ session \in Session
  /\ pc \in [Actors -> PCs] /\ job \in [Actors -> Job]
  /\ runs \in [Threads -> 0..MaxRuns] /\ inits \in 0..MaxInits
  /\ host \in {"waiting", "stop", "raised", "gone"}

\* prepareSpool has published READY and startCapture has been called.
Init ==
  /\ accepting = TRUE
  /\ fnEntered = FALSE /\ preEntry = FALSE /\ finalized = FALSE
  /\ callIdx = 0 /\ primary = NoThread
  /\ fatal = FALSE /\ retired = FALSE /\ disposed = FALSE /\ completed = 0
  /\ followed = {} /\ traceFile = 0
  /\ manifest = [call |-> 0, state |-> "none"]
  /\ calls = {}
  /\ callFile = [c \in Calls |-> NoFile]
  /\ session = [state |-> "READY", calls |-> {}]
  /\ pc = [a \in Actors |-> "out"]
  /\ job = [a \in Actors |-> [kind |-> "fn", call |-> 0, state |-> "none"]]
  /\ runs = [t \in Threads |-> 0] /\ inits = 0
  /\ host = "waiting"

-------------------------------------------------------------------------------
Goto(a, l) == pc' = [pc EXCEPT ![a] = l]

Opening == {"open", "begin_call", "begin_session", "follow"}

\* An initialisation window is being opened, and the instance says that nothing
\* else may happen meanwhile.
Exclusive == ~Overlap /\ \E a \in Actors : pc[a] \in Opening /\ job[a].kind = "init"

\* beginCaptureSession up to openTraceFile.
Begin(t, kind) ==
  /\ finalized' = FALSE
  /\ callIdx' = callIdx + 1
  /\ primary' = t
  /\ preEntry' = (kind = "init")
  /\ fnEntered' = (kind = "fn")
  /\ job' = [job EXCEPT ![t] = [kind |-> kind, call |-> callIdx + 1, state |-> "none"]]
  /\ Goto(t, "open")
  /\ UNCHANGED <<accepting, endVars, traceVars, fileVars>>

HandOver(t) == (followed \ {primary}) \cup {t}

\* onEnter inside an initialisation window: the window's call goes on with this
\* thread, the thread that had opened it is unfollowed.
JoinWindow(t) ==
  /\ fnEntered' = TRUE
  /\ finalized' = FALSE
  /\ primary' = t
  /\ followed' = HandOver(t)
  /\ job' = [job EXCEPT ![t] = [kind |-> "fn", call |-> callIdx, state |-> "none"]]
  /\ Goto(t, "body")
  /\ UNCHANGED <<accepting, preEntry, callIdx, endVars, traceFile, fileVars>>

\* Mutant of Admits: a second entry is not refused.
AdmitsReentry == accepting /\ (callIdx < MaxCalls \/ preEntry)

\* onEnter of the target function; otherwise the run is skipped and changes nothing.
Admits == accepting /\ (callIdx < MaxCalls \/ preEntry) /\ ~fnEntered

Enter(t) ==
  /\ pc[t] = "out" /\ runs[t] < MaxRuns
  /\ Admits /\ ~Exclusive
  /\ runs' = [runs EXCEPT ![t] = @ + 1]
  /\ IF preEntry THEN JoinWindow(t) ELSE Begin(t, "fn")
  /\ UNCHANGED <<inits, host>>

\* onEnter of JNI_OnLoad.
EnterInit(t) ==
  /\ pc[t] = "out" /\ inits < MaxInits
  /\ accepting /\ ~fnEntered /\ (callIdx = 0 \/ preEntry) /\ ~Exclusive
  /\ inits' = inits + 1
  /\ IF preEntry
     THEN /\ primary' = t
          /\ followed' = HandOver(t)
          /\ job' = [job EXCEPT ![t] = [kind |-> "init", call |-> callIdx, state |-> "none"]]
          /\ Goto(t, "init_body")
          /\ UNCHANGED <<accepting, fnEntered, preEntry, finalized, callIdx, endVars,
                         traceFile, fileVars>>
     ELSE Begin(t, "init")
  /\ UNCHANGED <<runs, host>>

\* openTraceFile, then the manifest object.
OpenTrace(t) ==
  /\ pc[t] = "open"
  /\ traceFile' = callIdx
  /\ manifest' = [call |-> callIdx, state |-> "CAPTURING"]
  /\ Goto(t, "begin_call")
  /\ UNCHANGED <<agentVars, endVars, followed, calls, callFile, session, job, runs, inits, host>>

\* What atomicJson has renamed into place when it returns, at each place that
\* calls it; call_N.json shows the object as it is when it is written.
CallRenamed(a) ==
  CASE pc[a] = "begin_call" ->
         [callFile EXCEPT ![job[a].call] = [state |-> manifest.state, by |-> NoThread]]
    [] pc[a] = "seal_call" ->
         [callFile EXCEPT ![callIdx] = [state |-> "SEALED", by |-> a]]
    [] OTHER -> callFile

SessionRenamed(a) ==
  CASE pc[a] = "begin_session" -> [state |-> "CAPTURING", calls |-> calls]
    [] pc[a] \in {"seal_session", "stop_publish"} -> [state |-> job[a].state, calls |-> calls]
    [] pc[a] = "fail_publish" -> [state |-> "FAILED", calls |-> calls]
    [] OTHER -> session

BeginCall(t) ==
  /\ pc[t] = "begin_call"
  /\ callFile' = CallRenamed(t)
  /\ calls' = calls \cup {job[t].call}
  /\ Goto(t, "begin_session")
  /\ UNCHANGED <<agentVars, endVars, traceVars, manifest, session, job, runs, inits, host>>

BeginSession(t) ==
  /\ pc[t] = "begin_session"
  /\ session' = SessionRenamed(t)
  /\ Goto(t, "follow")
  /\ UNCHANGED <<agentVars, endVars, traceVars, manifest, calls, callFile, job, runs, inits, host>>

\* Stalker.follow; the callback returns into the target code.
FollowThread(t) ==
  /\ pc[t] = "follow"
  /\ followed' = followed \cup {t}
  /\ Goto(t, IF job[t].kind = "init" THEN "init_body" ELSE "body")
  /\ UNCHANGED <<agentVars, endVars, traceFile, fileVars, job, runs, inits, host>>

Unfollowed(t) == followed \ {t}

\* onLeave of JNI_OnLoad: nothing is recorded until the target function runs.
LeaveInit(t) ==
  /\ pc[t] = "init_body"
  /\ followed' = IF preEntry /\ ~fnEntered /\ primary = t THEN Unfollowed(t) ELSE followed
  /\ Goto(t, "out")
  /\ UNCHANGED <<agentVars, endVars, traceFile, fileVars, job, runs, inits, host>>

-------------------------------------------------------------------------------
(* Sealing: onLeave of the target function, or stopCapture in a window *)

\* The call is finalised by whoever comes first; a later onLeave does nothing.
Leave(t) ==
  /\ pc[t] = "body"
  /\ IF finalized
     THEN Goto(t, "out") /\ UNCHANGED <<finalized, followed>>
     ELSE /\ finalized' = TRUE
          /\ followed' = Unfollowed(t)
          /\ Goto(t, "flush")
  /\ UNCHANGED <<accepting, fnEntered, preEntry, callIdx, primary, endVars, traceFile,
                 fileVars, job, runs, inits, host>>

\* Rings are drained.
Flush(a) ==
  /\ pc[a] = "flush"
  /\ Goto(a, "close")
  /\ UNCHANGED <<agentVars, endVars, traceVars, fileVars, job, runs, inits, host>>

Close(a) ==
  /\ pc[a] = "close"
  /\ traceFile' = 0
  /\ Goto(a, "seal")
  /\ UNCHANGED <<agentVars, endVars, followed, fileVars, job, runs, inits, host>>

\* sessionComplete is an argument of sealManifest: it is evaluated here, before
\* anything is written.  Without a manifest object sealing throws.
SessionComplete == callIdx >= MaxCalls \/ ~accepting

SealBegin(a) ==
  /\ pc[a] = "seal" /\ manifest.call # 0
  /\ manifest' = [manifest EXCEPT !.state = "SEALED"]
  /\ job' = [job EXCEPT ![a].state =
              IF job[a].kind = "stop" \/ SessionComplete THEN "SEALED" ELSE "WAITING"]
  /\ Goto(a, "seal_call")
  /\ UNCHANGED <<agentVars, endVars, traceVars, calls, callFile, session, runs, inits, host>>

SealCall(a) ==
  /\ pc[a] = "seal_call"
  /\ callFile' = CallRenamed(a)
  /\ Goto(a, "seal_session")
  /\ UNCHANGED <<agentVars, endVars, traceVars, manifest, calls, session, job, runs, inits, host>>

SealSession(a) ==
  /\ pc[a] = "seal_session"
  /\ session' = SessionRenamed(a)
  /\ Goto(a, "end")
  /\ UNCHANGED <<agentVars, endVars, traceVars, manifest, calls, callFile, job, runs, inits, host>>

\* Mutant of WindowAfter: the end of a call leaves the window open.
WindowStays == preEntry

WindowAfter == FALSE

\* The rest of onLeave: `accepting` and callIdx are read a second time.
End(t) ==
  /\ pc[t] = "end" /\ t \in Threads
  /\ completed' = completed + 1
  /\ IF SessionComplete
     THEN retired' = TRUE /\ accepting' = FALSE
     ELSE UNCHANGED <<retired, accepting>>
  /\ fnEntered' = FALSE /\ preEntry' = WindowAfter
  /\ Goto(t, "out")
  /\ UNCHANGED <<finalized, callIdx, primary, fatal, disposed, traceVars, fileVars, job,
                 runs, inits, host>>

-------------------------------------------------------------------------------
(* stopCapture *)

\* Mutant of StopMaySeal: a running call does not keep stopCapture from sealing.
StopAlwaysSeals == TRUE

StopMaySeal == ~fnEntered

\* Mutant of AcceptingAfterStop: later calls are not cancelled.
StillAccepting == accepting

AcceptingAfterStop == FALSE

\* Only a window without an entry has anything to seal: a running call seals itself.
Stop ==
  /\ host = "stop" /\ pc[Rpc] = "out" /\ ~Exclusive
  /\ host' = "gone"
  /\ accepting' = AcceptingAfterStop
  /\ IF ~StopMaySeal
     THEN UNCHANGED <<finalized, followed, pc, job>>
     ELSE IF preEntry /\ ~finalized
     THEN /\ finalized' = TRUE
          /\ followed' = followed \ {primary}
          /\ job' = [job EXCEPT ![Rpc] = [kind |-> "stop", call |-> callIdx, state |-> "none"]]
          /\ Goto(Rpc, "flush")
     ELSE /\ job' = [job EXCEPT ![Rpc] =
                      [kind |-> "stop", call |-> callIdx,
                       state |-> IF calls # {} THEN "SEALED" ELSE "STOPPED"]]
          /\ Goto(Rpc, "stop_publish")
          /\ UNCHANGED <<finalized, followed>>
  /\ UNCHANGED <<fnEntered, preEntry, callIdx, primary, endVars, traceFile, fileVars, runs, inits>>

\* The window is sealed: sealSession follows.
StopSealed ==
  /\ pc[Rpc] = "end"
  /\ preEntry' = FALSE
  /\ job' = [job EXCEPT ![Rpc].state = IF calls # {} THEN "SEALED" ELSE "STOPPED"]
  /\ Goto(Rpc, "stop_publish")
  /\ UNCHANGED <<accepting, fnEntered, finalized, callIdx, primary, endVars, traceVars,
                 fileVars, runs, inits, host>>

StopPublish ==
  /\ pc[Rpc] = "stop_publish"
  /\ session' = SessionRenamed(Rpc)
  /\ Goto(Rpc, "stop_end")
  /\ UNCHANGED <<agentVars, endVars, traceVars, manifest, calls, callFile, job, runs, inits, host>>

StopEnd ==
  /\ pc[Rpc] = "stop_end"
  /\ retired' = TRUE
  /\ Goto(Rpc, "out")
  /\ UNCHANGED <<agentVars, fatal, disposed, completed, traceVars, fileVars, job, runs, inits, host>>

-------------------------------------------------------------------------------
(* failCapture and retireCapture *)

\* The points at which a file operation, or a missing manifest object, throws.
Throws(a) ==
  \/ MayFail /\ pc[a] \in {"open", "begin_call", "begin_session", "flush", "close",
                           "seal_call", "seal_session"}
  \/ pc[a] = "seal" /\ manifest.call = 0

\* Mutant of FailCapture: the exception ends the callback and nothing else.
FailSilently(a) ==
  /\ Throws(a)
  /\ Goto(a, "out")
  /\ UNCHANGED <<agentVars, endVars, traceVars, fileVars, job, runs, inits, host>>

\* The operation that throws may be the directory sync after the rename.
FailCapture(a) ==
  /\ Throws(a)
  /\ \/ UNCHANGED <<callFile, session>>
     \/ callFile' = CallRenamed(a) /\ session' = SessionRenamed(a)
  /\ fatal' = TRUE /\ accepting' = FALSE /\ finalized' = TRUE
  /\ followed' = followed \ {primary}
  /\ Goto(a, "fail_close")
  /\ UNCHANGED <<fnEntered, preEntry, callIdx, primary, retired, disposed, completed,
                 traceFile, manifest, calls, job, runs, inits, host>>

FailClose(a) ==
  /\ pc[a] = "fail_close"
  /\ traceFile' = 0
  /\ fnEntered' = FALSE /\ preEntry' = FALSE
  /\ Goto(a, "fail_publish")
  /\ UNCHANGED <<accepting, finalized, callIdx, primary, endVars, followed, fileVars, job,
                 runs, inits, host>>

\* sealSession(error); a failure of this is only added to the error text.
FailPublish(a) ==
  /\ pc[a] = "fail_publish"
  /\ \/ session' = SessionRenamed(a)
     \/ MayFail /\ UNCHANGED session
  /\ retired' = TRUE
  /\ Goto(a, "out")
  /\ UNCHANGED <<agentVars, fatal, disposed, completed, traceVars, manifest, calls, callFile,
                 job, runs, inits, host>>

\* The next tick after retireCapture: hooks, Stalker code and buffers are freed.
Dispose ==
  /\ retired /\ ~disposed
  /\ disposed' = TRUE
  /\ UNCHANGED <<agentVars, fatal, retired, completed, traceVars, fileVars, pc, job, runs,
                 inits, host>>

-------------------------------------------------------------------------------
(* The host's loop: leave it on an error, when enough calls are complete, or  *)
(* on Ctrl+C.                                                                 *)
HostPoll ==
  /\ host = "waiting"
  /\ \/ fatal /\ host' = "raised"
     \/ ~fatal /\ completed >= MaxCalls /\ host' = "stop"
     \/ MayInterrupt /\ host' = "stop"
  /\ UNCHANGED <<agentVars, endVars, traceVars, fileVars, pc, job, runs, inits>>

\* Nothing is running and the target calls the function no more.
Terminated ==
  /\ \A a \in Actors : pc[a] = "out"
  /\ host # "stop"
  /\ UNCHANGED vars

Seals(a) == Flush(a) \/ Close(a) \/ SealBegin(a) \/ SealCall(a) \/ SealSession(a)
Fails(a) == FailCapture(a) \/ FailClose(a) \/ FailPublish(a)
Begins(t) == OpenTrace(t) \/ BeginCall(t) \/ BeginSession(t) \/ FollowThread(t)

Next ==
  \/ \E t \in Threads : \/ Enter(t) \/ EnterInit(t)
                        \/ Begins(t) \/ Leave(t) \/ LeaveInit(t) \/ End(t)
  \/ \E a \in Actors : Seals(a) \/ Fails(a)
  \/ Stop \/ StopSealed \/ StopPublish \/ StopEnd
  \/ Dispose \/ HostPoll \/ Terminated

Spec == Init /\ [][Next]_vars

\* Callbacks run on, the target function returns, the host polls.
Fairness ==
  /\ \A t \in Threads : WF_vars(Begins(t) \/ Fails(t)) /\ WF_vars(Leave(t))
                        /\ WF_vars(LeaveInit(t)) /\ WF_vars(Seals(t) \/ Fails(t) \/ End(t))
  /\ WF_vars(Seals(Rpc) \/ Fails(Rpc) \/ StopSealed \/ StopPublish \/ StopEnd)
  /\ WF_vars(Stop) /\ WF_vars(Dispose) /\ WF_vars(HostPoll)

FairSpec == Spec /\ Fairness

--------------------------------------------------------------------------------
Capturing(a) == pc[a] \notin {"out", "init_body", "stop_publish", "stop_end"}

(* Callbacks of one session never overlap in a capture: a second entry is    *)
(* refused from the moment the first has begun until its call is sealed      *)
(* (agent.ts:242-246, 371).                                                  *)
OneCapture == \A a, b \in Actors : Capturing(a) /\ Capturing(b) => a = b

(* What is published is final: a sealed call manifest is never sealed again  *)
(* or overwritten with an older state ("onLeave is idempotent; a sealed file *)
(* must not be reopened or committed twice", agent.ts:304), and a session    *)
(* file that says SEALED, FAILED or STOPPED is never replaced by a state in  *)
(* which the session is still running.                                       *)
PublishedIsFinal ==
  [][/\ \A c \in Calls : callFile[c].state = "SEALED" => callFile'[c] = callFile[c]
     /\ session.state \in {"SEALED", "FAILED", "STOPPED"} =>
          session'.state \notin {"READY", "CAPTURING", "WAITING"}]_vars

(* A session is SEALED only after all its calls are ("session enters SEALED  *)
(* only after all requested calls have been sealed",                         *)
(* PER_CALL_TRACE_DESIGN.md:55).                                             *)
SealedAfterCalls ==
  session.state = "SEALED" => \A c \in calls : callFile[c].state = "SEALED"

(* The same while nothing has failed.                                        *)
SealedAfterCallsUnlessFailed == ~fatal => SealedAfterCalls

(* Nothing outlives its call or its session.  When a call is sealed its      *)
(* thread is no longer followed and its trace file is closed, so nothing is  *)
(* added to what the manifest describes (agent.ts:311-318); hooks,           *)
(* translated code and ring buffers are freed only when no thread is         *)
(* followed and no callback is still to use them (agent.ts:52-69).           *)
NothingOutlives ==
  /\ callIdx > 0 /\ callFile[callIdx].state = "SEALED" =>
       traceFile # callIdx /\ followed = {}
  /\ disposed => /\ followed = {}
                 /\ \A a \in Actors : pc[a] \notin Opening \cup {"body", "flush", "close"}

(* The host leaves its loop by completedCalls; at that moment the last call  *)
(* is sealed and the session is published as SEALED, so the recovery that    *)
(* follows finds it (agent.ts:363-368, tracemiku_capture.py:203).            *)
CompletedIsPublished ==
  completed >= MaxCalls => session.state \in {"SEALED", "FAILED"}
                           /\ \A c \in Calls : callFile[c].state = "SEALED"

(* A call that has returned is sealed, or the failure is recorded            *)
(* (agent.ts onLeave).                                                       *)
ReturnedIsSettled ==
  \A c \in Calls :
    (callIdx = c /\ finalized) ~> (callFile[c].state = "SEALED" \/ fatal)

(* One capture at a time, and nothing of it survives it (agent.ts            *)
(* beginCaptureSession, retireCapture).                                      *)
CaptureTrue == TypeOK /\ OneCapture /\ NothingOutlives

(* What the host reads of a session is so (agent.ts sealSession,             *)
(* tracemiku_capture.py:203).                                                *)
StatusTrue == SealedAfterCallsUnlessFailed /\ CompletedIsPublished
================================================================================
