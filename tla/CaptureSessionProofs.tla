------------------------ MODULE CaptureSessionProofs ------------------------
(***************************************************************************)
(* Theorems about CaptureSession for every set of threads, number of calls *)
(* and number of runs, with and without failures and interrupts.           *)
(***************************************************************************)
EXTENDS CaptureSession, TLAPS

(* An initialisation window is opened alone: the instance says so, or       *)
(* --trace-init is not given and there is none.                             *)
OpensAlone == ~Overlap \/ MaxInits = 0

Sealing  == {"flush", "close", "seal", "seal_call", "seal_session", "end"}
Working  == Opening \cup {"body"} \cup Sealing
Failing  == {"fail_close", "fail_publish"}
Stopping == {"stop_publish", "stop_end"}

(* What STATE says while an actor is in a callback that captures.           *)
Opens(a) ==
  /\ a \in Threads /\ primary = a /\ ~finalized /\ job[a].call = callIdx
  /\ \/ job[a].kind = "fn" /\ fnEntered
     \/ job[a].kind = "init" /\ preEntry

Runs(a) == a \in Threads /\ primary = a /\ ~finalized /\ fnEntered /\ job[a].kind = "fn"

SealsFor(a) ==
  /\ finalized
  /\ \/ a \in Threads /\ fnEntered /\ job[a].kind = "fn"
     \/ a = Rpc /\ ~accepting /\ ~fnEntered /\ job[a].kind = "stop"
  /\ pc[a] \notin {"flush", "close"} => traceFile = 0

Role(a) ==
  /\ pc[a] \in Opening => Opens(a)
  /\ pc[a] = "body" => Runs(a)
  /\ pc[a] \in Sealing => SealsFor(a)
  /\ pc[a] \in Failing => fatal /\ (pc[a] = "fail_publish" => ~fnEntered)
  /\ pc[a] = "init_body" => a \in Threads
  /\ pc[a] \in Stopping => a = Rpc

Roles == OneCapture /\ \A a \in Actors : Role(a)

(* Only the primary thread is followed, and only until the call is marked.  *)
Follows ==
  /\ followed \subseteq {primary}
  /\ followed # {} => ~finalized /\ (fnEntered \/ preEntry)
  /\ preEntry => inits > 0

(* Nothing is captured any more and nothing will be.                        *)
Idle == ~accepting /\ finalized /\ followed = {} /\ \A a \in Actors : pc[a] \notin Working

Over == /\ ~accepting /\ ~fnEntered /\ (preEntry => finalized) /\ followed = {}
        /\ \A a \in Actors : pc[a] \notin Working

(* How a session ends: by a failure, by stopCapture, with its last call.    *)
Ends ==
  /\ fatal => Idle
  /\ pc[Rpc] # "out" => host = "gone"
  /\ host = "gone" => ~accepting
  /\ pc[Rpc] \in Stopping => Over
  /\ retired => Over
  /\ disposed => retired
  /\ preEntry /\ ~fnEntered /\ finalized => fatal \/ host = "gone"

SealedCall(c) == callFile[c].state = "SEALED"

(* The manifests of the calls: one after the other, the last one last.      *)
Files ==
  /\ \A c \in Calls : c > callIdx => callFile[c] = NoFile
  /\ \A c \in Calls : c < callIdx => SealedCall(c)
  /\ callIdx > 0 /\ SealedCall(callIdx) =>
       /\ \A a \in Actors : pc[a] \in Working => pc[a] \in {"seal_session", "end"}
       /\ traceFile = 0 /\ followed = {}
       /\ preEntry => finalized /\ (accepting => fnEntered)
  /\ ~fatal /\ callIdx > 0 => SealedCall(callIdx) \/ fnEntered \/ preEntry
  /\ \A a \in Actors :
       /\ pc[a] \in Working => callIdx > 0
       /\ pc[a] \in {"seal_session", "end"} => SealedCall(callIdx)
       /\ pc[a] = "open" => callFile[callIdx] = NoFile
       /\ pc[a] = "begin_call" => manifest.state = "CAPTURING"
  /\ \A c \in calls : c <= callIdx

(* completedCalls counts the calls that were sealed.                        *)
Counts ==
  /\ completed <= callIdx
  /\ fnEntered \/ preEntry => completed < callIdx
  /\ completed = callIdx /\ callIdx > 0 => SealedCall(callIdx)
  /\ callIdx > 0 /\ ~fatal /\ (\A a \in Actors : pc[a] \notin {"open", "begin_call"}) => calls # {}
  /\ completed > 0 => calls # {}

Final == session.state \in {"SEALED", "FAILED", "STOPPED"}

(* What is published when the session has ended, and what is about to be.   *)
Published ==
  /\ Final => /\ SessionComplete /\ (accepting => fnEntered) /\ (preEntry => finalized)
              /\ \A a \in Actors : pc[a] \in Working => pc[a] = "end"
  /\ \A a \in Actors :
       /\ pc[a] \in {"seal_call", "seal_session", "end"} =>
            \/ job[a].state = "SEALED" /\ SessionComplete
            \/ job[a].state = "WAITING" /\ callIdx < MaxCalls
       /\ pc[a] = "end" => session.state = job[a].state
  /\ pc[Rpc] = "stop_publish" =>
       /\ job[Rpc].state = "SEALED" \/ (job[Rpc].state = "STOPPED" /\ calls = {})
       /\ ~fatal => \A c \in calls : SealedCall(c)

IInv ==
  /\ TypeOK /\ Roles /\ Follows /\ Ends /\ Files /\ Counts /\ Published
  /\ StatusTrue

-----------------------------------------------------------------------------
(* Types *)

(* The records a callback builds are of their types (manifest.ts, agent.ts).*)
LEMMA RecordFacts ==
  /\ \A k \in {"fn", "init", "stop"}, c \in 0..MaxCalls,
        s \in {"none", "WAITING", "SEALED", "STOPPED"} :
        /\ [kind |-> k, call |-> c, state |-> s] \in Job
        /\ [kind |-> k, call |-> c, state |-> s].kind = k
        /\ [kind |-> k, call |-> c, state |-> s].call = c
        /\ [kind |-> k, call |-> c, state |-> s].state = s
  /\ \A j \in Job, s \in {"none", "WAITING", "SEALED", "STOPPED"} :
        /\ [j EXCEPT !.state = s] \in Job /\ [j EXCEPT !.state = s].state = s
        /\ [j EXCEPT !.state = s].call = j.call /\ [j EXCEPT !.state = s].kind = j.kind
  /\ \A j \in Job : /\ j.kind \in {"fn", "init", "stop"} /\ j.call \in 0..MaxCalls
                    /\ j.state \in {"none", "WAITING", "SEALED", "STOPPED"}
  /\ \A s \in {"none", "CAPTURING", "SEALED"}, a \in Actors \cup {NoThread} :
        [state |-> s, by |-> a] \in CallFile /\ [state |-> s, by |-> a].state = s
  /\ \A f \in CallFile : f.state \in {"none", "CAPTURING", "SEALED"}
  /\ \A s \in {"none", "CAPTURING", "SEALED"}, c \in 0..MaxCalls :
        [call |-> c, state |-> s] \in Manifest /\ [call |-> c, state |-> s].state = s
  /\ \A m \in Manifest : /\ [m EXCEPT !.state = "SEALED"] \in Manifest
                         /\ m.state \in {"none", "CAPTURING", "SEALED"} /\ m.call \in 0..MaxCalls
  /\ \A s \in {"READY", "CAPTURING", "WAITING", "SEALED", "FAILED", "STOPPED"}, C \in SUBSET Calls :
        [state |-> s, calls |-> C] \in Session /\ [state |-> s, calls |-> C].state = s
  /\ \A f \in Session :
        f.state \in {"READY", "CAPTURING", "WAITING", "SEALED", "FAILED", "STOPPED"}
BY DEF Job, CallFile, Manifest, Session

(* Where a callback goes on, no other does.                                 *)
LEMMA GotoFacts ==
  ASSUME TypeOK, NEW a \in Actors, NEW l \in PCs, Goto(a, l)
  PROVE  pc' \in [Actors -> PCs] /\ pc'[a] = l /\ \A b \in Actors \ {a} : pc'[b] = pc[b]
BY DEF TypeOK, Goto

(* What atomicJson renames into place, at each place that calls it.         *)
LEMMA Renamed ==
  ASSUME TypeOK, Roles, Published, NEW a \in Actors
  PROVE  /\ pc[a] = "begin_call" =>
              CallRenamed(a) = [callFile EXCEPT ![callIdx] = [state |-> manifest.state, by |-> NoThread]]
         /\ pc[a] = "seal_call" =>
              CallRenamed(a) = [callFile EXCEPT ![callIdx] = [state |-> "SEALED", by |-> a]]
         /\ pc[a] \notin {"begin_call", "seal_call"} => CallRenamed(a) = callFile
         /\ pc[a] = "begin_session" => SessionRenamed(a) = [state |-> "CAPTURING", calls |-> calls]
         /\ pc[a] \in {"seal_session", "stop_publish"} =>
              SessionRenamed(a) = [state |-> job[a].state, calls |-> calls]
         /\ pc[a] = "fail_publish" => SessionRenamed(a) = [state |-> "FAILED", calls |-> calls]
         /\ pc[a] \notin {"begin_session", "seal_session", "stop_publish", "fail_publish"} =>
              SessionRenamed(a) = session
         /\ CallRenamed(a) \in [Calls -> CallFile] /\ SessionRenamed(a) \in Session
<1>1. pc[a] = "begin_call" => job[a].call = callIdx
  BY DEF Roles, Role, Opens, Opening
<1>2. /\ pc[a] = "begin_call" =>
           CallRenamed(a) = [callFile EXCEPT ![callIdx] = [state |-> manifest.state, by |-> NoThread]]
      /\ pc[a] = "seal_call" =>
           CallRenamed(a) = [callFile EXCEPT ![callIdx] = [state |-> "SEALED", by |-> a]]
      /\ pc[a] \notin {"begin_call", "seal_call"} => CallRenamed(a) = callFile
  BY <1>1 DEF CallRenamed
<1>3. /\ pc[a] = "begin_session" => SessionRenamed(a) = [state |-> "CAPTURING", calls |-> calls]
      /\ pc[a] \in {"seal_session", "stop_publish"} =>
           SessionRenamed(a) = [state |-> job[a].state, calls |-> calls]
      /\ pc[a] = "fail_publish" => SessionRenamed(a) = [state |-> "FAILED", calls |-> calls]
      /\ pc[a] \notin {"begin_session", "seal_session", "stop_publish", "fail_publish"} =>
           SessionRenamed(a) = session
  BY DEF SessionRenamed
<1>4. CallRenamed(a) \in [Calls -> CallFile]
  <2>1. ASSUME NEW x \in CallFile PROVE [callFile EXCEPT ![callIdx] = x] \in [Calls -> CallFile]
    BY DEF TypeOK
  <2>2. [state |-> manifest.state, by |-> NoThread] \in CallFile /\ [state |-> "SEALED", by |-> a] \in CallFile
    <3>1. manifest.state \in {"none", "CAPTURING", "SEALED"}
      BY RecordFacts DEF TypeOK
    <3>. QED  BY <3>1 DEF CallFile
  <2>. QED  BY <1>2, <2>1, <2>2 DEF TypeOK
<1>5. SessionRenamed(a) \in Session
  <2>1. [state |-> "CAPTURING", calls |-> calls] \in Session /\ [state |-> "FAILED", calls |-> calls] \in Session
    BY DEF Session, TypeOK
  <2>2. pc[a] \in {"seal_session", "stop_publish"} => [state |-> job[a].state, calls |-> calls] \in Session
    <3>1. pc[a] \in {"seal_session", "stop_publish"} => job[a].state \in {"SEALED", "WAITING", "STOPPED"}
      BY DEF Published, Roles, Role, Stopping
    <3>. QED  BY <3>1 DEF Session, TypeOK
  <2>. QED  BY <1>3, <2>1, <2>2 DEF TypeOK
<1>. QED  BY <1>2, <1>3, <1>4, <1>5

USE DEF agentVars, endVars, traceVars, fileVars

(* An entry begins a call or goes on with the one of the window (agent.ts,  *)
(* the onEnter callbacks).                                                  *)
Begun(t, kind) ==
  /\ pc[t] = "out" /\ accepting /\ ~fnEntered /\ ~preEntry /\ ~Exclusive /\ callIdx < MaxCalls
  /\ Begin(t, kind) /\ host' = host /\ inits' \in 0..MaxInits
  /\ runs' \in [Threads -> 0..MaxRuns]
  /\ kind = "init" => inits' > 0

Joined(t) ==
  /\ pc[t] = "out" /\ accepting /\ ~fnEntered /\ preEntry /\ ~Exclusive
  /\ primary' = t /\ followed' = HandOver(t) /\ runs' \in [Threads -> 0..MaxRuns]
  /\ \/ JoinWindow(t) /\ inits' = inits
     \/ /\ job' = [job EXCEPT ![t] = [kind |-> "init", call |-> callIdx, state |-> "none"]]
        /\ Goto(t, "init_body") /\ inits' \in 0..MaxInits /\ inits' > 0
        /\ UNCHANGED <<accepting, fnEntered, preEntry, finalized, callIdx, endVars, traceFile,
                       fileVars>>
  /\ host' = host

(* Every entry is one or the other.                                         *)
LEMMA Entries ==
  ASSUME TypeOK, NEW t \in Threads, Enter(t) \/ EnterInit(t)
  PROVE  (\E kind \in {"fn", "init"} : Begun(t, kind)) \/ Joined(t)
<1>1. MaxCalls \in Nat \ {0} /\ MaxInits \in Nat /\ MaxRuns \in Nat
  BY SessionAssumption
<1>2. CASE Enter(t)
  <2>1. runs' \in [Threads -> 0..MaxRuns] /\ inits' = inits /\ inits \in 0..MaxInits
    BY <1>1, <1>2 DEF Enter, TypeOK
  <2>2. CASE preEntry
    BY <1>2, <2>1, <2>2 DEF Enter, Admits, JoinWindow, Joined
  <2>3. CASE ~preEntry
    BY <1>2, <2>1, <2>3 DEF Enter, Admits, Begun
  <2>. QED  BY <2>2, <2>3
<1>3. CASE EnterInit(t)
  <2>1. inits' \in 0..MaxInits /\ inits' > 0 /\ runs' = runs /\ runs \in [Threads -> 0..MaxRuns]
    BY <1>1, <1>3 DEF EnterInit, TypeOK
  <2>2. CASE preEntry
    BY <1>3, <2>1, <2>2 DEF EnterInit, Joined
  <2>3. CASE ~preEntry
    BY <1>1, <1>3, <2>1, <2>3 DEF EnterInit, Begun
  <2>. QED  BY <2>2, <2>3
<1>. QED  BY <1>2, <1>3

(* Every variable keeps its type, whatever runs at once.                    *)
LEMMA TypesStep == IInv /\ [Next]_vars => TypeOK'
<1> SUFFICES ASSUME IInv, [Next]_vars PROVE TypeOK'
  OBVIOUS
<1>a. TypeOK /\ Roles /\ Published /\ Counts /\ Files
  BY DEF IInv
<1>b. MaxCalls \in Nat \ {0} /\ MaxInits \in Nat /\ MaxRuns \in Nat
  BY SessionAssumption
<1>c. Threads \subseteq Actors /\ Rpc \in Actors
  BY DEF Actors

<1>1. ASSUME NEW t \in Threads, NEW k \in {"fn", "init"}, Begun(t, k) PROVE TypeOK'
  <2>1. callIdx' \in 0..MaxCalls /\ callIdx + 1 \in 0..MaxCalls
    BY <1>1, <1>a, <1>b DEF Begun, Begin, TypeOK
  <2>2. [kind |-> k, call |-> callIdx + 1, state |-> "none"] \in Job
    BY <2>1 DEF Job
  <2>3. pc' \in [Actors -> PCs]
    BY <1>1, <1>a DEF Begun, Begin, Goto, TypeOK, PCs, Actors
  <2>4. job' \in [Actors -> Job]
    BY <1>1, <1>a, <2>2 DEF Begun, Begin, TypeOK, Actors
  <2>5. fnEntered' \in BOOLEAN /\ preEntry' \in BOOLEAN
    BY <1>1 DEF Begun, Begin
  <2>. QED  BY <1>1, <1>a, <1>b, <2>1, <2>3, <2>4, <2>5 DEF Begun, Begin, TypeOK, Actors
<1>2. ASSUME NEW t \in Threads, Joined(t) PROVE TypeOK'
  <2>1. /\ [kind |-> "fn", call |-> callIdx, state |-> "none"] \in Job
        /\ [kind |-> "init", call |-> callIdx, state |-> "none"] \in Job
    BY <1>a DEF TypeOK, Job
  <2>2. pc' \in [Actors -> PCs]
    BY <1>2, <1>a DEF Joined, JoinWindow, Goto, TypeOK, PCs, Actors
  <2>3. job' \in [Actors -> Job]
    BY <1>2, <1>a, <2>1 DEF Joined, JoinWindow, TypeOK, Actors
  <2>. QED  BY <1>2, <1>a, <1>b, <2>2, <2>3 DEF Joined, JoinWindow, HandOver, TypeOK, Actors
<1>3. ASSUME NEW t \in Threads, OpenTrace(t) PROVE TypeOK'
  <2>1. pc' \in [Actors -> PCs]
    BY <1>3, <1>a, <1>c, GotoFacts DEF OpenTrace, PCs
  <2>2. manifest' \in Manifest /\ traceFile' \in 0..MaxCalls
    BY <1>3, <1>a DEF OpenTrace, TypeOK, Manifest
  <2>. QED  BY <1>3, <1>a, <2>1, <2>2 DEF OpenTrace, TypeOK
<1>4. ASSUME NEW t \in Threads, BeginCall(t) PROVE TypeOK'
  <2>1. pc' \in [Actors -> PCs]
    BY <1>4, <1>a DEF BeginCall, Goto, TypeOK, PCs, Actors
  <2>2. callFile' \in [Calls -> CallFile] /\ calls' \subseteq Calls
    <3>1. job[t].call = callIdx /\ callIdx > 0
      BY <1>4, <1>a DEF BeginCall, Actors, Roles, Role, Opens, Opening, Files, Working
    <3>2. callIdx \in Calls
      BY <1>a, <3>1 DEF TypeOK, Calls
    <3>. QED  BY <1>4, <1>a, <3>1, <3>2, Renamed DEF BeginCall, TypeOK, Actors
  <2>. QED  BY <1>4, <1>a, <1>b, <2>1, <2>2 DEF BeginCall, TypeOK, Actors
<1>5. ASSUME NEW t \in Threads, BeginSession(t) PROVE TypeOK'
  <2>1. pc' \in [Actors -> PCs]
    BY <1>5, <1>a, <1>c, GotoFacts DEF BeginSession, PCs
  <2>2. session' \in Session
    BY <1>5, <1>a, <1>c, Renamed DEF BeginSession
  <2>. QED  BY <1>5, <1>a, <2>1, <2>2 DEF BeginSession, TypeOK
<1>6. ASSUME NEW t \in Threads, FollowThread(t) PROVE TypeOK'
  <2>1. pc' \in [Actors -> PCs]
    BY <1>6, <1>a, <1>c, GotoFacts DEF FollowThread, PCs
  <2>2. followed' \subseteq Threads
    BY <1>6, <1>a DEF FollowThread, TypeOK
  <2>. QED  BY <1>6, <1>a, <2>1, <2>2 DEF FollowThread, TypeOK
<1>7. ASSUME NEW t \in Threads, Leave(t) PROVE TypeOK'
  <2>1. pc' \in [Actors -> PCs]
    BY <1>7, <1>a DEF Leave, Unfollowed, Goto, TypeOK, PCs, Actors
  <2>2. finalized' \in BOOLEAN /\ followed' \subseteq Threads
    BY <1>7, <1>a, <1>b DEF Leave, Unfollowed, TypeOK, Actors
  <2>. QED  BY <1>7, <1>a, <1>b, <2>1, <2>2 DEF Leave, Unfollowed, TypeOK, Actors
<1>8. ASSUME NEW t \in Threads, LeaveInit(t) PROVE TypeOK'
  <2>1. pc' \in [Actors -> PCs]
    BY <1>8, <1>a, <1>c, GotoFacts DEF LeaveInit, Unfollowed, PCs
  <2>2. followed' \subseteq Threads
    BY <1>8, <1>a DEF LeaveInit, Unfollowed, TypeOK
  <2>. QED  BY <1>8, <1>a, <2>1, <2>2 DEF LeaveInit, Unfollowed, TypeOK
<1>9. ASSUME NEW t \in Threads, End(t) PROVE TypeOK'
  <2>1. completed < callIdx /\ completed + 1 \in 0..MaxCalls
    <3>1. fnEntered
      BY <1>9, <1>a, SessionAssumption DEF End, Roles, Role, SealsFor, Sealing, Actors
    <3>. QED  BY <1>a, <1>b, <3>1 DEF Counts, TypeOK
  <2>2. pc' \in [Actors -> PCs]
    BY <1>9, <1>a DEF End, Goto, TypeOK, PCs, Actors
  <2>. QED  BY <1>9, <1>a, <2>1, <2>2 DEF End, WindowAfter, TypeOK
<1>10. ASSUME NEW a \in Actors, Flush(a) PROVE TypeOK'
  <2>1. pc' \in [Actors -> PCs]
    BY <1>10, <1>a, <1>c, GotoFacts DEF Flush, PCs
  <2>. QED  BY <1>10, <1>a, <2>1 DEF Flush, TypeOK
<1>11. ASSUME NEW a \in Actors, Close(a) PROVE TypeOK'
  <2>1. pc' \in [Actors -> PCs]
    BY <1>11, <1>a, <1>c, GotoFacts DEF Close, PCs
  <2>2. traceFile' \in 0..MaxCalls
    BY <1>11, <1>b DEF Close
  <2>. QED  BY <1>11, <1>a, <2>1, <2>2 DEF Close, TypeOK
<1>12. ASSUME NEW a \in Actors, SealBegin(a) PROVE TypeOK'
  <2>1. pc' \in [Actors -> PCs]
    BY <1>12, <1>a DEF SealBegin, Goto, TypeOK, PCs, Actors
  <2>2. manifest' \in Manifest
    BY <1>12, <1>a DEF SealBegin, TypeOK, Manifest
  <2>3. job' \in [Actors -> Job]
    <3>1. job[a] \in Job
      BY <1>a DEF TypeOK
    <3>2. /\ [job[a] EXCEPT !.state = "SEALED"] \in Job
          /\ [job[a] EXCEPT !.state = "WAITING"] \in Job
      BY <3>1 DEF Job
    <3>. QED  BY <1>12, <1>a, <3>2 DEF SealBegin, TypeOK
  <2>. QED  BY <1>12, <1>a, <1>b, <2>1, <2>2, <2>3 DEF SealBegin, TypeOK, Actors
<1>13. ASSUME NEW a \in Actors, SealCall(a) PROVE TypeOK'
  <2>1. pc' \in [Actors -> PCs]
    BY <1>13, <1>a, <1>c, GotoFacts DEF SealCall, PCs
  <2>2. callFile' \in [Calls -> CallFile]
    BY <1>13, <1>a, Renamed DEF SealCall
  <2>. QED  BY <1>13, <1>a, <2>1, <2>2 DEF SealCall, TypeOK
<1>14. ASSUME NEW a \in Actors, SealSession(a) PROVE TypeOK'
  <2>1. pc' \in [Actors -> PCs]
    BY <1>14, <1>a, <1>c, GotoFacts DEF SealSession, PCs
  <2>2. session' \in Session
    BY <1>14, <1>a, Renamed DEF SealSession
  <2>. QED  BY <1>14, <1>a, <2>1, <2>2 DEF SealSession, TypeOK
<1>15. ASSUME NEW a \in Actors, FailCapture(a) PROVE TypeOK'
  <2>1. pc' \in [Actors -> PCs]
    BY <1>15, <1>a DEF FailCapture, Goto, TypeOK, PCs, Actors
  <2>2. callFile' \in [Calls -> CallFile] /\ session' \in Session
    BY <1>15, <1>a, <1>b, Renamed DEF FailCapture, TypeOK, Actors
  <2>. QED  BY <1>15, <1>a, <1>b, <2>1, <2>2 DEF FailCapture, TypeOK, Actors
<1>16. ASSUME NEW a \in Actors, FailClose(a) PROVE TypeOK'
  <2>1. pc' \in [Actors -> PCs]
    BY <1>16, <1>a DEF FailClose, Goto, TypeOK, PCs, Actors
  <2>2. traceFile' \in 0..MaxCalls
    BY <1>16, <1>a, <1>b DEF FailClose, TypeOK, Actors
  <2>. QED  BY <1>16, <1>a, <1>b, <2>1, <2>2 DEF FailClose, TypeOK, Actors
<1>17. ASSUME NEW a \in Actors, FailPublish(a) PROVE TypeOK'
  <2>1. pc' \in [Actors -> PCs]
    BY <1>17, <1>a, <1>c, GotoFacts DEF FailPublish, PCs
  <2>2. session' \in Session
    BY <1>17, <1>a, Renamed DEF FailPublish, TypeOK
  <2>. QED  BY <1>17, <1>a, <2>1, <2>2 DEF FailPublish, TypeOK
<1>18. CASE Stop
  <2>1. pc' \in [Actors -> PCs]
    BY <1>18, <1>a DEF Stop, AcceptingAfterStop, StopMaySeal, Goto, TypeOK, PCs, Actors
  <2>2. job' \in [Actors -> Job]
    <3>1. /\ [kind |-> "stop", call |-> callIdx, state |-> "none"] \in Job
          /\ [kind |-> "stop", call |-> callIdx,
              state |-> IF calls # {} THEN "SEALED" ELSE "STOPPED"] \in Job
      BY <1>a DEF TypeOK, Job
    <3>. QED  BY <1>18, <1>a, <3>1 DEF Stop, TypeOK
  <2>. QED  BY <1>18, <1>a, <1>b, <2>1, <2>2 DEF Stop, AcceptingAfterStop, StopMaySeal,
               TypeOK, Actors
<1>19. CASE StopSealed
  <2>1. pc' \in [Actors -> PCs]
    BY <1>19, <1>a DEF StopSealed, Goto, TypeOK, PCs, Actors
  <2>2. job' \in [Actors -> Job]
    <3>1. [job[Rpc] EXCEPT !.state = IF calls # {} THEN "SEALED" ELSE "STOPPED"] \in Job
      BY <1>a DEF TypeOK, Job, Actors
    <3>. QED  BY <1>19, <1>a, <3>1 DEF StopSealed, TypeOK
  <2>. QED  BY <1>19, <1>a, <1>b, <2>1, <2>2 DEF StopSealed, TypeOK, Actors
<1>20. CASE StopPublish
  <2>1. pc' \in [Actors -> PCs]
    BY <1>20, <1>a, <1>c, GotoFacts DEF StopPublish, PCs
  <2>2. session' \in Session
    BY <1>20, <1>a, <1>c, Renamed DEF StopPublish
  <2>. QED  BY <1>20, <1>a, <2>1, <2>2 DEF StopPublish, TypeOK
<1>21. CASE StopEnd
  <2>1. pc' \in [Actors -> PCs]
    BY <1>21, <1>a, <1>c, GotoFacts DEF StopEnd, PCs
  <2>. QED  BY <1>21, <1>a, <2>1 DEF StopEnd, TypeOK
<1>22. CASE Dispose
  BY <1>22, <1>a DEF Dispose, TypeOK
<1>23. CASE HostPoll
  BY <1>23, <1>a DEF HostPoll, TypeOK
<1>24. CASE UNCHANGED vars
  BY <1>24, <1>a DEF vars, TypeOK
<1>. QED
  BY Entries, <1>a, <1>1, <1>2, <1>3, <1>4, <1>5, <1>6, <1>7, <1>8, <1>9, <1>10, <1>11, <1>12,
     <1>13, <1>14, <1>15, <1>16, <1>17, <1>18, <1>19, <1>20, <1>21, <1>22, <1>23, <1>24
     DEF Next, Begins, Seals, Fails, Terminated

-----------------------------------------------------------------------------
(* One capture at a time *)

(* A callback that captures is opening, running, sealing or failing.        *)
LEMMA CapturingIs ==
  ASSUME TypeOK, NEW a \in Actors
  PROVE  Capturing(a) <=> pc[a] \in Working \cup Failing
BY DEF TypeOK, PCs, Capturing, Working, Failing, Sealing, Opening

(* While nothing runs but what a window lets run, nobody captures.          *)
LEMMA NobodyCaptures ==
  ASSUME IInv, OpensAlone, ~fnEntered, ~Exclusive, accepting \/ ~finalized, NEW a \in Actors
  PROVE  pc[a] \notin Working \cup Failing
<1>1. Role(a) /\ (fatal => Idle)
  BY DEF IInv, Roles, Ends
<1>2. pc[a] \notin Opening
  <2>1. ASSUME pc[a] \in Opening PROVE FALSE
    <3>1. job[a].kind = "init" /\ preEntry
      BY <1>1, <2>1 DEF Role, Opens
    <3>2. inits > 0 /\ inits \in 0..MaxInits
      BY <3>1 DEF IInv, Follows, TypeOK
    <3>3. ~Overlap
      BY <3>2, SessionAssumption DEF OpensAlone
    <3>. QED  BY <2>1, <3>1, <3>3 DEF Exclusive
  <2>. QED  BY <2>1
<1>3. pc[a] # "body" /\ pc[a] \notin Sealing
  BY <1>1 DEF Role, Runs, SealsFor
<1>4. pc[a] \notin Failing
  BY <1>1 DEF Role, Idle
<1>. QED  BY <1>2, <1>3, <1>4 DEF Working

(* Whoever captures is the only one.                                        *)
LEMMA OthersOut ==
  ASSUME IInv, NEW a \in Actors, pc[a] \in Working \cup Failing, NEW b \in Actors \ {a}
  PROVE  pc[b] \notin Working \cup Failing
BY CapturingIs DEF IInv, Roles, OneCapture

(* One actor goes on; if no other captures, only its own role can change.   *)
LEMMA RolesAfter ==
  ASSUME TypeOK, Roles, NEW a \in Actors, NEW l \in PCs, Goto(a, l),
         \A b \in Actors \ {a} : pc[b] \notin Working \cup Failing,
         Role(a)'
  PROVE  Roles'
<1>1. pc' \in [Actors -> PCs] /\ \A b \in Actors \ {a} : pc'[b] = pc[b]
  BY GotoFacts
<1>2. ASSUME NEW b \in Actors, Capturing(b)' PROVE pc'[b] \in Working \cup Failing
  BY <1>1, <1>2 DEF PCs, Capturing, Working, Failing, Sealing, Opening
<1>3. OneCapture'
  BY <1>1, <1>2 DEF OneCapture
<1>4. ASSUME NEW b \in Actors \ {a} PROVE Role(b)'
  BY <1>1 DEF Roles, Role, Working
<1>. QED  BY <1>3, <1>4 DEF Roles

(* A callback that does not capture goes on, and disturbs no other.         *)
LEMMA RolesSteady ==
  ASSUME TypeOK, Roles, NEW a \in Actors, NEW l \in {"out", "init_body", "stop_publish", "stop_end"},
         Goto(a, l), l = "init_body" => a \in Threads, l \in Stopping => a = Rpc,
         UNCHANGED <<primary, finalized, callIdx, fnEntered, preEntry, traceFile, fatal>>,
         accepting' => accepting,
         \A b \in Actors \ {a} : job'[b] = job[b]
  PROVE  Roles'
<1>1. pc' \in [Actors -> PCs] /\ pc'[a] = l /\ \A b \in Actors \ {a} : pc'[b] = pc[b]
  BY GotoFacts DEF PCs
<1>2. OneCapture'
  BY <1>1 DEF OneCapture, Capturing, Roles
<1>3. ASSUME NEW b \in Actors \ {a} PROVE Role(b)'
  <2>1. Role(b) /\ pc'[b] = pc[b] /\ job'[b] = job[b]
    BY <1>1 DEF Roles
  <2>. QED  BY <2>1 DEF Role, Opens, Runs, SealsFor
<1>4. Role(a)'
  BY <1>1 DEF Role, Stopping, Opening, Sealing, Failing
<1>. QED  BY <1>2, <1>3, <1>4 DEF Roles

(* A second entry is refused from the moment the first has begun until its  *)
(* call is sealed (agent.ts, onEnter and onLeave).                          *)
LEMMA RolesStep == IInv /\ OpensAlone /\ [Next]_vars => Roles'
<1> SUFFICES ASSUME IInv, OpensAlone, [Next]_vars PROVE Roles'
  OBVIOUS
<1>a. TypeOK /\ Roles /\ Ends
  BY DEF IInv
<1>b. Rpc \notin Threads /\ Threads \subseteq Actors /\ Rpc \in Actors
  BY SessionAssumption DEF Actors
<1>1. ASSUME NEW t \in Threads, NEW k \in {"fn", "init"}, Begun(t, k) PROVE Roles'
  <2>1. \A b \in Actors : pc[b] \notin Working \cup Failing
    BY <1>1, NobodyCaptures DEF Begun
  <2>2. Goto(t, "open") /\ pc'[t] = "open"
    BY <1>1, <1>a, <1>b, GotoFacts DEF Begun, Begin, PCs
  <2>3. job'[t].kind = k /\ job'[t].call = callIdx'
    BY <1>1, <1>a, <1>b DEF Begun, Begin, TypeOK
  <2>4. Role(t)'
    BY <1>1, <1>b, <2>2, <2>3 DEF Begun, Begin, Role, Opens, Stopping, Opening, Working,
       Sealing, Failing
  <2>. QED  BY <1>a, <1>b, <2>1, <2>2, <2>4, RolesAfter DEF PCs
<1>2. ASSUME NEW t \in Threads, Joined(t) PROVE Roles'
  <2>1. \A b \in Actors : pc[b] \notin Working \cup Failing
    BY <1>2, NobodyCaptures DEF Joined
  <2>2. CASE JoinWindow(t)
    <3>1. Goto(t, "body") /\ pc'[t] = "body" /\ job'[t].kind = "fn"
      BY <1>a, <1>b, <2>2, GotoFacts DEF JoinWindow, PCs, TypeOK
    <3>2. Role(t)'
      BY <1>b, <2>2, <3>1 DEF JoinWindow, Role, Runs, Stopping, Opening, Working, Sealing,
         Failing
    <3>. QED  BY <1>a, <1>b, <2>1, <3>1, <3>2, RolesAfter DEF PCs
  <2>3. CASE Goto(t, "init_body")
    <3>1. pc'[t] = "init_body"
      BY <1>a, <1>b, <2>3, GotoFacts DEF PCs
    <3>2. Role(t)'
      BY <1>b, <3>1 DEF Role, Stopping, Opening, Working, Sealing, Failing
    <3>. QED  BY <1>a, <1>b, <2>1, <2>3, <3>2, RolesAfter DEF PCs
  <2>. QED  BY <1>2, <2>2, <2>3 DEF Joined
<1>3. ASSUME NEW t \in Threads, OpenTrace(t) PROVE Roles'
  <2>1. pc[t] = "open" /\ Goto(t, "begin_call") /\ pc'[t] = "begin_call"
    BY <1>3, <1>a, <1>b, GotoFacts DEF OpenTrace, PCs
  <2>2. Role(t)'
    BY <1>3, <1>a, <1>b, <2>1 DEF OpenTrace, Roles, Role, Opens, Runs, SealsFor, Stopping,
       TypeOK, Opening, Working, Sealing, Failing
  <2>. QED  BY <1>a, <1>b, <2>1, <2>2, OthersOut, RolesAfter DEF PCs, Opening, Working,
               Sealing, Failing
<1>4. ASSUME NEW t \in Threads, BeginCall(t) PROVE Roles'
  <2>1. pc[t] = "begin_call" /\ Goto(t, "begin_session") /\ pc'[t] = "begin_session"
    BY <1>4, <1>a, <1>b, GotoFacts DEF BeginCall, PCs
  <2>2. Role(t)'
    BY <1>4, <1>a, <1>b, <2>1 DEF BeginCall, Roles, Role, Opens, Runs, SealsFor, Stopping,
       TypeOK, Opening, Working, Sealing, Failing
  <2>. QED  BY <1>a, <1>b, <2>1, <2>2, OthersOut, RolesAfter DEF PCs, Opening, Working,
               Sealing, Failing
<1>5. ASSUME NEW t \in Threads, BeginSession(t) PROVE Roles'
  <2>1. pc[t] = "begin_session" /\ Goto(t, "follow") /\ pc'[t] = "follow"
    BY <1>5, <1>a, <1>b, GotoFacts DEF BeginSession, PCs
  <2>2. Role(t)'
    BY <1>5, <1>a, <1>b, <2>1 DEF BeginSession, Roles, Role, Opens, Runs, SealsFor, Stopping,
       TypeOK, Opening, Working, Sealing, Failing
  <2>. QED  BY <1>a, <1>b, <2>1, <2>2, OthersOut, RolesAfter DEF PCs, Opening, Working,
               Sealing, Failing
<1>6. ASSUME NEW t \in Threads, FollowThread(t) PROVE Roles'
  <2>1. /\ pc[t] = "follow" /\ pc'[t] \in {"body", "init_body"} /\ Goto(t, pc'[t])
        /\ pc'[t] = "body" => job[t].kind # "init"
    BY <1>6, <1>a, <1>b, GotoFacts DEF FollowThread, Goto, TypeOK
  <2>2. Role(t)'
    BY <1>6, <1>a, <1>b, <2>1 DEF FollowThread, Roles, Role, Opens, Runs, Stopping, Opening,
       Working, Sealing, Failing
  <2>. QED  BY <1>a, <1>b, <2>1, <2>2, OthersOut, RolesAfter DEF PCs, Opening, Working,
               Sealing, Failing
<1>7. ASSUME NEW t \in Threads, Leave(t) PROVE Roles'
  <2>1. pc[t] = "body" /\ ~finalized /\ fnEntered /\ job[t].kind = "fn"
    BY <1>7, <1>a, <1>b DEF Leave, Roles, Role, Runs
  <2>2. Goto(t, "flush") /\ pc'[t] = "flush"
    BY <1>7, <1>a, <1>b, <2>1, GotoFacts DEF Leave, PCs
  <2>3. Role(t)'
    BY <1>7, <1>b, <2>1, <2>2 DEF Leave, Role, SealsFor, Stopping, Opening, Working, Sealing,
       Failing
  <2>. QED  BY <1>a, <1>b, <2>1, <2>2, <2>3, OthersOut, RolesAfter DEF PCs, Opening, Working,
               Sealing, Failing
<1>8. ASSUME NEW t \in Threads, LeaveInit(t) PROVE Roles'
  BY <1>8, <1>a, <1>b, RolesSteady DEF LeaveInit, Stopping
<1>9. ASSUME NEW t \in Threads, End(t) PROVE Roles'
  <2>1. pc[t] = "end" /\ Goto(t, "out") /\ pc'[t] = "out"
    BY <1>9, <1>a, <1>b, GotoFacts DEF End, PCs
  <2>2. Role(t)'
    BY <1>9, <1>a, <1>b, <2>1 DEF End, Roles, Role, Opens, Runs, SealsFor, Stopping, TypeOK,
       Opening, Working, Sealing, Failing
  <2>. QED  BY <1>a, <1>b, <2>1, <2>2, OthersOut, RolesAfter DEF PCs, Opening, Working,
               Sealing, Failing
<1>10. ASSUME NEW a \in Actors, Flush(a) PROVE Roles'
  <2>1. pc[a] = "flush" /\ Goto(a, "close") /\ pc'[a] = "close"
    BY <1>10, <1>a, <1>b, GotoFacts DEF Flush, PCs
  <2>2. Role(a)'
    BY <1>10, <1>a, <1>b, <2>1 DEF Flush, Roles, Role, Opens, Runs, SealsFor, Stopping,
       TypeOK, Opening, Working, Sealing, Failing
  <2>. QED  BY <1>a, <1>b, <2>1, <2>2, OthersOut, RolesAfter DEF PCs, Opening, Working,
               Sealing, Failing
<1>11. ASSUME NEW a \in Actors, Close(a) PROVE Roles'
  <2>1. pc[a] = "close" /\ Goto(a, "seal") /\ pc'[a] = "seal"
    BY <1>11, <1>a, <1>b, GotoFacts DEF Close, PCs
  <2>2. Role(a)'
    BY <1>11, <1>a, <1>b, <2>1 DEF Close, Roles, Role, Opens, Runs, SealsFor, Stopping,
       TypeOK, Opening, Working, Sealing, Failing
  <2>. QED  BY <1>a, <1>b, <2>1, <2>2, OthersOut, RolesAfter DEF PCs, Opening, Working,
               Sealing, Failing
<1>12. ASSUME NEW a \in Actors, SealBegin(a) PROVE Roles'
  <2>1. pc[a] = "seal" /\ Goto(a, "seal_call") /\ pc'[a] = "seal_call"
    BY <1>12, <1>a, <1>b, GotoFacts DEF SealBegin, PCs
  <2>2. Role(a)'
    BY <1>12, <1>a, <1>b, <2>1 DEF SealBegin, Roles, Role, Opens, Runs, SealsFor, Stopping,
       TypeOK, Opening, Working, Sealing, Failing
  <2>. QED  BY <1>a, <1>b, <2>1, <2>2, OthersOut, RolesAfter DEF PCs, Opening, Working,
               Sealing, Failing
<1>13. ASSUME NEW a \in Actors, SealCall(a) PROVE Roles'
  <2>1. pc[a] = "seal_call" /\ Goto(a, "seal_session") /\ pc'[a] = "seal_session"
    BY <1>13, <1>a, <1>b, GotoFacts DEF SealCall, PCs
  <2>2. Role(a)'
    BY <1>13, <1>a, <1>b, <2>1 DEF SealCall, Roles, Role, Opens, Runs, SealsFor, Stopping,
       TypeOK, Opening, Working, Sealing, Failing
  <2>. QED  BY <1>a, <1>b, <2>1, <2>2, OthersOut, RolesAfter DEF PCs, Opening, Working,
               Sealing, Failing
<1>14. ASSUME NEW a \in Actors, SealSession(a) PROVE Roles'
  <2>1. pc[a] = "seal_session" /\ Goto(a, "end") /\ pc'[a] = "end"
    BY <1>14, <1>a, <1>b, GotoFacts DEF SealSession, PCs
  <2>2. Role(a)'
    BY <1>14, <1>a, <1>b, <2>1 DEF SealSession, Roles, Role, Opens, Runs, SealsFor, Stopping,
       TypeOK, Opening, Working, Sealing, Failing
  <2>. QED  BY <1>a, <1>b, <2>1, <2>2, OthersOut, RolesAfter DEF PCs, Opening, Working,
               Sealing, Failing
<1>15. ASSUME NEW a \in Actors, FailCapture(a) PROVE Roles'
  <2>1. pc[a] \in Working /\ Goto(a, "fail_close") /\ pc'[a] = "fail_close" /\ fatal'
    BY <1>15, <1>a, <1>b, GotoFacts DEF FailCapture, Throws, PCs, Opening, Working, Sealing,
       Failing
  <2>2. Role(a)'
    BY <1>b, <2>1 DEF Role, Stopping, Opening, Working, Sealing, Failing
  <2>. QED  BY <1>a, <2>1, <2>2, OthersOut, RolesAfter DEF PCs
<1>16. ASSUME NEW a \in Actors, FailClose(a) PROVE Roles'
  <2>1. pc[a] = "fail_close" /\ Goto(a, "fail_publish") /\ pc'[a] = "fail_publish"
    BY <1>16, <1>a, <1>b, GotoFacts DEF FailClose, PCs
  <2>2. Role(a)'
    BY <1>16, <1>a, <1>b, <2>1 DEF FailClose, Roles, Role, Opens, Runs, SealsFor, Stopping,
       TypeOK, Opening, Working, Sealing, Failing
  <2>. QED  BY <1>a, <1>b, <2>1, <2>2, OthersOut, RolesAfter DEF PCs, Opening, Working,
               Sealing, Failing
<1>17. ASSUME NEW a \in Actors, FailPublish(a) PROVE Roles'
  <2>1. pc[a] = "fail_publish" /\ Goto(a, "out") /\ pc'[a] = "out"
    BY <1>17, <1>a, <1>b, GotoFacts DEF FailPublish, PCs
  <2>2. Role(a)'
    BY <1>17, <1>a, <1>b, <2>1 DEF FailPublish, Roles, Role, Opens, Runs, SealsFor, Stopping,
       TypeOK, Opening, Working, Sealing, Failing
  <2>. QED  BY <1>a, <1>b, <2>1, <2>2, OthersOut, RolesAfter DEF PCs, Opening, Working,
               Sealing, Failing
<1>18. CASE Stop
  <2>1. CASE ~fnEntered /\ preEntry /\ ~finalized
    <3>1. \A b \in Actors : pc[b] \notin Working \cup Failing
      BY <1>18, <2>1, NobodyCaptures DEF Stop
    <3>2. /\ Goto(Rpc, "flush") /\ pc'[Rpc] = "flush" /\ job'[Rpc].kind = "stop"
          /\ finalized' /\ ~accepting' /\ ~fnEntered'
      BY <1>18, <1>a, <1>b, <2>1, GotoFacts DEF Stop, StopMaySeal, AcceptingAfterStop, PCs,
         TypeOK
    <3>3. Role(Rpc)'
      BY <1>b, <3>2 DEF Role, SealsFor, Stopping, Opening, Working, Sealing, Failing
    <3>. QED  BY <1>a, <1>b, <3>1, <3>2, <3>3, RolesAfter DEF PCs
  <2>2. CASE ~fnEntered /\ ~(preEntry /\ ~finalized)
    <3>1. /\ Goto(Rpc, "stop_publish") /\ ~accepting'
          /\ UNCHANGED <<primary, finalized, callIdx, fnEntered, preEntry, traceFile, fatal>>
          /\ \A b \in Actors \ {Rpc} : job'[b] = job[b]
      BY <1>18, <1>a, <1>b, <2>2 DEF Stop, StopMaySeal, AcceptingAfterStop, TypeOK
    <3>. QED  BY <1>a, <1>b, <3>1, RolesSteady DEF Stopping
  <2>3. CASE fnEntered
    BY <1>18, <1>a, <2>3 DEF Stop, StopMaySeal, AcceptingAfterStop, Roles, OneCapture,
       Capturing, Role, Opens,
       Runs, SealsFor
  <2>. QED  BY <2>1, <2>2, <2>3
<1>19. CASE StopSealed
  <2>1. pc[Rpc] = "end" /\ Goto(Rpc, "stop_publish") /\ pc'[Rpc] = "stop_publish"
    BY <1>19, <1>a, <1>b, GotoFacts DEF StopSealed, PCs
  <2>2. Role(Rpc)'
    BY <1>19, <1>a, <1>b, <2>1 DEF StopSealed, Roles, Role, Opens, Runs, SealsFor, Stopping,
       TypeOK, Opening, Working, Sealing, Failing
  <2>. QED  BY <1>a, <1>b, <2>1, <2>2, OthersOut, RolesAfter DEF PCs, Opening, Working,
               Sealing, Failing
<1>20. CASE StopPublish
  BY <1>20, <1>a, <1>b, RolesSteady DEF StopPublish, Stopping
<1>21. CASE StopEnd
  BY <1>21, <1>a, <1>b, RolesSteady DEF StopEnd, Stopping
<1>22. CASE Dispose
  BY <1>22, <1>a DEF Dispose, Roles, OneCapture, Capturing, Role, Opens, Runs, SealsFor
<1>23. CASE HostPoll
  BY <1>23, <1>a DEF HostPoll, Roles, OneCapture, Capturing, Role, Opens, Runs, SealsFor
<1>24. CASE UNCHANGED vars
  BY <1>24, <1>a DEF vars, Roles, OneCapture, Capturing, Role, Opens, Runs, SealsFor
<1>. QED
  BY Entries, <1>a, <1>1, <1>2, <1>3, <1>4, <1>5, <1>6, <1>7, <1>8, <1>9, <1>10, <1>11, <1>12,
     <1>13, <1>14, <1>15, <1>16, <1>17, <1>18, <1>19, <1>20, <1>21, <1>22, <1>23, <1>24
     DEF Next, Begins, Seals, Fails, Terminated

-----------------------------------------------------------------------------
(* What is followed, and how a session ends *)

(* Whoever is in a callback of a capture is the one STATE speaks of.        *)
LEMMA CapturingFacts ==
  ASSUME IInv, NEW a \in Actors
  PROVE  /\ pc[a] \in Working => ~fatal
         /\ pc[a] \in Opening => /\ a \in Threads /\ primary = a /\ ~finalized
                                 /\ fnEntered \/ preEntry
         /\ pc[a] = "body" => a \in Threads /\ primary = a /\ ~finalized /\ fnEntered
         /\ pc[a] \in Sealing => finalized /\ (fnEntered \/ ~accepting)
         /\ pc[a] \in Sealing /\ a \in Threads => fnEntered
         /\ pc[a] \in Sealing /\ a = Rpc => ~accepting /\ ~fnEntered
         /\ pc[a] \in Failing => fatal /\ ~accepting /\ finalized /\ followed = {}
         /\ pc[a] = "fail_publish" => ~fnEntered
         /\ pc[a] \in Stopping => Over /\ a = Rpc
<1>1. Role(a) /\ (fatal => Idle) /\ (pc[Rpc] \in Stopping => Over)
  BY DEF IInv, Roles, Ends
<1>2. Rpc \notin Threads
  BY SessionAssumption
<1>. QED  BY <1>1, <1>2 DEF Role, Idle, Opens, Runs, SealsFor, Failing

(* An entry finds a window that was not finalised.                          *)
LEMMA EntryFacts ==
  ASSUME IInv, accepting, ~fnEntered
  PROVE  /\ ~fatal /\ host # "gone" /\ ~retired /\ ~disposed /\ pc[Rpc] = "out" /\ (preEntry => ~finalized)
         /\ preEntry \/ followed = {}
         /\ callIdx > 0 => SealedCall(callIdx) \/ preEntry
BY DEF IInv, Ends, Idle, Over, Follows, Files

(* At most the primary thread is followed, and nobody once the call is      *)
(* marked (agent.ts, Stalker.unfollow).                                     *)
LEMMA FollowsStep == IInv /\ [Next]_vars => Follows'
<1> SUFFICES ASSUME IInv, [Next]_vars PROVE Follows'
  OBVIOUS
<1>a. TypeOK /\ Follows
  BY DEF IInv
<1>b. Rpc \notin Threads /\ Threads \subseteq Actors /\ Rpc \in Actors
  BY SessionAssumption DEF Actors
<1>1. ASSUME NEW t \in Threads, NEW k \in {"fn", "init"}, Begun(t, k) PROVE Follows'
  BY <1>1, <1>a, <1>b, CapturingFacts, EntryFacts, SessionAssumption DEF Begun, Begin,
     Follows, Opening, Working, Sealing, Failing, TypeOK
<1>2. ASSUME NEW t \in Threads, Joined(t) PROVE Follows'
  <2>1. ~finalized /\ preEntry /\ followed' \subseteq {t} /\ primary' = t
    BY <1>2, <1>a, EntryFacts DEF Joined, Follows, HandOver
  <2>2. ~finalized' /\ preEntry' /\ inits' > 0
    <3>1. CASE JoinWindow(t) /\ inits' = inits
      BY <1>a, <2>1, <3>1 DEF JoinWindow, Follows
    <3>2. CASE inits' > 0 /\ UNCHANGED <<preEntry, finalized>>
      BY <2>1, <3>2
    <3>. QED  BY <1>2, <3>1, <3>2 DEF Joined
  <2>. QED  BY <2>1, <2>2 DEF Follows
<1>3. ASSUME NEW t \in Threads, OpenTrace(t) PROVE Follows'
  BY <1>3, <1>a, <1>b, CapturingFacts, EntryFacts, SessionAssumption DEF OpenTrace, Follows,
     Opening, Working, Sealing, Failing, TypeOK
<1>4. ASSUME NEW t \in Threads, BeginCall(t) PROVE Follows'
  BY <1>4, <1>a, <1>b, CapturingFacts, EntryFacts, SessionAssumption DEF BeginCall, Follows,
     Opening, Working, Sealing, Failing, TypeOK
<1>5. ASSUME NEW t \in Threads, BeginSession(t) PROVE Follows'
  BY <1>5, <1>a, <1>b, CapturingFacts, EntryFacts, SessionAssumption DEF BeginSession,
     Follows, Opening, Working, Sealing, Failing, TypeOK
<1>6. ASSUME NEW t \in Threads, FollowThread(t) PROVE Follows'
  BY <1>6, <1>a, <1>b, CapturingFacts, EntryFacts, SessionAssumption DEF FollowThread,
     Follows, Opening, Working, Sealing, Failing, TypeOK
<1>7. ASSUME NEW t \in Threads, Leave(t) PROVE Follows'
  BY <1>7, <1>a, <1>b, CapturingFacts, EntryFacts, SessionAssumption DEF Leave, Unfollowed,
     Follows, Opening, Working, Sealing, Failing, TypeOK
<1>8. ASSUME NEW t \in Threads, LeaveInit(t) PROVE Follows'
  BY <1>8, <1>a, <1>b, CapturingFacts, EntryFacts, SessionAssumption DEF LeaveInit,
     Unfollowed, Follows, Opening, Working, Sealing, Failing, TypeOK
<1>9. ASSUME NEW t \in Threads, End(t) PROVE Follows'
  BY <1>9, <1>a, <1>b, CapturingFacts, EntryFacts, SessionAssumption DEF End, WindowAfter,
     Follows, Opening, Working, Sealing, Failing, TypeOK
<1>10. ASSUME NEW a \in Actors, Flush(a) PROVE Follows'
  BY <1>10, <1>a, <1>b, CapturingFacts, EntryFacts, SessionAssumption DEF Flush, Follows,
     Opening, Working, Sealing, Failing, TypeOK
<1>11. ASSUME NEW a \in Actors, Close(a) PROVE Follows'
  BY <1>11, <1>a, <1>b, CapturingFacts, EntryFacts, SessionAssumption DEF Close, Follows,
     Opening, Working, Sealing, Failing, TypeOK
<1>12. ASSUME NEW a \in Actors, SealBegin(a) PROVE Follows'
  BY <1>12, <1>a, <1>b, CapturingFacts, EntryFacts, SessionAssumption DEF SealBegin, Follows,
     Opening, Working, Sealing, Failing, TypeOK
<1>13. ASSUME NEW a \in Actors, SealCall(a) PROVE Follows'
  BY <1>13, <1>a, <1>b, CapturingFacts, EntryFacts, SessionAssumption DEF SealCall, Follows,
     Opening, Working, Sealing, Failing, TypeOK
<1>14. ASSUME NEW a \in Actors, SealSession(a) PROVE Follows'
  BY <1>14, <1>a, <1>b, CapturingFacts, EntryFacts, SessionAssumption DEF SealSession,
     Follows, Opening, Working, Sealing, Failing, TypeOK
<1>15. ASSUME NEW a \in Actors, FailCapture(a) PROVE Follows'
  BY <1>15, <1>a, <1>b, CapturingFacts, EntryFacts, SessionAssumption DEF FailCapture,
     Follows, Opening, Working, Sealing, Failing, TypeOK
<1>16. ASSUME NEW a \in Actors, FailClose(a) PROVE Follows'
  BY <1>16, <1>a, <1>b, CapturingFacts, EntryFacts, SessionAssumption DEF FailClose, Follows,
     Opening, Working, Sealing, Failing, TypeOK
<1>17. ASSUME NEW a \in Actors, FailPublish(a) PROVE Follows'
  BY <1>17, <1>a, <1>b, CapturingFacts, EntryFacts, SessionAssumption DEF FailPublish,
     Follows, Opening, Working, Sealing, Failing, TypeOK
<1>18. CASE Stop
  BY <1>18, <1>a, <1>b, CapturingFacts, EntryFacts, SessionAssumption DEF Stop,
     AcceptingAfterStop, StopMaySeal, Follows, Opening, Working, Sealing, Failing, TypeOK
<1>19. CASE StopSealed
  BY <1>19, <1>a, <1>b, CapturingFacts, EntryFacts, SessionAssumption DEF StopSealed, Follows,
     Opening, Working, Sealing, Failing, TypeOK
<1>20. CASE StopPublish
  BY <1>20, <1>a, <1>b, CapturingFacts, EntryFacts, SessionAssumption DEF StopPublish,
     Follows, Opening, Working, Sealing, Failing, TypeOK
<1>21. CASE StopEnd
  BY <1>21, <1>a, <1>b, CapturingFacts, EntryFacts, SessionAssumption DEF StopEnd, Follows,
     Opening, Working, Sealing, Failing, TypeOK
<1>22. CASE Dispose
  BY <1>22, <1>a, <1>b, CapturingFacts, EntryFacts, SessionAssumption DEF Dispose, Follows,
     Opening, Working, Sealing, Failing, TypeOK
<1>23. CASE HostPoll
  BY <1>23, <1>a, <1>b, CapturingFacts, EntryFacts, SessionAssumption DEF HostPoll, Follows,
     Opening, Working, Sealing, Failing, TypeOK
<1>24. CASE UNCHANGED vars
  BY <1>24, <1>a, <1>b, CapturingFacts, EntryFacts, SessionAssumption DEF vars, Follows,
     Opening, Working, Sealing, Failing, TypeOK
<1>. QED
  BY Entries, <1>a, <1>1, <1>2, <1>3, <1>4, <1>5, <1>6, <1>7, <1>8, <1>9, <1>10, <1>11, <1>12,
     <1>13, <1>14, <1>15, <1>16, <1>17, <1>18, <1>19, <1>20, <1>21, <1>22, <1>23, <1>24
     DEF Next, Begins, Seals, Fails, Terminated

(* What an entry into a window changes.                                     *)
LEMMA JoinedFacts ==
  ASSUME TypeOK, NEW t \in Threads, Joined(t), ~finalized
  PROVE  /\ UNCHANGED <<accepting, preEntry, callIdx, endVars, traceFile, fileVars, host>>
         /\ ~finalized' /\ pc'[t] \in {"body", "init_body"}
         /\ pc'[t] = "body" => fnEntered'
         /\ pc'[t] = "init_body" => UNCHANGED fnEntered
         /\ \A b \in Actors \ {t} : pc'[b] = pc[b] /\ job'[b] = job[b]
<1>1. t \in Actors
  BY DEF Actors
<1>2. CASE JoinWindow(t)
  <2>1. pc'[t] = "body" /\ \A b \in Actors \ {t} : pc'[b] = pc[b] /\ job'[b] = job[b]
    BY <1>1, <1>2, GotoFacts DEF JoinWindow, TypeOK, PCs
  <2>. QED  BY <1>2, <2>1 DEF Joined, JoinWindow
<1>3. CASE /\ job' = [job EXCEPT ![t] = [kind |-> "init", call |-> callIdx, state |-> "none"]]
           /\ Goto(t, "init_body")
           /\ UNCHANGED <<accepting, fnEntered, preEntry, finalized, callIdx, endVars, traceFile,
                          fileVars>>
  <2>1. pc'[t] = "init_body" /\ \A b \in Actors \ {t} : pc'[b] = pc[b] /\ job'[b] = job[b]
    BY <1>1, <1>3, GotoFacts DEF TypeOK, PCs
  <2>2. ~finalized'
    BY <1>3
  <2>. QED  BY <1>3, <2>1, <2>2 DEF Joined
<1>. QED  BY <1>2, <1>3 DEF Joined

(* When nothing is captured any more, no callback begins to capture again.  *)
LEMMA IdleStays == IInv /\ Idle /\ [Next]_vars => Idle'
<1> SUFFICES ASSUME IInv, Idle, [Next]_vars PROVE Idle'
  OBVIOUS
<1>a. TypeOK /\ Ends /\ Follows
  BY DEF IInv
<1>b. Rpc \notin Threads /\ Threads \subseteq Actors /\ Rpc \in Actors
  BY SessionAssumption DEF Actors
<1>1. ASSUME NEW t \in Threads, NEW k \in {"fn", "init"}, Begun(t, k) PROVE Idle'
  BY <1>1 DEF Idle, Begun
<1>2. ASSUME NEW t \in Threads, Joined(t) PROVE Idle'
  BY <1>2 DEF Idle, Joined
<1>3. ASSUME NEW t \in Threads, OpenTrace(t) PROVE Idle'
  BY <1>3, <1>a, <1>b DEF Idle, OpenTrace, Throws, Opening, Working, Sealing, Failing
<1>4. ASSUME NEW t \in Threads, BeginCall(t) PROVE Idle'
  BY <1>4, <1>a, <1>b DEF Idle, BeginCall, Throws, Opening, Working, Sealing, Failing
<1>5. ASSUME NEW t \in Threads, BeginSession(t) PROVE Idle'
  BY <1>5, <1>a, <1>b DEF Idle, BeginSession, Throws, Opening, Working, Sealing, Failing
<1>6. ASSUME NEW t \in Threads, FollowThread(t) PROVE Idle'
  BY <1>6, <1>a, <1>b DEF Idle, FollowThread, Throws, Opening, Working, Sealing, Failing
<1>7. ASSUME NEW t \in Threads, Leave(t) PROVE Idle'
  BY <1>7, <1>a, <1>b DEF Idle, Leave, Throws, Opening, Working, Sealing, Failing
<1>8. ASSUME NEW t \in Threads, LeaveInit(t) PROVE Idle'
  BY <1>8, <1>a, <1>b DEF LeaveInit, Unfollowed, Idle, Goto, TypeOK, PCs, Opening, Working,
     Sealing, Failing
<1>9. ASSUME NEW t \in Threads, End(t) PROVE Idle'
  BY <1>9, <1>a, <1>b DEF Idle, End, Throws, Opening, Working, Sealing, Failing
<1>10. ASSUME NEW a \in Actors, Flush(a) PROVE Idle'
  BY <1>10, <1>a, <1>b DEF Idle, Flush, Throws, Opening, Working, Sealing, Failing
<1>11. ASSUME NEW a \in Actors, Close(a) PROVE Idle'
  BY <1>11, <1>a, <1>b DEF Idle, Close, Throws, Opening, Working, Sealing, Failing
<1>12. ASSUME NEW a \in Actors, SealBegin(a) PROVE Idle'
  BY <1>12, <1>a, <1>b DEF Idle, SealBegin, Throws, Opening, Working, Sealing, Failing
<1>13. ASSUME NEW a \in Actors, SealCall(a) PROVE Idle'
  BY <1>13, <1>a, <1>b DEF Idle, SealCall, Throws, Opening, Working, Sealing, Failing
<1>14. ASSUME NEW a \in Actors, SealSession(a) PROVE Idle'
  BY <1>14, <1>a, <1>b DEF Idle, SealSession, Throws, Opening, Working, Sealing, Failing
<1>15. ASSUME NEW a \in Actors, FailCapture(a) PROVE Idle'
  BY <1>15, <1>a, <1>b DEF Idle, FailCapture, Throws, Opening, Working, Sealing, Failing
<1>16. ASSUME NEW a \in Actors, FailClose(a) PROVE Idle'
  BY <1>16, <1>a, <1>b DEF FailClose, Idle, Goto, TypeOK, PCs, Opening, Working, Sealing,
     Failing
<1>17. ASSUME NEW a \in Actors, FailPublish(a) PROVE Idle'
  BY <1>17, <1>a, <1>b DEF FailPublish, Idle, Goto, TypeOK, PCs, Opening, Working, Sealing,
     Failing
<1>18. CASE Stop
  BY <1>18, <1>a, <1>b DEF Stop, AcceptingAfterStop, StopMaySeal, Idle, Goto, TypeOK, PCs,
     Opening, Working, Sealing, Failing
<1>19. CASE StopSealed
  BY <1>19, <1>a, <1>b DEF Idle, StopSealed, Throws, Opening, Working, Sealing, Failing
<1>20. CASE StopPublish
  BY <1>20, <1>a, <1>b DEF StopPublish, Idle, Goto, TypeOK, PCs, Opening, Working, Sealing,
     Failing
<1>21. CASE StopEnd
  BY <1>21, <1>a, <1>b DEF StopEnd, Idle, Goto, TypeOK, PCs, Opening, Working, Sealing, Failing
<1>22. CASE Dispose
  BY <1>22, <1>a, <1>b DEF Dispose, Idle, Goto, TypeOK, PCs, Opening, Working, Sealing, Failing
<1>23. CASE HostPoll
  BY <1>23, <1>a, <1>b DEF HostPoll, Idle, Goto, TypeOK, PCs, Opening, Working, Sealing, Failing
<1>24. CASE UNCHANGED vars
  BY <1>24, <1>a, <1>b DEF vars, Idle, Goto, TypeOK, PCs, Opening, Working, Sealing, Failing
<1>. QED
  BY Entries, <1>a, <1>1, <1>2, <1>3, <1>4, <1>5, <1>6, <1>7, <1>8, <1>9, <1>10, <1>11, <1>12,
     <1>13, <1>14, <1>15, <1>16, <1>17, <1>18, <1>19, <1>20, <1>21, <1>22, <1>23, <1>24
     DEF Next, Begins, Seals, Fails, Terminated

(* The same of a session that is over.                                      *)
LEMMA OverStays == IInv /\ Over /\ [Next]_vars => Over'
<1> SUFFICES ASSUME IInv, Over, [Next]_vars PROVE Over'
  OBVIOUS
<1>a. TypeOK /\ Ends /\ Follows
  BY DEF IInv
<1>b. Rpc \notin Threads /\ Threads \subseteq Actors /\ Rpc \in Actors
  BY SessionAssumption DEF Actors
<1>1. ASSUME NEW t \in Threads, NEW k \in {"fn", "init"}, Begun(t, k) PROVE Over'
  BY <1>1 DEF Over, Begun
<1>2. ASSUME NEW t \in Threads, Joined(t) PROVE Over'
  BY <1>2 DEF Over, Joined
<1>3. ASSUME NEW t \in Threads, OpenTrace(t) PROVE Over'
  BY <1>3, <1>a, <1>b DEF Over, OpenTrace, Throws, Opening, Working, Sealing, Failing
<1>4. ASSUME NEW t \in Threads, BeginCall(t) PROVE Over'
  BY <1>4, <1>a, <1>b DEF Over, BeginCall, Throws, Opening, Working, Sealing, Failing
<1>5. ASSUME NEW t \in Threads, BeginSession(t) PROVE Over'
  BY <1>5, <1>a, <1>b DEF Over, BeginSession, Throws, Opening, Working, Sealing, Failing
<1>6. ASSUME NEW t \in Threads, FollowThread(t) PROVE Over'
  BY <1>6, <1>a, <1>b DEF Over, FollowThread, Throws, Opening, Working, Sealing, Failing
<1>7. ASSUME NEW t \in Threads, Leave(t) PROVE Over'
  BY <1>7, <1>a, <1>b DEF Over, Leave, Throws, Opening, Working, Sealing, Failing
<1>8. ASSUME NEW t \in Threads, LeaveInit(t) PROVE Over'
  BY <1>8, <1>a, <1>b DEF LeaveInit, Unfollowed, Over, Goto, TypeOK, PCs, Opening, Working,
     Sealing, Failing
<1>9. ASSUME NEW t \in Threads, End(t) PROVE Over'
  BY <1>9, <1>a, <1>b DEF Over, End, Throws, Opening, Working, Sealing, Failing
<1>10. ASSUME NEW a \in Actors, Flush(a) PROVE Over'
  BY <1>10, <1>a, <1>b DEF Over, Flush, Throws, Opening, Working, Sealing, Failing
<1>11. ASSUME NEW a \in Actors, Close(a) PROVE Over'
  BY <1>11, <1>a, <1>b DEF Over, Close, Throws, Opening, Working, Sealing, Failing
<1>12. ASSUME NEW a \in Actors, SealBegin(a) PROVE Over'
  BY <1>12, <1>a, <1>b DEF Over, SealBegin, Throws, Opening, Working, Sealing, Failing
<1>13. ASSUME NEW a \in Actors, SealCall(a) PROVE Over'
  BY <1>13, <1>a, <1>b DEF Over, SealCall, Throws, Opening, Working, Sealing, Failing
<1>14. ASSUME NEW a \in Actors, SealSession(a) PROVE Over'
  BY <1>14, <1>a, <1>b DEF Over, SealSession, Throws, Opening, Working, Sealing, Failing
<1>15. ASSUME NEW a \in Actors, FailCapture(a) PROVE Over'
  BY <1>15, <1>a, <1>b DEF Over, FailCapture, Throws, Opening, Working, Sealing, Failing
<1>16. ASSUME NEW a \in Actors, FailClose(a) PROVE Over'
  BY <1>16, <1>a, <1>b DEF FailClose, Over, Goto, TypeOK, PCs, Opening, Working, Sealing,
     Failing
<1>17. ASSUME NEW a \in Actors, FailPublish(a) PROVE Over'
  BY <1>17, <1>a, <1>b DEF FailPublish, Over, Goto, TypeOK, PCs, Opening, Working, Sealing,
     Failing
<1>18. CASE Stop
  BY <1>18, <1>a, <1>b DEF Stop, AcceptingAfterStop, StopMaySeal, Over, Goto, TypeOK, PCs,
     Opening, Working, Sealing, Failing
<1>19. CASE StopSealed
  BY <1>19, <1>a, <1>b DEF Over, StopSealed, Throws, Opening, Working, Sealing, Failing
<1>20. CASE StopPublish
  BY <1>20, <1>a, <1>b DEF StopPublish, Over, Goto, TypeOK, PCs, Opening, Working, Sealing,
     Failing
<1>21. CASE StopEnd
  BY <1>21, <1>a, <1>b DEF StopEnd, Over, Goto, TypeOK, PCs, Opening, Working, Sealing, Failing
<1>22. CASE Dispose
  BY <1>22, <1>a, <1>b DEF Dispose, Over, Goto, TypeOK, PCs, Opening, Working, Sealing, Failing
<1>23. CASE HostPoll
  BY <1>23, <1>a, <1>b DEF HostPoll, Over, Goto, TypeOK, PCs, Opening, Working, Sealing, Failing
<1>24. CASE UNCHANGED vars
  BY <1>24, <1>a, <1>b DEF vars, Over, Goto, TypeOK, PCs, Opening, Working, Sealing, Failing
<1>. QED
  BY Entries, <1>a, <1>1, <1>2, <1>3, <1>4, <1>5, <1>6, <1>7, <1>8, <1>9, <1>10, <1>11, <1>12,
     <1>13, <1>14, <1>15, <1>16, <1>17, <1>18, <1>19, <1>20, <1>21, <1>22, <1>23, <1>24
     DEF Next, Begins, Seals, Fails, Terminated

(* A failure stops the capture, a stop or the last call ends the session,   *)
(* and what is freed is not used again (agent.ts, failCapture, stopCapture, *)
(* retireCapture).                                                          *)
LEMMA EndsStep == IInv /\ [Next]_vars => Ends'
<1> SUFFICES ASSUME IInv, [Next]_vars PROVE Ends'
  OBVIOUS
<1>a. TypeOK /\ Ends /\ Follows
  BY DEF IInv
<1>b. Rpc \notin Threads /\ Threads \subseteq Actors /\ Rpc \in Actors
  BY SessionAssumption DEF Actors
<1>c. (Over => Over') /\ (Idle => Idle')
  BY IdleStays, OverStays
<1>1. ASSUME NEW t \in Threads, NEW k \in {"fn", "init"}, Begun(t, k) PROVE Ends'
  <2>1. ~fatal /\ host # "gone" /\ ~retired /\ ~disposed /\ pc[Rpc] = "out"
    BY <1>1, EntryFacts DEF Begun
  <2>2. pc'[Rpc] = pc[Rpc] /\ UNCHANGED <<fatal, retired, disposed, host>> /\ ~finalized'
    BY <1>1, <1>a, <1>b, GotoFacts DEF Begun, Begin, PCs
  <2>. QED  BY <2>1, <2>2 DEF Ends, Stopping
<1>2. ASSUME NEW t \in Threads, Joined(t) PROVE Ends'
  <2>1. ~fatal /\ host # "gone" /\ ~retired /\ ~disposed /\ pc[Rpc] = "out" /\ ~finalized
    BY <1>2, EntryFacts DEF Joined
  <2>2. pc'[Rpc] = pc[Rpc] /\ UNCHANGED <<fatal, retired, disposed, host>> /\ ~finalized'
    BY <1>2, <1>a, <1>b, <2>1, JoinedFacts
  <2>. QED  BY <2>1, <2>2 DEF Ends, Stopping
<1>3. ASSUME NEW t \in Threads, OpenTrace(t) PROVE Ends'
  BY <1>3, <1>a, <1>b, <1>c, CapturingFacts DEF OpenTrace, Ends, Goto, TypeOK, PCs, Stopping,
     Opening, Working, Sealing, Failing
<1>4. ASSUME NEW t \in Threads, BeginCall(t) PROVE Ends'
  BY <1>4, <1>a, <1>b, <1>c, CapturingFacts DEF BeginCall, Ends, Goto, TypeOK, PCs, Stopping,
     Opening, Working, Sealing, Failing
<1>5. ASSUME NEW t \in Threads, BeginSession(t) PROVE Ends'
  BY <1>5, <1>a, <1>b, <1>c, CapturingFacts DEF BeginSession, Ends, Goto, TypeOK, PCs,
     Stopping, Opening, Working, Sealing, Failing
<1>6. ASSUME NEW t \in Threads, FollowThread(t) PROVE Ends'
  BY <1>6, <1>a, <1>b, <1>c, CapturingFacts DEF FollowThread, Ends, Goto, TypeOK, PCs,
     Stopping, Opening, Working, Sealing, Failing
<1>7. ASSUME NEW t \in Threads, Leave(t) PROVE Ends'
  BY <1>7, <1>a, <1>b, <1>c, CapturingFacts DEF Leave, Unfollowed, Ends, Goto, TypeOK, PCs,
     Stopping, Opening, Working, Sealing, Failing
<1>8. ASSUME NEW t \in Threads, LeaveInit(t) PROVE Ends'
  BY <1>8, <1>a, <1>b, <1>c, CapturingFacts DEF LeaveInit, Unfollowed, Ends, Goto, TypeOK,
     PCs, Stopping, Opening, Working, Sealing, Failing
<1>9. ASSUME NEW t \in Threads, End(t) PROVE Ends'
  <2>1. \A b \in Actors : pc'[b] \notin Working
    BY <1>9, <1>a, <1>b, OthersOut, GotoFacts DEF End, PCs, Opening, Working, Sealing, Failing
  <2>2. finalized /\ followed = {}
    BY <1>9, <1>a, <1>b, CapturingFacts DEF End, Follows, Opening, Working, Sealing, Failing
  <2>3. SessionComplete => Over'
    BY <1>9, <2>1, <2>2 DEF End, WindowAfter, Over
  <2>. QED  BY <1>9, <1>a, <1>b, <1>c, <2>3 DEF End, WindowAfter, Ends, Goto, TypeOK
<1>10. ASSUME NEW a \in Actors, Flush(a) PROVE Ends'
  BY <1>10, <1>a, <1>b, <1>c, CapturingFacts DEF Flush, Ends, Goto, TypeOK, PCs, Stopping,
     Opening, Working, Sealing, Failing
<1>11. ASSUME NEW a \in Actors, Close(a) PROVE Ends'
  BY <1>11, <1>a, <1>b, <1>c, CapturingFacts DEF Close, Ends, Goto, TypeOK, PCs, Stopping,
     Opening, Working, Sealing, Failing
<1>12. ASSUME NEW a \in Actors, SealBegin(a) PROVE Ends'
  BY <1>12, <1>a, <1>b, <1>c, CapturingFacts DEF SealBegin, Ends, Goto, TypeOK, PCs, Stopping,
     Opening, Working, Sealing, Failing
<1>13. ASSUME NEW a \in Actors, SealCall(a) PROVE Ends'
  BY <1>13, <1>a, <1>b, <1>c, CapturingFacts DEF SealCall, Ends, Goto, TypeOK, PCs, Stopping,
     Opening, Working, Sealing, Failing
<1>14. ASSUME NEW a \in Actors, SealSession(a) PROVE Ends'
  BY <1>14, <1>a, <1>b, <1>c, CapturingFacts DEF SealSession, Ends, Goto, TypeOK, PCs,
     Stopping, Opening, Working, Sealing, Failing
<1>15. ASSUME NEW a \in Actors, FailCapture(a) PROVE Ends'
  <2>1. \A b \in Actors : pc'[b] \notin Working
    BY <1>15, <1>a, <1>b, OthersOut, GotoFacts DEF FailCapture, Throws, PCs, Opening, Working,
       Sealing, Failing
  <2>2. followed' = {}
    BY <1>15, <1>a DEF FailCapture, Follows
  <2>3. Idle'
    BY <1>15, <2>1, <2>2 DEF FailCapture, Idle
  <2>4. pc[a] \in Working /\ pc'[a] = "fail_close"
    BY <1>15, <1>a, GotoFacts DEF FailCapture, Throws, PCs, Opening, Working, Sealing, Failing
  <2>5. (pc[Rpc] # "out" => host = "gone")' /\ (pc[Rpc] \in Stopping => Over)'
    BY <1>15, <1>a, <1>b, <1>c, <2>4, GotoFacts DEF FailCapture, Ends, Stopping, Goto, TypeOK,
       Opening, Working, Sealing, Failing
  <2>. QED  BY <1>15, <1>a, <1>c, <2>3, <2>5 DEF FailCapture, Ends
<1>16. ASSUME NEW a \in Actors, FailClose(a) PROVE Ends'
  BY <1>16, <1>a, <1>b, <1>c, CapturingFacts DEF FailClose, Ends, Goto, TypeOK, PCs, Stopping,
     Opening, Working, Sealing, Failing
<1>17. ASSUME NEW a \in Actors, FailPublish(a) PROVE Ends'
  <2>1. Idle /\ ~fnEntered
    BY <1>17, <1>a, CapturingFacts DEF FailPublish, Ends, Opening, Working, Sealing, Failing
  <2>2. Over
    BY <2>1 DEF Idle, Over
  <2>. QED  BY <1>17, <1>a, <1>b, <1>c, <2>1, <2>2 DEF FailPublish, Ends, Goto, TypeOK, Stopping
<1>18. CASE Stop
  <2>1. CASE ~fnEntered /\ ~(preEntry /\ ~finalized)
    <3>1. pc'[Rpc] = "stop_publish" /\ \A b \in Actors \ {Rpc} : pc'[b] = pc[b]
      BY <1>18, <1>a, <1>b, <2>1, GotoFacts DEF Stop, StopMaySeal, PCs
    <3>2. \A b \in Actors : pc[b] \notin Working
      <4>1. ASSUME NEW b \in Actors, pc[b] \in Working PROVE FALSE
        <5>1. b # Rpc
          BY <1>18, <4>1 DEF Stop, Opening, Working, Sealing, Failing
        <5>2. b \in Threads
          BY <5>1 DEF Actors
        <5>. QED  BY <2>1, <4>1, <5>2, CapturingFacts DEF Working
      <4>. QED  BY <4>1
    <3>3. Over'
      BY <1>18, <1>a, <2>1, <3>1, <3>2 DEF Stop, StopMaySeal, AcceptingAfterStop, Over,
         Follows, Opening, Working, Sealing, Failing
    <3>. QED  BY <1>18, <1>a, <1>c, <2>1, <3>1, <3>3 DEF Stop, StopMaySeal,
                 AcceptingAfterStop, Ends, TypeOK
  <2>2. CASE ~fnEntered /\ preEntry /\ ~finalized
    <3>1. pc'[Rpc] = "flush" /\ \A b \in Actors \ {Rpc} : pc'[b] = pc[b]
      BY <1>18, <1>a, <1>b, <2>2, GotoFacts DEF Stop, StopMaySeal, PCs
    <3>. QED  BY <1>18, <1>a, <1>c, <2>2, <3>1 DEF Stop, StopMaySeal, AcceptingAfterStop,
                 Ends, Stopping, Idle, Over
  <2>3. CASE fnEntered
    BY <1>18, <1>a, <1>c, <2>3 DEF Stop, StopMaySeal, AcceptingAfterStop, Ends
  <2>. QED  BY <2>1, <2>2, <2>3
<1>19. CASE StopSealed
  <2>1. \A b \in Actors : pc'[b] \notin Working
    BY <1>19, <1>a, <1>b, OthersOut, GotoFacts DEF StopSealed, PCs, Opening, Working, Sealing,
       Failing
  <2>2. ~accepting /\ ~fnEntered /\ followed = {}
    BY <1>19, <1>a, <1>b, CapturingFacts DEF StopSealed, Follows, Opening, Working, Sealing,
       Failing
  <2>3. Over'
    BY <1>19, <2>1, <2>2 DEF StopSealed, Over
  <2>. QED  BY <1>19, <1>a, <1>b, <1>c, <2>3 DEF StopSealed, Ends, Goto, TypeOK
<1>20. CASE StopPublish
  BY <1>20, <1>a, <1>b, <1>c, CapturingFacts DEF StopPublish, Ends, Goto, TypeOK, PCs,
     Stopping, Opening, Working, Sealing, Failing
<1>21. CASE StopEnd
  BY <1>21, <1>a, <1>b, <1>c, CapturingFacts DEF StopEnd, Ends, Goto, TypeOK, PCs, Stopping,
     Opening, Working, Sealing, Failing
<1>22. CASE Dispose
  BY <1>22, <1>a, <1>b, <1>c, CapturingFacts DEF Dispose, Ends, Goto, TypeOK, PCs, Stopping,
     Opening, Working, Sealing, Failing
<1>23. CASE HostPoll
  BY <1>23, <1>a, <1>b, <1>c, CapturingFacts DEF HostPoll, Ends, Goto, TypeOK, PCs, Stopping,
     Opening, Working, Sealing, Failing
<1>24. CASE UNCHANGED vars
  BY <1>24, <1>a, <1>b, <1>c, CapturingFacts DEF vars, Ends, Goto, TypeOK, PCs, Stopping,
     Opening, Working, Sealing, Failing
<1>. QED
  BY Entries, <1>a, <1>1, <1>2, <1>3, <1>4, <1>5, <1>6, <1>7, <1>8, <1>9, <1>10, <1>11, <1>12,
     <1>13, <1>14, <1>15, <1>16, <1>17, <1>18, <1>19, <1>20, <1>21, <1>22, <1>23, <1>24
     DEF Next, Begins, Seals, Fails, Terminated

-----------------------------------------------------------------------------
(* The manifests *)

(* The file that is written is that of the call in progress, and it is not  *)
(* sealed before its trace file is closed (manifest.ts, atomicJson).        *)
LEMMA CallWritten ==
  ASSUME IInv, NEW a \in Actors, pc[a] \in Working \cup Failing
  PROVE  /\ \A c \in Calls \ {callIdx} : CallRenamed(a)[c] = callFile[c]
         /\ callIdx \in Calls /\ SealedCall(callIdx) => CallRenamed(a) = callFile
         /\ callIdx \in Calls /\ pc[a] = "begin_call" => CallRenamed(a)[callIdx].state = "CAPTURING"
         /\ callIdx \in Calls /\ pc[a] = "seal_call" => CallRenamed(a)[callIdx].state = "SEALED"
<1>1. TypeOK /\ Roles /\ Published /\ Files
  BY DEF IInv
<1>2. SealedCall(callIdx) /\ callIdx \in Calls => pc[a] \notin {"begin_call", "seal_call"}
  BY <1>1 DEF Files, Working, Opening, Sealing, Calls
<1>3. pc[a] = "begin_call" => manifest.state = "CAPTURING"
  BY <1>1 DEF Files
<1>. QED  BY <1>1, <1>2, <1>3, Renamed DEF TypeOK

(* A sealed call manifest is never written again.                           *)
LEMMA SealedStays ==
  ASSUME IInv, [Next]_vars
  PROVE  /\ \A c \in Calls : c # callIdx \/ SealedCall(c) => callFile'[c] = callFile[c]
         /\ \/ callFile' = callFile
            \/ \E a \in Actors : /\ pc[a] \in {"begin_call", "seal_call"}
                                 /\ callFile' = CallRenamed(a) /\ UNCHANGED callIdx
<1>1. ASSUME NEW a \in Actors, pc[a] \in {"begin_call", "seal_call"}, callFile' = CallRenamed(a)
      PROVE  \A c \in Calls : c # callIdx \/ SealedCall(c) => callFile'[c] = callFile[c]
  BY <1>1, CallWritten DEF Working, Opening, Sealing
<1>2. \/ callFile' = callFile
      \/ \E a \in Actors : /\ pc[a] \in {"begin_call", "seal_call"}
                           /\ callFile' = CallRenamed(a) /\ UNCHANGED callIdx
  <2>1. ASSUME NEW a \in Actors, FailCapture(a)
        PROVE  callFile' = callFile \/ (pc[a] \in {"begin_call", "seal_call"} /\ callFile' = CallRenamed(a)
                                        /\ UNCHANGED callIdx)
    <3>1. TypeOK /\ Roles /\ Published
      BY DEF IInv
    <3>. QED  BY <2>1, <3>1, Renamed DEF FailCapture
  <2>2. ASSUME NEW t \in Threads, BeginCall(t)
        PROVE  pc[t] = "begin_call" /\ callFile' = CallRenamed(t) /\ UNCHANGED callIdx /\ t \in Actors
    BY <2>2 DEF BeginCall, Actors
  <2>3. ASSUME NEW a \in Actors, SealCall(a)
        PROVE  pc[a] = "seal_call" /\ callFile' = CallRenamed(a) /\ UNCHANGED callIdx
    BY <2>3 DEF SealCall
  <2>4. \/ (\E a \in Actors : FailCapture(a)) \/ (\E t \in Threads : BeginCall(t))
        \/ (\E a \in Actors : SealCall(a)) \/ callFile' = callFile
    BY DEF Next, vars, Begins, Seals, Fails, Enter, EnterInit, JoinWindow, Begin, OpenTrace,
       BeginSession, FollowThread, Leave, LeaveInit, End, Flush, Close, SealBegin, SealSession,
       FailClose, FailPublish, Stop, StopSealed, StopPublish, StopEnd, Dispose, HostPoll,
       Terminated
  <2>. QED  BY <2>1, <2>2, <2>3, <2>4
<1>. QED  BY <1>1, <1>2


(* Calls are numbered as they begin, each is sealed before the next begins, *)
(* and after it is nothing is added to it (agent.ts, manifest.ts).          *)
LEMMA FilesStep == IInv /\ OpensAlone /\ [Next]_vars => Files'
<1> SUFFICES ASSUME IInv, OpensAlone, [Next]_vars PROVE Files'
  OBVIOUS
<1>a. TypeOK /\ Files /\ Follows
  BY DEF IInv
<1>b. Rpc \notin Threads /\ Threads \subseteq Actors /\ Rpc \in Actors
  BY SessionAssumption DEF Actors
<1>c. \A c \in Calls : c # callIdx \/ SealedCall(c) => callFile'[c] = callFile[c]
  BY SealedStays
<1>d. callIdx \in Nat /\ (callIdx > 0 => callIdx \in Calls) /\ MaxCalls \in Nat
  BY <1>a, SessionAssumption DEF TypeOK, Calls
<1>1. ASSUME NEW t \in Threads, NEW k \in {"fn", "init"}, Begun(t, k) PROVE Files'
  <2>1. \A b \in Actors : pc[b] \notin Working \cup Failing
    BY <1>1, NobodyCaptures DEF Begun
  <2>2. /\ callIdx' = callIdx + 1 /\ callIdx + 1 \in Calls
        /\ UNCHANGED <<callFile, calls, manifest>>
    BY <1>1, <1>a, <1>d DEF Begun, Begin, Calls
  <2>8. fnEntered' \/ preEntry'
    <3>1. CASE k = "fn"
      BY <1>1, <3>1 DEF Begun, Begin
    <3>2. CASE k = "init"
      BY <1>1, <3>2 DEF Begun, Begin
    <3>. QED  BY <3>1, <3>2
  <2>3. pc'[t] = "open" /\ \A b \in Actors \ {t} : pc'[b] = pc[b]
    BY <1>1, <1>a, <1>b, GotoFacts DEF Begun, Begin, PCs
  <2>4. callFile[callIdx + 1] = NoFile /\ ~SealedCall(callIdx + 1)
    BY <1>a, <1>d, <2>2 DEF Files, NoFile, SealedCall
  <2>5. \A c \in Calls : c < callIdx + 1 => SealedCall(c)
    <3>1. callIdx > 0 => SealedCall(callIdx)
      BY <1>1, EntryFacts DEF Begun
    <3>. QED  BY <1>a, <1>d, <3>1 DEF Files, Calls
  <2>6. \A c \in Calls : c > callIdx + 1 => callFile[c] = NoFile
    BY <1>a, <1>d DEF Files, Calls
  <2>7. \A c \in calls : c <= callIdx + 1
    BY <1>a, <1>d DEF Files, TypeOK, Calls
  <2>. QED  BY <1>d, <2>1, <2>2, <2>3, <2>4, <2>5, <2>6, <2>7, <2>8 DEF Files, SealedCall,
               Opening, Working, Sealing, Failing
<1>2. ASSUME NEW t \in Threads, Joined(t) PROVE Files'
  <2>1. preEntry /\ ~finalized /\ callIdx > 0
    BY <1>2, <1>d, EntryFacts DEF Joined, IInv, Counts, TypeOK
  <2>2. /\ UNCHANGED <<accepting, preEntry, callIdx, fatal, traceFile, manifest, calls, callFile>>
        /\ pc'[t] \in {"body", "init_body"} /\ \A b \in Actors \ {t} : pc'[b] = pc[b]
    BY <1>2, <1>a, <2>1, JoinedFacts
  <2>3. ~SealedCall(callIdx)
    BY <1>a, <2>1 DEF Files
  <2>. QED  BY <1>a, <2>1, <2>2, <2>3 DEF Files, SealedCall, Opening, Working, Sealing, Failing
<1>3. ASSUME NEW t \in Threads, OpenTrace(t) PROVE Files'
  BY <1>3, <1>a, <1>b, <1>c, <1>d, CapturingFacts, CallWritten DEF OpenTrace, Files,
     SealedCall, Goto, TypeOK, Calls, Opening, Working, Sealing, Failing
<1>4. ASSUME NEW t \in Threads, BeginCall(t) PROVE Files'
  <2>1. /\ pc[t] = "begin_call" /\ callFile' = CallRenamed(t) /\ calls' = calls \cup {callIdx}
        /\ pc'[t] = "begin_session" /\ \A b \in Actors \ {t} : pc'[b] = pc[b]
        /\ UNCHANGED <<callIdx, fatal, fnEntered, preEntry>>
    <3>1. job[t].call = callIdx
      BY <1>4, <1>b DEF BeginCall, IInv, Roles, Role, Opens, Opening
    <3>. QED  BY <1>4, <1>a, <1>b, <3>1, GotoFacts DEF BeginCall, PCs
  <2>2. callIdx \in Calls /\ callFile'[callIdx].state = "CAPTURING"
    BY <1>a, <1>b, <1>d, <2>1, CallWritten DEF Files, Opening, Working, Sealing, Failing
  <2>3. \A b \in Actors \ {t} : pc[b] \notin Working
    BY <1>b, <2>1, OthersOut DEF Opening, Working, Sealing, Failing
  <2>4. fnEntered \/ preEntry
    BY <1>b, <2>1, CapturingFacts DEF Opening
  <2>. QED  BY <1>a, <1>b, <1>c, <1>d, <2>1, <2>2, <2>3, <2>4 DEF Files, SealedCall, Opening,
               Working, Sealing, Failing
<1>5. ASSUME NEW t \in Threads, BeginSession(t) PROVE Files'
  BY <1>5, <1>a, <1>b, <1>c, <1>d, CapturingFacts, CallWritten DEF BeginSession, Files,
     SealedCall, Goto, TypeOK, Calls, Opening, Working, Sealing, Failing
<1>6. ASSUME NEW t \in Threads, FollowThread(t) PROVE Files'
  BY <1>6, <1>a, <1>b, <1>c, <1>d, CapturingFacts, CallWritten DEF FollowThread, Files,
     SealedCall, Goto, TypeOK, Calls, Opening, Working, Sealing, Failing
<1>7. ASSUME NEW t \in Threads, Leave(t) PROVE Files'
  BY <1>7, <1>a, <1>b, <1>c, <1>d, CapturingFacts, CallWritten DEF Leave, Unfollowed, Files,
     SealedCall, Goto, TypeOK, Calls, Opening, Working, Sealing, Failing
<1>8. ASSUME NEW t \in Threads, LeaveInit(t) PROVE Files'
  BY <1>8, <1>a, <1>b, <1>c, <1>d, CapturingFacts, CallWritten DEF LeaveInit, Unfollowed,
     Files, SealedCall, Goto, TypeOK, Calls, Opening, Working, Sealing, Failing
<1>9. ASSUME NEW t \in Threads, End(t) PROVE Files'
  BY <1>9, <1>a, <1>b, <1>c, <1>d, CapturingFacts, CallWritten DEF End, WindowAfter, Files,
     SealedCall, Goto, TypeOK, Calls, Opening, Working, Sealing, Failing
<1>10. ASSUME NEW a \in Actors, Flush(a) PROVE Files'
  BY <1>10, <1>a, <1>b, <1>c, <1>d, CapturingFacts, CallWritten DEF Flush, Files, SealedCall,
     Goto, TypeOK, Calls, Opening, Working, Sealing, Failing
<1>11. ASSUME NEW a \in Actors, Close(a) PROVE Files'
  BY <1>11, <1>a, <1>b, <1>c, <1>d, CapturingFacts, CallWritten DEF Close, Files, SealedCall,
     Goto, TypeOK, Calls, Opening, Working, Sealing, Failing
<1>12. ASSUME NEW a \in Actors, SealBegin(a) PROVE Files'
  BY <1>12, <1>a, <1>b, <1>c, <1>d, CapturingFacts, CallWritten DEF SealBegin, Files,
     SealedCall, Goto, TypeOK, Calls, Opening, Working, Sealing, Failing
<1>13. ASSUME NEW a \in Actors, SealCall(a) PROVE Files'
  <2>1. /\ pc[a] = "seal_call" /\ callFile' = CallRenamed(a)
        /\ pc'[a] = "seal_session" /\ \A b \in Actors \ {a} : pc'[b] = pc[b]
        /\ UNCHANGED <<accepting, callIdx, calls, fatal, fnEntered, preEntry, finalized, traceFile, followed>>
    BY <1>13, <1>a, GotoFacts DEF SealCall, PCs
  <2>2. callIdx \in Calls /\ callFile'[callIdx].state = "SEALED"
    BY <1>a, <1>d, <2>1, CallWritten DEF Files, Opening, Working, Sealing, Failing
  <2>3. \A b \in Actors \ {a} : pc[b] \notin Working
    BY <2>1, OthersOut DEF Opening, Working, Sealing, Failing
  <2>4. finalized /\ traceFile = 0 /\ followed = {} /\ (accepting => fnEntered)
    BY <1>a, <2>1, CapturingFacts DEF Sealing, IInv, Roles, Role, SealsFor, Follows
  <2>. QED  BY <1>a, <1>c, <1>d, <2>1, <2>2, <2>3, <2>4 DEF Files, SealedCall, Opening,
               Working, Sealing, Failing
<1>14. ASSUME NEW a \in Actors, SealSession(a) PROVE Files'
  BY <1>14, <1>a, <1>b, <1>c, <1>d, CapturingFacts, CallWritten DEF SealSession, Files,
     SealedCall, Goto, TypeOK, Calls, Opening, Working, Sealing, Failing
<1>15. ASSUME NEW a \in Actors, FailCapture(a) PROVE Files'
  <2>1. /\ pc[a] \in Working /\ pc'[a] = "fail_close" /\ \A b \in Actors \ {a} : pc'[b] = pc[b]
        /\ fatal' /\ ~accepting' /\ finalized' /\ UNCHANGED <<callIdx, calls, traceFile>>
        /\ callFile' = callFile \/ callFile' = CallRenamed(a)
    BY <1>15, <1>a, GotoFacts DEF FailCapture, Throws, PCs, Opening, Working, Sealing, Failing
  <2>2. \A b \in Actors : pc'[b] \notin Working
    BY <2>1, OthersOut DEF Opening, Working, Sealing, Failing
  <2>3. followed' = {}
    BY <1>15, <1>a DEF FailCapture, Follows
  <2>4. callIdx \in Calls
    BY <1>a, <1>d, <2>1 DEF Files
  <2>5. callFile'[callIdx].state = "SEALED" => traceFile = 0
    <3>1. pc[a] = "seal_call" => traceFile = 0
      BY DEF IInv, Roles, Role, SealsFor, Sealing
    <3>2. pc[a] \notin {"begin_call", "seal_call"} => callFile' = callFile
      BY <2>1, Renamed DEF IInv
    <3>3. pc[a] = "begin_call" => callFile' = callFile \/ callFile'[callIdx].state = "CAPTURING"
      BY <2>1, <2>4, CallWritten
    <3>. QED  BY <1>a, <2>4, <3>1, <3>2, <3>3 DEF Files, SealedCall, Calls
  <2>. QED  BY <1>a, <1>c, <1>d, <2>1, <2>2, <2>3, <2>4, <2>5 DEF Files, SealedCall, Opening,
               Working, Sealing, Failing
<1>16. ASSUME NEW a \in Actors, FailClose(a) PROVE Files'
  BY <1>16, <1>a, <1>b, <1>c, <1>d, CapturingFacts, CallWritten DEF FailClose, Files,
     SealedCall, Goto, TypeOK, Calls, Opening, Working, Sealing, Failing
<1>17. ASSUME NEW a \in Actors, FailPublish(a) PROVE Files'
  BY <1>17, <1>a, <1>b, <1>c, <1>d, CapturingFacts, CallWritten DEF FailPublish, Files,
     SealedCall, Goto, TypeOK, Calls, Opening, Working, Sealing, Failing
<1>18. CASE Stop
  <2>1. UNCHANGED <<fnEntered, preEntry, callIdx, fatal, traceFile, manifest, calls, callFile>> /\ ~accepting'
    BY <1>18 DEF Stop, AcceptingAfterStop
  <2>2. followed = {} => followed' = {}
    BY <1>18 DEF Stop
  <2>3. finalized => finalized'
    BY <1>18 DEF Stop
  <2>4. CASE \A b \in Actors : pc'[b] \in Working => pc'[b] = pc[b]
    BY <1>a, <2>1, <2>2, <2>3, <2>4 DEF Files, SealedCall, Opening, Working, Sealing, Failing
  <2>5. CASE preEntry /\ ~finalized /\ pc'[Rpc] = "flush" /\ \A b \in Actors \ {Rpc} : pc'[b] = pc[b]
    <3>1. callIdx > 0 /\ ~SealedCall(callIdx)
      BY <1>a, <1>d, <2>5 DEF Files, IInv, Counts, TypeOK
    <3>. QED  BY <1>a, <2>1, <2>5, <3>1 DEF Files, SealedCall, Opening, Working, Sealing,
                 Failing
  <2>6. \/ preEntry /\ ~finalized /\ Goto(Rpc, "flush")
        \/ Goto(Rpc, "stop_publish")
        \/ pc' = pc
    BY <1>18 DEF Stop
  <2>. QED  BY <1>a, <1>b, <2>4, <2>5, <2>6, GotoFacts DEF PCs, Opening, Working, Sealing,
               Failing
<1>19. CASE StopSealed
  BY <1>19, <1>a, <1>b, <1>c, <1>d, CapturingFacts, CallWritten DEF StopSealed, Files,
     SealedCall, Goto, TypeOK, Calls, Opening, Working, Sealing, Failing
<1>20. CASE StopPublish
  BY <1>20, <1>a, <1>b, <1>c, <1>d, CapturingFacts, CallWritten DEF StopPublish, Files,
     SealedCall, Goto, TypeOK, Calls, Opening, Working, Sealing, Failing
<1>21. CASE StopEnd
  BY <1>21, <1>a, <1>b, <1>c, <1>d, CapturingFacts, CallWritten DEF StopEnd, Files,
     SealedCall, Goto, TypeOK, Calls, Opening, Working, Sealing, Failing
<1>22. CASE Dispose
  BY <1>22, <1>a, <1>b, <1>c, <1>d, CapturingFacts, CallWritten DEF Dispose, Files,
     SealedCall, Goto, TypeOK, Calls, Opening, Working, Sealing, Failing
<1>23. CASE HostPoll
  BY <1>23, <1>a, <1>b, <1>c, <1>d, CapturingFacts, CallWritten DEF HostPoll, Files,
     SealedCall, Goto, TypeOK, Calls, Opening, Working, Sealing, Failing
<1>24. CASE UNCHANGED vars
  BY <1>24, <1>a, <1>b, <1>c, <1>d, CapturingFacts, CallWritten DEF vars, Files, SealedCall,
     Goto, TypeOK, Calls, Opening, Working, Sealing, Failing
<1>. QED
  BY Entries, <1>a, <1>1, <1>2, <1>3, <1>4, <1>5, <1>6, <1>7, <1>8, <1>9, <1>10, <1>11, <1>12,
     <1>13, <1>14, <1>15, <1>16, <1>17, <1>18, <1>19, <1>20, <1>21, <1>22, <1>23, <1>24
     DEF Next, Begins, Seals, Fails, Terminated

(* completedCalls is never more than the calls that were sealed (agent.ts,  *)
(* the end of onLeave).                                                     *)
LEMMA CountsStep == IInv /\ [Next]_vars => Counts'
<1> SUFFICES ASSUME IInv, [Next]_vars PROVE Counts'
  OBVIOUS
<1>a. TypeOK /\ Counts
  BY DEF IInv
<1>b. Rpc \notin Threads /\ Threads \subseteq Actors /\ Rpc \in Actors
  BY SessionAssumption DEF Actors
<1>c. \A c \in Calls : SealedCall(c) => callFile'[c] = callFile[c]
  BY SealedStays
<1>d. callIdx \in Nat /\ completed \in Nat /\ (callIdx > 0 => callIdx \in Calls) /\ MaxCalls \in Nat
  BY <1>a, SessionAssumption DEF TypeOK, Calls
<1>1. ASSUME NEW t \in Threads, NEW k \in {"fn", "init"}, Begun(t, k) PROVE Counts'
  <2>1. /\ callIdx' = callIdx + 1 /\ pc'[t] = "open" /\ UNCHANGED <<completed, calls>>
    BY <1>1, <1>a, <1>b, GotoFacts DEF Begun, Begin, PCs
  <2>. QED  BY <1>a, <1>b, <1>d, <2>1 DEF Counts
<1>2. ASSUME NEW t \in Threads, Joined(t) PROVE Counts'
  <2>1. ~finalized /\ preEntry /\ ~fatal
    BY <1>2, EntryFacts DEF Joined
  <2>2. /\ UNCHANGED <<callIdx, completed, calls, callFile, fatal>> /\ pc[t] = "out"
        /\ \A b \in Actors \ {t} : pc'[b] = pc[b]
    BY <1>2, <1>a, <2>1, JoinedFacts DEF Joined
  <2>. QED  BY <1>a, <1>b, <1>d, <2>1, <2>2 DEF Counts, SealedCall
<1>3. ASSUME NEW t \in Threads, OpenTrace(t) PROVE Counts'
  BY <1>3, <1>a, <1>b, <1>c, <1>d DEF OpenTrace, Counts, SealedCall, Goto, TypeOK, Calls
<1>4. ASSUME NEW t \in Threads, BeginCall(t) PROVE Counts'
  BY <1>4, <1>a, <1>b, <1>c, <1>d DEF BeginCall, Counts, SealedCall, Goto, TypeOK, Calls
<1>5. ASSUME NEW t \in Threads, BeginSession(t) PROVE Counts'
  BY <1>5, <1>a, <1>b, <1>c, <1>d DEF BeginSession, Counts, SealedCall, Goto, TypeOK, Calls
<1>6. ASSUME NEW t \in Threads, FollowThread(t) PROVE Counts'
  BY <1>6, <1>a, <1>b, <1>c, <1>d DEF FollowThread, Counts, SealedCall, Goto, TypeOK, Calls
<1>7. ASSUME NEW t \in Threads, Leave(t) PROVE Counts'
  BY <1>7, <1>a, <1>b, <1>c, <1>d DEF Leave, Unfollowed, Counts, SealedCall, Goto, TypeOK, Calls
<1>8. ASSUME NEW t \in Threads, LeaveInit(t) PROVE Counts'
  BY <1>8, <1>a, <1>b, <1>c, <1>d DEF LeaveInit, Unfollowed, Counts, SealedCall, Goto, TypeOK,
     Calls
<1>9. ASSUME NEW t \in Threads, End(t) PROVE Counts'
  <2>1. pc[t] = "end" /\ fnEntered /\ ~fatal /\ SealedCall(callIdx) /\ callIdx > 0
    BY <1>9, <1>b, CapturingFacts DEF End, IInv, Files, Sealing, Working
  <2>2. \A b \in Actors : pc[b] \notin {"open", "begin_call"}
    BY <1>b, <2>1, OthersOut DEF Working, Opening, Sealing
  <2>3. /\ completed' = completed + 1 /\ ~fnEntered' /\ ~preEntry'
        /\ UNCHANGED <<callIdx, callFile, calls>>
    BY <1>9 DEF End, WindowAfter
  <2>4. completed + 1 <= callIdx /\ calls # {}
    BY <1>a, <1>d, <2>1, <2>2 DEF Counts
  <2>. QED  BY <1>d, <2>1, <2>3, <2>4 DEF Counts, SealedCall
<1>10. ASSUME NEW a \in Actors, Flush(a) PROVE Counts'
  BY <1>10, <1>a, <1>b, <1>c, <1>d DEF Flush, Counts, SealedCall, Goto, TypeOK, Calls
<1>11. ASSUME NEW a \in Actors, Close(a) PROVE Counts'
  BY <1>11, <1>a, <1>b, <1>c, <1>d DEF Close, Counts, SealedCall, Goto, TypeOK, Calls
<1>12. ASSUME NEW a \in Actors, SealBegin(a) PROVE Counts'
  BY <1>12, <1>a, <1>b, <1>c, <1>d DEF SealBegin, Counts, SealedCall, Goto, TypeOK, Calls
<1>13. ASSUME NEW a \in Actors, SealCall(a) PROVE Counts'
  BY <1>13, <1>a, <1>b, <1>c, <1>d DEF SealCall, Counts, SealedCall, Goto, TypeOK, Calls
<1>14. ASSUME NEW a \in Actors, SealSession(a) PROVE Counts'
  BY <1>14, <1>a, <1>b, <1>c, <1>d DEF SealSession, Counts, SealedCall, Goto, TypeOK, Calls
<1>15. ASSUME NEW a \in Actors, FailCapture(a) PROVE Counts'
  BY <1>15, <1>a, <1>b, <1>c, <1>d DEF FailCapture, Counts, SealedCall, Goto, TypeOK, Calls
<1>16. ASSUME NEW a \in Actors, FailClose(a) PROVE Counts'
  BY <1>16, <1>a, <1>b, <1>c, <1>d DEF FailClose, Counts, SealedCall, Goto, TypeOK, Calls
<1>17. ASSUME NEW a \in Actors, FailPublish(a) PROVE Counts'
  BY <1>17, <1>a, <1>b, <1>c, <1>d DEF FailPublish, Counts, SealedCall, Goto, TypeOK, Calls
<1>18. CASE Stop
  BY <1>18, <1>a, <1>b, <1>c, <1>d DEF Stop, AcceptingAfterStop, StopMaySeal, Counts,
     SealedCall, Goto, TypeOK, Calls
<1>19. CASE StopSealed
  BY <1>19, <1>a, <1>b, <1>c, <1>d DEF StopSealed, Counts, SealedCall, Goto, TypeOK, Calls
<1>20. CASE StopPublish
  BY <1>20, <1>a, <1>b, <1>c, <1>d DEF StopPublish, Counts, SealedCall, Goto, TypeOK, Calls
<1>21. CASE StopEnd
  BY <1>21, <1>a, <1>b, <1>c, <1>d DEF StopEnd, Counts, SealedCall, Goto, TypeOK, Calls
<1>22. CASE Dispose
  BY <1>22, <1>a, <1>b, <1>c, <1>d DEF Dispose, Counts, SealedCall, Goto, TypeOK, Calls
<1>23. CASE HostPoll
  BY <1>23, <1>a, <1>b, <1>c, <1>d DEF HostPoll, Counts, SealedCall, Goto, TypeOK, Calls
<1>24. CASE UNCHANGED vars
  BY <1>24, <1>a, <1>b, <1>c, <1>d DEF vars, Counts, SealedCall, Goto, TypeOK, Calls
<1>. QED
  BY Entries, <1>a, <1>1, <1>2, <1>3, <1>4, <1>5, <1>6, <1>7, <1>8, <1>9, <1>10, <1>11, <1>12,
     <1>13, <1>14, <1>15, <1>16, <1>17, <1>18, <1>19, <1>20, <1>21, <1>22, <1>23, <1>24
     DEF Next, Begins, Seals, Fails, Terminated

-----------------------------------------------------------------------------
(* What is published *)

(* The states a renamed session.json can say, by the place that renames it. *)
LEMMA SessionWritten ==
  ASSUME IInv, NEW a \in Actors
  PROVE  /\ pc[a] = "begin_session" => SessionRenamed(a).state = "CAPTURING"
         /\ pc[a] \in {"seal_session", "stop_publish"} => SessionRenamed(a).state = job[a].state
         /\ pc[a] = "fail_publish" => SessionRenamed(a).state = "FAILED"
         /\ pc[a] \notin {"begin_session", "seal_session", "stop_publish", "fail_publish"} =>
              SessionRenamed(a) = session
         /\ SessionRenamed(a) \in Session
<1>1. TypeOK /\ Roles /\ Published
  BY DEF IInv
<1>2. pc[a] \in {"seal_session", "stop_publish"} => job[a].state \in {"SEALED", "WAITING", "STOPPED"}
  BY <1>1 DEF Published, Roles, Role, Stopping
<1>3. /\ [state |-> "CAPTURING", calls |-> calls].state = "CAPTURING"
      /\ [state |-> "FAILED", calls |-> calls].state = "FAILED"
      /\ [state |-> job[a].state, calls |-> calls].state = job[a].state
  OBVIOUS
<1>. QED  BY <1>1, <1>2, <1>3, Renamed

(* session.json is replaced where the code renames it and nowhere else.     *)
LEMMA SessionMoves ==
  ASSUME IInv, [Next]_vars, session' # session
  PROVE  \E a \in Actors : /\ pc[a] \in {"begin_session", "seal_session", "stop_publish", "fail_publish"}
                           /\ session' = SessionRenamed(a)
<1>1. ASSUME NEW a \in Actors, FailCapture(a)
      PROVE  /\ pc[a] \in {"begin_session", "seal_session", "stop_publish", "fail_publish"}
             /\ session' = SessionRenamed(a)
  BY <1>1, SessionWritten DEF FailCapture
<1>2. ASSUME NEW t \in Threads, BeginSession(t)
      PROVE  pc[t] = "begin_session" /\ session' = SessionRenamed(t) /\ t \in Actors
  BY <1>2 DEF BeginSession, Actors
<1>3. ASSUME NEW a \in Actors, SealSession(a) \/ FailPublish(a)
      PROVE  pc[a] \in {"seal_session", "fail_publish"} /\ session' = SessionRenamed(a)
  BY <1>3 DEF SealSession, FailPublish
<1>4. StopPublish => pc[Rpc] = "stop_publish" /\ session' = SessionRenamed(Rpc) /\ Rpc \in Actors
  BY DEF StopPublish, Actors
<1>5. \/ (\E a \in Actors : FailCapture(a) \/ SealSession(a) \/ FailPublish(a))
      \/ (\E t \in Threads : BeginSession(t)) \/ StopPublish
  BY DEF Next, vars, Begins, Seals, Fails, Enter, EnterInit, JoinWindow, Begin, OpenTrace,
     BeginCall,
     FollowThread, Leave, LeaveInit, End, Flush, Close, SealBegin, SealCall, FailClose, Stop,
     StopSealed, StopEnd, Dispose, HostPoll, Terminated
<1>. QED  BY <1>1, <1>2, <1>3, <1>4, <1>5

(* A final state of the session is the last word on what it captured, and   *)
(* the last call is published as final (agent.ts, manifest.ts).             *)
LEMMA PublishedStep == IInv /\ OpensAlone /\ [Next]_vars => Published'
<1> SUFFICES ASSUME IInv, OpensAlone, [Next]_vars PROVE Published'
  OBVIOUS
<1>a. TypeOK /\ Published
  BY DEF IInv
<1>b. Rpc \notin Threads /\ Threads \subseteq Actors /\ Rpc \in Actors
  BY SessionAssumption DEF Actors
<1>c. \A c \in Calls : SealedCall(c) => callFile'[c] = callFile[c]
  BY SealedStays
<1>d. callIdx \in Nat /\ completed \in Nat /\ (callIdx > 0 => callIdx \in Calls) /\ MaxCalls \in Nat
      /\ calls \subseteq Calls
  BY <1>a, SessionAssumption DEF TypeOK, Calls
<1>e. pc'[Rpc] \in Stopping =>
        /\ (Final => /\ SessionComplete /\ (accepting => fnEntered) /\ (preEntry => finalized)
                     /\ \A a \in Actors : pc[a] \in Working => pc[a] = "end")'
        /\ (\A a \in Actors :
              /\ pc[a] \in {"seal_call", "seal_session", "end"} =>
                   \/ job[a].state = "SEALED" /\ SessionComplete
                   \/ job[a].state = "WAITING" /\ callIdx < MaxCalls
              /\ pc[a] = "end" => session.state = job[a].state)'
  BY EndsStep DEF Ends, Over, SessionComplete, Working, Sealing
<1>1. ASSUME NEW t \in Threads, NEW k \in {"fn", "init"}, Begun(t, k) PROVE Published'
  <2>1. \A b \in Actors : pc[b] \notin Working \cup Failing
    BY <1>1, NobodyCaptures DEF Begun
  <2>2. ~Final
    BY <1>1, <1>a DEF Begun, Published
  <2>3. /\ pc[Rpc] = "out" /\ pc'[t] = "open" /\ \A b \in Actors \ {t} : pc'[b] = pc[b]
        /\ session' = session
    BY <1>1, <1>a, <1>b, EntryFacts, GotoFacts DEF Begun, Begin, PCs
  <2>. QED  BY <1>b, <2>1, <2>2, <2>3 DEF Published, Final, Working, Sealing
<1>2. ASSUME NEW t \in Threads, Joined(t) PROVE Published'
  <2>1. \A b \in Actors : pc[b] \notin Working \cup Failing
    BY <1>2, NobodyCaptures DEF Joined
  <2>2. ~Final
    BY <1>2, <1>a DEF Joined, Published
  <2>3. /\ pc[Rpc] = "out" /\ pc'[t] \in {"body", "init_body"}
        /\ \A b \in Actors \ {t} : pc'[b] = pc[b]
        /\ session' = session
    BY <1>2, <1>a, <1>b, EntryFacts, JoinedFacts DEF Joined
  <2>. QED  BY <1>b, <2>1, <2>2, <2>3 DEF Published, Final, Working, Sealing
<1>3. ASSUME NEW t \in Threads, OpenTrace(t) PROVE Published'
  BY <1>3, <1>a, <1>b, <1>c, <1>d, CapturingFacts, SessionWritten DEF OpenTrace, Published,
     Final, SessionComplete, SealedCall, Goto, TypeOK, Calls, Opening, Working, Sealing,
     Failing
<1>4. ASSUME NEW t \in Threads, BeginCall(t) PROVE Published'
  <2>1. pc[t] = "begin_call" /\ pc'[t] = "begin_session" /\ \A b \in Actors \ {t} : pc'[b] = pc[b]
    BY <1>4, <1>a, <1>b, GotoFacts DEF BeginCall, PCs
  <2>2. ~Final /\ pc[Rpc] \notin Stopping
    BY <1>a, <1>b, <2>1, CapturingFacts DEF Published, Over, Opening, Working, Sealing, Failing
  <2>3. UNCHANGED <<accepting, callIdx, session, job>>
    BY <1>4 DEF BeginCall
  <2>. QED  BY <1>a, <1>b, <2>1, <2>2, <2>3 DEF Published, Final, SessionComplete, Stopping
<1>5. ASSUME NEW t \in Threads, BeginSession(t) PROVE Published'
  BY <1>5, <1>a, <1>b, <1>c, <1>d, CapturingFacts, SessionWritten DEF BeginSession, Published,
     Final, SessionComplete, SealedCall, Goto, TypeOK, Calls, Opening, Working, Sealing,
     Failing
<1>6. ASSUME NEW t \in Threads, FollowThread(t) PROVE Published'
  BY <1>6, <1>a, <1>b, <1>c, <1>d, CapturingFacts, SessionWritten DEF FollowThread, Published,
     Final, SessionComplete, SealedCall, Goto, TypeOK, Calls, Opening, Working, Sealing,
     Failing
<1>7. ASSUME NEW t \in Threads, Leave(t) PROVE Published'
  BY <1>7, <1>a, <1>b, <1>c, <1>d, CapturingFacts, SessionWritten DEF Leave, Unfollowed,
     Published, Final, SessionComplete, SealedCall, Goto, TypeOK, Calls, Opening, Working,
     Sealing, Failing
<1>8. ASSUME NEW t \in Threads, LeaveInit(t) PROVE Published'
  BY <1>8, <1>a, <1>b, <1>c, <1>d, CapturingFacts, SessionWritten DEF LeaveInit, Unfollowed,
     Published, Final, SessionComplete, SealedCall, Goto, TypeOK, Calls, Opening, Working,
     Sealing, Failing
<1>9. ASSUME NEW t \in Threads, End(t) PROVE Published'
  BY <1>9, <1>a, <1>b, <1>c, <1>d, CapturingFacts, SessionWritten DEF End, WindowAfter,
     Published, Final, SessionComplete, SealedCall, Goto, TypeOK, Calls, Opening, Working,
     Sealing, Failing
<1>10. ASSUME NEW a \in Actors, Flush(a) PROVE Published'
  BY <1>10, <1>a, <1>b, <1>c, <1>d, CapturingFacts, SessionWritten DEF Flush, Published,
     Final, SessionComplete, SealedCall, Goto, TypeOK, Calls, Opening, Working, Sealing,
     Failing
<1>11. ASSUME NEW a \in Actors, Close(a) PROVE Published'
  BY <1>11, <1>a, <1>b, <1>c, <1>d, CapturingFacts, SessionWritten DEF Close, Published,
     Final, SessionComplete, SealedCall, Goto, TypeOK, Calls, Opening, Working, Sealing,
     Failing
<1>12. ASSUME NEW a \in Actors, SealBegin(a) PROVE Published'
  <2>1. /\ pc[a] = "seal" /\ pc'[a] = "seal_call" /\ \A b \in Actors \ {a} : pc'[b] = pc[b]
        /\ UNCHANGED <<accepting, callIdx, session, callFile, calls, fatal>>
        /\ \A b \in Actors \ {a} : job'[b] = job[b]
    BY <1>12, <1>a, GotoFacts DEF SealBegin, PCs, TypeOK
  <2>2. ~Final /\ pc'[Rpc] \notin Stopping
    BY <1>a, <1>b, <2>1, CapturingFacts DEF Published, Over, Stopping, Opening, Working,
       Sealing, Failing
  <2>3. \A b \in Actors \ {a} : pc'[b] \notin Working
    BY <2>1, OthersOut DEF Opening, Working, Sealing, Failing
  <2>4. job'[a].state = IF job[a].kind = "stop" \/ SessionComplete THEN "SEALED" ELSE "WAITING"
    BY <1>12, <1>a, RecordFacts DEF SealBegin, TypeOK
  <2>5. job[a].kind = "stop" => ~accepting
    BY <2>1 DEF IInv, Roles, Role, SealsFor, Sealing
  <2>. QED  BY <1>a, <1>b, <1>d, <2>1, <2>2, <2>3, <2>4, <2>5 DEF Published, Final,
               SessionComplete, Stopping, Opening, Working, Sealing, Failing
<1>13. ASSUME NEW a \in Actors, SealCall(a) PROVE Published'
  BY <1>13, <1>a, <1>b, <1>c, <1>d, CapturingFacts, SessionWritten DEF SealCall, Published,
     Final, SessionComplete, SealedCall, Goto, TypeOK, Calls, Opening, Working, Sealing,
     Failing
<1>14. ASSUME NEW a \in Actors, SealSession(a) PROVE Published'
  <2>1. /\ pc[a] = "seal_session" /\ pc'[a] = "end" /\ \A b \in Actors \ {a} : pc'[b] = pc[b]
        /\ UNCHANGED <<accepting, callIdx, fnEntered, preEntry, finalized, job>>
        /\ session'.state = job[a].state
    BY <1>14, <1>a, SessionWritten, GotoFacts DEF SealSession, PCs
  <2>2. pc'[Rpc] \notin Stopping
    BY <1>a, <1>b, <2>1, CapturingFacts DEF Over, Stopping, Opening, Working, Sealing, Failing
  <2>3. \A b \in Actors \ {a} : pc'[b] \notin Working
    BY <2>1, OthersOut DEF Opening, Working, Sealing, Failing
  <2>4. finalized /\ (accepting => fnEntered)
    BY <2>1, CapturingFacts DEF Sealing
  <2>. QED  BY <1>a, <1>b, <1>d, <2>1, <2>2, <2>3, <2>4 DEF Published, Final, SessionComplete,
               Stopping, Opening, Working, Sealing, Failing
<1>15. ASSUME NEW a \in Actors, FailCapture(a) PROVE Published'
  <2>1. /\ pc[a] \in Working /\ pc'[a] = "fail_close" /\ \A b \in Actors \ {a} : pc'[b] = pc[b]
        /\ ~accepting' /\ finalized'
    BY <1>15, <1>a, GotoFacts DEF FailCapture, Throws, PCs, Opening, Working, Sealing, Failing
  <2>2. \A b \in Actors : pc'[b] \notin Working
    BY <2>1, OthersOut DEF Opening, Working, Sealing, Failing
  <2>3. pc'[Rpc] \notin Stopping
    BY <1>b, <2>1, CapturingFacts DEF Over, Stopping
  <2>. QED  BY <2>1, <2>2, <2>3 DEF Published, SessionComplete, Stopping, Opening, Working,
               Sealing, Failing
<1>16. ASSUME NEW a \in Actors, FailClose(a) PROVE Published'
  BY <1>16, <1>a, <1>b, <1>c, <1>d, CapturingFacts, SessionWritten DEF FailClose, Published,
     Final, SessionComplete, SealedCall, Goto, TypeOK, Calls, Opening, Working, Sealing,
     Failing
<1>17. ASSUME NEW a \in Actors, FailPublish(a) PROVE Published'
  BY <1>17, <1>a, <1>b, <1>c, <1>d, CapturingFacts, SessionWritten DEF FailPublish, Published,
     Final, SessionComplete, SealedCall, Goto, TypeOK, Calls, Opening, Working, Sealing,
     Failing
<1>18. CASE Stop
  <2>1. CASE ~fnEntered /\ ~(preEntry /\ ~finalized)
    <3>1. pc'[Rpc] = "stop_publish" /\ UNCHANGED <<callFile, calls, fatal>>
      BY <1>18, <1>a, <1>b, <2>1, GotoFacts DEF Stop, StopMaySeal, PCs
    <3>2. job'[Rpc].state = IF calls # {} THEN "SEALED" ELSE "STOPPED"
      BY <1>18, <1>a, <1>b, <2>1 DEF Stop, StopMaySeal, TypeOK
    <3>3. ~fatal => ~preEntry
      BY <1>18, <2>1 DEF Stop, IInv, Ends
    <3>4. ~fatal => \A c \in calls : SealedCall(c)
      BY <1>d, <2>1, <3>3 DEF IInv, Files, Calls
    <3>. QED  BY <1>e, <3>1, <3>2, <3>4 DEF Published, Stopping, SealedCall
  <2>2. CASE ~fnEntered /\ preEntry /\ ~finalized
    <3>1. /\ pc'[Rpc] = "flush" /\ \A b \in Actors \ {Rpc} : pc'[b] = pc[b]
          /\ session' = session
      BY <1>18, <1>a, <1>b, <2>2, GotoFacts DEF Stop, StopMaySeal, PCs
    <3>2. ~Final /\ \A b \in Actors : pc[b] \notin Working
      BY <1>18, <1>a, <2>2, NobodyCaptures DEF Stop, Published
    <3>. QED  BY <1>b, <3>1, <3>2 DEF Published, Final, Working, Sealing
  <2>3. CASE fnEntered
    BY <1>18, <1>a, <2>3 DEF Stop, StopMaySeal, AcceptingAfterStop, Published, Final,
       SessionComplete, SealedCall
  <2>. QED  BY <2>1, <2>2, <2>3
<1>19. CASE StopSealed
  <2>1. pc[Rpc] = "end" /\ pc'[Rpc] = "stop_publish" /\ UNCHANGED <<callFile, calls, fatal>>
    BY <1>19, <1>a, <1>b, GotoFacts DEF StopSealed, PCs
  <2>2. job'[Rpc].state = IF calls # {} THEN "SEALED" ELSE "STOPPED"
    BY <1>19, <1>a, <1>b, RecordFacts DEF StopSealed, TypeOK
  <2>3. \A c \in calls : SealedCall(c)
    BY <1>b, <1>d, <2>1 DEF IInv, Files, Calls
  <2>. QED  BY <1>e, <2>1, <2>2, <2>3 DEF Published, Stopping, SealedCall
<1>20. CASE StopPublish
  <2>1. pc'[Rpc] = "stop_end"
    BY <1>20, <1>a, <1>b, GotoFacts DEF StopPublish, PCs
  <2>. QED  BY <1>e, <2>1 DEF Published, Stopping
<1>21. CASE StopEnd
  BY <1>21, <1>a, <1>b, <1>c, <1>d, CapturingFacts, SessionWritten DEF StopEnd, Published,
     Final, SessionComplete, SealedCall, Goto, TypeOK, Calls, Opening, Working, Sealing,
     Failing
<1>22. CASE Dispose
  BY <1>22, <1>a, <1>b, <1>c, <1>d, CapturingFacts, SessionWritten DEF Dispose, Published,
     Final, SessionComplete, SealedCall, Goto, TypeOK, Calls, Opening, Working, Sealing,
     Failing
<1>23. CASE HostPoll
  BY <1>23, <1>a, <1>b, <1>c, <1>d, CapturingFacts, SessionWritten DEF HostPoll, Published,
     Final, SessionComplete, SealedCall, Goto, TypeOK, Calls, Opening, Working, Sealing,
     Failing
<1>24. CASE UNCHANGED vars
  BY <1>24, <1>a, <1>b, <1>c, <1>d, CapturingFacts, SessionWritten DEF vars, Published, Final,
     SessionComplete, SealedCall, Goto, TypeOK, Calls, Opening, Working, Sealing, Failing
<1>. QED
  BY Entries, <1>a, <1>1, <1>2, <1>3, <1>4, <1>5, <1>6, <1>7, <1>8, <1>9, <1>10, <1>11, <1>12,
     <1>13, <1>14, <1>15, <1>16, <1>17, <1>18, <1>19, <1>20, <1>21, <1>22, <1>23, <1>24
     DEF Next, Begins, Seals, Fails, Terminated

(* Neither the session file nor what it is compared with changes.           *)
LEMMA StatusSteady ==
  ASSUME TypeOK, StatusTrue, UNCHANGED <<session, completed, calls>>, fatal => fatal',
         \A c \in Calls : SealedCall(c) => callFile'[c] = callFile[c]
  PROVE  StatusTrue'
<1>1. calls \subseteq Calls
  BY DEF TypeOK
<1>2. \A c \in Calls : callFile[c].state = "SEALED" => callFile'[c].state = "SEALED"
  BY DEF SealedCall
<1>3. SealedAfterCallsUnlessFailed'
  BY <1>1, <1>2 DEF StatusTrue, SealedAfterCallsUnlessFailed, SealedAfterCalls
<1>4. CompletedIsPublished'
  BY <1>2 DEF StatusTrue, CompletedIsPublished
<1>. QED  BY <1>3, <1>4 DEF StatusTrue

(* What the host reads stays true: SEALED of its calls, and the state after *)
(* the last of them (agent.ts sealSession, tracemiku_capture.py).           *)
LEMMA StatusStep == IInv /\ OpensAlone /\ [Next]_vars => StatusTrue'
<1> SUFFICES ASSUME IInv, OpensAlone, [Next]_vars PROVE StatusTrue'
  OBVIOUS
<1>a. TypeOK /\ StatusTrue /\ Published /\ Files /\ Counts
  BY DEF IInv
<1>b. Rpc \notin Threads /\ Threads \subseteq Actors /\ Rpc \in Actors
  BY SessionAssumption DEF Actors
<1>c. \A c \in Calls : SealedCall(c) => callFile'[c] = callFile[c]
  BY SealedStays
<1>d. callIdx \in Nat /\ completed \in Nat /\ (callIdx > 0 => callIdx \in Calls) /\ MaxCalls \in Nat
      /\ calls \subseteq Calls /\ callIdx <= MaxCalls /\ MaxCalls > 0
  BY <1>a, SessionAssumption DEF TypeOK, Calls
<1>1. ASSUME NEW t \in Threads, NEW k \in {"fn", "init"}, Begun(t, k) PROVE StatusTrue'
  BY <1>1, <1>a, <1>c, StatusSteady DEF Begun, Begin
<1>2. ASSUME NEW t \in Threads, Joined(t) PROVE StatusTrue'
  <2>1. UNCHANGED <<session, completed, calls, callFile, fatal>>
    BY <1>2 DEF Joined, JoinWindow
  <2>. QED  BY <1>a, <2>1, StatusSteady
<1>3. ASSUME NEW t \in Threads, OpenTrace(t) PROVE StatusTrue'
  BY <1>3, <1>a, <1>c, StatusSteady DEF OpenTrace
<1>4. ASSUME NEW t \in Threads, BeginCall(t) PROVE StatusTrue'
  <2>1. pc[t] = "begin_call" /\ UNCHANGED <<session, completed, fatal>>
    BY <1>4 DEF BeginCall
  <2>2. session.state # "SEALED"
    BY <1>a, <1>b, <2>1 DEF Published, Final, Opening, Working, Sealing, Failing
  <2>. QED  BY <1>a, <1>c, <1>d, <2>1, <2>2 DEF StatusTrue, SealedAfterCallsUnlessFailed,
               SealedAfterCalls, CompletedIsPublished, SealedCall
<1>5. ASSUME NEW t \in Threads, BeginSession(t) PROVE StatusTrue'
  <2>1. pc[t] = "begin_session" /\ session'.state = "CAPTURING" /\ UNCHANGED <<completed, callFile>>
    BY <1>5, <1>b, SessionWritten DEF BeginSession
  <2>2. completed < MaxCalls
    <3>1. ~Final
      BY <1>a, <1>b, <2>1 DEF Published, Opening, Working, Sealing, Failing
    <3>. QED  BY <1>a, <1>d, <3>1 DEF StatusTrue, SealedAfterCallsUnlessFailed,
                 SealedAfterCalls, CompletedIsPublished, SealedCall, Final
  <2>. QED  BY <1>d, <2>1, <2>2 DEF StatusTrue, SealedAfterCallsUnlessFailed,
               SealedAfterCalls, CompletedIsPublished, SealedCall
<1>6. ASSUME NEW t \in Threads, FollowThread(t) PROVE StatusTrue'
  BY <1>6, <1>a, <1>c, StatusSteady DEF FollowThread
<1>7. ASSUME NEW t \in Threads, Leave(t) PROVE StatusTrue'
  BY <1>7, <1>a, <1>c, StatusSteady DEF Leave, Unfollowed
<1>8. ASSUME NEW t \in Threads, LeaveInit(t) PROVE StatusTrue'
  BY <1>8, <1>a, <1>c, StatusSteady DEF LeaveInit, Unfollowed
<1>9. ASSUME NEW t \in Threads, End(t) PROVE StatusTrue'
  <2>1. /\ pc[t] = "end" /\ completed' = completed + 1
        /\ UNCHANGED <<session, fatal, callFile, calls>>
    BY <1>9 DEF End
  <2>2. SealedCall(callIdx) /\ session.state = job[t].state /\ completed < callIdx
    BY <1>a, <1>b, <2>1, CapturingFacts DEF Files, Published, Counts, Opening, Working,
       Sealing, Failing
  <2>3. callIdx >= MaxCalls => session.state = "SEALED"
    BY <1>a, <1>b, <1>d, <2>1, <2>2 DEF Published
  <2>4. callIdx >= MaxCalls => \A c \in Calls : SealedCall(c)
    BY <1>a, <1>d, <2>2 DEF Files, Calls
  <2>. QED  BY <1>a, <1>d, <2>1, <2>2, <2>3, <2>4 DEF StatusTrue,
               SealedAfterCallsUnlessFailed, SealedAfterCalls, CompletedIsPublished,
               SealedCall
<1>10. ASSUME NEW a \in Actors, Flush(a) PROVE StatusTrue'
  BY <1>10, <1>a, <1>c, StatusSteady DEF Flush
<1>11. ASSUME NEW a \in Actors, Close(a) PROVE StatusTrue'
  BY <1>11, <1>a, <1>c, StatusSteady DEF Close
<1>12. ASSUME NEW a \in Actors, SealBegin(a) PROVE StatusTrue'
  BY <1>12, <1>a, <1>c, StatusSteady DEF SealBegin
<1>13. ASSUME NEW a \in Actors, SealCall(a) PROVE StatusTrue'
  BY <1>13, <1>a, <1>c, StatusSteady DEF SealCall
<1>14. ASSUME NEW a \in Actors, SealSession(a) PROVE StatusTrue'
  <2>1. /\ pc[a] = "seal_session" /\ session'.state = job[a].state
        /\ UNCHANGED <<completed, callFile, fatal, calls>>
    BY <1>14, SessionWritten DEF SealSession
  <2>2. \A c \in calls : SealedCall(c)
    BY <1>a, <1>d, <2>1 DEF Files, Calls
  <2>3. completed < MaxCalls
    <3>1. ~Final
      BY <1>a, <2>1 DEF Published, Opening, Working, Sealing, Failing
    <3>. QED  BY <1>a, <1>d, <3>1 DEF StatusTrue, SealedAfterCallsUnlessFailed,
                 SealedAfterCalls, CompletedIsPublished, SealedCall, Final
  <2>. QED  BY <1>d, <2>1, <2>2, <2>3 DEF StatusTrue, SealedAfterCallsUnlessFailed,
               SealedAfterCalls, CompletedIsPublished, SealedCall
<1>15. ASSUME NEW a \in Actors, FailCapture(a) PROVE StatusTrue'
  <2>1. pc[a] \in Working /\ fatal' /\ UNCHANGED completed
    BY <1>15 DEF FailCapture, Throws, Opening, Working, Sealing, Failing
  <2>2. completed >= MaxCalls => session' = session
    <3>1. CASE pc[a] = "end"
      BY <1>15, <3>1 DEF FailCapture, Throws
    <3>2. CASE pc[a] # "end"
      <4>1. ~Final
        BY <1>a, <2>1, <3>2 DEF Published
      <4>. QED  BY <1>a, <4>1 DEF StatusTrue, SealedAfterCallsUnlessFailed, SealedAfterCalls,
                   CompletedIsPublished, SealedCall, Final
    <3>. QED  BY <3>1, <3>2
  <2>. QED  BY <1>a, <1>c, <2>1, <2>2 DEF StatusTrue, SealedAfterCallsUnlessFailed,
               SealedAfterCalls, CompletedIsPublished, SealedCall
<1>16. ASSUME NEW a \in Actors, FailClose(a) PROVE StatusTrue'
  BY <1>16, <1>a, <1>c, StatusSteady DEF FailClose
<1>17. ASSUME NEW a \in Actors, FailPublish(a) PROVE StatusTrue'
  <2>1. /\ pc[a] = "fail_publish" /\ fatal /\ fatal' /\ UNCHANGED <<completed, callFile>>
        /\ session' = session \/ session'.state = "FAILED"
    <3>1. pc[a] = "fail_publish" /\ UNCHANGED <<completed, callFile, fatal>>
          /\ (session' = session \/ session' = SessionRenamed(a))
      BY <1>17 DEF FailPublish
    <3>2. fatal
      BY <3>1 DEF IInv, Roles, Role, Failing
    <3>. QED  BY <3>1, <3>2, SessionWritten
  <2>. QED  BY <1>a, <2>1 DEF StatusTrue, SealedAfterCallsUnlessFailed, CompletedIsPublished
<1>18. CASE Stop
  BY <1>18, <1>a, <1>c, StatusSteady DEF Stop
<1>19. CASE StopSealed
  BY <1>19, <1>a, <1>c, StatusSteady DEF StopSealed
<1>20. CASE StopPublish
  <2>1. /\ pc[Rpc] = "stop_publish" /\ session'.state = job[Rpc].state
        /\ UNCHANGED <<completed, callFile, fatal, calls>>
    BY <1>20, <1>b, SessionWritten DEF StopPublish
  <2>2. completed >= MaxCalls => job[Rpc].state = "SEALED"
    BY <1>a, <1>d, <2>1 DEF Published, Counts
  <2>. QED  BY <1>a, <1>d, <2>1, <2>2 DEF Published, StatusTrue, SealedAfterCallsUnlessFailed,
               SealedAfterCalls, CompletedIsPublished, SealedCall
<1>21. CASE StopEnd
  BY <1>21, <1>a, <1>c, StatusSteady DEF StopEnd
<1>22. CASE Dispose
  BY <1>22, <1>a, <1>c, StatusSteady DEF Dispose
<1>23. CASE HostPoll
  BY <1>23, <1>a, <1>c, StatusSteady DEF HostPoll
<1>24. CASE UNCHANGED vars
  BY <1>24, <1>a, <1>c, StatusSteady DEF vars
<1>. QED
  BY Entries, <1>a, <1>1, <1>2, <1>3, <1>4, <1>5, <1>6, <1>7, <1>8, <1>9, <1>10, <1>11, <1>12,
     <1>13, <1>14, <1>15, <1>16, <1>17, <1>18, <1>19, <1>20, <1>21, <1>22, <1>23, <1>24
     DEF Next, Begins, Seals, Fails, Terminated

-----------------------------------------------------------------------------
(* The theorems *)

(* A session that has been prepared and has captured nothing (agent.ts,     *)
(* startCapture).                                                           *)
LEMMA CaptureInit == Init => IInv
<1> SUFFICES ASSUME Init PROVE IInv
  OBVIOUS
<1>1. TypeOK
  <2>1. MaxCalls \in Nat \ {0} /\ MaxInits \in Nat /\ MaxRuns \in Nat
    BY SessionAssumption
  <2>2. /\ NoFile \in CallFile /\ [call |-> 0, state |-> "none"] \in Manifest
        /\ [state |-> "READY", calls |-> {}] \in Session
        /\ [kind |-> "fn", call |-> 0, state |-> "none"] \in Job
    BY <2>1 DEF NoFile, CallFile, Manifest, Session, Job
  <2>3. /\ accepting \in BOOLEAN /\ fnEntered \in BOOLEAN /\ preEntry \in BOOLEAN
        /\ finalized \in BOOLEAN /\ fatal \in BOOLEAN /\ retired \in BOOLEAN
        /\ disposed \in BOOLEAN
    BY DEF Init
  <2>4. /\ callIdx \in 0..MaxCalls /\ completed \in 0..MaxCalls /\ traceFile \in 0..MaxCalls
        /\ inits \in 0..MaxInits
    BY <2>1 DEF Init
  <2>5. /\ primary \in Actors \cup {NoThread} /\ followed \subseteq Threads
        /\ calls \subseteq Calls /\ host \in {"waiting", "stop", "raised", "gone"}
    BY DEF Init
  <2>6. manifest \in Manifest /\ session \in Session
    BY <2>2 DEF Init
  <2>7. callFile \in [Calls -> CallFile]
    BY <2>2 DEF Init
  <2>8. pc \in [Actors -> PCs] /\ job \in [Actors -> Job]
    BY <2>2 DEF Init, PCs
  <2>9. runs \in [Threads -> 0..MaxRuns]
    BY <2>1 DEF Init
  <2>. QED  BY <2>3, <2>4, <2>5, <2>6, <2>7, <2>8, <2>9 DEF TypeOK
<1>2. \A a \in Actors : pc[a] = "out" /\ ~Capturing(a)
  BY DEF Init, Capturing
<1>3. Rpc \in Actors
  BY DEF Actors
<1>4. Roles
  BY <1>2 DEF Roles, OneCapture, Role, Opening, Sealing, Failing, Stopping
<1>5. Follows /\ Ends
  BY <1>2, <1>3 DEF Init, Follows, Ends, Stopping
<1>6. Files
  BY <1>2, SessionAssumption DEF Init, Files, Calls, Working, Opening, Sealing
<1>7. Counts
  BY SessionAssumption DEF Init, Counts
<1>8. session.state = "READY"
  BY DEF Init
<1>9. Published
  BY <1>2, <1>3, <1>8 DEF Published, Final
<1>10. StatusTrue
  BY <1>8, SessionAssumption DEF Init, StatusTrue, SealedAfterCallsUnlessFailed,
     SealedAfterCalls,
     CompletedIsPublished
<1>. QED  BY <1>1, <1>4, <1>5, <1>6, <1>7, <1>9, <1>10 DEF IInv

(* Every step of every callback keeps all of it.                            *)
LEMMA CaptureStep == IInv /\ OpensAlone /\ [Next]_vars => IInv'
BY TypesStep, RolesStep, FollowsStep, EndsStep, FilesStep, CountsStep, PublishedStep, StatusStep
   DEF IInv

(* The invariant of every instance in which windows open alone.             *)
LEMMA CaptureInv == OpensAlone => (Spec => []IInv)
<1> SUFFICES ASSUME OpensAlone PROVE Spec => []IInv
  OBVIOUS
<1>1. Init => IInv
  BY CaptureInit
<1>2. IInv /\ [Next]_vars => IInv'
  BY CaptureStep
<1>. QED  BY <1>1, <1>2, PTL DEF Spec

(* For every set of threads, number of calls and runs, whatever throws and  *)
(* whenever the user interrupts: two callbacks are never in a capture at    *)
(* once, nothing is followed or written once a call is sealed, and nothing  *)
(* is freed that is in use, if an initialisation window opens alone         *)
(* (agent.ts, beginCaptureSession to retireCapture).                        *)
THEOREM CaptureIsOne == OpensAlone => (Spec => []CaptureTrue)
<1> SUFFICES ASSUME OpensAlone PROVE Spec => []CaptureTrue
  OBVIOUS
<1>1. IInv => CaptureTrue
  <2> SUFFICES ASSUME IInv PROVE CaptureTrue
    OBVIOUS
  <2>1. TypeOK /\ OneCapture
    BY DEF IInv, Roles
  <2>2. callIdx > 0 /\ callFile[callIdx].state = "SEALED" => traceFile # callIdx /\ followed = {}
    BY <2>1 DEF IInv, Files, SealedCall, TypeOK
  <2>3. disposed => followed = {} /\ \A a \in Actors : pc[a] \notin Opening \cup {"body", "flush", "close"}
    BY DEF IInv, Ends, Over, Working, Sealing
  <2>. QED  BY <2>1, <2>2, <2>3 DEF CaptureTrue, NothingOutlives
<1>2. Spec => []IInv
  BY CaptureInv
<1>. QED  BY <1>1, <1>2, PTL

(* Under the same assumption the host reads the truth: a session is SEALED, *)
(* unless something failed, only when all its calls are, and when the last  *)
(* call is counted, it and the session are published (agent.ts sealSession, *)
(* tracemiku_capture.py).                                                   *)
THEOREM CaptureStatusTrue == OpensAlone => (Spec => []StatusTrue)
<1> SUFFICES ASSUME OpensAlone PROVE Spec => []StatusTrue
  OBVIOUS
<1>1. IInv => StatusTrue
  BY DEF IInv
<1>2. Spec => []IInv
  BY CaptureInv
<1>. QED  BY <1>1, <1>2, PTL

(* And what is published is final: no step writes a sealed call manifest    *)
(* again, and none takes a session back from SEALED, FAILED or STOPPED to a *)
(* state in which it runs (agent.ts onLeave, manifest.ts atomicJson).       *)
THEOREM CapturePublishedFinal == OpensAlone => (Spec => PublishedIsFinal)
<1> SUFFICES ASSUME OpensAlone PROVE Spec => PublishedIsFinal
  OBVIOUS
<1>1. ASSUME IInv, [Next]_vars
      PROVE  [/\ \A c \in Calls : callFile[c].state = "SEALED" => callFile'[c] = callFile[c]
              /\ session.state \in {"SEALED", "FAILED", "STOPPED"} =>
                   session'.state \notin {"READY", "CAPTURING", "WAITING"}]_vars
  <2>1. \A c \in Calls : callFile[c].state = "SEALED" => callFile'[c] = callFile[c]
    BY <1>1, SealedStays DEF SealedCall
  <2>2. ASSUME Final, session' # session
        PROVE  session'.state \notin {"READY", "CAPTURING", "WAITING"}
    <3>1. PICK a \in Actors : /\ pc[a] \in {"begin_session", "seal_session", "stop_publish", "fail_publish"}
                              /\ session' = SessionRenamed(a)
      BY <1>1, <2>2, SessionMoves
    <3>2. pc[a] \in {"stop_publish", "fail_publish"}
      BY <1>1, <2>2, <3>1 DEF IInv, Published, Working, Opening, Sealing
    <3>3. pc[a] = "stop_publish" => job[a].state \in {"SEALED", "STOPPED"}
      BY <1>1 DEF IInv, Published, Roles, Role, Stopping
    <3>. QED  BY <1>1, <3>1, <3>2, <3>3, SessionWritten
  <2>. QED  BY <2>1, <2>2 DEF Final
<1>2. Spec => []IInv
  BY CaptureInv
<1>. QED  BY <1>1, <1>2, PTL DEF Spec, PublishedIsFinal

=============================================================================
