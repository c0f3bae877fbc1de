-------------------------- MODULE SpoolRecoveryProofs ---------------------------
(***************************************************************************)
(* What SpoolRecovery promises of the host's copies and of its reports, for *)
(* every number of processes, calls, artifacts and chunks, whatever dies,   *)
(* fails or is damaged: RecoveryTrue, MovedOnce and CommittedStays.         *)
(*                                                                          *)
(* The argument.  At most one recovery works, the one that holds the lock    *)
(* (Locked); it alone fills a pending directory, artifact after artifact     *)
(* (Progress), so what it marks VERIFIED is exact.  finalize only moves such *)
(* a directory and rewrites its state, so a copy that was exact once is      *)
(* exact from then on under one of its two names (Copied, Secured).  The     *)
(* reports need that nobody else works meanwhile (Alone): then every result  *)
(* of a recovery is, directory by directory, fixed or kept (Reported).       *)
(***************************************************************************)
EXTENDS SpoolRecovery, TLAPS

Busy(p) == run[p].pc # "idle"

\* Control states: the parts of a call are copied; recover works on one call;
\* finalize has its hands on one directory; finalize runs; the list is made.
Copying    == {"export", "chunk", "receipt", "replace"}
Fetching   == {"mkdir", "pending"} \cup Copying
Repairing  == {"repair", "keep", "rename", "derive"}
Finalizing == {"list"} \cup Repairing
Ending     == {"info", "ack"}

\* A recovery that works holds the lock; a finalize of its own only finalizes.
Locked ==
  /\ \A p \in Recoverers : Busy(p) => lock = p
  /\ \A p \in Finalizers : run[p].pc \in {"idle"} \cup Finalizing

\* Unless finalize has run beside a recovery, one process works at a time.
Alone ==
  /\ beside = "never" => \A p \in Finalizers : ~Busy(p)
  /\ beside # "beside" => \A p, q \in Procs : Busy(p) /\ Busy(q) => p = q

\* Somewhere on the host there is an exact copy of the call.
SecuredIn(d) == \E n \in Names : d[n].state # "absent" /\ Exact(d[n])
Secured(c)   == SecuredIn(dir[c])

\* What a final or a verified directory holds is exact.
CopiedIn(d) ==
  /\ d["call"].state # "absent" => Exact(d["call"])
  /\ \A n \in Names : d[n].state = "VERIFIED" => Exact(d[n])
Copied == \A c \in Calls : CopiedIn(dir[c])

\* Where a process is in the call it copies, and what it has copied of it
\* unless finalize has taken the directory away.
ProgressOf(m) ==
  /\ m.pc \in Fetching => m.c \in Calls
  /\ m.pc \in {"session", "manifest", "mkdir", "pending"} => m.a = 1
  /\ m.pc \in Copying \ {"export"} => m.a \in Artifacts
  /\ m.pc \in Copying /\ dir[m.c]["pending"].state # "absent" =>
       \A b \in Artifacts : b < m.a => dir[m.c]["pending"].local[b] = Chunks
  /\ m.pc = "replace" /\ dir[m.c]["pending"].state # "absent" =>
       dir[m.c]["pending"].part[m.a] = Chunks
Progress == \A p \in Procs : ProgressOf(run[p])

\* What a process remembers of its directories is still so.
TrustOf(m) ==
  /\ \A c \in m.acks : Secured(c)
  /\ m.pc = "keep" => m.copy = "PENDING"
  /\ m.pc \in {"rename", "derive"} => m.copy = "VERIFIED"
  /\ m.pc = "rename" => m.cur[2] = "pending" /\ Secured(m.cur[1])
  /\ m.pc = "derive" => dir[m.cur[1]]["call"].state # "absent"
Trust == (\A c \in acked : Secured(c)) /\ \A p \in Procs : TrustOf(run[p])

\* A chunk that has crossed the wire since it was last damaged is there.
Moved ==
  \A c \in Calls, a \in Artifacts, k \in Chunks :
    moved[c][a][k] = 0 \/ (moved[c][a][k] = 1 /\ cache[c][a][k].gz = "good")

\* A call of which recover and finalize are done.
Done(c) == Held(dir[c]["call"]) /\ dir[c]["call"].derived

\* Every result of a recovery is there when the directories are listed, and then
\* to be repaired, kept or done; every call before the current one has a result,
\* unless something is known to be missing.
ReportOf(m) ==
  /\ m.pc # "idle" => \A c \in m.fixed : Done(c)
  /\ m.pc = "keep" => ~Held(Stored(m.cur))
  /\ m.pc \in {"session", "manifest", "list"} \cup Fetching =>
       \A r \in m.results : Stored(r).state # "absent"
  /\ m.pc \in Repairing \cup Ending =>
       \A r \in m.results : r \in m.todo \cup m.kept \/ r[1] \in m.fixed
  /\ m.pc \in Ending => m.todo = {}
  /\ m.pc = "ack" /\ ~m.missing => m.kept = {}
CoverOf(m) ==
  /\ ~m.missing /\ m.pc # "idle" => \A c \in Calls : c < m.c => \E n \in Names : <<c, n>> \in m.results
  /\ ~m.missing /\ m.pc \in Finalizing \cup Ending => m.c = NumCalls + 1
Reported == beside # "beside" => \A p \in Procs : ReportOf(run[p])
Covered  == \A p \in Recoverers : CoverOf(run[p])

\* What holds in every reachable state.
IInv ==
  /\ TypeOK /\ Locked /\ Alone /\ Copied /\ Progress /\ Trust /\ Moved
  /\ Reported /\ Covered /\ ReportsTrue

-------------------------------------------------------------------------------
(* What a step does to the memory of its process.                          *)

SameCall(m, f)   == f.c = m.c /\ f.a = m.a
SameFound(m, f)  == f.results = m.results /\ f.acks = m.acks /\ f.missing = m.missing
SameRepair(m, f) ==
  f.todo = m.todo /\ f.cur = m.cur /\ f.copy = m.copy /\ f.kept = m.kept /\ f.fixed = m.fixed

(* The memory of a process that has nothing to do is one.                   *)
LEMMA IdleType ==
  /\ Idle \in Memory
  /\ [Idle EXCEPT !.pc = "session"] \in Memory
  /\ [Idle EXCEPT !.pc = "list"] \in Memory
<1>1. /\ 1 \in 1..(NumCalls + 1) /\ 1 \in 1..(NumArtifacts + 1) /\ 1 \in 1..(NumChunks + 1)
      /\ 1 \in Calls /\ <<1, "pending">> \in Entries
  BY RecoveryAssumption DEF Calls, Names, Entries
<1>2. Idle \in Memory
  BY <1>1 DEF Idle, Memory, Pcs
<1>. QED  BY <1>2 DEF Memory, Pcs

(* Goto gives one process a new memory.                                     *)
LEMMA GotoMoves ==
  ASSUME NEW p \in Procs, NEW f \in Memory, run \in [Procs -> Memory], Goto(p, f)
  PROVE  /\ run' \in [Procs -> Memory] /\ run'[p] = f
         /\ \A q \in Procs \ {p} : run'[q] = run[q]
BY DEF Goto

(* The next call, with what was noted of this one.                          *)
LEMMA NextCallMoves ==
  ASSUME NEW p \in Procs, NEW r \in Memory, r.c \in Calls
  PROVE  LET f == NextCall(p, r) IN
         /\ f \in Memory /\ f.pc = "manifest" /\ f.c = r.c + 1 /\ f.a = 1
         /\ SameFound(r, f) /\ SameRepair(r, f)
<1>1. /\ r.c + 1 \in 1..(NumCalls + 1) /\ 1 \in 1..(NumArtifacts + 1)
      /\ 1 \in 1..(NumChunks + 1) /\ "manifest" \in Pcs
  BY RecoveryAssumption DEF Calls, Pcs
<1>2. NextCall(p, r) \in Memory
  BY <1>1 DEF NextCall, Memory
<1>. QED  BY <1>2 DEF NextCall, Memory, SameFound, SameRepair

(* The next control state, with everything else as it was.                  *)
LEMMA LocalsMoves ==
  ASSUME NEW p \in Procs, run[p] \in Memory, NEW l \in Pcs
  PROVE  LET f == Locals(p, l) IN
         /\ f \in Memory /\ f.pc = l /\ SameCall(run[p], f)
         /\ SameFound(run[p], f) /\ SameRepair(run[p], f)
BY DEF Locals, Memory, SameCall, SameFound, SameRepair

\* The others remember what they did.
Others(p) == run' \in [Procs -> Memory] /\ \A q \in Procs \ {p} : run'[q] = run[q]

\* p goes from one control state to another and remembers the rest.
Passes(p, l, l2) ==
  /\ Others(p) /\ run[p].pc = l /\ run'[p].pc = l2
  /\ SameCall(run[p], run'[p]) /\ SameFound(run[p], run'[p]) /\ SameRepair(run[p], run'[p])

\* p goes on to the next call, with one more result or something missing.
Advances(p, R, A) ==
  /\ Others(p) /\ run'[p].pc = "manifest" /\ run'[p].c = run[p].c + 1 /\ run'[p].a = 1
  /\ run'[p].results = run[p].results \cup R /\ run'[p].acks = run[p].acks \cup A
  /\ SameRepair(run[p], run'[p])

(* Going to another control state and nothing else.                         *)
LEMMA PassMoves ==
  ASSUME TypeOK, NEW p \in Procs, NEW l \in Pcs, At(p, l), NEW l2 \in Pcs, Goto(p, Locals(p, l2))
  PROVE  Passes(p, l, l2)
<1>1. run \in [Procs -> Memory] /\ run[p] \in Memory
  BY DEF TypeOK
<1>2. Locals(p, l2) \in Memory
  BY <1>1, LocalsMoves
<1>. QED  BY <1>1, <1>2, LocalsMoves, GotoMoves DEF At, Passes, Others

(* Nothing is left to do: the process is as new.                            *)
LEMMA IdleMoves ==
  ASSUME TypeOK, NEW p \in Procs, Goto(p, Idle)
  PROVE  Others(p) /\ run'[p] = Idle /\ run'[p].pc = "idle"
BY IdleType, GotoMoves DEF TypeOK, Idle, Others

(* A recovery begins at the first call.                                     *)
LEMMA StartMoves ==
  ASSUME TypeOK, NEW p \in Procs, Start(p)
  PROVE  /\ Others(p) /\ run[p].pc = "idle" /\ run'[p].pc = "session" /\ p \in Recoverers
         /\ run'[p].c = 1 /\ run'[p].a = 1 /\ run'[p].results = {} /\ run'[p].acks = {}
         /\ run'[p].fixed = {}
<1>. DEFINE f == [Idle EXCEPT !.pc = "session"]
<1>1. f \in Memory /\ run \in [Procs -> Memory] /\ Goto(p, f)
  BY IdleType DEF TypeOK, Start
<1>2. Others(p) /\ run'[p] = f
  BY <1>1, GotoMoves DEF Others
<1>. QED  BY <1>2 DEF Start, At, Idle

(* finalize of its own begins with the list.                                *)
LEMMA FinalizeAloneMoves ==
  ASSUME TypeOK, NEW p \in Procs, FinalizeAlone(p)
  PROVE  /\ Others(p) /\ run[p].pc = "idle" /\ run'[p].pc = "list" /\ p \in Finalizers
         /\ run'[p].results = {} /\ run'[p].acks = {} /\ run'[p].fixed = {}
<1>. DEFINE f == [Idle EXCEPT !.pc = "list"]
<1>1. f \in Memory /\ run \in [Procs -> Memory] /\ Goto(p, f)
  BY IdleType DEF TypeOK, FinalizeAlone
<1>2. Others(p) /\ run'[p] = f
  BY <1>1, GotoMoves DEF Others
<1>. QED  BY <1>2 DEF FinalizeAlone, At, Idle

(* The session is not sealed, or its calls are read.                        *)
LEMMA ReadSessionMoves ==
  ASSUME TypeOK, NEW p \in Procs, ReadSession(p)
  PROVE  \/ Passes(p, "session", "manifest")
         \/ /\ Others(p) /\ run[p].pc = "session" /\ run'[p].pc = "list" /\ run'[p].missing
            /\ run'[p].results = run[p].results /\ run'[p].acks = run[p].acks
            /\ SameCall(run[p], run'[p]) /\ SameRepair(run[p], run'[p])
<1>1. run \in [Procs -> Memory] /\ run[p] \in Memory /\ run[p].pc = "session"
  BY DEF TypeOK, ReadSession, At
<1>2. CASE session = "SEALED"
  BY <1>2, PassMoves DEF ReadSession, Pcs
<1>3. CASE session # "SEALED"
  <2>. DEFINE f == [Locals(p, "list") EXCEPT !.missing = TRUE]
  <2>1. Goto(p, f)
    BY <1>3 DEF ReadSession
  <2>2. /\ Locals(p, "list") \in Memory /\ Locals(p, "list").pc = "list"
        /\ SameCall(run[p], Locals(p, "list")) /\ SameFound(run[p], Locals(p, "list"))
        /\ SameRepair(run[p], Locals(p, "list"))
    BY <1>1, LocalsMoves DEF Pcs
  <2>3. /\ f \in Memory /\ f.pc = "list" /\ f.missing
        /\ f.results = run[p].results /\ f.acks = run[p].acks
        /\ SameCall(run[p], f) /\ SameRepair(run[p], f)
    BY <2>2 DEF Memory, SameCall, SameFound, SameRepair
  <2>4. Others(p) /\ run'[p] = f
    BY <1>1, <2>1, <2>3, GotoMoves DEF Others
  <2>. QED  BY <1>1, <2>3, <2>4
<1>. QED  BY <1>2, <1>3

(* A call that could not be copied now is missing from the result.          *)
LEMMA MissingMoves ==
  ASSUME TypeOK, NEW p \in Procs, run[p].c \in Calls,
         Goto(p, NextCall(p, [run[p] EXCEPT !.missing = TRUE]))
  PROVE  Advances(p, {}, {}) /\ run'[p].missing
<1>. DEFINE r == [run[p] EXCEPT !.missing = TRUE]
<1>1. run \in [Procs -> Memory] /\ run[p] \in Memory
  BY DEF TypeOK
<1>2. /\ r \in Memory /\ r.c = run[p].c /\ r.results = run[p].results /\ r.acks = run[p].acks
      /\ r.missing /\ SameRepair(run[p], r)
  BY <1>1 DEF Memory, SameRepair
<1>3. LET f == NextCall(p, r) IN
      /\ f \in Memory /\ f.pc = "manifest" /\ f.c = r.c + 1 /\ f.a = 1
      /\ SameFound(r, f) /\ SameRepair(r, f)
  BY <1>2, NextCallMoves
<1>4. Others(p) /\ run'[p] = NextCall(p, r)
  BY <1>1, <1>3, GotoMoves DEF Others
<1>. QED  BY <1>2, <1>3, <1>4 DEF Advances, SameFound, SameRepair

(* A call with a result, and perhaps an acknowledgement.                    *)
LEMMA FoundMoves ==
  ASSUME TypeOK, NEW p \in Procs, run[p].c \in Calls, NEW n \in Names, NEW A \in SUBSET Calls,
         Goto(p, NextCall(p, [run[p] EXCEPT !.results = @ \cup {<<run[p].c, n>>},
                                            !.acks = run[p].acks \cup A]))
  PROVE  /\ Advances(p, {<<run[p].c, n>>}, A) /\ run'[p].missing = run[p].missing
<1>. DEFINE r == [run[p] EXCEPT !.results = @ \cup {<<run[p].c, n>>},
                                !.acks = run[p].acks \cup A]
<1>1. run \in [Procs -> Memory] /\ run[p] \in Memory
  BY DEF TypeOK
<1>2. <<run[p].c, n>> \in Entries
  BY DEF Entries
<1>3. /\ r \in Memory /\ r.c = run[p].c /\ r.results = run[p].results \cup {<<run[p].c, n>>}
      /\ r.acks = run[p].acks \cup A /\ r.missing = run[p].missing /\ SameRepair(run[p], r)
  BY <1>1, <1>2 DEF Memory, SameRepair
<1>4. LET f == NextCall(p, r) IN
      /\ f \in Memory /\ f.pc = "manifest" /\ f.c = r.c + 1 /\ f.a = 1
      /\ SameFound(r, f) /\ SameRepair(r, f)
  BY <1>3, NextCallMoves
<1>5. Others(p) /\ run'[p] = NextCall(p, r)
  BY <1>1, <1>4, GotoMoves DEF Others
<1>. QED  BY <1>3, <1>4, <1>5 DEF Advances, SameFound, SameRepair

(* The manifest of the next call is read.                                   *)
LEMMA ReadManifestMoves ==
  ASSUME TypeOK, NEW p \in Procs, ReadManifest(p)
  PROVE  /\ run[p].pc = "manifest"
         /\ \/ Passes(p, "manifest", "list") /\ run[p].c = NumCalls + 1
            \/ Advances(p, {}, {}) /\ run'[p].missing /\ run[p].c \in Calls
            \/ /\ Advances(p, {<<run[p].c, "call">>}, {}) /\ run'[p].missing = run[p].missing
               /\ run[p].c \in Calls /\ Held(dir[run[p].c]["call"])
            \/ Passes(p, "manifest", "mkdir") /\ run[p].c \in Calls
<1>1. run[p].pc = "manifest" /\ run[p] \in Memory /\ sealed \subseteq Calls
  BY DEF ReadManifest, At, TypeOK
<1>2. run[p].c \in 1..(NumCalls + 1)
  BY <1>1 DEF Memory
<1>3. CASE run[p].c > NumCalls /\ Goto(p, Locals(p, "list"))
  <2>1. run[p].c = NumCalls + 1
    BY <1>2, <1>3, RecoveryAssumption
  <2>. QED  BY <1>1, <1>3, <2>1, PassMoves DEF Pcs, At
<1>4. CASE run[p].c \in Calls \ sealed /\ Goto(p, NextCall(p, CallPending(p, run[p].c)))
  BY <1>1, <1>4, MissingMoves DEF CallPending
<1>5. CASE /\ run[p].c \in sealed /\ Held(dir[run[p].c]["call"])
           /\ Goto(p, NextCall(p, [run[p] EXCEPT !.results = @ \cup {<<run[p].c, "call">>}]))
  <2>1. [run[p] EXCEPT !.results = @ \cup {<<run[p].c, "call">>}]
          = [run[p] EXCEPT !.results = @ \cup {<<run[p].c, "call">>},
                           !.acks = run[p].acks \cup {}]
    BY <1>1 DEF Memory
  <2>2. Goto(p, NextCall(p, [run[p] EXCEPT !.results = @ \cup {<<run[p].c, "call">>},
                                           !.acks = run[p].acks \cup {}]))
    BY <1>5, <2>1
  <2>3. run[p].c \in Calls /\ "call" \in Names /\ {} \in SUBSET Calls
    BY <1>1, <1>5 DEF Names
  <2>4. Advances(p, {<<run[p].c, "call">>}, {}) /\ run'[p].missing = run[p].missing
    BY <2>2, <2>3, FoundMoves
  <2>. QED  BY <1>1, <1>5, <2>3, <2>4
<1>6. CASE run[p].c \in sealed /\ Goto(p, Locals(p, "mkdir"))
  BY <1>1, <1>6, PassMoves DEF Pcs, At
<1>. QED  BY <1>3, <1>4, <1>5, <1>6 DEF ReadManifest

(* The call's directory is made, and its meta.json written.                 *)
LEMMA PrepareMoves ==
  ASSUME TypeOK, NEW p \in Procs
  PROVE  /\ Mkdir(p) => Passes(p, "mkdir", "pending")
         /\ WritePending(p) => Passes(p, "pending", "export")
BY PassMoves DEF Mkdir, WritePending, At, Pcs

(* A chunk is pulled, its receipt written.                                  *)
LEMMA PullMoves ==
  ASSUME TypeOK, NEW p \in Procs
  PROVE  /\ Pull(p) => Passes(p, "chunk", "receipt")
         /\ WriteReceipt(p) => Passes(p, "receipt", "chunk")
BY PassMoves DEF Pull, WriteReceipt, At, Pcs

(* GiveUp goes on to the next call.                                         *)
LEMMA GiveUpMoves ==
  ASSUME TypeOK, NEW p \in Procs, run[p].c \in Calls, GiveUp(p)
  PROVE  Advances(p, {}, {}) /\ run'[p].missing
BY MissingMoves DEF GiveUp

\* p stays within its call and remembers what it has found.
Copies(p, a) ==
  /\ Others(p) /\ run'[p].c = run[p].c /\ run'[p].a = a
  /\ SameFound(run[p], run'[p]) /\ SameRepair(run[p], run'[p])

(* An artifact that is there is passed over, another one begun.             *)
LEMMA ExportMoves ==
  ASSUME TypeOK, NEW p \in Procs, Export(p)
  PROVE  /\ run[p].pc = "export" /\ run[p].a \in Artifacts
         /\ IF Here(p).local[run[p].a] = Chunks
              THEN Copies(p, run[p].a + 1) /\ run'[p].pc = "export"
              ELSE Copies(p, run[p].a) /\ run'[p].pc = "chunk"
<1>1. /\ run \in [Procs -> Memory] /\ run[p] \in Memory
      /\ run[p].pc = "export" /\ run[p].a \in Artifacts
  BY DEF TypeOK, Export, At
<1>2. run[p].a + 1 \in 1..(NumArtifacts + 1) /\ 1 \in 1..(NumChunks + 1)
  BY <1>1, RecoveryAssumption DEF Artifacts
<1>3. CASE Here(p).local[run[p].a] = Chunks
  <2>. DEFINE f == [run[p] EXCEPT !.a = @ + 1]
  <2>1. /\ f \in Memory /\ f.pc = "export" /\ f.c = run[p].c /\ f.a = run[p].a + 1
        /\ SameFound(run[p], f) /\ SameRepair(run[p], f)
    BY <1>1, <1>2 DEF Memory, SameFound, SameRepair
  <2>2. Others(p) /\ run'[p] = f
    BY <1>1, <1>3, <2>1, GotoMoves DEF Export, Others
  <2>. QED  BY <1>1, <1>3, <2>1, <2>2 DEF Copies
<1>4. CASE Here(p).local[run[p].a] # Chunks
  <2>. DEFINE f == [Locals(p, "chunk") EXCEPT !.k = 1]
  <2>1. /\ f \in Memory /\ f.pc = "chunk" /\ f.c = run[p].c /\ f.a = run[p].a
        /\ SameFound(run[p], f) /\ SameRepair(run[p], f)
    BY <1>1, <1>2 DEF Memory, SameFound, SameRepair, Locals, Pcs
  <2>2. Others(p) /\ run'[p] = f
    BY <1>1, <1>4, <2>1, GotoMoves DEF Export, Others
  <2>. QED  BY <1>1, <1>4, <2>1, <2>2 DEF Copies
<1>. QED  BY <1>3, <1>4

(* A cached chunk is unpacked, or the call given up.                        *)
LEMMA FromCacheMoves ==
  ASSUME TypeOK, NEW p \in Procs, run[p].c \in Calls, FromCache(p)
  PROVE  /\ run[p].pc = "chunk"
         /\ \/ Copies(p, run[p].a) /\ run'[p].pc = "chunk"
            \/ Advances(p, {}, {}) /\ run'[p].missing
<1>1. /\ run \in [Procs -> Memory] /\ run[p] \in Memory
      /\ run[p].pc = "chunk" /\ run[p].k \in Chunks
  BY DEF TypeOK, FromCache, At
<1>2. run[p].k + 1 \in 1..(NumChunks + 1)
  BY <1>1, RecoveryAssumption DEF Chunks
<1>3. CASE Goto(p, [run[p] EXCEPT !.k = @ + 1])
  <2>. DEFINE f == [run[p] EXCEPT !.k = @ + 1]
  <2>1. /\ f \in Memory /\ f.pc = "chunk" /\ f.c = run[p].c /\ f.a = run[p].a
        /\ SameFound(run[p], f) /\ SameRepair(run[p], f)
    BY <1>1, <1>2 DEF Memory, SameFound, SameRepair
  <2>2. Others(p) /\ run'[p] = f
    BY <1>1, <1>3, <2>1, GotoMoves DEF Others
  <2>. QED  BY <1>1, <2>1, <2>2 DEF Copies
<1>4. CASE GiveUp(p)
  BY <1>1, <1>4, GiveUpMoves
<1>. QED  BY <1>3, <1>4 DEF FromCache

(* The .part is complete, or the call given up.                             *)
LEMMA CheckPartMoves ==
  ASSUME TypeOK, NEW p \in Procs, run[p].c \in Calls, CheckPart(p)
  PROVE  /\ run[p].pc = "chunk"
         /\ \/ Passes(p, "chunk", "replace") /\ PartComplete(p)
            \/ Advances(p, {}, {}) /\ run'[p].missing
<1>1. run[p].pc = "chunk" /\ (PartComplete(p) => Goto(p, Locals(p, "replace")))
      /\ (~PartComplete(p) => GiveUp(p))
  BY DEF CheckPart, At
<1>. QED  BY <1>1, PassMoves, GiveUpMoves DEF Pcs, At

(* The next artifact.                                                       *)
LEMMA ReplaceMoves ==
  ASSUME TypeOK, NEW p \in Procs, run[p].a \in Artifacts, Replace(p)
  PROVE  run[p].pc = "replace" /\ run'[p].pc = "export" /\ Copies(p, run[p].a + 1)
<1>1. run \in [Procs -> Memory] /\ run[p] \in Memory /\ run[p].pc = "replace"
  BY DEF TypeOK, Replace, At
<1>2. run[p].a + 1 \in 1..(NumArtifacts + 1)
  BY RecoveryAssumption DEF Artifacts
<1>. DEFINE f == [Locals(p, "export") EXCEPT !.a = @ + 1]
<1>3. /\ f \in Memory /\ f.pc = "export" /\ f.c = run[p].c /\ f.a = run[p].a + 1
      /\ SameFound(run[p], f) /\ SameRepair(run[p], f)
  BY <1>1, <1>2 DEF Memory, SameFound, SameRepair, Locals, Pcs
<1>4. Others(p) /\ run'[p] = f
  BY <1>1, <1>3, GotoMoves DEF Replace, Others
<1>. QED  BY <1>1, <1>3, <1>4 DEF Copies

(* A call whose artifacts are all there gets a result and is acknowledged.  *)
LEMMA VerifyMoves ==
  ASSUME TypeOK, NEW p \in Procs, run[p].c \in Calls, Verify(p)
  PROVE  /\ run[p].pc = "export" /\ run[p].a = NumArtifacts + 1
         /\ Advances(p, {<<run[p].c, "pending">>}, {run[p].c})
         /\ run'[p].missing = run[p].missing
<1>1. run[p].pc = "export" /\ run[p] \in Memory /\ run[p].a > NumArtifacts
  BY DEF Verify, At, TypeOK
<1>2. run[p].a \in 1..(NumArtifacts + 1)
  BY <1>1 DEF Memory
<1>3. run[p].a = NumArtifacts + 1
  BY <1>1, <1>2, RecoveryAssumption
<1>4. /\ run'[p].missing = run[p].missing
      /\ Advances(p, {<<run[p].c, "pending">>}, {run[p].c})
  BY FoundMoves DEF Verify, AckThis, Names
<1>. QED  BY <1>1, <1>3, <1>4

\* p, in finalize, keeps what recover has found, and its place.
Finds(p, l, l2) ==
  /\ Others(p) /\ run[p].pc = l /\ run'[p].pc = l2
  /\ SameCall(run[p], run'[p]) /\ SameFound(run[p], run'[p])

(* The directories that are there are to be repaired.                       *)
LEMMA ListDirsMoves ==
  ASSUME TypeOK, NEW p \in Procs, ListDirs(p)
  PROVE  /\ Finds(p, "list", "repair") /\ run'[p].fixed = run[p].fixed
         /\ run'[p].todo = {e \in Entries : Stored(e).state # "absent"}
<1>. DEFINE f == [Locals(p, "repair") EXCEPT
                    !.todo = {e \in Entries : dir[e[1]][e[2]].state # "absent"}]
<1>1. run \in [Procs -> Memory] /\ run[p] \in Memory /\ run[p].pc = "list"
  BY DEF TypeOK, ListDirs, At
<1>2. /\ f \in Memory /\ f.pc = "repair" /\ SameCall(run[p], f) /\ SameFound(run[p], f)
      /\ f.fixed = run[p].fixed
      /\ f.todo = {e \in Entries : dir[e[1]][e[2]].state # "absent"}
  BY <1>1 DEF Memory, SameCall, SameFound, Locals, Pcs
<1>3. Others(p) /\ run'[p] = f
  BY <1>1, <1>2, GotoMoves DEF ListDirs, Others
<1>. QED  BY <1>1, <1>2, <1>3 DEF Finds, Stored

(* One of them is read.                                                     *)
LEMMA ReadDirMoves ==
  ASSUME TypeOK, NEW p \in Procs, ReadDir(p)
  PROVE  /\ Finds(p, "repair", run'[p].pc)
         /\ run'[p].fixed = run[p].fixed /\ run'[p].kept = run[p].kept
         /\ run'[p].todo = run[p].todo /\ run'[p].cur \in run[p].todo
         /\ run'[p].copy = Stored(run'[p].cur).state
         /\ Stored(run'[p].cur).state \in {"PENDING", "VERIFIED"}
         /\ IF Held(Stored(run'[p].cur))
              THEN IF run'[p].cur[2] = "pending" THEN run'[p].pc = "rename"
                                                 ELSE run'[p].pc = "derive"
              ELSE run'[p].pc = "keep"
<1>1. run \in [Procs -> Memory] /\ run[p] \in Memory /\ run[p].pc = "repair"
  BY DEF TypeOK, ReadDir, At
<1>2. PICK e \in run[p].todo :
        /\ Stored(e).state \in {"PENDING", "VERIFIED"}
        /\ Goto(p, [run[p] EXCEPT
            !.cur = e, !.copy = Stored(e).state,
            !.pc = CASE ~Held(Stored(e))                         -> "keep"
                     [] Held(Stored(e)) /\ e[2] = "pending"      -> "rename"
                     [] Held(Stored(e)) /\ e[2] # "pending"      -> "derive"])
  BY DEF ReadDir
<1>3. PICK l \in {"keep", "rename", "derive"} :
        /\ Goto(p, [run[p] EXCEPT !.cur = e, !.copy = Stored(e).state, !.pc = l])
        /\ IF Held(Stored(e)) THEN IF e[2] = "pending" THEN l = "rename" ELSE l = "derive"
                              ELSE l = "keep"
  <2>1. CASE ~Held(Stored(e))
    BY <1>2, <2>1
  <2>2. CASE Held(Stored(e)) /\ e[2] = "pending"
    BY <1>2, <2>2
  <2>3. CASE Held(Stored(e)) /\ e[2] # "pending"
    BY <1>2, <2>3
  <2>. QED  BY <2>1, <2>2, <2>3
<1>. DEFINE f == [run[p] EXCEPT !.cur = e, !.copy = Stored(e).state, !.pc = l]
<1>4. e \in Entries /\ l \in Pcs
  BY <1>1, <1>2 DEF Memory, Pcs
<1>5. /\ f \in Memory /\ f.pc = l /\ SameCall(run[p], f) /\ SameFound(run[p], f)
      /\ f.fixed = run[p].fixed /\ f.kept = run[p].kept /\ f.todo = run[p].todo
      /\ f.cur = e /\ f.copy = Stored(e).state
  BY <1>1, <1>2, <1>4 DEF Memory, SameCall, SameFound
<1>6. Others(p) /\ run'[p] = f
  BY <1>1, <1>3, <1>5, GotoMoves DEF Others
<1>7. Finds(p, "repair", run'[p].pc)
  BY <1>1, <1>5, <1>6 DEF Finds
<1>8. run'[p].cur = e /\ run'[p].pc = l
  BY <1>5, <1>6
<1>. QED  BY <1>2, <1>3, <1>5, <1>6, <1>7, <1>8

(* repair_call is done with a directory: it is kept or has its fields.      *)
LEMMA RepairedMoves ==
  ASSUME TypeOK, NEW p \in Procs
  PROVE  /\ KeepPending(p) =>
              /\ Finds(p, "keep", "repair")
              /\ run'[p].todo = run[p].todo \ {run[p].cur}
              /\ run'[p].kept = run[p].kept \cup {run[p].cur} /\ run'[p].fixed = run[p].fixed
         /\ WriteDerived(p) =>
              /\ Finds(p, "derive", "repair")
              /\ run'[p].todo = run[p].todo \ {run[p].cur}
              /\ run'[p].kept = run[p].kept /\ run'[p].fixed = run[p].fixed \cup {run[p].cur[1]}
<1>1. run \in [Procs -> Memory] /\ run[p] \in Memory
  BY DEF TypeOK
<1>2. run[p].cur \in Entries /\ run[p].cur[1] \in Calls
  BY <1>1 DEF Memory, Entries
<1>3. ASSUME KeepPending(p)
      PROVE  /\ Finds(p, "keep", "repair")
             /\ run'[p].todo = run[p].todo \ {run[p].cur}
             /\ run'[p].kept = run[p].kept \cup {run[p].cur} /\ run'[p].fixed = run[p].fixed
  <2>. DEFINE f == [Repaired(p) EXCEPT !.kept = @ \cup {run[p].cur}]
  <2>1. /\ f \in Memory /\ f.pc = "repair" /\ SameCall(run[p], f) /\ SameFound(run[p], f)
        /\ f.todo = run[p].todo \ {run[p].cur} /\ f.kept = run[p].kept \cup {run[p].cur}
        /\ f.fixed = run[p].fixed
    BY <1>1, <1>2 DEF Memory, Repaired, SameCall, SameFound, Pcs
  <2>2. Others(p) /\ run'[p] = f
    BY <1>1, <1>3, <2>1, GotoMoves DEF KeepPending, Others
  <2>. QED  BY <1>3, <2>1, <2>2 DEF KeepPending, At, Finds
<1>4. ASSUME WriteDerived(p)
      PROVE  /\ Finds(p, "derive", "repair")
             /\ run'[p].todo = run[p].todo \ {run[p].cur}
             /\ run'[p].kept = run[p].kept /\ run'[p].fixed = run[p].fixed \cup {run[p].cur[1]}
  <2>. DEFINE f == [Repaired(p) EXCEPT !.fixed = @ \cup {run[p].cur[1]}]
  <2>1. /\ f \in Memory /\ f.pc = "repair" /\ SameCall(run[p], f) /\ SameFound(run[p], f)
        /\ f.todo = run[p].todo \ {run[p].cur} /\ f.kept = run[p].kept
        /\ f.fixed = run[p].fixed \cup {run[p].cur[1]}
    BY <1>1, <1>2 DEF Memory, Repaired, SameCall, SameFound, Pcs
  <2>2. Others(p) /\ run'[p] = f
    BY <1>1, <1>4, <2>1, GotoMoves DEF WriteDerived, Others
  <2>. QED  BY <1>4, <2>1, <2>2 DEF WriteDerived, At, Finds
<1>. QED  BY <1>3, <1>4

(* The directory has its final name; its fields come next.                  *)
LEMMA RenameMoves ==
  ASSUME TypeOK, NEW p \in Procs, Rename(p)
  PROVE  Passes(p, "rename", "derive")
<1>. DEFINE f == [Locals(p, "derive") EXCEPT !.renamed = @ \cup {run[p].cur[1]}]
<1>1. run \in [Procs -> Memory] /\ run[p] \in Memory /\ run[p].pc = "rename"
  BY DEF TypeOK, Rename, At
<1>2. run[p].cur[1] \in Calls
  BY <1>1 DEF Memory, Entries
<1>3. /\ f \in Memory /\ f.pc = "derive" /\ SameCall(run[p], f) /\ SameFound(run[p], f)
      /\ SameRepair(run[p], f)
  BY <1>1, <1>2 DEF Memory, Locals, SameCall, SameFound, SameRepair, Pcs
<1>4. Others(p) /\ run'[p] = f
  BY <1>1, <1>3, GotoMoves DEF Rename, Others
<1>. QED  BY <1>1, <1>3, <1>4 DEF Passes

(* The summary ends finalize; recover goes on.                              *)
LEMMA SummaryMoves ==
  ASSUME TypeOK, NEW p \in Procs, WriteSummary(p)
  PROVE  /\ run[p].pc = "repair" /\ run[p].todo = {}
         /\ \/ p \in Recoverers /\ Passes(p, "repair", "info")
            \/ p \notin Recoverers /\ Others(p) /\ run'[p] = Idle /\ run'[p].pc = "idle"
BY PassMoves, IdleMoves DEF WriteSummary, At, Pcs

(* info has seen every result.                                              *)
LEMMA InfoMoves ==
  ASSUME TypeOK, NEW p \in Procs, Info(p)
  PROVE  /\ Others(p) /\ run[p].pc = "info" /\ run'[p].pc = "ack" /\ SameCall(run[p], run'[p])
         /\ run'[p].results = run[p].results /\ run'[p].acks = run[p].acks
         /\ (~run'[p].missing => ~run[p].missing /\ run[p].kept = {})
         /\ SameRepair(run[p], run'[p])
<1>. DEFINE w == \A r \in run[p].results : Held(dir[r[1]][PathOf(p, r)])
            f == [Locals(p, "ack") EXCEPT !.missing = @ \/ run[p].kept # {}, !.whole = w]
<1>1. run \in [Procs -> Memory] /\ run[p] \in Memory /\ run[p].pc = "info"
  BY DEF TypeOK, Info, At
<1>2. w \in BOOLEAN
  OBVIOUS
<1>. HIDE DEF w
<1>3. LET g == Locals(p, "ack") IN
      g \in Memory /\ g.pc = "ack" /\ SameCall(run[p], g) /\ SameFound(run[p], g)
      /\ SameRepair(run[p], g)
  BY <1>1, LocalsMoves DEF Pcs
<1>4. (Locals(p, "ack").missing \/ run[p].kept # {}) \in BOOLEAN
  OBVIOUS
<1>5. f \in Memory
  BY <1>2, <1>3, <1>4 DEF Memory
<1>6. /\ f.pc = "ack" /\ SameCall(run[p], f) /\ f.results = run[p].results
      /\ f.acks = run[p].acks /\ SameRepair(run[p], f)
  BY <1>3 DEF Memory, SameCall, SameFound, SameRepair
<1>7. f.missing = (Locals(p, "ack").missing \/ run[p].kept # {})
  BY <1>3 DEF Memory
<1>8. ~f.missing => ~run[p].missing /\ run[p].kept = {}
  BY <1>3, <1>7 DEF SameFound
<1>9. Others(p) /\ run'[p] = f
  BY <1>1, <1>5, GotoMoves DEF Info, Others, w
<1>. QED  BY <1>1, <1>6, <1>8, <1>9

(* One acknowledgement less is due.                                         *)
LEMMA AckMoves ==
  ASSUME TypeOK, NEW p \in Procs, Ack(p)
  PROVE  /\ Others(p) /\ run[p].pc = "ack" /\ run'[p].pc = "ack" /\ SameCall(run[p], run'[p])
         /\ run'[p].results = run[p].results /\ run'[p].missing = run[p].missing
         /\ SameRepair(run[p], run'[p])
         /\ \E c \in run[p].acks : acked' = acked \cup {c} /\ run'[p].acks = run[p].acks \ {c}
<1>1. run \in [Procs -> Memory] /\ run[p] \in Memory /\ run[p].pc = "ack"
  BY DEF TypeOK, Ack, At
<1>2. PICK c \in run[p].acks :
        acked' = acked \cup {c} /\ Goto(p, [run[p] EXCEPT !.acks = @ \ {c}])
  BY DEF Ack
<1>. DEFINE f == [run[p] EXCEPT !.acks = @ \ {c}]
<1>3. /\ f \in Memory /\ f.pc = "ack" /\ SameCall(run[p], f) /\ SameRepair(run[p], f)
      /\ f.results = run[p].results /\ f.missing = run[p].missing
      /\ f.acks = run[p].acks \ {c}
  BY <1>1 DEF Memory, SameCall, SameRepair
<1>4. Others(p) /\ run'[p] = f
  BY <1>1, <1>2, <1>3, GotoMoves DEF Others
<1>. QED  BY <1>1, <1>2, <1>3, <1>4

-------------------------------------------------------------------------------
(* What a step does to the directories.                                    *)

\* One directory is written, all the others are as they were.
Writes(c, n) ==
  /\ dir' \in [Calls -> [Names -> Directory]] /\ dir[c][n] \in Directory
  /\ \A d \in Calls, m \in Names : d # c \/ m # n => dir'[d][m] = dir[d][m]

\* Its meta.json says something else, its artifacts are the same.
Marks(c, n, s) ==
  /\ Writes(c, n) /\ dir'[c][n].state = s
  /\ dir'[c][n].local = dir[c][n].local /\ dir'[c][n].part = dir[c][n].part

\* Its .part files are written.
Fills(c) ==
  /\ Writes(c, "pending") /\ dir[c]["pending"].state # "absent"
  /\ dir'[c]["pending"].state = dir[c]["pending"].state
  /\ dir'[c]["pending"].local = dir[c]["pending"].local

\* It gets its final name.
Renames(c) ==
  /\ dir' \in [Calls -> [Names -> Directory]]
  /\ \A d \in Calls \ {c} : dir'[d] = dir[d]
  /\ dir[c]["call"].state = "absent" /\ dir[c]["pending"].state # "absent"
  /\ dir'[c]["call"] = dir[c]["pending"] /\ dir'[c]["pending"].state = "absent"

(* What replacing one directory by another does.                            *)
LEMMA DirSet ==
  ASSUME TypeOK, NEW c \in Calls, NEW n \in Names, NEW D \in Directory,
         dir' = [dir EXCEPT ![c][n] = D]
  PROVE  Writes(c, n) /\ dir'[c][n] = D
BY DEF TypeOK, Writes

(* The same of the directory that a process is at.                          *)
LEMMA HereSet ==
  ASSUME TypeOK, NEW p \in Procs, run[p].c \in Calls, NEW D, D \in Directory,
         dir' = [dir EXCEPT ![run[p].c]["pending"] = D]
  PROVE  Writes(run[p].c, "pending") /\ dir'[run[p].c]["pending"] = D
<1>1. "pending" \in Names
  BY DEF Names
<1>. QED  BY <1>1, DirSet

(* mkdir makes a directory that is not there.                               *)
LEMMA MkdirDir ==
  ASSUME TypeOK, NEW p \in Procs, run[p].c \in Calls, Mkdir(p)
  PROVE  \/ dir' = dir
         \/ Here(p).state = "absent" /\ Marks(run[p].c, "pending", "empty")
<1>1. CASE Here(p).state = "absent"
  <2>. DEFINE D == [Here(p) EXCEPT !.state = "empty"]
  <2>1. Here(p) \in Directory /\ "pending" \in Names
    BY DEF TypeOK, Here, Names
  <2>2. /\ D \in Directory /\ D.state = "empty" /\ D.local = Here(p).local
        /\ D.part = Here(p).part
    BY <2>1 DEF Directory
  <2>3. dir' = [dir EXCEPT ![run[p].c]["pending"] = D]
    BY <1>1 DEF Mkdir, Here
  <2>4. Writes(run[p].c, "pending") /\ dir'[run[p].c]["pending"] = D
    <3>. HIDE DEF D
    <3>. QED  BY <2>2, <2>3, HereSet
  <2>. QED  BY <1>1, <2>2, <2>4 DEF Marks, Here
<1>2. CASE Here(p).state # "absent"
  BY <1>2 DEF Mkdir
<1>. QED  BY <1>1, <1>2

(* PENDING is written.                                                      *)
LEMMA WritePendingDir ==
  ASSUME TypeOK, NEW p \in Procs, run[p].c \in Calls, WritePending(p)
  PROVE  Here(p).state # "absent" /\ Marks(run[p].c, "pending", "PENDING")
<1>. DEFINE D == [Here(p) EXCEPT !.state = "PENDING", !.derived = FALSE]
<1>1. Here(p) \in Directory /\ "pending" \in Names
  BY DEF TypeOK, Here, Names
<1>2. /\ D \in Directory /\ D.state = "PENDING" /\ D.local = Here(p).local
      /\ D.part = Here(p).part
  BY <1>1 DEF Directory
<1>3. dir' = [dir EXCEPT ![run[p].c]["pending"] = D]
  BY DEF WritePending, Here
<1>4. Writes(run[p].c, "pending") /\ dir'[run[p].c]["pending"] = D
  <2>. HIDE DEF D
  <2>. QED  BY <1>2, <1>3, HereSet
<1>. QED  BY <1>2, <1>4 DEF Marks, Here, WritePending

(* GiveUp says PENDING too.                                                 *)
LEMMA GiveUpDir ==
  ASSUME TypeOK, NEW p \in Procs, run[p].c \in Calls, GiveUp(p)
  PROVE  Here(p).state # "absent" /\ Marks(run[p].c, "pending", "PENDING")
<1>. DEFINE D == [Here(p) EXCEPT !.state = "PENDING"]
<1>1. Here(p) \in Directory /\ "pending" \in Names
  BY DEF TypeOK, Here, Names
<1>2. /\ D \in Directory /\ D.state = "PENDING" /\ D.local = Here(p).local
      /\ D.part = Here(p).part
  BY <1>1 DEF Directory
<1>3. dir' = [dir EXCEPT ![run[p].c]["pending"] = D]
  BY <1>1 DEF GiveUp, Here
<1>4. Writes(run[p].c, "pending") /\ dir'[run[p].c]["pending"] = D
  <2>. HIDE DEF D
  <2>. QED  BY <1>2, <1>3, HereSet
<1>. QED  BY <1>2, <1>4 DEF Marks, Here, GiveUp

(* The .part of a missing artifact is truncated.                            *)
LEMMA ExportDir ==
  ASSUME TypeOK, NEW p \in Procs, run[p].c \in Calls, Export(p)
  PROVE  dir' = dir \/ Fills(run[p].c)
<1>1. CASE Here(p).local[run[p].a] = Chunks
  BY <1>1 DEF Export
<1>2. CASE Here(p).local[run[p].a] # Chunks
  <2>. DEFINE D == [Here(p) EXCEPT !.part[run[p].a] = {}]
  <2>1. Here(p) \in Directory /\ "pending" \in Names /\ run[p].a \in Artifacts
    BY DEF TypeOK, Here, Names, Export
  <2>2. D \in Directory /\ D.state = Here(p).state /\ D.local = Here(p).local
    BY <2>1 DEF Directory
  <2>3. dir' = [dir EXCEPT ![run[p].c]["pending"] = D]
    BY <1>2 DEF Export, Here
  <2>4. Writes(run[p].c, "pending") /\ dir'[run[p].c]["pending"] = D
    <3>. HIDE DEF D
    <3>. QED  BY <2>2, <2>3, HereSet
  <2>. QED  BY <2>2, <2>4 DEF Fills, Here, Export
<1>. QED  BY <1>1, <1>2

(* A chunk is added to the .part.                                           *)
LEMMA FromCacheDir ==
  ASSUME TypeOK, NEW p \in Procs, run[p].c \in Calls, run[p].a \in Artifacts, FromCache(p)
  PROVE  \/ run'[p].pc # "manifest" /\ Fills(run[p].c)
         \/ Here(p).state # "absent" /\ Marks(run[p].c, "pending", "PENDING")
<1>. DEFINE x == cache[run[p].c][run[p].a][run[p].k]
<1>1. CASE Unpacks(x)
  <2>. DEFINE D == [Here(p) EXCEPT !.part[run[p].a] = @ \cup {run[p].k}]
  <2>1. Here(p) \in Directory /\ run[p].k \in Chunks
    <3>1. dir[run[p].c]["pending"] \in Directory
      BY DEF TypeOK, Names
    <3>. QED  BY <3>1 DEF Here, FromCache
  <2>2. D \in Directory /\ D.state = Here(p).state /\ D.local = Here(p).local
    BY <2>1 DEF Directory
  <2>3. dir' = [dir EXCEPT ![run[p].c]["pending"] = D]
    BY <1>1 DEF FromCache, Here
  <2>4. run'[p].pc # "manifest"
    <3>. DEFINE f == [run[p] EXCEPT !.k = @ + 1]
    <3>1. run \in [Procs -> Memory] /\ run[p] \in Memory /\ run[p].pc = "chunk"
      BY DEF TypeOK, FromCache, At
    <3>2. run' = [run EXCEPT ![p] = f]
      BY <1>1 DEF FromCache, Goto
    <3>3. f.pc = "chunk"
      BY <3>1 DEF Memory
    <3>. QED  BY <3>1, <3>2, <3>3
  <2>5. Here(p).state # "absent"
    BY DEF FromCache
  <2>6. Writes(run[p].c, "pending") /\ dir'[run[p].c]["pending"] = D
    <3>. HIDE DEF D
    <3>. QED  BY <2>2, <2>3, HereSet
  <2>. QED  BY <2>2, <2>4, <2>5, <2>6 DEF Fills, Here
<1>2. CASE ~Unpacks(x)
  BY <1>2, GiveUpDir DEF FromCache
<1>. QED  BY <1>1, <1>2

(* A complete .part is left as it is.                                       *)
LEMMA CheckPartDir ==
  ASSUME TypeOK, NEW p \in Procs, run[p].c \in Calls, CheckPart(p)
  PROVE  \/ dir' = dir
         \/ Here(p).state # "absent" /\ Marks(run[p].c, "pending", "PENDING")
BY GiveUpDir DEF CheckPart

(* The .part becomes the artifact.                                          *)
LEMMA ReplaceDir ==
  ASSUME TypeOK, NEW p \in Procs, run[p].c \in Calls, run[p].a \in Artifacts, Replace(p)
  PROVE  /\ Here(p).state # "absent" /\ Writes(run[p].c, "pending")
         /\ dir'[run[p].c]["pending"].state = Here(p).state
         /\ dir'[run[p].c]["pending"].local[run[p].a] = Here(p).part[run[p].a]
         /\ \A b \in Artifacts \ {run[p].a} :
              dir'[run[p].c]["pending"].local[b] = Here(p).local[b]
<1>. DEFINE D == [Here(p) EXCEPT !.local[run[p].a] = Here(p).part[run[p].a],
                                 !.part[run[p].a] = {}]
<1>1. Here(p) \in Directory /\ "pending" \in Names
  BY DEF TypeOK, Here, Names
<1>2. /\ D \in Directory /\ D.state = Here(p).state
      /\ D.local[run[p].a] = Here(p).part[run[p].a]
      /\ \A b \in Artifacts \ {run[p].a} : D.local[b] = Here(p).local[b]
  BY <1>1 DEF Directory
<1>3. dir' = [dir EXCEPT ![run[p].c]["pending"] = D]
  BY DEF Replace, Here
<1>4. Writes(run[p].c, "pending") /\ dir'[run[p].c]["pending"] = D
  <2>. HIDE DEF D
  <2>. QED  BY <1>2, <1>3, HereSet
<1>. QED  BY <1>2, <1>4 DEF Here, Replace

(* The copy is marked VERIFIED.                                             *)
LEMMA VerifyDir ==
  ASSUME TypeOK, NEW p \in Procs, run[p].c \in Calls, Verify(p)
  PROVE  Here(p).state # "absent" /\ Marks(run[p].c, "pending", "VERIFIED")
<1>. DEFINE D == [Here(p) EXCEPT !.state = "VERIFIED"]
<1>1. Here(p) \in Directory /\ "pending" \in Names
  BY DEF TypeOK, Here, Names
<1>2. /\ D \in Directory /\ D.state = "VERIFIED" /\ D.local = Here(p).local
      /\ D.part = Here(p).part
  BY <1>1 DEF Directory
<1>3. dir' = [dir EXCEPT ![run[p].c]["pending"] = D]
  BY <1>1 DEF Verify, Here
<1>. HIDE DEF D
<1>4. Writes(run[p].c, "pending") /\ dir'[run[p].c]["pending"] = D
  BY <1>1, <1>2, <1>3, DirSet
<1>. QED  BY <1>2, <1>4 DEF Marks, Here, Verify

(* The state that was read is written back.                                 *)
LEMMA KeepPendingDir ==
  ASSUME TypeOK, NEW p \in Procs, KeepPending(p)
  PROVE  /\ run[p].cur[1] \in Calls /\ run[p].cur[2] \in Names /\ CurDir(p).state # "absent"
         /\ Marks(run[p].cur[1], run[p].cur[2], run[p].copy)
<1>. DEFINE D == [CurDir(p) EXCEPT !.state = run[p].copy]
<1>1. /\ run[p].cur[1] \in Calls /\ run[p].cur[2] \in Names
      /\ run[p].copy \in {"absent", "PENDING", "VERIFIED"}
  BY DEF TypeOK, Memory, Entries
<1>2. CurDir(p) \in Directory
  BY <1>1 DEF TypeOK, CurDir, Stored
<1>3. /\ D \in Directory /\ D.state = run[p].copy /\ D.local = CurDir(p).local
      /\ D.part = CurDir(p).part
  BY <1>1, <1>2 DEF Directory
<1>4. dir' = [dir EXCEPT ![run[p].cur[1]][run[p].cur[2]] = D]
  BY DEF KeepPending, CurDir, Stored
<1>. HIDE DEF D
<1>5. Writes(run[p].cur[1], run[p].cur[2]) /\ dir'[run[p].cur[1]][run[p].cur[2]] = D
  BY <1>1, <1>3, <1>4, DirSet
<1>. QED  BY <1>1, <1>3, <1>5 DEF Marks, CurDir, Stored, KeepPending

(* The fields that the trace determines are written.                        *)
LEMMA WriteDerivedDir ==
  ASSUME TypeOK, NEW p \in Procs, WriteDerived(p)
  PROVE  /\ run[p].cur[1] \in Calls /\ dir[run[p].cur[1]]["call"].state # "absent"
         /\ Marks(run[p].cur[1], "call", run[p].copy)
         /\ dir'[run[p].cur[1]]["call"].derived
<1>. DEFINE c == run[p].cur[1]
            D == [dir[c]["call"] EXCEPT !.state = run[p].copy, !.derived = TRUE]
<1>1. c \in Calls /\ run[p].copy \in {"absent", "PENDING", "VERIFIED"} /\ "call" \in Names
  BY DEF TypeOK, Memory, Entries, Names
<1>2. dir[c]["call"] \in Directory
  BY <1>1 DEF TypeOK
<1>3. /\ D \in Directory /\ D.state = run[p].copy /\ D.local = dir[c]["call"].local
      /\ D.part = dir[c]["call"].part /\ D.derived
  BY <1>1, <1>2 DEF Directory
<1>4. dir' = [dir EXCEPT ![c]["call"] = D]
  BY DEF WriteDerived, StateWritten
<1>. HIDE DEF D
<1>5. Writes(c, "call") /\ dir'[c]["call"] = D
  BY <1>1, <1>3, <1>4, DirSet
<1>. QED  BY <1>1, <1>3, <1>5 DEF Marks, WriteDerived

(* The directory under repair gets its final name, which was free.          *)
LEMMA RenameDir ==
  ASSUME TypeOK, NEW p \in Procs, run[p].cur[2] = "pending", Rename(p)
  PROVE  run[p].cur[1] \in Calls /\ Renames(run[p].cur[1])
<1>. DEFINE c == run[p].cur[1]
            D == [n \in Names |-> IF n = "call" THEN CurDir(p) ELSE Absent]
<1>1. c \in Calls /\ CurDir(p) = dir[c]["pending"] /\ CurDir(p) \in Directory
  BY DEF TypeOK, Memory, Entries, CurDir, Stored, Names
<1>2. Absent \in Directory /\ Absent.state = "absent"
  BY DEF Absent, Directory
<1>3. D \in [Names -> Directory] /\ D["call"] = CurDir(p) /\ D["pending"].state = "absent"
  BY <1>1, <1>2 DEF Names
<1>4. dir' = [dir EXCEPT ![c] = D] /\ CurDir(p).state # "absent" /\ TargetFree(c)
  BY DEF Rename
<1>. HIDE DEF D
<1>5. /\ dir' \in [Calls -> [Names -> Directory]] /\ dir'[c] = D
      /\ \A d \in Calls \ {c} : dir'[d] = dir[d]
  BY <1>1, <1>3, <1>4 DEF TypeOK
<1>. QED  BY <1>1, <1>3, <1>4, <1>5 DEF Renames, TargetFree

-------------------------------------------------------------------------------
(* Types.                                                                   *)

(* The call and the artifact of a process that copies are ones.             *)
LEMMA Placed ==
  ASSUME Progress, NEW p \in Procs
  PROVE  /\ run[p].pc \in {"mkdir", "pending", "export", "chunk", "receipt", "replace"}
              => run[p].c \in Calls
         /\ run[p].pc \in {"chunk", "receipt", "replace"} => run[p].a \in Artifacts
BY DEF Progress, ProgressOf, Fetching, Copying

\* A directory is there, or still there, with the artifacts it had; it is
\* verified only if it has them all.
Secures(c, n) ==
  /\ Writes(c, n) /\ dir'[c][n].state # "absent"
  /\ dir[c][n].state # "absent" \/ (n = "pending" /\ dir'[c][n].state = "empty")
  /\ \A a \in Artifacts : dir[c][n].local[a] = Chunks => dir'[c][n].local[a] = Chunks
  /\ dir'[c][n].state = "VERIFIED" => Exact(dir'[c][n])

(* A directory whose meta.json says something else.                         *)
LEMMA MarksSecures ==
  ASSUME NEW c \in Calls, NEW n \in Names, NEW s, Marks(c, n, s), s # "absent",
         dir[c][n].state # "absent" \/ (n = "pending" /\ s = "empty"),
         s = "VERIFIED" => Exact(dir[c][n])
  PROVE  Secures(c, n)
BY DEF Marks, Secures, Exact

(* A directory whose .part files are written.                               *)
LEMMA FillsSecures ==
  ASSUME Copied, NEW c \in Calls, Fills(c)
  PROVE  Secures(c, "pending")
<1>1. dir[c]["pending"].state = "VERIFIED" => Exact(dir[c]["pending"])
  BY DEF Copied, CopiedIn, Names
<1>. QED  BY <1>1 DEF Fills, Secures, Exact

(* What a step of a recovery or of a finalize does to the directories.      *)
LEMMA DirKinds ==
  ASSUME TypeOK, Copied, Progress, Trust, NEW p \in Procs,
         Process(p) \/ TransferFails(p) \/ Start(p) \/ FinalizeAlone(p) \/ Die(p)
  PROVE  \/ dir' = dir
         \/ \E c \in Calls, n \in Names : Secures(c, n)
         \/ Rename(p) /\ \E c \in Calls : Renames(c) /\ Exact(dir[c]["pending"])
<1>. DEFINE Goal == \/ dir' = dir
                    \/ \E c \in Calls, n \in Names : Secures(c, n)
                    \/ Rename(p) /\ \E c \in Calls : Renames(c) /\ Exact(dir[c]["pending"])
<1>0. "pending" \in Names /\ "call" \in Names
  BY DEF Names
<1>1. CASE \/ ReadSession(p) \/ ReadManifest(p) \/ Pull(p) \/ WriteReceipt(p) \/ Info(p) \/ Ack(p)
           \/ WriteResult(p) \/ ListDirs(p) \/ ReadDir(p) \/ WriteSummary(p) \/ Raise(p)
           \/ Die(p) \/ Start(p) \/ FinalizeAlone(p)
  BY <1>1 DEF ReadSession, ReadManifest, Pull, WriteReceipt, Info, Ack, WriteResult, ListDirs,
     ReadDir, WriteSummary, Raise, Die, Ends, Start, FinalizeAlone, diskVars
<1>2. ASSUME Mkdir(p) PROVE Goal
  <2>1. run[p].c \in Calls
    BY <1>2, Placed DEF Mkdir, At
  <2>. QED  BY <1>0, <1>2, <2>1, MkdirDir, MarksSecures
<1>3. ASSUME WritePending(p) PROVE Goal
  <2>1. run[p].c \in Calls
    BY <1>3, Placed DEF WritePending, At
  <2>. QED  BY <1>0, <1>3, <2>1, WritePendingDir, MarksSecures DEF Here
<1>4. ASSUME Export(p) PROVE Goal
  <2>1. run[p].c \in Calls
    BY <1>4, Placed DEF Export, At
  <2>. QED  BY <1>0, <1>4, <2>1, ExportDir, FillsSecures
<1>5. ASSUME FromCache(p) PROVE Goal
  <2>1. run[p].c \in Calls /\ run[p].a \in Artifacts
    BY <1>5, Placed DEF FromCache, At
  <2>2. Fills(run[p].c) \/ (Here(p).state # "absent" /\ Marks(run[p].c, "pending", "PENDING"))
    BY <1>5, <2>1, FromCacheDir
  <2>. QED  BY <1>0, <2>1, <2>2, FillsSecures, MarksSecures DEF Here
<1>6. ASSUME CheckPart(p) PROVE Goal
  <2>1. run[p].c \in Calls
    BY <1>6, Placed DEF CheckPart, At
  <2>. QED  BY <1>0, <1>6, <2>1, CheckPartDir, MarksSecures DEF Here
<1>7. ASSUME TransferFails(p) PROVE Goal
  <2>1. run[p].c \in Calls /\ GiveUp(p)
    BY <1>7, Placed DEF TransferFails, At
  <2>. QED  BY <1>0, <2>1, GiveUpDir, MarksSecures DEF Here
<1>8. ASSUME Replace(p) PROVE Goal
  <2>1. run[p].pc = "replace" /\ run[p].c \in Calls /\ run[p].a \in Artifacts
    BY <1>8, Placed DEF Replace, At
  <2>2. /\ Here(p).state # "absent" /\ Writes(run[p].c, "pending")
        /\ dir'[run[p].c]["pending"].state = Here(p).state
        /\ dir'[run[p].c]["pending"].local[run[p].a] = Here(p).part[run[p].a]
        /\ \A b \in Artifacts \ {run[p].a} :
             dir'[run[p].c]["pending"].local[b] = Here(p).local[b]
    BY <1>8, <2>1, ReplaceDir
  <2>3. Here(p).part[run[p].a] = Chunks
    BY <2>1, <2>2 DEF Progress, ProgressOf, Here
  <2>4. \A b \in Artifacts : Here(p).local[b] = Chunks
          => dir'[run[p].c]["pending"].local[b] = Chunks
    BY <2>2, <2>3
  <2>5. Here(p).state = "VERIFIED" => \A b \in Artifacts : Here(p).local[b] = Chunks
    BY <2>1, <1>0 DEF Copied, CopiedIn, Exact, Here
  <2>6. Secures(run[p].c, "pending")
    BY <2>2, <2>4, <2>5 DEF Secures, Exact, Here
  <2>. QED  BY <1>0, <2>1, <2>6
<1>9. ASSUME Verify(p) PROVE Goal
  <2>1. run[p].c \in Calls
    BY <1>9, Placed DEF Verify, At
  <2>2. /\ run[p].pc = "export" /\ run[p].a = NumArtifacts + 1
        /\ Here(p).state # "absent" /\ Marks(run[p].c, "pending", "VERIFIED")
    BY <1>9, <2>1, VerifyMoves, VerifyDir
  <2>3. \A b \in Artifacts : b < run[p].a
    BY <2>2, RecoveryAssumption DEF Artifacts
  <2>4. Exact(Here(p))
    BY <2>2, <2>3 DEF Progress, ProgressOf, Copying, Here, Exact
  <2>. QED  BY <1>0, <2>1, <2>2, <2>4, MarksSecures DEF Here
<1>10. ASSUME KeepPending(p) PROVE Goal
  <2>1. /\ run[p].cur[1] \in Calls /\ run[p].cur[2] \in Names /\ CurDir(p).state # "absent"
        /\ Marks(run[p].cur[1], run[p].cur[2], run[p].copy)
    BY <1>10, KeepPendingDir
  <2>2. run[p].copy = "PENDING"
    BY <1>10 DEF KeepPending, At, Trust, TrustOf
  <2>. QED  BY <2>1, <2>2, MarksSecures DEF CurDir, Stored
<1>11. ASSUME WriteDerived(p) PROVE Goal
  <2>1. /\ run[p].cur[1] \in Calls /\ dir[run[p].cur[1]]["call"].state # "absent"
        /\ Marks(run[p].cur[1], "call", run[p].copy)
    BY <1>11, WriteDerivedDir
  <2>2. run[p].copy = "VERIFIED" /\ Exact(dir[run[p].cur[1]]["call"])
    BY <1>11, <2>1 DEF WriteDerived, At, Trust, TrustOf, Copied, CopiedIn
  <2>. QED  BY <1>0, <2>1, <2>2, MarksSecures
<1>12. ASSUME Rename(p) PROVE Goal
  <2>1. run[p].cur[2] = "pending" /\ Secured(run[p].cur[1])
    BY <1>12 DEF Rename, At, Trust, TrustOf
  <2>2. run[p].cur[1] \in Calls /\ Renames(run[p].cur[1])
    BY <1>12, <2>1, RenameDir
  <2>3. Exact(dir[run[p].cur[1]]["pending"])
    BY <2>1, <2>2 DEF Secured, SecuredIn, Renames, Names
  <2>. QED  BY <1>12, <2>2, <2>3
<1>. QED
  BY <1>1, <1>2, <1>3, <1>4, <1>5, <1>6, <1>7, <1>8, <1>9, <1>10, <1>11, <1>12
  DEF Process, Recover, Finalize

(* What was secured stays so, what is final stays there, and every final or *)
(* verified directory is still exact.                                       *)
LEMMA DirSteady ==
  ASSUME TypeOK, Copied,
         \/ dir' = dir
         \/ \E c \in Calls, n \in Names : Secures(c, n)
         \/ \E c \in Calls : Renames(c) /\ Exact(dir[c]["pending"])
  PROVE  /\ dir' \in [Calls -> [Names -> Directory]]
         /\ \A d \in Calls : CopiedIn(dir'[d])
         /\ \A d \in Calls : SecuredIn(dir[d]) => SecuredIn(dir'[d])
         /\ \A d \in Calls : dir[d]["call"].state # "absent" => dir'[d]["call"].state # "absent"
<1>1. \A d \in Calls : CopiedIn(dir[d])
  BY DEF Copied
<1>2. CASE dir' = dir
  BY <1>1, <1>2 DEF TypeOK
<1>3. ASSUME NEW c \in Calls, NEW n \in Names, Secures(c, n)
      PROVE  /\ dir' \in [Calls -> [Names -> Directory]]
             /\ \A d \in Calls : CopiedIn(dir'[d])
             /\ \A d \in Calls : SecuredIn(dir[d]) => SecuredIn(dir'[d])
             /\ \A d \in Calls : dir[d]["call"].state # "absent" => dir'[d]["call"].state # "absent"
  <2>1. /\ dir' \in [Calls -> [Names -> Directory]]
        /\ \A d \in Calls, m \in Names : d # c \/ m # n => dir'[d][m] = dir[d][m]
        /\ dir'[c][n].state # "absent"
        /\ Exact(dir[c][n]) => Exact(dir'[c][n])
        /\ dir'[c][n].state = "VERIFIED" => Exact(dir'[c][n])
        /\ dir[c][n].state # "absent" \/ n = "pending"
    BY <1>3 DEF Secures, Writes, Exact
  <2>2. ASSUME NEW d \in Calls PROVE CopiedIn(dir'[d])
    <3>1. ASSUME NEW m \in Names PROVE dir'[d][m].state = "VERIFIED" => Exact(dir'[d][m])
      BY <1>1, <2>1 DEF CopiedIn
    <3>2. dir'[d]["call"].state # "absent" => Exact(dir'[d]["call"])
      BY <1>1, <2>1 DEF CopiedIn, Names
    <3>. QED  BY <3>1, <3>2 DEF CopiedIn
  <2>3. ASSUME NEW d \in Calls, NEW m \in Names, dir[d][m].state # "absent", Exact(dir[d][m])
        PROVE  dir'[d][m].state # "absent" /\ Exact(dir'[d][m])
    BY <2>1, <2>3
  <2>4. \A d \in Calls : SecuredIn(dir[d]) => SecuredIn(dir'[d])
    BY <2>3 DEF SecuredIn
  <2>5. \A d \in Calls : dir[d]["call"].state # "absent" => dir'[d]["call"].state # "absent"
    BY <2>1 DEF Names
  <2>. QED  BY <2>1, <2>2, <2>4, <2>5
<1>4. ASSUME NEW c \in Calls, Renames(c), Exact(dir[c]["pending"])
      PROVE  /\ dir' \in [Calls -> [Names -> Directory]]
             /\ \A d \in Calls : CopiedIn(dir'[d])
             /\ \A d \in Calls : SecuredIn(dir[d]) => SecuredIn(dir'[d])
             /\ \A d \in Calls : dir[d]["call"].state # "absent" => dir'[d]["call"].state # "absent"
  <2>1. /\ dir' \in [Calls -> [Names -> Directory]]
        /\ \A d \in Calls \ {c} : dir'[d] = dir[d]
        /\ dir'[c]["call"].state # "absent" /\ Exact(dir'[c]["call"])
        /\ dir'[c]["pending"].state = "absent"
    BY <1>4 DEF Renames
  <2>2. CopiedIn(dir'[c]) /\ SecuredIn(dir'[c])
    BY <2>1 DEF CopiedIn, SecuredIn, Names
  <2>. QED  BY <1>1, <2>1, <2>2
<1>. QED  BY <1>2, <1>3, <1>4

\* What a step does to the processes and the lock: the environment; a recovery
\* or a finalize begins; a process ends; a process goes on.
Environment == UNCHANGED <<run, lock, beside, dir, acked>>
Stops(p) ==
  /\ Others(p) /\ Busy(p) /\ run'[p] = Idle /\ run'[p].pc = "idle" /\ dir' = dir
  /\ beside' = beside /\ lock' = IF lock = p THEN None ELSE lock
GoesOn(p) ==
  /\ Others(p) /\ Busy(p) /\ run'[p].pc # "idle" /\ lock' = lock /\ beside' = beside
  /\ p \in Finalizers => run'[p].pc \in Finalizing

(* Ends gives the lock back.                                                *)
LEMMA EndsStops ==
  ASSUME TypeOK, NEW p \in Procs, Busy(p), Ends(p)
  PROVE  Stops(p)
BY IdleMoves DEF Ends, Stops, diskVars

(* A process that raises was at something.                                  *)
LEMMA RaiseStops ==
  ASSUME TypeOK, NEW p \in Procs, Raise(p) \/ Die(p)
  PROVE  Stops(p)
<1>1. Busy(p) /\ Ends(p)
  BY DEF Raise, Raises, Die, At, Busy, MkdirWorks
<1>. QED  BY <1>1, EndsStops

(* Only finalize's control states belong to finalize alone.                 *)
LEMMA RunKinds ==
  ASSUME TypeOK, Locked, Progress, [Next]_vars
  PROVE  \/ Environment
         \/ \E p \in Procs : Start(p) \/ FinalizeAlone(p) \/ Stops(p) \/ GoesOn(p)
<1>. DEFINE Goal == \E p \in Procs : Start(p) \/ FinalizeAlone(p) \/ Stops(p) \/ GoesOn(p)
<1>1. SealCall \/ SealSession \/ Damage \/ UNCHANGED vars => Environment
  BY DEF SealCall, SealSession, Damage, Environment, vars, deviceVars, diskVars
<1>2. ASSUME NEW p \in Procs, TransferFails(p) PROVE GoesOn(p)
  <2>1. run[p].c \in Calls /\ run[p].pc \in {"export", "chunk"} /\ GiveUp(p)
    BY <1>2, Placed DEF TransferFails, At
  <2>2. Others(p) /\ run'[p].pc = "manifest" /\ lock' = lock /\ beside' = beside
    BY <1>2, <2>1, GiveUpMoves DEF Advances, TransferFails
  <2>. QED  BY <2>1, <2>2 DEF GoesOn, Busy, Locked, Finalizing, Repairing
<1>3. ASSUME NEW p \in Procs, Recover(p) PROVE Goal
  <2>0. /\ run[p].pc \in {"mkdir", "pending", "export", "chunk", "receipt", "replace"}
             => run[p].c \in Calls
        /\ run[p].pc \in {"chunk", "receipt", "replace"} => run[p].a \in Artifacts
    BY Placed
  <2>1. CASE ReadSession(p)
    <3>1. /\ Others(p) /\ run[p].pc = "session" /\ run'[p].pc \in {"manifest", "list"}
          /\ lock' = lock /\ beside' = beside
      BY <2>1, ReadSessionMoves DEF Passes, ReadSession
    <3>. QED  BY <3>1 DEF GoesOn, Busy, Locked, Finalizing, Repairing
  <2>2. CASE ReadManifest(p)
    <3>1. /\ Others(p) /\ run[p].pc = "manifest" /\ run'[p].pc \in {"manifest", "list", "mkdir"}
          /\ lock' = lock /\ beside' = beside
      BY <2>2, ReadManifestMoves DEF Passes, Advances, ReadManifest
    <3>. QED  BY <3>1 DEF GoesOn, Busy, Locked, Finalizing, Repairing
  <2>3. CASE Mkdir(p) \/ WritePending(p)
    <3>1. /\ Others(p) /\ run[p].pc \in {"mkdir", "pending"} /\ run'[p].pc \in {"pending", "export"}
          /\ lock' = lock /\ beside' = beside
      BY <2>3, PrepareMoves DEF Passes, Mkdir, WritePending
    <3>. QED  BY <3>1 DEF GoesOn, Busy, Locked, Finalizing, Repairing
  <2>4. CASE Export(p)
    <3>1. /\ Others(p) /\ run[p].pc = "export" /\ run'[p].pc \in {"export", "chunk"}
          /\ lock' = lock /\ beside' = beside
      BY <2>4, ExportMoves DEF Copies, Export
    <3>. QED  BY <3>1 DEF GoesOn, Busy, Locked, Finalizing, Repairing
  <2>5. CASE FromCache(p)
    <3>1. run[p].pc = "chunk" /\ run[p].c \in Calls
      BY <2>0, <2>5 DEF FromCache, At
    <3>2. Others(p) /\ run'[p].pc \in {"chunk", "manifest"} /\ lock' = lock /\ beside' = beside
      BY <2>5, <3>1, FromCacheMoves DEF Copies, Advances, FromCache
    <3>. QED  BY <3>1, <3>2 DEF GoesOn, Busy, Locked, Finalizing, Repairing
  <2>6. CASE Pull(p) \/ WriteReceipt(p)
    <3>1. /\ Others(p) /\ run[p].pc \in {"chunk", "receipt"} /\ run'[p].pc \in {"chunk", "receipt"}
          /\ lock' = lock /\ beside' = beside
      BY <2>6, PullMoves DEF Passes, Pull, WriteReceipt
    <3>. QED  BY <3>1 DEF GoesOn, Busy, Locked, Finalizing, Repairing
  <2>7. CASE CheckPart(p)
    <3>1. run[p].pc = "chunk" /\ run[p].c \in Calls
      BY <2>0, <2>7 DEF CheckPart, At
    <3>2. Others(p) /\ run'[p].pc \in {"replace", "manifest"} /\ lock' = lock /\ beside' = beside
      BY <2>7, <3>1, CheckPartMoves DEF Passes, Advances, CheckPart
    <3>. QED  BY <3>1, <3>2 DEF GoesOn, Busy, Locked, Finalizing, Repairing
  <2>8. CASE Replace(p)
    <3>1. run[p].pc = "replace" /\ run[p].a \in Artifacts
      BY <2>0, <2>8 DEF Replace, At
    <3>2. Others(p) /\ run'[p].pc = "export" /\ lock' = lock /\ beside' = beside
      BY <2>8, <3>1, ReplaceMoves DEF Copies, Replace
    <3>. QED  BY <3>1, <3>2 DEF GoesOn, Busy, Locked, Finalizing, Repairing
  <2>9. CASE Verify(p)
    <3>1. run[p].pc = "export" /\ run[p].c \in Calls
      BY <2>0, <2>9 DEF Verify, At
    <3>2. Others(p) /\ run'[p].pc = "manifest" /\ lock' = lock /\ beside' = beside
      BY <2>9, <3>1, VerifyMoves DEF Advances, Verify
    <3>. QED  BY <3>1, <3>2 DEF GoesOn, Busy, Locked, Finalizing, Repairing
  <2>10. CASE Info(p)
    <3>1. /\ Others(p) /\ run[p].pc = "info" /\ run'[p].pc = "ack" /\ lock' = lock
          /\ beside' = beside
      BY <2>10, InfoMoves DEF Info
    <3>. QED  BY <3>1 DEF GoesOn, Busy, Locked, Finalizing, Repairing
  <2>11. CASE Ack(p)
    <3>1. /\ Others(p) /\ run[p].pc = "ack" /\ run'[p].pc = "ack" /\ lock' = lock
          /\ beside' = beside
      BY <2>11, AckMoves DEF Ack
    <3>. QED  BY <3>1 DEF GoesOn, Busy, Locked, Finalizing, Repairing
  <2>12. CASE WriteResult(p)
    <3>1. run[p].pc = "ack" /\ lock' = None /\ beside' = beside /\ dir' = dir
      BY <2>12 DEF WriteResult, At
    <3>2. p \in Recoverers /\ lock = p
      BY <3>1 DEF Locked, Finalizing, Repairing, Procs, Busy
    <3>3. Others(p) /\ run'[p] = Idle /\ run'[p].pc = "idle"
      BY <2>12, IdleMoves DEF WriteResult
    <3>. QED  BY <3>1, <3>2, <3>3 DEF Stops, Busy
  <2>. QED
    BY <1>3, <2>1, <2>2, <2>3, <2>4, <2>5, <2>6, <2>7, <2>8, <2>9, <2>10, <2>11, <2>12
    DEF Recover
<1>4. ASSUME NEW p \in Procs, Finalize(p) PROVE Goal
  <2>1. CASE ListDirs(p)
    <3>1. /\ Others(p) /\ run[p].pc = "list" /\ run'[p].pc = "repair" /\ lock' = lock
          /\ beside' = beside
      BY <2>1, ListDirsMoves DEF Finds, ListDirs
    <3>. QED  BY <3>1 DEF GoesOn, Busy, Finalizing, Repairing
  <2>2. CASE ReadDir(p)
    <3>1. /\ Others(p) /\ run[p].pc = "repair" /\ run'[p].pc \in {"keep", "rename", "derive"}
          /\ lock' = lock /\ beside' = beside
      BY <2>2, ReadDirMoves DEF Finds, ReadDir
    <3>. QED  BY <3>1 DEF GoesOn, Busy, Finalizing, Repairing
  <2>3. CASE KeepPending(p) \/ WriteDerived(p)
    <3>1. /\ Others(p) /\ run[p].pc \in {"keep", "derive"} /\ run'[p].pc = "repair"
          /\ lock' = lock /\ beside' = beside
      BY <2>3, RepairedMoves DEF Finds, KeepPending, WriteDerived
    <3>. QED  BY <3>1 DEF GoesOn, Busy, Finalizing, Repairing
  <2>4. CASE Rename(p)
    <3>1. /\ Others(p) /\ run[p].pc = "rename" /\ run'[p].pc = "derive" /\ lock' = lock
          /\ beside' = beside
      BY <2>4, RenameMoves DEF Passes, Rename
    <3>. QED  BY <3>1 DEF GoesOn, Busy, Finalizing, Repairing
  <2>5. CASE WriteSummary(p)
    <3>1. run[p].pc = "repair" /\ lock' = lock /\ beside' = beside /\ dir' = dir
      BY <2>5 DEF WriteSummary, At
    <3>2. CASE p \in Recoverers /\ Passes(p, "repair", "info")
      BY <3>1, <3>2, RecoveryAssumption DEF Passes, GoesOn, Busy
    <3>3. CASE p \notin Recoverers /\ Others(p) /\ run'[p] = Idle /\ run'[p].pc = "idle"
      BY <3>1, <3>3 DEF Stops, Busy, TypeOK
    <3>. QED  BY <2>5, <3>2, <3>3, SummaryMoves
  <2>. QED  BY <1>4, <2>1, <2>2, <2>3, <2>4, <2>5 DEF Finalize
<1>. QED  BY <1>1, <1>2, <1>3, <1>4, RaiseStops DEF Next, Process

\* The types of what is neither a process's nor a directory's.
RestOK ==
  /\ session \in {"CAPTURING", "SEALED", "FAILED"}
  /\ sealed \subseteq Calls /\ acked \subseteq Calls /\ summary \subseteq Calls
  /\ cache \in [Calls -> [Artifacts -> [Chunks -> CachedChunk]]]
  /\ result \in {"none", "ok", "incomplete", "pending"}
  /\ moved \in [Calls -> [Artifacts -> [Chunks -> Nat]]] /\ faults \in 0..MaxFaults

\* What the steps of RestOK's variables write.
restVars == <<session, sealed, acked, summary, cache, result, moved, faults>>

(* Writing an entry of a function of calls, artifacts and chunks.           *)
LEMMA EntrySet ==
  ASSUME NEW T, NEW F \in [Calls -> [Artifacts -> [Chunks -> T]]],
         NEW c \in Calls, NEW a \in Artifacts, NEW k, NEW y, k \in Chunks => y \in T
  PROVE  [F EXCEPT ![c][a][k] = y] \in [Calls -> [Artifacts -> [Chunks -> T]]]
<1>1. F[c] \in [Artifacts -> [Chunks -> T]] /\ F[c][a] \in [Chunks -> T]
  OBVIOUS
<1>2. [F[c][a] EXCEPT ![k] = y] \in [Chunks -> T]
  BY <1>1
<1>. DEFINE G == [F[c][a] EXCEPT ![k] = y]
<1>. HIDE DEF G
<1>3. [F[c] EXCEPT ![a] = G] \in [Artifacts -> [Chunks -> T]]
  BY <1>1, <1>2 DEF G
<1>. DEFINE H == [F[c] EXCEPT ![a] = G]
<1>. HIDE DEF H
<1>4. [F EXCEPT ![c] = H] \in [Calls -> [Artifacts -> [Chunks -> T]]]
  BY <1>3 DEF H
<1>. QED  BY <1>4 DEF G, H

(* The cache and the history of transfers keep their types.                 *)
LEMMA CacheTypes ==
  ASSUME TypeOK, Progress, Damage \/ \E p \in Procs : FromCache(p) \/ Pull(p) \/ WriteReceipt(p)
  PROVE  /\ cache' \in [Calls -> [Artifacts -> [Chunks -> CachedChunk]]]
         /\ moved' \in [Calls -> [Artifacts -> [Chunks -> Nat]]]
<1>1. /\ cache \in [Calls -> [Artifacts -> [Chunks -> CachedChunk]]]
      /\ moved \in [Calls -> [Artifacts -> [Chunks -> Nat]]]
  BY DEF TypeOK
<1>2. \A x \in CachedChunk, v \in {"none", "good", "bad"} :
        [x EXCEPT !.gz = v] \in CachedChunk /\ [x EXCEPT !.receipt = v] \in CachedChunk
  BY DEF CachedChunk
<1>3. ASSUME NEW c \in Calls, NEW a \in Artifacts, NEW k \in 1..(NumChunks + 1),
             NEW v \in {"none", "good", "bad"}
      PROVE  /\ [cache EXCEPT ![c][a][k].gz = v] \in [Calls -> [Artifacts -> [Chunks -> CachedChunk]]]
             /\ [cache EXCEPT ![c][a][k].receipt = v]
                  \in [Calls -> [Artifacts -> [Chunks -> CachedChunk]]]
  <2>1. k \in Chunks => cache[c][a][k] \in CachedChunk
    BY <1>1
  <2>2. /\ k \in Chunks => [cache[c][a][k] EXCEPT !.gz = v] \in CachedChunk
        /\ k \in Chunks => [cache[c][a][k] EXCEPT !.receipt = v] \in CachedChunk
    BY <1>2, <2>1
  <2>. QED  BY <1>1, <2>2, EntrySet
<1>4. ASSUME NEW c \in Calls, NEW a \in Artifacts, NEW k \in 1..(NumChunks + 1)
      PROVE  /\ [moved EXCEPT ![c][a][k] = @ + 1] \in [Calls -> [Artifacts -> [Chunks -> Nat]]]
             /\ [moved EXCEPT ![c][a][k] = 0] \in [Calls -> [Artifacts -> [Chunks -> Nat]]]
  <2>1. k \in Chunks => moved[c][a][k] + 1 \in Nat
    BY <1>1
  <2>. QED  BY <1>1, <2>1, EntrySet
<1>5. ASSUME NEW p \in Procs, FromCache(p) \/ Pull(p) \/ WriteReceipt(p)
      PROVE  /\ cache' \in [Calls -> [Artifacts -> [Chunks -> CachedChunk]]]
             /\ moved' \in [Calls -> [Artifacts -> [Chunks -> Nat]]]
  <2>0. run[p].c \in Calls /\ run[p].a \in Artifacts /\ run[p].k \in 1..(NumChunks + 1)
    BY <1>5, Placed DEF FromCache, Pull, WriteReceipt, At, TypeOK, Memory
  <2>1. CASE FromCache(p)
    <3>1. /\ moved' = moved
          /\ \/ cache' = cache
             \/ cache' = [cache EXCEPT ![run[p].c][run[p].a][run[p].k].receipt = "none"]
      BY <2>1 DEF FromCache
    <3>2. [cache EXCEPT ![run[p].c][run[p].a][run[p].k].receipt = "none"]
            \in [Calls -> [Artifacts -> [Chunks -> CachedChunk]]]
      BY <1>3, <2>0
    <3>. QED  BY <1>1, <3>1, <3>2
  <2>2. CASE Pull(p)
    BY <1>1, <1>3, <1>4, <2>0, <2>2 DEF Pull
  <2>3. CASE WriteReceipt(p)
    BY <1>1, <1>3, <2>0, <2>3 DEF WriteReceipt
  <2>. QED  BY <1>5, <2>1, <2>2, <2>3
<1>6. CASE Damage
  <2>1. PICK c \in Calls, a \in Artifacts, k \in Chunks :
          \/ /\ cache' = [cache EXCEPT ![c][a][k].gz = "bad"]
             /\ moved' = [moved EXCEPT ![c][a][k] = 0]
          \/ /\ cache' = [cache EXCEPT ![c][a][k].receipt = "bad"]
             /\ UNCHANGED moved
    BY <1>6 DEF Damage
  <2>2. k \in 1..(NumChunks + 1)
    BY RecoveryAssumption DEF Chunks
  <2>3. /\ [cache EXCEPT ![c][a][k].gz = "bad"] \in [Calls -> [Artifacts -> [Chunks -> CachedChunk]]]
        /\ [cache EXCEPT ![c][a][k].receipt = "bad"]
             \in [Calls -> [Artifacts -> [Chunks -> CachedChunk]]]
    BY <1>3, <2>2
  <2>4. [moved EXCEPT ![c][a][k] = 0] \in [Calls -> [Artifacts -> [Chunks -> Nat]]]
    BY <1>4, <2>2
  <2>. QED  BY <1>1, <2>1, <2>3, <2>4
<1>. QED  BY <1>5, <1>6

(* So does the rest of the disk, the device and the counter of faults.      *)
LEMMA RestTypes ==
  ASSUME TypeOK, Progress, [Next]_vars
  PROVE  RestOK'
<1>. DEFINE Goal == RestOK'
<1>0. RestOK
  BY DEF TypeOK, RestOK
<1>1. UNCHANGED restVars => Goal
  BY <1>0 DEF RestOK, restVars
<1>2. UNCHANGED vars \/ (\E p \in Procs : Start(p) \/ FinalizeAlone(p) \/ Raise(p)) => Goal
  <2>1. ASSUME UNCHANGED vars PROVE UNCHANGED restVars
    BY <2>1 DEF vars, restVars, deviceVars, diskVars
  <2>2. ASSUME NEW p \in Procs, Start(p) \/ FinalizeAlone(p) \/ Raise(p) PROVE UNCHANGED restVars
    BY <2>2 DEF Start, FinalizeAlone, Raise, Ends, restVars, deviceVars, diskVars
  <2>. QED  BY <1>1, <2>1, <2>2
<1>3. ASSUME SealCall \/ SealSession PROVE Goal
  BY <1>0, <1>3 DEF SealCall, SealSession, RestOK, diskVars
<1>4. ASSUME Damage PROVE Goal
  <2>1. faults' \in 0..MaxFaults
    BY <1>0, <1>4, RecoveryAssumption DEF Damage, RestOK
  <2>2. UNCHANGED <<session, sealed, acked, summary, result>>
    BY <1>4 DEF Damage, deviceVars
  <2>. QED  BY <1>0, <1>4, <2>1, <2>2, CacheTypes DEF RestOK
<1>5. ASSUME NEW p \in Procs, Die(p) \/ TransferFails(p) PROVE Goal
  <2>1. faults' \in 0..MaxFaults
    BY <1>0, <1>5, RecoveryAssumption DEF Die, TransferFails, RestOK
  <2>2. UNCHANGED <<session, sealed, acked, summary, result, cache, moved>>
    BY <1>5 DEF Die, Ends, TransferFails, deviceVars, diskVars
  <2>. QED  BY <1>0, <2>1, <2>2 DEF RestOK
<1>6. ASSUME NEW p \in Procs, Recover(p) PROVE Goal
  <2>1. CASE \/ ReadSession(p) \/ ReadManifest(p) \/ Mkdir(p) \/ WritePending(p) \/ Export(p)
             \/ CheckPart(p) \/ Replace(p) \/ Verify(p) \/ Info(p)
    <3>1. UNCHANGED restVars
      BY <2>1 DEF ReadSession, ReadManifest, Mkdir, WritePending, Export, CheckPart, Replace,
         Verify, Info, restVars, deviceVars, diskVars
    <3>. QED  BY <1>1, <3>1
  <2>2. CASE FromCache(p) \/ Pull(p) \/ WriteReceipt(p)
    <3>1. UNCHANGED <<session, sealed, acked, summary, result, faults>>
      BY <2>2 DEF FromCache, Pull, WriteReceipt, deviceVars
    <3>. QED  BY <1>0, <2>2, <3>1, CacheTypes DEF RestOK
  <2>3. CASE Ack(p)
    <3>1. acked' \subseteq Calls
      BY <1>0, <2>3, AckMoves DEF TypeOK, Memory, RestOK
    <3>2. UNCHANGED <<session, sealed, summary, result, cache, moved, faults>>
      BY <2>3 DEF Ack, diskVars
    <3>. QED  BY <1>0, <3>1, <3>2 DEF RestOK
  <2>4. CASE WriteResult(p)
    <3>1. run[p].missing \in BOOLEAN /\ run[p].whole \in BOOLEAN
      BY DEF TypeOK, Memory
    <3>2. result' \in {"none", "ok", "incomplete", "pending"}
      BY <2>4, <3>1 DEF WriteResult
    <3>3. UNCHANGED <<session, sealed, acked, summary, cache, moved, faults>>
      BY <2>4 DEF WriteResult, deviceVars
    <3>. QED  BY <1>0, <3>2, <3>3 DEF RestOK
  <2>. QED  BY <1>6, <2>1, <2>2, <2>3, <2>4 DEF Recover
<1>7. ASSUME NEW p \in Procs, Finalize(p) PROVE Goal
  <2>1. CASE ListDirs(p) \/ ReadDir(p) \/ KeepPending(p) \/ Rename(p) \/ WriteDerived(p)
    <3>1. UNCHANGED restVars
      BY <2>1 DEF ListDirs, ReadDir, KeepPending, Rename, WriteDerived, restVars, deviceVars,
         diskVars
    <3>. QED  BY <1>1, <3>1
  <2>2. CASE WriteSummary(p)
    <3>1. summary' \subseteq Calls
      BY <2>2 DEF WriteSummary, SummaryOf, TypeOK, Memory
    <3>2. UNCHANGED <<session, sealed, acked, result, cache, moved, faults>>
      BY <2>2 DEF WriteSummary, deviceVars
    <3>. QED  BY <1>0, <3>1, <3>2 DEF RestOK
  <2>. QED  BY <1>7, <2>1, <2>2 DEF Finalize
<1>. QED  BY <1>1, <1>2, <1>3, <1>4, <1>5, <1>6, <1>7 DEF Next, Process

\* A step of one process.
Step(p) == Process(p) \/ TransferFails(p) \/ Start(p) \/ FinalizeAlone(p) \/ Die(p)

(* Every step is the environment's or some process's.                       *)
LEMMA NextSteps ==
  ASSUME [Next]_vars
  PROVE  UNCHANGED <<run, lock, beside, dir, acked>> \/ \E p \in Procs : Step(p)
BY DEF Next, Step, vars, deviceVars, diskVars, SealCall, SealSession, Damage

(* The directories after any step.                                          *)
LEMMA DirStep ==
  ASSUME TypeOK, Copied, Progress, Trust, [Next]_vars
  PROVE  /\ dir' \in [Calls -> [Names -> Directory]]
         /\ \A d \in Calls : CopiedIn(dir'[d])
         /\ \A d \in Calls : SecuredIn(dir[d]) => SecuredIn(dir'[d])
         /\ \A d \in Calls : dir[d]["call"].state # "absent" => dir'[d]["call"].state # "absent"
BY NextSteps, DirKinds, DirSteady DEF Step

(* Every value keeps its type.                                              *)
LEMMA TypesStep ==
  ASSUME TypeOK, Locked, Copied, Progress, Trust, [Next]_vars
  PROVE  TypeOK'
<1>1. dir' \in [Calls -> [Names -> Directory]]
  BY DirStep
<1>2. RestOK'
  BY RestTypes
<1>3. /\ run' \in [Procs -> Memory] /\ lock' \in Recoverers \cup {None}
      /\ beside' \in {"never", "alone", "beside"}
  <2>1. CASE Environment
    BY <2>1 DEF Environment, TypeOK
  <2>2. ASSUME NEW p \in Procs, Start(p)
        PROVE  /\ run' \in [Procs -> Memory] /\ lock' \in Recoverers \cup {None}
               /\ beside' \in {"never", "alone", "beside"}
    BY <2>2, StartMoves DEF Start, Others, TypeOK
  <2>3. ASSUME NEW p \in Procs, FinalizeAlone(p)
        PROVE  /\ run' \in [Procs -> Memory] /\ lock' \in Recoverers \cup {None}
               /\ beside' \in {"never", "alone", "beside"}
    BY <2>3, FinalizeAloneMoves DEF FinalizeAlone, Others, TypeOK
  <2>4. ASSUME NEW p \in Procs, Stops(p) \/ GoesOn(p)
        PROVE  /\ run' \in [Procs -> Memory] /\ lock' \in Recoverers \cup {None}
               /\ beside' \in {"never", "alone", "beside"}
    BY <2>4 DEF Stops, GoesOn, Others, TypeOK
  <2>. QED  BY <2>1, <2>2, <2>3, <2>4, RunKinds
<1>. QED  BY <1>1, <1>2, <1>3 DEF TypeOK, RestOK

(* The recovery that works holds the lock.                                  *)
LEMMA LockedStep ==
  ASSUME TypeOK, Locked, Progress, [Next]_vars
  PROVE  Locked'
<1>0. Recoverers \cap Finalizers = {} /\ None \notin Recoverers
  BY RecoveryAssumption
<1>1. CASE Environment
  BY <1>1 DEF Environment, Locked, Busy
<1>2. ASSUME NEW p \in Procs, Start(p) PROVE Locked'
  <2>1. /\ p \in Recoverers /\ lock = None /\ lock' = p
        /\ \A q \in Procs \ {p} : run'[q] = run[q]
    BY <1>2, StartMoves DEF Start, LockFree, Others
  <2>2. \A q \in Recoverers : ~Busy(q)
    BY <1>0, <2>1 DEF Locked
  <2>. QED  BY <1>0, <2>1, <2>2 DEF Locked, Busy, Procs
<1>3. ASSUME NEW p \in Procs, FinalizeAlone(p) PROVE Locked'
  BY <1>0, <1>3, FinalizeAloneMoves DEF FinalizeAlone, Others, Locked, Busy, Finalizing, Procs
<1>4. ASSUME NEW p \in Procs, Stops(p) PROVE Locked'
  <2>1. /\ \A q \in Procs \ {p} : run'[q] = run[q]
        /\ run'[p].pc = "idle" /\ lock' = IF lock = p THEN None ELSE lock
    BY <1>4 DEF Stops, Others
  <2>. QED  BY <2>1 DEF Locked, Busy, Procs
<1>5. ASSUME NEW p \in Procs, GoesOn(p) PROVE Locked'
  BY <1>5 DEF GoesOn, Others, Locked, Busy, Procs
<1>. QED  BY <1>1, <1>2, <1>3, <1>4, <1>5, RunKinds

(* One process works at a time, unless finalize has run beside a recovery.  *)
LEMMA AloneStep ==
  ASSUME TypeOK, Locked, Alone, Progress, [Next]_vars
  PROVE  Alone'
<1>0. Recoverers \cap Finalizers = {} /\ None \notin Recoverers
  BY RecoveryAssumption
<1>1. CASE Environment
  BY <1>1 DEF Environment, Alone, Busy
<1>2. ASSUME NEW p \in Procs, Start(p) PROVE Alone'
  <2>1. /\ p \in Recoverers /\ lock = None /\ \A q \in Procs \ {p} : run'[q] = run[q]
        /\ beside' = IF \E q \in Finalizers : Busy(q) THEN "beside" ELSE beside
    BY <1>2, StartMoves DEF Start, LockFree, Others, At, Busy
  <2>2. \A q \in Recoverers : ~Busy(q)
    BY <1>0, <2>1 DEF Locked
  <2>3. beside' # "beside" => \A q \in Procs \ {p} : ~Busy(q)'
    BY <2>1, <2>2 DEF Busy, Procs
  <2>4. beside' = "never" => \A q \in Finalizers : ~Busy(q)'
    BY <1>0, <2>1, <2>3 DEF Procs
  <2>. QED  BY <2>3, <2>4 DEF Alone
<1>3. ASSUME NEW p \in Procs, FinalizeAlone(p) PROVE Alone'
  <2>1. /\ p \in Finalizers /\ beside = "never" /\ \A q \in Procs \ {p} : run'[q] = run[q]
        /\ beside' = IF lock = None THEN "alone" ELSE "beside"
    BY <1>3, FinalizeAloneMoves DEF FinalizeAlone, Others
  <2>2. \A q \in Finalizers : ~Busy(q)
    BY <2>1 DEF Alone
  <2>3. lock = None => \A q \in Recoverers : ~Busy(q)
    BY <1>0 DEF Locked
  <2>4. beside' # "beside" => \A q \in Procs \ {p} : ~Busy(q)'
    BY <2>1, <2>2, <2>3 DEF Busy, Procs
  <2>. QED  BY <2>1, <2>4 DEF Alone
<1>4. ASSUME NEW p \in Procs, Stops(p) \/ GoesOn(p) PROVE Alone'
  <2>1. /\ beside' = beside /\ Busy(p) /\ \A q \in Procs \ {p} : run'[q] = run[q]
    BY <1>4 DEF Stops, GoesOn, Others
  <2>2. \A q \in Procs : Busy(q)' => Busy(q)
    BY <2>1 DEF Busy
  <2>. QED  BY <2>1, <2>2 DEF Alone, Procs
<1>. QED  BY <1>1, <1>2, <1>3, <1>4, RunKinds

(* An entry that is written, and the others.                                *)
LEMMA EntryGet ==
  ASSUME NEW T, NEW F \in [Calls -> [Artifacts -> [Chunks -> T]]],
         NEW c \in Calls, NEW a \in Artifacts, NEW k \in 1..(NumChunks + 1), NEW y, NEW G,
         G = [F EXCEPT ![c][a][k] = y]
  PROVE  \A d \in Calls, b \in Artifacts, j \in Chunks :
           G[d][b][j] = IF d = c /\ b = a /\ j = k THEN y ELSE F[d][b][j]
OBVIOUS

(* A chunk that was moved once is there and is not moved again.             *)
LEMMA MovedStep ==
  ASSUME TypeOK, Progress, Moved, [Next]_vars
  PROVE  Moved'
<1>1. /\ cache \in [Calls -> [Artifacts -> [Chunks -> CachedChunk]]]
      /\ moved \in [Calls -> [Artifacts -> [Chunks -> Nat]]]
  BY DEF TypeOK
<1>2. ASSUME UNCHANGED <<cache, moved>> PROVE Moved'
  BY <1>2 DEF Moved
<1>3. ASSUME NEW c \in Calls, NEW a \in Artifacts, NEW k \in 1..(NumChunks + 1),
             NEW v \in {"none", "good", "bad"}, moved' = moved,
             cache' = [cache EXCEPT ![c][a][k].receipt = v]
      PROVE  Moved'
  <2>1. \A x \in CachedChunk : [x EXCEPT !.receipt = v].gz = x.gz
    BY DEF CachedChunk
  <2>2. \A d \in Calls, b \in Artifacts, j \in Chunks :
          cache'[d][b][j] = IF d = c /\ b = a /\ j = k
                              THEN [cache[c][a][k] EXCEPT !.receipt = v] ELSE cache[d][b][j]
    BY <1>1, <1>3, EntryGet
  <2>3. ASSUME NEW d \in Calls, NEW b \in Artifacts, NEW j \in Chunks
        PROVE  cache'[d][b][j].gz = cache[d][b][j].gz
    <3>1. cache[d][b][j] \in CachedChunk
      BY <1>1
    <3>2. CASE d = c /\ b = a /\ j = k
      <4>1. cache'[d][b][j] = [cache[d][b][j] EXCEPT !.receipt = v]
        BY <2>2, <3>2
      <4>. QED  BY <2>1, <3>1, <4>1
    <3>3. CASE ~(d = c /\ b = a /\ j = k)
      <4>1. cache'[d][b][j] = cache[d][b][j]
        BY <2>2, <3>3
      <4>. QED  BY <4>1
    <3>. QED  BY <3>2, <3>3
  <2>. QED  BY <1>3, <2>3 DEF Moved
<1>4. ASSUME NEW p \in Procs, Pull(p) PROVE Moved'
  <2>. DEFINE c == run[p].c  a == run[p].a  k == run[p].k
  <2>1. c \in Calls /\ a \in Artifacts /\ k \in Chunks /\ k \in 1..(NumChunks + 1)
    BY <1>4, Placed DEF Pull, At, TypeOK, Memory
  <2>2. /\ cache' = [cache EXCEPT ![c][a][k] = [cache[c][a][k] EXCEPT !.gz = "good"]]
        /\ IF cache[c][a][k].gz # "good"
             THEN moved' = [moved EXCEPT ![c][a][k] = moved[c][a][k] + 1] ELSE moved' = moved
    BY <1>4 DEF Pull, Pulls
  <2>3. [cache[c][a][k] EXCEPT !.gz = "good"].gz = "good"
    BY <1>1, <2>1 DEF CachedChunk
  <2>. HIDE DEF c, a, k
  <2>4. \A d \in Calls, b \in Artifacts, j \in Chunks :
          cache'[d][b][j] = IF d = c /\ b = a /\ j = k
                              THEN [cache[c][a][k] EXCEPT !.gz = "good"] ELSE cache[d][b][j]
    BY <1>1, <2>1, <2>2, EntryGet
  <2>5. CASE cache[c][a][k].gz # "good"
    <3>1. moved[c][a][k] = 0
      BY <2>1, <2>5 DEF Moved
    <3>2. \A d \in Calls, b \in Artifacts, j \in Chunks :
            moved'[d][b][j] = IF d = c /\ b = a /\ j = k THEN 1 ELSE moved[d][b][j]
      BY <1>1, <2>1, <2>2, <2>5, <3>1, EntryGet
    <3>3. ASSUME NEW d \in Calls, NEW b \in Artifacts, NEW j \in Chunks
          PROVE  moved'[d][b][j] = 0 \/ (moved'[d][b][j] = 1 /\ cache'[d][b][j].gz = "good")
      <4>1. CASE d = c /\ b = a /\ j = k
        BY <2>3, <2>4, <3>2, <4>1
      <4>2. CASE ~(d = c /\ b = a /\ j = k)
        <5>1. cache'[d][b][j] = cache[d][b][j] /\ moved'[d][b][j] = moved[d][b][j]
          BY <2>4, <3>2, <4>2
        <5>. QED  BY <5>1 DEF Moved
      <4>. QED  BY <4>1, <4>2
    <3>. QED  BY <3>3 DEF Moved
  <2>6. CASE cache[c][a][k].gz = "good"
    BY <2>2, <2>3, <2>4, <2>6 DEF Moved
  <2>. QED  BY <2>5, <2>6
<1>5. ASSUME Damage PROVE Moved'
  <2>1. PICK c \in Calls, a \in Artifacts, k \in Chunks :
          \/ /\ cache' = [cache EXCEPT ![c][a][k].gz = "bad"]
             /\ moved' = [moved EXCEPT ![c][a][k] = 0]
          \/ /\ cache' = [cache EXCEPT ![c][a][k].receipt = "bad"]
             /\ UNCHANGED moved
    BY <1>5 DEF Damage
  <2>2. k \in 1..(NumChunks + 1)
    BY RecoveryAssumption DEF Chunks
  <2>3. CASE /\ cache' = [cache EXCEPT ![c][a][k].gz = "bad"]
             /\ moved' = [moved EXCEPT ![c][a][k] = 0]
    <3>1. \A d \in Calls, b \in Artifacts, j \in Chunks :
            /\ moved'[d][b][j] = IF d = c /\ b = a /\ j = k THEN 0 ELSE moved[d][b][j]
            /\ d # c \/ b # a \/ j # k => cache'[d][b][j] = cache[d][b][j]
      BY <1>1, <2>2, <2>3, EntryGet
    <3>2. ASSUME NEW d \in Calls, NEW b \in Artifacts, NEW j \in Chunks
          PROVE  moved'[d][b][j] = 0 \/ (moved'[d][b][j] = 1 /\ cache'[d][b][j].gz = "good")
      BY <3>1 DEF Moved
    <3>. QED  BY <3>2 DEF Moved
  <2>4. CASE /\ cache' = [cache EXCEPT ![c][a][k].receipt = "bad"]
             /\ UNCHANGED moved
    BY <1>3, <2>2, <2>4
  <2>. QED  BY <2>1, <2>3, <2>4
<1>6. ASSUME NEW p \in Procs, FromCache(p) \/ WriteReceipt(p) PROVE Moved'
  <2>1. run[p].c \in Calls /\ run[p].a \in Artifacts /\ run[p].k \in 1..(NumChunks + 1)
    BY <1>6, Placed DEF FromCache, WriteReceipt, At, TypeOK, Memory
  <2>2. /\ moved' = moved
        /\ \/ cache' = cache
           \/ \E v \in {"none", "good", "bad"} :
                cache' = [cache EXCEPT ![run[p].c][run[p].a][run[p].k].receipt = v]
    BY <1>6 DEF FromCache, WriteReceipt
  <2>. DEFINE c == run[p].c  a == run[p].a  k == run[p].k
  <2>3. ASSUME NEW v \in {"none", "good", "bad"}, cache' = [cache EXCEPT ![c][a][k].receipt = v]
        PROVE  Moved'
    <3>. HIDE DEF c, a, k
    <3>1. c \in Calls /\ a \in Artifacts /\ k \in 1..(NumChunks + 1) /\ moved' = moved
      BY <2>1, <2>2 DEF c, a, k
    <3>. QED  BY <1>3, <2>3, <3>1
  <2>. QED  BY <1>2, <2>2, <2>3
<1>7. ASSUME NEW p \in Procs,
             \/ ReadSession(p) \/ ReadManifest(p) \/ Mkdir(p) \/ WritePending(p) \/ Export(p)
             \/ CheckPart(p) \/ Replace(p) \/ Verify(p) \/ Info(p) \/ Ack(p) \/ WriteResult(p)
             \/ ListDirs(p) \/ ReadDir(p) \/ KeepPending(p) \/ Rename(p) \/ WriteDerived(p)
             \/ WriteSummary(p) \/ Start(p) \/ FinalizeAlone(p) \/ Raise(p) \/ Die(p)
             \/ TransferFails(p)
      PROVE  UNCHANGED <<cache, moved>>
  BY <1>7 DEF ReadSession, ReadManifest, Mkdir, WritePending, Export, CheckPart, Replace,
     Verify,
     Info, Ack, WriteResult, ListDirs, ReadDir, KeepPending, Rename, WriteDerived, WriteSummary,
     Start, FinalizeAlone, Raise, Die, Ends, TransferFails, diskVars
<1>8. ASSUME SealCall \/ SealSession \/ UNCHANGED vars PROVE UNCHANGED <<cache, moved>>
  BY <1>8 DEF SealCall, SealSession, vars, diskVars
<1>. QED
  BY <1>2, <1>4, <1>5, <1>6, <1>7, <1>8 DEF Next, Process, Recover, Finalize

(* What is final or verified is exact.                                      *)
LEMMA CopiedStep ==
  ASSUME TypeOK, Copied, Progress, Trust, [Next]_vars
  PROVE  Copied'
BY DirStep DEF Copied

\* The pending directories, for somebody who copies: gone, or as they were.
PendingKept ==
  \A c \in Calls :
    \/ dir'[c]["pending"].state = "absent"
    \/ /\ dir[c]["pending"].state # "absent"
       /\ dir'[c]["pending"].local = dir[c]["pending"].local
       /\ dir'[c]["pending"].part = dir[c]["pending"].part

(* finalize leaves the artifacts and the .part files alone.                 *)
LEMMA FinalizeKeeps ==
  ASSUME TypeOK, Trust, NEW p \in Procs,
         dir' = dir \/ KeepPending(p) \/ Rename(p) \/ WriteDerived(p)
  PROVE  PendingKept
<1>1. CASE dir' = dir
  BY <1>1 DEF PendingKept
<1>2. CASE KeepPending(p)
  <2>1. /\ run[p].cur[1] \in Calls /\ run[p].cur[2] \in Names /\ CurDir(p).state # "absent"
        /\ Marks(run[p].cur[1], run[p].cur[2], run[p].copy)
    BY <1>2, KeepPendingDir
  <2>. QED  BY <2>1 DEF PendingKept, Marks, Writes, CurDir, Stored, Names
<1>3. CASE WriteDerived(p)
  <2>1. run[p].cur[1] \in Calls /\ Marks(run[p].cur[1], "call", run[p].copy)
    BY <1>3, WriteDerivedDir
  <2>. QED  BY <2>1 DEF PendingKept, Marks, Writes, Names
<1>4. CASE Rename(p)
  <2>1. run[p].cur[2] = "pending"
    BY <1>4 DEF Rename, At, Trust, TrustOf
  <2>2. run[p].cur[1] \in Calls /\ Renames(run[p].cur[1])
    BY <1>4, <2>1, RenameDir
  <2>. QED  BY <2>2 DEF PendingKept, Renames
<1>. QED  BY <1>1, <1>2, <1>3, <1>4

(* Somebody who copies is not disturbed by the others.                      *)
LEMMA ProgressOthers ==
  ASSUME TypeOK, Locked, Trust, Progress, NEW p \in Procs, Step(p), NEW q \in Procs \ {p},
         run'[q] = run[q]
  PROVE  ProgressOf(run[q])'
<1>1. CASE run[q].pc \notin Copying
  BY <1>1 DEF Progress, ProgressOf, Copying
<1>2. CASE run[q].pc \in Copying
  <2>1. q \in Recoverers /\ lock = q /\ None # q
    BY <1>2, RecoveryAssumption DEF Locked, Copying, Finalizing, Repairing, Procs, Busy
  <2>2. run[p].pc \in {"idle"} \cup Finalizing
    BY <2>1 DEF Locked, Busy, Procs
  <2>3. dir' = dir \/ KeepPending(p) \/ Rename(p) \/ WriteDerived(p)
    <3>1. ~Recover(p) \/ dir' = dir
      BY <2>2 DEF Recover, ReadSession, ReadManifest, Mkdir, WritePending, Export, FromCache,
         Pull,
         WriteReceipt, CheckPart, Replace, Verify, Info, Ack, WriteResult, At, Finalizing,
         Repairing
    <3>2. ~TransferFails(p)
      BY <2>2 DEF TransferFails, Finalizing, Repairing
    <3>3. Finalize(p) => dir' = dir \/ KeepPending(p) \/ Rename(p) \/ WriteDerived(p)
      BY DEF Finalize, ListDirs, ReadDir, WriteSummary, diskVars
    <3>4. Start(p) \/ FinalizeAlone(p) \/ Raise(p) \/ Die(p) => dir' = dir
      BY DEF Start, FinalizeAlone, Raise, Die, Ends, diskVars
    <3>. QED  BY <3>1, <3>2, <3>3, <3>4 DEF Step, Process
  <2>4. PendingKept
    BY <2>3, FinalizeKeeps
  <2>5. run[q].c \in Calls
    BY <1>2 DEF Progress, ProgressOf, Fetching
  <2>. QED  BY <1>2, <2>4, <2>5 DEF PendingKept, Progress, ProgressOf, Fetching
<1>. QED  BY <1>1, <1>2

(* What has been copied of a call stays copied.                             *)
LEMMA ProgressOwn ==
  ASSUME TypeOK, Copied, Progress, Trust, NEW p \in Procs, Step(p)
  PROVE  Others(p) /\ ProgressOf(run[p])'
<1>. DEFINE Goal == Others(p) /\ ProgressOf(run[p])'
<1>0. ProgressOf(run[p])
  BY DEF Progress
<1>1. ASSUME Others(p),
             run'[p].pc \in {"idle", "list", "repair", "keep", "rename", "derive", "info", "ack"}
      PROVE  Goal
  BY <1>1 DEF ProgressOf, Fetching, Copying
<1>2. ASSUME Others(p), run'[p].pc \in {"session", "manifest"}, run'[p].a = 1 PROVE Goal
  BY <1>2 DEF ProgressOf, Fetching, Copying
<1>3. CASE Start(p) \/ FinalizeAlone(p)
  BY <1>1, <1>2, <1>3, StartMoves, FinalizeAloneMoves
<1>4. CASE Raise(p) \/ Die(p)
  BY <1>1, <1>4, RaiseStops DEF Stops
<1>5. CASE TransferFails(p)
  <2>1. run[p].c \in Calls /\ GiveUp(p)
    BY <1>5, Placed DEF TransferFails, At
  <2>. QED  BY <1>2, <2>1, GiveUpMoves DEF Advances
<1>6. CASE ReadSession(p)
  BY <1>0, <1>1, <1>2, <1>6, ReadSessionMoves DEF Passes, SameCall, ProgressOf
<1>7. CASE ReadManifest(p)
  <2>1. CASE Passes(p, "manifest", "mkdir") /\ run[p].c \in Calls
    BY <1>0, <2>1 DEF Passes, SameCall, ProgressOf, Fetching, Copying
  <2>. QED  BY <1>1, <1>2, <1>7, <2>1, ReadManifestMoves DEF Passes, Advances
<1>8. CASE Mkdir(p)
  BY <1>0, <1>8, PrepareMoves DEF Passes, SameCall, ProgressOf, Fetching, Copying
<1>9. CASE WritePending(p)
  <2>1. /\ Others(p) /\ run[p].pc = "pending" /\ run'[p].pc = "export"
        /\ run'[p].c = run[p].c /\ run'[p].a = run[p].a
    BY <1>9, PrepareMoves DEF Passes, SameCall
  <2>2. run[p].c \in Calls /\ run[p].a = 1
    BY <1>0, <2>1 DEF ProgressOf, Fetching
  <2>3. \A b \in Artifacts : ~(b < 1)
    BY RecoveryAssumption DEF Artifacts
  <2>. QED  BY <2>1, <2>2, <2>3 DEF ProgressOf, Copying
<1>10. CASE Export(p)
  <2>1. run[p].pc = "export" /\ run[p].c \in Calls /\ run[p].a \in Artifacts
    BY <1>10, Placed, ExportMoves
  <2>2. Here(p).state # "absent"
    BY <1>10 DEF Export
  <2>3. \A b \in Artifacts : b < run[p].a => Here(p).local[b] = Chunks
    BY <1>0, <2>1, <2>2 DEF ProgressOf, Copying, Here
  <2>4. CASE Here(p).local[run[p].a] = Chunks
    <3>1. /\ Others(p) /\ run'[p].pc = "export" /\ run'[p].c = run[p].c
          /\ run'[p].a = run[p].a + 1 /\ dir' = dir
      BY <1>10, <2>4, ExportMoves DEF Copies, Export
    <3>2. \A b \in Artifacts : b < run[p].a + 1 => b < run[p].a \/ b = run[p].a
      BY <2>1, RecoveryAssumption DEF Artifacts
    <3>. QED  BY <2>1, <2>3, <2>4, <3>1, <3>2 DEF ProgressOf, Copying, Here
  <2>5. CASE Here(p).local[run[p].a] # Chunks
    <3>1. /\ Others(p) /\ run'[p].pc = "chunk" /\ run'[p].c = run[p].c /\ run'[p].a = run[p].a
      BY <1>10, <2>5, ExportMoves DEF Copies
    <3>2. dir'[run[p].c]["pending"].local = Here(p).local
      BY <1>10, <2>1, ExportDir DEF Fills, Here
    <3>. QED  BY <2>1, <2>3, <3>1, <3>2 DEF ProgressOf, Copying
  <2>. QED  BY <2>4, <2>5
<1>11. CASE FromCache(p)
  <2>1. run[p].pc = "chunk" /\ run[p].c \in Calls /\ run[p].a \in Artifacts
    BY <1>11, Placed DEF FromCache, At
  <2>2. Here(p).state # "absent"
    BY <1>11 DEF FromCache
  <2>3. \A b \in Artifacts : b < run[p].a => Here(p).local[b] = Chunks
    BY <1>0, <2>1, <2>2 DEF ProgressOf, Copying, Here
  <2>4. dir'[run[p].c]["pending"].local = Here(p).local
    BY <1>11, <2>1, FromCacheDir DEF Fills, Marks, Here
  <2>5. CASE Copies(p, run[p].a) /\ run'[p].pc = "chunk"
    BY <2>1, <2>3, <2>4, <2>5 DEF Copies, ProgressOf, Copying
  <2>6. CASE Advances(p, {}, {})
    BY <1>2, <2>6 DEF Advances
  <2>. QED  BY <1>11, <2>1, <2>5, <2>6, FromCacheMoves
<1>12. CASE Pull(p) \/ WriteReceipt(p)
  <2>1. /\ Others(p) /\ run[p].pc \in {"chunk", "receipt"} /\ run'[p].pc \in {"chunk", "receipt"}
        /\ run'[p].c = run[p].c /\ run'[p].a = run[p].a /\ dir' = dir
    BY <1>12, PullMoves DEF Passes, SameCall, Pull, WriteReceipt
  <2>. QED  BY <1>0, <2>1 DEF ProgressOf, Copying, Fetching
<1>13. CASE CheckPart(p)
  <2>1. run[p].pc = "chunk" /\ run[p].c \in Calls
    BY <1>13, Placed DEF CheckPart, At
  <2>2. CASE Passes(p, "chunk", "replace") /\ PartComplete(p)
    <3>1. dir' = dir
      BY <1>13, <2>2 DEF CheckPart
    <3>. QED  BY <1>0, <2>1, <2>2, <3>1
         DEF Passes, SameCall, PartComplete, Here, ProgressOf, Copying, Fetching
  <2>. QED  BY <1>2, <1>13, <2>1, <2>2, CheckPartMoves DEF Advances
<1>14. CASE Replace(p)
  <2>1. run[p].pc = "replace" /\ run[p].c \in Calls /\ run[p].a \in Artifacts
    BY <1>14, Placed DEF Replace, At
  <2>2. /\ Here(p).state # "absent"
        /\ dir'[run[p].c]["pending"].local[run[p].a] = Here(p).part[run[p].a]
        /\ \A b \in Artifacts \ {run[p].a} :
             dir'[run[p].c]["pending"].local[b] = Here(p).local[b]
    BY <1>14, <2>1, ReplaceDir
  <2>3. /\ \A b \in Artifacts : b < run[p].a => Here(p).local[b] = Chunks
        /\ Here(p).part[run[p].a] = Chunks
    BY <1>0, <2>1, <2>2 DEF ProgressOf, Copying, Here
  <2>4. \A b \in Artifacts : b < run[p].a + 1 => b < run[p].a \/ b = run[p].a
    BY <2>1, RecoveryAssumption DEF Artifacts
  <2>5. /\ Others(p) /\ run'[p].pc = "export" /\ run'[p].c = run[p].c /\ run'[p].a = run[p].a + 1
    BY <1>14, <2>1, ReplaceMoves DEF Copies
  <2>6. \A b \in Artifacts : b < run[p].a + 1 => dir'[run[p].c]["pending"].local[b] = Chunks
    BY <2>2, <2>3, <2>4
  <2>. QED  BY <2>1, <2>5, <2>6 DEF ProgressOf, Copying
<1>15. CASE Verify(p)
  <2>1. run[p].c \in Calls
    BY <1>15, Placed DEF Verify, At
  <2>. QED  BY <1>2, <1>15, <2>1, VerifyMoves DEF Advances
<1>16. CASE Info(p) \/ Ack(p) \/ WriteResult(p)
  BY <1>1, <1>16, InfoMoves, AckMoves, IdleMoves DEF WriteResult
<1>17. CASE ListDirs(p) \/ ReadDir(p)
  BY <1>1, <1>17, ListDirsMoves, ReadDirMoves DEF Finds
<1>18. CASE KeepPending(p) \/ WriteDerived(p) \/ Rename(p) \/ WriteSummary(p)
  BY <1>1, <1>18, RepairedMoves, RenameMoves, SummaryMoves DEF Finds, Passes
<1>. QED
  BY <1>3, <1>4, <1>5, <1>6, <1>7, <1>8, <1>9, <1>10, <1>11, <1>12, <1>13, <1>14, <1>15, <1>16,
     <1>17, <1>18
  DEF Step, Process, Recover, Finalize

(* So every process keeps its progress.                                     *)
LEMMA ProgressStep ==
  ASSUME TypeOK, Locked, Copied, Progress, Trust, [Next]_vars
  PROVE  Progress'
<1>1. CASE UNCHANGED <<run, lock, beside, dir, acked>>
  BY <1>1 DEF Progress, ProgressOf
<1>2. ASSUME NEW p \in Procs, Step(p) PROVE Progress'
  <2>1. Others(p) /\ ProgressOf(run[p])'
    BY <1>2, ProgressOwn
  <2>2. \A q \in Procs \ {p} : ProgressOf(run[q])'
    BY <1>2, <2>1, ProgressOthers DEF Others
  <2>. QED  BY <2>1, <2>2 DEF Progress
<1>. QED  BY <1>1, <1>2, NextSteps

(* The memory of the process that steps, as far as others rely on it.       *)
LEMMA TrustOwn ==
  ASSUME TypeOK, Copied, Progress, Trust, NEW p \in Procs, Step(p), [Next]_vars
  PROVE  TrustOf(run[p])'
<1>. DEFINE Goal == TrustOf(run[p])'
<1>0. /\ TrustOf(run[p]) /\ run[p].acks \subseteq Calls
      /\ \A d \in Calls : CopiedIn(dir'[d])
      /\ \A d \in Calls : SecuredIn(dir[d]) => SecuredIn(dir'[d])
      /\ \A d \in Calls : dir[d]["call"].state # "absent" => dir'[d]["call"].state # "absent"
  BY DirStep DEF Trust, TypeOK, Memory
<1>1. \A c \in run[p].acks : SecuredIn(dir'[c])
  BY <1>0 DEF TrustOf, Secured
<1>2. ASSUME run'[p].pc \notin {"keep", "rename", "derive"},
             \A c \in run'[p].acks : c \in run[p].acks \/ SecuredIn(dir'[c])
      PROVE  Goal
  BY <1>1, <1>2 DEF TrustOf, Secured
<1>3. CASE Start(p) \/ FinalizeAlone(p)
  BY <1>2, <1>3, StartMoves, FinalizeAloneMoves
<1>4. ASSUME run'[p] = Idle PROVE Goal
  BY <1>2, <1>4 DEF Idle
<1>5. CASE Raise(p) \/ Die(p) \/ WriteResult(p)
  BY <1>4, <1>5, RaiseStops, IdleMoves DEF Stops, WriteResult
<1>6. CASE TransferFails(p)
  <2>1. run[p].c \in Calls /\ GiveUp(p)
    BY <1>6, Placed DEF TransferFails, At
  <2>. QED  BY <1>2, <2>1, GiveUpMoves DEF Advances
<1>7. CASE ReadSession(p) \/ ReadManifest(p)
  BY <1>2, <1>7, ReadSessionMoves, ReadManifestMoves DEF Passes, Advances, SameFound
<1>8. CASE Mkdir(p) \/ WritePending(p) \/ Pull(p) \/ WriteReceipt(p)
  BY <1>2, <1>8, PrepareMoves, PullMoves DEF Passes, SameFound
<1>9. CASE Export(p)
  BY <1>2, <1>9, ExportMoves DEF Copies, SameFound
<1>10. CASE FromCache(p) \/ CheckPart(p)
  <2>1. run[p].c \in Calls
    BY <1>10, Placed DEF FromCache, CheckPart, At
  <2>2. CASE FromCache(p)
    BY <1>2, <2>1, <2>2, FromCacheMoves DEF Copies, Advances, SameFound
  <2>3. CASE CheckPart(p)
    BY <1>2, <2>1, <2>3, CheckPartMoves DEF Passes, Advances, SameFound
  <2>. QED  BY <1>10, <2>2, <2>3
<1>11. CASE Replace(p)
  <2>1. run[p].a \in Artifacts
    BY <1>11, Placed DEF Replace, At
  <2>. QED  BY <1>2, <1>11, <2>1, ReplaceMoves DEF Copies, SameFound
<1>12. CASE Verify(p)
  <2>1. run[p].c \in Calls
    BY <1>12, Placed DEF Verify, At
  <2>2. run'[p].pc = "manifest" /\ run'[p].acks = run[p].acks \cup {run[p].c}
    BY <1>12, <2>1, VerifyMoves DEF Advances
  <2>3. dir'[run[p].c]["pending"].state = "VERIFIED"
    BY <1>12, <2>1, VerifyDir DEF Marks
  <2>4. SecuredIn(dir'[run[p].c])
    BY <1>0, <2>1, <2>3 DEF CopiedIn, SecuredIn, Names
  <2>. QED  BY <1>2, <2>2, <2>4
<1>13. CASE Info(p) \/ Ack(p)
  BY <1>2, <1>13, InfoMoves, AckMoves
<1>14. CASE ListDirs(p) \/ KeepPending(p) \/ WriteDerived(p)
  BY <1>2, <1>14, ListDirsMoves, RepairedMoves DEF Finds, SameFound
<1>15. CASE WriteSummary(p)
  BY <1>2, <1>4, <1>15, SummaryMoves DEF Passes, SameFound
<1>16. CASE ReadDir(p)
  <2>. DEFINE e == run'[p].cur
  <2>1. /\ e \in run[p].todo /\ run'[p].copy = Stored(e).state
        /\ Stored(e).state \in {"PENDING", "VERIFIED"} /\ run'[p].acks = run[p].acks
        /\ IF Held(Stored(e))
             THEN IF e[2] = "pending" THEN run'[p].pc = "rename" ELSE run'[p].pc = "derive"
             ELSE run'[p].pc = "keep"
    BY <1>16, ReadDirMoves DEF Finds, SameFound
  <2>2. e[1] \in Calls /\ e[2] \in Names
    BY <2>1 DEF TypeOK, Memory, Entries
  <2>3. dir' = dir
    BY <1>16 DEF ReadDir, diskVars
  <2>4. Stored(e).state = "VERIFIED" => Held(Stored(e))
    BY <1>0, <2>2, <2>3 DEF CopiedIn, Stored, Held, Exact
  <2>5. CASE ~Held(Stored(e))
    BY <1>1, <2>1, <2>4, <2>5 DEF TrustOf, Secured
  <2>6. CASE Held(Stored(e))
    <3>1. Stored(e).state = "VERIFIED" /\ Exact(Stored(e))
      BY <2>6 DEF Held, Exact
    <3>2. CASE e[2] = "pending"
      <4>1. SecuredIn(dir'[e[1]])
        BY <2>2, <2>3, <3>1 DEF SecuredIn, Stored
      <4>. QED  BY <1>1, <2>1, <2>6, <3>1, <3>2, <4>1 DEF TrustOf, Secured
    <3>3. CASE e[2] # "pending"
      <4>1. e[2] = "call" /\ dir'[e[1]]["call"].state # "absent"
        BY <2>2, <2>3, <3>1, <3>3 DEF Names, Stored
      <4>. QED  BY <1>1, <2>1, <2>6, <3>1, <3>3, <4>1 DEF TrustOf, Secured
    <3>. QED  BY <3>2, <3>3
  <2>. QED  BY <2>5, <2>6
<1>17. CASE Rename(p)
  <2>1. /\ run[p].pc = "rename" /\ run'[p].pc = "derive" /\ run'[p].acks = run[p].acks
        /\ run'[p].cur = run[p].cur /\ run'[p].copy = run[p].copy
    BY <1>17, RenameMoves DEF Passes, SameFound, SameRepair
  <2>2. run[p].copy = "VERIFIED" /\ run[p].cur[2] = "pending"
    BY <1>0, <2>1 DEF TrustOf
  <2>3. dir'[run[p].cur[1]]["call"].state # "absent"
    BY <1>17, <2>2, RenameDir DEF Renames
  <2>. QED  BY <1>1, <2>1, <2>2, <2>3 DEF TrustOf, Secured
<1>. QED
  BY <1>3, <1>5, <1>6, <1>7, <1>8, <1>9, <1>10, <1>11, <1>12, <1>13, <1>14, <1>15, <1>16, <1>17
  DEF Step, Process, Recover, Finalize

(* Only an acknowledgement of a process adds to what is acknowledged.       *)
LEMMA AckedMoves ==
  ASSUME TypeOK, NEW p \in Procs, Step(p)
  PROVE  acked' = acked \/ \E c \in run[p].acks : acked' = acked \cup {c}
BY DEF Step, Process, Recover, Finalize, ReadSession, ReadManifest, Mkdir, WritePending, Export,
   FromCache, Pull, WriteReceipt, CheckPart, Replace, Verify, Info, Ack, WriteResult, ListDirs,
   ReadDir, KeepPending, Rename, WriteDerived, WriteSummary, Start, FinalizeAlone, Raise, Die,
   Ends, TransferFails, deviceVars

(* What is acknowledged, or will be, is on the host.                        *)
LEMMA TrustStep ==
  ASSUME TypeOK, Copied, Progress, Trust, [Next]_vars
  PROVE  Trust'
<1>1. CASE UNCHANGED <<run, lock, beside, dir, acked>>
  BY <1>1 DEF Trust, TrustOf, Secured
<1>2. ASSUME NEW p \in Procs, Step(p) PROVE Trust'
  <2>1. Others(p) /\ TrustOf(run[p])'
    BY <1>2, ProgressOwn, TrustOwn
  <2>2. /\ \A d \in Calls : SecuredIn(dir[d]) => SecuredIn(dir'[d])
        /\ \A d \in Calls : dir[d]["call"].state # "absent" => dir'[d]["call"].state # "absent"
    BY DirStep
  <2>3. ASSUME NEW q \in Procs \ {p} PROVE TrustOf(run[q])'
    <3>1. run'[q] = run[q] /\ run[q].acks \subseteq Calls /\ run[q].cur[1] \in Calls
      BY <2>1 DEF Others, TypeOK, Memory, Entries
    <3>. QED  BY <2>2, <3>1 DEF Trust, TrustOf, Secured
  <2>4. \A c \in acked' : SecuredIn(dir'[c])
    <3>1. acked \subseteq Calls /\ run[p].acks \subseteq Calls
      BY DEF TypeOK, Memory
    <3>. QED  BY <1>2, <2>2, <3>1, AckedMoves DEF Trust, TrustOf, Secured
  <2>. QED  BY <2>1, <2>3, <2>4 DEF Trust, Secured
<1>. QED  BY <1>1, <1>2, NextSteps

-------------------------------------------------------------------------------
(* What is committed, and what is reported.                                 *)

(* Once finalize has run beside a recovery, it has.                         *)
LEMMA BesideStays ==
  ASSUME TypeOK, Locked, Progress, [Next]_vars, beside = "beside"
  PROVE  beside' = "beside"
BY RunKinds DEF Environment, Stops, GoesOn, Start, FinalizeAlone

(* Writing a pending directory leaves the final one.                        *)
LEMMA PendingWrites ==
  ASSUME NEW c \in Calls, Writes(c, "pending")
  PROVE  \A d \in Calls : dir'[d]["call"] = dir[d]["call"]
BY DEF Writes, Names

(* Only repairing touches a call in its final directory.                    *)
LEMMA CallKinds ==
  ASSUME TypeOK, Progress, NEW p \in Procs, Step(p),
         ~KeepPending(p), ~WriteDerived(p), ~Rename(p)
  PROVE  \A d \in Calls : dir'[d]["call"] = dir[d]["call"]
<1>. DEFINE Goal == \A d \in Calls : dir'[d]["call"] = dir[d]["call"]
<1>0. /\ run[p].pc \in {"mkdir", "pending", "export", "chunk", "receipt", "replace"}
             => run[p].c \in Calls
      /\ run[p].pc \in {"chunk", "receipt", "replace"} => run[p].a \in Artifacts
  BY Placed
<1>1. CASE \/ ReadSession(p) \/ ReadManifest(p) \/ Pull(p) \/ WriteReceipt(p) \/ Info(p) \/ Ack(p)
           \/ WriteResult(p) \/ ListDirs(p) \/ ReadDir(p) \/ WriteSummary(p) \/ Raise(p)
           \/ Die(p) \/ Start(p) \/ FinalizeAlone(p)
  BY <1>1 DEF ReadSession, ReadManifest, Pull, WriteReceipt, Info, Ack, WriteResult, ListDirs,
     ReadDir, WriteSummary, Raise, Die, Ends, Start, FinalizeAlone, diskVars
<1>2. CASE Mkdir(p)
  BY <1>0, <1>2, MkdirDir, PendingWrites DEF Marks, Mkdir, At
<1>3. CASE WritePending(p)
  BY <1>0, <1>3, WritePendingDir, PendingWrites DEF Marks, WritePending, At
<1>4. CASE Export(p)
  BY <1>0, <1>4, ExportDir, PendingWrites DEF Fills, Export, At
<1>5. CASE FromCache(p)
  BY <1>0, <1>5, FromCacheDir, PendingWrites DEF Fills, Marks, FromCache, At
<1>6. CASE CheckPart(p)
  BY <1>0, <1>6, CheckPartDir, PendingWrites DEF Marks, CheckPart, At
<1>7. CASE Replace(p)
  BY <1>0, <1>7, ReplaceDir, PendingWrites DEF Replace, At
<1>8. CASE Verify(p)
  BY <1>0, <1>8, VerifyDir, PendingWrites DEF Marks, Verify, At
<1>9. CASE TransferFails(p)
  BY <1>0, <1>9, GiveUpDir, PendingWrites DEF Marks, TransferFails
<1>. QED
  BY <1>1, <1>2, <1>3, <1>4, <1>5, <1>6, <1>7, <1>8, <1>9 DEF Step, Process, Recover, Finalize

(* A committed call keeps its artifacts, its verdict and its fields, unless *)
(* finalize has run beside a recovery.                                      *)
LEMMA HeldKept ==
  ASSUME TypeOK, Locked, Progress, Trust, Reported, [Next]_vars, beside' # "beside",
         NEW c \in Calls, Held(dir[c]["call"])
  PROVE  Held(dir'[c]["call"]) /\ (dir[c]["call"].derived => dir'[c]["call"].derived)
<1>1. beside # "beside"
  BY BesideStays
<1>2. CASE dir'[c]["call"] = dir[c]["call"]
  BY <1>2
<1>3. ASSUME NEW p \in Procs, KeepPending(p) PROVE dir'[c]["call"] = dir[c]["call"]
  <2>1. /\ run[p].cur[1] \in Calls /\ run[p].cur[2] \in Names
        /\ Writes(run[p].cur[1], run[p].cur[2])
    BY <1>3, KeepPendingDir DEF Marks
  <2>2. ~Held(Stored(run[p].cur))
    BY <1>1, <1>3 DEF Reported, ReportOf, KeepPending, At
  <2>3. c # run[p].cur[1] \/ "call" # run[p].cur[2]
    BY <2>2 DEF Stored
  <2>. QED  BY <2>1, <2>3 DEF Writes, Names
<1>4. ASSUME NEW p \in Procs, WriteDerived(p)
      PROVE  Held(dir'[c]["call"]) /\ (dir[c]["call"].derived => dir'[c]["call"].derived)
  <2>1. /\ run[p].cur[1] \in Calls /\ Marks(run[p].cur[1], "call", run[p].copy)
        /\ dir'[run[p].cur[1]]["call"].derived
    BY <1>4, WriteDerivedDir
  <2>2. run[p].copy = "VERIFIED"
    BY <1>4 DEF WriteDerived, At, Trust, TrustOf
  <2>3. CASE c = run[p].cur[1]
    BY <2>1, <2>2, <2>3 DEF Marks, Held
  <2>4. CASE c # run[p].cur[1]
    BY <1>2, <2>1, <2>4 DEF Marks, Writes, Names
  <2>. QED  BY <2>3, <2>4
<1>5. ASSUME NEW p \in Procs, Rename(p) PROVE dir'[c]["call"] = dir[c]["call"]
  <2>1. run[p].cur[2] = "pending"
    BY <1>5 DEF Rename, At, Trust, TrustOf
  <2>2. Renames(run[p].cur[1])
    BY <1>5, <2>1, RenameDir
  <2>. QED  BY <2>2 DEF Renames, Held
<1>6. CASE UNCHANGED <<run, lock, beside, dir, acked>>
  BY <1>2, <1>6
<1>. QED  BY <1>2, <1>3, <1>4, <1>5, <1>6, CallKinds, NextSteps

(* A call that is done stays done.                                          *)
LEMMA DoneKept ==
  ASSUME TypeOK, Locked, Progress, Trust, Reported, [Next]_vars, beside' # "beside",
         NEW c \in Calls, Done(c)
  PROVE  Done(c)'
BY HeldKept DEF Done

(* Only the rename makes a directory disappear.                             *)
LEMMA StaysThere ==
  ASSUME TypeOK, Copied, Progress, Trust, NEW p \in Procs, Step(p), ~Rename(p)
  PROVE  \A r \in Entries : Stored(r).state # "absent" => dir'[r[1]][r[2]].state # "absent"
<1>1. dir' = dir \/ \E c \in Calls, n \in Names : Secures(c, n)
  BY DirKinds DEF Step
<1>. QED  BY <1>1 DEF Secures, Writes, Stored, Entries

(* What a process that works alone will report.                             *)
LEMMA ReportOwn ==
  ASSUME TypeOK, Locked, Copied, Progress, Trust, Reported, NEW p \in Procs, Step(p), [Next]_vars,
         beside' # "beside"
  PROVE  ReportOf(run[p])'
<1>. DEFINE Goal == ReportOf(run[p])'
<1>0. /\ ReportOf(run[p]) /\ run[p] \in Memory
      /\ run[p].results \subseteq Entries /\ run[p].fixed \subseteq Calls
      /\ run[p].todo \subseteq Entries
  BY BesideStays DEF Reported, TypeOK, Memory
<1>1. run[p].pc # "idle" => \A c \in run[p].fixed : Done(c)'
  BY <1>0, DoneKept DEF ReportOf
<1>2. ASSUME run'[p].pc = "idle" PROVE Goal
  BY <1>2 DEF ReportOf, Repairing, Ending, Fetching, Copying
<1>3. ASSUME run[p].pc # "idle", run'[p].pc \in {"session", "manifest", "list"} \cup Fetching,
             run'[p].fixed = run[p].fixed,
             \A r \in run'[p].results : dir'[r[1]][r[2]].state # "absent"
      PROVE  Goal
  BY <1>1, <1>3 DEF ReportOf, Repairing, Ending, Fetching, Copying, Stored
<1>4. ASSUME ~Rename(p), run[p].pc \in {"session", "manifest", "list"} \cup Fetching
      PROVE  \A r \in run[p].results : dir'[r[1]][r[2]].state # "absent"
  BY <1>0, <1>4, StaysThere DEF ReportOf
<1>5. CASE Start(p) \/ FinalizeAlone(p)
  <2>1. /\ run'[p].pc \in {"session", "list"} /\ run'[p].results = {} /\ run'[p].fixed = {}
    BY <1>5, StartMoves, FinalizeAloneMoves
  <2>. QED  BY <2>1 DEF ReportOf, Repairing, Ending, Fetching, Copying
<1>6. CASE Raise(p) \/ Die(p) \/ WriteResult(p)
  BY <1>2, <1>6, RaiseStops, IdleMoves DEF Stops, WriteResult
<1>7. ASSUME run[p].pc \in {"session", "manifest"} \cup Fetching, ~Rename(p),
             run'[p].pc \in {"session", "manifest", "list"} \cup Fetching,
             run'[p].results = run[p].results, run'[p].fixed = run[p].fixed
      PROVE  Goal
  BY <1>3, <1>4, <1>7 DEF Fetching, Copying
<1>8. CASE ReadSession(p)
  <2>1. /\ run[p].pc = "session" /\ run'[p].pc \in {"manifest", "list"} /\ ~Rename(p)
        /\ run'[p].results = run[p].results /\ run'[p].fixed = run[p].fixed
    BY <1>8, ReadSessionMoves DEF Passes, SameFound, SameRepair, Rename, At
  <2>. QED  BY <1>7, <2>1
<1>9. CASE ReadManifest(p)
  <2>1. /\ run[p].pc = "manifest" /\ run'[p].pc \in {"manifest", "list", "mkdir"}
        /\ ~Rename(p) /\ run'[p].fixed = run[p].fixed /\ dir' = dir
        /\ \/ run'[p].results = run[p].results
           \/ /\ run'[p].results = run[p].results \cup {<<run[p].c, "call">>}
              /\ Held(dir[run[p].c]["call"])
    BY <1>9, ReadManifestMoves
       DEF Passes, Advances, SameFound, SameRepair, Rename, At, ReadManifest, diskVars
  <2>2. \A r \in run'[p].results : dir'[r[1]][r[2]].state # "absent"
    BY <1>4, <2>1 DEF Held
  <2>. QED  BY <1>3, <2>1, <2>2 DEF Fetching
<1>10. CASE Mkdir(p) \/ WritePending(p) \/ Pull(p) \/ WriteReceipt(p)
  <2>1. /\ run[p].pc \in Fetching /\ run'[p].pc \in Fetching /\ ~Rename(p)
        /\ run'[p].results = run[p].results /\ run'[p].fixed = run[p].fixed
    BY <1>10, PrepareMoves, PullMoves
       DEF Passes, SameFound, SameRepair, Rename, At, Fetching, Copying
  <2>. QED  BY <1>7, <2>1
<1>11. CASE Export(p)
  <2>1. /\ run[p].pc = "export" /\ run'[p].pc \in {"export", "chunk"} /\ ~Rename(p)
        /\ run'[p].results = run[p].results /\ run'[p].fixed = run[p].fixed
    BY <1>11, ExportMoves DEF Copies, SameFound, SameRepair, Rename, At
  <2>. QED  BY <1>7, <2>1 DEF Fetching, Copying
<1>12. CASE FromCache(p) \/ CheckPart(p) \/ TransferFails(p)
  <2>1. run[p].pc \in {"chunk", "export"} /\ run[p].c \in Calls /\ ~Rename(p)
    BY <1>12, Placed DEF FromCache, CheckPart, TransferFails, At, Rename
  <2>2. run'[p].pc \in {"chunk", "replace", "manifest"}
        /\ run'[p].results = run[p].results /\ run'[p].fixed = run[p].fixed
    <3>1. CASE FromCache(p)
      BY <2>1, <3>1, FromCacheMoves DEF Copies, Advances, SameFound, SameRepair
    <3>2. CASE CheckPart(p)
      BY <2>1, <3>2, CheckPartMoves DEF Passes, Advances, SameFound, SameRepair
    <3>3. CASE TransferFails(p)
      BY <2>1, <3>3, GiveUpMoves DEF Advances, SameRepair, TransferFails
    <3>. QED  BY <1>12, <3>1, <3>2, <3>3
  <2>. QED  BY <1>7, <2>1, <2>2 DEF Fetching, Copying
<1>13. CASE Replace(p)
  <2>1. run[p].a \in Artifacts
    BY <1>13, Placed DEF Replace, At
  <2>2. /\ run[p].pc = "replace" /\ run'[p].pc = "export" /\ ~Rename(p)
        /\ run'[p].results = run[p].results /\ run'[p].fixed = run[p].fixed
    BY <1>13, <2>1, ReplaceMoves DEF Copies, SameFound, SameRepair, Rename, At
  <2>. QED  BY <1>7, <2>2 DEF Fetching, Copying
<1>14. CASE Verify(p)
  <2>1. run[p].c \in Calls
    BY <1>14, Placed DEF Verify, At
  <2>2. /\ run[p].pc = "export" /\ run'[p].pc = "manifest" /\ ~Rename(p)
        /\ run'[p].results = run[p].results \cup {<<run[p].c, "pending">>}
        /\ run'[p].fixed = run[p].fixed
    BY <1>14, <2>1, VerifyMoves DEF Advances, SameRepair, Rename, At
  <2>3. dir'[run[p].c]["pending"].state # "absent"
    BY <1>14, <2>1, VerifyDir DEF Marks
  <2>4. \A r \in run'[p].results : dir'[r[1]][r[2]].state # "absent"
    BY <1>4, <2>2, <2>3 DEF Fetching, Copying
  <2>. QED  BY <1>3, <2>2, <2>4
<1>15. CASE ListDirs(p)
  <2>1. /\ run[p].pc = "list" /\ run'[p].pc = "repair" /\ ~Rename(p)
        /\ run'[p].results = run[p].results /\ run'[p].fixed = run[p].fixed
        /\ run'[p].todo = {e \in Entries : Stored(e).state # "absent"}
    BY <1>15, ListDirsMoves DEF Finds, SameFound, Rename, At
  <2>2. \A r \in run'[p].results : r \in run'[p].todo
    BY <1>0, <2>1 DEF ReportOf
  <2>. QED  BY <1>1, <2>1, <2>2 DEF ReportOf, Repairing, Ending, Fetching, Copying
<1>16. ASSUME run[p].pc \in Repairing \cup Ending
       PROVE  \A r \in run[p].results : r \in run[p].todo \cup run[p].kept \/ r[1] \in run[p].fixed
  BY <1>0, <1>16 DEF ReportOf
<1>17. CASE ReadDir(p)
  <2>1. /\ run[p].pc = "repair" /\ run'[p].pc \in {"keep", "rename", "derive"}
        /\ run'[p].results = run[p].results /\ run'[p].fixed = run[p].fixed
        /\ run'[p].todo = run[p].todo /\ run'[p].kept = run[p].kept
        /\ (run'[p].pc = "keep" => ~Held(Stored(run'[p].cur))) /\ dir' = dir
    BY <1>17, ReadDirMoves DEF Finds, SameFound, ReadDir, diskVars
  <2>2. run'[p].pc = "keep" => ~Held(dir'[run'[p].cur[1]][run'[p].cur[2]])
    BY <2>1 DEF Stored
  <2>3. \A r \in run'[p].results :
          r \in run'[p].todo \cup run'[p].kept \/ r[1] \in run'[p].fixed
    BY <1>16, <2>1 DEF Repairing
  <2>. QED  BY <1>1, <2>1, <2>2, <2>3
       DEF ReportOf, Repairing, Ending, Fetching, Copying, Held, Stored
<1>18. CASE KeepPending(p)
  <2>1. /\ run[p].pc = "keep" /\ run'[p].pc = "repair"
        /\ run'[p].results = run[p].results /\ run'[p].fixed = run[p].fixed
        /\ run'[p].todo = run[p].todo \ {run[p].cur}
        /\ run'[p].kept = run[p].kept \cup {run[p].cur}
    BY <1>18, RepairedMoves DEF Finds, SameFound
  <2>2. \A r \in run'[p].results :
          r \in run'[p].todo \cup run'[p].kept \/ r[1] \in run'[p].fixed
    BY <1>16, <2>1 DEF Repairing
  <2>. QED  BY <1>1, <2>1, <2>2 DEF ReportOf, Repairing, Ending, Fetching, Copying
<1>19. CASE Rename(p)
  <2>1. /\ run[p].pc = "rename" /\ run'[p].pc = "derive"
        /\ run'[p].results = run[p].results /\ run'[p].fixed = run[p].fixed
        /\ run'[p].todo = run[p].todo /\ run'[p].kept = run[p].kept
    BY <1>19, RenameMoves DEF Passes, SameFound, SameRepair
  <2>2. \A r \in run'[p].results :
          r \in run'[p].todo \cup run'[p].kept \/ r[1] \in run'[p].fixed
    BY <1>16, <2>1 DEF Repairing
  <2>. QED  BY <1>1, <2>1, <2>2 DEF ReportOf, Repairing, Ending, Fetching, Copying
<1>20. CASE WriteDerived(p)
  <2>. PICK c \in Calls : c = run[p].cur[1]
    BY <1>20, WriteDerivedDir
  <2>1. /\ run[p].pc = "derive" /\ run'[p].pc = "repair"
        /\ run'[p].results = run[p].results /\ run'[p].fixed = run[p].fixed \cup {c}
        /\ run'[p].todo = run[p].todo \ {run[p].cur} /\ run'[p].kept = run[p].kept
    BY <1>20, RepairedMoves DEF Finds, SameFound
  <2>2. \A r \in run'[p].results :
          r \in run'[p].todo \cup run'[p].kept \/ r[1] \in run'[p].fixed
    BY <1>16, <2>1 DEF Repairing
  <2>3. /\ dir'[c]["call"].state = run[p].copy /\ dir'[c]["call"].derived
    BY <1>20, WriteDerivedDir DEF Marks
  <2>4. run[p].copy = "VERIFIED"
    BY <2>1 DEF Trust, TrustOf
  <2>5. CopiedIn(dir'[c])
    BY <2>3, DirStep
  <2>6. Done(c)'
    BY <2>3, <2>4, <2>5 DEF Done, Held, CopiedIn, Exact, Names
  <2>7. \A d \in run'[p].fixed : Done(d)'
    BY <1>1, <2>1, <2>6
  <2>. QED  BY <2>1, <2>2, <2>7 DEF ReportOf, Repairing, Ending, Fetching, Copying
<1>21. CASE WriteSummary(p)
  <2>1. CASE Passes(p, "repair", "info")
    <3>1. run[p].todo = {}
      BY <1>21, SummaryMoves
    <3>2. /\ run[p].pc = "repair" /\ run'[p].pc = "info"
          /\ run'[p].results = run[p].results /\ run'[p].fixed = run[p].fixed
          /\ run'[p].todo = run[p].todo /\ run'[p].kept = run[p].kept
      BY <2>1 DEF Passes, SameFound, SameRepair
    <3>3. \A r \in run'[p].results :
            r \in run'[p].todo \cup run'[p].kept \/ r[1] \in run'[p].fixed
      BY <1>16, <3>2 DEF Repairing
    <3>. QED  BY <1>1, <3>1, <3>2, <3>3 DEF ReportOf, Repairing, Ending, Fetching, Copying
  <2>. QED  BY <1>2, <1>21, <2>1, SummaryMoves
<1>22. CASE Info(p) \/ Ack(p)
  <2>1. /\ run[p].pc \in Ending /\ run'[p].pc = "ack"
        /\ run'[p].results = run[p].results /\ run'[p].fixed = run[p].fixed
        /\ run'[p].todo = run[p].todo /\ run'[p].kept = run[p].kept
        /\ (~run'[p].missing => ~run[p].missing)
        /\ (run[p].pc = "info" /\ ~run'[p].missing => run[p].kept = {})
    BY <1>22, InfoMoves, AckMoves DEF SameRepair, Ending
  <2>2. \A r \in run'[p].results :
          r \in run'[p].todo \cup run'[p].kept \/ r[1] \in run'[p].fixed
    BY <1>16, <2>1
  <2>3. run'[p].todo = {} /\ (~run'[p].missing => run'[p].kept = {})
    BY <1>0, <2>1 DEF ReportOf, Ending
  <2>. QED  BY <1>1, <2>1, <2>2, <2>3 DEF ReportOf, Repairing, Ending, Fetching, Copying
<1>. QED
  BY <1>5, <1>6, <1>8, <1>9, <1>10, <1>11, <1>12, <1>13, <1>14, <1>15, <1>17, <1>18, <1>19,
     <1>20, <1>21, <1>22
  DEF Step, Process, Recover, Finalize

(* A process that has nothing to do can only begin.                         *)
LEMMA IdleBegins ==
  ASSUME TypeOK, NEW p \in Procs, Step(p), run[p].pc = "idle"
  PROVE  run'[p].pc # "idle"
<1>1. Start(p) \/ FinalizeAlone(p)
  BY DEF Step, Process, Recover, Finalize, ReadSession, ReadManifest, Mkdir, WritePending,
     Export,
     FromCache, Pull, WriteReceipt, CheckPart, Replace, Verify, Info, Ack, WriteResult,
     ListDirs,
     ReadDir, KeepPending, Rename, WriteDerived, WriteSummary, Raise, Raises, Die,
     TransferFails, At
<1>. QED  BY <1>1, StartMoves, FinalizeAloneMoves

(* The others have nothing to report meanwhile.                             *)
LEMMA ReportedStep ==
  ASSUME TypeOK, Locked, Alone, Copied, Progress, Trust, Reported, [Next]_vars
  PROVE  Reported'
<1>1. SUFFICES ASSUME beside' # "beside" PROVE \A q \in Procs : ReportOf(run[q])'
  BY DEF Reported
<1>2. beside # "beside"
  BY <1>1, BesideStays
<1>3. CASE UNCHANGED <<run, lock, beside, dir, acked>>
  <2>1. \A q \in Procs : ReportOf(run[q])
    BY <1>2 DEF Reported
  <2>2. run' = run /\ dir' = dir /\ acked' = acked
    BY <1>3
  <2>3. \A c : Done(c)' = Done(c)
    BY <2>2 DEF Done
  <2>4. \A e : Stored(e)' = Stored(e)
    BY <2>2 DEF Stored
  <2>. QED  BY <2>1, <2>2, <2>3, <2>4 DEF ReportOf
<1>4. ASSUME NEW p \in Procs, Step(p) PROVE \A q \in Procs : ReportOf(run[q])'
  <2>1. ReportOf(run[p])'
    BY <1>1, <1>4, ReportOwn
  <2>2. Others(p)
    BY <1>4, ProgressOwn
  <2>3. ASSUME NEW q \in Procs \ {p} PROVE run'[q].pc = "idle"
    <3>1. run'[q] = run[q]
      BY <2>2 DEF Others
    <3>2. CASE run[p].pc # "idle"
      BY <1>2, <3>1, <3>2 DEF Alone, Busy
    <3>3. CASE run[p].pc = "idle"
      <4>1. run'[p].pc # "idle"
        BY <1>4, <3>3, IdleBegins
      <4>2. Alone'
        BY AloneStep
      <4>. QED  BY <1>1, <4>1, <4>2 DEF Alone, Busy
    <3>. QED  BY <3>2, <3>3
  <2>4. \A q \in Procs \ {p} : ReportOf(run[q])'
    BY <2>3 DEF ReportOf, Repairing, Ending, Fetching, Copying
  <2>. QED  BY <2>1, <2>4
<1>. QED  BY <1>3, <1>4, NextSteps

(* Every call before the current one has a result, or something is missing. *)
LEMMA CoveredStep ==
  ASSUME TypeOK, Locked, Copied, Progress, Trust, Covered, [Next]_vars
  PROVE  Covered'
<1>0. Recoverers \cap Finalizers = {}
  BY RecoveryAssumption
<1>1. CASE UNCHANGED <<run, lock, beside, dir, acked>>
  BY <1>1 DEF Covered, CoverOf
<1>2. ASSUME NEW p \in Procs, Step(p) PROVE Covered'
  <2>1. Others(p)
    BY <1>2, ProgressOwn
  <2>2. \A q \in Recoverers \ {p} : CoverOf(run[q])'
    BY <2>1 DEF Others, Covered, CoverOf, Procs
  <2>. SUFFICES ASSUME p \in Recoverers PROVE CoverOf(run[p])'
    BY <2>2 DEF Covered
  <2>3. CoverOf(run[p]) /\ run[p] \in Memory
    BY DEF Covered, TypeOK
  <2>4. ASSUME run'[p].pc = "idle" PROVE CoverOf(run[p])'
    BY <2>4 DEF CoverOf, Finalizing, Repairing, Ending
  <2>5. ASSUME run'[p].missing PROVE CoverOf(run[p])'
    BY <2>5 DEF CoverOf
  <2>6. ASSUME run[p].pc # "idle", run'[p].c = run[p].c, run'[p].results = run[p].results,
               ~run'[p].missing => ~run[p].missing,
               run'[p].pc \in Finalizing \cup Ending =>
                 run[p].pc \in Finalizing \cup Ending \/ run[p].c = NumCalls + 1
        PROVE  CoverOf(run[p])'
    BY <2>3, <2>6 DEF CoverOf
  <2>7. ASSUME run[p].pc # "idle", run[p].c \in Calls, run'[p].pc = "manifest",
               run'[p].c = run[p].c + 1, NEW n \in Names,
               run'[p].results = run[p].results \cup {<<run[p].c, n>>},
               run'[p].missing = run[p].missing
        PROVE  CoverOf(run[p])'
    <3>1. \A c \in Calls : c < run[p].c + 1 => c < run[p].c \/ c = run[p].c
      BY <2>7, RecoveryAssumption DEF Calls
    <3>. QED  BY <2>3, <2>7, <3>1 DEF CoverOf, Finalizing, Repairing, Ending
  <2>8. CASE Start(p) \/ FinalizeAlone(p)
    <3>1. run'[p].pc = "session" /\ run'[p].c = 1
      BY <1>0, <2>8, StartMoves, FinalizeAloneMoves
    <3>2. \A c \in Calls : ~(c < 1)
      BY RecoveryAssumption DEF Calls
    <3>. QED  BY <3>1, <3>2 DEF CoverOf, Finalizing, Repairing, Ending
  <2>9. CASE Raise(p) \/ Die(p) \/ WriteResult(p)
    BY <2>4, <2>9, RaiseStops, IdleMoves DEF Stops, WriteResult
  <2>10. CASE TransferFails(p)
    <3>1. run[p].c \in Calls /\ GiveUp(p)
      BY <2>10, Placed DEF TransferFails, At
    <3>. QED  BY <2>5, <3>1, GiveUpMoves
  <2>11. CASE ReadSession(p)
    BY <2>5, <2>6, <2>11, ReadSessionMoves
       DEF Passes, SameCall, SameFound, Finalizing, Repairing, Ending
  <2>12. CASE ReadManifest(p)
    <3>1. "call" \in Names
      BY DEF Names
    <3>2. CASE Passes(p, "manifest", "list") /\ run[p].c = NumCalls + 1
      BY <2>6, <3>2 DEF Passes, SameCall, SameFound
    <3>3. CASE Passes(p, "manifest", "mkdir")
      BY <2>6, <3>3 DEF Passes, SameCall, SameFound, Finalizing, Repairing, Ending
    <3>. QED  BY <2>5, <2>7, <2>12, <3>1, <3>2, <3>3, ReadManifestMoves DEF Advances
  <2>13. CASE Mkdir(p) \/ WritePending(p) \/ Pull(p) \/ WriteReceipt(p)
    BY <2>6, <2>13, PrepareMoves, PullMoves
       DEF Passes, SameCall, SameFound, Finalizing, Repairing, Ending
  <2>14. CASE Export(p)
    BY <2>6, <2>14, ExportMoves DEF Copies, SameFound, Finalizing, Repairing, Ending
  <2>15. CASE FromCache(p)
    <3>1. run[p].c \in Calls
      BY <2>15, Placed DEF FromCache, At
    <3>. QED  BY <2>5, <2>6, <2>15, <3>1, FromCacheMoves
         DEF Copies, SameFound, Finalizing, Repairing, Ending
  <2>16. CASE CheckPart(p)
    <3>1. run[p].c \in Calls
      BY <2>16, Placed DEF CheckPart, At
    <3>. QED  BY <2>5, <2>6, <2>16, <3>1, CheckPartMoves
         DEF Passes, SameCall, SameFound, Finalizing, Repairing, Ending
  <2>17. CASE Replace(p)
    <3>1. run[p].a \in Artifacts
      BY <2>17, Placed DEF Replace, At
    <3>. QED  BY <2>6, <2>17, <3>1, ReplaceMoves
         DEF Copies, SameFound, Finalizing, Repairing, Ending
  <2>18. CASE Verify(p)
    <3>1. run[p].c \in Calls /\ "pending" \in Names
      BY <2>18, Placed DEF Verify, At, Names
    <3>. QED  BY <2>7, <2>18, <3>1, VerifyMoves DEF Advances
  <2>19. CASE Info(p) \/ Ack(p)
    BY <2>6, <2>19, InfoMoves, AckMoves DEF SameCall, Finalizing, Repairing, Ending
  <2>20. CASE ListDirs(p) \/ ReadDir(p) \/ KeepPending(p) \/ WriteDerived(p)
    BY <2>6, <2>20, ListDirsMoves, ReadDirMoves, RepairedMoves
       DEF Finds, SameCall, SameFound, Finalizing, Repairing, Ending
  <2>21. CASE Rename(p)
    BY <2>6, <2>21, RenameMoves DEF Passes, SameCall, SameFound, Finalizing, Repairing, Ending
  <2>22. CASE WriteSummary(p)
    BY <2>4, <2>6, <2>22, SummaryMoves
       DEF Passes, SameCall, SameFound, Finalizing, Repairing, Ending
  <2>. QED
    BY <1>2, <2>8, <2>9, <2>10, <2>11, <2>12, <2>13, <2>14, <2>15, <2>16, <2>17, <2>18, <2>19,
       <2>20, <2>21, <2>22
    DEF Step, Process, Recover, Finalize
<1>. QED  BY <1>1, <1>2, NextSteps

(* Of what is reported, only the summary and the result of a recovery       *)
(* change, each in its own step.                                            *)
LEMMA ReportMoves ==
  ASSUME TypeOK, NEW p \in Procs, Step(p)
  PROVE  (result' = result \/ WriteResult(p)) /\ (summary' = summary \/ WriteSummary(p))
BY DEF Step, Process, Recover, Finalize, ReadSession, ReadManifest, Mkdir, WritePending, Export,
   FromCache, Pull, WriteReceipt, CheckPart, Replace, Verify, Info, Ack, ListDirs, WriteResult,
   ReadDir, KeepPending, Rename, WriteDerived, WriteSummary, Start, FinalizeAlone, Raise, Die,
   Ends, TransferFails, diskVars

(* And so in every step of the system.                                      *)
LEMMA NextReports ==
  ASSUME TypeOK, [Next]_vars
  PROVE  /\ result' = result \/ \E p \in Procs : WriteResult(p)
         /\ summary' = summary \/ \E p \in Procs : WriteSummary(p)
<1>1. CASE SealCall \/ SealSession \/ Damage \/ UNCHANGED vars
  BY <1>1 DEF SealCall, SealSession, Damage, vars, diskVars
<1>2. ASSUME NEW p \in Procs, Step(p)
      PROVE  (result' = result \/ WriteResult(p)) /\ (summary' = summary \/ WriteSummary(p))
  BY <1>2, ReportMoves
<1>. QED  BY <1>1, <1>2 DEF Next, Step

(* Status ok is written when every call is done.                            *)
LEMMA OkIsDone ==
  ASSUME TypeOK, Locked, Reported, Covered, beside # "beside", NEW p \in Procs, WriteResult(p),
         result' = "ok"
  PROVE  dir' = dir /\ \A c \in Calls : Done(c)
<1>1. /\ dir' = dir /\ run[p].pc = "ack" /\ ~run[p].missing /\ run[p] \in Memory
  BY DEF WriteResult, At, TypeOK
<1>2. p \in Recoverers
  BY <1>1 DEF Procs, Locked, Finalizing, Repairing
<1>3. ReportOf(run[p]) /\ CoverOf(run[p])
  BY <1>2 DEF Reported, Covered
<1>4. /\ run[p].todo = {} /\ run[p].kept = {} /\ \A c \in run[p].fixed : Done(c)
      /\ \A r \in run[p].results : r[1] \in run[p].fixed
  BY <1>1, <1>3 DEF ReportOf, Ending
<1>5. ASSUME NEW c \in Calls PROVE Done(c)
  <2>1. run[p].c = NumCalls + 1
    BY <1>1, <1>3 DEF CoverOf, Ending
  <2>2. c < run[p].c
    BY <2>1, RecoveryAssumption DEF Calls
  <2>3. PICK n \in Names : <<c, n>> \in run[p].results
    BY <1>1, <1>3, <2>2 DEF CoverOf
  <2>. QED  BY <1>4, <2>3
<1>. QED  BY <1>1, <1>5

(* The summary is written of calls that are done.                           *)
LEMMA SummaryIsDone ==
  ASSUME TypeOK, Reported, beside # "beside", NEW p \in Procs, WriteSummary(p)
  PROVE  dir' = dir /\ \A c \in summary' : Done(c)
BY DEF WriteSummary, At, SummaryOf, Reported, ReportOf

(* The reports stay true.                                                   *)
LEMMA ReportsTrueStep ==
  ASSUME TypeOK, Locked, Progress, Trust, Reported, Covered, ReportsTrue, [Next]_vars
  PROVE  ReportsTrue'
<1>1. SUFFICES ASSUME beside' # "beside"
      PROVE  /\ result' = "ok" =>
                  \A c \in Calls : Held(dir'[c]["call"]) /\ dir'[c]["call"].derived
             /\ \A c \in summary' : Held(dir'[c]["call"])
  BY DEF ReportsTrue, Held
<1>2. beside # "beside"
  BY <1>1, BesideStays
<1>3. /\ result = "ok" => \A c \in Calls : Held(dir[c]["call"]) /\ dir[c]["call"].derived
      /\ \A c \in summary : Held(dir[c]["call"])
      /\ summary \subseteq Calls
  BY <1>2 DEF ReportsTrue, TypeOK
<1>4. ASSUME NEW c \in Calls, Held(dir[c]["call"])
      PROVE  Held(dir'[c]["call"]) /\ (dir[c]["call"].derived => dir'[c]["call"].derived)
  BY <1>1, <1>4, HeldKept
<1>5. ASSUME result' = "ok"
      PROVE  \A c \in Calls : Held(dir'[c]["call"]) /\ dir'[c]["call"].derived
  <2>1. CASE result' = result
    BY <1>3, <1>4, <1>5, <2>1
  <2>2. ASSUME NEW p \in Procs, WriteResult(p)
        PROVE  \A c \in Calls : Held(dir'[c]["call"]) /\ dir'[c]["call"].derived
    BY <1>2, <1>5, <2>2, OkIsDone DEF Done
  <2>. QED  BY <2>1, <2>2, NextReports
<1>6. \A c \in summary' : Held(dir'[c]["call"])
  <2>1. CASE summary' = summary
    BY <1>3, <1>4, <2>1
  <2>2. ASSUME NEW p \in Procs, WriteSummary(p)
        PROVE  \A c \in summary' : Held(dir'[c]["call"])
    BY <1>2, <2>2, SummaryIsDone DEF Done
  <2>. QED  BY <2>1, <2>2, NextReports
<1>. QED  BY <1>5, <1>6

-------------------------------------------------------------------------------
(* The theorems.                                                            *)

(* In the beginning there is nothing on the host and nobody works.          *)
LEMMA RecoveryInit == Init => IInv
<1>. SUFFICES ASSUME Init PROVE IInv
  OBVIOUS
<1>1. \A p \in Procs : run[p] = Idle
  BY DEF Init
<1>2. \A p \in Procs : run[p].pc = "idle" /\ run[p].acks = {} /\ ~Busy(p)
  BY <1>1 DEF Idle, Busy
<1>3. \A c \in Calls, n \in Names : dir[c][n] = Absent
  BY DEF Init
<1>4. Absent.state = "absent" /\ Absent \in Directory
  BY DEF Absent, Directory
<1>5. TypeOK
  <2>1. dir \in [Calls -> [Names -> Directory]]
    BY <1>4 DEF Init
  <2>2. cache \in [Calls -> [Artifacts -> [Chunks -> CachedChunk]]]
    BY DEF Init, CachedChunk
  <2>3. run \in [Procs -> Memory]
    BY IdleType DEF Init
  <2>4. moved \in [Calls -> [Artifacts -> [Chunks -> Nat]]]
    BY DEF Init
  <2>5. faults \in 0..MaxFaults
    BY RecoveryAssumption DEF Init
  <2>. QED  BY <2>1, <2>2, <2>3, <2>4, <2>5 DEF TypeOK, Init
<1>6. Locked /\ Alone
  BY <1>2 DEF Locked, Alone, Procs
<1>7. Copied
  BY <1>3, <1>4 DEF Copied, CopiedIn, Names
<1>8. Progress
  BY <1>2 DEF Progress, ProgressOf, Fetching, Copying
<1>9. Trust
  BY <1>2 DEF Init, Trust, TrustOf
<1>10. Moved
  BY DEF Init, Moved
<1>11. Reported
  BY <1>2 DEF Reported, ReportOf, Fetching, Copying, Repairing, Ending
<1>12. Covered
  BY <1>2 DEF Covered, CoverOf, Finalizing, Repairing, Ending, Procs
<1>13. ReportsTrue
  BY DEF Init, ReportsTrue
<1>. QED  BY <1>5, <1>6, <1>7, <1>8, <1>9, <1>10, <1>11, <1>12, <1>13 DEF IInv

(* The invariant is inductive.                                              *)
LEMMA RecoveryStep == IInv /\ [Next]_vars => IInv'
<1>. SUFFICES ASSUME IInv, [Next]_vars PROVE IInv'
  OBVIOUS
<1>. USE DEF IInv
<1>1. TypeOK'
  BY TypesStep
<1>2. Locked' /\ Alone'
  BY LockedStep, AloneStep
<1>3. Copied' /\ Progress' /\ Trust'
  BY CopiedStep, ProgressStep, TrustStep
<1>4. Moved'
  BY MovedStep
<1>5. Reported' /\ Covered' /\ ReportsTrue'
  BY ReportedStep, CoveredStep, ReportsTrueStep
<1>. QED  BY <1>1, <1>2, <1>3, <1>4, <1>5

(* It holds in every reachable state.                                       *)
LEMMA RecoveryInv == Spec => []IInv
BY RecoveryInit, RecoveryStep, PTL DEF Spec

(* What the host claims is so (tracemiku_spool.py export_file, recover_run, *)
(* acknowledge; finalize.rs finalize_run): a directory marked VERIFIED      *)
(* holds an exact copy of its call, the device was told "verified" only of  *)
(* such calls, and what is reported ok, or listed as recovered, is in its   *)
(* final directory, verified and derived.                                   *)
THEOREM RecoveryIsTrue == Spec => []RecoveryTrue
<1>1. IInv => RecoveryTrue
  <2>. SUFFICES ASSUME IInv PROVE CopiesTrue
    BY DEF IInv, RecoveryTrue
  <2>1. \A c \in Calls, n \in Names : dir[c][n].state = "VERIFIED" => Exact(dir[c][n])
    BY DEF IInv, Copied, CopiedIn
  <2>2. \A c \in acked : \E n \in Names : Exact(dir[c][n])
    BY DEF IInv, Trust, Secured, SecuredIn
  <2>. QED  BY <2>1, <2>2 DEF CopiesTrue
<1>. QED  BY <1>1, RecoveryInv, PTL

(* A chunk crosses the wire once for each time its cached copy is damaged   *)
(* (tracemiku_spool.py pull_chunk): whatever dies or fails, and whoever     *)
(* works beside.                                                            *)
THEOREM RecoveryMovedOnce == Spec => []MovedOnce
<1>1. IInv => MovedOnce
  BY DEF IInv, Moved, MovedOnce
<1>. QED  BY <1>1, RecoveryInv, PTL

(* No step takes back a call that is in its final directory (finalize.rs    *)
(* repair_call, tracemiku_spool.py recover_run).                            *)
THEOREM RecoveryCommittedStays == Spec => CommittedStays
<1>. DEFINE Kept ==
       \A c \in Calls :
         LET old == dir[c]["call"]  new == dir'[c]["call"] IN
         Held(old) /\ beside' # "beside" => Held(new) /\ (old.derived => new.derived)
<1>1. IInv /\ [Next]_vars => [Kept]_vars
  BY HeldKept DEF IInv
<1>. QED  BY <1>1, RecoveryInv, PTL DEF Spec, CommittedStays
================================================================================
