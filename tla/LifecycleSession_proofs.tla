---------------------- MODULE LifecycleSession_proofs ----------------------
(***************************************************************************)
(* Proofs about Lifecycle: whose session.json is, when an uninstall may    *)
(* remove it, and that the port in it is not lost.                         *)
(***************************************************************************)
EXTENDS Lifecycle_proofs

(* A daemon that has yet to pass its gate, and may find itself identified. *)
BeforeGate == {"spawned", "locking", "judging", "breaking", "reopening", "writing", "gate"}
Claims(d) == pc["daemon"][d] \in BeforeGate /\ SessionOf(d) /\ session.pid

NoClaims == \A d \in Commands : ~Claims(d)
NoOwner == \A d \in Commands : ~Owns(d)
NoPid == Stored(session) => ~session.pid

(* A command that has read the record, and has not yet excluded that the   *)
(* daemon it names is there.                                               *)
Looked(c) ==
    \/ operation[c] = "start" /\ pc["command"][c] = "inspecting"
    \/ /\ operation[c] = "uninstall"
       /\ pc["command"][c] \in {"checking", "inspecting", "requesting", "waiting"}

(* It has: what is left is to look at daemon.lock.                         *)
Judged(c) ==
    \/ operation[c] = "start" /\ pc["command"][c] = "checking"
    \/ pc["command"][c] = "rechecking"

(* It has done that too.                                                   *)
Quiet == {"pending", "helping", "sweeping"}

(* A start has put its own record in place.                                *)
Launched == {"launching", "recording", "clearing", "spawning", "identifying", "merging",
             "adopting", "preserving", "failing"}

Concerned == Quiet \cup Launched \cup {"checking", "inspecting", "requesting", "waiting",
                                  "rechecking", "updating"}

(* What a command knows at each of these of the daemons that are left.     *)
Knows(c) ==
    /\ Looked(c) => \A d \in Commands : Claims(d) =>
            HasPid(seen["command"][c]) /\ seen["command"][c].nonce = d
    /\ Judged(c) => NoClaims
    /\ pc["command"][c] \in Quiet => NoClaims /\ NoOwner
    /\ pc["command"][c] \in Launched => NoPid /\ NoOwner
    /\ pc["command"][c] \in {"launching", "recording"} => ~seen["command"][c].pid
    /\ pc["command"][c] # "updating"

(* What a daemon that owns the session knows of the record.                *)
Recorded(d) ==
    /\ Owns(d) =>
        \/ SessionOf(d) /\ session.pid
        \/ session = Missing /\ pc["daemon"][d] = "updating"
        \/ pc["daemon"][d] = "forgetting"
    /\ pc["daemon"][d] = "updating" => seen["daemon"][d].nonce = d /\ seen["daemon"][d].pid
    /\ pc["daemon"][d] \in WritingSession => pc["daemon"][d] = "updating"

(* Whoever is past the writing of its lock has its PID in it.              *)
WrittenInv ==
    \A k \in Kinds, c \in Commands :
        lock[k] # None /\ lock[k].by = c /\ pc[k][c] \notin {"writing", "ended"} => lock[k].written

OwnersKept == \A c \in Commands : Knows(c) /\ Recorded(c)

OwnerInv == raced \/ OwnersKept

-----------------------------------------------------------------------------
(* Written locks.                                                          *)

LEMMA WrittenStays ==
    ASSUME TypeOK, LockInv, WrittenInv, NEW k \in Kinds, NEW c \in Commands,
           Steps(k, c), lock' = lock, pc[k][c] \notin {"writing", "ended"}
    PROVE  WrittenInv'
BY DEF WrittenInv, Steps, LockInv, NamedHasRun

LEMMA LockStepWritten ==
    ASSUME TypeOK, SeenInv, LockInv, WrittenInv, NEW k \in Kinds, NEW c \in Commands,
           LockSteps(k, c)
    PROVE  WrittenInv'
<1>0. Steps(k, c)
  BY LockStepTypes DEF LockTypes
<1>. USE DEF At, Goto
<1>1. ASSUME Creates(k, c)
      PROVE  WrittenInv'
  <2>1. lock'[k] = [by |-> c, written |-> FALSE] /\ \A j \in Kinds : j # k => lock'[j] = lock[j]
    BY <1>1 DEF Creates, TypeOK
  <2>2. pc'[k][c] = "writing" /\ lock'[k].by = c
    BY <1>1, <2>1 DEF Creates, TypeOK
  <2>. QED  BY <1>0, <2>1, <2>2 DEF WrittenInv, Steps
<1>2. CASE OpenLock(k, c) \/ ReopenLock(k, c)
  <2>1. CASE ~Creates(k, c)
    <3>1. lock' = lock /\ pc[k][c] \in {"idle", "locking", "reopening"}
      BY <1>2, <2>1 DEF OpenLock, ReopenLock, Contends
    <3>. QED  BY <1>0, <3>1, WrittenStays
  <2>. QED  BY <1>1, <2>1
<1>3. CASE JudgeLock(k, c)
  BY <1>0, <1>3, WrittenStays DEF JudgeLock
<1>4. CASE WriteLock(k, c)
  <2>1. CASE lock[k] = [by |-> c, written |-> FALSE]
    <3>1. lock[k] \in Lock
      BY <2>1 DEF Lock, Names
    <3>2. \A l \in Lock : [l EXCEPT !.written = TRUE].written /\ [l EXCEPT !.written = TRUE].by = l.by
      BY DEF Lock
    <3>3. lock'[k] = [lock[k] EXCEPT !.written = TRUE]
      BY <1>4, <2>1 DEF WriteLock, TypeOK
    <3>4. lock'[k].written
      BY <3>1, <3>2, <3>3
    <3>5. \A j \in Kinds : j # k => lock'[j] = lock[j]
      BY <1>4, <2>1 DEF WriteLock, TypeOK
    <3>. QED  BY <1>0, <3>4, <3>5 DEF WrittenInv, Steps
  <2>2. CASE lock[k] # [by |-> c, written |-> FALSE]
    <3>1. lock' = lock
      BY <1>4, <2>2 DEF WriteLock
    <3>2. lock[k] # None /\ lock[k].by = c => lock[k].written
      BY <2>2 DEF TypeOK, Lock
    <3>. QED  BY <1>0, <3>1, <3>2 DEF WrittenInv, Steps
  <2>. QED  BY <2>1, <2>2
<1>5. CASE BreakLock(k, c) \/ ReleaseLock(k, c)
  <2>1. lock'[k] = None /\ \A j \in Kinds : j # k => lock'[j] = lock[j]
    BY <1>5 DEF BreakLock, ReleaseLock, TypeOK
  <2>2. pc[k][c] \in {"breaking", "releasing"}
    BY <1>5 DEF BreakLock, ReleaseLock
  <2>. QED  BY <1>0, <2>1, <2>2 DEF WrittenInv, Steps
<1>. QED  BY <1>2, <1>3, <1>4, <1>5 DEF LockSteps

LEMMA SpawnWritten ==
    ASSUME TypeOK, LockInv, WrittenInv, NEW c \in Commands, Spawn(c)
    PROVE  WrittenInv'
<1>1. /\ pc["command"][c] = "spawning" /\ lock' = lock
      /\ pc'["command"][c] \in {"identifying", "preserving"}
      /\ pc'["daemon"][c] \in {pc["daemon"][c], "spawned"}
  BY DEF Spawn, Start, Becomes, Goto, At, Otherwise, TypeOK, Kinds
<1>2. \A k \in Kinds, d \in Commands : d # c => pc'[k][d] = pc[k][d]
  BY DEF Spawn, Becomes, Goto, TypeOK, Kinds
<1>3. pc["daemon"][c] = "idle"
  BY <1>1 DEF LockInv, DaemonsAreStarted, Spawned
<1>. QED  BY <1>1, <1>2, <1>3 DEF WrittenInv, LockInv, NamedHasRun, Kinds

LEMMA SweepWritten ==
    ASSUME TypeOK, WrittenInv, NEW c \in Commands, Sweep(c)
    PROVE  WrittenInv'
<1>1. CASE SweepFile(c)
  BY <1>1 DEF SweepFile, Otherwise, WrittenInv
<1>2. ASSUME NEW k \in Kinds, SweepLock(c, k) PROVE WrittenInv'
  <2>1. lock'[k] = None /\ pc' = pc /\ \A j \in Kinds : j # k => lock'[j] = lock[j]
    BY <1>2 DEF SweepLock, TypeOK
  <2>. QED  BY <2>1 DEF WrittenInv
<1>. QED  BY <1>1, <1>2 DEF Sweep

-----------------------------------------------------------------------------
(* What a step does to what commands and daemons know.                     *)

(* A daemon that holds its lock is the only one, and its lock says so.     *)
LEMMA OwnerHolds ==
    ASSUME LockInv, WrittenInv, ~raced, NEW d \in Commands, Owns(d)
    PROVE  /\ lock["daemon"] # None /\ lock["daemon"].by = d /\ lock["daemon"].written
           /\ Alive("daemon", d)
           /\ \A e \in Commands : pc["daemon"][e] \notin Outside => e = d
<1>1. pc["daemon"][d] \notin Outside \cup {"writing"}
  BY DEF Owns, Owning, Outside
<1>2. lock["daemon"] # None /\ lock["daemon"].by = d
  BY <1>1 DEF LockInv, HolderIsNamed, Kinds
<1>3. lock["daemon"].written
  BY <1>1, <1>2 DEF WrittenInv, Kinds, Outside
<1>4. Alive("daemon", d)
  BY <1>1 DEF Alive, At, Outside
<1>5. \A e \in Commands : pc["daemon"][e] \notin Outside => e = d
  BY <1>1 DEF LockInv, OneAtATime, Holds, Kinds
<1>. QED  BY <1>2, <1>3, <1>4, <1>5

(* A command that holds its lock goes on: no other command is concerned.   *)
LEMMA CommandKeeps ==
    ASSUME TypeOK, LockInv, OwnersKept, ~raced, NEW c \in Commands,
           pc["command"][c] \notin Outside, Steps("command", c), operation' = operation,
           session' = session \/ NoOwner, Knows(c)'
    PROVE  OwnersKept'
<1>1. \A d \in Commands : pc'["daemon"][d] = pc["daemon"][d] /\ seen'["daemon"][d] = seen["daemon"][d]
  BY DEF Steps, Kinds
<1>2. ASSUME NEW d \in Commands PROVE Recorded(d)'
  BY <1>1, <1>2 DEF OwnersKept, Recorded, NoOwner, Owns, Owning, SessionOf, Stored
<1>3. ASSUME NEW d \in Commands, d # c PROVE Knows(d)'
  <2>1. pc'["command"][d] \in Outside
    BY <1>3 DEF LockInv, OneAtATime, Holds, Steps, Kinds
  <2>. QED  BY <2>1 DEF Knows, Looked, Judged, Quiet, Launched, Outside
<1>. QED  BY <1>2, <1>3 DEF OwnersKept

(* The step adds nothing to what daemons claim or own.                     *)
Adds ==
    /\ operation' = operation
    /\ \A d \in Commands : Claims(d)' => Claims(d)
    /\ \A d \in Commands : Owns(d)' => Owns(d) \/ Claims(d)
    /\ NoOwner /\ NoPid => NoPid'
    /\ \A c \in Commands :
        pc'["command"][c] \in Concerned =>
            pc'["command"][c] = pc["command"][c] /\ seen'["command"][c] = seen["command"][c]

LEMMA AddsKeeps ==
    ASSUME OwnersKept, Adds, NEW c \in Commands
    PROVE  Knows(c)'
<1>1. Knows(c)
  BY DEF OwnersKept
<1>2. NoPid => NoClaims
  BY DEF NoPid, NoClaims, Claims, SessionOf
<1>3. CASE pc'["command"][c] \notin Concerned
  BY <1>3 DEF Knows, Looked, Judged, Concerned, Launched
<1>4. CASE pc'["command"][c] \in Concerned
  <2>1. pc'["command"][c] = pc["command"][c] /\ seen'["command"][c] = seen["command"][c]
    BY <1>4 DEF Adds
  <2>2. NoClaims => NoClaims'
    BY DEF Adds, NoClaims
  <2>3. NoClaims /\ NoOwner => NoOwner'
    BY DEF Adds, NoClaims, NoOwner
  <2>4. Looked(c)' => \A d \in Commands : Claims(d)' =>
            HasPid(seen'["command"][c]) /\ seen'["command"][c].nonce = d
    BY <1>1, <2>1 DEF Knows, Looked, Adds
  <2>5. (Judged(c)' => NoClaims') /\ (pc'["command"][c] \in Quiet => NoClaims' /\ NoOwner')
    BY <1>1, <2>1, <2>2, <2>3 DEF Knows, Judged, Adds
  <2>6. pc'["command"][c] \in Launched => NoPid' /\ NoOwner'
    BY <1>1, <1>2, <2>1, <2>3 DEF Knows, Adds
  <2>. QED  BY <1>1, <2>1, <2>4, <2>5, <2>6 DEF Knows, HasPid
<1>. QED  BY <1>3, <1>4

(* A daemon goes on: it writes the record only while it owns the session.  *)
LEMMA DaemonKeeps ==
    ASSUME TypeOK, LockInv, WrittenInv, OwnersKept, ~raced, NEW d \in Commands,
           Steps("daemon", d), Otherwise, Recorded(d)',
           session' = session \/ Owns(d),
           session' \in {session, None, Missing} \/ session'.nonce = d,
           pc'["daemon"][d] \in BeforeGate => pc["daemon"][d] \in BeforeGate /\ ~Owns(d),
           Owns(d)' => Owns(d) \/ Claims(d)
    PROVE  OwnersKept'
<1>1. /\ \A c \in Commands : pc'["command"][c] = pc["command"][c]
                           /\ seen'["command"][c] = seen["command"][c]
      /\ \A e \in Commands : e # d => pc'["daemon"][e] = pc["daemon"][e]
                                   /\ seen'["daemon"][e] = seen["daemon"][e]
  BY DEF Steps, Kinds
<1>2. ASSUME NEW e \in Commands, e # d PROVE Recorded(e)'
  <2>1. CASE session' = session
    BY <1>1, <1>2, <2>1 DEF OwnersKept, Recorded, Owns, SessionOf, Stored
  <2>2. CASE Owns(d)
    <3>1. ~Owns(e)
      BY <1>2, <2>2, OwnerHolds DEF Owns, Owning, Outside
    <3>. QED  BY <1>1, <1>2, <3>1 DEF OwnersKept, Recorded, Owns, Owning
  <2>. QED  BY <2>1, <2>2
<1>3. Adds
  <2>1. ASSUME NEW e \in Commands, Claims(e)' PROVE Claims(e)
    <3>1. CASE session' = session
      BY <1>1, <2>1, <3>1 DEF Claims, SessionOf, Stored
    <3>2. CASE session' # session
      BY <1>1, <2>1, <3>2 DEF Claims, SessionOf, Stored
    <3>. QED  BY <3>1, <3>2
  <2>2. \A e \in Commands : Owns(e)' => Owns(e) \/ Claims(e)
    BY <1>1 DEF Owns
  <2>3. NoOwner /\ NoPid => NoPid'
    BY DEF NoOwner, NoPid, Stored
  <2>. QED  BY <1>1, <2>1, <2>2, <2>3 DEF Adds, Otherwise
<1>. QED  BY <1>2, <1>3, AddsKeeps DEF OwnersKept

-----------------------------------------------------------------------------
(* The steps.                                                              *)

LEMMA LockStepKnows ==
    ASSUME TypeOK, SeenInv, OwnersKept, NEW k \in Kinds, NEW c \in Commands, LockSteps(k, c)
    PROVE  OwnersKept'
<1>0. Steps(k, c) /\ operation' = operation
  BY LockStepTypes DEF LockTypes
<1>1. session' = session
  BY DEF LockSteps, OpenLock, JudgeLock, BreakLock, ReopenLock, WriteLock, ReleaseLock, files
<1>2. CASE k = "daemon"
  <2>1. /\ pc'[k][c] \in BeforeGate => pc[k][c] \in BeforeGate
        /\ pc'[k][c] \notin Owning \cup WritingSession
    <3>1. CASE WriteLock(k, c)
      BY <1>2, <3>1 DEF WriteLock, First, At, Goto, TypeOK, BeforeGate, Owning, WritingSession
    <3>2. CASE OpenLock(k, c) \/ JudgeLock(k, c) \/ BreakLock(k, c)
      BY <1>2, <3>2 DEF OpenLock, Contends, Creates, JudgeLock, BreakLock, At, Goto, TypeOK,
                        BeforeGate, Owning, WritingSession
    <3>3. CASE ReopenLock(k, c) \/ ReleaseLock(k, c)
      BY <3>3 DEF ReopenLock, Creates, ReleaseLock, At, Goto, TypeOK, BeforeGate, Owning, WritingSession
    <3>. QED  BY <3>1, <3>2, <3>3 DEF LockSteps
  <2>2. ASSUME NEW d \in Commands PROVE Recorded(d)'
    BY <1>0, <1>1, <1>2, <2>1 DEF OwnersKept, Recorded, Owns, Owning, SessionOf, Stored, Steps, Kinds
  <2>3. Adds
    BY <1>0, <1>1, <1>2, <2>1
    DEF Adds, Claims, Owns, Owning, SessionOf, Stored, NoPid, Steps, Kinds
  <2>. QED  BY <2>2, <2>3, AddsKeeps DEF OwnersKept
<1>3. CASE k = "command"
  <2>1. pc'[k][c] \notin Concerned
    <3>1. CASE WriteLock(k, c)
      <4>1. First(k, c) \in {"gate", "selecting", "staging", "looking"}
        BY DEF First, TypeOK
      <4>. QED  BY <3>1, <4>1 DEF WriteLock, At, Goto, TypeOK, Concerned, Quiet, Launched
    <3>2. CASE OpenLock(k, c) \/ JudgeLock(k, c) \/ BreakLock(k, c)
      BY <3>2 DEF OpenLock, Creates, JudgeLock, BreakLock, At, Goto, TypeOK,
                  Concerned, Quiet, Launched
    <3>3. CASE ReopenLock(k, c) \/ ReleaseLock(k, c)
      BY <3>3 DEF ReopenLock, Creates, ReleaseLock, At, Goto, TypeOK, Concerned, Quiet, Launched
    <3>. QED  BY <3>1, <3>2, <3>3 DEF LockSteps
  <2>2. \A d \in Commands : pc'["daemon"][d] = pc["daemon"][d] /\ seen'["daemon"][d] = seen["daemon"][d]
    BY <1>0, <1>3 DEF Steps, Kinds
  <2>3. ASSUME NEW d \in Commands PROVE Recorded(d)'
    BY <1>1, <2>2 DEF OwnersKept, Recorded, Owns, SessionOf, Stored
  <2>4. Adds
    BY <1>0, <1>1, <1>3, <2>1, <2>2 DEF Adds, Claims, Owns, SessionOf, Stored, NoPid, Steps, Kinds
  <2>. QED  BY <2>3, <2>4, AddsKeeps DEF OwnersKept
<1>. QED  BY <1>2, <1>3 DEF Kinds

LEMMA CrashKnows ==
    ASSUME TypeOK, OwnersKept, NEW k \in Kinds, NEW c \in Commands, Crash(k, c)
    PROVE  OwnersKept'
<1>1. /\ UNCHANGED <<operation, session, seen>>
      /\ \A j \in Kinds, d \in Commands : pc'[j][d] \in {pc[j][d], "ended"}
  BY DEF Crash, Goto, TypeOK, files
<1>2. ASSUME NEW d \in Commands PROVE Recorded(d)'
  BY <1>1 DEF OwnersKept, Recorded, Owns, Owning, SessionOf, Stored, Kinds, WritingSession
<1>3. Adds
  BY <1>1 DEF Adds, Claims, Owns, Owning, BeforeGate, SessionOf, Stored, NoPid, Kinds,
              Concerned, Quiet, Launched
<1>. QED  BY <1>2, <1>3, AddsKeeps DEF OwnersKept

LEMMA ReplaceKnows ==
    ASSUME TypeOK, LockInv, WrittenInv, OwnersKept, ~raced, NEW k \in Kinds, NEW c \in Commands,
           RemoveToReplace(k, c)
    PROVE  OwnersKept'
<1>1. UNCHANGED <<operation, pc, seen>> /\ session' \in {session, Missing}
  BY DEF RemoveToReplace, Otherwise
<1>2. CASE session' = session
  <2>1. Adds
    BY <1>1, <1>2 DEF Adds, Claims, Owns, SessionOf, Stored, NoPid
  <2>2. ASSUME NEW d \in Commands PROVE Recorded(d)'
    BY <1>1, <1>2 DEF OwnersKept, Recorded, Owns, SessionOf, Stored
  <2>. QED  BY <2>1, <2>2, AddsKeeps DEF OwnersKept
<1>3. CASE session' = Missing /\ session' # session
  <2>1. pc[k][c] \in WritingSession
    BY <1>3 DEF RemoveToReplace
  <2>2. Adds
    BY <1>1, <1>3 DEF Adds, Claims, Owns, SessionOf, Stored, NoPid
  <2>3. ASSUME NEW d \in Commands PROVE Recorded(d)'
    <3>1. CASE k = "command"
      <4>1. NoOwner
        BY <2>1, <3>1 DEF OwnersKept, Knows, WritingSession, Quiet, Launched
      <4>. QED  BY <1>1, <4>1 DEF OwnersKept, Recorded, NoOwner, Owns, Owning
    <3>2. CASE k = "daemon"
      <4>1. pc["daemon"][c] = "updating"
        BY <2>1, <3>2 DEF OwnersKept, Recorded
      <4>2. Owns(d) => d = c
        BY <4>1, OwnerHolds DEF Outside
      <4>. QED  BY <1>1, <1>3, <4>1, <4>2 DEF OwnersKept, Recorded, Owns
    <3>. QED  BY <3>1, <3>2 DEF Kinds
  <2>. QED  BY <2>2, <2>3, AddsKeeps DEF OwnersKept
<1>. QED  BY <1>1, <1>2, <1>3

LEMMA StartKnows ==
    ASSUME TypeOK, SeenInv, LockInv, WrittenInv, OwnersKept, ~raced, NEW c \in Commands,
           StartSteps(c), ~Spawn(c)
    PROVE  OwnersKept'
<1>0. Steps("command", c) /\ operation' = operation
  BY StartTypes DEF Otherwise
<1>1. pc["command"][c] \notin Outside /\ operation[c] = "start"
  BY DEF StartSteps, SelectRuntime, LookForSession, InspectRecorded, CheckDaemonLock,
         WritePending, Launch, WriteSession, RemoveStopRequest, IdentifyDaemon, ReadToAdopt,
         WriteAdopted, ReadToPreserve, WriteError, Start, At, Outside
<1>. SUFFICES (session' = session \/ NoOwner) /\ Knows(c)'
  BY <1>0, <1>1, CommandKeeps
<1>2. /\ \A d \in Commands : pc'["daemon"][d] = pc["daemon"][d]
      /\ operation'[c] = "start"
  BY <1>0, <1>1 DEF Steps, Kinds
<1>3. session' = session => (NoOwner <=> NoOwner') /\ (NoClaims <=> NoClaims') /\ (NoPid <=> NoPid')
                            /\ \A d \in Commands : Claims(d)' <=> Claims(d)
  BY <1>2 DEF NoOwner, NoClaims, NoPid, Claims, Owns, SessionOf, Stored
<1>4. Knows(c)
  BY DEF OwnersKept
<1>. USE DEF At, Goto, Becomes, Start
<1>5. CASE SelectRuntime(c)
  <2>1. pc'["command"][c] \in {"releasing", "looking"} /\ session' = session
    BY <1>5 DEF SelectRuntime, TypeOK, Kinds, files
  <2>. QED  BY <2>1 DEF Knows, Looked, Judged, Quiet, Launched
<1>6. CASE LookForSession(c)
  <2>1. /\ session' = session /\ seen'["command"][c] = Read(session)
        /\ pc'["command"][c] = IF Stored(session) /\ session.pid THEN "inspecting" ELSE "checking"
    BY <1>6 DEF LookForSession, Note, TypeOK, Kinds, files
  <2>2. CASE Stored(session) /\ session.pid
    <3>1. pc'["command"][c] = "inspecting" /\ seen'["command"][c] = session /\ session # None
      BY <2>1, <2>2 DEF Read, Stored
    <3>2. \A d \in Commands : Claims(d)' => HasPid(seen'["command"][c]) /\ seen'["command"][c].nonce = d
      BY <1>3, <2>1, <2>2, <3>1 DEF Claims, SessionOf, HasPid
    <3>. QED  BY <1>2, <2>1, <3>1, <3>2 DEF Knows, Looked, Judged, Quiet, Launched
  <2>3. CASE ~(Stored(session) /\ session.pid)
    <3>1. pc'["command"][c] = "checking" /\ NoClaims
      BY <2>1, <2>3 DEF NoClaims, Claims, SessionOf
    <3>. QED  BY <1>2, <1>3, <2>1, <3>1 DEF Knows, Looked, Judged, Quiet, Launched
  <2>. QED  BY <2>2, <2>3
<1>7. CASE InspectRecorded(c)
  <2>1. session' = session /\ pc["command"][c] = "inspecting"
    BY <1>7 DEF InspectRecorded, files
  <2>2. PICK running \in RunningAnswers("daemon", seen["command"][c].nonce) :
          pc'["command"][c] = IF running THEN "releasing" ELSE "checking"
    BY <1>7 DEF InspectRecorded, TypeOK, Kinds
  <2>3. CASE running
    <3>1. pc'["command"][c] = "releasing"
      BY <2>2, <2>3
    <3>. QED  BY <2>1, <3>1 DEF Knows, Looked, Judged, Quiet, Launched
  <2>4. CASE ~running
    <3>1. ~Alive("daemon", seen["command"][c].nonce)
      BY <2>4 DEF RunningAnswers
    <3>2. NoClaims
      BY <1>1, <1>4, <2>1, <3>1 DEF Knows, Looked, NoClaims, Claims, BeforeGate, Alive
    <3>3. pc'["command"][c] = "checking"
      BY <2>2, <2>4
    <3>. QED  BY <1>2, <1>3, <2>1, <3>2, <3>3 DEF Knows, Looked, Judged, Quiet, Launched
  <2>. QED  BY <2>3, <2>4
<1>8. CASE CheckDaemonLock(c)
  <2>1. session' = session /\ pc["command"][c] = "checking"
    BY <1>8 DEF CheckDaemonLock, files
  <2>2. PICK held \in DaemonLockAnswers : pc'["command"][c] = IF held THEN "releasing" ELSE "pending"
    BY <1>8 DEF CheckDaemonLock, TypeOK, Kinds
  <2>3. CASE held
    <3>1. pc'["command"][c] = "releasing"
      BY <2>2, <2>3
    <3>. QED  BY <2>1, <3>1 DEF Knows, Looked, Judged, Quiet, Launched
  <2>4. CASE ~held
    <3>1. ASSUME NEW d \in Commands, Owns(d) PROVE FALSE
      <4>1. lock["daemon"] # None /\ lock["daemon"].by = d /\ lock["daemon"].written
            /\ Alive("daemon", d)
        BY <3>1, OwnerHolds
      <4>2. DaemonLockAnswers = {TRUE}
        BY <4>1 DEF DaemonLockAnswers, RunningAnswers
      <4>. QED  BY <2>4, <4>2
    <3>2. NoClaims
      BY <1>1, <1>4, <2>1 DEF Knows, Judged
    <3>3. pc'["command"][c] = "pending"
      BY <2>2, <2>4
    <3>. QED  BY <1>2, <1>3, <2>1, <3>1, <3>2, <3>3
              DEF Knows, Looked, Judged, Quiet, Launched, NoOwner
  <2>. QED  BY <2>3, <2>4
<1>9. CASE WritePending(c)
  <2>0. PICK given \in BOOLEAN :
            /\ session' = PendingRecord(c, given)
            /\ Note("command", c, PendingRecord(c, given))
    BY <1>9 DEF WritePending
  <2>1. /\ pc["command"][c] = "pending" /\ pc'["command"][c] = "launching"
        /\ session' = PendingRecord(c, given) /\ seen'["command"][c] = PendingRecord(c, given)
    BY <1>9, <2>0 DEF WritePending, Note, TypeOK, Kinds
  <2>2. ~PendingRecord(c, given).pid
    BY DEF PendingRecord
  <2>3. NoOwner /\ NoOwner'
    BY <1>2, <1>4, <2>1 DEF Knows, Quiet, NoOwner, Owns
  <2>4. NoPid' /\ ~seen'["command"][c].pid
    BY <2>1, <2>2 DEF NoPid
  <2>. QED  BY <2>1, <2>3, <2>4 DEF Knows, Looked, Judged, Quiet
<1>10. CASE Launch(c) \/ RemoveStopRequest(c) \/ IdentifyDaemon(c) \/ ReadToAdopt(c)
             \/ ReadToPreserve(c)
  <2>1. /\ session' = session
        /\ pc["command"][c] \in Launched
        /\ pc'["command"][c] \in Launched \cup {"releasing"}
        /\ pc'["command"][c] # "launching"
        /\ pc'["command"][c] = "recording" =>
             pc["command"][c] = "launching" /\ seen'["command"][c] = seen["command"][c]
    BY <1>10 DEF Launch, RemoveStopRequest, IdentifyDaemon, ReadToAdopt, ReadToPreserve,
                 Launched, TypeOK, Kinds, files
  <2>. QED  BY <1>3, <1>4, <2>1 DEF Knows, Looked, Judged, Quiet, Launched
<1>11. CASE WriteSession(c)
  <2>1. /\ pc["command"][c] = "recording" /\ pc'["command"][c] = "clearing"
        /\ session' = [seen["command"][c] EXCEPT !.status = "starting"]
    BY <1>11 DEF WriteSession, TypeOK, Kinds
  <2>2. seen["command"][c] \in Session /\ ~seen["command"][c].pid
    BY <1>4, <2>1 DEF Knows, SeenInv, Fits, Kinds
  <2>3. ~session'.pid
    BY <2>1, <2>2 DEF Session
  <2>4. NoOwner /\ NoOwner'
    BY <1>2, <1>4, <2>1 DEF Knows, Launched, NoOwner, Owns
  <2>. QED  BY <2>1, <2>3, <2>4 DEF Knows, Looked, Judged, Quiet, NoPid
<1>12. CASE WriteAdopted(c) \/ WriteError(c)
  <2>1. pc["command"][c] \in {"adopting", "failing"} /\ pc'["command"][c] = "releasing"
    BY <1>12 DEF WriteAdopted, WriteError, TypeOK, Kinds
  <2>2. NoOwner
    BY <1>4, <2>1 DEF Knows, Launched
  <2>. QED  BY <2>1, <2>2 DEF Knows, Looked, Judged, Quiet, Launched
<1>. QED  BY <1>5, <1>6, <1>7, <1>8, <1>9, <1>10, <1>11, <1>12 DEF StartSteps

LEMMA SpawnKnows ==
    ASSUME TypeOK, LockInv, WrittenInv, OwnersKept, ~raced, NEW c \in Commands, Spawn(c)
    PROVE  OwnersKept'
<1>1. /\ operation[c] = "start" /\ pc["command"][c] = "spawning"
      /\ pc'["command"][c] \in {"identifying", "preserving"}
      /\ pc'["daemon"][c] \in {pc["daemon"][c], "spawned"}
      /\ UNCHANGED <<operation, seen, session, lock>>
  BY DEF Spawn, Start, Becomes, Goto, At, Otherwise, TypeOK, Kinds, files
<1>2. \A k \in Kinds, d \in Commands : d # c => pc'[k][d] = pc[k][d]
  BY DEF Spawn, Becomes, Goto, TypeOK, Kinds
<1>3. pc["daemon"][c] = "idle"
  BY <1>1 DEF LockInv, DaemonsAreStarted, Spawned
<1>4. NoPid /\ NoOwner
  BY <1>1 DEF OwnersKept, Knows, Launched
<1>5. NoPid' /\ NoOwner'
  BY <1>1, <1>2, <1>4 DEF NoPid, NoOwner, Owns, Owning, Stored, Kinds
<1>6. ASSUME NEW d \in Commands PROVE Recorded(d)'
  BY <1>1, <1>2, <1>5 DEF OwnersKept, Recorded, NoOwner, WritingSession, Kinds
<1>7. ASSUME NEW d \in Commands PROVE Knows(d)'
  <2>1. CASE d = c
    BY <1>1, <1>5, <2>1 DEF Knows, Looked, Judged, Quiet
  <2>2. CASE d # c
    <3>1. pc'["command"][d] \in Outside
      BY <1>1, <1>2, <2>2 DEF LockInv, OneAtATime, Holds, Outside, Kinds
    <3>. QED  BY <3>1 DEF Knows, Looked, Judged, Quiet, Launched, Outside
  <2>. QED  BY <2>1, <2>2
<1>. QED  BY <1>6, <1>7 DEF OwnersKept

LEMMA InstallKnows ==
    ASSUME TypeOK, SeenInv, LockInv, OwnersKept, ~raced, NEW c \in Commands, InstallSteps(c)
    PROVE  OwnersKept'
<1>0. Steps("command", c) /\ operation' = operation
  BY InstallTypes DEF Otherwise
<1>1. pc["command"][c] \notin Outside /\ session' = session /\ pc'["command"][c] \notin Concerned
  BY DEF InstallSteps, Stage, RememberPrevious, Switch, CreateShortcuts, RestorePrevious,
         DiscardEngine, Install, Becomes, Goto, At, TypeOK, Kinds, Outside, Concerned, Quiet,
         Launched, files
<1>2. Knows(c)'
  BY <1>1 DEF Knows, Looked, Judged, Concerned, Launched
<1>. QED  BY <1>0, <1>1, <1>2, CommandKeeps

LEMMA UninstallKnows ==
    ASSUME TypeOK, SeenInv, LockInv, WrittenInv, OwnersKept, ~raced, NEW c \in Commands,
           UninstallSteps(c), ~Sweep(c)
    PROVE  OwnersKept'
<1>0. Steps("command", c) /\ operation' = operation
  BY UninstallTypes DEF Otherwise
<1>1. /\ pc["command"][c] \notin Outside /\ session' = session /\ operation[c] = "uninstall"
  BY DEF UninstallSteps, LookToUninstall, CheckLifecycle, ValidateDaemon, RequestStop, WaitForExit,
         RecheckLifecycle, RemoveShortcuts, SweepEnds, Uninstall, Sweeping, At, Outside, files,
         LockInv, UninstallsSweep
<1>. SUFFICES Knows(c)'
  BY <1>0, <1>1, CommandKeeps
<1>2. operation'[c] = "uninstall" /\ \A d \in Commands : pc'["daemon"][d] = pc["daemon"][d]
  BY <1>0, <1>1 DEF Steps, Kinds
<1>3. (NoOwner => NoOwner') /\ (NoClaims => NoClaims') /\ \A d \in Commands : Claims(d)' => Claims(d)
  BY <1>1, <1>2 DEF NoOwner, NoClaims, Claims, Owns, SessionOf, Stored
<1>4. Knows(c)
  BY DEF OwnersKept
<1>5. Looked(c) /\ (~HasPid(seen["command"][c]) \/ ~Alive("daemon", seen["command"][c].nonce)) => NoClaims
  <2>1. \A d \in Commands : Claims(d) => Alive("daemon", d)
    BY DEF Claims, BeforeGate, Alive, At
  <2>2. Looked(c) => \A d \in Commands : Claims(d) =>
            HasPid(seen["command"][c]) /\ seen["command"][c].nonce = d
    BY <1>4 DEF Knows
  <2>. QED  BY <2>1, <2>2, Zenon DEF NoClaims
<1>6. pc'["command"][c] = "rechecking" /\ NoClaims => Knows(c)'
  BY <1>2, <1>3 DEF Knows, Looked, Judged, Quiet, Launched
<1>7. pc'["command"][c] \in {"releasing", "ended"} => Knows(c)'
  BY DEF Knows, Looked, Judged, Quiet, Launched
<1>8. /\ Looked(c) /\ pc'["command"][c] \in {"inspecting", "requesting", "waiting"}
      /\ seen'["command"][c] = seen["command"][c]
      => Knows(c)'
  BY <1>2, <1>3, <1>4 DEF Knows, Looked, Judged, Quiet, Launched, HasPid
<1>. USE DEF At, Goto, Becomes, Uninstall
<1>9. CASE LookToUninstall(c)
  <2>1. pc'["command"][c] = "checking" /\ seen'["command"][c] = Read(session)
    BY <1>9 DEF LookToUninstall, Note, TypeOK, Kinds
  <2>2. \A d \in Commands : Claims(d) => HasPid(Read(session)) /\ Read(session).nonce = d
    BY DEF Claims, SessionOf, HasPid, Read, Stored
  <2>. QED  BY <1>2, <1>3, <2>1, <2>2 DEF Knows, Looked, Judged, Quiet, Launched, HasPid
<1>10. CASE CheckLifecycle(c)
  <2>1. Looked(c) /\ seen'["command"][c] = seen["command"][c]
    BY <1>1, <1>10 DEF CheckLifecycle, Looked
  <2>2. CASE ~HasPid(seen["command"][c])
    <3>1. pc'["command"][c] \in {"releasing", "rechecking"}
      BY <1>10, <2>2 DEF CheckLifecycle, TypeOK, Kinds
    <3>. QED  BY <1>5, <1>6, <1>7, <2>1, <2>2, <3>1
  <2>3. CASE HasPid(seen["command"][c])
    <3>1. \/ pc'["command"][c] = "releasing"
          \/ \E running \in RunningAnswers("daemon", seen["command"][c].nonce) :
                pc'["command"][c] = IF running THEN "inspecting" ELSE "rechecking"
      BY <1>10, <2>3 DEF CheckLifecycle, TypeOK, Kinds
    <3>2. CASE pc'["command"][c] = "releasing"
      BY <1>7, <3>2
    <3>3. ASSUME NEW running \in RunningAnswers("daemon", seen["command"][c].nonce),
                 pc'["command"][c] = IF running THEN "inspecting" ELSE "rechecking"
          PROVE  Knows(c)'
      <4>1. CASE running
        BY <1>8, <2>1, <3>3, <4>1
      <4>2. CASE ~running
        <5>1. ~Alive("daemon", seen["command"][c].nonce)
          BY <4>2 DEF RunningAnswers
        <5>. QED  BY <1>5, <1>6, <2>1, <3>3, <4>2, <5>1
      <4>. QED  BY <4>1, <4>2
    <3>. QED  BY <3>1, <3>2, <3>3
  <2>. QED  BY <2>2, <2>3
<1>11. CASE ValidateDaemon(c) \/ RequestStop(c)
  <2>1. /\ Looked(c) /\ seen'["command"][c] = seen["command"][c]
        /\ pc'["command"][c] \in {"requesting", "waiting", "releasing"}
    BY <1>1, <1>11 DEF ValidateDaemon, RequestStop, Looked, TypeOK, Kinds
  <2>. QED  BY <1>7, <1>8, <2>1
<1>12. CASE WaitForExit(c)
  <2>1. /\ Looked(c)
        /\ \/ ~Alive("daemon", seen["command"][c].nonce) /\ pc'["command"][c] = "rechecking"
           \/ pc'["command"][c] = "releasing"
    BY <1>1, <1>12 DEF WaitForExit, Looked, TypeOK, Kinds
  <2>. QED  BY <1>5, <1>6, <1>7, <2>1
<1>13. CASE RecheckLifecycle(c)
  <2>1. Judged(c) /\ NoClaims
    BY <1>4, <1>13 DEF RecheckLifecycle, Knows, Judged
  <2>2. PICK active \in LifecycleAnswers : pc'["command"][c] = IF active THEN "releasing" ELSE "helping"
    BY <1>13 DEF RecheckLifecycle, TypeOK, Kinds
  <2>3. CASE active
    BY <1>7, <2>2, <2>3
  <2>4. CASE ~active
    <3>1. ASSUME NEW d \in Commands, Owns(d) PROVE FALSE
      <4>1. lock["daemon"] # None /\ lock["daemon"].by = d /\ lock["daemon"].written
            /\ Alive("daemon", d)
        BY <3>1, OwnerHolds
      <4>2. LifecycleAnswers = {TRUE}
        BY <4>1 DEF LifecycleAnswers, RunningAnswers
      <4>. QED  BY <2>4, <4>2
    <3>2. pc'["command"][c] = "helping" /\ NoOwner
      BY <2>2, <2>4, <3>1 DEF NoOwner
    <3>. QED  BY <1>3, <2>1, <3>2 DEF Knows, Looked, Judged, Quiet, Launched
  <2>. QED  BY <2>3, <2>4
<1>14. CASE RemoveShortcuts(c)
  <2>1. pc["command"][c] = "helping" /\ pc'["command"][c] \in {"sweeping", "releasing"}
    BY <1>14 DEF RemoveShortcuts, TypeOK, Kinds
  <2>. QED  BY <1>3, <1>4, <2>1 DEF Knows, Looked, Judged, Quiet, Launched
<1>15. CASE SweepEnds(c)
  <2>1. pc'["command"][c] \in {"releasing", "ended"}
    BY <1>15 DEF SweepEnds, TypeOK, Kinds
  <2>. QED  BY <1>7, <2>1
<1>. QED  BY <1>9, <1>10, <1>11, <1>12, <1>13, <1>14, <1>15 DEF UninstallSteps

LEMMA SweepKnows ==
    ASSUME TypeOK, LockInv, WrittenInv, OwnersKept, NEW c \in Commands, Sweep(c)
    PROVE  OwnersKept'
<1>1. UNCHANGED <<operation, pc, seen>> /\ session' \in {session, None}
  <2>1. CASE SweepFile(c)
    BY <2>1 DEF SweepFile, Otherwise
  <2>2. ASSUME NEW k \in Kinds, SweepLock(c, k)
        PROVE  UNCHANGED <<operation, pc, seen>> /\ session' \in {session, None}
    BY <2>2 DEF SweepLock, files
  <2>. QED  BY <2>1, <2>2 DEF Sweep
<1>2. NoOwner
  BY DEF Sweep, Sweeping, At, OwnersKept, Knows, Quiet
<1>3. ASSUME NEW d \in Commands PROVE Recorded(d)'
  BY <1>1, <1>2 DEF OwnersKept, Recorded, NoOwner, Owns
<1>4. Adds
  BY <1>1 DEF Adds, Claims, Owns, SessionOf, Stored, NoPid
<1>. QED  BY <1>3, <1>4, AddsKeeps DEF OwnersKept

LEMMA UpdateKnows ==
    ASSUME TypeOK, LockInv, WrittenInv, OwnersKept, ~raced, NEW c \in Commands,
           NEW status \in Status, ReadToUpdate(c, status), Steps("daemon", c), Otherwise,
           pc["daemon"][c] \in {"beginning", "running"}
    PROVE  OwnersKept'
<1>1. Owns(c) /\ SessionOf(c) /\ session.pid
  BY DEF OwnersKept, Recorded, Owns, Owning
<1>2. /\ session' = session /\ pc'["daemon"][c] = "updating"
      /\ seen'["daemon"][c] = [session EXCEPT !.status = status]
  BY <1>1 DEF ReadToUpdate, Note, Turns, Goto, TypeOK, Kinds, files
<1>3. seen'["daemon"][c].nonce = c /\ seen'["daemon"][c].pid
  BY <1>1, <1>2, SessionTypes DEF SessionOf, Session
<1>4. Recorded(c)'
  BY <1>1, <1>2, <1>3 DEF Recorded, SessionOf, Stored
<1>. QED  BY <1>1, <1>2, <1>4, DaemonKeeps DEF BeforeGate

LEMMA DaemonKnows ==
    ASSUME TypeOK, SeenInv, LockInv, WrittenInv, OwnersKept, ~raced, NEW c \in Commands,
           DaemonSteps(c)
    PROVE  OwnersKept'
<1>0. Steps("daemon", c) /\ Otherwise
  BY DaemonTypes
<1>. USE DEF At, Goto, Turns
<1>1. CASE ReadInitial(c) \/ LeaveGate(c) \/ ForgetStopRequest(c)
  <2>1. /\ session' = session
        /\ \/ pc["daemon"][c] = "spawned" /\ pc'["daemon"][c] \in {"locking", "ended"}
           \/ pc["daemon"][c] \in {"gate", "forgetting"} /\ pc'["daemon"][c] = "releasing"
    BY <1>1 DEF ReadInitial, LeaveGate, ForgetStopRequest, TypeOK, Kinds, files
  <2>2. Recorded(c)'
    BY <2>1 DEF Recorded, Owns, Owning, WritingSession
  <2>. QED  BY <1>0, <2>1, <2>2, DaemonKeeps DEF BeforeGate, Owns, Owning
<1>2. CASE PassGate(c)
  <2>1. /\ session' = session /\ SessionOf(c) /\ session.pid
        /\ pc["daemon"][c] = "gate" /\ pc'["daemon"][c] = "beginning"
    BY <1>2 DEF PassGate, Identified, TypeOK, Kinds, files
  <2>2. Recorded(c)'
    BY <2>1 DEF Recorded, SessionOf, Stored, WritingSession
  <2>3. Claims(c)
    BY <2>1 DEF Claims, BeforeGate
  <2>. QED  BY <1>0, <2>1, <2>2, <2>3, DaemonKeeps DEF BeforeGate
<1>3. CASE Updates(c) \/ Fails(c) \/ Interrupted(c)
  <2>1. pc["daemon"][c] \in {"beginning", "running"}
        /\ \E status \in Status : ReadToUpdate(c, status)
    BY <1>3 DEF Updates, Fails, Interrupted, Status
  <2>. QED  BY <1>0, <2>1, UpdateKnows
<1>4. CASE NoticesStop(c)
  <2>1. CASE ReadToUpdate(c, "stopping")
    BY <1>0, <1>4, <2>1, UpdateKnows DEF NoticesStop, Status
  <2>2. CASE ~ReadToUpdate(c, "stopping")
    <3>1. session' = session /\ pc["daemon"][c] = "beginning" /\ pc'["daemon"][c] = "removing"
      BY <1>4, <2>2 DEF NoticesStop, TypeOK, Kinds, files
    <3>2. Recorded(c)'
      BY <3>1 DEF OwnersKept, Recorded, Owns, Owning, SessionOf, Stored, WritingSession
    <3>. QED  BY <1>0, <3>1, <3>2, DaemonKeeps DEF BeforeGate, Owns, Owning
  <2>. QED  BY <2>1, <2>2
<1>5. CASE WriteUpdate(c)
  <2>1. pc["daemon"][c] = "updating" /\ session' = seen["daemon"][c]
    BY <1>5 DEF WriteUpdate
  <2>2. seen["daemon"][c] \in Session /\ seen["daemon"][c].nonce = c /\ seen["daemon"][c].pid
    BY <2>1 DEF OwnersKept, Recorded, SeenInv, Fits, Kinds
  <2>3. seen["daemon"][c].status \in Status
    BY <2>2 DEF Session
  <2>4. pc'["daemon"][c] \in {"beginning", "running", "removing", "releasing"}
    BY <1>5, <2>3, AfterUpdatePlaces DEF WriteUpdate, TypeOK, Kinds
  <2>5. session' \notin {None, Missing}
    BY <2>1, <2>2, RecordsAssumption
  <2>6. Recorded(c)'
    BY <2>1, <2>2, <2>4, <2>5 DEF Recorded, SessionOf, Stored, WritingSession
  <2>. QED  BY <1>0, <2>1, <2>2, <2>4, <2>6, DaemonKeeps DEF BeforeGate, Owns, Owning
<1>6. CASE ReadToRemove(c)
  <2>1. pc["daemon"][c] = "removing" /\ session' = session
    BY <1>6 DEF ReadToRemove, files
  <2>2. SessionOf(c) /\ session.pid
    BY <2>1 DEF OwnersKept, Recorded, Owns, Owning
  <2>3. pc'["daemon"][c] = "unlinking"
    BY <1>6, <2>2 DEF ReadToRemove, SessionOf, TypeOK, Kinds
  <2>4. Recorded(c)'
    BY <2>1, <2>2, <2>3 DEF Recorded, SessionOf, Stored, WritingSession
  <2>. QED  BY <1>0, <2>1, <2>3, <2>4, DaemonKeeps DEF BeforeGate, Owns, Owning
<1>7. CASE UnlinkSession(c)
  <2>1. pc["daemon"][c] = "unlinking" /\ session' = None /\ pc'["daemon"][c] = "forgetting"
    BY <1>7 DEF UnlinkSession, TypeOK, Kinds
  <2>2. Recorded(c)'
    BY <2>1 DEF Recorded, WritingSession
  <2>. QED  BY <1>0, <2>1, <2>2, DaemonKeeps DEF BeforeGate, Owns, Owning
<1>. QED  BY <1>1, <1>2, <1>3, <1>4, <1>5, <1>6, <1>7 DEF DaemonSteps

LEMMA InitOwners == Init => WrittenInv /\ OwnerInv
<1>. SUFFICES ASSUME Init PROVE WrittenInv /\ OwnersKept
  BY DEF OwnerInv
<1>1. \A k \in Kinds, c \in Commands : pc[k][c] = "idle"
  BY DEF Init
<1>2. \A c \in Commands : pc["command"][c] = "idle" /\ pc["daemon"][c] = "idle"
  <2>1. "command" \in Kinds /\ "daemon" \in Kinds
    BY DEF Kinds
  <2>. QED  BY <1>1, <2>1
<1>3. \A k \in Kinds : lock[k] # None => lock[k].by = Old
  BY DEF Init
<1>4. WrittenInv
  BY <1>3, NamesAssumption DEF WrittenInv
<1>5. OwnersKept
  <2>1. ASSUME NEW c \in Commands PROVE Knows(c)
    BY <1>2 DEF Knows, Looked, Judged, Quiet, Launched
  <2>2. ASSUME NEW c \in Commands PROVE Recorded(c)
    BY <1>2 DEF Recorded, Owns, Owning, WritingSession
  <2>. QED  BY <2>1, <2>2, Zenon DEF OwnersKept
<1>. QED  BY <1>4, <1>5

LEMMA NextOwners ==
    TypeOK /\ SeenInv /\ LockInv /\ WrittenInv /\ OwnerInv /\ [Next]_vars => (WrittenInv /\ OwnerInv)'
<1>. SUFFICES ASSUME TypeOK, SeenInv, LockInv, WrittenInv, OwnerInv, [Next]_vars
              PROVE  WrittenInv' /\ OwnerInv'
  OBVIOUS
<1>1. ASSUME NEW k \in Kinds, NEW c \in Commands, LockSteps(k, c)
      PROVE  WrittenInv' /\ OwnerInv'
  <2>1. raced => raced'
    <3>1. CASE OpenLock(k, c) \/ ReopenLock(k, c)
      <4>1. Creates(k, c) => (raced => raced')
        BY DEF Creates, RacedIf
      <4>. QED  BY <3>1, <4>1 DEF OpenLock, ReopenLock
    <3>2. CASE JudgeLock(k, c) \/ WriteLock(k, c)
      BY <3>2 DEF JudgeLock, WriteLock
    <3>3. CASE BreakLock(k, c) \/ ReleaseLock(k, c)
      BY <3>3 DEF BreakLock, ReleaseLock, RacedIf
    <3>. QED  BY <1>1, <3>1, <3>2, <3>3 DEF LockSteps
  <2>. QED  BY <1>1, <2>1, LockStepWritten, LockStepKnows DEF OwnerInv
<1>2. ASSUME NEW k \in Kinds, NEW c \in Commands, RemoveToReplace(k, c)
      PROVE  WrittenInv' /\ OwnerInv'
  BY <1>2, ReplaceKnows DEF RemoveToReplace, Otherwise, OwnerInv, WrittenInv
<1>3. ASSUME NEW k \in Kinds, NEW c \in Commands, Crash(k, c)
      PROVE  WrittenInv' /\ OwnerInv'
  <2>1. /\ UNCHANGED <<lock, raced>>
        /\ \A j \in Kinds, d \in Commands : pc'[j][d] \in {pc[j][d], "ended"}
    BY <1>3 DEF Crash, Goto, TypeOK
  <2>. QED  BY <1>3, <2>1, CrashKnows DEF OwnerInv, WrittenInv
<1>4. ASSUME NEW c \in Commands, StartSteps(c)
      PROVE  WrittenInv' /\ OwnerInv'
  <2>1. CASE Spawn(c)
    <3>1. raced' = raced
      BY <2>1 DEF Spawn, Otherwise
    <3>. QED  BY <2>1, <3>1, SpawnWritten, SpawnKnows DEF OwnerInv
  <2>2. CASE ~Spawn(c)
    <3>1. Steps("command", c) /\ Otherwise
      BY <1>4, <2>2, StartTypes
    <3>2. pc["command"][c] \notin {"writing", "ended"}
      BY <1>4, <2>2 DEF StartSteps, SelectRuntime, LookForSession, InspectRecorded, CheckDaemonLock,
         WritePending, Launch, WriteSession, RemoveStopRequest, IdentifyDaemon, ReadToAdopt,
         WriteAdopted, ReadToPreserve, WriteError, Start, At
    <3>3. WrittenInv'
      BY <3>1, <3>2, WrittenStays DEF Otherwise, Kinds
    <3>. QED  BY <1>4, <2>2, <3>1, <3>3, StartKnows DEF OwnerInv, Otherwise
  <2>. QED  BY <2>1, <2>2
<1>5. ASSUME NEW c \in Commands, DaemonSteps(c)
      PROVE  WrittenInv' /\ OwnerInv'
  <2>1. Steps("daemon", c) /\ Otherwise
    BY <1>5, DaemonTypes
  <2>2. pc["daemon"][c] \notin {"writing", "ended"}
    BY <1>5 DEF DaemonSteps, ReadInitial, PassGate, LeaveGate, Updates, WriteUpdate, Fails,
                Interrupted, NoticesStop, ReadToRemove, UnlinkSession, ForgetStopRequest, At
  <2>3. WrittenInv'
    BY <2>1, <2>2, WrittenStays DEF Otherwise, Kinds
  <2>. QED  BY <1>5, <2>1, <2>3, DaemonKnows DEF OwnerInv, Otherwise
<1>6. ASSUME NEW c \in Commands, UninstallSteps(c)
      PROVE  WrittenInv' /\ OwnerInv'
  <2>1. CASE Sweep(c)
    <3>1. raced => raced'
      <4>1. CASE SweepFile(c)
        BY <4>1 DEF SweepFile, Otherwise
      <4>2. ASSUME NEW k \in Kinds, SweepLock(c, k) PROVE raced => raced'
        BY <4>2 DEF SweepLock, RacedIf
      <4>. QED  BY <2>1, <4>1, <4>2 DEF Sweep
    <3>. QED  BY <2>1, <3>1, SweepWritten, SweepKnows DEF OwnerInv
  <2>2. CASE ~Sweep(c)
    <3>1. Steps("command", c) /\ Otherwise
      BY <1>6, <2>2, UninstallTypes
    <3>2. pc["command"][c] \notin {"writing", "ended"}
      BY <1>6, <2>2 DEF UninstallSteps, LookToUninstall, CheckLifecycle, ValidateDaemon, RequestStop,
         WaitForExit, RecheckLifecycle, RemoveShortcuts, SweepEnds, Uninstall, Sweeping, At
    <3>3. WrittenInv'
      BY <3>1, <3>2, WrittenStays DEF Otherwise, Kinds
    <3>. QED  BY <1>6, <2>2, <3>1, <3>3, UninstallKnows DEF OwnerInv, Otherwise
  <2>. QED  BY <2>1, <2>2
<1>7. ASSUME NEW c \in Commands, InstallSteps(c)
      PROVE  WrittenInv' /\ OwnerInv'
  <2>1. Steps("command", c) /\ Otherwise
    BY <1>7, InstallTypes
  <2>2. pc["command"][c] \notin {"writing", "ended"}
    BY <1>7 DEF InstallSteps, Stage, RememberPrevious, Switch, CreateShortcuts, RestorePrevious,
                DiscardEngine, Install, At
  <2>3. WrittenInv'
    BY <2>1, <2>2, WrittenStays DEF Otherwise, Kinds
  <2>. QED  BY <1>7, <2>1, <2>3, InstallKnows DEF OwnerInv, Otherwise
<1>8. CASE UNCHANGED vars
  <2>1. UNCHANGED <<operation, pc, seen, lock, session, raced>>
    BY <1>8 DEF vars, files
  <2>2. CASE raced
    BY <2>1, <2>2 DEF OwnerInv, WrittenInv
  <2>3. CASE OwnersKept
    <3>1. Adds
      BY <2>1 DEF Adds, Claims, Owns, SessionOf, Stored, NoPid
    <3>2. ASSUME NEW d \in Commands PROVE Recorded(d)'
      BY <2>1, <2>3 DEF OwnersKept, Recorded, Owns, SessionOf, Stored
    <3>3. OwnersKept'
      BY <2>3, <3>1, <3>2, AddsKeeps DEF OwnersKept
    <3>. QED  BY <2>1, <3>3 DEF OwnerInv, WrittenInv
  <2>. QED  BY <2>2, <2>3 DEF OwnerInv
<1>. QED  BY <1>1, <1>2, <1>3, <1>4, <1>5, <1>6, <1>7, <1>8 DEF Next

(* What every command knows of the daemons at each of its places, and each *)
(* daemon of the record, holds in every state: the argument behind the two *)
(* theorems below.                                                         *)
THEOREM Ownership == Spec => [](WrittenInv /\ OwnerInv)
BY InitTypes, NextTypes, InitLocks, NextLocks, InitOwners, NextOwners, PTL DEF Spec

(* daemonCommand (daemon.mjs:28): from its gate until it removes it, the   *)
(* record is that of the daemon that owns the session, whatever commands   *)
(* run or die beside it.                                                   *)
THEOREM OwnerIsRecordedHolds == Spec => []OwnerIsRecorded
<1>1. OwnerInv => OwnerIsRecorded
  <2>. SUFFICES ASSUME OwnersKept, NEW c \in Commands, Owns(c)
                PROVE  \/ SessionOf(c) /\ session.pid
                       \/ session = Missing /\ At("daemon", c, "updating")
                       \/ At("daemon", c, "forgetting")
    BY Zenon DEF OwnerInv, OwnerIsRecorded
  <2>1. Recorded(c)
    BY DEF OwnersKept
  <2>. QED  BY <2>1 DEF Recorded, At
<1>. QED  BY <1>1, Ownership, PTL

(* uninstallCommand: while it removes the root no daemon owns the session, *)
(* and none passes its gate.                                               *)
THEOREM UninstallsIdleHolds == Spec => []UninstallsIdle
<1>1. OwnerInv => UninstallsIdle
  BY DEF OwnerInv, OwnersKept, Knows, Quiet, NoOwner, UninstallsIdle, Sweeping, At
<1>. QED  BY <1>1, Ownership, PTL

-----------------------------------------------------------------------------
(* The port.                                                               *)

PortIs(record) == record # None => activated \in {None, record.port}

Ported == {"inspecting", "checking", "pending", "launching", "recording", "adopting", "failing"}

(* What a process has read or made, and may yet write, has the port too.   *)
CommandPort(c) ==
    /\ pc["command"][c] \in Ported => PortIs(seen["command"][c])
    /\ pc["command"][c] = "launching" => session = seen["command"][c]

DaemonPort(d) == pc["daemon"][d] = "updating" => PortIs(seen["daemon"][d])

RecordPort ==
    /\ activated # None => session = Missing \/ Stored(session)
    /\ Stored(session) => PortIs(session)

PortsKept == RecordPort /\ \A c \in Commands : CommandPort(c) /\ DaemonPort(c)

PortInv == raced \/ PortsKept

LEMMA CommandKeepsPort ==
    ASSUME TypeOK, LockInv, PortsKept, ~raced, NEW c \in Commands,
           pc["command"][c] \notin Outside, Steps("command", c),
           activated' \in {activated, None} \/ NoOwner, RecordPort', CommandPort(c)'
    PROVE  PortsKept'
<1>1. \A d \in Commands : pc'["daemon"][d] = pc["daemon"][d] /\ seen'["daemon"][d] = seen["daemon"][d]
  BY DEF Steps, Kinds
<1>2. ASSUME NEW d \in Commands PROVE DaemonPort(d)'
  BY <1>1, <1>2 DEF PortsKept, DaemonPort, PortIs, NoOwner, Owns, Owning
<1>3. ASSUME NEW d \in Commands, d # c PROVE CommandPort(d)'
  <2>1. pc'["command"][d] \in Outside
    BY <1>3 DEF LockInv, OneAtATime, Holds, Steps, Kinds
  <2>. QED  BY <2>1 DEF CommandPort, Ported, Outside
<1>. QED  BY <1>2, <1>3 DEF PortsKept

LEMMA DaemonKeepsPort ==
    ASSUME TypeOK, OwnersKept, PortsKept, NEW d \in Commands, Steps("daemon", d),
           activated' \in {activated, None}, session' = session \/ Owns(d),
           RecordPort', DaemonPort(d)'
    PROVE  PortsKept'
<1>1. /\ \A c \in Commands : pc'["command"][c] = pc["command"][c]
                           /\ seen'["command"][c] = seen["command"][c]
      /\ \A e \in Commands : e # d => pc'["daemon"][e] = pc["daemon"][e]
                                   /\ seen'["daemon"][e] = seen["daemon"][e]
  BY DEF Steps, Kinds
<1>2. ASSUME NEW e \in Commands, e # d PROVE DaemonPort(e)'
  BY <1>1, <1>2 DEF PortsKept, DaemonPort, PortIs
<1>3. ASSUME NEW c \in Commands PROVE CommandPort(c)'
  <2>1. pc["command"][c] = "launching" => session' = session
    BY DEF OwnersKept, Knows, Launched, NoOwner
  <2>. QED  BY <1>1, <2>1 DEF PortsKept, CommandPort, PortIs
<1>. QED  BY <1>2, <1>3 DEF PortsKept

(* A step that leaves the record and the port alone.                       *)
LEMMA SparesPort ==
    ASSUME PortsKept, UNCHANGED <<session, activated>>,
           \A c \in Commands :
               /\ pc'["command"][c] \in Ported =>
                    pc'["command"][c] = pc["command"][c] /\ seen'["command"][c] = seen["command"][c]
               /\ pc'["daemon"][c] = "updating" =>
                    pc["daemon"][c] = "updating" /\ seen'["daemon"][c] = seen["daemon"][c]
    PROVE  PortsKept'
<1>1. RecordPort'
  BY DEF PortsKept, RecordPort, PortIs, Stored
<1>2. ASSUME NEW c \in Commands PROVE CommandPort(c)' /\ DaemonPort(c)'
  BY DEF PortsKept, CommandPort, DaemonPort, PortIs, Ported
<1>. QED  BY <1>1, <1>2 DEF PortsKept

LEMMA LockStepPort ==
    ASSUME TypeOK, SeenInv, PortsKept, NEW k \in Kinds, NEW c \in Commands, LockSteps(k, c)
    PROVE  PortsKept'
<1>0. Steps(k, c)
  BY LockStepTypes DEF LockTypes
<1>1. UNCHANGED <<session, activated>>
  BY DEF LockSteps, OpenLock, JudgeLock, BreakLock, ReopenLock, WriteLock, ReleaseLock, files
<1>2. pc'[k][c] \notin Ported \cup {"updating"}
  <2>1. CASE WriteLock(k, c)
    <3>1. First(k, c) \in {"gate", "selecting", "staging", "looking"}
      BY DEF First, TypeOK
    <3>. QED  BY <2>1, <3>1 DEF WriteLock, At, Goto, TypeOK, Ported
  <2>2. CASE OpenLock(k, c) \/ JudgeLock(k, c) \/ BreakLock(k, c)
    BY <2>2 DEF OpenLock, Creates, JudgeLock, BreakLock, At, Goto, TypeOK, Ported
  <2>3. CASE ReopenLock(k, c) \/ ReleaseLock(k, c)
    BY <2>3 DEF ReopenLock, Creates, ReleaseLock, At, Goto, TypeOK, Ported
  <2>. QED  BY <2>1, <2>2, <2>3 DEF LockSteps
<1>. QED  BY <1>0, <1>1, <1>2, SparesPort DEF Steps, Kinds

LEMMA CrashPort ==
    ASSUME TypeOK, PortsKept, NEW k \in Kinds, NEW c \in Commands, Crash(k, c)
    PROVE  PortsKept'
<1>1. /\ UNCHANGED <<session, activated, seen>>
      /\ \A j \in Kinds, d \in Commands : pc'[j][d] \in {pc[j][d], "ended"}
  BY DEF Crash, Goto, TypeOK, files
<1>. QED  BY <1>1, SparesPort DEF Ported, Kinds

LEMMA ReplacePort ==
    ASSUME TypeOK, LockInv, OwnersKept, PortsKept, ~raced, NEW k \in Kinds, NEW c \in Commands,
           RemoveToReplace(k, c)
    PROVE  PortsKept'
<1>1. UNCHANGED <<pc, seen, activated>> /\ session' \in {session, Missing}
  BY DEF RemoveToReplace
<1>2. CASE session' = session
  BY <1>1, <1>2, SparesPort
<1>3. CASE session' = Missing /\ session' # session
  <2>1. pc[k][c] \in WritingSession
    BY <1>3 DEF RemoveToReplace
  <2>2. \A d \in Commands : pc["command"][d] # "launching"
    <3>1. CASE k = "command"
      BY <2>1, <3>1 DEF LockInv, OneAtATime, Holds, Outside, WritingSession, Kinds
    <3>2. CASE k = "daemon"
      <4>1. Owns(c)
        BY <2>1, <3>2 DEF OwnersKept, Recorded, Owns, Owning
      <4>. QED  BY <4>1 DEF OwnersKept, Knows, Launched, NoOwner
    <3>3. k \in {"command", "daemon"}
      BY DEF Kinds
    <3>. QED  BY <3>1, <3>2, <3>3, Zenon
  <2>3. ASSUME NEW d \in Commands PROVE CommandPort(d)' /\ DaemonPort(d)'
    BY <1>1, <2>2 DEF PortsKept, CommandPort, DaemonPort, PortIs
  <2>. QED  BY <1>3, <2>3 DEF PortsKept, RecordPort, Stored
<1>. QED  BY <1>1, <1>2, <1>3

LEMMA SweepPort ==
    ASSUME TypeOK, LockInv, OwnersKept, PortsKept, ~raced, NEW c \in Commands, Sweep(c)
    PROVE  PortsKept'
<1>1. UNCHANGED <<pc, seen>>
  BY DEF Sweep, SweepFile, SweepLock
<1>2. UNCHANGED <<session, activated>> \/ (session' = None /\ activated' = None)
  BY DEF Sweep, SweepFile, SweepLock, files
<1>3. CASE UNCHANGED <<session, activated>>
  BY <1>1, <1>3, SparesPort
<1>4. CASE session' = None /\ activated' = None
  <2>1. \A d \in Commands : pc["command"][d] # "launching"
    BY DEF Sweep, Sweeping, At, LockInv, OneAtATime, Holds, Outside, Kinds
  <2>2. ASSUME NEW d \in Commands PROVE CommandPort(d)' /\ DaemonPort(d)'
    BY <1>1, <1>4, <2>1 DEF CommandPort, DaemonPort, PortIs
  <2>. QED  BY <1>4, <2>2 DEF PortsKept, RecordPort, Stored
<1>. QED  BY <1>2, <1>3, <1>4

(* The records a process may write are records, and keep the port.         *)
LEMMA RecordsKeepPort ==
    ASSUME NEW record \in Session
    PROVE  /\ record \notin {None, Missing}
           /\ [record EXCEPT !.pid = TRUE] \in Session
           /\ [record EXCEPT !.pid = TRUE].port = record.port
           /\ \A status \in Status :
                /\ [record EXCEPT !.status = status] \in Session
                /\ [record EXCEPT !.status = status].port = record.port
BY RecordsAssumption DEF Session

LEMMA StartPort ==
    ASSUME TypeOK, SeenInv, LockInv, OwnersKept, PortsKept, ~raced, NEW c \in Commands,
           StartSteps(c), ~Spawn(c)
    PROVE  PortsKept'
<1>0. Steps("command", c)
  BY StartTypes
<1>1. pc["command"][c] \notin Outside
  BY DEF StartSteps, SelectRuntime, LookForSession, InspectRecorded, CheckDaemonLock,
         WritePending, Launch, WriteSession, RemoveStopRequest, IdentifyDaemon, ReadToAdopt,
         WriteAdopted, ReadToPreserve, WriteError, Start, At, Outside
<1>2. /\ CommandPort(c) /\ Knows(c) /\ RecordPort /\ Fits("command", pc["command"][c], seen["command"][c])
  BY DEF PortsKept, OwnersKept, SeenInv, Kinds
<1>. USE DEF At, Goto, Becomes, Start
<1>3. CASE SelectRuntime(c) \/ InspectRecorded(c) \/ CheckDaemonLock(c) \/ RemoveStopRequest(c)
             \/ IdentifyDaemon(c)
  <2>1. /\ UNCHANGED <<session, activated, seen>>
        /\ pc'["command"][c] \in Ported => pc["command"][c] \in Ported
        /\ pc'["command"][c] # "launching"
    BY <1>3 DEF SelectRuntime, InspectRecorded, CheckDaemonLock, RemoveStopRequest,
                IdentifyDaemon, TypeOK, Kinds, Ported, files
  <2>2. RecordPort' /\ CommandPort(c)'
    BY <1>2, <2>1 DEF RecordPort, CommandPort, PortIs, Stored
  <2>. QED  BY <1>0, <1>1, <2>1, <2>2, CommandKeepsPort
<1>4. CASE LookForSession(c)
  <2>1. /\ UNCHANGED <<session, activated>>
        /\ seen'["command"][c] = Read(session) /\ pc'["command"][c] # "launching"
    BY <1>4 DEF LookForSession, Note, TypeOK, Kinds, files
  <2>2. RecordPort' /\ CommandPort(c)'
    BY <1>2, <2>1 DEF RecordPort, CommandPort, PortIs, Stored, Read
  <2>. QED  BY <1>0, <1>1, <2>1, <2>2, CommandKeepsPort
<1>5. CASE WritePending(c)
  <2>0. PICK given \in BOOLEAN :
            /\ session' = PendingRecord(c, given)
            /\ activated' = IF given \/ seen["command"][c] = None THEN None ELSE activated
            /\ Note("command", c, PendingRecord(c, given))
    BY <1>5 DEF WritePending
  <2>1. /\ pc["command"][c] = "pending"
        /\ session' = PendingRecord(c, given) /\ seen'["command"][c] = PendingRecord(c, given)
        /\ activated' = IF given \/ seen["command"][c] = None THEN None ELSE activated
    BY <1>5, <2>0 DEF WritePending, Note, TypeOK, Kinds
  <2>2. seen["command"][c] \in Session \cup {None} /\ PortIs(seen["command"][c])
    BY <1>2, <2>1 DEF Fits, CommandPort, Ported
  <2>3. PendingRecord(c, given) \in Session
    BY <2>2 DEF PendingRecord, Session, Status, Names
  <2>4. session' \in Session /\ activated' \in {None, session'.port}
    BY <2>1, <2>2, <2>3 DEF PendingRecord, PortIs
  <2>5. RecordPort'
    BY <2>4, RecordsKeepPort DEF RecordPort, PortIs, Stored
  <2>6. CommandPort(c)'
    BY <2>1, <2>4 DEF CommandPort, PortIs
  <2>. QED  BY <1>0, <1>1, <2>1, <2>5, <2>6, CommandKeepsPort
<1>6. CASE Launch(c)
  <2>1. /\ pc["command"][c] = "launching" /\ pc'["command"][c] \in {"recording", "preserving"}
        /\ UNCHANGED <<session, seen>>
        /\ activated' \in {activated, seen["command"][c].port}
    BY <1>6 DEF Launch, TypeOK, Kinds, files
  <2>2. /\ seen["command"][c] \in Session /\ PortIs(seen["command"][c])
        /\ session = seen["command"][c] /\ NoOwner
    BY <1>2, <2>1 DEF Fits, CommandPort, Ported, Knows, Launched
  <2>3. PortIs(seen["command"][c])'
    BY <2>1, <2>2 DEF PortIs
  <2>4. RecordPort' /\ CommandPort(c)'
    BY <2>1, <2>2, <2>3, RecordsKeepPort DEF RecordPort, CommandPort, PortIs, Stored
  <2>. QED  BY <1>0, <1>1, <2>2, <2>4, CommandKeepsPort
<1>7. CASE WriteSession(c)
  <2>1. /\ pc["command"][c] = "recording" /\ pc'["command"][c] = "clearing"
        /\ session' = [seen["command"][c] EXCEPT !.status = "starting"]
        /\ activated' = activated
    BY <1>7 DEF WriteSession, TypeOK, Kinds
  <2>2. seen["command"][c] \in Session /\ PortIs(seen["command"][c])
    BY <1>2, <2>1 DEF Fits, CommandPort, Ported
  <2>3. /\ [seen["command"][c] EXCEPT !.status = "starting"] \in Session
        /\ [seen["command"][c] EXCEPT !.status = "starting"].port = seen["command"][c].port
        /\ seen["command"][c] # None
    BY <2>2, RecordsKeepPort DEF Status
  <2>4. RecordPort' /\ CommandPort(c)'
    BY <2>1, <2>2, <2>3, RecordsKeepPort DEF RecordPort, CommandPort, PortIs, Ported, Stored
  <2>. QED  BY <1>0, <1>1, <2>1, <2>4, CommandKeepsPort
<1>8. CASE ReadToAdopt(c) \/ ReadToPreserve(c)
  <2>1. UNCHANGED <<session, activated>>
    BY <1>8 DEF ReadToAdopt, ReadToPreserve, files
  <2>2. \/ pc'["command"][c] \in {"preserving", "releasing"}
        \/ /\ Stored(session) /\ pc'["command"][c] \in {"adopting", "failing"}
           /\ seen'["command"][c] \in {[session EXCEPT !.pid = TRUE], [session EXCEPT !.status = "error"]}
    BY <1>8 DEF ReadToAdopt, ReadToPreserve, SessionOf, Note, TypeOK, Kinds
  <2>3. RecordPort'
    BY <1>2, <2>1 DEF RecordPort, PortIs, Stored
  <2>4. CASE pc'["command"][c] \in {"preserving", "releasing"}
    <3>1. CommandPort(c)'
      BY <2>4 DEF CommandPort, Ported
    <3>. QED  BY <1>0, <1>1, <2>1, <2>3, <3>1, CommandKeepsPort
  <2>5. CASE Stored(session)
    <3>1. session \in Session /\ PortIs(session) /\ session # None
      BY <1>2, <2>5, SessionTypes DEF RecordPort, Stored
    <3>2. /\ [session EXCEPT !.pid = TRUE].port = session.port
          /\ [session EXCEPT !.status = "error"].port = session.port
      BY <3>1, RecordsKeepPort DEF Status
    <3>3. CommandPort(c)'
      BY <2>1, <2>2, <3>1, <3>2 DEF CommandPort, PortIs, Ported
    <3>. QED  BY <1>0, <1>1, <2>1, <2>3, <3>3, CommandKeepsPort
  <2>. QED  BY <2>2, <2>4, <2>5
<1>9. CASE WriteAdopted(c) \/ WriteError(c)
  <2>1. /\ pc["command"][c] \in {"adopting", "failing"} /\ pc'["command"][c] = "releasing"
        /\ session' = seen["command"][c] /\ activated' = activated
    BY <1>9 DEF WriteAdopted, WriteError, TypeOK, Kinds
  <2>2. seen["command"][c] \in Session /\ PortIs(seen["command"][c])
    BY <1>2, <2>1 DEF Fits, CommandPort, Ported
  <2>3. RecordPort' /\ CommandPort(c)'
    BY <2>1, <2>2, RecordsKeepPort DEF RecordPort, CommandPort, PortIs, Ported, Stored
  <2>. QED  BY <1>0, <1>1, <2>1, <2>3, CommandKeepsPort
<1>. QED  BY <1>3, <1>4, <1>5, <1>6, <1>7, <1>8, <1>9 DEF StartSteps

LEMMA SpawnPort ==
    ASSUME TypeOK, PortsKept, NEW c \in Commands, Spawn(c)
    PROVE  PortsKept'
<1>1. /\ UNCHANGED <<session, activated, seen>>
      /\ pc'["command"][c] \in {"identifying", "preserving"}
      /\ pc'["daemon"][c] \in {pc["daemon"][c], "spawned"}
  BY DEF Spawn, Becomes, Goto, TypeOK, Kinds, files
<1>2. \A k \in Kinds, d \in Commands : d # c => pc'[k][d] = pc[k][d]
  BY DEF Spawn, Becomes, Goto, TypeOK, Kinds
<1>. QED  BY <1>1, <1>2, SparesPort DEF Ported, Kinds

LEMMA InstallPort ==
    ASSUME TypeOK, SeenInv, PortsKept, NEW c \in Commands, InstallSteps(c)
    PROVE  PortsKept'
<1>0. Steps("command", c)
  BY InstallTypes
<1>1. UNCHANGED <<session, activated>> /\ pc'["command"][c] \notin Ported
  BY DEF InstallSteps, Stage, RememberPrevious, Switch, CreateShortcuts, RestorePrevious,
         DiscardEngine, Install, Becomes, Goto, TypeOK, Kinds, Ported, files
<1>. QED  BY <1>0, <1>1, SparesPort DEF Steps, Kinds

LEMMA UninstallPort ==
    ASSUME TypeOK, SeenInv, LockInv, PortsKept, ~raced, NEW c \in Commands,
           UninstallSteps(c), ~Sweep(c)
    PROVE  PortsKept'
<1>0. Steps("command", c)
  BY UninstallTypes
<1>1. /\ UNCHANGED <<session, activated>> /\ pc["command"][c] \notin Outside
      /\ pc'["command"][c] # "launching"
      /\ pc'["command"][c] \in Ported =>
            \/ pc["command"][c] \in Ported /\ seen'["command"][c] = seen["command"][c]
            \/ seen'["command"][c] = Read(session)
  <2>1. CASE LookToUninstall(c)
    BY <2>1 DEF LookToUninstall, Uninstall, Becomes, Note, At, Goto, Outside, TypeOK, Kinds, files
  <2>2. CASE CheckLifecycle(c)
    BY <2>2 DEF CheckLifecycle, Uninstall, Becomes, At, Goto, Outside, TypeOK, Kinds, Ported, files
  <2>3. CASE ValidateDaemon(c) \/ RequestStop(c) \/ WaitForExit(c)
    BY <2>3 DEF ValidateDaemon, RequestStop, WaitForExit, Uninstall, Becomes, At, Goto, Outside,
                TypeOK, Kinds, Ported, files
  <2>4. CASE RecheckLifecycle(c) \/ RemoveShortcuts(c) \/ SweepEnds(c)
    BY <2>4 DEF RecheckLifecycle, RemoveShortcuts, SweepEnds, Uninstall, Sweeping, Becomes, At,
                Goto, Outside, TypeOK, Kinds, Ported, files
  <2>. QED  BY <2>1, <2>2, <2>3, <2>4 DEF UninstallSteps
<1>2. RecordPort' /\ CommandPort(c)'
  BY <1>1 DEF PortsKept, RecordPort, CommandPort, PortIs, Stored, Read
<1>. QED  BY <1>0, <1>1, <1>2, CommandKeepsPort

LEMMA UpdatePort ==
    ASSUME TypeOK, OwnersKept, PortsKept, NEW c \in Commands, NEW status \in Status,
           ReadToUpdate(c, status), Steps("daemon", c)
    PROVE  PortsKept'
<1>1. UNCHANGED <<session, activated>>
  BY DEF ReadToUpdate, files
<1>2. RecordPort'
  BY <1>1 DEF PortsKept, RecordPort, PortIs, Stored
<1>3. DaemonPort(c)'
  <2>1. CASE SessionOf(c)
    <3>1. session \in Session /\ PortIs(session) /\ session # None
      BY <2>1, SessionTypes DEF PortsKept, RecordPort, SessionOf, Stored
    <3>2. [session EXCEPT !.status = status].port = session.port
      BY <3>1, RecordsKeepPort
    <3>3. seen'["daemon"][c] = [session EXCEPT !.status = status]
      BY <2>1 DEF ReadToUpdate, Note, TypeOK, Kinds
    <3>. QED  BY <1>1, <3>1, <3>2, <3>3 DEF DaemonPort, PortIs
  <2>2. CASE ~SessionOf(c)
    <3>1. pc'["daemon"][c] \in {"beginning", "running", "removing", "releasing"}
      BY <2>2, AfterUpdatePlaces DEF ReadToUpdate, Turns, Goto, TypeOK, Kinds
    <3>. QED  BY <3>1 DEF DaemonPort
  <2>. QED  BY <2>1, <2>2
<1>. QED  BY <1>1, <1>2, <1>3, DaemonKeepsPort

LEMMA DaemonStepPort ==
    ASSUME TypeOK, SeenInv, OwnersKept, PortsKept, NEW c \in Commands, DaemonSteps(c)
    PROVE  PortsKept'
<1>0. Steps("daemon", c)
  BY DaemonTypes
<1>. USE DEF At, Goto, Turns
<1>1. CASE ReadInitial(c) \/ PassGate(c) \/ LeaveGate(c) \/ ReadToRemove(c) \/ ForgetStopRequest(c)
  <2>1. UNCHANGED <<session, activated>> /\ pc'["daemon"][c] # "updating"
    BY <1>1 DEF ReadInitial, PassGate, LeaveGate, ReadToRemove, ForgetStopRequest, TypeOK, Kinds, files
  <2>2. RecordPort' /\ DaemonPort(c)'
    BY <2>1 DEF PortsKept, RecordPort, DaemonPort, PortIs, Stored
  <2>. QED  BY <1>0, <2>1, <2>2, DaemonKeepsPort
<1>2. CASE Updates(c) \/ Fails(c) \/ Interrupted(c)
  <2>1. \E status \in Status : ReadToUpdate(c, status)
    BY <1>2 DEF Updates, Fails, Interrupted, Status
  <2>. QED  BY <1>0, <2>1, UpdatePort
<1>3. CASE NoticesStop(c)
  <2>1. CASE ReadToUpdate(c, "stopping")
    BY <1>0, <2>1, UpdatePort DEF Status
  <2>2. CASE ~ReadToUpdate(c, "stopping")
    <3>1. UNCHANGED <<session, activated>> /\ pc'["daemon"][c] # "updating"
      BY <1>3, <2>2 DEF NoticesStop, TypeOK, Kinds, files
    <3>2. RecordPort' /\ DaemonPort(c)'
      BY <3>1 DEF PortsKept, RecordPort, DaemonPort, PortIs, Stored
    <3>. QED  BY <1>0, <3>1, <3>2, DaemonKeepsPort
  <2>. QED  BY <2>1, <2>2
<1>4. CASE WriteUpdate(c)
  <2>1. pc["daemon"][c] = "updating" /\ session' = seen["daemon"][c] /\ activated' = activated
    BY <1>4 DEF WriteUpdate
  <2>2. seen["daemon"][c] \in Session /\ PortIs(seen["daemon"][c]) /\ Owns(c)
    BY <2>1 DEF SeenInv, Fits, PortsKept, DaemonPort, Owns, Owning, Kinds
  <2>3. seen["daemon"][c].status \in Status
    BY <2>2 DEF Session
  <2>4. pc'["daemon"][c] \in {"beginning", "running", "removing", "releasing"}
    BY <1>4, <2>3, AfterUpdatePlaces DEF WriteUpdate, TypeOK, Kinds
  <2>5. RecordPort' /\ DaemonPort(c)'
    BY <2>1, <2>2, <2>4, RecordsKeepPort DEF RecordPort, DaemonPort, PortIs, Stored
  <2>. QED  BY <1>0, <2>1, <2>2, <2>5, DaemonKeepsPort
<1>5. CASE UnlinkSession(c)
  <2>1. /\ pc["daemon"][c] = "unlinking" /\ pc'["daemon"][c] = "forgetting" /\ session' = None
        /\ activated' = IF SessionOf(c) THEN None ELSE activated
    BY <1>5 DEF UnlinkSession, TypeOK, Kinds
  <2>2. Owns(c) /\ SessionOf(c)
    BY <2>1 DEF OwnersKept, Recorded, Owns, Owning
  <2>3. RecordPort' /\ DaemonPort(c)'
    BY <2>1, <2>2 DEF RecordPort, DaemonPort, Stored
  <2>. QED  BY <1>0, <2>1, <2>2, <2>3, DaemonKeepsPort
<1>. QED  BY <1>1, <1>2, <1>3, <1>4, <1>5 DEF DaemonSteps

LEMMA InitPort == Init => PortInv
<1>. SUFFICES ASSUME Init PROVE PortsKept
  BY DEF PortInv
<1>1. activated = None
  BY DEF Init
<1>2. ASSUME NEW c \in Commands PROVE pc["command"][c] = "idle" /\ pc["daemon"][c] = "idle"
  BY DEF Init, Kinds
<1>. QED  BY <1>1, <1>2 DEF PortsKept, RecordPort, CommandPort, DaemonPort, PortIs, Ported

LEMMA RacedStays == [Next]_vars /\ raced => raced'
<1>. SUFFICES ASSUME [Next]_vars, raced PROVE raced'
  OBVIOUS
<1>1. ASSUME NEW k \in Kinds, NEW c \in Commands,
             LockSteps(k, c) \/ RemoveToReplace(k, c) \/ Crash(k, c)
      PROVE  raced'
  <2>1. CASE OpenLock(k, c) \/ ReopenLock(k, c)
    BY <2>1 DEF OpenLock, ReopenLock, Creates, RacedIf
  <2>2. CASE JudgeLock(k, c) \/ WriteLock(k, c)
    BY <2>2 DEF JudgeLock, WriteLock
  <2>3. CASE BreakLock(k, c) \/ ReleaseLock(k, c)
    BY <2>3 DEF BreakLock, ReleaseLock, RacedIf
  <2>4. CASE RemoveToReplace(k, c) \/ Crash(k, c)
    BY <2>4 DEF RemoveToReplace, Crash, Otherwise
  <2>. QED  BY <1>1, <2>1, <2>2, <2>3, <2>4 DEF LockSteps
<1>2. ASSUME NEW c \in Commands, StartSteps(c)
      PROVE  raced'
  BY <1>2 DEF StartSteps, SelectRuntime, LookForSession, InspectRecorded, CheckDaemonLock,
         WritePending, Launch, WriteSession, RemoveStopRequest, Spawn, IdentifyDaemon, ReadToAdopt,
         WriteAdopted, ReadToPreserve, WriteError, Otherwise
<1>3. ASSUME NEW c \in Commands, DaemonSteps(c)
      PROVE  raced'
  BY <1>3 DEF DaemonSteps, ReadInitial, PassGate, LeaveGate, Updates, ReadToUpdate, WriteUpdate,
         Fails, Interrupted, NoticesStop, ReadToRemove, UnlinkSession, ForgetStopRequest, Otherwise
<1>4. ASSUME NEW c \in Commands, UninstallSteps(c)
      PROVE  raced'
  <2>1. CASE Sweep(c)
    BY <2>1 DEF Sweep, SweepFile, SweepLock, RacedIf, Otherwise
  <2>. QED  BY <1>4, <2>1
            DEF UninstallSteps, LookToUninstall, CheckLifecycle, ValidateDaemon, RequestStop,
                WaitForExit, RecheckLifecycle, RemoveShortcuts, SweepEnds, Otherwise
<1>5. ASSUME NEW c \in Commands, InstallSteps(c)
      PROVE  raced'
  BY <1>5 DEF InstallSteps, Stage, RememberPrevious, Switch, CreateShortcuts, RestorePrevious,
              DiscardEngine, Otherwise
<1>. QED  BY <1>1, <1>2, <1>3, <1>4, <1>5 DEF Next, vars

LEMMA NextPort ==
    TypeOK /\ SeenInv /\ LockInv /\ OwnerInv /\ PortInv /\ [Next]_vars => PortInv'
<1>. SUFFICES ASSUME TypeOK, SeenInv, LockInv, OwnerInv, PortInv, [Next]_vars
              PROVE  PortInv'
  OBVIOUS
<1>0. CASE raced
  BY <1>0, RacedStays DEF PortInv
<1>1. CASE ~raced
  <2>0. OwnersKept /\ PortsKept
    BY <1>1 DEF OwnerInv, PortInv
  <2>. SUFFICES PortsKept'
    BY DEF PortInv
  <2>1. ASSUME NEW k \in Kinds, NEW c \in Commands,
               LockSteps(k, c) \/ RemoveToReplace(k, c) \/ Crash(k, c)
        PROVE  PortsKept'
    BY <1>1, <2>0, <2>1, LockStepPort, ReplacePort, CrashPort
  <2>2. ASSUME NEW c \in Commands, StartSteps(c)
        PROVE  PortsKept'
    BY <1>1, <2>0, <2>2, StartPort, SpawnPort
  <2>3. ASSUME NEW c \in Commands, DaemonSteps(c)
        PROVE  PortsKept'
    BY <2>0, <2>3, DaemonStepPort
  <2>4. ASSUME NEW c \in Commands, UninstallSteps(c)
        PROVE  PortsKept'
    BY <1>1, <2>0, <2>4, UninstallPort, SweepPort
  <2>5. ASSUME NEW c \in Commands, InstallSteps(c)
        PROVE  PortsKept'
    BY <2>0, <2>5, InstallPort
  <2>6. CASE UNCHANGED vars
    BY <2>0, <2>6, SparesPort DEF vars, files
  <2>. QED  BY <2>1, <2>2, <2>3, <2>4, <2>5, <2>6 DEF Next
<1>. QED  BY <1>0, <1>1

(* launchCodex, updateSession and removeSession (start.mjs:363): whatever  *)
(* fails or dies, the record keeps the port Codex was activated with until *)
(* it is removed on purpose, or replaced by that of --port, or a writer    *)
(* dies between the two halves of a replacement.                           *)
THEOREM PortRecoverableHolds == Spec => []PortRecoverable
<1>1. PortInv => PortRecoverable
  BY DEF PortInv, PortsKept, RecordPort, PortIs, PortRecoverable, Stored
<1>. QED  BY <1>1, InitPort, NextPort, TypeCorrect, Ownership, InitTypes, NextTypes, InitLocks,
             NextLocks, InitOwners, NextOwners, PTL DEF Spec

=============================================================================
