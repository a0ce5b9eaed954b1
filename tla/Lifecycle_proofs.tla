-------------------------- MODULE Lifecycle_proofs --------------------------
(***************************************************************************)
(* Proofs about Lifecycle, for any commands and any number of processes    *)
(* that die: its type invariant, what a lock excludes, and what an install *)
(* leaves behind.                                                          *)
(***************************************************************************)
EXTENDS Lifecycle, TLAPS

(* What a process has read is what it is about to write or to compare.     *)
Fits(k, step, what) ==
    /\ k = "command" /\ step \in {"launching", "recording", "adopting", "failing",
                                 "inspecting", "requesting", "waiting"} => what \in Session
    /\ k = "command" /\ step \in {"checking", "pending"} => what \in Session \cup {None}
    /\ k = "command" /\ step \in {"switching", "linking", "restoring"} => what \in Names \cup {None}
    /\ k = "daemon" /\ step = "updating" => what \in Session

SeenInv == \A k \in Kinds, c \in Commands : Fits(k, pc[k][c], seen[k][c])

(* Once its daemon is spawned, a start has but to hand over or to give up. *)
Spawned == {"identifying", "merging", "adopting", "preserving", "failing", "releasing", "ended"}

(* Who holds a lock is named in it, or has removed it with the root; a     *)
(* lock that is about to be broken was read as that of an ended process.   *)
NamedHasRun ==
    \A k \in Kinds, c \in Commands : lock[k] # None /\ lock[k].by = c => pc[k][c] # "idle"

DaemonsAreStarted ==
    \A c \in Commands :
        pc["daemon"][c] # "idle" => operation[c] = "start" /\ pc["command"][c] \in Spawned

UninstallsSweep ==
    \A c \in Commands : pc["command"][c] = "sweeping" => operation[c] = "uninstall"

JudgedHasEnded ==
    \A k \in Kinds, c, d \in Commands :
        pc[k][c] = "breaking" /\ seen[k][c] = d => pc[k][d] = "ended"

HolderIsNamed ==
    raced \/ \A k \in Kinds, c \in Commands :
        pc[k][c] \notin Outside =>
            \/ lock[k] # None /\ lock[k].by = c
            \/ k = "command" /\ lock[k] = None /\ operation[c] = "uninstall"

LockInv ==
    /\ NamedHasRun /\ DaemonsAreStarted /\ UninstallsSweep
    /\ JudgedHasEnded /\ HolderIsNamed /\ OneAtATime

-----------------------------------------------------------------------------
(* The types.                                                              *)

Readable == Session \cup Names \cup {None}

Places == Outside \cup Inside

FileTypes ==
    /\ session \in Session \cup {None, Missing}
    /\ stopRequest \in Names \cup {None}
    /\ config \in Names \cup {None, Missing}
    /\ engines \subseteq Names
    /\ activated \in Names \cup {None}

(* Process c of kind k moves, and reads what its next step will use.       *)
Steps(k, c) ==
    /\ pc' \in [Kinds -> [Commands -> Places]]
    /\ seen' \in [Kinds -> [Commands -> Readable]]
    /\ \A j \in Kinds, d \in Commands :
        j # k \/ d # c => pc'[j][d] = pc[j][d] /\ seen'[j][d] = seen[j][d]
    /\ Fits(k, pc'[k][c], seen'[k][c])

LEMMA StepTypes ==
    ASSUME TypeOK, SeenInv, NEW k \in Kinds, NEW c \in Commands,
           Steps(k, c), FileTypes', Otherwise
    PROVE  TypeOK' /\ SeenInv'
<1>1. SeenInv'
  BY DEF Steps, SeenInv, Fits
<1>2. TypeOK'
  BY DEF Places, Steps, TypeOK, Readable, FileTypes, Otherwise
<1>. QED  BY <1>1, <1>2

LEMMA SessionTypes ==
    ASSUME TypeOK, Stored(session)
    PROVE  /\ session \in Session
           /\ [session EXCEPT !.pid = TRUE] \in Session
           /\ \A status \in Status : [session EXCEPT !.status = status] \in Session
BY DEF TypeOK, Stored, Session, Status

LEMMA Goes ==
    ASSUME TypeOK, NEW k \in Kinds, NEW c \in Commands, NEW step \in Places,
           Goto(k, c, step), UNCHANGED seen, Fits(k, step, seen[k][c])
    PROVE  Steps(k, c)
BY DEF TypeOK, Goto, Steps, Readable, Places

LEMMA Reads ==
    ASSUME TypeOK, NEW k \in Kinds, NEW c \in Commands, NEW step \in Places,
           NEW what \in Readable,
           Goto(k, c, step), Note(k, c, what), Fits(k, step, what)
    PROVE  Steps(k, c)
BY DEF TypeOK, Goto, Note, Steps, Readable, Places

(* What AfterUpdate answers is a place outside the updates.                *)
LEMMA AfterUpdatePlaces ==
    ASSUME NEW status \in Status
    PROVE  AfterUpdate(status) \in {"beginning", "running", "removing", "releasing"}
BY DEF AfterUpdate, Status

LEMMA StartTypes ==
    ASSUME TypeOK, SeenInv, NEW c \in Commands, StartSteps(c), ~Spawn(c)
    PROVE  Steps("command", c) /\ FileTypes' /\ Otherwise
<1>. USE DEF At, Goto, Becomes, Start, Kinds
<1>1. CASE SelectRuntime(c)
  BY <1>1 DEF SelectRuntime, Fits, Steps, SeenInv, TypeOK, FileTypes, Readable, Places, Outside, Inside, Session, Status, files
<1>2. CASE LookForSession(c)
  <2>1. Read(session) \in Session \cup {None}
    BY SessionTypes DEF Read
  <2>2. Stored(session) => Read(session) \in Session
    BY SessionTypes DEF Read
  <2>3. Note("command", c, Read(session))
    BY <1>2 DEF LookForSession
  <2>4. Steps("command", c)
    <3>1. CASE Stored(session) /\ session.pid
      BY <1>2, <2>2, <2>3, <3>1 DEF LookForSession, Note, Fits, Steps, TypeOK, Readable, Places, Outside, Inside
    <3>2. CASE ~(Stored(session) /\ session.pid)
      BY <1>2, <2>1, <2>3, <3>2 DEF LookForSession, Note, Fits, Steps, TypeOK, Readable, Places, Outside, Inside
    <3>. QED  BY <3>1, <3>2
  <2>. QED  BY <1>2, <2>4 DEF LookForSession, TypeOK, FileTypes, files
<1>3. CASE InspectRecorded(c)
  BY <1>3 DEF InspectRecorded, Fits, Steps, SeenInv, TypeOK, FileTypes, Readable, Places, Outside, Inside, Session, Status, files
<1>4. CASE CheckDaemonLock(c)
  BY <1>4 DEF CheckDaemonLock, Fits, Steps, SeenInv, TypeOK, FileTypes, Readable, Places, Outside, Inside, Session, Status, files
<1>5. CASE WritePending(c)
  <2>1. seen["command"][c] \in Session \cup {None}
    BY <1>5 DEF WritePending, SeenInv, Fits
  <2>2. PICK given \in BOOLEAN :
            /\ session' = PendingRecord(c, given)
            /\ activated' = IF given \/ seen["command"][c] = None THEN None ELSE activated
            /\ Note("command", c, PendingRecord(c, given))
    BY <1>5 DEF WritePending
  <2>3. PendingRecord(c, given) \in Session
    BY <2>1 DEF PendingRecord, Session, Names, Status
  <2>4. Goto("command", c, "launching")
    BY <1>5 DEF WritePending
  <2>5. Steps("command", c)
    BY <2>2, <2>3, <2>4 DEF Note, Fits, Steps, TypeOK, Readable, Places, Outside, Inside
  <2>. QED  BY <1>5, <2>2, <2>3, <2>5 DEF WritePending, TypeOK, FileTypes, files
<1>6. CASE Launch(c)
  BY <1>6 DEF Launch, Fits, Steps, SeenInv, TypeOK, FileTypes, Readable, Places, Outside, Inside, Session, Status, files
<1>7. CASE WriteSession(c)
  BY <1>7 DEF WriteSession, Fits, Steps, SeenInv, TypeOK, FileTypes, Readable, Places, Outside, Inside, Session, Status, files
<1>8. CASE RemoveStopRequest(c)
  BY <1>8 DEF RemoveStopRequest, Fits, Steps, SeenInv, TypeOK, FileTypes, Readable, Places, Outside, Inside, Session, Status, files
<1>9. CASE IdentifyDaemon(c)
  BY <1>9 DEF IdentifyDaemon, Fits, Steps, SeenInv, TypeOK, FileTypes, Readable, Places, Outside, Inside, Session, Status, files
<1>10. CASE ReadToAdopt(c)
  <2>1. CASE SessionOf(c)
    <3>1. [session EXCEPT !.pid = TRUE] \in Session
      BY <2>1, SessionTypes DEF SessionOf, Status
    <3>2. Note("command", c, [session EXCEPT !.pid = TRUE]) /\ Goto("command", c, "adopting")
      BY <1>10, <2>1 DEF ReadToAdopt
    <3>. QED  BY <1>10, <3>1, <3>2, Reads DEF ReadToAdopt, Fits, Readable, Places, Outside, Inside, TypeOK, FileTypes, files
  <2>2. CASE ~(SessionOf(c))
    BY <1>10, <2>2 DEF ReadToAdopt, Fits, Steps, SeenInv, TypeOK, FileTypes, Readable, Places, Outside, Inside, Session, Status, files
  <2>. QED  BY <2>1, <2>2
<1>11. CASE WriteAdopted(c)
  BY <1>11 DEF WriteAdopted, Fits, Steps, SeenInv, TypeOK, FileTypes, Readable, Places, Outside, Inside, Session, Status, files
<1>12. CASE ReadToPreserve(c)
  <2>1. CASE SessionOf(c) /\ session.status # "error"
    <3>1. [session EXCEPT !.status = "error"] \in Session
      BY <2>1, SessionTypes DEF SessionOf, Status
    <3>2. Note("command", c, [session EXCEPT !.status = "error"]) /\ Goto("command", c, "failing")
      BY <1>12, <2>1 DEF ReadToPreserve
    <3>. QED  BY <1>12, <3>1, <3>2, Reads DEF ReadToPreserve, Fits, Readable, Places, Outside, Inside, TypeOK, FileTypes, files
  <2>2. CASE ~(SessionOf(c) /\ session.status # "error")
    BY <1>12, <2>2 DEF ReadToPreserve, Fits, Steps, SeenInv, TypeOK, FileTypes, Readable, Places, Outside, Inside, Session, Status, files
  <2>. QED  BY <2>1, <2>2
<1>13. CASE WriteError(c)
  BY <1>13 DEF WriteError, Fits, Steps, SeenInv, TypeOK, FileTypes, Readable, Places, Outside, Inside, Session, Status, files
<1>. QED  BY <1>1, <1>2, <1>3, <1>4, <1>5, <1>6, <1>7, <1>8, <1>9, <1>10, <1>11, <1>12, <1>13 DEF StartSteps

LEMMA SpawnTypes ==
    ASSUME TypeOK, SeenInv, NEW c \in Commands, Spawn(c)
    PROVE  TypeOK' /\ SeenInv'
<1>1. pc' \in [Kinds -> [Commands -> Places]]
  BY DEF Spawn, Becomes, Goto, TypeOK, Kinds, Places, Outside, Inside
<1>2. \A k \in Kinds, d \in Commands :
        pc'[k][d] = pc[k][d] \/ pc'[k][d] \in {"identifying", "preserving", "spawned"}
  BY DEF Spawn, Becomes, Goto, TypeOK, Kinds
<1>3. SeenInv'
  BY <1>2 DEF SeenInv, Fits, Spawn
<1>. QED  BY <1>1, <1>3 DEF Spawn, TypeOK, Places, Otherwise, files

LEMMA UpdateTypes ==
    ASSUME TypeOK, SeenInv, NEW c \in Commands, NEW status \in Status, ReadToUpdate(c, status)
    PROVE  Steps("daemon", c) /\ FileTypes' /\ Otherwise
<1>1. CASE SessionOf(c)
  <2>1. [session EXCEPT !.status = status] \in Session
    BY <1>1, SessionTypes DEF SessionOf
  <2>2. Note("daemon", c, [session EXCEPT !.status = status]) /\ Goto("daemon", c, "updating")
    BY <1>1 DEF ReadToUpdate, Turns
  <2>. QED  BY <2>1, <2>2, Reads DEF ReadToUpdate, Fits, Readable, Places, Outside, Inside, Kinds, TypeOK, FileTypes, files
<1>2. CASE ~SessionOf(c)
  <2>1. Goto("daemon", c, AfterUpdate(status)) /\ UNCHANGED seen
    BY <1>2 DEF ReadToUpdate, Turns
  <2>2. Steps("daemon", c)
    BY <2>1, AfterUpdatePlaces, Goes DEF Fits, Places, Outside, Inside, Kinds
  <2>. QED  BY <2>2 DEF ReadToUpdate, TypeOK, FileTypes, files
<1>. QED  BY <1>1, <1>2

LEMMA DaemonTypes ==
    ASSUME TypeOK, SeenInv, NEW c \in Commands, DaemonSteps(c)
    PROVE  Steps("daemon", c) /\ FileTypes' /\ Otherwise
<1>. USE DEF At, Goto, Turns, Kinds
<1>1. CASE ReadInitial(c)
  BY <1>1 DEF ReadInitial, Fits, Steps, SeenInv, TypeOK, FileTypes, Readable, Places, Outside, Inside, Session, Status, files
<1>2. CASE PassGate(c)
  BY <1>2 DEF PassGate, Fits, Steps, SeenInv, TypeOK, FileTypes, Readable, Places, Outside, Inside, Session, Status, files
<1>3. CASE LeaveGate(c)
  BY <1>3 DEF LeaveGate, Fits, Steps, SeenInv, TypeOK, FileTypes, Readable, Places, Outside, Inside, Session, Status, files
<1>4. CASE Updates(c)
  BY <1>4, UpdateTypes DEF Updates, Status
<1>5. CASE WriteUpdate(c)
  <2>1. seen["daemon"][c] \in Session
    BY <1>5 DEF WriteUpdate, SeenInv, Fits
  <2>2. seen["daemon"][c].status \in Status
    BY <2>1 DEF Session
  <2>3. Steps("daemon", c)
    BY <1>5, <2>2, AfterUpdatePlaces, Goes DEF WriteUpdate, Fits, Places, Outside, Inside
  <2>. QED  BY <1>5, <2>1, <2>3 DEF WriteUpdate, TypeOK, FileTypes, files
<1>6. CASE Fails(c)
  BY <1>6, UpdateTypes DEF Fails, Status
<1>7. CASE Interrupted(c)
  BY <1>7, UpdateTypes DEF Interrupted, Status
<1>8. CASE NoticesStop(c)
  <2>1. CASE ReadToUpdate(c, "stopping")
    BY <2>1, UpdateTypes DEF Status
  <2>2. CASE ~ReadToUpdate(c, "stopping")
    BY <1>8, <2>2 DEF NoticesStop, Fits, Steps, SeenInv, TypeOK, FileTypes, Readable, Places, Outside, Inside, Session, Status, files
  <2>. QED  BY <2>1, <2>2
<1>9. CASE ReadToRemove(c)
  BY <1>9 DEF ReadToRemove, Fits, Steps, SeenInv, TypeOK, FileTypes, Readable, Places, Outside, Inside, Session, Status, files
<1>10. CASE UnlinkSession(c)
  BY <1>10 DEF UnlinkSession, Fits, Steps, SeenInv, TypeOK, FileTypes, Readable, Places, Outside, Inside, Session, Status, files
<1>11. CASE ForgetStopRequest(c)
  BY <1>11 DEF ForgetStopRequest, Fits, Steps, SeenInv, TypeOK, FileTypes, Readable, Places, Outside, Inside, Session, Status, files
<1>. QED  BY <1>1, <1>2, <1>3, <1>4, <1>5, <1>6, <1>7, <1>8, <1>9, <1>10, <1>11 DEF DaemonSteps

LEMMA UninstallTypes ==
    ASSUME TypeOK, SeenInv, NEW c \in Commands, UninstallSteps(c), ~Sweep(c)
    PROVE  Steps("command", c) /\ FileTypes' /\ Otherwise
<1>. USE DEF At, Goto, Becomes, Uninstall, Kinds
<1>1. CASE LookToUninstall(c)
  <2>1. Read(session) \in Session \cup {None}
    BY SessionTypes DEF Read
  <2>2. Note("command", c, Read(session)) /\ Goto("command", c, "checking")
    BY <1>1 DEF LookToUninstall
  <2>3. Steps("command", c)
    BY <2>1, <2>2 DEF Note, Fits, Steps, TypeOK, Readable, Places, Outside, Inside
  <2>. QED  BY <1>1, <2>3 DEF LookToUninstall, TypeOK, FileTypes, files
<1>2. CASE CheckLifecycle(c)
  <2>1. seen["command"][c] \in Session \cup {None}
    BY <1>2 DEF CheckLifecycle, Uninstall, SeenInv, Fits
  <2>2. PICK step \in {"releasing", "rechecking", "inspecting"} :
          /\ Goto("command", c, step)
          /\ step = "inspecting" => HasPid(seen["command"][c])
    BY <1>2 DEF CheckLifecycle
  <2>3. Steps("command", c)
    BY <1>2, <2>1, <2>2, Goes DEF CheckLifecycle, HasPid, Fits, Places, Outside, Inside
  <2>. QED  BY <1>2, <2>3 DEF CheckLifecycle, TypeOK, FileTypes, files
<1>3. CASE ValidateDaemon(c)
  BY <1>3 DEF ValidateDaemon, Fits, Steps, SeenInv, TypeOK, FileTypes, Readable, Places, Outside, Inside, Session, Status, files
<1>4. CASE RequestStop(c)
  BY <1>4 DEF RequestStop, Fits, Steps, SeenInv, TypeOK, FileTypes, Readable, Places, Outside, Inside, Session, Status, files
<1>5. CASE WaitForExit(c)
  BY <1>5 DEF WaitForExit, Fits, Steps, SeenInv, TypeOK, FileTypes, Readable, Places, Outside, Inside, Session, Status, files
<1>6. CASE RecheckLifecycle(c)
  BY <1>6 DEF RecheckLifecycle, Fits, Steps, SeenInv, TypeOK, FileTypes, Readable, Places, Outside, Inside, Session, Status, files
<1>7. CASE RemoveShortcuts(c)
  BY <1>7 DEF RemoveShortcuts, Fits, Steps, SeenInv, TypeOK, FileTypes, Readable, Places, Outside, Inside, Session, Status, files
<1>8. CASE SweepEnds(c)
  BY <1>8 DEF SweepEnds, Fits, Steps, SeenInv, TypeOK, FileTypes, Readable, Places, Outside, Inside, Session, Status, files
<1>. QED  BY <1>1, <1>2, <1>3, <1>4, <1>5, <1>6, <1>7, <1>8 DEF UninstallSteps

LEMMA InstallTypes ==
    ASSUME TypeOK, SeenInv, NEW c \in Commands, InstallSteps(c)
    PROVE  Steps("command", c) /\ FileTypes' /\ Otherwise
<1>. USE DEF At, Goto, Becomes, Install, Kinds
<1>1. CASE Stage(c)
  BY <1>1 DEF Stage, Fits, Steps, SeenInv, TypeOK, FileTypes, Readable, Places, Outside, Inside, Session, Status, files, Names
<1>2. CASE RememberPrevious(c)
  <2>1. Read(config) \in Names \cup {None}
    BY DEF Read, Stored, TypeOK
  <2>2. Note("command", c, Read(config)) /\ Goto("command", c, "switching")
    BY <1>2 DEF RememberPrevious
  <2>3. Steps("command", c)
    BY <2>1, <2>2 DEF Note, Fits, Steps, TypeOK, Readable, Places, Outside, Inside
  <2>. QED  BY <1>2, <2>3 DEF RememberPrevious, TypeOK, FileTypes, files
<1>3. CASE Switch(c)
  BY <1>3 DEF Switch, Fits, Steps, SeenInv, TypeOK, FileTypes, Readable, Places, Outside, Inside, Session, Status, files, Names
<1>4. CASE CreateShortcuts(c)
  BY <1>4 DEF CreateShortcuts, Fits, Steps, SeenInv, TypeOK, FileTypes, Readable, Places, Outside, Inside, Session, Status, files
<1>5. CASE RestorePrevious(c)
  BY <1>5 DEF RestorePrevious, Fits, Steps, SeenInv, TypeOK, FileTypes, Readable, Places, Outside, Inside, Session, Status, files
<1>6. CASE DiscardEngine(c)
  BY <1>6 DEF DiscardEngine, Fits, Steps, SeenInv, TypeOK, FileTypes, Readable, Places, Outside, Inside, Session, Status, files
<1>. QED  BY <1>1, <1>2, <1>3, <1>4, <1>5, <1>6 DEF InstallSteps

(* What a lock step may change.                                            *)
LockTypes(k, c) ==
    /\ Steps(k, c) /\ FileTypes'
    /\ operation' = operation /\ crashes' = crashes
    /\ lock' \in [Kinds -> Lock \cup {None}] /\ raced' \in BOOLEAN

LEMMA LockStepTypes ==
    ASSUME TypeOK, SeenInv, NEW k \in Kinds, NEW c \in Commands, LockSteps(k, c)
    PROVE  LockTypes(k, c)
<1>. USE DEF LockTypes
<1>. USE DEF At, Goto, Note
<1>0. ASSUME Creates(k, c), UNCHANGED <<seen, files, activated>>
      PROVE  Steps(k, c) /\ lock' \in [Kinds -> Lock \cup {None}] /\ raced' \in BOOLEAN
  <2>1. Steps(k, c)
    BY <1>0 DEF Creates, Fits, Steps, TypeOK, Readable, Places, Outside, Inside
  <2>2. [by |-> c, written |-> FALSE] \in Lock
    BY DEF Lock, Names
  <2>3. lock' \in [Kinds -> Lock \cup {None}]
    BY <1>0, <2>2 DEF Creates, TypeOK
  <2>. QED  BY <1>0, <2>1, <2>3 DEF Creates, RacedIf, TypeOK
<1>1. CASE OpenLock(k, c)
  <2>1. CASE Creates(k, c)
    BY <1>0, <1>1, <2>1 DEF OpenLock, TypeOK, FileTypes, files
  <2>2. CASE ~Creates(k, c)
    <3>1. Steps(k, c)
      BY <1>1, <2>2 DEF OpenLock, Fits, Steps, TypeOK, Readable, Places, Outside, Inside
    <3>. QED  BY <1>1, <2>2, <3>1 DEF OpenLock, TypeOK, FileTypes, files
  <2>. QED  BY <2>1, <2>2
<1>2. CASE JudgeLock(k, c)
  <2>1. PICK stale \in StaleAnswers(k) :
          IF stale THEN Goto(k, c, "breaking") /\ Note(k, c, lock[k].by)
                   ELSE Goto(k, c, "ended") /\ UNCHANGED seen
    BY <1>2 DEF JudgeLock
  <2>2. stale => lock[k] # None
    BY DEF StaleAnswers
  <2>3. stale => lock[k].by \in Names
    BY <2>2 DEF TypeOK, Lock
  <2>4. Steps(k, c)
    <3>1. CASE stale
      BY <2>1, <2>3, <3>1, Reads DEF Fits, Readable, Places, Outside
    <3>2. CASE ~stale
      BY <2>1, <3>2, Goes DEF Fits, Places, Outside
    <3>. QED  BY <3>1, <3>2
  <2>. QED  BY <1>2, <2>4 DEF JudgeLock, TypeOK, FileTypes, files
<1>3. CASE BreakLock(k, c)
  BY <1>3 DEF BreakLock, RacedIf, Fits, Steps, TypeOK, FileTypes, Readable, Places, Outside, Inside, files
<1>4. CASE ReopenLock(k, c)
  <2>1. CASE Creates(k, c)
    BY <1>0, <1>4, <2>1 DEF ReopenLock, TypeOK, FileTypes, files
  <2>2. CASE ~Creates(k, c)
    <3>1. Steps(k, c)
      BY <1>4, <2>2 DEF ReopenLock, Fits, Steps, TypeOK, Readable, Places, Outside, Inside
    <3>. QED  BY <1>4, <2>2, <3>1 DEF ReopenLock, TypeOK, FileTypes, files
  <2>. QED  BY <2>1, <2>2
<1>5. CASE WriteLock(k, c)
  <2>1. First(k, c) \in {"gate", "selecting", "staging", "looking"}
    BY DEF First, TypeOK
  <2>2. Steps(k, c)
    BY <1>5, <2>1 DEF WriteLock, Fits, Steps, TypeOK, Readable, Places, Outside, Inside
  <2>3. lock' \in [Kinds -> Lock \cup {None}]
    <3>1. CASE lock[k] = [by |-> c, written |-> FALSE]
      <4>1. [by |-> c, written |-> FALSE] \in Lock
        BY DEF Lock, Names
      <4>2. \A l \in Lock : [l EXCEPT !.written = TRUE] \in Lock
        BY DEF Lock
      <4>3. [lock[k] EXCEPT !.written = TRUE] \in Lock
        BY <3>1, <4>1, <4>2
      <4>. QED  BY <1>5, <3>1, <4>3 DEF WriteLock, TypeOK
    <3>2. CASE lock[k] # [by |-> c, written |-> FALSE]
      BY <1>5, <3>2 DEF WriteLock, TypeOK
    <3>. QED  BY <3>1, <3>2
  <2>. QED  BY <1>5, <2>2, <2>3 DEF WriteLock, TypeOK, FileTypes, files
<1>6. CASE ReleaseLock(k, c)
  BY <1>6 DEF ReleaseLock, RacedIf, Fits, Steps, TypeOK, FileTypes, Readable, Places, Outside, Inside, files
<1>. QED  BY <1>1, <1>2, <1>3, <1>4, <1>5, <1>6 DEF LockSteps

LEMMA ReplaceTypes ==
    ASSUME TypeOK, SeenInv, NEW k \in Kinds, NEW c \in Commands, RemoveToReplace(k, c)
    PROVE  TypeOK' /\ SeenInv'
<1>1. SeenInv'
  BY DEF RemoveToReplace, SeenInv, Fits
<1>. QED  BY <1>1 DEF RemoveToReplace, TypeOK, Otherwise

LEMMA CrashTypes ==
    ASSUME TypeOK, SeenInv, NEW k \in Kinds, NEW c \in Commands, Crash(k, c)
    PROVE  TypeOK' /\ SeenInv'
<1>1. Steps(k, c) /\ FileTypes'
  BY DEF Crash, Goto, Fits, Steps, TypeOK, FileTypes, Readable, Places, Outside, Inside, files
<1>2. SeenInv'
  BY <1>1 DEF Steps, SeenInv, Fits
<1>3. crashes' \in 0..MaxCrashes
  BY MaxCrashesAssumption DEF Crash, TypeOK
<1>. QED  BY <1>1, <1>2, <1>3 DEF Crash, Steps, TypeOK, Places, Readable, FileTypes

LEMMA SweepTypes ==
    ASSUME TypeOK, SeenInv, NEW c \in Commands, Sweep(c)
    PROVE  TypeOK' /\ SeenInv'
<1>1. UNCHANGED <<operation, pc, seen, crashes>> /\ FileTypes'
  BY DEF Sweep, SweepFile, SweepLock, Otherwise, files, TypeOK, FileTypes
<1>2. lock' \in [Kinds -> Lock \cup {None}] /\ raced' \in BOOLEAN
  BY DEF Sweep, SweepFile, SweepLock, Otherwise, RacedIf, TypeOK
<1>3. SeenInv'
  BY <1>1 DEF SeenInv, Fits
<1>. QED  BY <1>1, <1>2, <1>3 DEF TypeOK, FileTypes

LEMMA InitTypes == Init => TypeOK /\ SeenInv
<1>. SUFFICES ASSUME Init PROVE TypeOK /\ SeenInv
  OBVIOUS
<1>1. \A k \in Kinds, c \in Commands : pc[k][c] = "idle" /\ seen[k][c] = None
  BY DEF Init
<1>2. SeenInv
  BY <1>1 DEF SeenInv, Fits
<1>3. pc \in [Kinds -> [Commands -> Outside \cup Inside]]
  BY DEF Init, Outside
<1>4. seen \in [Kinds -> [Commands -> Session \cup Names \cup {None}]]
  BY DEF Init
<1>5. lock \in [Kinds -> Lock \cup {None}]
  <2>1. [by |-> Old, written |-> TRUE] \in Lock /\ [by |-> Old, written |-> FALSE] \in Lock
    BY DEF Lock, Names
  <2>. QED  BY <2>1 DEF Init
<1>6. session \in Session \cup {None, Missing}
  <2>1. Leftover("launching", FALSE) \in Session /\ Leftover("ready", TRUE) \in Session
    BY DEF Leftover, Session, Names, Status
  <2>. QED  BY <2>1 DEF Init
<1>7. config \in Names \cup {None, Missing} /\ engines \subseteq Names
  BY DEF Init, Names
<1>8. crashes \in 0..MaxCrashes
  BY MaxCrashesAssumption DEF Init
<1>. QED  BY <1>2, <1>3, <1>4, <1>5, <1>6, <1>7, <1>8 DEF Init, TypeOK

LEMMA NextTypes == TypeOK /\ SeenInv /\ [Next]_vars => (TypeOK /\ SeenInv)'
<1>. SUFFICES ASSUME TypeOK, SeenInv, [Next]_vars PROVE TypeOK' /\ SeenInv'
  OBVIOUS
<1>1. ASSUME NEW k \in Kinds, NEW c \in Commands,
             LockSteps(k, c) \/ RemoveToReplace(k, c) \/ Crash(k, c)
      PROVE  TypeOK' /\ SeenInv'
  <2>1. CASE LockSteps(k, c)
    <3>1. LockTypes(k, c)
      BY <2>1, LockStepTypes
    <3>2. SeenInv'
      BY <3>1 DEF LockTypes, Steps, SeenInv, Fits
    <3>. QED  BY <3>1, <3>2 DEF LockTypes, Steps, TypeOK, Places, Readable, FileTypes
  <2>. QED  BY <1>1, <2>1, ReplaceTypes, CrashTypes
<1>2. ASSUME NEW c \in Commands,
             StartSteps(c) \/ DaemonSteps(c) \/ UninstallSteps(c) \/ InstallSteps(c)
      PROVE  TypeOK' /\ SeenInv'
  BY <1>2, StepTypes, StartTypes, SpawnTypes, DaemonTypes, UninstallTypes, SweepTypes,
     InstallTypes DEF Kinds
<1>3. CASE UNCHANGED vars
  BY <1>3 DEF vars, files, TypeOK, SeenInv, Fits
<1>. QED  BY <1>1, <1>2, <1>3 DEF Next

(* Every state of the commands, the daemons and their files has the types  *)
(* of TypeOK; in particular nothing is written that was not read, or made, *)
(* as a session or as the record of an engine.                             *)
THEOREM TypeCorrect == Spec => [](TypeOK /\ SeenInv)
BY InitTypes, NextTypes, PTL DEF Spec

-----------------------------------------------------------------------------
(* The locks.                                                              *)

(* Process c of kind k goes on without taking a lock or judging one.       *)
Advances(k, c) ==
    /\ pc[k][c] # "ended" /\ pc'[k][c] \notin {"idle", "breaking"}
    /\ pc'[k][c] \notin Outside => pc[k][c] \notin Outside
    /\ pc'[k][c] = "sweeping" => k = "command" /\ operation[c] = "uninstall"
    /\ k = "command" /\ pc[k][c] \in Spawned => pc'[k][c] \in Spawned
    /\ k = "daemon" => pc[k][c] # "idle"

(* The locks are there as before, and name whom they named.                *)
SameNames ==
    \A k \in Kinds :
        /\ lock'[k] = None <=> lock[k] = None
        /\ lock[k] # None => lock'[k].by = lock[k].by

LEMMA AdvanceKeepsLocks ==
    ASSUME TypeOK, LockInv, NEW k \in Kinds, NEW c \in Commands,
           Steps(k, c), Advances(k, c), SameNames, UNCHANGED <<operation, raced>>
    PROVE  LockInv'
<1>. USE DEF Kinds
<1>1. NamedHasRun'
  BY DEF LockInv, NamedHasRun, Steps, Advances, SameNames
<1>2. DaemonsAreStarted'
  BY DEF LockInv, DaemonsAreStarted, Steps, Advances
<1>3. UninstallsSweep'
  BY DEF LockInv, UninstallsSweep, Steps, Advances
<1>4. JudgedHasEnded'
  BY DEF LockInv, JudgedHasEnded, Steps, Advances
<1>5. HolderIsNamed'
  BY DEF LockInv, HolderIsNamed, Steps, Advances, SameNames
<1>6. OneAtATime'
  BY DEF LockInv, OneAtATime, Holds, Steps, Advances
<1>. QED  BY <1>1, <1>2, <1>3, <1>4, <1>5, <1>6 DEF LockInv

LEMMA StartLocks ==
    ASSUME TypeOK, SeenInv, LockInv, NEW c \in Commands, StartSteps(c), ~Spawn(c)
    PROVE  LockInv'
<1>1. Steps("command", c) /\ Otherwise
  BY StartTypes
<1>2. Advances("command", c)
  BY DEF StartSteps, SelectRuntime, LookForSession, InspectRecorded, CheckDaemonLock,
         WritePending, Launch, WriteSession, RemoveStopRequest, IdentifyDaemon, ReadToAdopt,
         WriteAdopted, ReadToPreserve, WriteError, Advances, Start, Becomes, Goto, At, TypeOK,
         Kinds, Outside, Spawned
<1>. QED  BY <1>1, <1>2, AdvanceKeepsLocks DEF Otherwise, SameNames, Kinds

LEMMA DaemonLocks ==
    ASSUME TypeOK, SeenInv, LockInv, NEW c \in Commands, DaemonSteps(c)
    PROVE  LockInv'
<1>1. Steps("daemon", c) /\ Otherwise
  BY DaemonTypes
<1>2. Advances("daemon", c)
  <2>. DEFINE Onward == {"updating", "beginning", "running", "removing", "releasing"}
  <2>1. ASSUME NEW status \in Status, ReadToUpdate(c, status)
        PROVE  pc'["daemon"][c] \in Onward
    BY <2>1, AfterUpdatePlaces DEF ReadToUpdate, Turns, Goto, TypeOK, Kinds
  <2>2. ASSUME WriteUpdate(c)
        PROVE  pc'["daemon"][c] \in Onward
    <3>1. seen["daemon"][c].status \in Status
      BY <2>2 DEF WriteUpdate, At, SeenInv, Fits, Session, Kinds
    <3>. QED  BY <2>2, <3>1, AfterUpdatePlaces DEF WriteUpdate, Turns, Goto, TypeOK, Kinds
  <2>3. CASE Updates(c) \/ WriteUpdate(c) \/ Fails(c) \/ Interrupted(c)
    <3>1. pc["daemon"][c] \in {"beginning", "running", "updating"}
      BY <2>3 DEF Updates, WriteUpdate, Fails, Interrupted, At
    <3>2. pc'["daemon"][c] \in Onward
      BY <2>1, <2>2, <2>3 DEF Updates, Fails, Interrupted, Status
    <3>. QED  BY <3>1, <3>2 DEF Advances, Outside
  <2>4. CASE NoticesStop(c)
    <3>1. pc["daemon"][c] \in {"beginning", "running"}
      BY <2>4 DEF NoticesStop, At
    <3>2. pc'["daemon"][c] \in Onward
      BY <2>1, <2>4 DEF NoticesStop, Turns, Goto, Status, TypeOK, Kinds
    <3>. QED  BY <3>1, <3>2 DEF Advances, Outside
  <2>5. CASE ReadInitial(c) \/ PassGate(c) \/ LeaveGate(c)
              \/ ReadToRemove(c) \/ UnlinkSession(c) \/ ForgetStopRequest(c)
    BY <2>5 DEF ReadInitial, PassGate, LeaveGate, ReadToRemove, UnlinkSession, ForgetStopRequest,
                Advances, Turns, Goto, At, TypeOK, Kinds, Outside
  <2>. QED  BY <2>3, <2>4, <2>5 DEF DaemonSteps
<1>. QED  BY <1>1, <1>2, AdvanceKeepsLocks DEF Otherwise, SameNames, Kinds

LEMMA UninstallLocks ==
    ASSUME TypeOK, SeenInv, LockInv, NEW c \in Commands, UninstallSteps(c), ~Sweep(c)
    PROVE  LockInv'
<1>1. Steps("command", c) /\ Otherwise
  BY UninstallTypes
<1>2. Advances("command", c)
  BY DEF UninstallSteps, LookToUninstall, CheckLifecycle, ValidateDaemon, RequestStop, WaitForExit,
         RecheckLifecycle, RemoveShortcuts, SweepEnds, Advances, Uninstall, Becomes, Goto, At,
         Sweeping, LockInv, UninstallsSweep, TypeOK, Kinds, Outside, Spawned
<1>. QED  BY <1>1, <1>2, AdvanceKeepsLocks DEF Otherwise, SameNames, Kinds

LEMMA InstallLocks ==
    ASSUME TypeOK, SeenInv, LockInv, NEW c \in Commands, InstallSteps(c)
    PROVE  LockInv'
<1>1. Steps("command", c) /\ Otherwise
  BY InstallTypes
<1>2. Advances("command", c)
  BY DEF InstallSteps, Stage, RememberPrevious, Switch, CreateShortcuts, RestorePrevious,
         DiscardEngine, Advances, Install, Becomes, Goto, At, TypeOK, Kinds, Outside, Spawned
<1>. QED  BY <1>1, <1>2, AdvanceKeepsLocks DEF Otherwise, SameNames, Kinds

(* Process c of kind k creates its lock: from here on it holds it.         *)
LEMMA CreateLocks ==
    ASSUME TypeOK, LockInv, NEW k \in Kinds, NEW c \in Commands, Steps(k, c), Creates(k, c),
           pc[k][c] \in {"idle", "locking", "reopening"}, k = "daemon" => pc[k][c] # "idle",
           operation' = operation
    PROVE  LockInv'
<1>1. pc'[k][c] = "writing" /\ \A j \in Kinds : j # k => lock'[j] = lock[j]
  BY DEF Creates, Goto, TypeOK
<1>2. lock[k] = None /\ lock'[k] = [by |-> c, written |-> FALSE]
  BY DEF Creates, TypeOK
<1>3. lock'[k] # None /\ lock'[k].by = c
  <2>1. [by |-> c, written |-> FALSE] \in Lock
    BY DEF Lock, Names
  <2>2. lock'[k] # None
    BY <1>2, <2>1, RecordsAssumption
  <2>. QED  BY <1>2, <2>2
<1>4. raced' \/ (~raced /\ \A d \in Commands : pc[k][d] \in Outside)
  <2>1. CASE raced
    BY <2>1 DEF Creates, RacedIf
  <2>2. CASE ~raced
    BY <1>2, <2>2 DEF LockInv, HolderIsNamed, Creates, RacedIf, Uninstalling, Holds, TypeOK
  <2>. QED  BY <2>1, <2>2
<1>5. NamedHasRun'
  BY <1>1, <1>3 DEF LockInv, NamedHasRun, Steps
<1>6. DaemonsAreStarted'
  BY <1>1 DEF LockInv, DaemonsAreStarted, Steps, Spawned, Kinds
<1>7. UninstallsSweep'
  BY <1>1 DEF LockInv, UninstallsSweep, Steps, Kinds
<1>8. JudgedHasEnded'
  BY <1>1 DEF LockInv, JudgedHasEnded, Steps
<1>9. HolderIsNamed'
  BY <1>1, <1>3, <1>4 DEF LockInv, HolderIsNamed, Steps
<1>10. OneAtATime'
  BY <1>1, <1>4 DEF LockInv, OneAtATime, Holds, Steps, Outside
<1>. QED  BY <1>5, <1>6, <1>7, <1>8, <1>9, <1>10 DEF LockInv

(* Process c of kind k removes a lock and holds none: whoever holds it by  *)
(* now loses it to a race, except an uninstall that had removed it before. *)
LEMMA RemoveLocks ==
    ASSUME TypeOK, LockInv, NEW k \in Kinds, NEW c \in Commands, Steps(k, c),
           pc[k][c] \notin {"idle", "ended"}, pc'[k][c] \in {"reopening", "ended"},
           pc[k][c] \in Spawned => pc'[k][c] \in Spawned,
           lock' = [lock EXCEPT ![k] = None], operation' = operation, raced => raced',
           \/ raced'
           \/ \A d \in Commands : d # c /\ pc[k][d] \notin Outside =>
                                     k = "command" /\ operation[d] = "uninstall"
    PROVE  LockInv'
<1>1. lock'[k] = None /\ \A j \in Kinds : j # k => lock'[j] = lock[j]
  BY DEF TypeOK
<1>2. NamedHasRun'
  BY <1>1 DEF LockInv, NamedHasRun, Steps
<1>3. DaemonsAreStarted'
  BY DEF LockInv, DaemonsAreStarted, Steps, Spawned, Kinds
<1>4. UninstallsSweep'
  BY DEF LockInv, UninstallsSweep, Steps, Kinds
<1>5. JudgedHasEnded'
  BY DEF LockInv, JudgedHasEnded, Steps
<1>6. HolderIsNamed'
  BY <1>1 DEF LockInv, HolderIsNamed, Steps, Outside
<1>7. OneAtATime'
  <2>1. \A j \in Kinds, d \in Commands : pc'[j][d] \notin Outside => pc[j][d] \notin Outside
    BY DEF Steps, Outside
  <2>. QED  BY <2>1 DEF LockInv, OneAtATime, Holds
<1>. QED  BY <1>2, <1>3, <1>4, <1>5, <1>6, <1>7 DEF LockInv

LEMMA LockStepLocks ==
    ASSUME TypeOK, SeenInv, LockInv, NEW k \in Kinds, NEW c \in Commands, LockSteps(k, c)
    PROVE  LockInv'
<1>0. Steps(k, c) /\ operation' = operation
  BY LockStepTypes DEF LockTypes
<1>. USE DEF At, Goto
<1>1. CASE OpenLock(k, c)
  <2>1. CASE Creates(k, c)
    BY <1>0, <1>1, <2>1, CreateLocks DEF OpenLock, Contends
  <2>2. CASE ~Creates(k, c)
    <3>1. Advances(k, c) /\ UNCHANGED <<lock, raced>>
      BY <1>1, <2>2 DEF OpenLock, Contends, Advances, TypeOK, Outside, Spawned, Kinds
    <3>. QED  BY <1>0, <3>1, AdvanceKeepsLocks DEF SameNames
  <2>. QED  BY <2>1, <2>2
<1>2. CASE JudgeLock(k, c)
  <2>1. PICK stale \in StaleAnswers(k) :
          IF stale THEN Goto(k, c, "breaking") /\ Note(k, c, lock[k].by)
                   ELSE Goto(k, c, "ended") /\ UNCHANGED seen
    BY <1>2 DEF JudgeLock
  <2>2. CASE stale
    <3>1. lock[k] # None /\ ~Alive(k, lock[k].by)
      BY <2>2 DEF StaleAnswers, RunningAnswers
    <3>2. lock[k].by \in Commands => pc[k][lock[k].by] = "ended"
      BY <3>1 DEF Alive, LockInv, NamedHasRun
    <3>3. pc'[k][c] = "breaking" /\ seen'[k][c] = lock[k].by /\ pc[k][c] = "judging"
      BY <1>2, <2>1, <2>2 DEF JudgeLock, Note, TypeOK
    <3>4. lock' = lock /\ raced' = raced
      BY <1>2 DEF JudgeLock
    <3>5. JudgedHasEnded'
      BY <1>0, <3>2, <3>3 DEF LockInv, JudgedHasEnded, Steps
    <3>6. NamedHasRun' /\ DaemonsAreStarted' /\ UninstallsSweep'
      BY <1>0, <3>3, <3>4
      DEF LockInv, NamedHasRun, DaemonsAreStarted, UninstallsSweep, Steps, Spawned, Kinds
    <3>7. HolderIsNamed' /\ OneAtATime'
      <4>1. \A j \in Kinds, d \in Commands : pc'[j][d] \notin Outside => pc[j][d] \notin Outside
        BY <1>0, <3>3 DEF Steps, Outside
      <4>2. HolderIsNamed'
        BY <1>0, <3>4, <4>1 DEF LockInv, HolderIsNamed
      <4>. QED  BY <3>4, <4>1, <4>2 DEF LockInv, OneAtATime, Holds
    <3>. QED  BY <3>5, <3>6, <3>7 DEF LockInv
  <2>3. CASE ~stale
    <3>1. Advances(k, c) /\ UNCHANGED <<lock, raced>>
      BY <1>2, <2>1, <2>3 DEF JudgeLock, Advances, TypeOK, Outside, Spawned, Kinds
    <3>. QED  BY <1>0, <3>1, AdvanceKeepsLocks DEF SameNames
  <2>. QED  BY <2>2, <2>3
<1>3. CASE BreakLock(k, c)
  <2>1. pc[k][c] = "breaking" /\ pc'[k][c] = "reopening"
    BY <1>3 DEF BreakLock, TypeOK
  <2>2. ASSUME ~raced', NEW d \in Commands, d # c, pc[k][d] \notin Outside
        PROVE  k = "command" /\ operation[d] = "uninstall"
    <3>1. ~raced /\ (lock[k] # None => lock[k].by = seen[k][c])
      BY <1>3, <2>2 DEF BreakLock, RacedIf
    <3>2. ~(lock[k] # None /\ lock[k].by = d)
      BY <2>1, <2>2, <3>1 DEF LockInv, JudgedHasEnded, Outside
    <3>. QED  BY <2>2, <3>1, <3>2 DEF LockInv, HolderIsNamed
  <2>. QED  BY <1>0, <1>3, <2>1, <2>2, RemoveLocks DEF BreakLock, RacedIf, Spawned
<1>4. CASE ReopenLock(k, c)
  <2>1. CASE Creates(k, c)
    BY <1>0, <1>4, <2>1, CreateLocks DEF ReopenLock
  <2>2. CASE ~Creates(k, c)
    <3>1. Advances(k, c) /\ UNCHANGED <<lock, raced>>
      BY <1>4, <2>2 DEF ReopenLock, Advances, TypeOK, Outside, Spawned, Kinds
    <3>. QED  BY <1>0, <3>1, AdvanceKeepsLocks DEF SameNames
  <2>. QED  BY <2>1, <2>2
<1>5. CASE WriteLock(k, c)
  <2>1. First(k, c) \in {"gate", "selecting", "staging", "looking"}
    BY DEF First, TypeOK
  <2>2. Advances(k, c)
    BY <1>5, <2>1 DEF WriteLock, Advances, TypeOK, Outside, Spawned, Kinds
  <2>3. SameNames
    <3>1. CASE lock[k] = [by |-> c, written |-> FALSE]
      <4>1. lock[k] \in Lock
        BY <3>1 DEF Lock, Names
      <4>2. \A l \in Lock : [l EXCEPT !.written = TRUE] \in Lock
                             /\ [l EXCEPT !.written = TRUE].by = l.by
        BY DEF Lock
      <4>3. lock'[k] \in Lock /\ lock'[k].by = lock[k].by
        BY <1>5, <3>1, <4>1, <4>2 DEF WriteLock, TypeOK
      <4>4. \A j \in Kinds : j # k => lock'[j] = lock[j]
        BY <1>5 DEF WriteLock, TypeOK
      <4>. QED  BY <4>1, <4>3, <4>4, RecordsAssumption DEF SameNames
    <3>2. CASE lock[k] # [by |-> c, written |-> FALSE]
      BY <1>5, <3>2 DEF WriteLock, SameNames
    <3>. QED  BY <3>1, <3>2
  <2>. QED  BY <1>0, <1>5, <2>2, <2>3, AdvanceKeepsLocks DEF WriteLock
<1>6. CASE ReleaseLock(k, c)
  <2>1. pc[k][c] = "releasing" /\ pc'[k][c] = "ended"
    BY <1>6 DEF ReleaseLock, TypeOK
  <2>2. ASSUME ~raced', NEW d \in Commands, d # c, pc[k][d] \notin Outside
        PROVE  FALSE
    BY <1>6, <2>1, <2>2 DEF ReleaseLock, RacedIf, LockInv, OneAtATime, Holds, Outside
  <2>. QED  BY <1>0, <1>6, <2>1, <2>2, RemoveLocks DEF ReleaseLock, RacedIf, Spawned
<1>. QED  BY <1>1, <1>2, <1>3, <1>4, <1>5, <1>6 DEF LockSteps

LEMMA SpawnLocks ==
    ASSUME TypeOK, LockInv, NEW c \in Commands, Spawn(c)
    PROVE  LockInv'
<1>1. /\ operation[c] = "start" /\ pc["command"][c] = "spawning"
      /\ pc'["command"][c] \in {"identifying", "preserving"}
      /\ pc'["daemon"][c] \in {pc["daemon"][c], "spawned"}
      /\ UNCHANGED <<operation, seen, lock, raced>>
  BY DEF Spawn, Start, Becomes, Goto, At, Otherwise, TypeOK, Kinds
<1>2. \A k \in Kinds, d \in Commands : d # c => pc'[k][d] = pc[k][d]
  BY DEF Spawn, Becomes, Goto, TypeOK, Kinds
<1>3. pc["daemon"][c] = "idle"
  BY <1>1 DEF LockInv, DaemonsAreStarted, Spawned
<1>4. NamedHasRun'
  BY <1>1, <1>2 DEF LockInv, NamedHasRun, Kinds
<1>5. DaemonsAreStarted' /\ UninstallsSweep'
  BY <1>1, <1>2 DEF LockInv, DaemonsAreStarted, UninstallsSweep, Spawned, Kinds
<1>6. JudgedHasEnded'
  BY <1>1, <1>2, <1>3 DEF LockInv, JudgedHasEnded, Kinds
<1>7. HolderIsNamed' /\ OneAtATime'
  BY <1>1, <1>2, <1>3 DEF LockInv, HolderIsNamed, OneAtATime, Holds, Outside, Kinds
<1>. QED  BY <1>4, <1>5, <1>6, <1>7 DEF LockInv

(* An uninstall that removes the root holds start.lock, so that only its   *)
(* own lock, or one whose holder it races with, can go with the files.     *)
LEMMA SweepLocks ==
    ASSUME TypeOK, LockInv, NEW c \in Commands, Sweep(c)
    PROVE  LockInv'
<1>1. UNCHANGED <<operation, pc, seen>> /\ (raced => raced')
  <2>1. CASE SweepFile(c)
    BY <2>1 DEF SweepFile, Otherwise
  <2>2. ASSUME NEW k \in Kinds, SweepLock(c, k)
        PROVE  UNCHANGED <<operation, pc, seen>> /\ (raced => raced')
    BY <2>2 DEF SweepLock, RacedIf
  <2>. QED  BY <2>1, <2>2 DEF Sweep
<1>2. pc["command"][c] = "sweeping" /\ operation[c] = "uninstall"
  BY DEF Sweep, Sweeping, At, LockInv, UninstallsSweep
<1>3. CASE SweepFile(c)
  BY <1>1, <1>3 DEF SweepFile, Otherwise, LockInv, NamedHasRun, DaemonsAreStarted, UninstallsSweep,
                    JudgedHasEnded, HolderIsNamed, OneAtATime, Holds
<1>4. ASSUME NEW k \in Kinds, SweepLock(c, k)
      PROVE  LockInv'
  <2>1. lock[k] # None /\ lock'[k] = None /\ \A j \in Kinds : j # k => lock'[j] = lock[j]
    BY <1>4 DEF SweepLock, TypeOK
  <2>2. ASSUME ~raced', NEW d \in Commands, pc[k][d] \notin Outside
        PROVE  k = "command" /\ operation[d] = "uninstall"
    <3>1. ~raced /\ lock[k].by = d
      BY <1>1, <2>1, <2>2 DEF LockInv, HolderIsNamed
    <3>2. d = c
      BY <1>4, <2>2, <3>1 DEF SweepLock, RacedIf, Alive, At, Outside
    <3>. QED  BY <1>2, <2>2, <3>2 DEF LockInv, DaemonsAreStarted, Outside, Kinds
  <2>3. NamedHasRun' /\ DaemonsAreStarted' /\ UninstallsSweep' /\ JudgedHasEnded'
    BY <1>1, <2>1 DEF LockInv, NamedHasRun, DaemonsAreStarted, UninstallsSweep, JudgedHasEnded
  <2>4. HolderIsNamed' /\ OneAtATime'
    BY <1>1, <2>1, <2>2 DEF LockInv, HolderIsNamed, OneAtATime, Holds
  <2>. QED  BY <2>3, <2>4 DEF LockInv
<1>. QED  BY <1>3, <1>4 DEF Sweep

LEMMA CrashLocks ==
    ASSUME TypeOK, LockInv, NEW k \in Kinds, NEW c \in Commands, Crash(k, c)
    PROVE  LockInv'
<1>1. pc[k][c] \notin {"idle", "ended"} /\ pc'[k][c] = "ended"
  BY DEF Crash, Alive, At, Goto, TypeOK
<1>2. Steps(k, c)
  BY DEF Crash, Goto, Fits, Steps, TypeOK, Readable, Places, Outside
<1>3. Advances(k, c)
  BY <1>1 DEF Advances, Outside, Spawned
<1>. QED  BY <1>2, <1>3, AdvanceKeepsLocks DEF Crash, SameNames

LEMMA InitLocks == Init => LockInv
<1>. SUFFICES ASSUME Init PROVE LockInv
  OBVIOUS
<1>1. \A k \in Kinds, c \in Commands : pc[k][c] = "idle"
  BY DEF Init
<1>2. \A k \in Kinds : lock[k] # None => lock[k].by = Old
  BY DEF Init
<1>. QED
  BY <1>1, <1>2, NamesAssumption
  DEF LockInv, NamedHasRun, DaemonsAreStarted, UninstallsSweep, JudgedHasEnded, HolderIsNamed,
      OneAtATime, Holds, Outside, Kinds

LEMMA NextLocks == TypeOK /\ SeenInv /\ LockInv /\ [Next]_vars => LockInv'
<1>. SUFFICES ASSUME TypeOK, SeenInv, LockInv, [Next]_vars PROVE LockInv'
  OBVIOUS
<1>1. ASSUME NEW k \in Kinds, NEW c \in Commands,
             LockSteps(k, c) \/ RemoveToReplace(k, c) \/ Crash(k, c)
      PROVE  LockInv'
  <2>1. CASE RemoveToReplace(k, c)
    BY <2>1 DEF RemoveToReplace, Otherwise, LockInv, NamedHasRun, DaemonsAreStarted,
                UninstallsSweep, JudgedHasEnded, HolderIsNamed, OneAtATime, Holds
  <2>. QED  BY <1>1, <2>1, LockStepLocks, CrashLocks
<1>2. ASSUME NEW c \in Commands,
             StartSteps(c) \/ DaemonSteps(c) \/ UninstallSteps(c) \/ InstallSteps(c)
      PROVE  LockInv'
  BY <1>2, StartLocks, SpawnLocks, DaemonLocks, UninstallLocks, SweepLocks, InstallLocks
<1>3. CASE UNCHANGED vars
  BY <1>3 DEF vars, LockInv, NamedHasRun, DaemonsAreStarted, UninstallsSweep, JudgedHasEnded,
              HolderIsNamed, OneAtATime, Holds
<1>. QED  BY <1>1, <1>2, <1>3 DEF Next

(* acquireFileLock and what every command and daemon does with its lock:   *)
(* at most one command, and at most one daemon, is past its lock, for any  *)
(* number of commands that run or die at any point, unless a lock is lost  *)
(* to one of the races the code leaves open.                               *)
THEOREM OneAtATimeHolds == Spec => []OneAtATime
<1>1. LockInv => OneAtATime
  BY DEF LockInv
<1>. QED  BY <1>1, InitTypes, NextTypes, InitLocks, NextLocks, PTL DEF Spec

-----------------------------------------------------------------------------
(* The engines.                                                            *)

Uninstalls == \E u \in Commands : operation[u] = "uninstall"

Installing == {"remembering", "switching", "linking", "restoring", "discarding"}
Remembering == {"switching", "linking", "restoring"}
Unswitched == {"idle", "judging", "breaking", "reopening", "writing", "staging",
               "remembering", "switching"}

(* What install.json names is there, and so is what an install is about to *)
(* put into it: its own engine, or the one it has read; and nothing names  *)
(* the engine of an install that has yet to switch, or has switched back.  *)
EnginesKept ==
    /\ Stored(config) => config \in engines
    /\ \A c \in Commands :
        /\ pc["command"][c] \in Installing \ {"discarding"} => c \in engines
        /\ pc["command"][c] \in Remembering =>
             seen["command"][c] = None \/ seen["command"][c] \in engines \ {c}
        /\ pc["command"][c] \in Unswitched \cup {"discarding"} => config # c
    /\ \A c, d \in Commands :
        pc["command"][c] \in Remembering /\ pc["command"][d] \in Unswitched =>
            seen["command"][c] # d

EngineInv == raced \/ Uninstalls \/ EnginesKept

(* The step is none of an install's own.                                   *)
Spares ==
    /\ engines' = engines /\ config' \in {config, Missing}
    /\ operation' = operation /\ (raced => raced')
    /\ \A d \in Commands :
        /\ pc'["command"][d] \in Installing =>
             pc'["command"][d] = pc["command"][d] /\ seen'["command"][d] = seen["command"][d]
        /\ pc'["command"][d] \in Unswitched => pc["command"][d] \in Unswitched

LEMMA SparesEngines ==
    ASSUME EngineInv, Spares
    PROVE  EngineInv'
<1>1. CASE raced \/ Uninstalls
  BY <1>1 DEF EngineInv, Uninstalls, Spares
<1>2. CASE EnginesKept
  <2>1. Stored(config)' => config' \in engines'
    BY <1>2 DEF EnginesKept, Spares, Stored
  <2>2. ASSUME NEW c \in Commands
        PROVE  /\ pc'["command"][c] \in Installing \ {"discarding"} => c \in engines'
               /\ pc'["command"][c] \in Remembering =>
                    seen'["command"][c] = None \/ seen'["command"][c] \in engines' \ {c}
    BY <1>2 DEF EnginesKept, Spares, Installing, Remembering
  <2>3. ASSUME NEW c \in Commands, pc'["command"][c] \in Unswitched \cup {"discarding"}
        PROVE  config' # c
    BY <1>2, <2>3, NamesAssumption DEF EnginesKept, Spares, Installing
  <2>4. ASSUME NEW c \in Commands, NEW d \in Commands,
               pc'["command"][c] \in Remembering, pc'["command"][d] \in Unswitched
        PROVE  seen'["command"][c] # d
    BY <1>2, <2>4 DEF EnginesKept, Spares, Installing, Remembering
  <2>. QED  BY <2>1, <2>2, <2>3, <2>4 DEF EngineInv, EnginesKept
<1>. QED  BY <1>1, <1>2 DEF EngineInv

LEMMA StartEngines ==
    ASSUME TypeOK, SeenInv, EngineInv, NEW c \in Commands, StartSteps(c)
    PROVE  EngineInv'
<1>1. pc'["command"][c] \notin Installing \cup Unswitched
  BY DEF StartSteps, SelectRuntime, LookForSession, InspectRecorded, CheckDaemonLock,
         WritePending, Launch, WriteSession, RemoveStopRequest, Spawn, IdentifyDaemon, ReadToAdopt,
         WriteAdopted, ReadToPreserve, WriteError, Start, Becomes, Goto, At, TypeOK,
         Kinds, Installing, Unswitched
<1>2. UNCHANGED <<engines, config, operation, raced>>
  BY DEF StartSteps, SelectRuntime, LookForSession, InspectRecorded, CheckDaemonLock,
         WritePending, Launch, WriteSession, RemoveStopRequest, Spawn, IdentifyDaemon, ReadToAdopt,
         WriteAdopted, ReadToPreserve, WriteError, Otherwise, files
<1>3. ASSUME NEW d \in Commands, d # c
      PROVE  pc'["command"][d] = pc["command"][d] /\ seen'["command"][d] = seen["command"][d]
  <2>1. CASE Spawn(c)
    BY <1>3, <2>1 DEF Spawn, Becomes, Goto, TypeOK, Kinds
  <2>2. CASE ~Spawn(c)
    BY <1>3, <2>2, StartTypes DEF Steps, Kinds
  <2>. QED  BY <2>1, <2>2
<1>. QED  BY <1>1, <1>2, <1>3, SparesEngines DEF Spares

LEMMA DaemonEngines ==
    ASSUME TypeOK, SeenInv, EngineInv, NEW c \in Commands, DaemonSteps(c)
    PROVE  EngineInv'
<1>1. UNCHANGED <<engines, config, operation, raced>>
  BY DEF DaemonSteps, ReadInitial, PassGate, LeaveGate, Updates, WriteUpdate, Fails, Interrupted,
         NoticesStop, ReadToUpdate, ReadToRemove, UnlinkSession, ForgetStopRequest, Otherwise, files
<1>2. \A d \in Commands : pc'["command"][d] = pc["command"][d]
                         /\ seen'["command"][d] = seen["command"][d]
  BY DaemonTypes DEF Steps, Kinds
<1>. QED  BY <1>1, <1>2, SparesEngines DEF Spares

LEMMA UninstallEngines ==
    ASSUME EngineInv, NEW c \in Commands, UninstallSteps(c),
           operation' = operation, LockInv
    PROVE  EngineInv'
<1>1. operation[c] = "uninstall"
  BY DEF UninstallSteps, LookToUninstall, CheckLifecycle, ValidateDaemon, RequestStop, WaitForExit,
         RecheckLifecycle, RemoveShortcuts, Sweep, SweepEnds, Uninstall, Sweeping, At, LockInv,
         UninstallsSweep
<1>. QED  BY <1>1 DEF EngineInv, Uninstalls

LEMMA LockStepEngines ==
    ASSUME TypeOK, SeenInv, EngineInv, NEW k \in Kinds, NEW c \in Commands, LockSteps(k, c)
    PROVE  EngineInv'
<1>1. Steps(k, c) /\ operation' = operation
  BY LockStepTypes DEF LockTypes
<1>2. engines' = engines /\ config' = config /\ (raced => raced')
  <2>1. CASE OpenLock(k, c) \/ ReopenLock(k, c)
    <3>1. engines' = engines /\ config' = config /\ (Creates(k, c) \/ raced' = raced)
      BY <2>1 DEF OpenLock, ReopenLock, files
    <3>2. Creates(k, c) => (raced => raced')
      BY DEF Creates, RacedIf
    <3>. QED  BY <3>1, <3>2
  <2>2. CASE JudgeLock(k, c) \/ WriteLock(k, c)
    BY <2>2 DEF JudgeLock, WriteLock, files
  <2>3. CASE BreakLock(k, c) \/ ReleaseLock(k, c)
    BY <2>3 DEF BreakLock, ReleaseLock, RacedIf, files
  <2>. QED  BY <2>1, <2>2, <2>3 DEF LockSteps
<1>3. CASE k = "daemon"
  BY <1>1, <1>2, <1>3, SparesEngines DEF Spares, Steps, Kinds
<1>4. CASE k = "command"
  <2>1. /\ pc'[k][c] \notin Installing
        /\ pc'[k][c] \in Unswitched => pc[k][c] \in Unswitched
    <3>1. CASE WriteLock(k, c)
      <4>1. First(k, c) \in {"gate", "selecting", "staging", "looking"}
        BY DEF First, TypeOK
      <4>. QED  BY <3>1, <4>1 DEF WriteLock, At, Goto, TypeOK, Installing, Unswitched
    <3>2. CASE OpenLock(k, c) \/ JudgeLock(k, c) \/ BreakLock(k, c)
      BY <1>4, <3>2 DEF OpenLock, Contends, Creates, JudgeLock, BreakLock, At, Goto, TypeOK,
                        Installing, Unswitched
    <3>3. CASE ReopenLock(k, c) \/ ReleaseLock(k, c)
      BY <3>3 DEF ReopenLock, Creates, ReleaseLock, At, Goto, TypeOK, Installing, Unswitched
    <3>. QED  BY <3>1, <3>2, <3>3 DEF LockSteps
  <2>. QED  BY <1>1, <1>2, <1>4, <2>1, SparesEngines DEF Spares, Steps
<1>. QED  BY <1>3, <1>4 DEF Kinds

(* An install's own steps.  Where it removes an engine, no other install   *)
(* is between its reading and its writing of the record, for it would hold *)
(* start.lock too.                                                         *)
LEMMA InstallEngines ==
    ASSUME TypeOK, SeenInv, LockInv, EngineInv, NEW c \in Commands, InstallSteps(c)
    PROVE  EngineInv'
<1>1. Steps("command", c) /\ operation' = operation /\ raced' = raced
  BY InstallTypes DEF Otherwise
<1>2. CASE raced \/ Uninstalls
  BY <1>1, <1>2 DEF EngineInv, Uninstalls
<1>3. CASE EnginesKept /\ ~raced
  <2>. SUFFICES EnginesKept'
    BY DEF EngineInv
  <2>. USE DEF At, Goto, Becomes, Install, Kinds
  <2>0. \A d \in Commands :
          d # c => pc'["command"][d] = pc["command"][d] /\ seen'["command"][d] = seen["command"][d]
    BY <1>1 DEF Steps
  <2>1. CASE Stage(c)
    <3>1. /\ engines' \in {engines, engines \cup {c}} /\ config' = config
          /\ pc["command"][c] = "staging"
          /\ \/ pc'["command"][c] = "remembering" /\ c \in engines'
             \/ pc'["command"][c] = "releasing"
      BY <2>1 DEF Stage, TypeOK
    <3>. QED  BY <1>3, <2>0, <3>1 DEF EnginesKept, Stored, Installing, Remembering, Unswitched
  <2>2. CASE RememberPrevious(c)
    <3>1. /\ engines' = engines /\ config' = config
          /\ pc["command"][c] = "remembering" /\ pc'["command"][c] = "switching"
          /\ seen'["command"][c] = Read(config)
      BY <2>2 DEF RememberPrevious, Note, TypeOK, files
    <3>2. Read(config) = None \/ (Read(config) = config /\ config \in engines)
      BY <1>3 DEF Read, EnginesKept
    <3>3. config # c
      BY <1>3, <3>1 DEF EnginesKept, Unswitched
    <3>. QED  BY <1>3, <2>0, <3>1, <3>2, <3>3, NamesAssumption
              DEF EnginesKept, Stored, Installing, Remembering, Unswitched
  <2>3. CASE Switch(c)
    <3>1. /\ engines' = engines /\ config' = c /\ c \in engines
          /\ pc["command"][c] = "switching" /\ pc'["command"][c] = "linking"
          /\ seen'["command"][c] = seen["command"][c]
      BY <1>3, <2>3 DEF Switch, TypeOK, EnginesKept, Installing
    <3>. QED  BY <1>3, <2>0, <3>1 DEF EnginesKept, Stored, Installing, Remembering, Unswitched
  <2>4. CASE CreateShortcuts(c)
    <3>1. /\ engines' = engines /\ config' = config
          /\ pc["command"][c] = "linking" /\ pc'["command"][c] \in {"releasing", "restoring"}
          /\ seen'["command"][c] = seen["command"][c]
      BY <2>4 DEF CreateShortcuts, TypeOK, files
    <3>. QED  BY <1>3, <2>0, <3>1 DEF EnginesKept, Stored, Installing, Remembering, Unswitched
  <2>5. CASE RestorePrevious(c)
    <3>1. /\ engines' = engines /\ pc["command"][c] = "restoring"
          /\ \/ config' = seen["command"][c] /\ pc'["command"][c] = "discarding"
             \/ config' = config /\ pc'["command"][c] = "releasing"
      BY <2>5 DEF RestorePrevious, TypeOK
    <3>2. seen["command"][c] = None \/ seen["command"][c] \in engines \ {c}
      BY <1>3, <3>1 DEF EnginesKept, Remembering
    <3>3. \A d \in Commands : d # c /\ pc["command"][d] \in Unswitched \cup {"discarding"} =>
                                seen["command"][c] # d
      <4>1. \A d \in Commands : d # c => pc["command"][d] # "discarding"
        BY <1>3, <3>1 DEF LockInv, OneAtATime, Holds, Outside
      <4>. QED  BY <1>3, <3>1, <4>1 DEF EnginesKept, Remembering
    <3>. QED  BY <1>3, <2>0, <3>1, <3>2, <3>3, NamesAssumption
              DEF EnginesKept, Stored, Installing, Remembering, Unswitched
  <2>6. CASE DiscardEngine(c)
    <3>1. /\ engines' \in {engines, engines \ {c}} /\ config' = config
          /\ pc["command"][c] = "discarding" /\ pc'["command"][c] = "releasing"
      BY <2>6 DEF DiscardEngine, TypeOK
    <3>2. \A d \in Commands : d # c => pc["command"][d] \notin Installing
      BY <1>3, <3>1 DEF LockInv, OneAtATime, Holds, Outside, Installing
    <3>3. config # c
      BY <1>3, <3>1 DEF EnginesKept
    <3>. QED  BY <1>3, <2>0, <3>1, <3>2, <3>3
              DEF EnginesKept, Stored, Installing, Remembering, Unswitched
  <2>. QED  BY <2>1, <2>2, <2>3, <2>4, <2>5, <2>6 DEF InstallSteps
<1>. QED  BY <1>2, <1>3 DEF EngineInv

LEMMA InitEngines == Init => EngineInv
<1>. SUFFICES ASSUME Init PROVE EnginesKept
  BY DEF EngineInv
<1>1. \A c \in Commands : pc["command"][c] = "idle"
  <2>1. \A k \in Kinds, c \in Commands : pc[k][c] = "idle"
    BY DEF Init
  <2>2. "command" \in Kinds
    BY DEF Kinds
  <2>. QED  BY <2>1, <2>2
<1>2. config \in {None, Old} /\ engines = {config} \ {None}
  BY DEF Init
<1>. QED  BY <1>1, <1>2, NamesAssumption DEF EnginesKept, Stored, Installing, Remembering

LEMMA NextEngines == TypeOK /\ SeenInv /\ LockInv /\ EngineInv /\ [Next]_vars => EngineInv'
<1>. SUFFICES ASSUME TypeOK, SeenInv, LockInv, EngineInv, [Next]_vars PROVE EngineInv'
  OBVIOUS
<1>1. ASSUME NEW k \in Kinds, NEW c \in Commands, RemoveToReplace(k, c)
      PROVE  EngineInv'
  BY <1>1, SparesEngines DEF RemoveToReplace, Otherwise, Spares
<1>2. ASSUME NEW k \in Kinds, NEW c \in Commands, Crash(k, c)
      PROVE  EngineInv'
  <2>1. /\ UNCHANGED <<engines, config, operation, raced, seen>>
        /\ \A d \in Commands : pc'["command"][d] \in {pc["command"][d], "ended"}
    BY <1>2 DEF Crash, Goto, TypeOK, Kinds, files
  <2>. QED  BY <2>1, SparesEngines DEF Spares, Installing, Unswitched
<1>3. ASSUME NEW c \in Commands, UninstallSteps(c)
      PROVE  EngineInv'
  <2>1. operation' = operation
    <3>1. CASE Sweep(c)
      BY <3>1 DEF Sweep, SweepFile, SweepLock, Otherwise
    <3>2. CASE ~Sweep(c)
      BY <1>3, <3>2, UninstallTypes DEF Otherwise
    <3>. QED  BY <3>1, <3>2
  <2>. QED  BY <1>3, <2>1, UninstallEngines
<1>4. CASE UNCHANGED vars
  BY <1>4, SparesEngines DEF vars, files, Spares
<1>. QED  BY <1>1, <1>2, <1>3, <1>4, StartEngines, DaemonEngines, LockStepEngines, InstallEngines
          DEF Next

(* installCommand (install.mjs): wherever an install fails, rolls back or  *)
(* dies, and whatever runs beside it, install.json names no engine that is *)
(* not there, unless an uninstall runs or a lock is lost to a known race.  *)
THEOREM EngineIsThereHolds == Spec => []EngineIsThere
<1>1. EngineInv => EngineIsThere
  BY DEF EngineInv, EngineIsThere, Uninstalls, EnginesKept
<1>. QED
  BY <1>1, InitTypes, NextTypes, InitLocks, NextLocks, InitEngines, NextEngines, PTL DEF Spec

=============================================================================
