----------------------------- MODULE Lifecycle -----------------------------
(***************************************************************************)
(* The commands start, install and uninstall (src/commands/), the daemons  *)
(* that starts spawn (src/host/daemon.mjs), and the files they meet in:    *)
(* start.lock and daemon.lock (src/fs-utils.mjs), session.json             *)
(* (src/session-state.mjs), stop.request, install.json and the engines.    *)
(*                                                                         *)
(* Each process runs on its own: a step is one access to a file, or one    *)
(* wait.  Any of them may die between two steps, and an earlier run may    *)
(* have left its files behind.  Commands and daemons take their lock by    *)
(* the same code, so a process is a kind and a name: the daemon spawned by *)
(* the start c is named c, which is also its session's nonce.              *)
(*                                                                         *)
(* The PID of a dead process may be in use by an unrelated one at any      *)
(* moment: then it counts as running, and no inspection recognizes it.     *)
(***************************************************************************)
EXTENDS Naturals

CONSTANTS
    Commands,  \* the commands run, each once
    Old,       \* names what an earlier run has left: its processes are dead
    None,      \* no file, or nothing
    Missing,   \* no file, because a writer is replacing it
    MaxCrashes \* bound: how many processes die

ASSUME NamesAssumption ==
    None # Missing /\ Old \notin {None, Missing}
        /\ Commands \cap {Old, None, Missing} = {}
ASSUME MaxCrashesAssumption == MaxCrashes \in Nat

Kinds == {"command", "daemon"}
Names == Commands \cup {Old}
Status == {"launching", "starting", "ready", "stopping", "error"}

\* session.json: pid says whether it holds the daemon's PID and identity
Session == [nonce : Names, status : Status, pid : BOOLEAN, port : Names]
\* start.lock and daemon.lock: written once its holder has put its PID there
Lock == [by : Names, written : BOOLEAN]

ASSUME RecordsAssumption == {None, Missing} \cap (Session \cup Lock) = {}

\* Where a process stands before it holds its lock, and once it does.
Outside == {"idle", "spawned", "locking", "judging", "breaking", "reopening", "ended"}
Inside == {"writing", "releasing", "looking", "inspecting", "checking",
           "selecting", "pending", "launching", "recording", "clearing", "spawning",
           "identifying", "merging", "adopting", "preserving", "failing",
           "gate", "beginning", "running", "updating", "removing", "unlinking", "forgetting",
           "requesting", "waiting", "rechecking", "helping", "sweeping",
           "staging", "remembering", "switching", "linking", "restoring", "discarding"}

VARIABLES
    operation, \* what each command is
    pc,        \* where each process stands
    seen,      \* what each process has read
    lock,      \* start.lock ("command") and daemon.lock ("daemon")
    session, stopRequest,
    config,    \* install.json: the installed engine
    engines,   \* the engine directories that are complete
    activated, \* history: the port Codex was last activated with, unless
               \* the record of it was removed, or --port named another since
    raced,     \* history: a lock has been lost to a known race
    crashes

files == <<session, stopRequest, config, engines>>
vars == <<operation, pc, seen, lock, files, activated, raced, crashes>>

TypeOK ==
    /\ operation \in [Commands -> {"start", "install", "uninstall"}]
    /\ pc \in [Kinds -> [Commands -> Outside \cup Inside]]
    /\ seen \in [Kinds -> [Commands -> Session \cup Names \cup {None}]]
    /\ lock \in [Kinds -> Lock \cup {None}]
    /\ session \in Session \cup {None, Missing}
    /\ stopRequest \in Names \cup {None}
    /\ config \in Names \cup {None, Missing}
    /\ engines \subseteq Names
    /\ activated \in Names \cup {None}
    /\ raced \in BOOLEAN
    /\ crashes \in 0..MaxCrashes

-----------------------------------------------------------------------------
At(k, c, step) == pc[k][c] = step
Goto(k, c, step) == pc' = [pc EXCEPT ![k][c] = step]
Note(k, c, what) == seen' = [seen EXCEPT ![k][c] = what]

Alive(k, c) == c \in Commands /\ ~At(k, c, "idle") /\ ~At(k, c, "ended")

\* isProcessRunning may take another process for a dead one, never a live
\* one for dead.
RunningAnswers(k, c) == IF Alive(k, c) THEN {TRUE} ELSE BOOLEAN

\* Missing and None read the same.
Stored(file) == file \notin {None, Missing}
Read(file) == IF Stored(file) THEN file ELSE None

SessionOf(c) == Stored(session) /\ session.nonce = c

Sweeping(u) == At("command", u, "sweeping")

\* The step loses a lock to a race the code does not exclude if cause holds.
RacedIf(cause) == raced' = (raced \/ cause)

Holds(k, c) == pc[k][c] \notin Outside

\* The daemon has passed its gate and has not finished.
Owning == {"beginning", "running", "updating", "removing", "unlinking", "forgetting"}
Owns(c) == pc["daemon"][c] \in Owning

\* If start.lock is free, such an uninstall has removed its own.
Uninstalling(u) == operation[u] = "uninstall" /\ Holds("command", u)

Leftover(status, pid) == [nonce |-> Old, status |-> status, pid |-> pid, port |-> Old]

Init ==
    /\ operation \in [Commands -> {"start", "install", "uninstall"}]
    /\ pc = [k \in Kinds |-> [c \in Commands |-> "idle"]]
    /\ seen = [k \in Kinds |-> [c \in Commands |-> None]]
    /\ lock \in [Kinds -> {None, [by |-> Old, written |-> TRUE], [by |-> Old, written |-> FALSE]}]
    /\ session \in {None, Leftover("launching", FALSE), Leftover("ready", TRUE)}
    /\ stopRequest = None
    /\ config \in {None, Old}
    /\ engines = {config} \ {None}
    /\ activated = None
    /\ raced = FALSE
    /\ crashes = 0

-----------------------------------------------------------------------------
(* acquireFileLock, by whatever process.                                   *)

First(k, c) ==
    CASE k = "daemon" -> "gate"
      [] operation[c] = "start" -> "selecting"
      [] operation[c] = "install" -> "staging"
      [] operation[c] = "uninstall" -> "looking"

Contends(k, c) == At(k, c, IF k = "command" THEN "idle" ELSE "locking")

\* open(path, "wx"): creates the file, or finds that it exists.
Creates(k, c) ==
    /\ lock[k] = None
    /\ lock' = [lock EXCEPT ![k] = [by |-> c, written |-> FALSE]]
    /\ Goto(k, c, "writing")
    /\ RacedIf(k = "command" /\ \E u \in Commands : Uninstalling(u))

OpenLock(k, c) ==
    /\ Contends(k, c)
    /\ \/ Creates(k, c)
       \/ lock[k] # None /\ Goto(k, c, "judging") /\ UNCHANGED <<lock, raced>>
    /\ UNCHANGED <<operation, seen, files, activated, crashes>>

\* Mutant: the process the lock names is not looked up.
EveryLockIsStale(k) == {lock[k] # None /\ lock[k].written}

\* A lock is stale if it names a process that is dead.
StaleAnswers(k) ==
    IF lock[k] # None /\ lock[k].written
    THEN {~running : running \in RunningAnswers(k, lock[k].by)}
    ELSE {FALSE}

JudgeLock(k, c) ==
    /\ At(k, c, "judging")
    /\ \E stale \in StaleAnswers(k) :
        IF stale
        THEN Goto(k, c, "breaking") /\ Note(k, c, lock[k].by)
        ELSE Goto(k, c, "ended") /\ UNCHANGED seen
    /\ UNCHANGED <<operation, lock, files, activated, raced, crashes>>

\* What is removed need not be what was judged.
BreakLock(k, c) ==
    /\ At(k, c, "breaking")
    /\ lock' = [lock EXCEPT ![k] = None]
    /\ RacedIf(lock[k] # None /\ lock[k].by # seen[k][c])
    /\ Goto(k, c, "reopening")
    /\ UNCHANGED <<operation, seen, files, activated, crashes>>

ReopenLock(k, c) ==
    /\ At(k, c, "reopening")
    /\ \/ Creates(k, c)
       \/ lock[k] # None /\ Goto(k, c, "ended") /\ UNCHANGED <<lock, raced>>
    /\ UNCHANGED <<operation, seen, files, activated, crashes>>

\* The handle may by now be that of a file that was removed.
WriteLock(k, c) ==
    /\ At(k, c, "writing")
    /\ lock' = IF lock[k] = [by |-> c, written |-> FALSE]
               THEN [lock EXCEPT ![k].written = TRUE] ELSE lock
    /\ Goto(k, c, First(k, c))
    /\ UNCHANGED <<operation, seen, files, activated, raced, crashes>>

\* By name, whoever holds it by now.
ReleaseLock(k, c) ==
    /\ At(k, c, "releasing")
    /\ lock' = [lock EXCEPT ![k] = None]
    /\ RacedIf(lock[k] # None /\ lock[k].by # c)
    /\ Goto(k, c, "ended")
    /\ UNCHANGED <<operation, seen, files, activated, crashes>>

\* A step that touches no lock.
Otherwise == UNCHANGED <<operation, lock, raced, crashes>>

-----------------------------------------------------------------------------
(* writeJsonAtomic renames over the old file; where Windows refuses, it    *)
(* removes the old file first.                                             *)

WritingSession == {"pending", "recording", "adopting", "failing", "updating"}
WritingConfig == {"switching", "restoring"}

RemoveToReplace(k, c) ==
    /\ \/ /\ pc[k][c] \in WritingSession /\ Stored(session)
          /\ session' = Missing /\ UNCHANGED config
       \/ /\ pc[k][c] \in WritingConfig /\ Stored(config)
          /\ ~(At(k, c, "restoring") /\ seen[k][c] = None)
          /\ config' = Missing /\ UNCHANGED session
    /\ UNCHANGED <<pc, seen, stopRequest, engines, activated>>
    /\ Otherwise

-----------------------------------------------------------------------------
(* startCommand                                                            *)

Start(c, step) == At("command", c, step) /\ operation[c] = "start"
Becomes(c, step) == Goto("command", c, step)

\* selectRuntime fails closed if what is installed is not there.
SelectRuntime(c) ==
    /\ Start(c, "selecting")
    /\ Becomes(c, IF Stored(config) /\ config \notin engines THEN "releasing" ELSE "looking")
    /\ UNCHANGED <<seen, files, activated>> /\ Otherwise

LookForSession(c) ==
    /\ Start(c, "looking")
    /\ Note("command", c, Read(session))
    /\ Becomes(c, IF Stored(session) /\ session.pid THEN "inspecting" ELSE "checking")
    /\ UNCHANGED <<files, activated>> /\ Otherwise

\* A daemon that is recognized is reused, or refused for its runtime or
\* port; a PID that is in use by what is not recognized is refused.
InspectRecorded(c) ==
    /\ Start(c, "inspecting")
    /\ \E running \in RunningAnswers("daemon", seen["command"][c].nonce) :
        Becomes(c, IF running THEN "releasing" ELSE "checking")
    /\ UNCHANGED <<seen, files, activated>> /\ Otherwise

\* Mutant: daemon.lock is not read.
DaemonLockIgnored == {FALSE}

\* An unreadable daemon.lock is refused as a held one is.
DaemonLockAnswers ==
    IF lock["daemon"] = None THEN {FALSE}
    ELSE IF lock["daemon"].written THEN RunningAnswers("daemon", lock["daemon"].by)
    ELSE {TRUE}

CheckDaemonLock(c) ==
    /\ Start(c, "checking")
    /\ \E held \in DaemonLockAnswers : Becomes(c, IF held THEN "releasing" ELSE "pending")
    /\ UNCHANGED <<seen, files, activated>> /\ Otherwise

\* Mutant: every start chooses a port.
PendingWithFreshPort(c, given) ==
    [nonce |-> c, status |-> "launching", pid |-> FALSE, port |-> c]

\* given: with --port, another port than the record's.
PendingRecord(c, given) ==
    [nonce |-> c, status |-> "launching", pid |-> FALSE,
     port |-> IF given \/ seen["command"][c] = None THEN c ELSE seen["command"][c].port]

\* The port of a record that is gone is nobody's to recover, nor is one that
\* whoever starts puts another in the place of.
WritePending(c) ==
    /\ Start(c, "pending")
    /\ \E given \in BOOLEAN :
        /\ session' = PendingRecord(c, given)
        /\ activated' = IF given \/ seen["command"][c] = None THEN None ELSE activated
        /\ Note("command", c, PendingRecord(c, given))
    /\ Becomes(c, "launching")
    /\ UNCHANGED <<stopRequest, config, engines>> /\ Otherwise

\* A launch that fails may have started Codex all the same.
Launch(c) ==
    /\ Start(c, "launching")
    /\ \/ activated' = seen["command"][c].port /\ Becomes(c, "recording")
       \/ activated' \in {activated, seen["command"][c].port} /\ Becomes(c, "preserving")
    /\ UNCHANGED <<seen, files>> /\ Otherwise

WriteSession(c) ==
    /\ Start(c, "recording")
    /\ session' = [seen["command"][c] EXCEPT !.status = "starting"]
    /\ Becomes(c, "clearing")
    /\ UNCHANGED <<seen, stopRequest, config, engines, activated>> /\ Otherwise

RemoveStopRequest(c) ==
    /\ Start(c, "clearing")
    /\ stopRequest' = None
    /\ Becomes(c, "spawning")
    /\ UNCHANGED <<seen, session, config, engines, activated>> /\ Otherwise

\* A spawn that times out may have spawned.
Spawn(c) ==
    /\ Start(c, "spawning")
    /\ \/ pc' = [pc EXCEPT !["daemon"][c] = "spawned", !["command"][c] = "identifying"]
       \/ pc' = [pc EXCEPT !["daemon"][c] = "spawned", !["command"][c] = "preserving"]
       \/ Becomes(c, "preserving")
    /\ UNCHANGED <<seen, files, activated>> /\ Otherwise

\* waitForDaemonInfo, then what updateSession reads.
IdentifyDaemon(c) ==
    /\ Start(c, "identifying")
    /\ \/ Alive("daemon", c) /\ Becomes(c, "merging")
       \/ Becomes(c, "preserving")
    /\ UNCHANGED <<seen, files, activated>> /\ Otherwise

ReadToAdopt(c) ==
    /\ Start(c, "merging")
    /\ IF SessionOf(c)
       THEN Note("command", c, [session EXCEPT !.pid = TRUE]) /\ Becomes(c, "adopting")
       ELSE UNCHANGED seen /\ Becomes(c, "preserving")
    /\ UNCHANGED <<files, activated>> /\ Otherwise

\* From here start waits for the daemon to be ready, or not any more.
WriteAdopted(c) ==
    /\ Start(c, "adopting")
    /\ session' = seen["command"][c]
    /\ Becomes(c, "releasing")
    /\ UNCHANGED <<seen, stopRequest, config, engines, activated>> /\ Otherwise

\* preserveSessionError
ReadToPreserve(c) ==
    /\ Start(c, "preserving")
    /\ IF SessionOf(c) /\ session.status # "error"
       THEN Note("command", c, [session EXCEPT !.status = "error"]) /\ Becomes(c, "failing")
       ELSE UNCHANGED seen /\ Becomes(c, "releasing")
    /\ UNCHANGED <<files, activated>> /\ Otherwise

WriteError(c) ==
    /\ Start(c, "failing")
    /\ session' = seen["command"][c]
    /\ Becomes(c, "releasing")
    /\ UNCHANGED <<seen, stopRequest, config, engines, activated>> /\ Otherwise

StartSteps(c) ==
    \/ SelectRuntime(c) \/ LookForSession(c) \/ InspectRecorded(c) \/ CheckDaemonLock(c)
    \/ WritePending(c) \/ Launch(c) \/ WriteSession(c) \/ RemoveStopRequest(c) \/ Spawn(c)
    \/ IdentifyDaemon(c) \/ ReadToAdopt(c) \/ WriteAdopted(c)
    \/ ReadToPreserve(c) \/ WriteError(c)

-----------------------------------------------------------------------------
(* daemonCommand, as far as the files go; QuotaDaemon has the rest.        *)

Turns(c, step) == Goto("daemon", c, step)

ReadInitial(c) ==
    /\ At("daemon", c, "spawned")
    /\ Turns(c, IF SessionOf(c) /\ session.status # "error" THEN "locking" ELSE "ended")
    /\ UNCHANGED <<seen, files, activated>> /\ Otherwise

\* waitForParentIdentity: it polls until its parent has put the daemon's
\* identity into the record.
Identified(c) == SessionOf(c) /\ session.status # "error" /\ session.pid

PassGate(c) ==
    /\ At("daemon", c, "gate")
    /\ Identified(c)
    /\ Turns(c, "beginning")
    /\ UNCHANGED <<seen, files, activated>> /\ Otherwise

\* The record is gone, another's or an error's, or the wait times out.
LeaveGate(c) ==
    /\ At("daemon", c, "gate")
    /\ Turns(c, "releasing")
    /\ UNCHANGED <<seen, files, activated>> /\ Otherwise

\* Where the daemon stands after an update of the status; an update that
\* fails is only logged.
AfterUpdate(status) ==
    CASE status \in {"launching", "starting"} -> "beginning"
      [] status = "ready" -> "running"
      [] status = "stopping" -> "removing"
      [] status = "error" -> "releasing"

\* updateSession: read, change, write.
ReadToUpdate(c, status) ==
    /\ IF SessionOf(c)
       THEN Note("daemon", c, [session EXCEPT !.status = status]) /\ Turns(c, "updating")
       ELSE UNCHANGED seen /\ Turns(c, AfterUpdate(status))
    /\ UNCHANGED <<files, activated>> /\ Otherwise

WriteUpdate(c) ==
    /\ At("daemon", c, "updating")
    /\ session' = seen["daemon"][c]
    /\ Turns(c, AfterUpdate(seen["daemon"][c].status))
    /\ UNCHANGED <<seen, stopRequest, config, engines, activated>> /\ Otherwise

\* The updates before and at readiness, and the heartbeat.
Updates(c) ==
    \/ At("daemon", c, "beginning") /\ \E s \in {"starting", "ready"} : ReadToUpdate(c, s)
    \/ At("daemon", c, "running") /\ ReadToUpdate(c, "ready")

\* The CDP endpoint closes, or a part of the daemon fails.
Fails(c) ==
    /\ At("daemon", c, "beginning") \/ At("daemon", c, "running")
    /\ ReadToUpdate(c, "error")

Interrupted(c) == At("daemon", c, "running") /\ ReadToUpdate(c, "stopping")

\* waitForDaemonStop
ToldToStop(c) == stopRequest = c \/ (Stored(session) /\ session.nonce # c)

NoticesStop(c) ==
    /\ ToldToStop(c)
    /\ \/ At("daemon", c, "running") /\ ReadToUpdate(c, "stopping")
       \/ /\ At("daemon", c, "beginning") /\ Turns(c, "removing")
          /\ UNCHANGED <<seen, files, activated>> /\ Otherwise

\* removeSession: compared here, removed by name below.
ReadToRemove(c) ==
    /\ At("daemon", c, "removing")
    /\ Turns(c, IF Stored(session) /\ session.nonce # c THEN "forgetting" ELSE "unlinking")
    /\ UNCHANGED <<seen, files, activated>> /\ Otherwise

UnlinkSession(c) ==
    /\ At("daemon", c, "unlinking")
    /\ session' = None
    /\ activated' = IF SessionOf(c) THEN None ELSE activated
    /\ Turns(c, "forgetting")
    /\ UNCHANGED <<seen, stopRequest, config, engines>> /\ Otherwise

ForgetStopRequest(c) ==
    /\ At("daemon", c, "forgetting")
    /\ stopRequest' = None
    /\ Turns(c, "releasing")
    /\ UNCHANGED <<seen, session, config, engines, activated>> /\ Otherwise

DaemonSteps(c) ==
    \/ ReadInitial(c) \/ PassGate(c) \/ LeaveGate(c)
    \/ Updates(c) \/ WriteUpdate(c) \/ Fails(c) \/ Interrupted(c) \/ NoticesStop(c)
    \/ ReadToRemove(c) \/ UnlinkSession(c) \/ ForgetStopRequest(c)

-----------------------------------------------------------------------------
(* uninstallCommand                                                        *)

Uninstall(c, step) == At("command", c, step) /\ operation[c] = "uninstall"

LookToUninstall(c) ==
    /\ Uninstall(c, "looking")
    /\ Note("command", c, Read(session))
    /\ Becomes(c, "checking")
    /\ UNCHANGED <<files, activated>> /\ Otherwise

\* Mutant: only the session record tells of a daemon.
LifecycleIgnored == {FALSE}

\* An unreadable daemon.lock counts as none here.
LifecycleAnswers ==
    IF lock["daemon"] # None /\ lock["daemon"].written
    THEN RunningAnswers("daemon", lock["daemon"].by) ELSE {FALSE}

HasPid(record) == record # None /\ record.pid

CheckLifecycle(c) ==
    /\ Uninstall(c, "checking")
    /\ LET record == seen["command"][c]
           Recorded(d) == HasPid(record) /\ record.nonce = d
       IN \E active \in LifecycleAnswers :
            IF active /\ ~Recorded(lock["daemon"].by) THEN Becomes(c, "releasing")
            ELSE IF ~HasPid(record) THEN Becomes(c, "rechecking")
            ELSE \E running \in RunningAnswers("daemon", record.nonce) :
                    Becomes(c, IF running THEN "inspecting" ELSE "rechecking")
    /\ UNCHANGED <<seen, files, activated>> /\ Otherwise

\* validateSessionDaemon: an inspection may always fail.
ValidateDaemon(c) ==
    /\ Uninstall(c, "inspecting")
    /\ \/ Alive("daemon", seen["command"][c].nonce) /\ Becomes(c, "requesting")
       \/ Becomes(c, "releasing")
    /\ UNCHANGED <<seen, files, activated>> /\ Otherwise

RequestStop(c) ==
    /\ Uninstall(c, "requesting")
    /\ stopRequest' = seen["command"][c].nonce
    /\ Becomes(c, "waiting")
    /\ UNCHANGED <<seen, session, config, engines, activated>> /\ Otherwise

\* waitForProcessExit, which may time out.
WaitForExit(c) ==
    /\ Uninstall(c, "waiting")
    /\ \/ ~Alive("daemon", seen["command"][c].nonce) /\ Becomes(c, "rechecking")
       \/ Becomes(c, "releasing")
    /\ UNCHANGED <<seen, files, activated>> /\ Otherwise

RecheckLifecycle(c) ==
    /\ Uninstall(c, "rechecking")
    /\ \E active \in LifecycleAnswers : Becomes(c, IF active THEN "releasing" ELSE "helping")
    /\ UNCHANGED <<seen, files, activated>> /\ Otherwise

\* The paths are checked and the helper removes the shortcuts.
RemoveShortcuts(c) ==
    /\ Uninstall(c, "helping")
    /\ Becomes(c, "sweeping") \/ Becomes(c, "releasing")
    /\ UNCHANGED <<seen, files, activated>> /\ Otherwise

\* rm(root, recursive) removes what it finds, in any order.
SweepLock(c, k) ==
    /\ lock[k] # None
    /\ lock' = [lock EXCEPT ![k] = None]
    /\ RacedIf(lock[k].by # c /\ Alive(k, lock[k].by))
    /\ UNCHANGED <<operation, pc, seen, files, activated, crashes>>

SweepFile(c) ==
    /\ \/ /\ Stored(session) /\ session' = None /\ activated' = None
          /\ UNCHANGED <<stopRequest, config, engines>>
       \/ /\ stopRequest # None /\ stopRequest' = None
          /\ UNCHANGED <<session, config, engines, activated>>
       \/ /\ Stored(config) /\ config' = None
          /\ UNCHANGED <<session, stopRequest, engines, activated>>
       \/ /\ \E e \in engines : engines' = engines \ {e}
          /\ UNCHANGED <<session, stopRequest, config, activated>>
    /\ UNCHANGED <<pc, seen>> /\ Otherwise

Sweep(c) == Sweeping(c) /\ (SweepFile(c) \/ \E k \in Kinds : SweepLock(c, k))

\* The root is gone, and with it the lock; or the removal fails.
SweepEnds(c) ==
    /\ Sweeping(c)
    /\ \/ /\ lock = [k \in Kinds |-> None] /\ engines = {}
          /\ ~Stored(session) /\ stopRequest = None /\ ~Stored(config)
          /\ Becomes(c, "ended")
       \/ Becomes(c, "releasing")
    /\ UNCHANGED <<seen, files, activated>> /\ Otherwise

UninstallSteps(c) ==
    \/ LookToUninstall(c) \/ CheckLifecycle(c) \/ ValidateDaemon(c) \/ RequestStop(c)
    \/ WaitForExit(c) \/ RecheckLifecycle(c) \/ RemoveShortcuts(c)
    \/ Sweep(c) \/ SweepEnds(c)

-----------------------------------------------------------------------------
(* installCommand                                                          *)

Install(c, step) == At("command", c, step) /\ operation[c] = "install"

\* The copy is verified against its source, then renamed into place.
Stage(c) ==
    /\ Install(c, "staging")
    /\ \/ engines' = engines \cup {c} /\ Becomes(c, "remembering")
       \/ Becomes(c, "releasing") /\ UNCHANGED engines
    /\ UNCHANGED <<seen, session, stopRequest, config, activated>> /\ Otherwise

RememberPrevious(c) ==
    /\ Install(c, "remembering")
    /\ Note("command", c, Read(config))
    /\ Becomes(c, "switching")
    /\ UNCHANGED <<files, activated>> /\ Otherwise

Switch(c) ==
    /\ Install(c, "switching")
    /\ config' = c
    /\ Becomes(c, "linking")
    /\ UNCHANGED <<seen, session, stopRequest, engines, activated>> /\ Otherwise

CreateShortcuts(c) ==
    /\ Install(c, "linking")
    /\ Becomes(c, "releasing") \/ Becomes(c, "restoring")
    /\ UNCHANGED <<seen, files, activated>> /\ Otherwise

\* Mutant: the engine is removed whether or not the record is restored.
RestoreAndGoOn(c) ==
    /\ Install(c, "restoring")
    /\ config' \in {config, seen["command"][c]}
    /\ Becomes(c, "discarding")
    /\ UNCHANGED <<seen, session, stopRequest, engines, activated>> /\ Otherwise

\* The rollback, either half of which may fail.
RestorePrevious(c) ==
    /\ Install(c, "restoring")
    /\ \/ config' = seen["command"][c] /\ Becomes(c, "discarding")
       \/ Becomes(c, "releasing") /\ UNCHANGED config
    /\ UNCHANGED <<seen, session, stopRequest, engines, activated>> /\ Otherwise

DiscardEngine(c) ==
    /\ Install(c, "discarding")
    /\ engines' \in {engines, engines \ {c}}
    /\ Becomes(c, "releasing")
    /\ UNCHANGED <<seen, session, stopRequest, config, activated>> /\ Otherwise

InstallSteps(c) ==
    \/ Stage(c) \/ RememberPrevious(c) \/ Switch(c) \/ CreateShortcuts(c)
    \/ RestorePrevious(c) \/ DiscardEngine(c)

-----------------------------------------------------------------------------
Crash(k, c) ==
    /\ crashes < MaxCrashes /\ Alive(k, c)
    /\ crashes' = crashes + 1
    /\ Goto(k, c, "ended")
    /\ UNCHANGED <<operation, seen, lock, files, activated, raced>>

LockSteps(k, c) ==
    \/ OpenLock(k, c) \/ JudgeLock(k, c) \/ BreakLock(k, c) \/ ReopenLock(k, c)
    \/ WriteLock(k, c) \/ ReleaseLock(k, c)

Next ==
    \/ \E k \in Kinds, c \in Commands :
        LockSteps(k, c) \/ RemoveToReplace(k, c) \/ Crash(k, c)
    \/ \E c \in Commands :
        StartSteps(c) \/ DaemonSteps(c) \/ UninstallSteps(c) \/ InstallSteps(c)

Spec == Init /\ [][Next]_vars

-----------------------------------------------------------------------------
(* What the files promise.  Every property excepts what follows a race the *)
(* code does not exclude, which `raced' records: a stale lock that is      *)
(* broken after another process has broken and retaken it, a lock that is  *)
(* released by one who has lost it, and an uninstall that removes its own  *)
(* lock, or a late daemon's, with the root.                                *)

\* acquireFileLock: of the commands, and of the daemons, one at a time is
\* past its lock, so that at most one daemon owns the session.
OneAtATime ==
    \A k \in Kinds : \A c, d \in Commands :
        Holds(k, c) /\ Holds(k, d) /\ c # d => raced

\* From its gate until it removes the record, session.json is that of the
\* daemon that owns it, PID and all, whatever commands run or die beside it
\* (daemon.mjs:28: "the sole session writer"): a later start or uninstall
\* finds the daemon by it.  It is absent only while the daemon replaces it.
OwnerIsRecorded ==
    \A c \in Commands :
        \/ ~Owns(c) \/ raced
        \/ SessionOf(c) /\ session.pid
        \/ session = Missing /\ At("daemon", c, "updating")
        \/ At("daemon", c, "forgetting")

\* uninstall removes the root only when no daemon owns the session, and none
\* passes its gate while it does so, although it looks at the record and the
\* lock once each, before and after its wait.
UninstallsIdle ==
    \A u, c \in Commands : Sweeping(u) /\ Owns(c) => raced

\* install.json never names an engine that is not there, wherever an install
\* fails, rolls back or dies; only an uninstall may leave it so.
EngineIsThere ==
    \/ raced \/ (\E u \in Commands : operation[u] = "uninstall")
    \/ Stored(config) => config \in engines

\* The port Codex was activated with stays in the record until a daemon or
\* an uninstall removes it or a start with --port replaces it by another,
\* whatever fails or dies, so that the next start can find Codex there
\* (start.mjs:363).  The exception is a crash between the two halves of a
\* replacement.
PortRecoverable ==
    \/ activated = None \/ raced \/ session = Missing
    \/ Stored(session) /\ session.port = activated

=============================================================================
