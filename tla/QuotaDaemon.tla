---------------------------- MODULE QuotaDaemon ----------------------------
(***************************************************************************)
(* daemonCommand of src/host/daemon.mjs from the moment it owns the        *)
(* session record: how it keeps a quota provider at work, what its         *)
(* publishers show, cache and record, the replay of the restart cache of   *)
(* src/host/quota-cache.mjs, and the shutdown.                             *)
(*                                                                         *)
(* A candidate is a coordinator with the provider it was created with.     *)
(* QuotaCoordinator models the coordinator; here it is what QuotaFeed says *)
(* of it: it publishes or reports one thing at a time, begins nothing once *)
(* stop() has been called, and stop() settles when it rests.  A candidate  *)
(* that has stopped, and of which nothing is under way any more, is        *)
(* forgotten, and may stand for the next one.                              *)
(*                                                                         *)
(* The publishers run as tasks: of a candidate's coordinator, of           *)
(* recoverProvider, or of a start that fails.  An action is what runs      *)
(* between two awaits.                                                     *)
(***************************************************************************)
EXTENDS Naturals, Sequences

CONSTANTS
    Candidates,    \* bound: as many as are at work, or being given up, at once
    None,          \* null
    CacheEnabled,  \* CODEX_QUOTA_DISABLE_CACHE is not set
    MaxAccount     \* bound: how often auth.json changes

ASSUME NoneAssumption == None \notin Candidates \cup Nat
ASSUME CacheEnabledAssumption == CacheEnabled \in BOOLEAN
ASSUME MaxAccountAssumption == MaxAccount \in Nat

VARIABLES
    main,        \* the await that daemonCommand itself stands at
    stop,        \* what waitForDaemonStop has settled with
    normalStop,
    start,       \* providerStartPromise: where startProvider stands, and its candidate
    coordinator,
    retry,       \* providerRetryTimer is armed
    candidate,   \* the lifetime of each candidate
    recovery,    \* recoverProvider of each candidate
    task,        \* the publish and publishUnavailable calls in progress
    replay,      \* cacheReplayPromise
    loading, entry, \* cachedEntryPromise
    live,        \* liveSnapshotPublished
    quotaStatus,
    shown,       \* the last call the bridge remembers
    crossed,     \* history: it contradicts one that was being shown, and not recorded yet
    cache,       \* quota-cache.json: the account context, and the snapshot's account
    session,     \* session.json
    queue,       \* sessionWriteQueue: the patches not written
    writing,     \* the record that the update at work has read
    awaited,     \* how many of the queue's updates the shutdown awaits
    account,     \* external: the version of auth.json
    accountAtReplay \* history: the account when the replay began

supervisionVars == <<start, coordinator, retry, candidate, recovery>>
mainVars == <<main, stop, normalStop, awaited>>
replayVars == <<replay, loading, entry, accountAtReplay>>
shownVars == <<live, quotaStatus, shown, crossed>>
sessionVars == <<session, queue, writing>>
vars == <<mainVars, supervisionVars, task, replayVars, shownVars, cache, sessionVars, account>>

-----------------------------------------------------------------------------

Accounts == 0..MaxAccount
Contexts == Accounts \cup {None}
Envelopes == [context : Contexts, account : Contexts]
NoEnvelope == [context |-> None, account |-> None]

Feed(c) == <<"feed", c>>
Recovery(c) == <<"recovery", c>>
Start == <<"start", None>>
Main == <<"main", None>>
Replay == <<"replay", None>>
Nobody == <<"nobody", None>>

Tasks == {Feed(c) : c \in Candidates} \cup {Recovery(c) : c \in Candidates} \cup {Start}

TaskStates == [does : {"nothing", "live", "unbound", "unstable", "unavailable"},
               at : {"rest", "awaitReplay", "show", "stat", "write", "delete", "record"},
               account : Contexts, context : Contexts]
Resting == [does |-> "nothing", at |-> "rest", account |-> None, context |-> None]

Shutdown == {"awaitReplay", "awaitStart", "awaitCoordinator", "cleanup", "awaitWrites",
             "remove", "ended"}
QuotaStatuses == {"loading", "cached", "available", "unavailable"}
Records == [exists : BOOLEAN, status : {"starting", "ready", "stopping", "error"},
            quota : QuotaStatuses \cup {"unset"}]
Patches == [by : Tasks \cup {Main, Replay, Nobody},
            status : {"ready", "stopping", "error", "kept"},
            quota : QuotaStatuses \cup {"kept"}]

TypeOK ==
    /\ main \in {"startBridge", "recordReady", "serve", "recordStop"} \cup Shutdown
    /\ stop \in {"none", "request", "signal", "cdp-closed"}
    /\ normalStop \in BOOLEAN
    /\ start \in [at : {"none", "resolving", "starting", "discarding", "failing", "reporting"},
                  of : Candidates \cup {None}]
    /\ coordinator \in Candidates \cup {None}
    /\ retry \in BOOLEAN
    /\ candidate \in [Candidates -> {"unborn", "starting", "running", "stopping", "stopped"}]
    /\ recovery \in [Candidates -> {"none", "stopping", "reporting"}]
    /\ task \in [Tasks -> TaskStates]
    /\ replay \in {"unset", "load", "check", "delete", "show", "record", "done"}
    /\ loading \in BOOLEAN
    /\ entry \in Envelopes
    /\ live \in BOOLEAN
    /\ quotaStatus \in QuotaStatuses
    /\ crossed \in BOOLEAN
    /\ shown \in [what : {"nothing", "cached", "live", "unavailable"}, account : Contexts]
    /\ cache \in Envelopes
    /\ session \in Records
    /\ queue \in Seq(Patches)
    /\ writing \in Records \cup {None}
    /\ awaited \in 0..Len(queue)
    /\ account \in Accounts
    /\ accountAtReplay \in Accounts

(* The parent's identity gate is behind the daemon; the watcher and the    *)
(* bridge exist, and the cache is being read.                              *)
Init ==
    /\ main = "startBridge"
    /\ stop = "none"
    /\ normalStop = FALSE
    /\ start = [at |-> "none", of |-> None]
    /\ coordinator = None
    /\ retry = FALSE
    /\ candidate = [c \in Candidates |-> "unborn"]
    /\ recovery = [c \in Candidates |-> "none"]
    /\ task = [k \in Tasks |-> Resting]
    /\ replay = "unset"
    /\ loading = TRUE
    /\ entry = NoEnvelope
    /\ live = FALSE
    /\ quotaStatus = "loading"
    /\ shown = [what |-> "nothing", account |-> None]
    /\ crossed = FALSE
    /\ account \in Accounts
    /\ cache \in {NoEnvelope} \cup {[context |-> a, account |-> a] : a \in 0..account}
    /\ session = [exists |-> TRUE, status |-> "starting", quota |-> "unset"]
    /\ queue = <<>>
    /\ writing = None
    /\ awaited = 0
    /\ accountAtReplay = 0

Stopping == main \in Shutdown

(* What the stat of auth.json yields; None: it cannot be read.             *)
Captured == {account, None}

-----------------------------------------------------------------------------
(* safeUpdate, and the updates of the session record, one after the other. *)

(* Faulty: an update does not wait for those before it.                    *)
EnqueueFirst(by, status, quota) ==
    /\ queue' = <<[by |-> by, status |-> status, quota |-> quota]>> \o queue
    /\ UNCHANGED <<session, writing>>

Enqueue(by, status, quota) ==
    /\ queue' = Append(queue, [by |-> by, status |-> status, quota |-> quota])
    /\ UNCHANGED <<session, writing>>

Recorded(by) == \A i \in DOMAIN queue : queue[i].by # by

Dequeue ==
    /\ queue' = Tail(queue)
    /\ awaited' = IF awaited = 0 THEN 0 ELSE awaited - 1

(* updateSession throws when the record is gone.                           *)
UpdateReads ==
    /\ queue # <<>> /\ writing = None
    /\ IF session.exists
       THEN writing' = session /\ UNCHANGED <<queue, awaited>>
       ELSE Dequeue /\ UNCHANGED writing
    /\ UNCHANGED <<main, stop, normalStop, supervisionVars, task, replayVars, shownVars, cache,
                   session, account>>

Patched(record, patch) ==
    [exists |-> TRUE,
     status |-> IF patch.status = "kept" THEN record.status ELSE patch.status,
     quota |-> IF patch.quota = "kept" THEN record.quota ELSE patch.quota]

UpdateWrites ==
    /\ writing # None
    /\ session' = Patched(writing, Head(queue))
    /\ writing' = None
    /\ Dequeue
    /\ UNCHANGED <<main, stop, normalStop, supervisionVars, task, replayVars, shownVars, cache,
                   account>>

(* The heartbeat of the session, or the first page that is ready: patches  *)
(* of other fields.                                                        *)
Beat ==
    /\ main \notin {"awaitWrites", "remove", "ended"}
    /\ Recorded(Nobody)
    /\ Enqueue(Nobody, "kept", "kept")
    /\ UNCHANGED <<mainVars, supervisionVars, task, replayVars, shownVars, cache, account>>

-----------------------------------------------------------------------------
(* Keeping a provider at work.                                             *)

(* scheduleProviderRetry, with a timer that is `armed' or not.             *)
ScheduleRetry(armed, inCharge, starting) ==
    retry' = (armed \/ (~Stopping /\ inCharge = None /\ ~starting))

Rests(k) == task[k] = Resting

Begin(k, does, a) ==
    task' = [task EXCEPT ![k] =
                [does |-> does, at |-> "awaitReplay", account |-> a, context |-> None]]

(* Faulty: nobody looks for a provider that closed while it started.       *)
StartEndsQuietly(armed, inCharge) ==
    /\ start' = [at |-> "none", of |-> None]
    /\ retry' = armed

(* The `finally' of ensureProvider.                                        *)
StartEnds(armed, inCharge) ==
    /\ start' = [at |-> "none", of |-> None]
    /\ ScheduleRetry(armed, inCharge, FALSE)

(* The runtime is found: a candidate, in charge at once, starts.           *)
StartResolves(c) ==
    /\ start.at = "resolving"
    /\ candidate[c] = "unborn"
    /\ start' = [at |-> "starting", of |-> c]
    /\ coordinator' = c
    /\ candidate' = [candidate EXCEPT ![c] = "starting"]
    /\ UNCHANGED <<mainVars, retry, recovery, task, replayVars, shownVars, cache, sessionVars,
                   account>>

(* Or it is not: reported, unless the daemon stops.                        *)
StartResolvesNothing ==
    /\ start.at = "resolving"
    /\ IF Stopping
       THEN StartEnds(retry, coordinator) /\ UNCHANGED task
       ELSE /\ start' = [start EXCEPT !.at = "reporting"]
            /\ Begin(Start, "unavailable", None)
            /\ UNCHANGED retry
    /\ UNCHANGED <<mainVars, coordinator, candidate, recovery, replayVars, shownVars, cache,
                   sessionVars, account>>

ProviderStarts(c) ==
    /\ candidate[c] = "starting"
    /\ candidate' = [candidate EXCEPT ![c] = "running"]
    /\ UNCHANGED <<mainVars, start, coordinator, retry, recovery, task, replayVars, shownVars,
                   cache, sessionVars, account>>

ProviderStartFails(c) ==
    /\ candidate[c] = "starting"
    /\ candidate' = [candidate EXCEPT ![c] = "stopping"]
    /\ start' = [start EXCEPT !.at = "failing"]
    /\ coordinator' = IF coordinator = c THEN None ELSE coordinator
    /\ UNCHANGED <<mainVars, retry, recovery, task, replayVars, shownVars, cache, sessionVars,
                   account>>

(* candidate.start() returns: the provider runs, or has closed since, and  *)
(* the first refresh is over.  A stop() after another's returns at once.   *)
StartReturns ==
    LET c == start.of IN
    /\ start.at = "starting"
    /\ candidate[c] \in {"running", "stopping", "stopped"}
    /\ Rests(Feed(c))
    /\ IF Stopping
       THEN /\ coordinator' = IF coordinator = c THEN None ELSE coordinator
            /\ IF candidate[c] = "running"
               THEN /\ candidate' = [candidate EXCEPT ![c] = "stopping"]
                    /\ start' = [start EXCEPT !.at = "discarding"]
                    /\ UNCHANGED retry
               ELSE StartEnds(retry, coordinator') /\ UNCHANGED candidate
       ELSE StartEnds(FALSE, coordinator) /\ UNCHANGED <<coordinator, candidate>>
    /\ UNCHANGED <<mainVars, recovery, task, replayVars, shownVars, cache, sessionVars, account>>

(* The candidate that startProvider gives up has stopped.                  *)
StartGivesUp ==
    /\ start.at \in {"discarding", "failing"}
    /\ candidate[start.of] = "stopped"
    /\ IF start.at = "discarding" \/ Stopping
       THEN StartEnds(retry, coordinator) /\ UNCHANGED task
       ELSE /\ start' = [start EXCEPT !.at = "reporting"]
            /\ Begin(Start, "unavailable", None)
            /\ UNCHANGED retry
    /\ UNCHANGED <<mainVars, coordinator, candidate, recovery, replayVars, shownVars, cache,
                   sessionVars, account>>

StartReported ==
    /\ start.at = "reporting"
    /\ Rests(Start)
    /\ StartEnds(retry, coordinator)
    /\ UNCHANGED <<mainVars, coordinator, candidate, recovery, task, replayVars, shownVars, cache,
                   sessionVars, account>>

(* The retry timer: ensureProvider.                                        *)
RetryElapses ==
    /\ retry
    /\ retry' = FALSE
    /\ start' = IF start.at = "none" /\ coordinator = None
                THEN [at |-> "resolving", of |-> None] ELSE start
    /\ UNCHANGED <<mainVars, coordinator, candidate, recovery, task, replayVars, shownVars, cache,
                   sessionVars, account>>

(* Faulty: the coordinator of the provider is dropped, and not stopped.    *)
ProviderDropped(c) ==
    /\ candidate[c] = "running"
    /\ ~Stopping /\ coordinator = c
    /\ coordinator' = None
    /\ recovery' = [recovery EXCEPT ![c] = "stopping"]
    /\ UNCHANGED <<mainVars, start, retry, candidate, task, replayVars, shownVars, cache,
                   sessionVars, account>>

(* The provider closes: recoverProvider stops its coordinator.  Nobody     *)
(* acts on the end of a provider that is closed, or once the daemon stops. *)
ProviderDies(c) ==
    /\ candidate[c] = "running"
    /\ ~Stopping /\ coordinator = c
    /\ coordinator' = None
    /\ candidate' = [candidate EXCEPT ![c] = "stopping"]
    /\ recovery' = [recovery EXCEPT ![c] = "stopping"]
    /\ UNCHANGED <<mainVars, start, retry, task, replayVars, shownVars, cache, sessionVars,
                   account>>

RecoveryReports(c) ==
    /\ recovery[c] = "stopping"
    /\ candidate[c] = "stopped"
    /\ recovery' = [recovery EXCEPT ![c] = "reporting"]
    /\ Begin(Recovery(c), "unavailable", None)
    /\ UNCHANGED <<mainVars, start, coordinator, retry, candidate, replayVars, shownVars, cache,
                   sessionVars, account>>

RecoveryEnds(c) ==
    /\ recovery[c] = "reporting"
    /\ Rests(Recovery(c))
    /\ recovery' = [recovery EXCEPT ![c] = "none"]
    /\ ScheduleRetry(retry, coordinator, start.at # "none")
    /\ UNCHANGED <<mainVars, start, coordinator, candidate, task, replayVars, shownVars, cache,
                   sessionVars, account>>

(* coordinator.stop() settles.                                             *)
CandidateStops(c) ==
    /\ candidate[c] = "stopping"
    /\ Rests(Feed(c))
    /\ candidate' = [candidate EXCEPT ![c] = "stopped"]
    /\ UNCHANGED <<mainVars, start, coordinator, retry, recovery, task, replayVars, shownVars,
                   cache, sessionVars, account>>

CandidateForgotten(c) ==
    /\ candidate[c] = "stopped"
    /\ recovery[c] = "none" /\ start.of # c /\ coordinator # c
    /\ candidate' = [candidate EXCEPT ![c] = "unborn"]
    /\ UNCHANGED <<mainVars, start, coordinator, retry, recovery, task, replayVars, shownVars,
                   cache, sessionVars, account>>

-----------------------------------------------------------------------------
(* The publishers.                                                         *)

(* The coordinator publishes what it read for the account its context      *)
(* shows (PublishedForItsAccount): "unbound" when the context is null.     *)
Publishes(c, does) ==
    /\ candidate[c] = "running"
    /\ Rests(Feed(c))
    /\ Begin(Feed(c), does, IF does \in {"live", "unbound"} THEN account ELSE None)
    /\ UNCHANGED <<mainVars, supervisionVars, replayVars, shownVars, cache, sessionVars, account>>

Goes(k, stage) == task' = [task EXCEPT ![k].at = stage]

Ends(k) == task' = [task EXCEPT ![k] = Resting]

(* The status that a task writes into the session record.                  *)
Reports(does) == IF does = "unavailable" THEN "unavailable" ELSE "available"

(* The task has set quotaStatus, and not written it into the record.       *)
Shows(k) == task[k].at \in {"show", "stat", "write", "delete"} /\ task[k].does # "unstable"

Contradicts(k) == \E j \in Tasks : Shows(j) /\ Reports(task[j].does) # Reports(task[k].does)

(* Faulty: publish does not await the replay of the cache.                 *)
ReplayIgnored == TRUE

(* Faulty: the promise never settles when no replay is made.               *)
ReplayNeverUnset == replay = "done"

(* cacheReplayPromise has settled; it is settled from the outset.          *)
ReplayOver == replay \in {"unset", "done"}

(* The replay is over: a snapshot of two accounts is dropped, and whatever *)
(* was cached; anything else is shown.                                     *)
TaskShows(k) ==
    /\ task[k].at = "awaitReplay"
    /\ ReplayOver
    /\ IF task[k].does = "unstable"
       THEN /\ IF CacheEnabled THEN Goes(k, "delete") ELSE Ends(k)
            /\ UNCHANGED shownVars
       ELSE /\ Goes(k, "show")
            /\ quotaStatus' = Reports(task[k].does)
            /\ live' = (live \/ task[k].does # "unavailable")
            /\ shown' = IF task[k].does = "unavailable"
                        THEN [what |-> "unavailable", account |-> None]
                        ELSE [what |-> "live", account |-> task[k].account]
            /\ crossed' = Contradicts(k)
    /\ UNCHANGED <<mainVars, supervisionVars, replayVars, cache, sessionVars, account>>

RecordsStatus(k) ==
    /\ Goes(k, "record")
    /\ Enqueue(k, "kept", Reports(task[k].does))

(* The bridge has called all pages.                                        *)
TaskShown(k) ==
    /\ task[k].at = "show"
    /\ CASE CacheEnabled /\ task[k].does = "live" -> Goes(k, "stat") /\ UNCHANGED sessionVars
         [] CacheEnabled /\ task[k].does = "unbound" -> Goes(k, "delete") /\ UNCHANGED sessionVars
         [] OTHER -> RecordsStatus(k)
    /\ UNCHANGED <<mainVars, supervisionVars, replayVars, shownVars, cache, account>>

(* Faulty: the context is not compared with the snapshot's.                *)
AnyContext(k, context) == context # None

SameContext(k, context) == context = task[k].account

(* writeQuotaCache: the file is written for the account of this moment,    *)
(* which has to be the snapshot's.  A snapshot without a general bucket is *)
(* not cached.                                                             *)
TaskStats(k) ==
    /\ task[k].at = "stat"
    /\ \E context \in Captured :
          \/ /\ SameContext(k, context)
             /\ task' = [task EXCEPT ![k].at = "write", ![k].context = context]
          \/ Goes(k, "delete")
    /\ UNCHANGED <<mainVars, supervisionVars, replayVars, shownVars, cache, sessionVars, account>>

(* The write of the cache may fail: that is logged.                        *)
TaskWrites(k) ==
    /\ task[k].at = "write"
    /\ cache' \in {cache, [context |-> task[k].context, account |-> task[k].account]}
    /\ RecordsStatus(k)
    /\ UNCHANGED <<mainVars, supervisionVars, replayVars, shownVars, account>>

TaskDeletes(k) ==
    /\ task[k].at = "delete"
    /\ cache' \in {cache, NoEnvelope}
    /\ IF task[k].does = "unstable"
       THEN Ends(k) /\ UNCHANGED sessionVars
       ELSE RecordsStatus(k)
    /\ UNCHANGED <<mainVars, supervisionVars, replayVars, shownVars, account>>

TaskEnds(k) ==
    /\ task[k].at = "record"
    /\ Recorded(k)
    /\ Ends(k)
    /\ UNCHANGED <<mainVars, supervisionVars, replayVars, shownVars, cache, sessionVars, account>>

-----------------------------------------------------------------------------
(* The restart cache.                                                      *)

(* readQuotaCacheEntry: what is expired, or of another account than that   *)
(* of this moment, is deleted.  A disabled cache is deleted in any case.   *)
CacheLoads ==
    /\ loading
    /\ loading' = FALSE
    /\ \/ /\ CacheEnabled
          /\ cache # NoEnvelope
          /\ cache.context \in Captured
          /\ entry' = cache
          /\ UNCHANGED cache
       \/ /\ entry' = NoEnvelope
          /\ cache' = NoEnvelope
    /\ UNCHANGED <<mainVars, supervisionVars, task, replay, accountAtReplay, shownVars,
                   sessionVars, account>>

(* Nothing is replayed over live figures, or by a daemon that stops.       *)
ReplayBegins ==
    /\ replay = "load"
    /\ ~loading
    /\ replay' = IF entry = NoEnvelope \/ live \/ Stopping THEN "done" ELSE "check"
    /\ UNCHANGED <<mainVars, supervisionVars, task, loading, entry, accountAtReplay, shownVars,
                   cache,
                   sessionVars, account>>

(* Faulty: the context of the cache is not checked again.                  *)
EntryAlwaysCurrent(context) == TRUE

EntryCurrent(context) == entry.context = context

ReplayChecks ==
    /\ replay = "check"
    /\ \E context \in Captured :
          \/ /\ ~EntryCurrent(context)
             /\ replay' = "delete"
             /\ UNCHANGED shownVars
          \/ /\ EntryCurrent(context)
             /\ live \/ Stopping
             /\ replay' = "done"
             /\ UNCHANGED shownVars
          \/ /\ EntryCurrent(context)
             /\ ~live /\ ~Stopping
             /\ replay' = "show"
             /\ quotaStatus' = "cached"
             /\ shown' = [what |-> "cached", account |-> entry.account]
             /\ UNCHANGED <<live, crossed>>
    /\ UNCHANGED <<mainVars, supervisionVars, task, loading, entry, accountAtReplay, cache,
                   sessionVars,
                   account>>

ReplayDeletes ==
    /\ replay = "delete"
    /\ cache' \in {cache, NoEnvelope}
    /\ replay' = "done"
    /\ UNCHANGED <<mainVars, supervisionVars, task, loading, entry, accountAtReplay, shownVars,
                   sessionVars, account>>

ReplayShown ==
    /\ replay = "show"
    /\ replay' = "record"
    /\ Enqueue(Replay, "kept", "cached")
    /\ UNCHANGED <<mainVars, supervisionVars, task, loading, entry, accountAtReplay, shownVars,
                   cache,
                   account>>

ReplayEnds ==
    /\ replay = "record"
    /\ Recorded(Replay)
    /\ replay' = "done"
    /\ UNCHANGED <<mainVars, supervisionVars, task, loading, entry, accountAtReplay, shownVars,
                   cache,
                   sessionVars, account>>

-----------------------------------------------------------------------------
(* daemonCommand itself.                                                   *)

(* The bridge has started: the replay and the first start of a provider    *)
(* begin.                                                                  *)
BridgeStarts ==
    /\ main = "startBridge"
    /\ stop = "none"
    /\ main' = "recordReady"
    /\ replay' = "load"
    /\ accountAtReplay' = account
    /\ start' = [at |-> "resolving", of |-> None]
    /\ Enqueue(Main, "ready", quotaStatus)
    /\ UNCHANGED <<stop, normalStop, awaited, coordinator, retry, candidate, recovery, task,
                   loading, entry,
                   shownVars, cache, account>>

(* The catch: an error is recorded, unless the stop is a normal one.       *)
Fails(normal) ==
    /\ normalStop' = normal
    /\ IF normal
       THEN main' = "awaitReplay" /\ retry' = FALSE /\ UNCHANGED sessionVars
       ELSE main' = "recordStop" /\ Enqueue(Main, "error", "kept") /\ UNCHANGED retry
    /\ UNCHANGED <<stop, awaited, coordinator, candidate, recovery, task, loading, entry,
                   shownVars, cache, account>>

(* The bridge does not start, or a stop comes first.                       *)
StartupFails ==
    /\ main = "startBridge"
    /\ \E normal \in {FALSE, stop = "request"} : Fails(normal)
    /\ UNCHANGED <<start, replay, accountAtReplay>>

(* The bridge starts, and the watcher has failed by then.                  *)
WatcherFailedEarly ==
    /\ main = "startBridge"
    /\ stop = "cdp-closed"
    /\ replay' = "load"
    /\ accountAtReplay' = account
    /\ start' = [at |-> "resolving", of |-> None]
    /\ Fails(FALSE)

Ready ==
    /\ main = "recordReady"
    /\ Recorded(Main)
    /\ main' = "serve"
    /\ UNCHANGED <<stop, normalStop, awaited, supervisionVars, task, replayVars, shownVars, cache,
                   sessionVars, account>>

(* waitForDaemonStop settles: a stop request, or a session that is         *)
(* replaced; a signal; a watcher that fails.                               *)
StopSignalled(reason) ==
    /\ stop = "none"
    /\ ~Stopping
    /\ stop' = reason
    /\ UNCHANGED <<main, normalStop, awaited, supervisionVars, task, replayVars, shownVars, cache,
                   sessionVars, account>>

Stops ==
    /\ main = "serve"
    /\ stop # "none"
    /\ main' = "recordStop"
    /\ normalStop' = (stop # "cdp-closed")
    /\ Enqueue(Main, IF stop = "cdp-closed" THEN "error" ELSE "stopping", "kept")
    /\ UNCHANGED <<stop, awaited, supervisionVars, task, replayVars, shownVars, cache, account>>

(* The `finally': no retry is made any more.                               *)
ShutdownBegins ==
    /\ main = "recordStop"
    /\ Recorded(Main)
    /\ main' = "awaitReplay"
    /\ retry' = FALSE
    /\ UNCHANGED <<stop, normalStop, awaited, start, coordinator, candidate, recovery, task,
                   replayVars, shownVars, cache, sessionVars, account>>

ReplayAwaited ==
    /\ main = "awaitReplay"
    /\ ReplayOver
    /\ main' = "awaitStart"
    /\ UNCHANGED <<stop, normalStop, awaited, supervisionVars, task, replayVars, shownVars, cache,
                   sessionVars, account>>

(* Faulty: the coordinator is dropped before a start under way is over.    *)
StartNotAwaited == TRUE

StartOver == start.at = "none"

(* The coordinator in charge, if any, is stopped.                          *)
StartAwaited ==
    /\ main = "awaitStart"
    /\ StartOver
    /\ main' = IF coordinator = None THEN "cleanup" ELSE "awaitCoordinator"
    /\ candidate' = IF coordinator = None THEN candidate
                    ELSE [candidate EXCEPT ![coordinator] = "stopping"]
    /\ UNCHANGED <<stop, normalStop, awaited, start, coordinator, retry, recovery, task,
                   replayVars, shownVars, cache, sessionVars, account>>

CoordinatorAwaited ==
    /\ main = "awaitCoordinator"
    /\ coordinator = None \/ candidate[coordinator] = "stopped"
    /\ coordinator' = None
    /\ main' = "cleanup"
    /\ UNCHANGED <<stop, normalStop, awaited, start, candidate, retry, recovery, task,
                   replayVars, shownVars, cache, sessionVars, account>>

(* The pages are clean and the watcher is closed.  What is in the queue    *)
(* now is awaited.                                                         *)
CleanedUp ==
    /\ main = "cleanup"
    /\ main' = "awaitWrites"
    /\ awaited' = Len(queue)
    /\ UNCHANGED <<stop, normalStop, supervisionVars, task, replayVars, shownVars, cache,
                   sessionVars, account>>

(* Faulty: the updates under way are not awaited.                          *)
WritesNotAwaited == TRUE

WritesOver == awaited = 0

WritesAwaited ==
    /\ main = "awaitWrites"
    /\ WritesOver
    /\ main' = IF normalStop THEN "remove" ELSE "ended"
    /\ UNCHANGED <<stop, normalStop, awaited, supervisionVars, task, replayVars, shownVars, cache,
                   sessionVars, account>>

(* removeSession, of a record that is still the daemon's own; with it the  *)
(* stop request, and the daemon's lock.                                    *)
RemoveSession ==
    /\ main = "remove"
    /\ session' = [session EXCEPT !.exists = FALSE]
    /\ main' = "ended"
    /\ UNCHANGED <<stop, normalStop, awaited, supervisionVars, task, replayVars, shownVars, cache,
                   queue, writing, account>>

AccountChanges ==
    /\ account < MaxAccount
    /\ account' = account + 1
    /\ UNCHANGED <<mainVars, supervisionVars, task, replayVars, shownVars, cache, sessionVars>>

-----------------------------------------------------------------------------

TaskSteps(k) ==
    TaskShows(k) \/ TaskShown(k) \/ TaskStats(k) \/ TaskWrites(k) \/ TaskDeletes(k) \/ TaskEnds(k)

Starting ==
    \/ StartResolvesNothing \/ StartReturns \/ StartGivesUp \/ StartReported \/ RetryElapses
    \/ \E c \in Candidates : StartResolves(c) \/ ProviderStarts(c) \/ ProviderStartFails(c)

Living(c) ==
    \/ ProviderDies(c) \/ RecoveryReports(c) \/ RecoveryEnds(c)
    \/ CandidateStops(c) \/ CandidateForgotten(c)
    \/ \E does \in {"live", "unbound", "unstable", "unavailable"} : Publishes(c, does)

Replaying ==
    CacheLoads \/ ReplayBegins \/ ReplayChecks \/ ReplayDeletes \/ ReplayShown \/ ReplayEnds

Commanding ==
    \/ BridgeStarts \/ StartupFails \/ WatcherFailedEarly \/ Ready \/ Stops
    \/ ShutdownBegins \/ ReplayAwaited \/ StartAwaited \/ CoordinatorAwaited
    \/ CleanedUp \/ WritesAwaited \/ RemoveSession

Updating == UpdateReads \/ UpdateWrites

Signals == \E reason \in {"request", "signal", "cdp-closed"} : StopSignalled(reason)

Next ==
    \/ \E k \in Tasks : TaskSteps(k)
    \/ \E c \in Candidates : Living(c)
    \/ Starting \/ Replaying \/ Commanding \/ Updating \/ Beat \/ Signals \/ AccountChanges

Spec == Init /\ [][Next]_vars

(* Every await settles: files are read and written, the bridge's calls and *)
(* the app-server's requests have timeouts, the runtime is looked for in a *)
(* bounded time, and a first refresh does not go on for ever.  Nothing     *)
(* makes a provider start, live, or die.                                   *)
Fairness ==
    /\ \A k \in Tasks : WF_vars(TaskSteps(k))
    /\ \A c \in Candidates :
          /\ WF_vars(CandidateStops(c))
          /\ WF_vars(RecoveryReports(c) \/ RecoveryEnds(c))
          /\ WF_vars(ProviderStarts(c) \/ ProviderStartFails(c))
    /\ WF_vars(StartResolvesNothing \/ \E c \in Candidates : StartResolves(c))
    /\ SF_vars(StartReturns)
    /\ WF_vars(StartGivesUp \/ StartReported \/ RetryElapses)
    /\ WF_vars(Replaying) /\ WF_vars(Commanding) /\ WF_vars(Updating)

FairSpec == Spec /\ Fairness

-----------------------------------------------------------------------------
(* While the daemon serves, a provider is in charge, or one is on its way: *)
(* a start under way, a retry, or the recovery that will make one.  The    *)
(* timer of a retry is never armed beside a provider in charge or a start, *)
(* nor in a daemon that stops.  (A recovery may stand beside any of them,  *)
(* and a provider is in charge while it starts.)                           *)
Supervised ==
    /\ main \in {"recordReady", "serve"} =>
          \/ coordinator # None \/ start.at # "none" \/ retry
          \/ \E c \in Candidates : recovery[c] # "none"
    /\ retry => coordinator = None /\ start.at = "none" /\ ~Stopping

(* At most one candidate is at work, the one in charge: no provider is     *)
(* left running behind the daemon's back.                                  *)
OneProviderAtWork ==
    \A c \in Candidates : candidate[c] \in {"starting", "running"} => coordinator = c

(* What the cache keeps for an account context was read for that account.  *)
CacheOfItsAccount == cache.context = cache.account

(* Cached figures are shown only for an account that was the current one   *)
(* when the replay began, or later: never for one that had been left.      *)
CachedForCurrentAccount ==
    shown.what = "cached" => shown.account \in accountAtReplay..account

(* Cached figures never come after live ones, or after a report of         *)
(* unavailability.                                                         *)
CachedComesFirst ==
    [][shown'.what = "cached" => shown.what \in {"nothing", "cached"}]_vars

(* When the command ends nothing of the daemon is left to run, but for the *)
(* recovery of a provider that closed before the stop.                     *)
ShutdownComplete ==
    main = "ended" =>
        /\ start.at = "none" /\ ~retry /\ coordinator = None
        /\ ReplayOver
        /\ \A c \in Candidates :
              recovery[c] = "none" =>
                  /\ candidate[c] \in {"unborn", "stopped"}
                  /\ Rests(Feed(c)) /\ Rests(Recovery(c))
        /\ Rests(Start)

(* Nothing but such a recovery writes the record again after its removal.  *)
OnlyRecoveryRevives ==
    [][~session.exists /\ session'.exists =>
          \E c \in Candidates :
              recovery[c] # "none" /\ Head(queue).by \in {Feed(c), Recovery(c)}]_vars

(* When nothing is under way, the session record tells what is shown.  It  *)
(* may fail to in one case: a provider closes while it starts, the report  *)
(* of that waits for the pages, and the provider that comes after it has   *)
(* published in the meantime (or the other way round).  Each records what  *)
(* it has shown when its own calls return, in either order.                *)
RecordTellsWhatIsShown ==
    ~crossed /\ session.exists /\ session.status \in {"ready", "stopping"} /\ queue = <<>>
        /\ ReplayOver /\ (\A k \in Tasks : Rests(k)) =>
            session.quota = CASE shown.what = "nothing" -> "loading"
                              [] shown.what = "live" -> "available"
                              [] OTHER -> shown.what

(* A normal stop leaves no record of the session behind.                   *)
SessionRemoved == main = "ended" /\ normalStop => ~session.exists

(* The daemon keeps trying: for ever some candidate is in charge, or being *)
(* looked for.                                                             *)
KeepsTrying ==
    []<>(coordinator # None \/ start.at = "resolving" \/ stop # "none"
         \/ main \in {"startBridge", "recordStop"} \cup Shutdown)

(* A daemon told to stop ends.                                             *)
ShutdownTerminates == stop # "none" ~> main = "ended"

=============================================================================
